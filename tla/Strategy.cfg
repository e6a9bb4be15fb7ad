SPECIFICATION StrategySpec
CONSTANTS
    Left = 1
    Warmup = 1
    BarsPerDate = 2
    AthDates = 1
    OrdinaryDates = 2
    MinTouches = 2
    Half = 2
    TapeEnd = 11
    FlowStart = 0
    Gap = 1
    Tick = 1
    MinEvents = 2
    MaxMarkers = 1
    NormalRank = 50
    MinDeltas = 2
    FlowWindow = 2
    FastDays = 2
    SlowDays = 3
    Shapes <- MCShapes
    Page = 5
    AtrWindow = 2
    Buffer = 1
    Targets <- MCTargets
    Daily <- MCDaily
    HeldRanges = 4
    Day = 8
    Heads <- MCHeads
    Starts <- MCStarts
    Writers = {this, other}
    Self = this
    PageLimit = 3
    Calendar <- MCCalendar
    Session <- MCSession
    MaxLives = 2
    MaxContexts = 2
INVARIANT QualifiedSetupIsDrawn
INVARIANT SentIsRecorded
INVARIANT NoHoles
INVARIANT ReadingsMeetTheirDefinition
CHECK_DEADLOCK FALSE
