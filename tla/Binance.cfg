SPECIFICATION Spec
CONSTANTS
    First = first
    Move = move
    Entry = entry
    Close = close
    Nothing = nothing
    MaxPosts = 2
    MaxCrashes = 1
INVARIANT OncePerLife
INVARIANT RecordedStopProtects
INVARIANT EmergencyLeavesNothing
CHECK_DEADLOCK FALSE
