SPECIFICATION PaperSpec
CONSTANTS
    MarketPrices = {8, 12, 16}
    Frame = 2
    MaxMoment = 6
    Buffer = 2
    Atr = 4
    Cost = 2
    Slippage = 2
    Offsets = {0, 6}
    AddMoves = {2, 6}
    Equities = {400, 800}
    Fractions <- MCFractions
    Cap = 2
    ExitKinds = {"EMERGENCY"}
    Levels = {2}
INVARIANT LedgerIsTheJournal
INVARIANT StopNeverLost
PROPERTY StopOnlyTightens
INVARIANT RiskWithinBudget
