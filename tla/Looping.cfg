SPECIFICATION Spec
CONSTANTS
    Entries = {e1, e2}
    Stop = stop
    Manual = manual
    Settlement = usdt
    Assets = {usdt, bnb}
    Size = 1
    HistoryLimit = 3
    MaxManual = 1
    MaxAged = 1
    MaxCrashes = 1
    MaxClears = 1
INVARIANT NoRecentTradeLost
INVARIANT NoEntryWhileUnprotected
PROPERTY TroubleIsStopped
PROPERTY SettlementCompletes
