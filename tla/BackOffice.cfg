SPECIFICATION BackOfficeSpec
CONSTANTS
    a = a
    b = b
    old = old
    krw = krw
    usd = usd
    Accounts = {a, b}
    Versions = {old, krw, usd}
    Approved = {krw, usd}
    Code <- MCCode
    Scope <- MCScope
    Dates = {1, 2, 3}
    SecretVersions = {1, 2, 3}
    Logins = {l}
    Requests = {r1, r2}
    Approvals = {p, q}
    FirstSession = s
    MaxFaults = 1
    InitialStores <- MCInitialStores
    Menus <- MCMenus
SYMMETRY Alike
INVARIANT LedgerTellsTruth
INVARIANT OneInForce
INVARIANT EnabledIsBound
PROPERTY HistoryIsSettled
CHECK_DEADLOCK FALSE
