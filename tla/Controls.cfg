SPECIFICATION Spec
CONSTANTS
    Scopes = {g, x}
    Global = g
    Commands = {c1, c2}
    ApprovalIds = {a1}
    Sessions = {s1}
    Policies = {p1, p2}
    Writers = {w1}
SYMMETRY Symmetry
INVARIANT StopHolds
INVARIANT LedgerTellsTheTruth
INVARIANT ApprovalBuysOneChange
PROPERTY StartingNeedsApproval
CHECK_DEADLOCK FALSE
