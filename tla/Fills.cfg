SPECIFICATION Spec
CONSTANTS
    Accounts = {a1}
    Global = global
    Orders = {o1, o2}
    Executions = {1, 2, 3}
    Quantities = {1, 2}
    Prices = {1}
    Risks = {2}
    HardLimit = 3
SYMMETRY Symmetry
INVARIANT PositionAddsUp
INVARIANT LifecycleFollowsPosition
INVARIANT OverfillIsReported
INVARIANT RiskAddsUp
INVARIANT LimitHolds
CHECK_DEADLOCK FALSE
