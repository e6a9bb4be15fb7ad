SPECIFICATION Spec
CONSTANTS
    Orders = {a, b}
    Vouched = {a, b}
    Workers = {w1, w2}
    Deadlines = {1, 3}
    Window = 2
    Transit = 1
    MaxTime = 2
    MaxManual = 1
    MaxCalls = 3
    MaxFaults = 1
SYMMETRY Alike
INVARIANT NeverTwice
INVARIANT AnswerIsTrue
INVARIANT AdoptsItsOwn
CHECK_DEADLOCK FALSE
