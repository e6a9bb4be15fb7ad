SPECIFICATION Spec
CONSTANTS
    Runtimes = {r1, r2}
    Opens = {o1}
    Closes = {l1}
    Cancels = {}
    Replaces = {}
    Ttl = 1
    Window = 2
    MaxTime = 2
    MaxToken = 3
    MaxSends = 2
SYMMETRY Symmetry
INVARIANT OneSendUnlessLost
INVARIANT RowMatchesBroker
INVARIANT FencedForGood
