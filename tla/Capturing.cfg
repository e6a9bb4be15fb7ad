SPECIFICATION CaptureSpec
CONSTANTS
    N = 3
    Figures = {1}
    PageLimit = 3
    MaxChanges = 3
    MaxRestarts = 1
INVARIANT NothingMissed
INVARIANT StableWasTrue
CHECK_DEADLOCK FALSE
