SPECIFICATION Spec
CONSTANTS
    MaxSequence = 5
    MaxTime = 2
INVARIANT NoGapMissed
INVARIANT RangesStayUnique
CHECK_DEADLOCK FALSE
