SPECIFICATION Spec
CONSTANTS
    Events = {e1, e2}
    Refused = {e2}
    Publishers = {p1, p2}
    Consumers = {c1, c2}
    Nobody = nobody
    Batch = 2
    MaxFaults = 1
INVARIANT AcknowledgedIsCommitted
PROPERTY ImplementsLog
CHECK_DEADLOCK FALSE
