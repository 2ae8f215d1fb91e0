SPECIFICATION Spec
CONSTANTS
    v1 = v1
    Viewers = {v1}
    MaxBroadcasters = 3
    QueueSize = 4
    Faults = {}
INVARIANTS
    OneSocket
CHECK_DEADLOCK FALSE
