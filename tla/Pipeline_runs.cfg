SPECIFICATION FairSpec
CONSTANTS
    r1 = r1
    r2 = r2
    Runs = {r1, r2}
    MaxCopies = 2
    Requests = {"cancel", "retry", "clear", "dequeue", "delete"}
    Faults = {"slice", "raise", "pipeline", "requeue", "restart"}
INVARIANTS
    TypeOK
    UnderWayIsMoving
PROPERTIES
    CancelSticks
    RunsEnd
CHECK_DEADLOCK FALSE
