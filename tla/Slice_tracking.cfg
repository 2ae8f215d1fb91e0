SPECIFICATION FairSpec
CONSTANTS
    a = a
    b = b
    Slices = {a, b}
    NoSlice = NoSlice
    MaxRestarts = 1
    Faults = {"restart", "aged", "error", "reload"}
INVARIANTS
    TypeOK
    ToldOnce
    ToldTheTruth
    SpinnersMatchJobs
PROPERTIES
    EveryEndIsTold
CHECK_DEADLOCK FALSE
