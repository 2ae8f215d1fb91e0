SPECIFICATION FairSpec
CONSTANTS
    r1 = r1
    r2 = r2
    Rows = {r1, r2}
    Limit = 3
    MaxCost = 2
    MaxTold = 1
    Faults = {"database", "uncharged", "rejected", "restart", "misnamed", "missed", "offline"}
INVARIANTS
    TypeOK
    NeverOverspent
    PrintsAreHeld
    HoldsAreOwned
PROPERTIES
    HoldsEnd
CHECK_DEADLOCK FALSE
