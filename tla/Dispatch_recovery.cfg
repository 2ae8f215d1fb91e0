SPECIFICATION FairSpec
CONSTANTS
    i1 = i1
    p1 = p1
    Items = {i1}
    Printers = {p1}
    NoPrinter = NoPrinter
    NoJob = NoJob
    MaxAttempts = 2
    UploadLimit = 1
    PlateGate = FALSE
    Gated = {}
    Batch = {}
    Requests = {"stop"}
    Faults = {"lost", "clearFail", "misnamed", "crash", "offline"}
PROPERTIES
    ClaimsAreReleased
    PrintingEnds
