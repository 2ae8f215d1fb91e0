SPECIFICATION Spec
CONSTANTS
    i1 = i1
    i2 = i2
    p1 = p1
    p2 = p2
    Items = {i1, i2}
    Printers = {p1, p2}
    NoPrinter = NoPrinter
    NoJob = NoJob
    MaxAttempts = 2
    UploadLimit = 2
    PlateGate = FALSE
    Gated = {}
    Batch = {}
    Requests = {}
    Faults = {"offline"}
PROPERTIES
    OfflineRowsAreLeftAlone
