SPECIFICATION Spec
CONSTANTS
    i1 = i1
    p1 = p1
    Items = {i1}
    Printers = {p1}
    NoPrinter = NoPrinter
    NoJob = NoJob
    MaxAttempts = 2
    UploadLimit = 2
    PlateGate = FALSE
    Gated = {i1}
    Batch = {i1}
    Requests = {"cancel", "delete", "resume", "edit", "editMidPass", "bulk", "stop", "stopMidSend", "cancelLate", "deleteLate"}
    Faults = {"crash", "offline", "lost", "late", "reject", "refuse", "uploadFail", "clearFail", "rack", "budget", "short", "unmappable", "dismiss", "wedge", "misnamed"}
INVARIANTS
    TypeOK
    OneActor
    AttemptsBounded
    SendingIsLive
