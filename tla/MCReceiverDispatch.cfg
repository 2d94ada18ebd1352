SPECIFICATION Spec
CONSTANTS
    Requests = {r1, r2}
    Outbox = outbox
    EventIds = {e1, e2, e3}
    NoEvent = none
    NoFp = null
    f1 = f1
    f2 = f2
    Fingerprints = {f1, f2}
    LockKey <- OneKey
    Payloads <- BatchPayloads
    Window = 2
    BatchLimit = 1
    MaxTime = 1
    MaxFaults = 1
    MaxCrashes = 1
SYMMETRY Symmetric

    
    
INVARIANTS
    DedupeCountExact
    ReceiptNamesEvent
    RepeatsNeedFaults
