SPECIFICATION Spec
CONSTANTS
    Requests = {r1, r2, r3}
    Outbox = outbox
    EventIds = {e1, e2, e3}
    NoEvent = none
    NoFp = null
    f1 = f1
    f2 = f2
    Fingerprints = {f1}
    LockKey <- OneKey
    Payloads <- SinglePayloads
    Window = 2
    BatchLimit = 1
    MaxTime = 3
    MaxFaults = 0
    MaxCrashes = 0
SYMMETRY Symmetric
INVARIANTS
    TypeOK
    OneOpenWindow
    ResponsesTruthful
PROPERTIES
    RowHistoryStable
