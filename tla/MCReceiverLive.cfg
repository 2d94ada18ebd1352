SPECIFICATION FairSpec
CONSTANTS
    Requests = {r1, r2}
    Outbox = outbox
    EventIds = {e1, e2}
    NoEvent = none
    NoFp = null
    f1 = f1
    f2 = f2
    Fingerprints = {f1}
    LockKey <- OneKey
    Payloads <- SinglePayloads
    Window = 2
    BatchLimit = 1
    MaxTime = 1
    MaxFaults = 1
    MaxCrashes = 1
PROPERTIES
    AdmittedIsPublished
    HandlersFinish
