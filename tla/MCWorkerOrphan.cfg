SPECIFICATION Spec
CONSTANTS
    Workers = {w1}
    Events = {e1}
    Poison = poison
    f1 = f1
    Fingerprints = {f1}
    NoFp = null
    FpOf <- OneFp
    TicketIds = {t1}
    NoTicket = none
    ReadCount = 1
    MaxMessages = 1
    MaxFaults = 0
    MaxCrashes = 0
INVARIANT OpenTicketHasOpenWindow
