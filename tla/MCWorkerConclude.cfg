SPECIFICATION FairSpec
CONSTANTS
    Workers = {w1}
    Events = {e1, e2}
    Poison = poison
    f1 = f1
    Fingerprints = {f1}
    NoFp = null
    FpOf <- OneFp
    TicketIds = {t1, t2}
    NoTicket = none
    ReadCount = 1
    MaxMessages = 2
    MaxFaults = 0
    MaxCrashes = 0
PROPERTY EventsConclude
