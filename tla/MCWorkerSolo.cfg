SPECIFICATION FairSpec
CONSTANTS
    Workers = {w1}
    Events = {e1, e2}
    Poison = poison
    f1 = f1
    Fingerprints = {f1}
    NoFp = null
    FpOf <- OneFp
    TicketIds = {t1, t2}
    NoTicket = none
    ReadCount = 2
    MaxMessages = 2
    MaxFaults = 2
    MaxCrashes = 1
INVARIANT ConcludedIsAudited
PROPERTIES ConcludedIsFinal EveryMessageSettles
