SPECIFICATION Spec
CONSTANTS
    Workers = {w1, w2}
    Events = {e1, e2}
    Poison = poison
    f1 = f1
    Fingerprints = {f1}
    NoFp = null
    FpOf <- OneFp
    TicketIds = {t1, t2}
    NoTicket = none
    ReadCount = 1
    MaxMessages = 3
    MaxFaults = 1
    MaxCrashes = 0
SYMMETRY Symmetric
PROPERTIES ImplementsTickets AnswerStands
INVARIANTS
    TypeOK
    OneOpenTicket
    ActedOnce
    AckedIsConcluded
    AnswerTruthful
