SPECIFICATION LiveSpec
CONSTANTS
    Requests = {r1}
    Faults <- AllFaults
    MaxFaults = 3
PROPERTY DeathIsReported
INVARIANTS TypeOK HealthyWasSeen
