SPECIFICATION Spec
CONSTANTS
    Sources <- AllSources
    Setups <- FullAndPartial
    Incidents <- AllIncidents
    MaxTags = 3
    None = None
    NotAnObject = NotAnObject
INVARIANTS
    TypeOK
    FailsClosed
    WindowsFollowSenders
    PriorityDecides
    ConclusionsNameSubject
