SPECIFICATION Spec
CONSTANTS
    Sources <- DatadogOnly
    Setups <- DatadogSetUp
    Incidents <- DatadogIncident
    MaxTags = 2
    None = None
    NotAnObject = NotAnObject
INVARIANTS DateNeverLosesAlert
