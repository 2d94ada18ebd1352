SPECIFICATION Spec
CONSTANTS
    None = None
    Yaml <- ConfigFiles
    Templates <- Files
    DotenvEdits <- InDotenv
    ShellEdits <- InShell
    MaxEdits = 2
    MaxInterventions = 5
    HostPorts = {"8000", "18000"}
    Events = {e1}
    MaxDowngrades = 4
INVARIANTS TypeOK OnlyStubsServe ObjectNamesItsFile CheckPredictsBoot    RefusalNamesCause
 
