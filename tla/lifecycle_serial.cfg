CONSTANTS
    Procs = {p1}
    Commands = {"start", "stop", "status", "uninstall", "configure", "update"}
    RootFlags = {"default", "empty"}
    Serial = TRUE
    MaxFaults = 3
    ListFaults = TRUE
    HostStops = TRUE
    TarAtHand = TRUE
SPECIFICATION Spec
INVARIANTS
    TypeOK
    NoDanglingContext
    RegisteredHasDisk
PROPERTIES
    UninstallClean
    StartBlockedOnlyByRootFS
    StatusNeverBoots
    StartGivesContext
    StopStops
