CONSTANTS
    Procs = {p1}
    Commands = {"start"}
    RootFlags = {"default"}
    Serial = TRUE
    MaxFaults = 0
    ListFaults = FALSE
    HostStops = FALSE
    TarAtHand = FALSE
SPECIFICATION Spec
PROPERTIES
    FreshStartInstalls
