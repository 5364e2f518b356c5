CONSTANTS
    Procs = {p1, p2}
    Commands = {"start", "stop", "status", "uninstall", "configure"}
    RootFlags = {"default"}
    Serial = FALSE
    MaxFaults = 2
    ListFaults = FALSE
    HostStops = TRUE
    TarAtHand = TRUE
SPECIFICATION HistorySpec
SYMMETRY ProcSymmetry
PROPERTIES
    StatusWasTrue
    PromiseKept
