CONSTANTS
    Procs = {p1, p2}
    Commands = {"start"}
    RootFlags = {"empty"}
    Serial = FALSE
    MaxFaults = 2
    ListFaults = TRUE
    HostStops = TRUE
    TarAtHand = FALSE
SPECIFICATION FairSpec
PROPERTIES
    RetryConverges
    StartReturns
