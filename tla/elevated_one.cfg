CONSTANTS
    Procs = {p1}
    Kinds = {"start", "configure", "domains", "route"}
    Domains = {d1, d2}
    Foreign = other
    MaxFaults = 2
SPECIFICATION FairSpec
CHECK_DEADLOCK FALSE
PROPERTIES
    SuccessIsDone
    CommandReturns
    HelperEnds
