CONSTANTS
    Procs = {p1, p2}
    MaxVersion = 2
    MaxFaults = 2
    FsFaults = TRUE
    PageFaults = TRUE
SPECIFICATION FairSpec
INVARIANTS
    TypeOK
    VerifiedContent
    CleansUp
    ShaNeverAhead
PROPERTIES
    UpdateDelivers
    ContractKept
    ConvergesToRelease
