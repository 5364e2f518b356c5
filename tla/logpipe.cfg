CONSTANTS
    MaxCells = 6
    Capacity = 2
    BufMax = 3
    Forms = {"entry", "odd", "text", "panic"}
SPECIFICATION FairSpec
INVARIANTS
    TypeOK
    WholeLines
    BrokenByLongLine
PROPERTIES
    EveryLineLogged
    LaunchReturns
