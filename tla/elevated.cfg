CONSTANTS
    Procs = {p1, p2}
    Kinds = {"start", "domains", "route"}
    Domains = {d1}
    Foreign = other
    MaxFaults = 1
SPECIFICATION Spec
SYMMETRY ProcSymmetry
CHECK_DEADLOCK FALSE
INVARIANTS
    TypeOK
    ForeignKept
PROPERTIES
    PromptsForCause
