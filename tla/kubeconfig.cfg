CONSTANTS
    Procs = {p1, p2}
    Own = kaweezle
    Others = {o1, o2}
    MaxInstalls = 2
SPECIFICATION Spec
SYMMETRY Symmetry
INVARIANTS
    TypeOK
    UserKept
PROPERTIES
    CurrentLeads
