CONSTANTS
    Procs = {p1, p2}
    Urls = {u1, u2}
    Plans = {{"age"}, {"ssh"}, {"kustomize"}, {"hosts"}, {"age", "kustomize"}, {"age", "ssh", "kustomize", "hosts"}}
SPECIFICATION Spec
SYMMETRY Symmetry
INVARIANTS
    TypeOK
    KeyBeforeExport
PROPERTIES
    SuccessSets
