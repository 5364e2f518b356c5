CONSTANTS
    Procs = {p1}
    MaxVersion = 2
    MaxFaults = 0
    FsFaults = FALSE
    PageFaults = FALSE
SPECIFICATION Spec
PROPERTIES
    LastVersionDelivered
