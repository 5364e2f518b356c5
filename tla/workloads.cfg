CONSTANTS
    Deployments = {d1}
    StatefulSets = {s1}
    DaemonSets = {}
    Applications = {a1}
    Commands = {"start", "startNoWait", "status", "statusWait"}
    MaxSetbacks = 1
SPECIFICATION FairSpec
INVARIANTS
    TypeOK
PROPERTIES
    ReadyIsTrue
    GivesUpHonestly
    WaitReturns
