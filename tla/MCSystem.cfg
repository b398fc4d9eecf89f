SPECIFICATION FairSpec
CONSTANTS
    Jobs = {a}
    Reach = {"failed"}
    Removable = {a}
    MaxFaults = 1
INVARIANTS
    BothOnlyIfLost
PROPERTIES
    ImplementsHeartbeat
    AssignedHeard
    WithdrawnForgotten
