SPECIFICATION FairSpec
CONSTANTS
    Jobs = {a, b}
    MaxFaults = 1
INVARIANTS
    TypeOK
    FailedHasNoCPodJob
PROPERTIES
    KeepsAssigned
    AssignedHandled
    WithdrawnRemoved
