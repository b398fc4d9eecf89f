SPECIFICATION FairSpec
CONSTANTS
    Jobs = {j1}
    NoJob = NoJob
    Specs <- ReusedKinds
    MaxUid = 2
    MaxRemovals = 1
    MaxFaults = 1
    BackoffLimit = 1
INVARIANTS
    Coherent
    NoLostWakeup
PROPERTIES
    ImplementsLifecycle
    EventuallyLaunched
\* a job whose verdict is in is left alone
CHECK_DEADLOCK FALSE
