SPECIFICATION Spec
CONSTANTS
    Jobs = {j1}
    NoJob = NoJob
    Specs <- DataKind
    MaxUid = 1
    MaxRemovals = 0
    MaxFaults = 0
    BackoffLimit = 1
INVARIANTS
    FailedMeansNotTraining
CHECK_DEADLOCK FALSE
