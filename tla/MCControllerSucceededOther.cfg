SPECIFICATION Spec
CONSTANTS
    Jobs = {j1}
    NoJob = NoJob
    Specs <- PlainKind
    MaxUid = 2
    MaxRemovals = 1
    MaxFaults = 0
    BackoffLimit = 1
INVARIANTS
    SucceededMeansOwn
CHECK_DEADLOCK FALSE
