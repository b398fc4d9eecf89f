SPECIFICATION Spec
CONSTANTS
    Jobs = {j1}
    NoJob = NoJob
    Specs <- CkptKind
    MaxUid = 1
    MaxRemovals = 0
    MaxFaults = 0
    BackoffLimit = 1
INVARIANTS
    ClaimInHand
CHECK_DEADLOCK FALSE
