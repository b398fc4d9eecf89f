SPECIFICATION FairSpec
CONSTANTS
    Jobs = {a}
    Reach = {"running", "uploadFailed"}
    Removable = {a}
    Again = FALSE
    MaxFaults = 1
INVARIANTS
    TypeOK
    NeverAhead
PROPERTIES
    FinishReported
    CreateFailedReported
