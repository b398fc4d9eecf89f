SPECIFICATION FairSpec
CONSTANTS
    Jobs = {j1}
    NoJob = NoJob
    Specs <- UploadKind
    MaxUid = 1
    MaxRemovals = 0
    MaxFaults = 0
    BackoffLimit = 2
PROPERTIES
    FailedUploadReported
CHECK_DEADLOCK FALSE
