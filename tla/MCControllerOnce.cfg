SPECIFICATION FairSpec
CONSTANTS
    Jobs = {j1}
    NoJob = NoJob
    Specs <- AllKinds
    MaxUid = 1
    MaxRemovals = 0
    MaxFaults = 2
    BackoffLimit = 2
INVARIANTS
    TypeOK
    Coherent
    NoLostWakeup
    VolumesBeforeLaunch
    VerdictOfOwnJob
    UploadReportedAsIs
PROPERTIES
    ImplementsLifecycle
    EventuallyLaunched
    VerdictReported
    UploadReported
\* a job whose verdict is in is left alone
CHECK_DEADLOCK FALSE
