SPECIFICATION FairSpec
CONSTANTS
    Models = {a}
    NoModel = NoModel
    MaxUid = 2
    MaxVersion = 6
    MaxFaults = 1
INVARIANTS
    TypeOK
    DoneMeansDownloaded
    NoLostWakeup
PROPERTIES
    DoneStays
    Downloaded
