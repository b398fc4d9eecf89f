SPECIFICATION FairSpec
CONSTANTS
    Jobs = {a}
    MaxFaults = 1
PROPERTIES
    CreatedIsNotFailed
