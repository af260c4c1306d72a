SPECIFICATION FairSpec
CONSTANTS
    BufferSize = 2
    MaxFileSize = 2
    MaxRotationFiles = 1
    FailureLimit = 2
    CounterMax = 3
    MaxRemounts = 0
    MaxRecords = 4
    MaxFaults = 3
    MaxStarts = 2
    MaxSession = 6
    MaxBoots = 1
PROPERTY NewFilePerSession
CHECK_DEADLOCK FALSE
