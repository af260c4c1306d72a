SPECIFICATION FairSpec
CONSTANTS
    BufferSize = 2
    MaxFileSize = 1
    MaxRotationFiles = 1
    FailureLimit = 2
    CounterMax = 3
    MaxRemounts = 2
    MaxRecords = 4
    MaxFaults = 3
    MaxStarts = 2
    MaxSession = 6
    MaxBoots = 1
INVARIANTS
    EveryRecordAccounted
    BufferKeepsNewestInOrder
    GivingUpIsRecoverable
    CopiesExplained
PROPERTIES
    RotationKeepsFiles
    CardRecovered
CHECK_DEADLOCK FALSE
