SPECIFICATION FairSpec
CONSTANTS
    Source = {"wifi"}
    DetCap = 1
    MaxDet = 3
    LogCap = 2
    MaxTmStarts = 2
INVARIANTS
    DropsAccountForTheRest
    LoggedInOrder
PROPERTIES
    LogQueueDrains
CHECK_DEADLOCK FALSE
