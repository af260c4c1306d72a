SPECIFICATION SvcSpec
CONSTANTS
    DetCap = 2
    MaxDet = 3
    MaxSvcStarts = 2
INVARIANTS
    RadiosTakeTurns
    StoppedIsSilent
PROPERTIES
    TasksLeave
    ImplementsFeed
CHECK_DEADLOCK FALSE
