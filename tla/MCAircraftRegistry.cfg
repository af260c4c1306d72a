SPECIFICATION Spec
CONSTANTS
    SlotCount = 2
    HistoryLen = 1
    Timeout = 1
    Ids = {d1, d2, d3}
    SimIds = {d1}
    NoId = none
    StatusSweep = TRUE
    MaxTime = 4
    MaxDetect = 2
    MaxCalls = 3
INVARIANTS
    UniqueIds
    EntryHoldsItsOwn
PROPERTIES
    DisplacesLongestSilent
CHECK_DEADLOCK FALSE
