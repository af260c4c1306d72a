SPECIFICATION FairSpec
CONSTANTS
    RetryMax = 2
    MaxInits = 2
    MaxInjects = 2
    MaxPlugs = 1
INVARIANTS
    ExclusiveRadios
    StateMatchesRadio
    MutexOutlivesUsers
PROPERTIES
    GivesUpAfterAllRetries
    TransitionsEnd
CHECK_DEADLOCK FALSE
