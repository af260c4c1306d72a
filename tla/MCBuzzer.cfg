SPECIFICATION BuzzerSpec
CONSTANTS
    MaxPlayers = 2
INVARIANTS
    EndIsOnItsWay
PROPERTIES
    ToneEnds
CHECK_DEADLOCK FALSE
