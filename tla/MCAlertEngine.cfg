SPECIFICATION Spec
CONSTANTS
    Aircraft = {a1, a2, a3}
    Slots = 2
    Intervals = {1, 3}
    MaxTime = 4
INVARIANTS
    WarnedWhenNear
PROPERTIES
    AlertPace
CHECK_DEADLOCK FALSE
