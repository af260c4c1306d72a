SPECIFICATION Spec
CONSTANTS
    MaxAircraft = 3
    PageSize = 2
    Pages = 3
    LogPage = 1
    LogMax = 2
    Pressed = {"1", "2", "4", "6", "7", "RIGHT", "DOWN", "UP", "ENTER", "TAB", "BACK"}
    Sent <- MCSent
    Drones = 2
    MaxCommand = 2
    MaxInputs = 3
    MaxTicks = 1
INVARIANTS
    ResetsAreRepeatable
PROPERTIES
    SelectionShown
    HudMarksShown
    ShownFollows
    EnabledFollowsMode
CHECK_DEADLOCK FALSE
