CONSTANTS
    Places = {0, 1}
    MaxLine = 3
    Aircraft = {a1, a2}
    PilotPlaces = {0}
    MaxTracked = 1
    MaxReadings = 3
    MaxNoted = 4

SPECIFICATION Spec

INVARIANTS
    PlaceIsLastValid
    FixIsSupported
    ReadingsAreNewest

PROPERTIES
    SignalAnswersAreCurrent

CHECK_DEADLOCK FALSE
