SPECIFICATION Spec
CONSTANTS
    NumPrompts = 3
    AddPositions <- MCAddPositions
    NewPositions <- MCNewPositions
INVARIANTS ReadyAfterCompletion
CHECK_DEADLOCK FALSE
