SPECIFICATION CallsSpec
CONSTANTS
    NumPrompts = 2
    AddPositions = {}
    NewPositions <- MCNewPositions
    Clients = {c1, c2}
    Injectors = {c1, c2}
    MayDie = FALSE
    MaxDelivered = 2
INVARIANTS
    OneActive
CHECK_DEADLOCK FALSE
