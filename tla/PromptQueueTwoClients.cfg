SPECIFICATION CallsSpec
CONSTANTS
    NumPrompts = 2
    AddPositions = {}
    NewPositions <- MCNewPositions
    Clients = {c1, c2}
    Injectors = {c1}
    MayDie = TRUE
    MaxDelivered = 2
INVARIANTS
    OneActive
    HistoryIsTrue
CHECK_DEADLOCK FALSE
