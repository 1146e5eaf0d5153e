SPECIFICATION CallsSpec
CONSTANTS
    NumPrompts = 4
    AddPositions = {}
    NewPositions = {4}
    Clients = {c1}
    Injectors = {c1}
    MayDie = FALSE
    MaxDelivered = 1
INVARIANTS
    WorkedOffInOrder
PROPERTIES
    RefinesPromptQueue
CHECK_DEADLOCK FALSE
