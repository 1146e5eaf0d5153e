SPECIFICATION Spec
CONSTANTS
    NumPrompts = 4
    AddPositions <- MCAddPositions
    NewPositions <- MCNewPositions
INVARIANTS
    OneActive
    FinishedTogether
    DeliveredOnce
    NoOrphans
PROPERTIES
    TerminalStays
    OrderStable
CHECK_DEADLOCK FALSE
