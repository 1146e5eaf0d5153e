SPECIFICATION LiveSpec
CONSTANTS
    Operators = {o1}
    Batch = 2
    MaxEvents = 2
    MaxSwitches = 2
    MaxDrops = 1
    MaxPolls = 1
INVARIANTS NoGap ToldWhenFinal
PROPERTIES EndIsTold
CHECK_DEADLOCK FALSE
