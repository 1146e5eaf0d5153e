SPECIFICATION Spec
CONSTANTS
    NumRuns = 3
    MaxAttempts = 2
    Executors = {x}
    Deciders = {d}
    MayDie = {x}
    x = x
    d = d
INVARIANTS LinksLeadForward ExecutedIsHandedOver NoDoubleRecovery
CHECK_DEADLOCK FALSE
