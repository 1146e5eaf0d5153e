SPECIFICATION LiveSpec
CONSTANTS
    NumRuns = 1
    MaxLoops = 1
    Workers = {w}
    Creators = {c}
    Approvers = {}
    Cancellers = {}
    MayDie = {}
    LaunchFails = TRUE
    ByHand = FALSE
    Workspace <- MCWorkspace
    NoWorkspace = none
    w = w
    c = c
PROPERTIES RunsSettle
CHECK_DEADLOCK FALSE
