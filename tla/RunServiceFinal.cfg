SPECIFICATION LiveSpec
CONSTANTS
    NumRuns = 1
    MaxLoops = 1
    Workers = {w}
    Creators = {c}
    Approvers = {}
    Cancellers = {k}
    MayDie = {}
    LaunchFails = FALSE
    ByHand = FALSE
    Workspace <- MCWorkspace
    NoWorkspace = none
    w = w
    c = c
    k = k
PROPERTIES TerminalIsFinal
CHECK_DEADLOCK FALSE
