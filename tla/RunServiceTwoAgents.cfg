SPECIFICATION Spec
CONSTANTS
    NumRuns = 2
    MaxLoops = 1
    Workers = {w}
    Creators = {c}
    Approvers = {}
    Cancellers = {}
    MayDie = {}
    LaunchFails = FALSE
    ByHand = FALSE
    Workspace <- MCWorkspace
    NoWorkspace = none
    w = w
    c = c
INVARIANTS OneAgentPerWorkspace
CHECK_DEADLOCK FALSE
