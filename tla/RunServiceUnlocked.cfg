SPECIFICATION Spec
CONSTANTS
    NumRuns = 1
    MaxLoops = 2
    Workers = {w}
    Creators = {c}
    Approvers = {a}
    Cancellers = {}
    MayDie = {}
    LaunchFails = FALSE
    ByHand = FALSE
    Workspace <- MCWorkspace
    NoWorkspace = none
    w = w
    c = c
    a = a
INVARIANTS AgentHoldsLock
CHECK_DEADLOCK FALSE
