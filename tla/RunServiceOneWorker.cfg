SPECIFICATION Spec
CONSTANTS
    NumRuns = 2
    MaxLoops = 2
    Workers = {w}
    Creators = {op}
    Approvers = {op}
    Cancellers = {op}
    MayDie = {w, op}
    LaunchFails = TRUE
    ByHand = TRUE
    Workspace <- MCWorkspace
    NoWorkspace = none
    w = w
    op = op
INVARIANTS TypeOK NoLockLeak CancelledSoon
CHECK_DEADLOCK FALSE
