SPECIFICATION ReconcileSpec
CONSTANTS
    NumRuns = 1
    MaxLoops = 2
    Workers = {w}
    Creators = {op}
    Approvers = {op}
    Cancellers = {}
    MayDie = {w, op}
    LaunchFails = TRUE
    ByHand = FALSE
    Workspace <- MCNoWorkspace
    NoWorkspace = none
    Admins = {adm}
    MaxCrashes = 1
    w = w
    op = op
    adm = adm
INVARIANTS OneAgentPerRun InvocationBound ApprovalGate
CHECK_DEADLOCK FALSE
