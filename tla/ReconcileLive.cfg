SPECIFICATION ReconcileLiveSpec
CONSTANTS
    NumRuns = 1
    MaxLoops = 1
    Workers = {w}
    Creators = {op}
    Approvers = {}
    Cancellers = {op}
    MayDie = {w, op}
    LaunchFails = TRUE
    ByHand = FALSE
    Workspace <- MCWorkspace
    NoWorkspace = none
    Admins = {}
    MaxCrashes = 1
    w = w
    op = op
PROPERTIES StaleRunsSettle StaleJobsSettle CancellationsClose StaleLocksFreed
CHECK_DEADLOCK FALSE
