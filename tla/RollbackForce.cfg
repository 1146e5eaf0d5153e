SPECIFICATION Spec
CONSTANTS
    File = {a, s}
    SecretLike = {s}
    Folder = {s}
    FolderLine = line
    NumRuns = 1
    Committers = {}
    Rollers = {d}
    UserStages = FALSE
    MaxEdits = 2
    MaxCommits = 3
    MaxCheckpoints = 1
    MaxRecords = 1
    a = a
    s = s
    line = line
    d = d
INVARIANTS ForceGate
CHECK_DEADLOCK FALSE
