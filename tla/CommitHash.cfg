SPECIFICATION Spec
CONSTANTS
    File = {a, s}
    SecretLike = {s}
    Folder = {s}
    FolderLine = line
    NumRuns = 1
    Committers = {c}
    Rollers = {}
    UserStages = FALSE
    MaxEdits = 2
    MaxCommits = 3
    MaxCheckpoints = 1
    MaxRecords = 1
    a = a
    s = s
    line = line
    c = c
INVARIANTS HashIsSet
CHECK_DEADLOCK FALSE
