SPECIFICATION Spec
CONSTANTS
    File = {a, s}
    SecretLike = {s}
    Folder = {s}
    FolderLine = line
    NumRuns = 1
    Committers = {c}
    Rollers = {d}
    UserStages = TRUE
    MaxEdits = 2
    MaxCommits = 3
    MaxCheckpoints = 1
    MaxRecords = 1
    a = a
    s = s
    line = line
    c = c
    d = d
INVARIANTS RecordsAreTrue SecretsStayOut
CHECK_DEADLOCK FALSE
