SPECIFICATION Spec
CONSTANTS
    Name = {"p"}
    Admin = {a}
    Importer = {i, j}
    MaxId = 1
    MaxRuns = 1
    MaxSteps = 0
    MaxImports = 2
    Modes = {"skip_existing"}
    MayDie = FALSE
    a = a
    i = i
    j = j
INVARIANT SkipsWhatExists
CHECK_DEADLOCK FALSE
