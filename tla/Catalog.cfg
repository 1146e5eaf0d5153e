SPECIFICATION Spec
CONSTANTS
    Name = {"p", "o"}
    Admin = {a}
    Importer = {i, j}
    MaxId = 2
    MaxRuns = 2
    MaxSteps = 1
    MaxImports = 2
    Modes = {"merge", "skip_existing"}
    MayDie = TRUE
    a = a
    i = i
    j = j
INVARIANTS DefaultIsChosen CopiesHangTogether SkipMakesNoDuplicate RefusedOnlyIfTorn
SYMMETRY Symmetry
CHECK_DEADLOCK FALSE
