SPECIFICATION Spec
CONSTANTS
    Project = {p, o}
    Name = {n}
    Branch = {b, d}
    Creator = {c1, c2}
    Remover = {x}
    NumRuns = 2
    MayDie = {c1, c2, x}
    MaxId = 2
    p = p
    o = o
    n = n
    b = b
    d = d
    c1 = c1
    c2 = c2
    x = x
SYMMETRY MCSymmetry
INVARIANTS RowsHaveTrees TreesHaveRows
CHECK_DEADLOCK FALSE
PROPERTIES RunsKeepTheirTree
