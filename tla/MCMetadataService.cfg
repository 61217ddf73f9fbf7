SPECIFICATION FairSpec
CONSTANTS
    f = f
    c1 = c1
    c2 = c2
    Paths = {f}
    Dirs = {}
    Clients = {c1, c2}
    Ops <- AllOps
    HasIndex = TRUE
    MaxVersion = 2
    MaxFaults = 1
INVARIANTS
    CurrentIsWhole
    DeleteForgets
PROPERTIES
    OrphansOnlyFromDelete
    RowsConverge
