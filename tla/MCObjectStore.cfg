SPECIFICATION Spec
CONSTANTS
    c1 = c1
    c2 = c2
    Clients = {c1, c2}
    Paths <- MCPaths
    Rank <- MCRank
    Contents = {v, w}
    Empty = Empty
    Absent = Absent
    PageSize = 1
    Ops <- MCOps
    Source <- MCSource
    NoKey = NoKey
    MaxFaults = 1
SYMMETRY ContentSymmetry
INVARIANTS
    RemoveAllClears
    ListsWhatStays
    MoveKeeps
