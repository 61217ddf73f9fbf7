SPECIFICATION Spec
CONSTANTS
    c1 = c1
    c2 = c2
    Clients = {c1, c2}
    Paths <- MCPaths
    Contents = {v, w}
    NoContent = NoContent
    Ops <- MCOps
    MaxFiles = 2
    MaxFaults = 1
SYMMETRY ContentSymmetry
INVARIANTS
    AloneDoes
    AloneTouches
PROPERTY
    TwinsExplained
