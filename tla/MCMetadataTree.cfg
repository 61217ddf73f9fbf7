SPECIFICATION FairTreeSpec
CONSTANTS
    r = r
    d = d
    f = f
    g = g
    c1 = c1
    Paths = {r, d, f, g}
    Dirs = {r, d}
    Clients = {c1}
    Traveller = c1
    Kinds = {"Walk", "UpdateDirectory"}
    Ops = {}
    NoPath = NoPath
    Parent <- MCParent
    HasIndex = TRUE
    MaxVersion = 2
    MaxFaults = 1
    MaxChanges = 2
INVARIANTS
    WalkVisitsAll
    UpdateStoresAll
PROPERTY
    TripsEnd
