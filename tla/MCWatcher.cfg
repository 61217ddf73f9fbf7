SPECIFICATION FairSpec
CONSTANTS
    r = r
    d = d
    e = e
    f = f
    Nodes = {r, d, e, f}
    Dirs = {r, d, e}
    Base = r
    Parent <- MCParent
    Watchable = {r, d}
    Capacity = 1
    MaxQueue = 2
    MaxChanges = 2
    MaxFaults = 1
    NoNode = NoNode
INVARIANTS
    AliveIsListed
    CoveredWhenQuiet
PROPERTY
    StopReturns
