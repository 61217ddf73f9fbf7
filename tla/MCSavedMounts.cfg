SPECIFICATION Spec
CONSTANTS
    home = home
    disk = disk
    c1 = c1
    c2 = c2
    Sessions = {c1, c2}
    Points <- MCPoints
    Keys <- MCKeys
    KeyOf <- MCKeyOf
    Plain <- MCPlain
    Spoiling <- MCSpoiling
    Clean <- MCClean
    Relative = Relative
    Sources = {home, disk}
    Elsewhere <- MCElsewhere
    NoEntry = NoEntry
    Unusable = Unusable
    MaxMounts = 3
    MaxOutages = 1
    MaxFaults = 1
SYMMETRY SessionSymmetry
INVARIANTS
    SavedStays
    LoadsWhatItRead
PROPERTY
    ReplacesOnlyUnmounted
