SPECIFICATION Spec
CONSTANTS
    local = local
    bucket = bucket
    Relative = Relative
    NoAdaptor = NoAdaptor
    Components <- MCComponents
    Places <- MCPlaces
    Names <- MCNames
    Clean <- MCClean
    PathLen <- MCPathLen
    Adaptors <- MCAdaptors
    Caps <- MCCaps
    RootName = "/"
    MaxMoves = 2
    Clients = {c1}
    c1 = c1
INVARIANTS
    TypeOK
    ListAgrees
    AnswerExplained
    NoReachAfterClose
PROPERTY
    ImplementsTable
