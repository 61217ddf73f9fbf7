SPECIFICATION Spec
CONSTANTS
    c1 = c1
    c2 = c2
    Commands = {c1, c2}
    Ops <- MCOps
    Paths = {"finspect.yaml", "finspect.json"}
    Search <- MCSearch
    Json = {"finspect.json"}
    Texts <- MCTexts
    StartsWith <- MCStartsWith
    Above <- MCAbove
    Length <- MCLength
    Variable = "$D"
    Fallback = "${D:-/data}"
    Documents <- MCDocuments
    Environments <- MCEnvironments
    Absent = Absent
    NoConfig = NoConfig
    NoPath = NoPath
    MaxEdits = 1
    MaxFaults = 1
INVARIANTS
    SaysValidOnlyOfValid
    FirstOfTheSearch
    CreatesTogether
    GetMountAgrees
PROPERTY
    KeepsWhatIsThere
