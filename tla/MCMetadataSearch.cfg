SPECIFICATION SearchSpec
CONSTANTS
    f1 = f1
    f2 = f2
    Files = {f1, f2}
    Ids = {i1, i2, i3}
    NoId = NoId
    Words <- MCWords
    Null = "null"
    NoText = NoText
    Tags <- MCTags
    TagWords <- MCTagWords
    JSONWords <- MCJSONWords
    Records <- MCRecords
    Contents <- MCContents
    NoRow = NoRow
    NoFilter = NoFilter
    Adaptor <- MCAdaptor
    PathWords <- MCPathWords
    Prefixes <- MCPrefixes
    StartsWith <- MCStartsWith
    Like <- MCLike
    TagLike <- MCTagLike
    Occurs <- MCOccurs
SYMMETRY IdSymmetry
INVARIANTS
    SearchTypeOK
    TextFound
    HitsWereTrue
    SearchesAgree
