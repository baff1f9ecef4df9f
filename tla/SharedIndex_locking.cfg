CONSTANTS
    d1 = d1
    d2 = d2
    d3 = d3
    d4 = d4
    Backends = {b1, b2}
    Docs = {d1, d2, d3, d4}
    NoAnswer = NoAnswer
    NoDoc = NoDoc
    DocTerms <- MCDocTerms
    MaxLevels = 2
    SegmentsPerLevel = 2
    SpillThreshold = 2
    BulkLoadThreshold = 0
    StmtsPerXact = 2
    ErrorPoints = {"add", "write", "merge", "score_mem"}
    SubXacts = FALSE
    TwoPhase = TRUE
SYMMETRY BackendSymmetry
SPECIFICATION Spec
INVARIANTS
    TypeOK
    ExclusiveWrites
    StoredOnce
    ScanExact
    CountsMatchChains
    MetaDocsMatchSegments
PROPERTIES
    DocsNeverLost
    ImplementsTextIndex
