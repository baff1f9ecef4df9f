CONSTANTS
    d1 = d1
    d2 = d2
    d3 = d3
    d4 = d4
    Backends = {b1, b2}
    Docs = {d1, d2}
    NoAnswer = NoAnswer
    NoDoc = NoDoc
    DocTerms <- MCDocTerms
    MaxLevels = 2
    SegmentsPerLevel = 2
    SpillThreshold = 2
    BulkLoadThreshold = 1
    StmtsPerXact = 2
    ErrorPoints = {"write", "score_mem"}
    SubXacts = TRUE
    TwoPhase = FALSE
SPECIFICATION FairSpec
INVARIANTS
    LevelsBounded
    LocksEndWithXact
PROPERTIES
    CallsReturn
