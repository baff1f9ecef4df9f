CONSTANTS
    Backends = {b1}
    Docs = {d1, d2, d3}
    NoDoc = NoDoc
    NoBlock = NoBlock
    MaxBlocks = 7
    MaxLevels = 2
    SegmentsPerLevel = 2
    SpillThreshold = 2
    DocidsPerPage = 2
    Crashes = FALSE
SPECIFICATION FairSpec
INVARIANTS
    TypeOK
    CommittedStored
    FreeBlocksNotLive
PROPERTIES
    CallsReturn
