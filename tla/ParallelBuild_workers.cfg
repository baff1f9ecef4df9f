CONSTANTS
    d1 = d1
    d2 = d2
    d3 = d3
    d4 = d4
    d5 = d5
    Docs = {d1, d2, d3, d4, d5}
    Skipped = {d5}
    HeapBlocks <- MCHeapBlocks
    NoDoc = NoDoc
    NWorkers = 2
    NLaunched = 2
    SpillThreshold = 1
    MaxLevels = 2
    SegmentsPerLevel = 2
SPECIFICATION FairSpec
INVARIANTS
    TypeOK
    ExactlyOnce
    BufferHandover
    StatsMatchSegments
PROPERTIES
    ScannedBuildEnds
