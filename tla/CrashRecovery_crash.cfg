CONSTANTS
    Backends = {b1, b2}
    Docs = {d1, d2, d3}
    NoDoc = NoDoc
    NoBlock = NoBlock
    MaxBlocks = 6
    MaxLevels = 2
    SegmentsPerLevel = 2
    SpillThreshold = 2
    DocidsPerPage = 2
    Crashes = TRUE
SYMMETRY DocSymmetry
SPECIFICATION Spec
INVARIANTS
    DiskSound
