SPECIFICATION Spec
CONSTANTS
    Term = {1, 2, 3}
    TP_BLOCK_SIZE = 2
    UINT32_MAX = 131071
    FieldNormTable <- NormTable
    NoSegment = 1000
    NoCtid = 0
    Queries <- LastTenant
INVARIANT SkippedHasNoDocs
