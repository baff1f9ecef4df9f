SPECIFICATION Spec
CONSTANTS
    Term = {1, 2}
    TP_BLOCK_SIZE = 2
    UINT32_MAX = 131071
    FieldNormTable <- NormTable
    NoSegment = NoSegment
    Inputs <- MCInputs
INVARIANTS
    TypeOK
    MergedAsWritten
    MergeConserves
PROPERTY MergeEnds
