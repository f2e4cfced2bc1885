CONSTANTS
    Keys <- MCKeys
    Offsets <- MCOffsets
    MaxKeys = 2
    CorruptBytes = {0, 1, 11, 100}
SPECIFICATION Spec
INVARIANTS
    NoFalseNegatives
    NoCrossRangeMatches
    EveryKeyedRangeHasFilter
    ReaderInBounds
\* After Finish the builder is discarded: no step is left.
CHECK_DEADLOCK FALSE
