CONSTANTS
    SeqBits = 2
    Bytes = {1, 2, 255}
    MaxKeyLen = 2
    Keys <- MCKeys
    Values <- MCValues
    MaxEntries = 2
    SeedInputs <- MCSeedInputs
    NumDraws = 4
SPECIFICATION Spec
INVARIANTS
    CompareMatchesReference
    SeparatorBetween
    SuccessorNotBelow
    EntriesRoundTrip
    GetFindsNewestVisible
    RandomMatchesParkMiller
\* After MaxEntries Adds the writer stops.
CHECK_DEADLOCK FALSE
