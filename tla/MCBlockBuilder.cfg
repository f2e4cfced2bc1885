CONSTANTS
    Bytes = {1, 2}
    MaxKeyLen = 2
    Values <- MCValues
    RestartInterval = 2
    MaxRecords = 4
SPECIFICATION Spec
INVARIANTS
    BlockRoundTrip
    RestartsAtFullRecords
    RestartDensity
PROPERTY
    EstimateIsFinishedSize
