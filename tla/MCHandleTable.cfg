CONSTANTS
    k1 = k1
    k2 = k2
    k3 = k3
    k4 = k4
    k5 = k5
    Null = Null
    NULL <- Null
    Keys <- MCKeys
    Hash <- MCHash
    Bucket <- MCBucket

SPECIFICATION Spec

INVARIANT CountMatchesChains
INVARIANT LoadAtMostOne
INVARIANT EntriesInHomeBucket
PROPERTY ImplementsHandleMap

CHECK_DEADLOCK FALSE
