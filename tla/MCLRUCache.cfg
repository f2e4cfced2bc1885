CONSTANTS
    k1 = k1
    k2 = k2
    Null = Null
    NULL <- Null
    Keys <- MCKeys
    Charges <- MCCharges
    Capacity <- MCCapacity
    MaxEntries = 5
    MaxHeld = 2

SPECIFICATION Spec

INVARIANT RefsMatchOwners
INVARIANT FreedExactlyWhenUnowned
INVARIANT UsageIsLiveCharge
INVARIANT ListMirrorsTable
INVARIANT CapacityRespected
PROPERTY ImplementsLRUCacheSpec

CHECK_DEADLOCK FALSE
