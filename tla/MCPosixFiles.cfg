CONSTANTS
    t1 = t1
    t2 = t2
    lockfile = lockfile
    Self = Self
    Other = Other
    None = None
    man = man
    tab = tab
SPECIFICATION Spec
INVARIANTS
    OneHolderPerProcess
    NoLeakedLockNames
    SyncedDataDurable
    ManifestSyncPersistsNames
