CONSTANTS
    t1 = t1
    t2 = t2
    t3 = t3
    lockfile = lockfile
    Threads <- MCThreads
    Files = {lockfile}
    Self = Self
    Other = Other
    None = None
SYMMETRY Perms
SPECIFICATION Spec
CONSTRAINT
    NoDuplicateLockFile
INVARIANT
    HolderOwnsOSLock
