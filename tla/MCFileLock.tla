----------------------------- MODULE MCFileLock -----------------------------
EXTENDS FileLock, TLC
CONSTANTS t1, t2, t3, lockfile
MCThreads == {t1, t2, t3}
\* Threads are interchangeable: every action is quantified over them.
Perms == Permutations(MCThreads)
=============================================================================
