---------------------------- MODULE MCPosixFiles ----------------------------
(* PosixEnv's file objects and its lock table, interleaved: LockFile and  *)
(* UnlockFile work on the LOCK file through their own descriptor and the  *)
(* locks_ set, while writers append to and sync the DB's other files; no  *)
(* lock orders the two, so every interleaving is a behaviour of the Env.  *)
EXTENDS Naturals, TLC

CONSTANTS t1, t2, lockfile, Self, Other, None,   \* FileLock
          man, tab                               \* PosixFile

VARIABLES pc, file, locks, owner,                            \* FileLock
          dir, ddir, data, ddata, wf, created, opens, synced, promised  \* PosixFile

lockVars == <<pc, file, locks, owner>>
fileVars == <<dir, ddir, data, ddata, wf, created, opens, synced, promised>>

FL == INSTANCE FileLock WITH Threads <- {t1, t2}, Files <- {lockfile}
PF == INSTANCE PosixFile WITH Names <- {man, tab}, Manifests <- {man},
                              MaxInodes <- 2, MaxLen <- 1, MaxOpens <- 2

Init == FL!Init /\ PF!Init
Next == (FL!Next /\ UNCHANGED fileVars) \/ (PF!Next /\ UNCHANGED lockVars)
Spec == Init /\ [][Next]_<<lockVars, fileVars>>

\* The properties of the two members (stated in FileLock and PosixFile).
OneHolderPerProcess == FL!OneHolderPerProcess
NoLeakedLockNames == FL!NoLeakedLockNames
SyncedDataDurable == PF!SyncedDataDurable
ManifestSyncPersistsNames == PF!ManifestSyncPersistsNames
=============================================================================
