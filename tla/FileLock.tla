------------------------------ MODULE FileLock ------------------------------
(***************************************************************************)
(* PosixEnv::LockFile / UnlockFile and PosixLockTable                      *)
(* (src/LearnCC/util/env_posix.cc).  Threads of this process lock files   *)
(* through the in-process set locks_ and an fcntl(F_SETLK) write lock;    *)
(* another process (a second instance opening the same database) takes    *)
(* the same fcntl lock.                                                    *)
(*                                                                         *)
(* fcntl record locks belong to a (process, file) pair, not to a file      *)
(* descriptor: F_SETLK by a process that already owns the lock succeeds,  *)
(* and close() of ANY descriptor the process has on the file releases     *)
(* the process's lock.  Each syscall and each locks_ call (under its       *)
(* mutex) is one atomic step; a thread's steps interleave with the others.*)
(***************************************************************************)
EXTENDS Naturals, FiniteSets

CONSTANTS
    Threads,   \* threads of this process calling LockFile/UnlockFile
    Files,     \* file names
    Self,      \* this process
    Other,     \* another process using the same files
    None       \* no process owns the lock

VARIABLES
    pc,        \* pc[t]: where thread t is in LockFile / UnlockFile
    file,      \* file[t]: the name thread t is locking or holds, None when idle
    locks,     \* locks_.locked_files_
    owner      \* owner[f]: the process owning the fcntl lock on f

vars == <<pc, file, locks, owner>>

\* Program points.  "idle": not in a call and holding nothing.
\*   LockFile:   "opened" (fd open), "dup" (Insert failed, fd to close),
\*               "inserted" (name in locks_), "failed" (F_SETLK failed,
\*               fd to close), "failremove" (fd closed, name to remove),
\*               "holding" (returned OK with a FileLock).
\*   UnlockFile: "unlocked" (F_UNLCK done), "removed" (name removed,
\*               fd still to close).
PCs == {"idle", "opened", "dup", "inserted", "failed", "failremove",
        "holding", "unlocked", "removed"}

\* close(fd): the process loses its fcntl lock on the file, if it had one.
Close(f) == owner' = [owner EXCEPT ![f] = IF @ = Self THEN None ELSE @]

Init ==
    /\ pc = [t \in Threads |-> "idle"]
    /\ file = [t \in Threads |-> None]
    /\ locks = {}
    /\ owner = [f \in Files |-> None]

\* LockFile: open(fname, O_RDWR | O_CREAT).  (A failed open returns an
\* IOError and changes nothing.)
Open(t, f) ==
    /\ pc[t] = "idle"
    /\ pc' = [pc EXCEPT ![t] = "opened"]
    /\ file' = [file EXCEPT ![t] = f]
    /\ UNCHANGED <<locks, owner>>

\* Faulty variant of Insert that ignores the set (relying on fcntl alone).
InsertIgnoresSet(t) ==
    /\ pc[t] = "opened"
    /\ pc' = [pc EXCEPT ![t] = "inserted"]
    /\ locks' = locks \cup {file[t]}
    /\ UNCHANGED <<file, owner>>

\* LockFile: locks_.Insert(fname); on failure the fd is closed next.
Insert(t) ==
    /\ pc[t] = "opened"
    /\ IF file[t] \in locks
         THEN /\ pc' = [pc EXCEPT ![t] = "dup"]
              /\ UNCHANGED locks
         ELSE /\ pc' = [pc EXCEPT ![t] = "inserted"]
              /\ locks' = locks \cup {file[t]}
    /\ UNCHANGED <<file, owner>>

\* LockFile: close(fd), returning "already held by process".
CloseDup(t) ==
    /\ pc[t] = "dup"
    /\ Close(file[t])
    /\ pc' = [pc EXCEPT ![t] = "idle"]
    /\ file' = [file EXCEPT ![t] = None]
    /\ UNCHANGED locks

\* LockFile: LockOrUnlock(fd, true), i.e. fcntl(F_SETLK, F_WRLCK).  It
\* succeeds unless another process owns the lock.
SetLock(t) ==
    /\ pc[t] = "inserted"
    /\ IF owner[file[t]] = Other
         THEN /\ pc' = [pc EXCEPT ![t] = "failed"]
              /\ UNCHANGED owner
         ELSE /\ pc' = [pc EXCEPT ![t] = "holding"]
              /\ owner' = [owner EXCEPT ![file[t]] = Self]
    /\ UNCHANGED <<file, locks>>

\* Faulty variant of RemoveFailed that returns without locks_.Remove.
RemoveFailedSkipsRemove(t) ==
    /\ pc[t] = "failremove"
    /\ pc' = [pc EXCEPT ![t] = "idle"]
    /\ file' = [file EXCEPT ![t] = None]
    /\ UNCHANGED <<locks, owner>>

\* LockFile error path: close(fd) ...
CloseFailed(t) ==
    /\ pc[t] = "failed"
    /\ Close(file[t])
    /\ pc' = [pc EXCEPT ![t] = "failremove"]
    /\ UNCHANGED <<file, locks>>

\* ... then locks_.Remove(fname).
RemoveFailed(t) ==
    /\ pc[t] = "failremove"
    /\ locks' = locks \ {file[t]}
    /\ pc' = [pc EXCEPT ![t] = "idle"]
    /\ file' = [file EXCEPT ![t] = None]
    /\ UNCHANGED owner

\* UnlockFile: LockOrUnlock(fd, false), i.e. fcntl(F_SETLK, F_UNLCK).
Unlock(t) ==
    /\ pc[t] = "holding"
    /\ owner' = [owner EXCEPT ![file[t]] = IF @ = Self THEN None ELSE @]
    /\ pc' = [pc EXCEPT ![t] = "unlocked"]
    /\ UNCHANGED <<file, locks>>

\* UnlockFile: locks_.Remove(name_) ...
RemoveHeld(t) ==
    /\ pc[t] = "unlocked"
    /\ locks' = locks \ {file[t]}
    /\ pc' = [pc EXCEPT ![t] = "removed"]
    /\ UNCHANGED <<file, owner>>

\* ... then close(fd_) and delete the FileLock.
CloseHeld(t) ==
    /\ pc[t] = "removed"
    /\ Close(file[t])
    /\ pc' = [pc EXCEPT ![t] = "idle"]
    /\ file' = [file EXCEPT ![t] = None]
    /\ UNCHANGED locks

\* The other process takes and releases the fcntl lock.
OtherLock(f) ==
    /\ owner[f] = None
    /\ owner' = [owner EXCEPT ![f] = Other]
    /\ UNCHANGED <<pc, file, locks>>

OtherUnlock(f) ==
    /\ owner[f] = Other
    /\ owner' = [owner EXCEPT ![f] = None]
    /\ UNCHANGED <<pc, file, locks>>

Next ==
    \/ \E t \in Threads :
          \/ \E f \in Files : Open(t, f)
          \/ Insert(t) \/ CloseDup(t) \/ SetLock(t)
          \/ CloseFailed(t) \/ RemoveFailed(t)
          \/ Unlock(t) \/ RemoveHeld(t) \/ CloseHeld(t)
    \/ \E f \in Files : OtherLock(f) \/ OtherUnlock(f)

Spec == Init /\ [][Next]_vars

-----------------------------------------------------------------------------
TypeOK ==
    /\ pc \in [Threads -> PCs]
    /\ file \in [Threads -> Files \cup {None}]
    /\ \A t \in Threads : file[t] = None <=> pc[t] = "idle"
    /\ locks \subseteq Files
    /\ owner \in [Files -> {Self, Other, None}]

Holders(f) == {t \in Threads : pc[t] = "holding" /\ file[t] = f}

\* The purpose of PosixLockTable (its comment: fcntl gives no protection
\* against multiple uses from the same process): at most one thread of the
\* process holds a FileLock on a file at a time.
OneHolderPerProcess == \A f \in Files : Cardinality(Holders(f)) <= 1

\* No name leaks into the in-process set: every name in locks_ belongs to
\* a thread between its successful locks_.Insert and its locks_.Remove, on
\* the F_SETLK-failure path as on the unlock path.  A leaked name would
\* make every later LockFile of that file fail "already held by process".
InsertedPCs == {"inserted", "failed", "failremove", "holding", "unlocked"}
NoLeakedLockNames ==
    \A f \in locks : \E t \in Threads : pc[t] \in InsertedPCs /\ file[t] = f

\* What a caller of LockFile relies on (DB::Open's LOCK file): while a
\* thread holds a FileLock returned OK, its process owns the fcntl lock,
\* so no other process can hold the file at the same time.
HolderOwnsOSLock == \A f \in Files : Holders(f) # {} => owner[f] = Self

\* Restricts the behaviours to callers that never call LockFile on a name
\* the process already holds, to separate the UnlockFile ordering from the
\* duplicate-close path.
NoDuplicateLockFile == \A t \in Threads : pc[t] # "dup"
=============================================================================
