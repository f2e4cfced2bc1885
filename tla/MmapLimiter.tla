----------------------------- MODULE MmapLimiter -----------------------------
(***************************************************************************)
(* MmapLimiter and its use by PosixEnv::NewRandomAccessFile and            *)
(* ~PosixMmapReadableFile (src/LearnCC/util/env_posix.cc).                 *)
(*                                                                         *)
(* allowed_ is an atomic read without the mutex by the first test of       *)
(* Acquire, and read and written under mu_ by the rest of Acquire and by   *)
(* Release.  A thread opening a file takes a slot, maps the file (or fails *)
(* and gives the slot back), or falls back to a pread-based file when no   *)
(* slot is left; a mapped file gives its slot back when it is deleted.     *)
(***************************************************************************)
EXTENDS Naturals, FiniteSets, Functions

CONSTANTS
    Threads,     \* threads opening random-access files
    Limit,       \* the constructor's SetAllowed(1000 or 0)
    MaxMapped    \* bound: mapped files a thread keeps open at once

VARIABLES
    allowed,     \* allowed_
    pc,          \* pc[t]: "idle", "locking" (passed the unlocked test),
                 \* "acquired" (holds a slot, mmap not done yet)
    mapped       \* mapped[t]: PosixMmapReadableFiles thread t has open

vars == <<allowed, pc, mapped>>

Init ==
    /\ allowed = Limit
    /\ pc = [t \in Threads |-> "idle"]
    /\ mapped = [t \in Threads |-> 0]

\* NewRandomAccessFile: open(fname) and the first, unlocked test of Acquire
\* (GetAllowed() <= 0: no slot, fall back to a PosixRandomAccessFile, which
\* the limiter does not see).  A failed open changes nothing.
Open(t) ==
    /\ pc[t] = "idle"
    /\ mapped[t] < MaxMapped
    /\ pc' = [pc EXCEPT ![t] = IF allowed <= 0 THEN "idle" ELSE "locking"]
    /\ UNCHANGED <<allowed, mapped>>

\* Faulty variant of AcquireLocked trusting the unlocked test.
AcquireLockedNoRecheck(t) ==
    /\ pc[t] = "locking"
    /\ allowed' = allowed - 1
    /\ pc' = [pc EXCEPT ![t] = "acquired"]
    /\ UNCHANGED mapped

\* Acquire under mu_: re-read allowed_; none left means false (fall back),
\* otherwise take the slot.
AcquireLocked(t) ==
    /\ pc[t] = "locking"
    /\ IF allowed <= 0
         THEN /\ pc' = [pc EXCEPT ![t] = "idle"]
              /\ UNCHANGED allowed
         ELSE /\ allowed' = allowed - 1
              /\ pc' = [pc EXCEPT ![t] = "acquired"]
    /\ UNCHANGED mapped

\* GetFileSize and mmap succeed: a PosixMmapReadableFile owns the slot.
Map(t) ==
    /\ pc[t] = "acquired"
    /\ mapped' = [mapped EXCEPT ![t] = @ + 1]
    /\ pc' = [pc EXCEPT ![t] = "idle"]
    /\ UNCHANGED allowed

\* Faulty variant of MapFails that returns the error without Release.
MapFailsNoRelease(t) ==
    /\ pc[t] = "acquired"
    /\ pc' = [pc EXCEPT ![t] = "idle"]
    /\ UNCHANGED <<allowed, mapped>>

\* GetFileSize or mmap fails: close(fd), then Release since !s.ok().
MapFails(t) ==
    /\ pc[t] = "acquired"
    /\ allowed' = allowed + 1
    /\ pc' = [pc EXCEPT ![t] = "idle"]
    /\ UNCHANGED mapped

\* ~PosixMmapReadableFile: munmap, then Release under mu_.
CloseFile(t) ==
    /\ mapped[t] > 0
    /\ mapped' = [mapped EXCEPT ![t] = @ - 1]
    /\ allowed' = allowed + 1
    /\ UNCHANGED pc

Next ==
    \E t \in Threads :
        \/ Open(t) \/ AcquireLocked(t) \/ Map(t) \/ MapFails(t) \/ CloseFile(t)

Spec == Init /\ [][Next]_vars

-----------------------------------------------------------------------------
TypeOK ==
    /\ allowed \in Int
    /\ pc \in [Threads -> {"idle", "locking", "acquired"}]
    /\ mapped \in [Threads -> Nat]

\* Slots are conserved across Acquire, the mmap error path and the file
\* destructor: free slots plus slots held (between Acquire and mmap, or by
\* a mapped file) always equal the limit the constructor set.
SlotsConserved ==
    allowed + Cardinality({t \in Threads : pc[t] = "acquired"})
        + FoldFunction(LAMBDA x, y : x + y, 0, mapped) = Limit

\* Two threads racing for the last slot past the unlocked test cannot both
\* take it: allowed_ never goes below zero, so at most Limit files are
\* mapped.
AllowedNeverNegative == allowed >= 0
=============================================================================
