------------------------------ MODULE LRUCache ------------------------------
(***************************************************************************)
(* One shard of the sharded LRU block cache (src/LearnCC/util/cache.cc,    *)
(* class LRUCache).  Every public method takes the shard mutex for its     *)
(* whole body, so each method is one atomic action here; the interleaving  *)
(* that matters is between callers that keep handles across calls.        *)
(*                                                                         *)
(* An LRUHandle is identified by its allocation order 1..MaxEntries.  The  *)
(* fields key, charge, refs of the allocated handles are sequences indexed *)
(* by that number.  HandleTable is abstracted to a function from keys to   *)
(* entries (it is modelled on its own in HandleTable.tla).                 *)
(***************************************************************************)
EXTENDS Naturals, Sequences, SequencesExt

CONSTANTS
    Keys,        \* cache keys (Slices); the hash is a function of the key
    Charges,     \* charges a caller may pass to Insert
    Capacity,    \* capacity_ of the shard
    MaxEntries,  \* bound: number of LRUHandles allocated by Insert
    MaxHeld,     \* bound: handles callers hold at once
    NULL         \* the NULL LRUHandle*

VARIABLES
    table,    \* table_: key -> entry, NULL when absent
    lru,      \* lru_ list: Head is lru_.next (oldest), Last is lru_.prev (newest)
    usage,    \* usage_
    key,      \* key[e]      = e->key()
    charge,   \* charge[e]   = e->charge
    refs,     \* refs[e]     = e->refs
    deleted,  \* deleted[e]  = number of calls of e->deleter (and free(e))
    held,     \* handles returned by Insert/Lookup, not yet Released (a bag)
    destroyed \* the shard's destructor has run

vars == <<table, lru, usage, key, charge, refs, deleted, held, destroyed>>

Entries == DOMAIN refs                       \* allocated so far
Cached(e) == \E k \in Keys : table[k] = e    \* reachable from table_
Pinned(e) == BagIn(e, held)                  \* a caller holds a handle

(***************************************************************************)
(* The shard's state as one record, so that a method body can be written   *)
(* as a chain of updates (and the eviction loop as a recursion).           *)
(***************************************************************************)
State == [table |-> table, lru |-> lru, usage |-> usage, key |-> key,
          charge |-> charge, refs |-> refs, deleted |-> deleted]

SetState(s) ==
    /\ table' = s.table   /\ lru' = s.lru       /\ usage' = s.usage
    /\ key' = s.key       /\ charge' = s.charge /\ refs' = s.refs
    /\ deleted' = s.deleted

\* Faulty variant of Unref that frees when the count drops to one.
UnrefAtOne(s, e) ==
    LET r == s.refs[e] - 1 IN
    IF r <= 1
    THEN [s EXCEPT !.refs[e] = r, !.usage = @ - s.charge[e],
                   !.deleted[e] = @ + 1]
    ELSE [s EXCEPT !.refs[e] = r]

\* LRUCache::Unref: drop one reference; at zero subtract the charge from
\* usage_, call the deleter and free the entry.
Unref(s, e) ==
    LET r == s.refs[e] - 1 IN
    IF r <= 0
    THEN [s EXCEPT !.refs[e] = r, !.usage = @ - s.charge[e],
                   !.deleted[e] = @ + 1]
    ELSE [s EXCEPT !.refs[e] = r]

\* LRU_Remove / LRU_Append: unlink e, or link it as the newest entry.
LRU_Remove(s, e) == [s EXCEPT !.lru = Remove(@, e)]
LRU_Append(s, e) == [s EXCEPT !.lru = Append(@, e)]

\* HandleTable::Remove(key, hash): unlink whatever entry the key maps to.
TableRemove(s, k) == [s EXCEPT !.table[k] = NULL]

\* The loop at the end of LRUCache::Insert: while usage_ > capacity_ and the
\* list is not empty, evict lru_.next from the list and the table and Unref it.
\* Faulty variants of the eviction loop: one that also subtracts the charge
\* when it unlinks an entry (so a pinned entry is charged off twice), and
\* one that evicts a single entry (an "if" where the code has "while").
RECURSIVE EvictLoopChargeOnUnlink(_)
EvictLoopChargeOnUnlink(s) ==
    IF s.usage > Capacity /\ s.lru # <<>>
    THEN LET old == Head(s.lru) IN
         EvictLoopChargeOnUnlink(Unref(TableRemove([s EXCEPT !.lru = Tail(@),
                              !.usage = @ - s.charge[old]], s.key[old]), old))
    ELSE s

EvictOnce(s) ==
    IF s.usage > Capacity /\ s.lru # <<>>
    THEN LET old == Head(s.lru) IN
         Unref(TableRemove([s EXCEPT !.lru = Tail(@)], s.key[old]), old)
    ELSE s

RECURSIVE EvictLoop(_)
EvictLoop(s) ==
    IF s.usage > Capacity /\ s.lru # <<>>
    THEN LET old == Head(s.lru) IN
         EvictLoop(Unref(TableRemove([s EXCEPT !.lru = Tail(@)], s.key[old]), old))
    ELSE s

RECURSIVE UnrefAll(_, _)
\* Faulty variant of UnrefAll whose loop starts one entry late.
UnrefAllSkipsOldest(s, l) == IF l = <<>> THEN s ELSE UnrefAll(s, Tail(l))

\* The loop of LRUCache::~LRUCache: Unref every entry of lru_, oldest first.
\* The assert(e->refs == 1) before each Unref is compiled out of a release
\* build, so an entry a caller still holds survives with refs 1.
UnrefAll(s, l) == IF l = <<>> THEN s ELSE UnrefAll(Unref(s, Head(l)), Tail(l))

-----------------------------------------------------------------------------
Init ==
    /\ destroyed = FALSE
    /\ table = [k \in Keys |-> NULL]
    /\ lru = <<>>
    /\ usage = 0
    /\ key = <<>> /\ charge = <<>> /\ refs = <<>> /\ deleted = <<>>
    /\ held = EmptyBag

\* Faulty variant of Insert: the replaced entry is Unref'd but left linked
\* in the LRU list.
InsertKeepsOldLinked(k, c) ==
    /\ Len(refs) < MaxEntries
    /\ BagCardinality(held) < MaxHeld
    /\ LET e   == Len(refs) + 1
           s0  == [State EXCEPT !.key = Append(@, k), !.charge = Append(@, c),
                               !.refs = Append(@, 2), !.deleted = Append(@, 0)]
           s1  == [LRU_Append(s0, e) EXCEPT !.usage = @ + c]
           old == table[k]
           s2  == [s1 EXCEPT !.table[k] = e]
           s3  == IF old # NULL THEN Unref(s2, old) ELSE s2
       IN  /\ SetState(EvictLoop(s3))
           /\ held' = held (+) SetToBag({e})

\* LRUCache::Insert: a new entry with refs 2 (cache + returned handle) is
\* appended as newest, usage_ grows by charge, the entry replaces any entry
\* of the same key in table_ (that one is unlinked and Unref'd), then the
\* eviction loop runs.  The returned handle goes to the caller.
Insert(k, c) ==
    /\ Len(refs) < MaxEntries
    /\ BagCardinality(held) < MaxHeld
    /\ LET e   == Len(refs) + 1
           s0  == [State EXCEPT !.key = Append(@, k), !.charge = Append(@, c),
                               !.refs = Append(@, 2), !.deleted = Append(@, 0)]
           s1  == [LRU_Append(s0, e) EXCEPT !.usage = @ + c]
           old == table[k]
           s2  == [s1 EXCEPT !.table[k] = e]
           s3  == IF old # NULL THEN Unref(LRU_Remove(s2, old), old) ELSE s2
       IN  /\ SetState(EvictLoop(s3))
           /\ held' = held (+) SetToBag({e})

\* Faulty variant of Lookup that does not move the entry to the newest end.
LookupNoTouch(k) ==
    /\ table[k] # NULL
    /\ BagCardinality(held) < MaxHeld
    /\ LET e == table[k] IN
       /\ SetState([State EXCEPT !.refs[e] = @ + 1])
       /\ held' = held (+) SetToBag({e})

\* LRUCache::Lookup on a hit: one more reference, move to newest, return
\* the handle.  (A miss returns NULL and changes nothing.)
Lookup(k) ==
    /\ table[k] # NULL
    /\ BagCardinality(held) < MaxHeld
    /\ LET e == table[k] IN
       /\ SetState(LRU_Append(LRU_Remove([State EXCEPT !.refs[e] = @ + 1], e), e))
       /\ held' = held (+) SetToBag({e})

\* LRUCache::Release: the caller gives back one handle; Unref it.
Release(e) ==
    /\ Pinned(e)
    /\ SetState(Unref(State, e))
    /\ held' = held (-) SetToBag({e})

\* LRUCache::Erase: if the key is present, remove it from table_ and the
\* list and drop the cache's reference.
Erase(k) ==
    /\ table[k] # NULL
    /\ LET e == table[k] IN
       SetState(Unref(LRU_Remove(TableRemove(State, k), e), e))
    /\ UNCHANGED held

\* LRUCache::~LRUCache.  It leaves lru_ and table_ as they are (their
\* memory goes with the shard); no method is called on the shard after it.
LRUCacheDestructor ==
    /\ SetState(UnrefAll(State, lru))
    /\ UNCHANGED held

\* A method runs only on a live shard, and the destructor runs once.
Next ==
    \/ /\ ~destroyed
       /\ \/ \E k \in Keys, c \in Charges : Insert(k, c)
          \/ \E k \in Keys : Lookup(k) \/ Erase(k)
          \/ \E e \in Entries : Release(e)
       /\ UNCHANGED destroyed
    \/ /\ ~destroyed
       /\ LRUCacheDestructor
       /\ destroyed' = TRUE

Spec == Init /\ [][Next]_vars

-----------------------------------------------------------------------------
TypeOK ==
    /\ table \in [Keys -> Entries \cup {NULL}]
    /\ lru \in Seq(Entries)
    /\ usage \in Nat
    /\ key \in Seq(Keys) /\ charge \in Seq(Charges)
    /\ refs \in Seq(Nat) /\ deleted \in Seq(Nat)
    /\ DOMAIN key = Entries /\ DOMAIN charge = Entries /\ DOMAIN deleted = Entries
    /\ IsABag(held) /\ BagToSet(held) \subseteq Entries
    /\ destroyed \in BOOLEAN

\* table_ still owns an entry: the entry is in it and the shard is alive.
Owned(e) == Cached(e) /\ ~destroyed

\* The reference count of every entry equals the number of its owners: one
\* for table_ (Insert's "one from LRUCache") plus one per handle a caller
\* got from Insert or Lookup and has not Released.  Eviction, replacement
\* and Erase drop the cache's share, Release a caller's share, and the
\* destructor the cache's share of every entry still listed.
RefsMatchOwners ==
    \A e \in Entries :
        refs[e] = (IF Owned(e) THEN 1 ELSE 0) + CopiesIn(e, held)

\* Deferred free: the deleter of an entry has run exactly once if no owner
\* is left, and not at all while the table or a caller still owns it; so a
\* handle a caller holds is never freed under it (Value stays readable
\* after the entry was evicted, replaced or erased) and nothing leaks; when
\* the shard is destroyed, every entry no caller holds has been freed.
FreedExactlyWhenUnowned ==
    \A e \in Entries :
        deleted[e] = IF Owned(e) \/ Pinned(e) THEN 0 ELSE 1

\* usage_ is the sum of the charges of the entries not yet freed, including
\* entries evicted while a caller still pins them (usage_ only shrinks in
\* Unref when the entry is freed).
UsageIsLiveCharge ==
    usage = MapThenSumSet(LAMBDA e : charge[e], {e \in Entries : deleted[e] = 0})

\* The LRU list and table_ hold the same entries, each once, and the table
\* maps every key to an entry of that key.
ListMirrorsTable ==
    /\ IsInjective(lru)
    /\ ToSet(lru) = {e \in Entries : Cached(e)}
    /\ \A k \in Keys : table[k] # NULL => key[table[k]] = k

\* After every operation the shard is within capacity unless nothing is
\* left in the list to evict (the soft limit: pinned, evicted entries may
\* still count in usage_).
CapacityRespected ==
    lru # <<>> => usage <= Capacity

\* The spec (4.7) says eviction drops only entries no caller pins; an
\* Insert of key k never removes a pinned entry of another key from the
\* cache.  (The loop in Insert evicts lru_.next whatever its refs.)
InsertSparesPinned ==
    [][\A k \in Keys, c \in Charges :
          Insert(k, c) =>
            \A e \in Entries : (Pinned(e) /\ Cached(e) /\ key[e] # k) => table'[key[e]] = e
      ]_vars

\* The shard implements LRUCacheSpec: the list is the recency order, the
\* handles are the pins, and an entry counts as freed once its deleter ran.
\* This is what the reference counting, the eviction loop and the LRU
\* relinking in Lookup are for, taken together.
Abstract == INSTANCE LRUCacheSpec
    WITH cached <- IF destroyed THEN <<>> ELSE lru, pinned <- held,
         freed <- {e \in Entries : deleted[e] > 0}

ImplementsLRUCacheSpec == Abstract!Spec
=============================================================================
