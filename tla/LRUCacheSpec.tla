---------------------------- MODULE LRUCacheSpec ----------------------------
(***************************************************************************)
(* What a cache shard promises (spec.md 4.7), without reference counts or  *)
(* a hash table: the cached entries in recency order, the handles callers  *)
(* hold, and the entries that have been freed.  An entry is freed exactly  *)
(* when it is neither cached nor held.  Insert makes the new entry the     *)
(* newest, drops the older entry of its key, then drops the oldest cached  *)
(* entries while the charge of everything still alive exceeds Capacity.   *)
(***************************************************************************)
EXTENDS Naturals, Sequences, SequencesExt

CONSTANTS Keys, Charges, Capacity

VARIABLES
    cached,   \* cached entries, oldest first
    pinned,   \* handles held by callers (a bag of entries)
    freed,    \* entries whose deleter has run
    key,      \* key of every entry created so far
    charge    \* charge of every entry created so far

vars == <<cached, pinned, freed, key, charge>>

Alive(c, p) == ToSet(c) \cup BagToSet(p)

LiveCharge(c, p, ch) == MapThenSumSet(LAMBDA e : ch[e], Alive(c, p))

\* Drop the oldest cached entries while what is alive is over capacity.
RECURSIVE Shrink(_, _, _)
Shrink(c, p, ch) ==
    IF LiveCharge(c, p, ch) > Capacity /\ c # <<>>
    THEN Shrink(Tail(c), p, ch)
    ELSE c

WithoutKey(c, k, kf) == SelectSeq(c, LAMBDA x : kf[x] # k)

\* After the step, what was created and is no longer alive has been freed.
FreeDead == freed' = DOMAIN key' \ Alive(cached', pinned')

Init ==
    /\ cached = <<>> /\ pinned = EmptyBag /\ freed = {}
    /\ key = <<>> /\ charge = <<>>

Insert(k, c) ==
    LET e == Len(key) + 1 IN
    /\ key' = Append(key, k)
    /\ charge' = Append(charge, c)
    /\ pinned' = pinned (+) SetToBag({e})
    /\ cached' = Shrink(Append(WithoutKey(cached, k, key'), e), pinned', charge')
    /\ FreeDead

Lookup(k) ==
    \E e \in ToSet(cached) :
        /\ key[e] = k
        /\ cached' = Append(Remove(cached, e), e)
        /\ pinned' = pinned (+) SetToBag({e})
        /\ UNCHANGED <<freed, key, charge>>

Release(e) ==
    /\ BagIn(e, pinned)
    /\ pinned' = pinned (-) SetToBag({e})
    /\ UNCHANGED <<cached, key, charge>>
    /\ FreeDead

Erase(k) ==
    /\ \E e \in ToSet(cached) : key[e] = k
    /\ cached' = WithoutKey(cached, k, key)
    /\ UNCHANGED <<pinned, key, charge>>
    /\ FreeDead

\* The shard goes away: nothing is cached, and what no caller holds is freed.
Destroy ==
    /\ cached' = <<>>
    /\ UNCHANGED <<pinned, key, charge>>
    /\ FreeDead

Next ==
    \/ Destroy
    \/ \E k \in Keys, c \in Charges : Insert(k, c)
    \/ \E k \in Keys : Lookup(k) \/ Erase(k)
    \/ \E e \in DOMAIN key : Release(e)

Spec == Init /\ [][Next]_vars
=============================================================================
