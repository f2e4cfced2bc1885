----------------------------- MODULE HandleTable -----------------------------
(***************************************************************************)
(* HandleTable, the open-chaining hash table of a cache shard             *)
(* (src/LearnCC/util/cache.cc).  list_ is an array of length_ buckets,    *)
(* each a chain of handles linked by next_hash; a handle sits in bucket    *)
(* hash & (length_ - 1).  A handle is <<key, generation>>: the handles    *)
(* LRUCache inserts one after the other under a key alternate between two *)
(* generations, which is enough to tell a replaced handle from its        *)
(* replacement.  h->hash is Hash[key].                                    *)
(***************************************************************************)
EXTENDS Naturals, Sequences, FiniteSets, Bitwise

\* Named instance, so that the table's own Remove keeps its name.
SX == INSTANCE SequencesExt

CONSTANTS
    Keys,        \* keys of the handles
    Hash,        \* Hash[k]: the 32-bit hash of key k (the shard's hash)
    NULL

VARIABLES
    list,     \* list_: bucket index 0..length_-1 -> chain (head first)
    length,   \* length_
    elems,    \* elems_
    gen       \* generation of the next handle LRUCache inserts per key

vars == <<list, length, elems, gen>>

Bucket(hash, len) == hash & (len - 1)

HashOf(h) == Hash[h[1]]

\* Faulty variant of FindPointer that stops at the first handle with the
\* same hash, without comparing keys.
FindPointerHashOnly(k, hash) ==
    LET b == Bucket(hash, length)
        i == SX!SelectInSeq(list[b], LAMBDA h : HashOf(h) = hash)
    IN  <<b, IF i = 0 THEN Len(list[b]) + 1 ELSE i>>

\* FindPointer(key, hash): the bucket and the position in its chain of the
\* handle with that hash and key, or the trailing slot (one past the end).
FindPointer(k, hash) ==
    LET b == Bucket(hash, length)
        i == SX!SelectInSeq(list[b], LAMBDA h : HashOf(h) = hash /\ h[1] = k)
    IN  <<b, IF i = 0 THEN Len(list[b]) + 1 ELSE i>>

\* HandleTable::Lookup: *FindPointer(key, hash).
Lookup(k) ==
    LET p == FindPointer(k, Hash[k]) IN
    IF p[2] <= Len(list[p[1]]) THEN list[p[1]][p[2]] ELSE NULL

\* The new length in Resize: 4, doubled while below elems_.
RECURSIVE Grow(_, _)
Grow(n, el) == IF n < el THEN Grow(2 * n, el) ELSE n

NewLength(el) == Grow(4, el)

\* Faulty variant of Resize's relinking that masks with the old length_.
RehashOldMask(lst, len, newLen) ==
    SX!FoldLeft(LAMBDA acc, h :
                 [acc EXCEPT ![Bucket(HashOf(h), len)] = <<h>> \o @],
             [b \in 0..newLen - 1 |-> <<>>],
             SX!FlattenSeq([i \in 1..len |-> lst[i - 1]]))

\* Resize: walk the old buckets in order and each chain from its head,
\* pushing every handle onto the front of its bucket in the new array.
Rehash(lst, len, newLen) ==
    SX!FoldLeft(LAMBDA acc, h :
                 [acc EXCEPT ![Bucket(HashOf(h), newLen)] = <<h>> \o @],
             [b \in 0..newLen - 1 |-> <<>>],
             SX!FlattenSeq([i \in 1..len |-> lst[i - 1]]))

-----------------------------------------------------------------------------
\* HandleTable(): length_ 0, elems_ 0, then Resize() makes 4 empty buckets.
Init ==
    /\ length = NewLength(0)
    /\ list = [b \in 0..length - 1 |-> <<>>]
    /\ elems = 0
    /\ gen = [k \in Keys |-> 0]

\* Faulty variants of Insert: one counts a replacement as a new element,
\* one compares the element count before incrementing it.
InsertCountsReplace(k) ==
    /\ gen' = [gen EXCEPT ![k] = 1 - @]
    /\ LET h     == <<k, gen[k]>>
           p     == FindPointer(k, Hash[k])
           chain == list[p[1]]
           isNew == p[2] > Len(chain)
           lst1  == [list EXCEPT ![p[1]] = IF isNew THEN Append(chain, h)
                                                    ELSE [chain EXCEPT ![p[2]] = h]]
           el1   == elems + 1
       IN  /\ elems' = el1
           /\ IF isNew /\ el1 > length
              THEN LET nl == NewLength(el1) IN
                   /\ length' = nl
                   /\ list' = Rehash(lst1, length, nl)
              ELSE /\ list' = lst1
                   /\ UNCHANGED length

InsertLateResize(k) ==
    /\ gen' = [gen EXCEPT ![k] = 1 - @]
    /\ LET h     == <<k, gen[k]>>
           p     == FindPointer(k, Hash[k])
           chain == list[p[1]]
           isNew == p[2] > Len(chain)
           lst1  == [list EXCEPT ![p[1]] = IF isNew THEN Append(chain, h)
                                                    ELSE [chain EXCEPT ![p[2]] = h]]
           el1   == IF isNew THEN elems + 1 ELSE elems
       IN  /\ elems' = el1
           /\ IF isNew /\ elems > length
              THEN LET nl == NewLength(el1) IN
                   /\ length' = nl
                   /\ list' = Rehash(lst1, length, nl)
              ELSE /\ list' = lst1
                   /\ UNCHANGED length

\* HandleTable::Insert(h): overwrite the slot FindPointer returns (h takes
\* over old's next_hash, so a replaced handle keeps its place in the
\* chain); a new key counts one more element and, when elems_ exceeds
\* length_, triggers Resize.
Insert(k) ==
    /\ gen' = [gen EXCEPT ![k] = 1 - @]
    /\ LET h     == <<k, gen[k]>>
           p     == FindPointer(k, Hash[k])
           chain == list[p[1]]
           isNew == p[2] > Len(chain)
           lst1  == [list EXCEPT ![p[1]] = IF isNew THEN Append(chain, h)
                                                    ELSE [chain EXCEPT ![p[2]] = h]]
           el1   == IF isNew THEN elems + 1 ELSE elems
       IN  /\ elems' = el1
           /\ IF isNew /\ el1 > length
              THEN LET nl == NewLength(el1) IN
                   /\ length' = nl
                   /\ list' = Rehash(lst1, length, nl)
              ELSE /\ list' = lst1
                   /\ UNCHANGED length

\* HandleTable::Remove: unlink the handle FindPointer finds (its slot takes
\* the handle's next_hash) and count one element less.  (A miss changes
\* nothing.)
Remove(k) ==
    LET p == FindPointer(k, Hash[k]) IN
    /\ p[2] <= Len(list[p[1]])
    /\ list' = [list EXCEPT ![p[1]] = SX!RemoveAt(@, p[2])]
    /\ elems' = elems - 1
    /\ UNCHANGED <<length, gen>>

Next == \E k \in Keys : Insert(k) \/ Remove(k)

Spec == Init /\ [][Next]_vars

-----------------------------------------------------------------------------
Handles == Keys \X {0, 1}

TypeOK ==
    /\ length \in Nat \ {0}
    /\ list \in [0..length - 1 -> Seq(Handles)]
    /\ elems \in Nat
    /\ gen \in [Keys -> {0, 1}]

\* elems_ counts the handles on the chains (Resize asserts elems_ == count):
\* a replacement must not count, a removal must count exactly one.
CountMatchesChains ==
    elems = SX!FoldFunction(LAMBDA ch, acc : Len(ch) + acc, 0, list)

\* The table keeps the average chain length at most one: after every
\* Insert, elems_ <= length_, and length_ stays a power of two >= 4 so that
\* hash & (length_ - 1) is a bucket index.
LoadAtMostOne ==
    /\ elems <= length
    /\ \E n \in 2..Cardinality(Keys) + 1 : length = 2^n

\* Every handle sits, once, in the bucket its hash selects under the
\* current length_, so FindPointer can reach it after any number of
\* Resizes.
EntriesInHomeBucket ==
    \A b \in DOMAIN list :
        /\ SX!IsInjective(list[b])
        /\ \A h \in SX!ToSet(list[b]) : Bucket(HashOf(h), length) = b

\* The table implements HandleMap: Lookup returns, for every key, the
\* handle last inserted under it and not removed since.
Map == INSTANCE HandleMap WITH contents <- [k \in Keys |-> Lookup(k)]

ImplementsHandleMap == Map!Spec
=============================================================================
