------------------------------ MODULE MemTable ------------------------------
(***************************************************************************)
(* MemTable (src/LearnCC/db/leveldb_main.cc, namespace leveldb, from       *)
(* GetLengthPrefixedSlice to MemTable::Get).                               *)
(*                                                                         *)
(* An entry is the byte string Add builds: varint32 of the internal key's  *)
(* length, the internal key (user key ++ fixed64 tag), varint32 of the     *)
(* value's length, the value.  The skiplist (db/skiplist.h, not under      *)
(* src/) is a set of entries ordered by KeyComparator; its Seek is the     *)
(* least entry at or after the target.  Writes come from one writer with   *)
(* increasing sequence numbers, as DBImpl assigns them.                    *)
(***************************************************************************)
EXTENDS InternalKey, FiniteSets

CONSTANTS
    Keys,        \* user keys
    Values,      \* values
    MaxEntries   \* bound: entries added

VARIABLES
    table,       \* table_: the set of encoded entries in the skiplist
    rnd,         \* the skiplist's rnd_ (a Random seeded with 0xdeadbeef)
    draws,       \* ghost: how many times rnd_.Next() has been called
    added        \* ghost: [user, seq, type, value] of every Add

vars == <<table, rnd, draws, added>>

Rnd == INSTANCE Random

kMaxHeight == 12
kBranching == 4

\* SkipList::RandomHeight: grow the height while it is below kMaxHeight
\* and rnd_.Next() % kBranching == 0; [seed, height, draws] after it.
RECURSIVE RandomHeightFrom(_, _, _)
RandomHeightFrom(seed, height, n) ==
    IF height = kMaxHeight THEN [seed |-> seed, height |-> height, draws |-> n]
    ELSE IF Rnd!Next(seed) % kBranching = 0
         THEN RandomHeightFrom(Rnd!Next(seed), height + 1, n + 1)
         ELSE [seed |-> Rnd!Next(seed), height |-> height, draws |-> n + 1]

\* GetVarint32Ptr on an uncorrupted entry: [value, next] from position i.
RECURSIVE Varint32From(_, _, _, _)
Varint32From(s, i, shift, acc) ==
    IF s[i] >= 128
    THEN Varint32From(s, i + 1, shift + 7, acc + (s[i] - 128) * 2 ^ shift)
    ELSE [value |-> acc + s[i] * 2 ^ shift, next |-> i + 1]

\* GetLengthPrefixedSlice(data): the slice after the length, and where the
\* next field starts.
GetLengthPrefixedSlice(s, i) ==
    LET len == Varint32From(s, i, 0, 0)
    IN  [slice |-> SubSeq(s, len.next, len.next + len.value - 1),
         next  |-> len.next + len.value]

\* MemTable::KeyComparator: compare the internal keys of two entries.
KeyComparator(a, b) ==
    Compare(GetLengthPrefixedSlice(a, 1).slice, GetLengthPrefixedSlice(b, 1).slice)

\* SkipList::Iterator::Seek: the least entry not before target, if any.
Seek(target) ==
    LET later == {e \in table : KeyComparator(e, target) >= 0}
    IN  IF later = {} THEN <<>>
        ELSE <<CHOOSE e \in later : \A f \in later : KeyComparator(e, f) <= 0>>

\* EncodeKey(scratch, target): varint32 of target's length, then target.
EncodeKey(target) == EncodeVarint32(Len(target)) \o target

\* MemTableIterator::Seek(k): the skiplist's Seek to EncodeKey(k).
IterSeek(k) == Seek(EncodeKey(k))

\* MemTableIterator::key() and value().
IterKey(e) == GetLengthPrefixedSlice(e, 1).slice
IterValue(e) == GetLengthPrefixedSlice(e, GetLengthPrefixedSlice(e, 1).next).slice

\* Faulty variant of EncodeEntry that stores the user key's length instead
\* of the internal key's.
EncodeEntryUserKeyLength(s, type, key, value) ==
    EncodeVarint32(Len(key)) \o key \o EncodeFixed64(PackSequenceAndType(s, type))
        \o EncodeVarint32(Len(value)) \o value

\* The buffer MemTable::Add fills: internal_key_size = key_size + 8.
EncodeEntry(s, type, key, value) ==
    EncodeVarint32(Len(key) + 8) \o key \o EncodeFixed64(PackSequenceAndType(s, type))
        \o EncodeVarint32(Len(value)) \o value

-----------------------------------------------------------------------------
Init ==
    /\ table = {}
    /\ rnd = Rnd!RandomInit(1, 1588444911)     \* Random(0xdeadbeef)
    /\ draws = 0
    /\ added = {}

\* MemTable::Add(s, type, key, value): encode the entry and insert it in
\* the skiplist, which draws the new node's height.  The DB hands out each
\* sequence number once, increasing.
Add(s, type, key, value) ==
    /\ Cardinality(added) < MaxEntries
    /\ \A e \in added : e.seq < s
    /\ table' = table \cup {EncodeEntry(s, type, key, value)}
    /\ LET h == RandomHeightFrom(rnd, 1, 0)
       IN  rnd' = h.seed /\ draws' = draws + h.draws
    /\ added' = added \cup {[user |-> key, seq |-> s, type |-> type, value |-> value]}

Next ==
    \E s \in 0..kMaxSequenceNumber, type \in {kTypeDeletion, kTypeValue},
       key \in Keys, value \in Values :
        Add(s, type, key, value)

Spec == Init /\ [][Next]_vars

-----------------------------------------------------------------------------
NotInTable == [found |-> FALSE, status |-> "OK", value |-> <<>>]

\* Faulty variant of Get that accepts whatever entry Seek lands on.
GetNoUserKeyCheck(lk) ==
    LET it == Seek(lk.memtable_key) IN
    IF it = <<>> THEN NotInTable
    ELSE LET entry == it[1]
             klen  == Varint32From(entry, 1, 0, 0)
             tag   == DecodeFixed64(SubSeq(entry, klen.next + klen.value - 8,
                                           klen.next + klen.value - 1))
         IN  CASE tag % 256 = kTypeValue ->
                    [found |-> TRUE, status |-> "OK",
                     value |-> GetLengthPrefixedSlice(entry, klen.next + klen.value).slice]
               [] tag % 256 = kTypeDeletion ->
                    [found |-> TRUE, status |-> "NotFound", value |-> <<>>]
               [] OTHER -> NotInTable

\* MemTable::Get(key, value, s): Seek to the LookupKey's memtable key; if
\* the entry found has the same user key, a value is returned and a
\* deletion yields NotFound (both return true); otherwise false.
Get(lk) ==
    LET it == Seek(lk.memtable_key) IN
    IF it = <<>> THEN NotInTable
    ELSE LET entry == it[1]
             klen  == Varint32From(entry, 1, 0, 0)
             user  == SubSeq(entry, klen.next, klen.next + klen.value - 9)
             tag   == DecodeFixed64(SubSeq(entry, klen.next + klen.value - 8,
                                           klen.next + klen.value - 1))
         IN  IF BytewiseCompare(user, lk.user_key) # 0 THEN NotInTable
             ELSE CASE tag % 256 = kTypeValue ->
                         [found |-> TRUE, status |-> "OK",
                          value |-> GetLengthPrefixedSlice(entry, klen.next + klen.value).slice]
                    [] tag % 256 = kTypeDeletion ->
                         [found |-> TRUE, status |-> "NotFound", value |-> <<>>]
                    [] OTHER -> NotInTable
=============================================================================
