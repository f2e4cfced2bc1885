----------------------------- MODULE InternalKey -----------------------------
(***************************************************************************)
(* Internal keys, their comparator and LookupKey (src/LearnCC/db/          *)
(* dbformat.cc), as operators over byte sequences.                         *)
(*                                                                         *)
(* An internal key is user_key ++ fixed64(sequence << 8 | type), the       *)
(* fixed64 little-endian.  The sequence number has SeqBits bits instead of *)
(* 56, so that packed values stay within TLC's integers; kMaxSequenceNumber*)
(* is 2^SeqBits - 1 and packing below it never overflows, as in the code.  *)
(* The user comparator, its separator/successor and the varint/fixed       *)
(* coders (util/comparator.cc, util/coding.cc; not under src/) are         *)
(* modelled from their LevelDB definitions.                                *)
(***************************************************************************)
EXTENDS Integers, Sequences

CONSTANTS
    SeqBits   \* width of a sequence number (56 in the code)

kMaxSequenceNumber == 2 ^ SeqBits - 1
kTypeDeletion == 0
kTypeValue == 1
kValueTypeForSeek == kTypeValue

\* PackSequenceAndType (asserts seq <= kMaxSequenceNumber, t <= kValueTypeForSeek).
PackSequenceAndType(seq, t) == seq * 256 + t

\* PutFixed64 / DecodeFixed64: eight bytes, little-endian.
RECURSIVE EncodeLE(_, _)
EncodeLE(v, n) == IF n = 0 THEN <<>> ELSE <<v % 256>> \o EncodeLE(v \div 256, n - 1)
EncodeFixed64(v) == EncodeLE(v, 8)
RECURSIVE DecodeLE(_)
DecodeLE(s) == IF s = <<>> THEN 0 ELSE Head(s) + 256 * DecodeLE(Tail(s))
DecodeFixed64(s) == DecodeLE(s)

\* PutVarint32 for values below 2^14.
EncodeVarint32(v) == IF v < 128 THEN <<v>> ELSE <<128 + (v % 128), v \div 128>>

\* AppendInternalKey onto an empty string.
AppendInternalKey(uk, seq, t) == uk \o EncodeFixed64(PackSequenceAndType(seq, t))

ExtractUserKey(k) == SubSeq(k, 1, Len(k) - 8)
Tag(k) == DecodeFixed64(SubSeq(k, Len(k) - 7, Len(k)))

-----------------------------------------------------------------------------
(* BytewiseComparatorImpl                                                  *)

RECURSIVE BytewiseCompare(_, _)
BytewiseCompare(a, b) ==
    IF a = <<>> /\ b = <<>> THEN 0
    ELSE IF a = <<>> THEN -1
    ELSE IF b = <<>> THEN 1
    ELSE IF Head(a) < Head(b) THEN -1
    ELSE IF Head(a) > Head(b) THEN 1
    ELSE BytewiseCompare(Tail(a), Tail(b))

\* Index (0-based) of the first byte where a and b differ, or the shorter length.
RECURSIVE DiffIndex(_, _)
DiffIndex(a, b) ==
    IF a = <<>> \/ b = <<>> \/ Head(a) # Head(b) THEN 0 ELSE 1 + DiffIndex(Tail(a), Tail(b))

\* BytewiseComparatorImpl::FindShortestSeparator: if start is not a prefix
\* of limit and its first differing byte can be incremented while staying
\* below limit's, increment it and cut start after it.
UserFindShortestSeparator(start, limit) ==
    LET d == DiffIndex(start, limit) IN
    IF d >= Len(start) \/ d >= Len(limit) THEN start
    ELSE IF start[d + 1] < 255 /\ start[d + 1] + 1 < limit[d + 1]
         THEN [SubSeq(start, 1, d + 1) EXCEPT ![d + 1] = @ + 1]
         ELSE start

\* BytewiseComparatorImpl::FindShortSuccessor: increment the first byte
\* that is not 0xff and cut after it; a run of 0xff is left unchanged.
RECURSIVE UserFindShortSuccessor(_)
UserFindShortSuccessor(k) ==
    IF k = <<>> THEN k
    ELSE IF Head(k) # 255 THEN <<Head(k) + 1>>
    ELSE <<255>> \o UserFindShortSuccessor(Tail(k))

-----------------------------------------------------------------------------
(* InternalKeyComparator                                                   *)

\* Faulty variant of Compare with the user keys passed in swapped order.
CompareSwappedUserKeys(a, b) ==
    LET r == BytewiseCompare(ExtractUserKey(b), ExtractUserKey(a)) IN
    IF r # 0 THEN r
    ELSE IF Tag(a) > Tag(b) THEN -1 ELSE IF Tag(a) < Tag(b) THEN 1 ELSE 0

\* Compare: increasing user key, then decreasing sequence and type, read
\* together as the packed tag of the last eight bytes.
Compare(a, b) ==
    LET r == BytewiseCompare(ExtractUserKey(a), ExtractUserKey(b)) IN
    IF r # 0 THEN r
    ELSE IF Tag(a) > Tag(b) THEN -1 ELSE IF Tag(a) < Tag(b) THEN 1 ELSE 0

\* Faulty variants of the two shorteners without the "shorter physically
\* but larger logically" test.
FindShortestSeparatorNoCheck(start, limit) ==
    UserFindShortestSeparator(ExtractUserKey(start), ExtractUserKey(limit))
        \o EncodeFixed64(PackSequenceAndType(kMaxSequenceNumber, kValueTypeForSeek))

FindShortSuccessorNoCheck(key) ==
    UserFindShortSuccessor(ExtractUserKey(key))
        \o EncodeFixed64(PackSequenceAndType(kMaxSequenceNumber, kValueTypeForSeek))

\* FindShortestSeparator: shorten the user part with the user comparator;
\* keep it only if it is physically shorter and logically larger, tagged
\* with the earliest possible (largest) sequence number.
FindShortestSeparator(start, limit) ==
    LET userStart == ExtractUserKey(start)
        tmp == UserFindShortestSeparator(userStart, ExtractUserKey(limit))
    IN  IF Len(tmp) < Len(userStart) /\ BytewiseCompare(userStart, tmp) < 0
        THEN tmp \o EncodeFixed64(PackSequenceAndType(kMaxSequenceNumber, kValueTypeForSeek))
        ELSE start

\* FindShortSuccessor: the same for the user comparator's successor.
FindShortSuccessor(key) ==
    LET userKey == ExtractUserKey(key)
        tmp == UserFindShortSuccessor(userKey)
    IN  IF Len(tmp) < Len(userKey) /\ BytewiseCompare(userKey, tmp) < 0
        THEN tmp \o EncodeFixed64(PackSequenceAndType(kMaxSequenceNumber, kValueTypeForSeek))
        ELSE key

-----------------------------------------------------------------------------
\* LookupKey(user_key, s): varint32(usize + 8), the user key, and the tag of
\* sequence s with kValueTypeForSeek; its three views.
LookupKey(uk, s) ==
    LET ik == AppendInternalKey(uk, s, kValueTypeForSeek)
    IN  [memtable_key |-> EncodeVarint32(Len(uk) + 8) \o ik, internal_key |-> ik, user_key |-> uk]
=============================================================================
