----------------------------- MODULE FilterBlock -----------------------------
(***************************************************************************)
(* FilterBlockBuilder and FilterBlockReader (src/unnamed/part_000, i.e.    *)
(* table/filter_block.cc).  The builder emits one filter per 2 KiB range   *)
(* of data-block offsets; the reader maps a block offset back to its       *)
(* filter.                                                                  *)
(*                                                                         *)
(* result_ is modelled byte by byte, so the reader can be run on the       *)
(* finished block and on every one-byte corruption of it.  The injected    *)
(* FilterPolicy is the InternalFilterPolicy of src/LearnCC/db/dbformat.cc *)
(* wrapping an exact user policy (CreateFilter appends the user keys, one *)
(* byte each; KeyMayMatch tests membership).  An internal key is its user *)
(* key followed by its tag; it is encoded as user * kTagSpace + tag, so    *)
(* ExtractUserKey drops the last digit as the code drops the last 8 bytes.*)
(***************************************************************************)
EXTENDS Naturals, Sequences, SequencesExt

CONSTANTS
    Keys,          \* internal keys the table builder adds
    Offsets,       \* data-block offsets the table builder may start blocks at
    MaxKeys,       \* bound: keys pending for one filter
    CorruptBytes   \* byte values a corrupted block may hold

VARIABLES
    keys,          \* keys_ and start_: the keys of the pending filter
    offsets,       \* filter_offsets_
    result,        \* result_ (bytes)
    finished,      \* Finish has been called (the builder is then discarded)
    cur,           \* ghost: offset of the last StartBlock (0 before any)
    added          \* ghost: <<block offset, key>> pairs added

vars == <<keys, offsets, result, finished, cur, added>>

kFilterBaseLg == 11
kFilterBase == 2 ^ kFilterBaseLg

\* PutFixed32 / DecodeFixed32: four bytes, little-endian.
EncodeFixed32(v) == <<v % 256, (v \div 256) % 256, (v \div 65536) % 256, v \div 16777216>>
DecodeFixed32(s, i) ==   \* the word at 0-based position i of s
    s[i + 1] + 256 * s[i + 2] + 65536 * s[i + 3] + 16777216 * s[i + 4]

\* Tags are abstracted to kTagSpace values (sequence number and type).
kTagSpace == 4
ExtractUserKey(k) == k \div kTagSpace

\* The exact user policy.
UserCreateFilter(ks) == ks
PolicyKeyMayMatch(k, filter) == k \in ToSet(filter)

\* InternalFilterPolicy::CreateFilter: strip every key to its user key,
\* then build the user policy's filter.
CreateFilter(ks) == UserCreateFilter([i \in 1..Len(ks) |-> ExtractUserKey(ks[i])])

\* InternalFilterPolicy::KeyMayMatch: the user key of the probe.
InternalKeyMayMatch(k, filter) == PolicyKeyMayMatch(ExtractUserKey(k), filter)

Init ==
    /\ keys = <<>>
    /\ offsets = <<>>
    /\ result = <<>>
    /\ finished = FALSE
    /\ cur = 0
    /\ added = {}

\* Faulty variant of GenerateFilter that does not clear keys_ / start_.
GenerateFilterKeepsKeys(s) ==
    IF s.keys = <<>>
    THEN [s EXCEPT !.offsets = Append(@, Len(s.result))]
    ELSE [s EXCEPT !.offsets = Append(@, Len(s.result)),
                   !.result = @ \o CreateFilter(s.keys)]

\* GenerateFilter as a function of the builder state: with no pending key,
\* record an empty filter (its offset only); otherwise record the offset and
\* append the policy's filter, then clear the pending keys.
GenerateFilter(s) ==
    IF s.keys = <<>>
    THEN [s EXCEPT !.offsets = Append(@, Len(s.result))]
    ELSE [s EXCEPT !.offsets = Append(@, Len(s.result)),
                   !.result = @ \o CreateFilter(s.keys),
                   !.keys = <<>>]

\* The while loop of StartBlock: generate filters until there is one for
\* every range before filter_index.
RECURSIVE GenerateUpTo(_, _)
GenerateUpTo(s, index) ==
    IF index > Len(s.offsets) THEN GenerateUpTo(GenerateFilter(s), index) ELSE s

Builder == [keys |-> keys, offsets |-> offsets, result |-> result]
SetBuilder(s) == keys' = s.keys /\ offsets' = s.offsets /\ result' = s.result

\* Faulty variant of StartBlock whose loop runs while filter_index >= size.
StartBlockInclusive(o) ==
    /\ o \div kFilterBase >= Len(offsets)
    /\ SetBuilder(GenerateUpTo(Builder, o \div kFilterBase + 1))
    /\ cur' = o
    /\ UNCHANGED <<finished, added>>

\* StartBlock(block_offset): the assert filter_index >= filter_offsets_
\* .size() is the table builder's contract (offsets increase) and a guard.
StartBlock(o) ==
    /\ o \div kFilterBase >= Len(offsets)
    /\ SetBuilder(GenerateUpTo(Builder, o \div kFilterBase))
    /\ cur' = o
    /\ UNCHANGED <<finished, added>>

\* AddKey(key): pending for the current filter.
AddKey(k) ==
    /\ Len(keys) < MaxKeys
    /\ keys' = Append(keys, k)
    /\ added' = added \cup {<<cur, k>>}
    /\ UNCHANGED <<offsets, result, finished, cur>>

\* Faulty variant of Finish without the final GenerateFilter.
FinishNoGenerate ==
    /\ result' = result
                 \o FoldLeft(LAMBDA acc, v : acc \o EncodeFixed32(v), <<>>, offsets)
                 \o EncodeFixed32(Len(result))
                 \o <<kFilterBaseLg>>
    /\ finished' = TRUE
    /\ UNCHANGED <<keys, offsets, cur, added>>

\* Finish: generate the last filter if keys are pending, then append the
\* offset array, the array's offset and kFilterBaseLg.
Finish ==
    /\ LET s == IF keys # <<>> THEN GenerateFilter(Builder) ELSE Builder
       IN  /\ keys' = s.keys
           /\ offsets' = s.offsets
           /\ result' = s.result
                        \o FoldLeft(LAMBDA acc, v : acc \o EncodeFixed32(v), <<>>, s.offsets)
                        \o EncodeFixed32(Len(s.result))
                        \o <<kFilterBaseLg>>
    /\ finished' = TRUE
    /\ UNCHANGED <<cur, added>>

\* The table builder (not under src/) discards the filter builder once it
\* has called Finish: no call follows it.
Next ==
    /\ ~finished
    /\ \/ \E o \in Offsets : StartBlock(o)
       \/ \E k \in Keys : AddKey(k)
       \/ Finish

Spec == Init /\ [][Next]_vars

-----------------------------------------------------------------------------
(* FilterBlockReader: the constructor's fields as a record, and           *)
(* KeyMayMatch.  Positions are 0-based, as in the code.                  *)

\* The word at i, or 0 where the model reads past the block (the property
\* ReaderInBounds says the code never does).
Word(c, i) == IF 0 <= i /\ i + 4 <= Len(c) THEN DecodeFixed32(c, i) ELSE 0

\* Faulty variant of Reader counting the array-offset word as an offset.
ReaderNumOffByOne(c) ==
    LET n == Len(c) IN
    IF n < 5 THEN [base_lg |-> 0, lw |-> 0, num |-> 0]
    ELSE LET lw == Word(c, n - 5) IN
         IF lw > n - 5 THEN [base_lg |-> c[n], lw |-> 0, num |-> 0]
         ELSE [base_lg |-> c[n], lw |-> lw, num |-> (n - 1 - lw) \div 4]

\* FilterBlockReader::FilterBlockReader: base_lg_ from the last byte, the
\* array offset from the word before it; a block shorter than 5 bytes or an
\* array offset past the end leaves num_ = 0.
Reader(c) ==
    LET n == Len(c) IN
    IF n < 5 THEN [base_lg |-> 0, lw |-> 0, num |-> 0]
    ELSE LET lw == Word(c, n - 5) IN
         IF lw > n - 5 THEN [base_lg |-> c[n], lw |-> 0, num |-> 0]
         ELSE [base_lg |-> c[n], lw |-> lw, num |-> (n - 5 - lw) \div 4]

\* block_offset >> base_lg_ on x86-64, where the shift count is taken mod
\* 64 (a count of 64 or more is undefined in C++); offsets are < 2^20 here.
ShiftRight(o, lg) == o \div 2 ^ (IF lg % 64 > 20 THEN 20 ELSE lg % 64)

\* What KeyMayMatch decides, and the bytes it reads.
Lookup(c, o, k) ==
    LET r     == Reader(c)
        index == ShiftRight(o, r.base_lg)
        at    == r.lw + index * 4
        start == Word(c, at)
        limit == Word(c, at + 4)
        inFilter == start <= limit /\ limit <= r.lw
        header == IF Len(c) < 5 THEN {} ELSE (Len(c) - 5)..(Len(c) - 1)
    IN  [match |-> IF index < r.num
                   THEN IF inFilter
                        THEN InternalKeyMayMatch(k, SubSeq(c, start + 1, limit))
                        ELSE start # limit   \* errors are potential matches
                   ELSE TRUE,
         reads |-> header \cup
                   IF index < r.num
                   THEN (at..(at + 7)) \cup (IF inFilter THEN start..(limit - 1) ELSE {})
                   ELSE {}]

KeyMayMatch(c, o, k) == Lookup(c, o, k).match

\* Range(o): the filter index of a block offset.
FilterIndex(o) == o \div kFilterBase

\* One-byte corruptions and truncations of a block.
Damaged(c) ==
    {[c EXCEPT ![p] = v] : p \in 1..Len(c), v \in CorruptBytes}
    \cup {SubSeq(c, 1, m) : m \in 0..(Len(c) - 1)}

-----------------------------------------------------------------------------
\* No false negatives (spec.md section 8): every key added after
\* StartBlock(o) matches at every offset of the same 2 KiB range, probed
\* with its user key under any tag (a Get probes with the LookupKey of its
\* snapshot, whose tag differs from the stored one): this rests on the
\* builder and the reader both going through InternalFilterPolicy.
NoFalseNegatives ==
    finished =>
        \A ok \in added, o \in Offsets, t \in 0..(kTagSpace - 1) :
            FilterIndex(o) = FilterIndex(ok[1])
            => KeyMayMatch(result, o, ExtractUserKey(ok[2]) * kTagSpace + t)

\* Filters are per range: with an exact user policy, a key matches in a
\* range that has a filter only if a key of the same user key was added for
\* a block of that range (keys of one filter never leak into the next).
NoCrossRangeMatches ==
    finished =>
        \A o \in Offsets, k \in Keys :
            /\ FilterIndex(o) < Len(offsets)
            /\ KeyMayMatch(result, o, k)
            => \E ok \in added : ExtractUserKey(ok[2]) = ExtractUserKey(k)
                                /\ FilterIndex(ok[1]) = FilterIndex(o)

\* Every range a key was added for has a filter of its own, so lookups in
\* it are answered by the filter and not by the fail-open default.
EveryKeyedRangeHasFilter ==
    finished => \A ok \in added : FilterIndex(ok[1]) < Len(offsets)

\* Memory safety of the reader on a damaged block (ReadBlock does not
\* verify checksums unless asked): for every one-byte corruption or
\* truncation and every offset, KeyMayMatch reads only bytes of the block.
ReaderInBounds ==
    finished =>
        \A c \in Damaged(result) \cup {result}, o \in Offsets :
            Lookup(c, o, CHOOSE k \in Keys : TRUE).reads \subseteq 0..(Len(c) - 1)
=============================================================================
