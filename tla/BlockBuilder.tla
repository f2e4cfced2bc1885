---------------------------- MODULE BlockBuilder ----------------------------
(***************************************************************************)
(* BlockBuilder (src/LearnCC/table/block_builder.cc): prefix-compressed    *)
(* records with a restart point every block_restart_interval records, and *)
(* the restart array plus its length appended by Finish.                  *)
(*                                                                         *)
(* buffer_ is a sequence of chunks: a record                               *)
(*   <shared varint32><non_shared varint32><value_size varint32>           *)
(*   <key delta><value>                                                    *)
(* or a fixed32 word.  A chunk's byte size is what PutVarint32,            *)
(* PutFixed32 and append write, so restart offsets are byte offsets.       *)
(* Keys and values are sequences of bytes (small numbers).                *)
(***************************************************************************)
EXTENDS Naturals, Sequences, SequencesExt

CONSTANTS
    Bytes,            \* the byte values keys are made of
    MaxKeyLen,        \* bound: key length
    Values,           \* values a caller may add (byte sequences)
    RestartInterval,  \* options_->block_restart_interval (>= 1)
    MaxRecords        \* bound: records added between two Resets

ASSUME RestartInterval >= 1

VARIABLES
    buffer,     \* buffer_
    restarts,   \* restarts_
    counter,    \* counter_: records since the last restart
    finished,   \* finished_
    last_key,   \* last_key_
    added       \* ghost: the <<key, value>> pairs added since the last Reset

vars == <<buffer, restarts, counter, finished, last_key, added>>

Keys == UNION {[1..n -> Bytes] : n \in 0..MaxKeyLen}

\* The bytewise user comparator: Compare(a, b) < 0.
RECURSIVE BytewiseLess(_, _)
BytewiseLess(a, b) ==
    IF a = <<>> THEN b # <<>>
    ELSE IF b = <<>> THEN FALSE
    ELSE IF Head(a) # Head(b) THEN Head(a) < Head(b)
    ELSE BytewiseLess(Tail(a), Tail(b))

\* Bytes written by PutVarint32(v): seven bits per byte.
RECURSIVE VarintLength(_)
VarintLength(v) == IF v < 128 THEN 1 ELSE 1 + VarintLength(v \div 128)

Record(shared, delta, value) ==
    [kind |-> "record", shared |-> shared, non_shared |-> Len(delta),
     delta |-> delta, value |-> value]

Fixed32(v) == [kind |-> "fixed32", v |-> v]

ChunkSize(c) ==
    IF c.kind = "fixed32" THEN 4
    ELSE VarintLength(c.shared) + VarintLength(c.non_shared)
         + VarintLength(Len(c.value)) + c.non_shared + Len(c.value)

\* buffer_.size()
Size(b) == FoldLeft(LAMBDA acc, c : acc + ChunkSize(c), 0, b)

\* Length of the common prefix of two keys, bounded by the shorter one.
RECURSIVE SharedPrefix(_, _)
SharedPrefix(a, b) ==
    IF a = <<>> \/ b = <<>> \/ Head(a) # Head(b) THEN 0
    ELSE 1 + SharedPrefix(Tail(a), Tail(b))

\* Faulty variant of CurrentSizeEstimate that leaves out the count word.
EstimateNoCount == Size(buffer) + Len(restarts) * 4

\* CurrentSizeEstimate: raw buffer + restart array + its length.
CurrentSizeEstimate == Size(buffer) + Len(restarts) * 4 + 4

-----------------------------------------------------------------------------
\* BlockBuilder(options): the first restart point is offset 0.
Init ==
    /\ buffer = <<>>
    /\ restarts = <<0>>
    /\ counter = 0
    /\ finished = FALSE
    /\ last_key = <<>>
    /\ added = <<>>

\* Faulty variant of Add that records the restart offset after the record.
AddRestartAfterRecord(key, value) ==
    /\ ~finished
    /\ counter <= RestartInterval
    /\ buffer = <<>> \/ BytewiseLess(last_key, key)
    /\ Len(added) < MaxRecords
    /\ LET restart == counter >= RestartInterval
           shared  == IF restart THEN 0 ELSE SharedPrefix(last_key, key)
           buf1    == Append(buffer, Record(shared, SubSeq(key, shared + 1, Len(key)), value))
       IN  /\ restarts' = IF restart THEN Append(restarts, Size(buf1)) ELSE restarts
           /\ counter' = IF restart THEN 1 ELSE counter + 1
           /\ buffer' = buf1
    /\ last_key' = key
    /\ added' = Append(added, <<key, value>>)
    /\ UNCHANGED finished

\* BlockBuilder::Add.  The asserts (not finished, counter_ within the
\* interval, keys strictly increasing unless the buffer is empty) are the
\* caller's contract and are guards here.  Below the interval the key
\* shares its common prefix with last_key_; at the interval the record is
\* a restart point (shared 0, its offset pushed on restarts_, counter_
\* reset).  The record is appended, last_key_ becomes the key, counter_++.
Add(key, value) ==
    /\ ~finished
    /\ counter <= RestartInterval
    /\ buffer = <<>> \/ BytewiseLess(last_key, key)
    /\ Len(added) < MaxRecords
    /\ LET restart == counter >= RestartInterval
           shared  == IF restart THEN 0 ELSE SharedPrefix(last_key, key)
       IN  /\ restarts' = IF restart THEN Append(restarts, Size(buffer)) ELSE restarts
           /\ counter' = IF restart THEN 1 ELSE counter + 1
           /\ buffer' = Append(buffer, Record(shared, SubSeq(key, shared + 1, Len(key)), value))
    /\ last_key' = key
    /\ added' = Append(added, <<key, value>>)
    /\ UNCHANGED finished

\* BlockBuilder::Finish: append every restart offset and then their count
\* as fixed32 words.  The code does not test finished_: a second Finish
\* appends the restart array again.
Finish ==
    /\ buffer' = buffer \o [i \in 1..Len(restarts) |-> Fixed32(restarts[i])]
                        \o <<Fixed32(Len(restarts))>>
    /\ finished' = TRUE
    /\ UNCHANGED <<restarts, counter, last_key, added>>

\* Faulty variants of Reset: one keeps last_key_, one leaves restarts_ empty.
ResetKeepsLastKey ==
    /\ buffer' = <<>>
    /\ restarts' = <<0>>
    /\ counter' = 0
    /\ finished' = FALSE
    /\ added' = <<>>
    /\ UNCHANGED last_key

ResetNoFirstRestart ==
    /\ buffer' = <<>>
    /\ restarts' = <<>>
    /\ counter' = 0
    /\ finished' = FALSE
    /\ last_key' = <<>>
    /\ added' = <<>>

\* BlockBuilder::Reset: back to the constructor's state.
Reset ==
    /\ buffer' = <<>>
    /\ restarts' = <<0>>
    /\ counter' = 0
    /\ finished' = FALSE
    /\ last_key' = <<>>
    /\ added' = <<>>

\* The caller, TableBuilder (not under src/), calls Finish once per block
\* and Resets the builder before the next one: Finish is offered only to
\* an unfinished builder.
Next ==
    \/ \E k \in Keys, v \in Values : Add(k, v)
    \/ ~finished /\ Finish
    \/ Reset

Spec == Init /\ [][Next]_vars

-----------------------------------------------------------------------------
(* Reading a finished block back, as Block::Iter does: the last word is   *)
(* the restart count, the words before it the restart array, everything   *)
(* before that records, each key rebuilt from the previous key's prefix.  *)

NumRestartsOf(b) == b[Len(b)].v
RestartArrayOf(b) == SubSeq(b, Len(b) - NumRestartsOf(b), Len(b) - 1)
DataOf(b) == SubSeq(b, 1, Len(b) - NumRestartsOf(b) - 1)

RECURSIVE DecodeRecords(_, _)
DecodeRecords(data, prev) ==
    IF data = <<>> THEN <<>>
    ELSE LET r == Head(data)
             k == SubSeq(prev, 1, r.shared) \o r.delta
         IN  <<<<k, r.value>>>> \o DecodeRecords(Tail(data), k)

\* The reader's corruption check: no record shares more than the key
\* before it has (Block::Iter::ParseNextKey, key_.size() < shared).
RECURSIVE Parsable(_, _)
Parsable(data, prev) ==
    \/ data = <<>>
    \/ /\ Head(data).kind = "record"
       /\ Head(data).shared <= Len(prev)
       /\ Parsable(Tail(data), SubSeq(prev, 1, Head(data).shared) \o Head(data).delta)

\* Byte offset at which chunk i of b starts.
OffsetOf(b, i) == Size(SubSeq(b, 1, i - 1))

-----------------------------------------------------------------------------
\* Round trip of Add/Finish: decoding a finished block's records from the
\* empty key yields exactly the pairs added since the last Reset, in order.
BlockRoundTrip ==
    finished =>
        /\ Parsable(DataOf(buffer), <<>>)
        /\ DecodeRecords(DataOf(buffer), <<>>) = added

\* Every restart offset Finish writes is the byte offset of a record stored
\* with shared = 0, so a reader seeking to it (Block::Iter::SeekToRestartPoint
\* with an empty key) rebuilds that key exactly.  An empty block (the
\* table's meta-index block) has the lone restart 0 at its end.
RestartsAtFullRecords ==
    finished =>
        LET data == DataOf(buffer)
        IN  \A j \in 1..Len(RestartArrayOf(buffer)) :
                \/ data = <<>> /\ RestartArrayOf(buffer)[j].v = 0
                \/ \E i \in 1..Len(data) :
                      /\ OffsetOf(data, i) = RestartArrayOf(buffer)[j].v
                      /\ data[i].shared = 0

\* Restart density: a finished block has one restart point per
\* block_restart_interval records, and one even when it holds no record.
RestartDensity ==
    finished =>
        NumRestartsOf(buffer) =
            IF added = <<>> THEN 1
            ELSE (Len(added) + RestartInterval - 1) \div RestartInterval

\* spec.md section 8, restart density: a block of N records has exactly
\* ceil(N / R) restart points.  (The constructor and Reset push offset 0
\* before any record is added.)
RestartsAreCeiling ==
    finished =>
        NumRestartsOf(buffer) =
            (Len(added) + RestartInterval - 1) \div RestartInterval

\* CurrentSizeEstimate, which the table builder compares with block_size to
\* decide when to cut a block, is exactly the size Finish produces.
EstimateIsFinishedSize ==
    [][~finished /\ finished' => Size(buffer') = CurrentSizeEstimate]_vars

=============================================================================
