----------------------------- MODULE MCMemTable -----------------------------
(* The memtable of one DB: two Adds with any user key, type, value and     *)
(* increasing sequence numbers.  The internal-key comparator and its      *)
(* shorteners are checked on every pair of keys the memtable holds or     *)
(* seeks to; Get on every LookupKey; and the Random generator, a pure     *)
(* operator, on a fixed sample of seeds.                                   *)
EXTENDS MemTable

CONSTANTS Bytes, MaxKeyLen, SeedInputs, NumDraws

MCKeys == UNION {[1..n -> Bytes] : n \in 0..MaxKeyLen}
MCValues == {<<>>, <<7>>}

\* <<top bit, low 31 bits>> of Random constructor arguments: 0, M, 2^31,
\* 2^32 - 1, 1, M - 1, the first seed whose product carries into
\* product >> 31 through the low half, and two whose sum exceeds M and
\* must be folded by "seed_ -= M".
MCSeedInputs == {<<0, 0>>, <<0, 2147483647>>, <<1, 0>>, <<1, 2147483647>>,
                 <<0, 1>>, <<0, 2147483646>>, <<0, 127774>>,
                 <<0, 20443707>>, <<1, 30282241>>}

Encode(p) == AppendInternalKey(p.user, p.seq, p.type)

\* What the memtable seeks to: the internal key of every LookupKey.
Lookups == [user : Keys, seq : 0..kMaxSequenceNumber, type : {kValueTypeForSeek}]

\* The order spec.md section 3 gives: user key ascending, then sequence
\* descending, then type descending.
RefCompare(p, q) ==
    LET r == BytewiseCompare(p.user, q.user) IN
    IF r # 0 THEN r
    ELSE IF p.seq # q.seq THEN (IF p.seq > q.seq THEN -1 ELSE 1)
    ELSE IF p.type # q.type THEN (IF p.type > q.type THEN -1 ELSE 1)
    ELSE 0

\* InternalKeyComparator::Compare on the encoded keys (user key through
\* ExtractUserKey, the rest through the little-endian tag) gives the
\* reference order, between every two entries and between an entry and
\* every seek target of its user key (entries of other user keys are
\* ordered by the user comparator alone, and every such pair of user keys
\* meets in some memtable).
CompareMatchesReference ==
    \A p \in added : \A q \in added \cup {l \in Lookups : l.user = p.user} :
        /\ Compare(Encode(p), Encode(q)) = RefCompare(p, q)
        /\ Compare(Encode(q), Encode(p)) = RefCompare(q, p)

\* FindShortestSeparator, which the table builder applies to the last key
\* of a block and the first of the next, returns a key k with
\* start <= k < limit for every two entries start < limit.
SeparatorBetween ==
    \A p, q \in added :
        Compare(Encode(p), Encode(q)) < 0 =>
            LET k == FindShortestSeparator(Encode(p), Encode(q)) IN
            Compare(Encode(p), k) <= 0 /\ Compare(k, Encode(q)) < 0

\* FindShortSuccessor (used for the last index key) never returns a key
\* that sorts before its argument.
SuccessorNotBelow ==
    \A p \in added : Compare(Encode(p), FindShortSuccessor(Encode(p))) <= 0

\* MemTable::Get with LookupKey(u, s) returns the newest entry of u with
\* sequence <= s: its value if it is a value, NotFound if it is a
\* deletion, and false if u has no such entry, whatever other keys sort
\* next to it.  This rests on Seek landing on that entry (the LookupKey's
\* tag) and on Get's user-key check.
RefGet(u, s) ==
    LET visible == {e \in added : e.user = u /\ e.seq <= s} IN
    IF visible = {} THEN NotInTable
    ELSE LET newest == CHOOSE e \in visible : \A f \in visible : f.seq <= e.seq IN
         IF newest.type = kTypeValue
         THEN [found |-> TRUE, status |-> "OK", value |-> newest.value]
         ELSE [found |-> TRUE, status |-> "NotFound", value |-> <<>>]

GetFindsNewestVisible ==
    \A u \in Keys, s \in 0..kMaxSequenceNumber : Get(LookupKey(u, s)) = RefGet(u, s)

\* Every entry Add wrote decodes, through MemTableIterator::key() and
\* value(), to the internal key and value it was added with, and
\* MemTableIterator::Seek to that internal key lands on the entry itself
\* (the length prefix EncodeKey adds is the one KeyComparator strips).
EntriesRoundTrip ==
    /\ {[key |-> IterKey(e), value |-> IterValue(e)] : e \in table}
         = {[key |-> Encode(a), value |-> a.value] : a \in added}
    /\ \A e \in table : IterSeek(IterKey(e)) = <<e>>

\* Random::Next agrees with seed * 16807 mod (2^31 - 1) and stays in
\* [1, M-1] (never the fixed points 0 and M) on every seed it is called
\* with: the skiplist's rnd_ after its draws so far, and the first
\* NumDraws seeds after the constructor from each sample argument.
RECURSIVE RefDraws(_, _)
RefDraws(s, n) == IF n = 0 THEN s ELSE RefDraws(Rnd!RefNext(s), n - 1)

RandomMatchesParkMiller ==
    /\ rnd = RefDraws(Rnd!RandomInit(1, 1588444911), draws)
    /\ rnd \in 1..(Rnd!M - 1)
    /\ \A in \in SeedInputs :
        LET s0 == Rnd!RandomInit(in[1], in[2])
            d  == <<s0>> \o Rnd!Draws(s0, NumDraws)
        IN  /\ s0 \in 1..(Rnd!M - 1)
            /\ \A j \in 2..Len(d) : d[j] = Rnd!RefNext(d[j - 1]) /\ d[j] \in 1..(Rnd!M - 1)
=============================================================================
