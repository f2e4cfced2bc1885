----------------------------- MODULE TableFormat -----------------------------
(***************************************************************************)
(* BlockHandle, Footer and ReadBlock (src/unnamed/part_001, i.e.           *)
(* table/format.cc).                                                        *)
(*                                                                         *)
(* The footer is modelled byte by byte: two varint64 handles, zero padding *)
(* to 40 bytes, and the 8-byte magic number written as two little-endian   *)
(* fixed32 words.  ReadBlock reads a block a decoded footer points to,     *)
(* through the RandomAccessFile PosixEnv::NewRandomAccessFile returns      *)
(* (src/LearnCC/util/env_posix.cc): the mmap reader when the MmapLimiter   *)
(* has a slot, else the pread reader.  It is one action over every outcome *)
(* of that read, the checksum, the type byte and Snappy; the heap is the   *)
(* set of buffers allocated and not yet deleted.  Statuses are Status      *)
(* state_ arrays (module Status).                                          *)
(***************************************************************************)
EXTENDS Naturals, Sequences

St == INSTANCE Status

CONSTANTS
    FileLen,        \* size of the table file in bytes
    FileName,       \* its name, the first part of an IOError
    HandleValues,   \* offsets and sizes handles may hold
    CorruptBytes,   \* byte values a damaged footer may hold
    DamagePositions \* footer byte positions that may be damaged

VARIABLES
    encoded,        \* ghost: the two handles the footer was written with
    input,          \* the 48 bytes Footer::DecodeFrom is given
    footer,         \* its result: status and the two decoded handles
    heap,           \* buffers allocated by ReadBlock and not deleted
    block,          \* BlockContents: [data, cachable, heap_allocated]
    status,         \* the Status the caller holds after s = ReadBlock(...)
    read            \* ghost: what the last ReadBlock's read, crc and type
                    \*   gave, and the code and text its Status was built of

vars == <<encoded, input, footer, heap, block, status, read>>

kMaxEncodedLength == 20          \* BlockHandle::kMaxEncodedLength
kEncodedLength == 48             \* Footer::kEncodedLength
\* kTableMagicNumber 0xdb4775248b80fb57: low word 0x8b80fb57, high word
\* 0xdb477524, each PutFixed32 little-endian.
MagicBytes == <<87, 251, 128, 139, 36, 117, 71, 219>>

\* Faulty variant of PutVarint64 that drops the continuation bit.
RECURSIVE PutVarint64NoContinuation(_)
PutVarint64NoContinuation(v) ==
    IF v < 128 THEN <<v>> ELSE <<v % 128>> \o PutVarint64NoContinuation(v \div 128)

\* PutVarint64 / GetVarint64 (util/coding.cc).
RECURSIVE PutVarint64(_)
PutVarint64(v) == IF v < 128 THEN <<v>> ELSE <<128 + (v % 128)>> \o PutVarint64(v \div 128)

\* Parse a varint64 at position i of s: [ok, value, next].  It fails when
\* the input ends first or the value runs past 64 bits.
RECURSIVE GetVarint64At(_, _, _, _)
GetVarint64At(s, i, shift, acc) ==
    IF shift > 63 \/ i > Len(s) THEN [ok |-> FALSE, value |-> 0, next |-> i]
    ELSE IF s[i] >= 128
         THEN GetVarint64At(s, i + 1, shift + 7, acc + (s[i] - 128) * 2 ^ shift)
         ELSE [ok |-> TRUE, value |-> acc + s[i] * 2 ^ shift, next |-> i + 1]

Handle(o, sz) == [offset |-> o, size |-> sz]

\* BlockHandle::EncodeTo.
EncodeHandle(h) == PutVarint64(h.offset) \o PutVarint64(h.size)

\* Footer::EncodeTo: the handles, zero padding to 2 * kMaxEncodedLength,
\* then the magic number.
FooterEncode(mh, ih) ==
    LET hs == EncodeHandle(mh) \o EncodeHandle(ih)
    IN  hs \o [i \in 1..(2 * kMaxEncodedLength - Len(hs)) |-> 0] \o MagicBytes

\* BlockHandle::DecodeFrom at position i: two varints, or "bad block handle".
DecodeHandleAt(s, i) ==
    LET o  == GetVarint64At(s, i, 0, 0)
        sz == GetVarint64At(s, o.next, 0, 0)
    IN  [ok |-> o.ok /\ sz.ok, handle |-> Handle(o.value, sz.value), next |-> sz.next]

OK == St!OKState
Unread == [status |-> <<"unread">>, mh |-> Handle(0, 0), ih |-> Handle(0, 0)]

\* Footer::DecodeFrom: the magic number first, then the two handles.
FooterDecode(s) ==
    LET m == DecodeHandleAt(s, 1)
        i == DecodeHandleAt(s, m.next)
    IN  IF SubSeq(s, kEncodedLength - 7, kEncodedLength) # MagicBytes
        THEN [status |-> St!Corruption(<<"not", "an", "sstable", "(bad", "magic", "number)">>),
              mh |-> Handle(0, 0), ih |-> Handle(0, 0)]
        ELSE IF m.ok /\ i.ok THEN [status |-> OK, mh |-> m.handle, ih |-> i.handle]
        ELSE [status |-> St!Corruption(<<"bad", "block", "handle">>), mh |-> m.handle, ih |-> i.handle]

NoBlock == [data |-> "empty", cachable |-> FALSE, heap_allocated |-> FALSE]
kBlockTrailerSize == 5
kNoCompression == 0
kSnappyCompression == 1

\* What the file, the trailer and Snappy turn out to give: whether
\* NewRandomAccessFile got an mmap slot, whether pread fails (EIO),
\* verify_checksums, whether the stored crc matches, the type byte, and
\* whether Snappy's length and uncompress steps succeed.
Reads == [mmap : BOOLEAN, eio : BOOLEAN, verify : BOOLEAN, crcOk : BOOLEAN,
          type : {0, 1, 2}, lenOk : BOOLEAN, uncOk : BOOLEAN]

\* Why a Status is not OK: the code and the two message parts of its
\* constructor (IOError(fname, strerror(errno)), Corruption(msg)).
Why(code, msg, msg2) == [code |-> code, msg |-> msg, msg2 |-> msg2]
NoWhy == Why(St!kOk, <<>>, <<>>)
IOErrorWhy(err) == Why(St!kIOError, <<FileName>>, err)
CorruptionWhy(msg) == Why(St!kCorruption, msg, <<>>)
StateOf(w) == IF w = NoWhy THEN OK ELSE St!NewState(w.code, w.msg, w.msg2)

\* PosixRandomAccessFile::Read: pread gives the bytes between offset and
\* the end of the file, at most n; or -1, an empty result and IOError.
PreadRead(eio, offset, n) ==
    IF eio THEN [why |-> IOErrorWhy(<<"Input/output", "error">>), size |-> 0]
    ELSE [why |-> NoWhy,
          size |-> IF offset >= FileLen THEN 0
                   ELSE IF n < FileLen - offset THEN n ELSE FileLen - offset]

\* Faulty variant of MmapRead that checks only the offset against length_.
MmapReadOffsetOnly(offset, n) ==
    IF offset > FileLen
    THEN [why |-> IOErrorWhy(<<"Invalid", "argument">>), size |-> 0]
    ELSE [why |-> NoWhy, size |-> n]

\* PosixMmapReadableFile::Read: a range past length_ (the file size when
\* it was mapped) is EINVAL with an empty result; else the n bytes of the
\* mapping at offset, memory the file owns.
MmapRead(offset, n) ==
    IF offset + n > FileLen
    THEN [why |-> IOErrorWhy(<<"Invalid", "argument">>), size |-> 0]
    ELSE [why |-> NoWhy, size |-> n]

\* file->Read(offset, n) on the reader NewRandomAccessFile returned.
FileRead(x, offset, n) ==
    IF x.mmap THEN MmapRead(offset, n) ELSE PreadRead(x.eio, offset, n)

Fail(w) == [why |-> w, heap |-> {}, block |-> NoBlock]
Ok(h, d, c) == [why |-> NoWhy, heap |-> h,
                block |-> [data |-> d, cachable |-> c, heap_allocated |-> d # "filemem"]]
BadSnappy == CorruptionWhy(<<"corrupted", "compressed", "block", "contents">>)

\* Faulty variant of NoCompressionResult: file memory is marked cachable.
NoCompressionCachesFileMemory(x) ==
    IF x.mmap THEN Ok({}, "filemem", TRUE) ELSE Ok({"buf"}, "buf", TRUE)

\* case kNoCompression: data != buf (the mmap reader lent its own memory)
\* means buf is deleted and the block is neither heap allocated nor
\* cachable.
NoCompressionResult(x) ==
    IF x.mmap THEN Ok({}, "filemem", FALSE) ELSE Ok({"buf"}, "buf", TRUE)

\* Faulty variant of SnappyResult: a failed uncompress keeps buf.
SnappyLeaksOnFailure(x) ==
    IF ~x.lenOk THEN Fail(BadSnappy)
    ELSE IF ~x.uncOk THEN [Fail(BadSnappy) EXCEPT !.heap = {"buf"}]
    ELSE Ok({"ubuf"}, "ubuf", TRUE)

\* case kSnappyCompression: both failures delete every buffer; success
\* deletes buf and hands ubuf to the caller.
SnappyResult(x) ==
    IF ~x.lenOk \/ ~x.uncOk THEN Fail(BadSnappy) ELSE Ok({"ubuf"}, "ubuf", TRUE)

\* Faulty variant of ChecksumFails: the checksum is never compared.
ChecksumIgnored(x) == FALSE

\* options.verify_checksums and the masked crc differs from the actual one.
ChecksumFails(x) == x.verify /\ ~x.crcOk

\* ReadBlock(file, options, h): read n + 5 bytes at h.offset and take the
\* early returns in the order the code does, with the buffers each path
\* leaves allocated.  "buf" is new char[n + 5], "ubuf" the Snappy output,
\* "filemem" memory the file owns (data != buf).
ReadBlockOutcome(h, x) ==
    LET r == FileRead(x, h.offset, h.size + kBlockTrailerSize)
    IN  IF r.why # NoWhy THEN Fail(r.why)
        ELSE IF r.size # h.size + kBlockTrailerSize
             THEN Fail(CorruptionWhy(<<"truncated", "block", "read">>))
        ELSE IF ChecksumFails(x)
             THEN Fail(CorruptionWhy(<<"block", "checksum", "mismatch">>))
        ELSE CASE x.type = kNoCompression     -> NoCompressionResult(x)
               [] x.type = kSnappyCompression -> SnappyResult(x)
               [] OTHER -> Fail(CorruptionWhy(<<"bad", "block", "type">>))

\* Status::operator= (status.h): s = ReadBlock(...) gives the caller its
\* own copy of a non-OK state_.
Assign(state) == IF state = OK THEN OK ELSE St!CopyState(state)

-----------------------------------------------------------------------------
Init ==
    /\ encoded = <<>>
    /\ input = <<>>
    /\ footer = Unread
    /\ heap = {}
    /\ block = NoBlock
    /\ status = OK
    /\ read = [full |-> TRUE, inFile |-> TRUE, verified |-> TRUE,
               type |-> kNoCompression, snappyOk |-> TRUE, why |-> NoWhy]

\* Footer::EncodeTo of two handles; the 48 bytes are what a reader gets.
WriteFooter(mh, ih) ==
    /\ encoded' = <<mh, ih>>
    /\ input' = FooterEncode(mh, ih)
    /\ footer' = Unread
    /\ UNCHANGED <<heap, block, status, read>>

\* The file is damaged: one byte of a footer not yet decoded changes.
DamageFooter(p, b) ==
    /\ encoded # <<>>
    /\ footer = Unread
    /\ input = FooterEncode(encoded[1], encoded[2])
    /\ input[p] # b
    /\ input' = [input EXCEPT ![p] = b]
    /\ UNCHANGED <<encoded, footer, heap, block, status, read>>

\* Footer::DecodeFrom of the bytes read.
DecodeFooter ==
    /\ encoded # <<>>
    /\ footer = Unread
    /\ footer' = FooterDecode(input)
    /\ UNCHANGED <<encoded, input, heap, block, status, read>>

\* ReadBlock of a handle of the decoded footer (Table::Open reads the
\* index and metaindex blocks), by a caller that holds no block; x is
\* what the file, the trailer and Snappy turn out to give.
ReadBlock(h, x) ==
    /\ footer.status = OK
    /\ h \in {footer.mh, footer.ih}
    /\ block = NoBlock
    /\ LET o == ReadBlockOutcome(h, x)
           n == h.size + kBlockTrailerSize
       IN  /\ heap' = heap \cup o.heap
           /\ block' = o.block
           /\ status' = Assign(StateOf(o.why))
           /\ read' = [full |-> FileRead(x, h.offset, n).size = n,
                       inFile |-> h.offset + n <= FileLen,
                       verified |-> ~x.verify \/ x.crcOk, type |-> x.type,
                       snappyOk |-> x.lenOk /\ x.uncOk, why |-> o.why]
    /\ UNCHANGED <<encoded, input, footer>>

\* The reader is done with the block: a heap-allocated one is deleted.
ReleaseBlock ==
    /\ block # NoBlock
    /\ heap' = IF block.heap_allocated THEN heap \ {block.data} ELSE heap
    /\ block' = NoBlock
    /\ UNCHANGED <<encoded, input, footer, status, read>>

Handles == {Handle(o, sz) : o, sz \in HandleValues}

Next ==
    \/ \E mh, ih \in Handles : WriteFooter(mh, ih)
    \/ \E p \in DamagePositions, b \in CorruptBytes : DamageFooter(p, b)
    \/ DecodeFooter
    \/ \E h \in {footer.mh, footer.ih}, x \in Reads : ReadBlock(h, x)
    \/ ReleaseBlock

Spec == Init /\ [][Next]_vars

-----------------------------------------------------------------------------
\* Footer::EncodeTo followed by Footer::DecodeFrom of the undamaged bytes
\* gives exactly kEncodedLength bytes and the two handles back.
FooterRoundTrip ==
    footer # Unread /\ input = FooterEncode(encoded[1], encoded[2])
      => /\ Len(input) = kEncodedLength
         /\ footer = [status |-> OK, mh |-> encoded[1], ih |-> encoded[2]]

\* Across any sequence of ReadBlock calls, failures and releases, the only
\* live buffer is the one the caller's BlockContents owns.
NoLeakedBuffer ==
    heap = IF block.heap_allocated THEN {block.data} ELSE {}

\* A cachable block is one the caller owns on the heap: memory the file
\* implementation lent (data != buf) is never put in the block cache.
CachableOnlyIfOwned ==
    /\ block.cachable => block.heap_allocated
    /\ block.data = "filemem" => ~block.cachable

\* ReadBlock returns OK only for a full read of a known block type whose
\* checksum matched whenever verify_checksums was set.
OnlyVerifiedBlocksReturned ==
    status = OK /\ block # NoBlock =>
        /\ read.full /\ read.verified
        /\ read.type \in {kNoCompression, kSnappyCompression}
        /\ read.type = kSnappyCompression => read.snappyOk

\* A block ReadBlock returns lies inside the file.  Whichever reader
\* NewRandomAccessFile handed out, a handle from a damaged footer that
\* points past the end is refused (pread's short read as "truncated block
\* read", the mmap reader's bound check as EINVAL), never served from
\* beyond the mapping.
ReadBlockWithinFile == status = OK /\ block # NoBlock => read.inFile

\* The Status the caller holds after s = ReadBlock(...) reads back, through
\* code() and ToString(), as the kind and the text the failing step built
\* it with ("Corruption: truncated block read", "IO error: <file>:
\* Invalid argument"), and it is OK exactly when ReadBlock succeeded.
StatusCarriesCause ==
    /\ (status = OK) = (read.why = NoWhy)
    /\ St!Code(status) = read.why.code
    /\ status # OK =>
          St!ToString(status) =
              St!TypeString(read.why.code) \o read.why.msg
                \o (IF read.why.msg2 # <<>> THEN St!Separator \o read.why.msg2 ELSE <<>>)
=============================================================================
