# TLA+ models of LearnCC (a LevelDB table/cache layer)

This directory holds TLA+ modules and TLC configurations that model the
concurrent and stateful parts of the code under `src/`: the sharded LRU
block cache first, then the table-format builders and readers and the
parts of the POSIX environment that have threads and locks.

## 1. Inventory

| Component | Source | State | Operations | Interacts with |
|---|---|---|---|---|
| LRUCache shard | `util/cache.cc` 193-350 | `capacity_`, `usage_`, the circular LRU list `lru_`, the `HandleTable table_`, and per entry (`LRUHandle`) key, value, charge, `refs`, hash, deleter | `Insert`, `Lookup`, `Release`, `Erase`, `Unref`, `LRU_Remove`, `LRU_Append`, destructor | callers (threads) that keep handles between calls; `HandleTable`; the caller's deleter callback |
| HandleTable | `util/cache.cc` 62-187 | `list_` (array of `length_` chains linked by `next_hash`), `length_`, `elems_` | `Lookup`, `Insert`, `Remove`, `FindPointer`, `Resize` | owned by one shard, called under its mutex |
| ShardedLRUCache | `util/cache.cc` 356-447 | 16 shards, `last_id_` under `id_mutex_` | `Insert`/`Lookup`/`Release`/`Erase` routed by `hash >> 28`, `Value`, `NewId`, constructor splitting capacity | threads; each shard has its own mutex |
| BlockBuilder | `table/block_builder.cc` | `buffer_`, `restarts_`, `counter_`, `finished_`, `last_key_` | `Add`, `Finish`, `Reset`, `CurrentSizeEstimate` | table builder (single writer) |
| FilterBlockBuilder / Reader | `unnamed/part_000` | builder: `keys_`, `start_`, `result_`, `filter_offsets_`; reader: `data_`, `offset_`, `num_`, `base_lg_` | `StartBlock`, `AddKey`, `GenerateFilter`, `Finish`; reader constructor, `KeyMayMatch` | `InternalFilterPolicy` (`db/dbformat.cc`) over an exact user policy |
| BlockHandle / Footer / ReadBlock | `unnamed/part_001` | transient values | `EncodeTo`, `DecodeFrom`, `ReadBlock` | a random-access file, crc32c, snappy |
| Random-access readers | `util/env_posix.cc` 104-129, 224-236, 471-535 | `fd_`, or `mmapped_region_` and `length_` | `PosixRandomAccessFile::Read` (pread), `PosixMmapReadableFile::Read`, `NewRandomAccessFile` choosing one | `ReadBlock`; the MmapLimiter |
| Status | `util/status.cc` | `state_` (NULL, or length, code, message) | constructor, `CopyState`, `ToString` | every operation that returns an error |
| InternalKeyComparator / LookupKey | `db/dbformat.cc` | none (pure) | `Compare`, `FindShortestSeparator`, `FindShortSuccessor`, `PackSequenceAndType`, `LookupKey` | the user comparator |
| PosixEnv background thread | `util/env_posix.cc` 787-866 | `queue_`, `started_bgthread_`, `mu_`, `bgsignal_` | `Schedule`, `BGThread` | callers scheduling work; one background thread |
| PosixLockTable / LockFile | `util/env_posix.cc` 412-705 | `locked_files_` (in-process set) plus the OS's per-process fcntl locks | `LockFile`, `UnlockFile` | other threads of the process; other processes |
| MmapLimiter | `util/env_posix.cc` 139-192 | `allowed_` (atomic) under `mu_` | `Acquire`, `Release` | threads opening random-access files |
| MemTable | `db/leveldb_main.cc` 588-730 | `table_` (a skiplist of encoded entries, with its `Random rnd_`) | `Add`, `Get`, `KeyComparator`, `MemTableIterator` key/value | one writer (DBImpl) and readers; the internal-key comparator |
| Random | `util/random.h` | `seed_` | constructor, `Next`, `Uniform`, `OneIn`, `Skewed` | the skiplist's node heights |
| PosixWritableFile and file names | `util/env_posix.cc` 243-372, 538-551, 583-592, 657-665 | `FILE*` with its stdio buffer; the OS page cache and disk | `NewWritableFile`, `Append`, `Flush`, `Sync`, `Close`, `DeleteFile`, `RenameFile` | the OS (write-back, crash); the MANIFEST's directory |
| Sequential reader, dirs, logger, `leveldb_main.cc` demo code | | | | not modelled (see section 5) |

**What is hard.** The cache is called by many threads. Each shard method
holds the shard mutex for its whole body, so the methods are atomic with
respect to each other. The hard part is that callers hold handles *between*
calls. An entry can be evicted, replaced by a newer Insert of its key, or
erased while a caller still holds it. It must then stay allocated until the
last Release, and its deleter must run exactly once. `usage_` keeps counting
such entries, so a shard can stay over capacity. The hash table resizes
while chains are being relinked, and keys that share a hash share a chain.
In the environment, the background queue relies on a condition variable
that is signalled only when the queue was empty. The file-lock code mixes
an in-process set with per-process OS locks.

**Properties that make each component correct.**
- LRUCache: every entry's `refs` equals its owners (table plus outstanding
  handles); an entry is freed exactly when its last owner goes; `usage_` is
  the charge of the unfreed entries; the list and the table hold the same
  entries; the shard is within capacity whenever the list is not empty;
  eviction is least-recently-used (refinement of `LRUCacheSpec`).
- HandleTable: `elems_` counts the chained handles; the load factor is at
  most one; every handle sits in its home bucket; Lookup behaves as a map
  (refinement of `HandleMap`).
- BlockBuilder: decoding the finished block returns the added pairs; restart
  records have `shared == 0`; the number of restarts is `ceil(N/R)`.
- FilterBlock: no false negatives for keys added to a block, at any offset
  of its 2 KiB bucket; the reader stays inside a damaged block (a corrupt
  offset pair with start == limit answers false, as the code does).
- Footer/ReadBlock: an undamaged footer decodes to the handles written;
  only verified, well-typed data from inside the file is returned;
  ownership flags are right; the Status tells the cause.
- InternalKeyComparator: a total order (user key ascending, then sequence
  and type descending); the separators stay between their bounds.
- MemTable: an entry decodes to what was added; Get at snapshot `s` finds
  the newest entry of its key with sequence `<= s`.
- Random: `Next` is `seed * 16807 mod (2^31 - 1)` and never reaches 0 or M.
- PosixWritableFile: after Sync returns OK the data survives a crash; after
  a MANIFEST Sync every name then in the directory does.
- Background thread: every scheduled item eventually runs.
- Lock table: at most one holder of a file lock; the OS lock is held
  whenever a `FileLock` is outstanding.
- MmapLimiter: `allowed_` never goes negative; slots are conserved.

## 2. Plan

Modules in the order they are built (most important behaviour first):

1. `LRUCache` (one shard) with the abstract `LRUCacheSpec` it implements. **Done.**
2. `HandleTable` with the abstract `HandleMap` it implements. **Done.**
3. Destructor of the shard as an action. **Done.** (`ShardedLRUCache`
   only sets the shard's capacity and keys; its shards are independent;
   see section 5.)
4. `BlockBuilder`, with a RECURSIVE decoder as the reference for the
   round-trip property, keys as short sequences over a two-letter alphabet. **Done.**
5. `FilterBlock` (builder and reader together), through
   `InternalFilterPolicy` over an exact user policy, offsets around the
   2048 boundary. **Done.**
6. `InternalKey` (comparator, pack/unpack, separators) as pure operators
   checked against a reference ordering over bounded keys. **Done.**
7. `Footer` and `ReadBlock` error paths, the file read as a nondeterministic
   outcome (full, short, corrupt byte, unknown type). **Done.**
8. `BGQueue` (Schedule/BGThread with a condition variable, liveness under
   weak fairness of the background thread), `MmapLimiter` (two threads,
   non-atomic double check), `FileLock` (two threads of one process and a
   second process, fcntl per-process semantics). **Done.**
9. `MemTable` on top of `InternalKey` (Add, Get, the iterator's decoding and Seek),
   with the skiplist's `Random` as its own module. **Done.**
10. `PosixFile`: writable files and names over a page cache and a disk,
   with write-back and crashes, run together with `FileLock`. **Done.**
11. `Status`, and the two random-access readers under `ReadBlock`, so that
   the block read follows a decoded footer's handle into a file of a given
   size. **Done.**

## 3. Modules and runs

### LRUCache (`LRUCache.tla`, `LRUCacheSpec.tla`, `ShardedLRUCache.tla`, `MCLRUCache.tla`)

State: `table` (`table_`, abstracted to a key-to-entry function), `lru`
(the list, oldest first), `usage` (`usage_`), the fields `key`, `charge`,
`refs` of each allocated `LRUHandle` (indexed by allocation order), a
ghost `deleted` (how often the deleter ran for each entry) and `held` (the
bag of handles callers got and have not released). The shard's variables
are also viewed as one record `State`, so that a method body is a chain of
updates and the eviction loop is the RECURSIVE operator `EvictLoop`.
Actions: `Insert`, `Lookup` (hit; a miss changes nothing), `Release`,
`Erase` (hit), and `LRUCacheDestructor` (`~LRUCache`: Unref every listed
entry; a variable `destroyed` then disables every other action). The
destructor's `assert(e->refs == 1)` is compiled out of a release build, so
the model lets it run while callers hold handles. Each action is a whole method under the mutex, including
its calls to `Unref`, `LRU_Remove`/`LRU_Append` and the eviction loop.

`LRUCacheSpec` is the promise without reference counts or a hash table:
cached entries in recency order, pins held by callers, and the entries that
have been freed. An entry is freed exactly when it is neither cached nor
pinned. Insert drops the oldest cached entries while what is alive exceeds
the capacity. Its `Destroy` empties the cache and frees what nobody holds.
The refinement maps `cached <- lru` (empty once destroyed), `pinned <- held`,
`freed <- {e : deleted[e] > 0}`.

Runs:
- `lru_shard` (pass): `RefsMatchOwners`,
  `FreedExactlyWhenUnowned`, `UsageIsLiveCharge`, `ListMirrorsTable`,
  `CapacityRespected`, `ImplementsLRUCacheSpec`. Bounds: two keys, charges
  1 and 3 against capacity 2 (`ShardedLRUCache`'s `PerShard(17)`, both
  keys hashing to shard 3), so one entry can exceed the shard and
  evict itself while its caller holds it. Five Inserts, so replacement,
  eviction and re-insertion all happen several times. Two handles held at
  once, so an entry can be pinned twice, or two entries pinned. The
  destructor can run in every reachable state. 44,018 states.
- `lru_evicts_pinned` (violation): `InsertSparesPinned`, the spec's claim
  that eviction spares pinned entries. TLC finds the two-step
  counterexample (see Findings).

### HandleTable (`HandleTable.tla`, `HandleMap.tla`, `MCHandleTable.tla`)

State: `list` (bucket index to chain, head first), `length`, `elems`, and
the generation of each key's next handle (`gen`). A handle is
`<<key, generation>>`: consecutive handles of one key are distinct, which
is what replacement needs. Actions: `Insert` (with the resize as a fold
over the old chains) and `Remove` (hit). `Lookup` is an operator, and the
refinement mapping `contents <- [k |-> Lookup(k)]` shows the table is a map.

Run `handle_table` (pass): `CountMatchesChains`,
`LoadAtMostOne`, `EntriesInHomeBucket`, `ImplementsHandleMap`. Bounds: five
keys, with hashes 0, 4, 4, 13, 6. k2 and k3 collide on the full hash. k1 and
k2 share bucket 0 of 4 but not of 8. Five live keys make `elems_ > length_`
and force the resize to 8 buckets. The MC module precomputes
`hash & (length - 1)` (`MCBucket`) for speed. It computes the same `&` as
the module.

### BlockBuilder (`BlockBuilder.tla`, `MCBlockBuilder.tla`)

State: `buffer` (`buffer_` as a sequence of chunks, each a record
`[shared, non_shared, delta, value]` or a `fixed32` word), `restarts`,
`counter`, `finished`, `last_key`, and a ghost `added` (the pairs added
since the last Reset). A chunk's byte size is what `PutVarint32`,
`PutFixed32` and `append` write (`ChunkSize`), so the restart offsets are
byte offsets, as in the code. Actions: `Add`, `Finish`, `Reset`; `Init` is
the constructor. The asserts of `Add` (not finished, `counter_` within the
interval, keys strictly increasing after the first) are the caller's
contract and are guards. `Finish` has no guard, as in the code: a second
`Finish` would append the restart array again. The table builder (not
under `src/`) calls it once per block and then `Reset`s, so `Next` offers
`Finish` only to an unfinished builder. That is the caller's contract,
not a check the builder makes. Hazard `block_builder.cc:116` (a second
`Finish`, or an `Add` after `Finish` in a release build) therefore has no
property. `CurrentSizeEstimate` is an operator. The reader
(`block.cc`, not under `src/`) is modelled only as the reference decoder
`DecodeRecords` and its corruption check `Parsable`, from spec.md 4.1/6.

Runs:
- `block_builder` (pass): `BlockRoundTrip`, `RestartsAtFullRecords`,
  `RestartDensity` and `EstimateIsFinishedSize`.
  Bounds: bytes {1, 2}, keys of length 0..2 (nine keys, so shared
  prefixes of 0, 1 and 2 all happen), values empty or one byte, restart
  interval 2 and up to 4 records per block, so a block has up to two
  restart points and Reset is followed by a second block. 1,878 states.
  Values never exceed 127 bytes, so every varint is one byte here.
- `block_restarts_ceiling` (violation): `RestartsAreCeiling`, spec.md
  section 8's exact `ceil(N/R)` restart count. It fails for N = 0 (see
  Findings).

### FileLock (`FileLock.tla`, `MCFileLock.tla`)

State: `pc` and `file` of each thread (where it is in `LockFile` or
`UnlockFile`, and which name it works on), `locks` (`locks_`) and
`owner[f]`, the process that owns the fcntl lock on `f`. One step per
syscall (`open`, `F_SETLK`, `F_UNLCK`, `close`) and per `locks_` call (each
atomic under the table's mutex). Actions: `Open`, `Insert`, `CloseDup`,
`SetLock`, `CloseFailed`, `RemoveFailed` (LockFile), `Unlock`,
`RemoveHeld`, `CloseHeld` (UnlockFile), and `OtherLock`/`OtherUnlock` for a
second process taking the same lock. `Close` is POSIX's rule: closing any
descriptor of a file releases the process's lock on it.

Runs (one file; the passing run is in `MCPosixFiles`, below):
- `posix_files` (pass): `OneHolderPerProcess` and `NoLeakedLockNames`,
  with two threads, together with PosixFile's properties.
Violation runs, three threads, symmetric (`MCFileLock`):
- `file_lock_dup_close` (violation): `HolderOwnsOSLock`, which callers
  rely on (no other process can hold the file while a FileLock is
  outstanding). TLC finds the duplicate-LockFile close (see Findings).
- `file_lock_unlock_order` (violation): the same property, with the state
  constraint `NoDuplicateLockFile` excluding the first bug. TLC then finds
  the UnlockFile ordering bug.

### FilterBlock (`FilterBlock.tla`, `MCFilterBlock.tla`)

State: the builder's `keys` (`keys_`/`start_` as a sequence of pending
keys), `offsets` (`filter_offsets_`), `result` (`result_` as bytes),
`finished`, `cur` (the last block offset passed to StartBlock) and the
ghost `added` (the keys added under each block offset). Actions:
`StartBlock(o)` (including its loop of `GenerateFilter` up to
`o / 2048`), `AddKey(k)` and `Finish` (the final GenerateFilter, the
offset array, its start word and `kFilterBaseLg`). The builder checks no
finished flag; the table builder discards it after `Finish`, so `Next`
stops there. The policy is
`InternalFilterPolicy` from `db/dbformat.cc`: its `CreateFilter` strips
every key to its user key (`ExtractUserKey`) before the user policy, and
its `KeyMayMatch` strips the probe. The user policy is not in `src/`, so
it is an exact one: its `CreateFilter` keeps the keys and its
`KeyMayMatch` is membership. An internal key is encoded as
`user * kTagSpace + tag`, so dropping the last digit stands for dropping
the 8-byte tag. The reader is a set of operators applied to the finished
bytes: `Reader` (the constructor's checks of `n < 5` and `last_word > n
- 5`), `Lookup` (`KeyMayMatch`: the index, the bounds test and
fail-open on a bad range) and `Damaged` (every one-byte change to a
value in `CorruptBytes` and every truncation).

Run `filter_block` (pass). It checks four properties:
- `NoFalseNegatives`: a key added under block offset `o` matches at every
  offset of its range, probed under any tag. A Get probes with the tag of
  its snapshot's LookupKey, not with the stored tag. The property also
  breaks if `CreateFilter` does not strip the tag (`CreateFilter` replaced
  by `UserCreateFilter`, checked by hand).
- `NoCrossRangeMatches`: a filter never holds a user key of another 2 KiB
  range.
- `EveryKeyedRangeHasFilter`: every range that has keys has a filter.
- `ReaderInBounds`: on every damaged copy, the reader reads only inside
  the block.

Offsets 0, 2047, 2048, 4100 and 8192 cover both sides of the first
boundary and a skipped empty range. There are two internal keys, of user
keys 1 and 2 with tags 1 and 2, probed under all four tags, and at most two
pending keys. The run reaches 15,238 states. Deadlock checking is off
because a finished builder has no further step.

### InternalKey, MemTable and Random (`InternalKey.tla`, `MemTable.tla`, `Random.tla`, `MCMemTable.tla`)

`InternalKey` holds pure operators over byte sequences:
`PackSequenceAndType`, `AppendInternalKey` (fixed64 little-endian tag),
`Compare` (`InternalKeyComparator::Compare`: user key bytewise ascending,
then tag descending), `FindShortestSeparator`, `FindShortSuccessor` (the
user comparator's versions, and the internal wrapper that appends
`kMaxSequenceNumber`/`kValueTypeForSeek` only if the user key got shorter
and larger), and `LookupKey` (varint32 length prefix, then the internal
key).

`MemTable` is the memtable that uses them. State: `table` (the skiplist's
entries, each the byte string `Add` builds: varint32 internal-key length,
user key, fixed64 tag, varint32 value length, value), `rnd` (the
skiplist's `Random`, seeded with `0xdeadbeef`) and the ghosts `draws` and
`added`. `Add` encodes the entry, inserts it and draws the node height
(`RandomHeightFrom`: `Next() % 4 == 0` while below 12). The DB assigns
sequence numbers once and increasing, which is `Add`'s guard. The skiplist
(`db/skiplist.h`, not under `src/`) is a set ordered by `KeyComparator`,
and its `Seek` is the least entry not before the target. `Get` seeks to
the LookupKey's memtable key, decodes the length, compares the user key
and switches on the tag byte, with the code's early returns.
`IterSeek` is `MemTableIterator::Seek`: it prefixes the target with its
varint32 length (`EncodeKey`) before the skiplist's `Seek`.

`Random` computes `Next` exactly as the code does. The 46-bit product is
built from 16-bit halves, because TLC's integers have 32 bits. Its sum
`(product >> 31) + (product & M)` may reach 2^31, so it is compared with
M before it is formed. The reference `RefNext` is Schrage's method.

Run `memtable` (pass). Bounds: user keys of length at most 2 over bytes
{1, 2, 255}, 2-bit sequence numbers, values empty or one byte, at most two
Adds, so two entries of one key (and of two keys) are both reached. The run
reaches 16,433 states. It checks six properties in every state:
- `CompareMatchesReference`: Compare agrees with spec.md's ordering, for
  every pair of added entries and lookup keys of the same user key.
- `SeparatorBetween`: the separator is in `[start, limit)`.
- `SuccessorNotBelow`: the successor is at or above its key.
- `EntriesRoundTrip`: the iterator's key and value of every entry are the
  internal key and value that were added, and seeking the iterator to
  that internal key lands on the entry itself.
- `GetFindsNewestVisible`: for every user key and snapshot, Get returns
  the newest entry with sequence `<= s` (value, or NotFound for a
  deletion), and "not in table" when there is none.
- `RandomMatchesParkMiller`: `Next` agrees with `RefNext` along the
  skiplist's draws, and for four draws from each of nine constructor
  arguments: 0, M, 2^31, 2^32-1 (the bad seeds and the masked top bit), 1,
  M-1, and seeds whose sum needs the carry and the fold.

Deadlock checking is off: after two Adds the writer stops.

### TableFormat (`TableFormat.tla`)

Footer: `EncodeHandle`/`DecodeHandleAt` (`BlockHandle::EncodeTo` and
`DecodeFrom`: two varint64s), `FooterEncode` (the handles, zero padding
to 40 bytes, then the magic number as two little-endian fixed32 words)
and `FooterDecode` (magic first, then the two handles). State: `encoded`
(the handles written), `input` (the 48 bytes read back) and `footer`
(the decode result). Actions:
- `WriteFooter`;
- `DamageFooter`: one byte of an undecoded footer changes;
- `DecodeFooter`.

ReadBlock: one action, because ReadBlock is one call. It reads a handle
of a footer that decoded OK (Table::Open reads the index and metaindex
blocks), through the reader `NewRandomAccessFile` returned: the mmap
reader when the MmapLimiter had a slot, else the pread reader. The table
file has `FileLen` bytes.
- `PreadRead` (`PosixRandomAccessFile::Read`): the bytes between the
  offset and the end of the file, at most n; or EIO.
- `MmapRead` (`PosixMmapReadableFile::Read`): EINVAL when
  `offset + n > length_`, else n bytes of the mapping, memory the file
  owns (so `data != buf`).
The other inputs are `verify_checksums` and whether the crc matches, the
type byte (none, Snappy or unknown), and whether Snappy's length and
uncompress succeed. `ReadBlockOutcome` takes the early returns in the
code's order. `heap` is the set of buffers (`buf`, `ubuf`) allocated and
not deleted. `block` is the `BlockContents` the caller gets, and
`ReleaseBlock` is the caller deleting a heap-allocated block. The crc and
Snappy are outcomes, not computed.

`Status` (`Status.tla`) builds `state_` as the constructor does: the
length as four little-endian bytes, the code byte, `msg`, and `": " msg2`
when `msg2` is not empty. `CopyState` copies length + 5 bytes, and
`ToString` is the code's prefix and the message. Message text is a
sequence of word tokens, so lengths and the separator are real while the
wording is abstract. `status` is what the caller holds after
`s = ReadBlock(...)` (`operator=` copies with `CopyState`). The footer's
statuses are built the same way.

Run `table_format` (pass) checks these properties:
- `FooterRoundTrip`: an undamaged footer is 48 bytes and decodes to the
  handles written.
- `NoLeakedBuffer`: the only live buffer is the block the caller owns,
  across any sequence of reads and releases.
- `CachableOnlyIfOwned`: file memory is never cachable.
- `OnlyVerifiedBlocksReturned`: OK only for a full read, a matching
  checksum when asked, and a known type with Snappy success.
- `ReadBlockWithinFile`: OK only for a block inside the file, whichever
  reader was used, even for handles from a damaged footer.
- `StatusCarriesCause`: the status is OK exactly when ReadBlock succeeded,
  and otherwise `code()` and `ToString()` give the kind and text it was
  built with ("IO error: 000005.ldb: Invalid argument").

Handle values are 0 and 150. The first takes one varint byte and the
second two. With a 200-byte file, the block (150, 150) runs past the end
and the others fit. Damage positions cover the handle bytes, the last
padding byte and both ends of the magic. The damage bytes are 0 and 255,
so a continuation bit can join two varints and yield handles far past the
end. The run reaches 22,751 states.

### BGQueue (`BGQueue.tla`) and MmapLimiter (`MmapLimiter.tla`), run together in `MCPosixEnv.tla`

State: `queue` (`queue_`), `started` (`started_bgthread_`), `bg` (where
the background thread is: not created, about to lock and test, in
`pthread_cond_wait`, running an item), `current` (the popped item), and
the ghosts `sched` and `ran`. Schedule holds `mu_` throughout, and so does
each pass of BGThread from lock to pop or wait. Each of these critical
sections is one step. Actions: `Schedule`, `BGCheck`, `SpuriousWakeup`,
`Run`. A signal wakes the thread only if it is waiting; otherwise it is
lost.

MmapLimiter state: `allowed` (`allowed_`), `pc` of each thread in
NewRandomAccessFile, and `mapped[t]` (open `PosixMmapReadableFile`s).
Actions: `Open` (open plus the unlocked first test of Acquire, falling
back to a pread file), `AcquireLocked` (the re-test and decrement under
`mu_`), `Map`, `MapFails` (the `Release` on the error path) and
`CloseFile` (the destructor's `Release`).

Run `posix_env` (pass) interleaves both members of PosixEnv (they share
no lock). It checks `NoSleepWithWork` (no lost
wakeup), `RunsInScheduleOrder`, `SlotsConserved`, `AllowedNeverNegative`
and `EveryScheduledItemRuns`. Bounds: four items, each scheduled once;
three threads; a limit of three slots and at most two files per thread.
That is enough to exhaust the limit and race for the last slot. The run
reaches 114,620 states. The fairness is weak fairness of `BGCheck` and
`Run`: the OS runs a runnable thread, and scheduled functions return.
Callers, file openers and spurious wakeups get no fairness. Deadlock
checking is off: once everything has run and nobody opens a file, the
background thread waits forever, which is the real end state.

### PosixFile (`PosixFile.tla`), run with FileLock in `MCPosixFiles.tla`

State: `dir` and `ddir` (name to inode in memory and on disk), `data` and
`ddata` (each inode's content in the page cache and on disk), `wf` (per
name, the open `PosixWritableFile`: its inode and the records in its stdio
buffer), `created` and `opens` (bounds), and the ghosts `synced` (what the
last OK Sync of each inode covered) and `promised` (the name/inode pairs a
MANIFEST Sync made durable). A content is `[gen, len]`: a file only grows
until fopen "w" truncates it, so which records it holds is a prefix
length within a truncation generation.

Actions, one per call: `NewWritableFile` (create, or truncate an existing
name), `Append` (into the buffer, or through to the OS when the buffer
fills), `Flush`, `Sync` (`SyncDirIfManifest` with its early error return,
then `fflush` and `fdatasync`, each outcome a choice), `Close` (fclose
flushing, or failing and losing the buffer), `DeleteFile`, `RenameFile`.
The OS adds `WriteBack` (an inode's data), `DirWriteBack` (the directory,
committed as a whole as a journaling file system does) and `Crash` (back
to what is on disk, every writer gone). fopen, fwrite and fflush failures
are not modelled (see the hazards).

Run `posix_files` (pass) interleaves this with two threads of `FileLock`.
Names are a MANIFEST and a table file, two inodes, one record per stream,
two opens. So a table file can be created and synced before or after the
MANIFEST's Sync, renamed or deleted, written back or not, and a crash can
fall between any two steps. It checks:
- `SyncedDataDurable`: once Sync has returned OK, the disk holds what it
  covered, whatever happens later, until the file is truncated.
- `ManifestSyncPersistsNames`: once Sync of a MANIFEST has returned OK,
  every name the directory held then is on disk while it names the same
  file. A table file's own Sync gives no such promise.
It reaches 779,646 states. With three opens (a truncation after a crash
with both files) it reaches over six million, past the time budget.

## 4. Findings

- **Eviction evicts pinned entries** (`lru_evicts_pinned`,
  spec_code_divergence). `cache.cc:330` loops while the list is non-empty,
  and it evicts `lru_.next` whatever its `refs`. spec.md 4.7 and section 8 say
  eviction only proceeds over unpinned entries. The code is memory-safe: the
  pinned entry lives until Release, as `FreedExactlyWhenUnowned` shows.
  But the cached copy is gone, and `usage_` stays over capacity until the
  caller releases it.
- **An empty block has one restart point** (`block_restarts_ceiling`,
  spec_code_divergence). The constructor and `Reset`
  (`block_builder.cc:81`, `:88`) push offset 0 before any record, so
  Finish of an empty block writes restart 0 and count 1. spec.md section 8
  says a block of N records has exactly `ceil(N/R)` restarts, each at a
  record with shared 0; for N = 0 that is none. A reader copes (it finds
  no record at offset 0), so `RestartDensity` states the code's rule:
  `max(1, ceil(N/R))`.
- **A refused LockFile releases the holder's lock** (`file_lock_dup_close`,
  code_bug). `env_posix.cc:677`: LockFile opens the file, finds the name
  in `locks_` and closes the new descriptor. fcntl locks are released by
  any close in the process, so the thread that holds the FileLock has
  lost its OS lock. A second process can now lock the database.
- **UnlockFile closes after removing the name** (`file_lock_unlock_order`,
  code_bug). `env_posix.cc:702-703`: between `locks_.Remove` and
  `close(fd)`, another thread can complete LockFile. The close then
  releases that thread's new lock. Closing before removing would avoid it.

## 5. Fairness, bounds and what is not modelled

The only liveness property is `EveryScheduledItemRuns`, under weak
fairness of the background thread's steps (see `posix_env`). The cache and
the table are passive: nothing in them has to happen, so
there is no fairness and no liveness property. Their runs set
`CHECK_DEADLOCK FALSE`, because a cache nobody calls is legitimately idle.
Once the allocation bound is spent and every handle is released, the model
has no further step.

Not modelled: the sequential reader (`PosixSequentialFile`, used only
by recovery outside `src/`), the directory queries and `NewLogger` (pure
I/O, no state beyond a descriptor); the uint32 and uint64 wraps of
`Status`'s length and of `offset + n` in the mmap reader (values beyond
TLC's integers); the
`leveldbutil` main and demo code (including its unused copy of
`Random::Next`); `InternalFilterPolicy::Name` and `DebugString`
(formatting);
`ShardedLRUCache`'s sixteen shards side by side, `NewId` and `Value`
(the shards share no state; `ShardedLRUCache.tla` supplies the checked
shard's capacity, `PerShard(17) = 2`, and its keys, `KeysOfShard`, the
keys whose hash the forwarding methods send to it; the rounding wraps
near `SIZE_MAX`, a listed hazard; `NewId` is a counter under a mutex);
crc32c and Snappy (their results are nondeterministic outcomes of
`ReadBlock`); the MemTable's `Ref`/`Unref` and arena (not under
`src/`). Values, deleters' side effects and the hash function itself
are abstracted: an entry is its allocation number, and a hash is a
constant per key.
