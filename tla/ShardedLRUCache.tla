--------------------------- MODULE ShardedLRUCache ---------------------------
(***************************************************************************)
(* ShardedLRUCache (src/LearnCC/util/cache.cc): sixteen independent        *)
(* LRUCache shards.  A key goes to the shard named by the top four bits of *)
(* its 32-bit hash, and the constructor gives every shard the requested    *)
(* capacity divided by sixteen, rounded up.  The shards share nothing, so  *)
(* one shard (module LRUCache) is what the runs check; this module gives   *)
(* it its capacity and its keys.                                           *)
(***************************************************************************)
EXTENDS Naturals

kNumShardBits == 4
kNumShards == 2^kNumShardBits

\* ShardedLRUCache::Shard: hash >> (32 - kNumShardBits).
Shard(hash) == hash \div 2^(32 - kNumShardBits)

\* The constructor: per_shard = (capacity + (kNumShards - 1)) / kNumShards.
PerShard(capacity) == (capacity + (kNumShards - 1)) \div kNumShards

\* Insert, Lookup and Erase forward to shard_[Shard(HashSlice(key))], and
\* Release to shard_[Shard(h->hash)], the hash Insert stored: the keys one
\* shard ever sees, given the hash of every key.
KeysOfShard(hash, s) == {k \in DOMAIN hash : Shard(hash[k]) = s}
=============================================================================
