----------------------------- MODULE MCLRUCache -----------------------------
(* Model-checking instance of one shard of NewLRUCache(17): two keys that *)
(* hash to shard 3, charges 1 and 3 against the shard's capacity of 2 (so  *)
(* an entry can be larger than the shard), five Inserts and two handles    *)
(* held at once.                                                           *)
EXTENDS LRUCache

CONSTANTS k1, k2, Null

SL == INSTANCE ShardedLRUCache

\* Hash(key) of the two keys (only the shard they select matters here).
MCHash == [k \in {k1, k2} |-> IF k = k1 THEN 817234561 ELSE 872415231]
MCShard == 3
ASSUME \A k \in DOMAIN MCHash : SL!Shard(MCHash[k]) = MCShard

MCKeys == SL!KeysOfShard(MCHash, MCShard)
MCCapacity == SL!PerShard(17)
MCCharges == {1, 3}
=============================================================================
