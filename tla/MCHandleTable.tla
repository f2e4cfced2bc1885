---------------------------- MODULE MCHandleTable ----------------------------
(* Five keys: k2 and k3 share a hash (a true collision), k1 and k2 share   *)
(* bucket 0 of the first 4 buckets but not of 8, k4 and k5 fill the rest.  *)
(* A fifth live key makes elems_ exceed length_ = 4 and forces a Resize.  *)
EXTENDS HandleTable, TLC

CONSTANTS k1, k2, k3, k4, k5, Null

MCKeys == {k1, k2, k3, k4, k5}
MCHash == (k1 :> 0) @@ (k2 :> 4) @@ (k3 :> 4) @@ (k4 :> 13) @@ (k5 :> 6)

\* hash & (length_ - 1) for the hashes and lengths of this model, computed once.
BucketTable == [h \in {0, 4, 6, 13}, l \in {4, 8, 16} |-> h & (l - 1)]
MCBucket(hash, len) == BucketTable[hash, len]
=============================================================================
