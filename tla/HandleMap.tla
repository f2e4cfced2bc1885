------------------------------ MODULE HandleMap ------------------------------
(***************************************************************************)
(* What HandleTable promises to LRUCache: a map from keys to the handle    *)
(* last inserted under that key.  Insert replaces the handle of its key;   *)
(* Remove forgets the key.  A handle is <<key, generation>>: two handles  *)
(* inserted one after the other under the same key are distinct.          *)
(***************************************************************************)
EXTENDS Naturals

CONSTANTS Keys, NULL

VARIABLES
    contents,  \* key -> handle, NULL when absent
    gen        \* generation of the next handle of each key

vars == <<contents, gen>>

Init == contents = [k \in Keys |-> NULL] /\ gen = [k \in Keys |-> 0]

Insert(k) ==
    /\ contents' = [contents EXCEPT ![k] = <<k, gen[k]>>]
    /\ gen' = [gen EXCEPT ![k] = 1 - @]

Remove(k) ==
    /\ contents[k] # NULL
    /\ contents' = [contents EXCEPT ![k] = NULL]
    /\ UNCHANGED gen

Next == \E k \in Keys : Insert(k) \/ Remove(k)

Spec == Init /\ [][Next]_vars
=============================================================================
