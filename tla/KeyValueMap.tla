---------------------------- MODULE KeyValueMap ----------------------------
(***************************************************************************)
(* What tree.h promises: a map from keys to values.  tree_put binds a key, *)
(* replacing what it was bound to; tree_del removes a key that is bound.   *)
(***************************************************************************)
CONSTANTS Keys, Values

VARIABLE map    \* function from the keys that are present to their values

Init == map = [k \in {} |-> 0]

Put(k, v) == map' = [j \in DOMAIN map \cup {k} |-> IF j = k THEN v ELSE map[j]]

Del(k) == /\ k \in DOMAIN map
          /\ map' = [j \in DOMAIN map \ {k} |-> map[j]]

Next == \E k \in Keys : Del(k) \/ \E v \in Values : Put(k, v)

Spec == Init /\ [][Next]_map
=============================================================================
