---------------------------- MODULE PutOnceMaps ----------------------------
(***************************************************************************)
(* What table.h promises of the tables of a server: maps, each with room   *)
(* for a fixed number of keys.  table_put binds a key that is not bound    *)
(* yet, table_update replaces the value of one that is; nothing is ever    *)
(* removed.                                                                *)
(***************************************************************************)
EXTENDS Naturals, Sequences, FiniteSets

CONSTANTS Keys, Values, Sizes

VARIABLE maps    \* number -> function from the keys that are present to their values

Init == maps = [n \in 1..Len(Sizes) |-> [k \in {} |-> 0]]

Bind(n, k, v) ==
  maps' = [maps EXCEPT ![n] = [j \in DOMAIN @ \cup {k} |-> IF j = k THEN v ELSE @[j]]]

Put(n, k, v) ==
  /\ k \notin DOMAIN maps[n]
  /\ Cardinality(DOMAIN maps[n]) < Sizes[n]
  /\ Bind(n, k, v)

Update(n, k, v) == k \in DOMAIN maps[n] /\ Bind(n, k, v)

Next == \E n \in 1..Len(Sizes), k \in Keys, v \in Values : Put(n, k, v) \/ Update(n, k, v)

Spec == Init /\ [][Next]_maps
=============================================================================
