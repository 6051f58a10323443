---------------------------- MODULE MCReplication ----------------------------
(***************************************************************************)
(* One key, for TLC: with it tree_del finds the key if the last write that *)
(* changed the tree was a put.                                             *)
(***************************************************************************)
EXTENDS Replication

OneKeyFound(applied) == applied # << >> /\ applied[Len(applied)] = "put"
=============================================================================
