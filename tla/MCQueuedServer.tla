--------------------------- MODULE MCQueuedServer ---------------------------
(***************************************************************************)
(* Keys for TLC, as in MCTree, of two lengths; the clients are alike.      *)
(***************************************************************************)
EXTENDS QueuedServer, TLC

TwoKeys == (1..2) \X {1}
Symmetry == Permutations(Clients)
=============================================================================
