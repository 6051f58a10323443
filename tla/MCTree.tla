------------------------------- MODULE MCTree -------------------------------
(***************************************************************************)
(* Keys for TLC: pairs of the length of a key and its rank among the keys  *)
(* of that length, which is all that the tree compares.                    *)
(***************************************************************************)
EXTENDS Tree

ThreeKeys == {1} \X (1..3)
FourKeys == (1..2) \X (1..2)
=============================================================================
