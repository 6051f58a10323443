--------------------------- MODULE MCSingleServer ---------------------------
(***************************************************************************)
(* Keys for TLC: the ranks of three keys of length 1.  The middle one can  *)
(* be a node with a child on either side, which tree_del treats apart.     *)
(***************************************************************************)
EXTENDS SingleServer

ThreeKeys == {1} \X (1..3)
=============================================================================
