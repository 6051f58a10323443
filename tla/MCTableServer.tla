--------------------------- MODULE MCTableServer ---------------------------
(***************************************************************************)
(* Keys for TLC, with the sums that hash makes of the strings "*", "-",    *)
(* "0", "b" and one character of -16.  In a table of three slots the first *)
(* three belong to slot 0 and "b" to slot 2, which any of the others may   *)
(* have taken; the slot of the last would lie before the table.            *)
(***************************************************************************)
EXTENDS TableServer, TLC

FiveKeys == {<<42, 1>>, <<45, 1>>, <<48, 1>>, <<98, 1>>, <<-16, 1>>}
OneTable == <<3>>

\* Clients, and values, are told apart by nothing.
Alike == Permutations(Clients) \cup Permutations(Values)
=============================================================================
