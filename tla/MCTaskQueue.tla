---------------------------- MODULE MCTaskQueue ----------------------------
(***************************************************************************)
(* Values of the constants of TaskQueue for TLC.                           *)
(***************************************************************************)
EXTENDS TaskQueue

\* A page the program never used: all zeros, which reads as "delete number 0".
ZeroTask == [op_n |-> 0, op |-> "del", isDone |-> 0, next |-> "null"]

\* A chunk that was freed before: some small numbers and no pointer.
RecycledTask == [op_n |-> 2, op |-> "junk", isDone |-> 1, next |-> "null"]

\* A chunk that held a long string: next is part of its text.
WildTask == [op_n |-> 7, op |-> "junk", isDone |-> 7, next |-> "wild"]

ZeroMemory == {ZeroTask}
UsableMemory == {ZeroTask, RecycledTask}
AnyMemory == {ZeroTask, RecycledTask, WildTask}
=============================================================================
