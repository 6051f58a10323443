------------------------------ MODULE WriteLog ------------------------------
(***************************************************************************)
(* What the write path of the tree server promises, whatever threads,      *)
(* locks and queues it is built from: the write operations form a log, a   *)
(* write is identified by its position in it (from 0), the operations are  *)
(* carried out one at a time in the order of the log, and the outcome of   *)
(* an operation never changes once it is known.  Only a delete that finds  *)
(* no key, or a write that runs out of memory, fails.                      *)
(***************************************************************************)
EXTENDS Naturals, Sequences

Ops == {"del", "put"}
Statuses == {"pending", "done", "failed"}

VARIABLE log    \* sequence of [op, status]; operation n is at index n + 1

LogEntry == [op : Ops, status : Statuses]

Init == log = << >>

\* A client's write is given the next number.
Accept(op) == log' = Append(log, [op |-> op, status |-> "pending"])

\* The first operation whose outcome is not known yet is carried out.
Execute(i, outcome) ==
  /\ i \in DOMAIN log
  /\ log[i].status = "pending"
  /\ \A j \in 1..(i-1) : log[j].status # "pending"
  /\ log' = [log EXCEPT ![i].status = outcome]

Next == \/ \E op \in Ops : Accept(op)
        \/ \E i \in DOMAIN log, outcome \in {"done", "failed"} : Execute(i, outcome)

Spec == Init /\ [][Next]_log
=============================================================================
