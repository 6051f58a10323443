------------------------- MODULE ReplicationProofs -------------------------
(***************************************************************************)
(* Theorems about Replication, for any number of servers and of writes and *)
(* any tree: its types, that what a primary has finished with while it was *)
(* connected is on its backup, that a backup gets only what its primary    *)
(* has applied, once and in order, and that one which has missed nothing   *)
(* has the same tree after the same writes.                                *)
(***************************************************************************)
EXTENDS Replication, TLAPS

\* Where a second thread may be, and where it waits for its peer.
Places == {"idle", "forward", "asked", "unheard", "answered", "astray"}
Waits == {"asked", "unheard", "answered"}

LEMMA ServersFacts ==
  /\ Servers \subseteq Nat
  /\ None \notin Servers /\ Unconnected \notin Servers /\ None # Unconnected
BY BoundsAssumption DEF Servers, None, Unconnected

-----------------------------------------------------------------------------
(* What a step may do to the queues. *)

\* A task is put at the end of the queue of s.
LEMMA AppendFacts ==
  ASSUME NEW s \in Servers, NEW write \in Writes,
         queue \in [Servers -> Seq(Writes)],
         queue' = [queue EXCEPT ![s] = Append(@, write)]
  PROVE  /\ queue' \in [Servers -> Seq(Writes)]
         /\ \A t \in Servers \ {s} : queue'[t] = queue[t]
         /\ Len(queue'[s]) = Len(queue[s]) + 1
         /\ DOMAIN queue'[s] = 1..(Len(queue[s]) + 1)
         /\ \A n \in 1..Len(queue[s]) : queue'[s][n] = queue[s][n]
         /\ queue'[s][Len(queue[s]) + 1] = write
<1>1. queue[s] \in Seq(Writes) /\ queue'[s] = Append(queue[s], write)
  OBVIOUS
<1>. QED BY <1>1

\* What is carried out gets a status; nothing else of any task changes.
LEMMA ExecuteFacts ==
  ASSUME TypeOK, NEW s \in Servers, Execute(s)
  PROVE  /\ op_count[s] + 1 \in 1..Len(queue[s])
         /\ queue' \in [Servers -> Seq(Writes)]
         /\ \A t \in Servers \ {s} : queue'[t] = queue[t]
         /\ Len(queue'[s]) = Len(queue[s])
         /\ \A n \in 1..Len(queue[s]) \ {op_count[s] + 1} : queue'[s][n] = queue[s][n]
         /\ queue'[s][op_count[s] + 1] = [Task(s) EXCEPT !.status = Outcome(s)]
         /\ Outcome(s) \in {"done", "failed"}
<1> DEFINE i == op_count[s] + 1
<1>0. queue[s] \in Seq(Writes) /\ op_count[s] \in Nat /\ op_count[s] < Len(queue[s])
  BY DEF TypeOK, Execute
<1>1. queue[s] \in Seq(Writes) /\ i \in 1..Len(queue[s]) /\ Task(s) \in Writes
  BY <1>0 DEF Task
<1>2. Outcome(s) \in {"done", "failed"}
  BY DEF Outcome
<1>3. [Task(s) EXCEPT !.status = Outcome(s)] \in Writes
  BY <1>1, <1>2 DEF Writes, Statuses
<1>4. queue' = [queue EXCEPT ![s] = [queue[s] EXCEPT ![i] = [Task(s) EXCEPT !.status = Outcome(s)]]]
  BY DEF Execute, Apply, Task
<1>5. queue'[s] = [queue[s] EXCEPT ![i] = [Task(s) EXCEPT !.status = Outcome(s)]]
  BY <1>4 DEF TypeOK
<1>6. queue'[s] \in Seq(Writes) /\ Len(queue'[s]) = Len(queue[s])
  BY <1>1, <1>3, <1>5
<1>7. queue' \in [Servers -> Seq(Writes)] /\ \A t \in Servers \ {s} : queue'[t] = queue[t]
  BY <1>4, <1>5, <1>6 DEF TypeOK
<1>. QED BY <1>1, <1>2, <1>5, <1>6, <1>7

LEMMA ReplicaType ==
  ASSUME TypeOK, NEW s \in Servers, ServeReplica(s)
  PROVE  Task(s) \in Writes /\ Replica(s) \in Writes /\ peer[s] \in Servers
<1>1. peer[s] \in Servers /\ op_count[s] \in Nat /\ op_count[s] < Len(queue[s])
  BY DEF ServeReplica, TypeOK
<1>2. Task(s) \in Writes
  BY <1>1 DEF Task, TypeOK
<1>3. Replica(s) \in Writes
  BY <1>2 DEF Replica, Writes, Statuses
<1>. QED BY <1>1, <1>2, <1>3

-----------------------------------------------------------------------------
(* Types. *)

Step(s) == \/ Start(s) \/ Launch(s) \/ TakesOver(s)
           \/ Crash(s) \/ Expire(s)
           \/ ChildWatcher(s)
           \/ (\E op \in Ops : Request(s, op))
           \/ ServeClient(s)
           \/ ProcessTask(s) \/ StrayEnds(s)
           \/ Hears(s) \/ ServeReplica(s)

LEMMA DiesType ==
  ASSUME TypeOK, NEW s \in Servers, Dies(s)
  PROVE  /\ up' \in [Servers -> {"off", "up", "dead"}]
         /\ fired' \subseteq Servers /\ connecting' \subseteq Servers
         /\ inbox' \in [Servers -> Seq(Writes)] /\ \A t \in Servers : Len(inbox'[t]) <= 1
         /\ thread' \in [Servers -> {"none", "ready", "runs", "lost"}]
BY DEF TypeOK, Dies

LEMMA FinishType ==
  ASSUME TypeOK, NEW s \in Servers, Finish(s), worker[s] # "idle" \/ op_count[s] < Len(queue[s])
  PROVE  /\ op_count' \in [Servers -> Nat]
         /\ worker' \in [Servers -> Places]
         /\ op_count'[s] = op_count[s] + 1 /\ worker'[s] = "idle"
         /\ op_count'[s] <= Len(queue[s])
         /\ \A t \in Servers \ {s} : op_count'[t] = op_count[t] /\ worker'[t] = worker[t]
<1> USE DEF Places
<1>1. op_count[s] \in Nat /\ Len(queue[s]) \in Nat /\ op_count[s] < Len(queue[s])
  BY DEF TypeOK
<1>2. op_count' = [op_count EXCEPT ![s] = op_count[s] + 1] /\ worker' = [worker EXCEPT ![s] = "idle"]
  BY DEF Finish
<1>. QED BY <1>1, <1>2 DEF TypeOK

LEMMA SignalType ==
  ASSUME TypeOK, NEW s \in Servers, NEW write, Enqueue(s, write)
  PROVE  thread' \in [Servers -> {"none", "ready", "runs", "lost"}]
<1>1. thread \in [Servers -> {"none", "ready", "runs", "lost"}]
  BY DEF TypeOK
<1>2. UNCHANGED thread \/ \E t \in {"runs", "lost"} : thread' = [thread EXCEPT ![s] = t]
  BY DEF Enqueue, Signal
<1>. QED BY <1>1, <1>2

\* The queues of all servers after one of them was extended.
LEMMA AppendType ==
  ASSUME TypeOK, NEW s \in Servers, NEW write \in Writes, Enqueue(s, write)
  PROVE  /\ queue' \in [Servers -> Seq(Writes)]
         /\ \A t \in Servers :
              /\ op_count[t] <= Len(queue'[t]) /\ since[t] <= Len(queue'[t])
              /\ worker[t] # "idle" => op_count[t] < Len(queue'[t])
<1>1. queue' = [queue EXCEPT ![s] = Append(@, write)] /\ queue \in [Servers -> Seq(Writes)]
  BY DEF Enqueue, EnqueuePut, EnqueueDel, TypeOK
<1>2. /\ queue' \in [Servers -> Seq(Writes)]
      /\ \A t \in Servers \ {s} : queue'[t] = queue[t]
      /\ Len(queue'[s]) = Len(queue[s]) + 1
  BY <1>1, AppendFacts
<1>3. ASSUME NEW t \in Servers
      PROVE  /\ op_count[t] <= Len(queue'[t]) /\ since[t] <= Len(queue'[t])
             /\ worker[t] # "idle" => op_count[t] < Len(queue'[t])
  <2>1. Len(queue[t]) \in Nat /\ Len(queue[t]) <= Len(queue'[t]) /\ Len(queue'[t]) \in Nat
    BY <1>1, <1>2
  <2>2. op_count[t] \in Nat /\ since[t] \in Nat
    BY DEF TypeOK
  <2>3. /\ op_count[t] <= Len(queue[t]) /\ since[t] <= Len(queue[t])
        /\ worker[t] # "idle" => op_count[t] < Len(queue[t])
    BY DEF TypeOK
  <2>. QED BY <2>1, <2>2, <2>3
<1>. QED BY <1>2, <1>3

\* What may come of Forward: the write is sent, or is not, or to whom it was not
\* meant for; or the process ends.
LEMMA ForwardFacts ==
  ASSUME TypeOK, NEW s \in Servers, Forward(s)
  PROVE  /\ worker[s] = "forward"
         /\ UNCHANGED <<role, node, rtreeBack, since, writes, queue, tree>>
         /\ \/ /\ rtreeBack[s] \in Servers
               /\ \E w \in {"asked", "unheard"} : worker' = [worker EXCEPT ![s] = w]
               /\ peer' = [peer EXCEPT ![s] = rtreeBack[s]]
               /\ UNCHANGED <<up, thread, fired, connecting, inbox, op_count>>
            \/ /\ rtreeBack[s] \notin Servers /\ Finish(s)
               /\ UNCHANGED <<up, thread, fired, connecting, inbox, peer>>
            \/ /\ rtreeBack[s] \notin Servers /\ Dies(s)
               /\ UNCHANGED <<worker, op_count, peer>>
            \/ /\ rtreeBack[s] \notin Servers
               /\ worker' = [worker EXCEPT ![s] = "astray"]
               /\ UNCHANGED <<up, thread, fired, connecting, inbox, op_count, peer>>
BY ServersFacts DEF Forward, Sends, GoesAstray

\* The inbox of s may lose its request.
LEMMA StrayFacts ==
  ASSUME TypeOK, NEW s \in Servers, StrayEnds(s)
  PROVE  /\ worker[s] = "astray"
         /\ UNCHANGED <<role, node, rtreeBack, since, writes, queue, peer, tree>>
         /\ inbox' = inbox \/ inbox' = [inbox EXCEPT ![s] = << >>]
         /\ \/ Dies(s) /\ UNCHANGED <<op_count, worker>>
            \/ Finish(s) /\ UNCHANGED <<up, thread, fired, connecting>>
BY DEF StrayEnds, Dies

LEMMA StepTypeOK ==
  ASSUME TypeOK, NEW s \in Servers, Step(s)
  PROVE  TypeOK'
<1> USE DEF Places, Waits
<1>1. CASE Start(s)
  <2>1. up' = [up EXCEPT ![s] = "up"] /\ UNCHANGED <<thread, links, clients, queue, op_count, worker, peer, tree>>
    BY <1>1 DEF Start
  <2>2. PICK r \in {"primary", "backup"} : /\ node' = [node EXCEPT ![r] = s]
                                           /\ role' = [role EXCEPT ![s] = r]
    BY <1>1 DEF Start
  <2>3. fired' \subseteq Servers
    BY <1>1 DEF Start, Changed, TypeOK, Owners
  <2>4. up' \in [Servers -> {"off", "up", "dead"}]
    BY <2>1 DEF TypeOK
  <2>5. role' \in [Servers -> {"primary", "backup", "none"}]
    BY <2>2 DEF TypeOK
  <2>6. node' \in [{"primary", "backup"} -> Servers \cup {None}]
    BY <2>2 DEF TypeOK
  <2>. QED BY <2>1, <2>3, <2>4, <2>5, <2>6 DEF TypeOK, links, clients
<1>16. CASE Launch(s)
  BY <1>16 DEF Launch, TypeOK, zoo, links, clients
<1>17. CASE TakesOver(s)
  <2>1. node' \in [{"primary", "backup"} -> Servers \cup {None}]
    BY <1>17 DEF TakesOver
  <2>. QED BY <1>17, <2>1 DEF TakesOver, TypeOK, links, clients
<1>2. CASE Crash(s)
  BY <1>2, DiesType DEF Crash, TypeOK
<1>3. CASE Expire(s)
  <2>1. node' \in [{"primary", "backup"} -> Servers \cup {None}]
    BY <1>3 DEF Expire, TypeOK
  <2>2. fired' \subseteq Servers
    BY <1>3 DEF Expire, TypeOK, Owners
  <2>. QED BY <1>3, <2>1, <2>2 DEF Expire, TypeOK, links, clients
<1>4. CASE Promote(s)
  BY <1>4 DEF Promote, TypeOK, clients
<1>5. CASE SeesBackup(s)
  BY <1>5 DEF SeesBackup, TypeOK, clients
<1>6. CASE Connect(s)
  <2>1. FirstForBackup(s) \in Nat /\ FirstForBackup(s) <= Len(queue[s])
    <3>1. op_count[s] \in Nat /\ Len(queue[s]) \in Nat /\ op_count[s] <= Len(queue[s])
      BY DEF TypeOK
    <3>2. worker[s] # "idle" => op_count[s] < Len(queue[s])
      BY DEF TypeOK
    <3>. QED BY <3>1, <3>2 DEF FirstForBackup
  <2>. QED BY <1>6, <2>1 DEF Connect, TypeOK, clients, zoo
<1>7. CASE SeesNoBackup(s)
  BY <1>7 DEF SeesNoBackup, TypeOK, clients
<1>9. ASSUME NEW op \in Ops, Request(s, op) PROVE TypeOK'
  <2>1. writes' \in 1..MaxWrites
    BY <1>9, BoundsAssumption DEF Request, TypeOK
  <2> DEFINE write == [id |-> writes', op |-> op, status |-> "pending", from |-> s]
  <2>2. write \in Writes
    BY <2>1 DEF Writes, Statuses
  <2>3. <<write>> \in Seq(Writes) /\ Len(<<write>>) = 1
    BY <2>2
  <2>4. inbox' = [inbox EXCEPT ![s] = <<write>>]
    BY <1>9 DEF Request
  <2>5. inbox' \in [Servers -> Seq(Writes)] /\ \A t \in Servers : Len(inbox'[t]) <= 1
    BY <2>3, <2>4 DEF TypeOK
  <2>6. UNCHANGED <<up, thread, role, node, fired, connecting, rtreeBack, since, queue, op_count, worker, peer, tree>>
    BY <1>9 DEF Request, zoo, links
  <2>7. writes' \in 0..MaxWrites
    BY <2>1, BoundsAssumption
  <2>. QED BY <2>5, <2>6, <2>7 DEF TypeOK
<1>10. CASE ServeClient(s)
  <2>1. Head(inbox[s]) \in Writes /\ Enqueue(s, Head(inbox[s]))
    BY <1>10 DEF ServeClient, TypeOK
  <2>2. /\ queue' \in [Servers -> Seq(Writes)]
        /\ \A t \in Servers :
             /\ op_count[t] <= Len(queue'[t]) /\ since[t] <= Len(queue'[t])
             /\ worker[t] # "idle" => op_count[t] < Len(queue'[t])
    BY <2>1, AppendType
  <2>3. inbox' \in [Servers -> Seq(Writes)] /\ \A t \in Servers : Len(inbox'[t]) <= 1
    BY <1>10 DEF ServeClient, TypeOK
  <2>4. UNCHANGED <<up, zoo, links, writes, op_count, worker, peer, tree>>
    BY <1>10 DEF ServeClient
  <2>9. thread' \in [Servers -> {"none", "ready", "runs", "lost"}]
    BY <2>1, SignalType
  <2>5. \A t \in Servers : worker[t] \in Waits => peer[t] \in Servers
    BY DEF TypeOK
  <2>6. UNCHANGED <<up, role, node, fired, connecting, rtreeBack, since, writes, op_count, worker, peer, tree>>
    BY <2>4 DEF zoo, links
  <2>7. queue' \in [Servers -> Seq(Writes)]
    BY <2>2
  <2>8. \A t \in Servers :
           /\ op_count'[t] <= Len(queue'[t]) /\ since'[t] <= Len(queue'[t])
           /\ worker'[t] # "idle" => op_count'[t] < Len(queue'[t])
           /\ worker'[t] \in Waits => peer'[t] \in Servers
    BY <2>2, <2>5, <2>6
  <2>. QED BY <2>3, <2>6, <2>7, <2>8, <2>9 DEF TypeOK
<1>11. CASE Execute(s)
  <2>1. /\ queue' \in [Servers -> Seq(Writes)]
        /\ \A t \in Servers : Len(queue'[t]) = Len(queue[t])
    BY <1>11, ExecuteFacts
  <2>4. tree' \in [Servers -> Seq(Nat)]
    <3>1. tree \in [Servers -> Seq(Nat)] /\ op_count[s] \in Nat
      BY DEF TypeOK
    <3>2. Append(tree[s], op_count[s] + 1) \in Seq(Nat)
      BY <3>1
    <3>. QED BY <1>11, <3>1, <3>2 DEF Execute, Apply
  <2>2. CASE Outcome(s) = "done"
    <3>1. worker' = [worker EXCEPT ![s] = "forward"] /\ UNCHANGED <<up, thread, zoo, links, clients, peer, op_count>>
      BY <1>11, <2>2 DEF Execute
    <3>2. worker' \in [Servers -> Places]
      BY <3>1 DEF TypeOK
    <3>3. worker'[s] = "forward" /\ op_count[s] < Len(queue[s])
      BY <1>11, <3>1 DEF TypeOK, Execute
    <3>4. \A t \in Servers \ {s} : worker'[t] = worker[t]
      BY <3>1 DEF TypeOK
    <3>. QED BY <2>1, <2>4, <3>1, <3>2, <3>3, <3>4 DEF TypeOK, zoo, links, clients
  <2>3. CASE Outcome(s) # "done"
    BY <1>11, <2>1, <2>3, <2>4, FinishType DEF Execute, TypeOK, zoo, links, clients
  <2>. QED BY <2>2, <2>3
<1>12. CASE Forward(s)
  <2>0. worker[s] = "forward" /\ UNCHANGED <<role, node, rtreeBack, since, writes, queue, tree>>
    BY <1>12, ForwardFacts
  <2>1. ASSUME rtreeBack[s] \in Servers, NEW w \in {"asked", "unheard"},
               worker' = [worker EXCEPT ![s] = w], peer' = [peer EXCEPT ![s] = rtreeBack[s]],
               UNCHANGED <<up, thread, fired, connecting, inbox, op_count>>
        PROVE  TypeOK'
    <3>1. worker' \in [Servers -> Places] /\ peer' \in [Servers -> Servers \cup {None}]
      BY <2>1 DEF TypeOK
    <3>2. worker'[s] = w /\ peer'[s] = rtreeBack[s] /\ op_count[s] < Len(queue[s])
      BY <2>0, <2>1 DEF TypeOK
    <3>3. \A t \in Servers \ {s} : worker'[t] = worker[t] /\ peer'[t] = peer[t]
      BY <2>1 DEF TypeOK
    <3>. QED BY <2>0, <2>1, <3>1, <3>2, <3>3 DEF TypeOK
  <2>2. CASE Finish(s) /\ UNCHANGED <<up, thread, fired, connecting, inbox, peer>>
    BY <2>0, <2>2, FinishType DEF TypeOK
  <2>3. CASE Dies(s) /\ UNCHANGED <<worker, op_count, peer>>
    BY <2>0, <2>3, DiesType DEF TypeOK
  <2>4. CASE worker' = [worker EXCEPT ![s] = "astray"]
             /\ UNCHANGED <<up, thread, fired, connecting, inbox, op_count, peer>>
    <3>1. worker' \in [Servers -> Places] /\ worker'[s] = "astray" /\ op_count[s] < Len(queue[s])
          /\ \A t \in Servers \ {s} : worker'[t] = worker[t]
      BY <2>0, <2>4 DEF TypeOK
    <3>. QED BY <2>0, <2>4, <3>1 DEF TypeOK
  <2>. QED BY <1>12, <2>1, <2>2, <2>3, <2>4, ForwardFacts
<1>13. CASE Answered(s)
  BY <1>13, FinishType DEF Answered, TypeOK, zoo, links, clients
<1>14. CASE Abandoned(s)
  <2>1. CASE Dies(s) /\ UNCHANGED <<op_count, worker>>
    BY <1>14, <2>1, DiesType DEF Abandoned, TypeOK
  <2>2. CASE Finish(s) /\ UNCHANGED <<up, thread, fired, connecting, inbox>>
    BY <1>14, <2>2, FinishType DEF Abandoned, TypeOK
  <2>. QED BY <1>14, <2>1, <2>2 DEF Abandoned
<1>18. CASE StrayEnds(s)
  <2>0. worker[s] = "astray" /\ UNCHANGED <<role, node, rtreeBack, since, writes, queue, peer, tree>>
    BY <1>18, StrayFacts
  <2>1. CASE Dies(s) /\ UNCHANGED <<op_count, worker>>
    BY <2>0, <2>1, DiesType DEF TypeOK
  <2>2. CASE Finish(s) /\ UNCHANGED <<up, thread, fired, connecting>>
    <3>1. inbox' \in [Servers -> Seq(Writes)] /\ \A t \in Servers : Len(inbox'[t]) <= 1
      <4>1. inbox' = inbox \/ inbox' = [inbox EXCEPT ![s] = << >>]
        BY <1>18, StrayFacts
      <4>2. inbox \in [Servers -> Seq(Writes)] /\ \A t \in Servers : Len(inbox[t]) <= 1
        BY DEF TypeOK
      <4>3. << >> \in Seq(Writes) /\ Len(<< >>) = 0
        OBVIOUS
      <4>4. CASE inbox' = [inbox EXCEPT ![s] = << >>]
        BY <4>2, <4>3, <4>4
      <4>. QED BY <4>1, <4>2, <4>4
    <3>. QED BY <2>0, <2>2, <3>1, FinishType DEF TypeOK
  <2>. QED BY <1>18, <2>1, <2>2, StrayFacts
<1>19. CASE Hears(s)
  <2>1. /\ worker[s] = "unheard" /\ worker' = [worker EXCEPT ![s] = "asked"]
        /\ UNCHANGED <<up, thread, role, node, fired, connecting, rtreeBack, since, writes, inbox,
                       queue, op_count, peer, tree>>
    BY <1>19 DEF Hears, zoo, links, clients
  <2>2. worker' \in [Servers -> Places] /\ worker'[s] = "asked"
        /\ \A t \in Servers \ {s} : worker'[t] = worker[t]
    BY <2>1 DEF TypeOK
  <2>. QED BY <2>1, <2>2 DEF TypeOK
<1>15. CASE ServeReplica(s)
  <2>1. peer[s] \in Servers /\ op_count[s] \in Nat /\ op_count[s] < Len(queue[s])
    BY <1>15 DEF ServeReplica, TypeOK
  <2>3. Replica(s) \in Writes
    BY <1>15, ReplicaType
  <2>4. /\ queue' \in [Servers -> Seq(Writes)]
        /\ \A t \in Servers :
             /\ op_count[t] <= Len(queue'[t]) /\ since[t] <= Len(queue'[t])
             /\ worker[t] # "idle" => op_count[t] < Len(queue'[t])
    BY <1>15, <2>1, <2>3, AppendType DEF ServeReplica
  <2>5. worker' = [worker EXCEPT ![s] = "answered"] /\ UNCHANGED <<up, zoo, links, clients, op_count, peer, tree>>
    BY <1>15 DEF ServeReplica
  <2>11. thread' \in [Servers -> {"none", "ready", "runs", "lost"}]
    BY <1>15, <2>1, SignalType DEF ServeReplica
  <2>6. ASSUME NEW t \in Servers
        PROVE  /\ worker'[t] # "idle" => op_count[t] < Len(queue'[t])
               /\ worker'[t] \in Waits => peer[t] \in Servers
    <3>1. CASE t = s
      BY <1>15, <2>1, <2>4, <3>1 DEF ServeReplica
    <3>2. CASE t # s
      <4>1. worker'[t] = worker[t]
        BY <2>5, <3>2 DEF TypeOK
      <4>. QED BY <2>4, <4>1 DEF TypeOK
    <3>. QED BY <3>1, <3>2
  <2>7. worker' \in [Servers -> Places]
    BY <2>5 DEF TypeOK
  <2>8. UNCHANGED <<up, role, node, fired, connecting, rtreeBack, since, writes, inbox, op_count, peer, tree>>
    BY <2>5 DEF zoo, links, clients
  <2>9. queue' \in [Servers -> Seq(Writes)]
    BY <2>4
  <2>10. \A t \in Servers :
           /\ op_count'[t] <= Len(queue'[t]) /\ since'[t] <= Len(queue'[t])
           /\ worker'[t] # "idle" => op_count'[t] < Len(queue'[t])
           /\ worker'[t] \in Waits => peer'[t] \in Servers
    BY <2>4, <2>6, <2>8
  <2>. QED BY <2>7, <2>8, <2>9, <2>10, <2>11 DEF TypeOK
<1>. QED
  BY <1>1, <1>2, <1>3, <1>4, <1>5, <1>6, <1>7, <1>9, <1>10, <1>11, <1>12, <1>13,
     <1>14, <1>15, <1>16, <1>17, <1>18, <1>19 DEF Step, ChildWatcher, ProcessTask

THEOREM TypeCorrect == Spec => []TypeOK
<1>1. Init => TypeOK
  BY BoundsAssumption DEF Init, TypeOK
<1>2. TypeOK /\ [Next]_vars => TypeOK'
  <2>1. ASSUME TypeOK, Next PROVE TypeOK'
    <3>1. PICK s \in Servers : Step(s)
      BY <2>1 DEF Next, Step
    <3>. QED BY <2>1, <3>1, StepTypeOK
  <2>2. ASSUME TypeOK, UNCHANGED vars PROVE TypeOK'
    BY <2>2 DEF TypeOK, vars, zoo, links, clients
  <2>. QED BY <2>1, <2>2
<1>. QED BY <1>1, <1>2, PTL DEF Spec

-----------------------------------------------------------------------------
(* A step changes only the state of the server it is a step of, except that it *)
(* may put a task at the end of another's queue.                               *)

LEMMA StepOwner ==
  ASSUME TypeOK, NEW s \in Servers, Step(s)
  PROVE  /\ \A t \in Servers \ {s} : /\ op_count'[t] = op_count[t] /\ worker'[t] = worker[t]
                                     /\ peer'[t] = peer[t] /\ since'[t] = since[t]
                                     /\ rtreeBack'[t] = rtreeBack[t]
         /\ \A t \in Servers : /\ up[t] # "off" => up'[t] # "off"
                               /\ up'[t] = "up" => up[t] \in {"off", "up"}
<1> USE DEF TypeOK, links, zoo, clients, Alive
<1>1. CASE Start(s) \/ Launch(s) \/ TakesOver(s)
  BY <1>1 DEF Start, Launch, TakesOver
<1>2. CASE Crash(s)
  BY <1>2 DEF Crash, Dies
<1>3. CASE Expire(s)
  BY <1>3 DEF Expire
<1>4. CASE ChildWatcher(s)
  BY <1>4 DEF ChildWatcher, Promote, SeesBackup, Connect, SeesNoBackup
<1>5. ASSUME NEW op \in Ops, Request(s, op) PROVE UNCHANGED <<up, links, op_count, worker, peer>>
  BY <1>5 DEF Request
<1>6. CASE ServeClient(s)
  BY <1>6 DEF ServeClient
<1>7. CASE Execute(s)
  BY <1>7 DEF Execute, Finish
<1>8. CASE Forward(s)
  <2>1. UNCHANGED <<since, rtreeBack>>
    BY <1>8, ForwardFacts
  <2>2. /\ op_count' = op_count \/ op_count' = [op_count EXCEPT ![s] = op_count[s] + 1]
        /\ worker' = worker \/ \E w \in Places : worker' = [worker EXCEPT ![s] = w]
        /\ peer' = peer \/ peer' = [peer EXCEPT ![s] = rtreeBack[s]]
        /\ up' = up \/ up' = [up EXCEPT ![s] = "dead"]
    <3>1. CASE /\ \E w \in {"asked", "unheard"} : worker' = [worker EXCEPT ![s] = w]
               /\ peer' = [peer EXCEPT ![s] = rtreeBack[s]]
               /\ UNCHANGED <<up, op_count>>
      BY <3>1 DEF Places
    <3>2. CASE Finish(s) /\ UNCHANGED <<up, peer>>
      BY <3>2 DEF Finish, Places
    <3>3. CASE Dies(s) /\ UNCHANGED <<worker, op_count, peer>>
      BY <3>3 DEF Dies
    <3>4. CASE worker' = [worker EXCEPT ![s] = "astray"] /\ UNCHANGED <<up, op_count, peer>>
      BY <3>4 DEF Places
    <3>. QED BY <1>8, <3>1, <3>2, <3>3, <3>4, ForwardFacts
  <2>3. Alive(s)
    BY <1>8 DEF Forward
  <2>. QED BY <2>1, <2>2, <2>3
<1>9. CASE Answered(s)
  BY <1>9 DEF Answered, Finish
<1>10. CASE Abandoned(s)
  BY <1>10 DEF Abandoned, Finish, Dies
<1>13. CASE StrayEnds(s)
  <2>1. UNCHANGED <<since, rtreeBack, peer>>
    BY <1>13, StrayFacts
  <2>2. /\ op_count' = op_count \/ op_count' = [op_count EXCEPT ![s] = op_count[s] + 1]
        /\ worker' = worker \/ worker' = [worker EXCEPT ![s] = "idle"]
        /\ up' = up \/ up' = [up EXCEPT ![s] = "dead"]
    BY <1>13, StrayFacts DEF Finish, Dies
  <2>3. Alive(s)
    BY <1>13 DEF StrayEnds
  <2>. QED BY <2>1, <2>2, <2>3
<1>14. CASE Hears(s)
  BY <1>14 DEF Hears
<1>11. CASE ServeReplica(s)
  BY <1>11 DEF ServeReplica
<1>12. CASE \E op \in Ops : Request(s, op)
  BY <1>5, <1>12
<1>. QED
  BY <1>1, <1>2, <1>3, <1>4, <1>6, <1>7, <1>8, <1>9, <1>10, <1>11, <1>12, <1>13, <1>14
  DEF Step, ProcessTask

\* The three things that may happen to the queues.
LEMMA StepQueue ==
  ASSUME TypeOK, NEW s \in Servers, Step(s)
  PROVE  \/ UNCHANGED queue
         \/ Execute(s)
         \/ ServeClient(s)
         \/ ServeReplica(s)
BY DEF Step, ChildWatcher, ProcessTask, Start, Launch, TakesOver, Crash, Expire, Promote,
       SeesBackup, Connect, SeesNoBackup, Request, Forward, Answered, Abandoned, StrayEnds, Hears

\* A task stays where it is, with its number and what is to be done; its status
\* changes only when the server that has it carries it out.
LEMMA TasksStay ==
  ASSUME TypeOK, NEW s \in Servers, Step(s)
  PROVE  /\ queue' \in [Servers -> Seq(Writes)]
         /\ \A t \in Servers : \A n \in DOMAIN queue[t] :
              /\ n \in DOMAIN queue'[t]
              /\ queue'[t][n].id = queue[t][n].id
              /\ queue'[t][n].op = queue[t][n].op
              /\ queue'[t][n].from = queue[t][n].from
              /\ \/ queue'[t][n].status = queue[t][n].status
                 \/ t = s /\ n = op_count[s] + 1 /\ Execute(s)
<1>1. CASE UNCHANGED queue
  BY <1>1 DEF TypeOK
<1>2. CASE Execute(s)
  <2>1. op_count[s] + 1 \in 1..Len(queue[s]) /\ queue[s] \in Seq(Writes)
    BY <1>2, ExecuteFacts DEF TypeOK
  <2>2. Task(s) \in Writes /\ Task(s) = queue[s][op_count[s] + 1]
    BY <2>1 DEF Task
  <2>3. queue'[s][op_count[s] + 1] = [queue[s][op_count[s] + 1] EXCEPT !.status = Outcome(s)]
    BY <1>2, <2>2, ExecuteFacts
  <2>4. /\ queue'[s][op_count[s] + 1].id = queue[s][op_count[s] + 1].id
        /\ queue'[s][op_count[s] + 1].op = queue[s][op_count[s] + 1].op
        /\ queue'[s][op_count[s] + 1].from = queue[s][op_count[s] + 1].from
    BY <2>2, <2>3 DEF Writes
  <2>5. queue' \in [Servers -> Seq(Writes)]
    BY <1>2, ExecuteFacts
  <2>6. \A t \in Servers : DOMAIN queue[t] = 1..Len(queue[t]) /\ DOMAIN queue'[t] = 1..Len(queue'[t])
    BY <2>5 DEF TypeOK
  <2>7. ASSUME NEW t \in Servers, NEW n \in DOMAIN queue[t]
        PROVE  /\ n \in DOMAIN queue'[t]
               /\ queue'[t][n].id = queue[t][n].id
               /\ queue'[t][n].op = queue[t][n].op
               /\ queue'[t][n].from = queue[t][n].from
               /\ \/ queue'[t][n].status = queue[t][n].status
                  \/ t = s /\ n = op_count[s] + 1 /\ Execute(s)
    <3>1. CASE t # s
      BY <1>2, <3>1, ExecuteFacts
    <3>2. CASE t = s /\ n # op_count[s] + 1
      BY <1>2, <2>6, <3>2, ExecuteFacts
    <3>3. CASE t = s /\ n = op_count[s] + 1
      BY <1>2, <2>4, <2>6, <3>3, ExecuteFacts
    <3>. QED BY <3>1, <3>2, <3>3
  <2>. QED BY <2>5, <2>7
<1>3. ASSUME NEW r \in Servers, NEW write \in Writes, Enqueue(r, write)
      PROVE  /\ queue' \in [Servers -> Seq(Writes)]
             /\ \A t \in Servers : \A n \in DOMAIN queue[t] :
                  n \in DOMAIN queue'[t] /\ queue'[t][n] = queue[t][n]
  <2>1. queue' = [queue EXCEPT ![r] = Append(@, write)] /\ queue \in [Servers -> Seq(Writes)]
    BY <1>3 DEF Enqueue, EnqueuePut, EnqueueDel, TypeOK
  <2>2. /\ queue' \in [Servers -> Seq(Writes)]
        /\ \A t \in Servers \ {r} : queue'[t] = queue[t]
        /\ DOMAIN queue'[r] = 1..(Len(queue[r]) + 1)
        /\ \A n \in 1..Len(queue[r]) : queue'[r][n] = queue[r][n]
    BY <2>1, AppendFacts
  <2>3. DOMAIN queue[r] = 1..Len(queue[r]) /\ Len(queue[r]) \in Nat
    BY <2>1
  <2>4. ASSUME NEW t \in Servers, NEW n \in DOMAIN queue[t]
        PROVE  n \in DOMAIN queue'[t] /\ queue'[t][n] = queue[t][n]
    <3>1. CASE t = r
      <4>1. n \in 1..Len(queue[r])
        BY <2>3, <3>1
      <4>2. n \in 1..(Len(queue[r]) + 1)
        BY <2>3, <4>1
      <4>3. n \in DOMAIN queue'[r] /\ queue'[r][n] = queue[r][n]
        BY <2>2, <4>1, <4>2
      <4>. QED BY <3>1, <4>3
    <3>2. CASE t # r
      BY <2>2, <3>2
    <3>. QED BY <3>1, <3>2
  <2>. QED BY <2>2, <2>4
<1>4. CASE ServeClient(s)
  <2>1. Head(inbox[s]) \in Writes /\ Enqueue(s, Head(inbox[s]))
    BY <1>4 DEF ServeClient, TypeOK
  <2>. QED BY <1>3, <2>1
<1>5. CASE ServeReplica(s)
  <2>1. Replica(s) \in Writes /\ peer[s] \in Servers /\ Enqueue(peer[s], Replica(s))
    BY <1>5, ReplicaType DEF ServeReplica
  <2>. QED BY <1>3, <2>1
<1>. QED BY <1>1, <1>2, <1>4, <1>5, StepQueue

LEMMA HoldsStays ==
  ASSUME TypeOK, NEW s \in Servers, Step(s), NEW t \in Servers, NEW id, Holds(t, id)
  PROVE  Holds(t, id)'
BY TasksStay DEF Holds

-----------------------------------------------------------------------------
(* What is finished is on the backup. *)

\* The server of a connection has been started.  While an answer is awaited the
\* connection is still the one that was used, or a new one that begins after the
\* write in question; it is a new one if the write went astray.  A write that was
\* answered is in the other's queue.
Linked(s) ==
  /\ rtreeBack[s] \in Servers => up[rtreeBack[s]] # "off"
  /\ worker[s] \in Waits /\ rtreeBack[s] \in Servers =>
       rtreeBack[s] = peer[s] \/ op_count[s] < since[s]
  /\ worker[s] = "astray" /\ rtreeBack[s] \in Servers => op_count[s] < since[s]
  /\ worker[s] = "answered" => Holds(peer[s], Task(s).id)

OnBackup(p) ==
  rtreeBack[p] \in Servers /\ Alive(rtreeBack[p]) =>
    \A n \in (since[p] + 1)..op_count[p] :
      Done(p, n) => Holds(rtreeBack[p], queue[p][n].id)

LinkInv == TypeOK /\ \A s \in Servers : Linked(s) /\ OnBackup(s)

\* An answer that was given stays true as long as it is the one that is awaited.
LEMMA AnswerStays ==
  ASSUME LinkInv, NEW s \in Servers, Step(s), TypeOK', NEW t \in Servers,
         worker[t] = "answered", op_count'[t] = op_count[t], peer'[t] = peer[t]
  PROVE  Holds(peer[t], Task(t).id)'
<1>1. /\ op_count[t] \in Nat /\ queue[t] \in Seq(Writes) /\ op_count[t] < Len(queue[t])
      /\ peer[t] \in Servers /\ TypeOK /\ Holds(peer[t], Task(t).id)
  BY DEF LinkInv, TypeOK, Linked
<1>2. op_count[t] + 1 \in DOMAIN queue[t]
  BY <1>1
<1>3. queue'[t][op_count[t] + 1].id = queue[t][op_count[t] + 1].id
  BY <1>1, <1>2, TasksStay
<1>4. \E n \in DOMAIN queue'[peer[t]] : queue'[peer[t]][n].id = Task(t).id
  BY <1>1, HoldsStays DEF Holds
<1>. QED BY <1>3, <1>4 DEF Holds, Task

\* What the server's own thread had finished is on the backup still.
LEMMA OnBackupStays ==
  ASSUME LinkInv, NEW s \in Servers, Step(s), TypeOK', NEW t \in Servers,
         rtreeBack[t] \in Servers, up'[rtreeBack[t]] = "up",
         NEW n \in (since[t] + 1)..op_count[t], queue'[t][n].status = "done"
  PROVE  \E m \in DOMAIN queue'[rtreeBack[t]] : queue'[rtreeBack[t]][m].id = queue'[t][n].id
<1>1. /\ op_count[t] \in Nat /\ since[t] \in Nat /\ queue[t] \in Seq(Writes)
      /\ op_count[t] <= Len(queue[t]) /\ TypeOK /\ Linked(t) /\ OnBackup(t)
  BY DEF LinkInv, TypeOK
<1>2. up[rtreeBack[t]] = "up"
  <2>1. up[rtreeBack[t]] # "off" /\ up[rtreeBack[t]] \in {"off", "up"}
    BY <1>1, StepOwner DEF Linked
  <2>. QED BY <2>1
<1>3. n \in DOMAIN queue[t] /\ n # op_count[t] + 1
  BY <1>1
<1>4. queue'[t][n].status = queue[t][n].status /\ queue'[t][n].id = queue[t][n].id
  BY <1>1, <1>3, TasksStay
<1>5. Holds(rtreeBack[t], queue[t][n].id)
  BY <1>1, <1>2, <1>4 DEF OnBackup, Alive, Done
<1>6. \E m \in DOMAIN queue'[rtreeBack[t]] : queue'[rtreeBack[t]][m].id = queue[t][n].id
  <2> DEFINE b == rtreeBack[t]  id == queue[t][n].id
  <2>1. PICK m \in DOMAIN queue[b] : queue[b][m].id = id
    BY <1>5 DEF Holds
  <2>2. m \in DOMAIN queue'[b] /\ queue'[b][m].id = queue[b][m].id
    BY <1>1, <2>1, TasksStay
  <2>. QED BY <2>1, <2>2
<1>. QED BY <1>4, <1>6

\* A step that changes nothing of t but, it may be, the end of its queue.
LEMMA QuietLinked ==
  ASSUME LinkInv, NEW s \in Servers, Step(s), TypeOK', NEW t \in Servers,
         op_count'[t] = op_count[t], worker'[t] = worker[t], peer'[t] = peer[t],
         since'[t] = since[t], rtreeBack'[t] = rtreeBack[t]
  PROVE  Linked(t)' /\ OnBackup(t)'
<1>1. Linked(t) /\ TypeOK
  BY DEF LinkInv
<1>2. rtreeBack'[t] \in Servers => up'[rtreeBack'[t]] # "off"
  BY <1>1, StepOwner DEF Linked
<1>3. /\ worker'[t] \in Waits /\ rtreeBack'[t] \in Servers =>
           rtreeBack'[t] = peer'[t] \/ op_count'[t] < since'[t]
      /\ worker'[t] = "astray" /\ rtreeBack'[t] \in Servers => op_count'[t] < since'[t]
  BY <1>1 DEF Linked
<1>4. worker'[t] = "answered" => Holds(peer[t], Task(t).id)'
  BY AnswerStays
<1>5. OnBackup(t)'
  BY OnBackupStays DEF OnBackup, Alive, Done, Holds
<1>. QED BY <1>2, <1>3, <1>4, <1>5 DEF Linked

\* s has finished a task that failed, or that no living backup had to get, or
\* that its backup has.
LEMMA FinishLinked ==
  ASSUME LinkInv, NEW s \in Servers, Step(s), TypeOK', Finish(s),
         since'[s] = since[s], rtreeBack'[s] = rtreeBack[s],
         worker[s] # "idle" \/ op_count[s] < Len(queue[s]),
         rtreeBack[s] \in Servers /\ up'[rtreeBack[s]] = "up" =>
           \/ op_count[s] < since[s]
           \/ queue'[s][op_count[s] + 1].status # "done"
           \/ Holds(rtreeBack[s], Task(s).id)
  PROVE  Linked(s)' /\ OnBackup(s)'
<1>1. worker'[s] = "idle" /\ op_count'[s] = op_count[s] + 1
  BY FinishType DEF LinkInv
<1>2. rtreeBack'[s] \in Servers => up'[rtreeBack'[s]] # "off"
  BY StepOwner DEF Linked, LinkInv
<1>3. Linked(s)'
  BY <1>1, <1>2 DEF Linked, Waits
<1>4. op_count[s] \in Nat /\ since[s] \in Nat
  BY DEF LinkInv, TypeOK
<1>5. SUFFICES ASSUME rtreeBack[s] \in Servers, up'[rtreeBack[s]] = "up",
                      NEW n \in (since[s] + 1)..(op_count[s] + 1), queue'[s][n].status = "done"
               PROVE  \E m \in DOMAIN queue'[rtreeBack[s]] :
                        queue'[rtreeBack[s]][m].id = queue'[s][n].id
  BY <1>1, <1>3 DEF OnBackup, Alive, Done, Holds
<1>6. CASE n = op_count[s] + 1
  <2>1. ~(op_count[s] < since[s])
    BY <1>4, <1>6
  <2>2. Holds(rtreeBack[s], queue[s][n].id)
    BY <1>5, <1>6, <2>1 DEF Task
  <2>3. n \in DOMAIN queue[s] /\ TypeOK
    <3>1. queue[s] \in Seq(Writes) /\ op_count[s] < Len(queue[s])
      BY DEF LinkInv, TypeOK
    <3>. QED BY <1>4, <1>6, <3>1 DEF LinkInv
  <2>4. queue'[s][n].id = queue[s][n].id
    BY <2>3, TasksStay
  <2>. QED BY <1>5, <2>2, <2>3, <2>4, HoldsStays DEF Holds
<1>7. CASE n # op_count[s] + 1
  <2>1. n \in (since[s] + 1)..op_count[s]
    BY <1>4, <1>7
  <2>. QED BY <1>5, <2>1, OnBackupStays
<1>. QED BY <1>6, <1>7

\* Whatever s does, its own links stay good.
LEMMA OwnLinked ==
  ASSUME LinkInv, NEW s \in Servers, Step(s), TypeOK'
  PROVE  Linked(s)' /\ OnBackup(s)'
<1>0. TypeOK /\ Linked(s) /\ OnBackup(s)
  BY DEF LinkInv
<1>1. ASSUME UNCHANGED <<op_count, worker, peer, since, rtreeBack>> PROVE Linked(s)' /\ OnBackup(s)'
  BY <1>1, QuietLinked
<1>2. CASE \/ Start(s) \/ Launch(s) \/ TakesOver(s) \/ Crash(s) \/ Expire(s)
           \/ ServeClient(s) \/ \E op \in Ops : Request(s, op)
  BY <1>1, <1>2 DEF Start, Launch, TakesOver, Crash, Expire, ServeClient, Request, links
<1>3. CASE Promote(s) \/ SeesBackup(s) \/ SeesNoBackup(s)
  <2>1. rtreeBack'[s] \notin Servers /\ UNCHANGED <<op_count, worker, peer, since>>
    <3>1. /\ UNCHANGED <<op_count, worker, peer, since>>
          /\ rtreeBack' = [rtreeBack EXCEPT ![s] = None] \/ rtreeBack' = [rtreeBack EXCEPT ![s] = Unconnected]
      BY <1>3 DEF Promote, SeesBackup, SeesNoBackup
    <3>. QED BY <1>0, <3>1, ServersFacts DEF TypeOK
  <2>2. worker'[s] = "answered" => Holds(peer[s], Task(s).id)'
    BY <2>1, AnswerStays
  <2>. QED BY <2>1, <2>2 DEF Linked, OnBackup
<1>4. CASE Connect(s)
  <2>1. UNCHANGED <<up, op_count, worker, peer, queue>>
    BY <1>4 DEF Connect, clients
  <2>2. CASE node["backup"] # None /\ Alive(node["backup"])
    <3>1. rtreeBack'[s] = node["backup"] /\ since'[s] = FirstForBackup(s) /\ node["backup"] \in Servers
      BY <1>0, <1>4, <2>2 DEF Connect, TypeOK
    <3>2. op_count[s] \in Nat /\ since'[s] >= op_count[s]
          /\ (worker[s] \notin {"idle", "forward"} => op_count[s] < since'[s])
      <4>1. op_count[s] \in Nat
        BY <1>0 DEF TypeOK
      <4>2. CASE worker[s] \notin {"idle", "forward"}
        BY <3>1, <4>1, <4>2 DEF FirstForBackup
      <4>3. CASE worker[s] \in {"idle", "forward"}
        BY <3>1, <4>1, <4>3 DEF FirstForBackup
      <4>. QED BY <4>2, <4>3
    <3>3. (since'[s] + 1)..op_count[s] = {}
      BY <1>0, <3>1, <3>2 DEF FirstForBackup
    <3>4. worker'[s] = "answered" => Holds(peer[s], Task(s).id)'
      BY <2>1, AnswerStays
    <3>5. up'[rtreeBack'[s]] # "off"
      BY <2>1, <2>2, <3>1 DEF Alive
    <3>. QED BY <2>1, <3>2, <3>3, <3>4, <3>5 DEF Linked, OnBackup, Waits
  <2>3. CASE ~(node["backup"] # None /\ Alive(node["backup"]))
    BY <1>1, <1>4, <2>1, <2>3 DEF Connect
  <2>. QED BY <2>2, <2>3
<1>5. CASE Execute(s)
  <2>1. UNCHANGED <<since, rtreeBack>> /\ worker[s] = "idle" /\ op_count[s] < Len(queue[s])
    BY <1>5 DEF Execute, links
  <2>2. CASE Outcome(s) = "done"
    <3>1. worker'[s] = "forward" /\ op_count'[s] = op_count[s] /\ UNCHANGED up
      BY <1>0, <1>5, <2>2 DEF Execute, TypeOK
    <3>2. OnBackup(s)'
      BY <2>1, <3>1, OnBackupStays DEF OnBackup, Alive, Done, Holds
    <3>. QED BY <1>0, <2>1, <3>1, <3>2 DEF Linked, Waits
  <2>3. CASE Outcome(s) # "done"
    <3>1. queue'[s][op_count[s] + 1].status = "failed"
      <4>1. op_count[s] + 1 \in 1..Len(queue[s]) /\ queue[s] \in Seq(Writes)
        BY <1>0, <1>5, ExecuteFacts DEF TypeOK
      <4>2. Task(s) \in Writes
        BY <4>1 DEF Task
      <4>. QED BY <1>0, <1>5, <2>3, <4>2, ExecuteFacts DEF Writes
    <3>2. Finish(s)
      BY <1>5, <2>3 DEF Execute
    <3>. QED BY <2>1, <3>1, <3>2, FinishLinked
  <2>. QED BY <2>2, <2>3
<1>6. CASE Forward(s)
  <2>1. UNCHANGED <<since, rtreeBack, queue>> /\ worker[s] = "forward"
    BY <1>0, <1>6, ForwardFacts
  <2>2. ASSUME rtreeBack[s] \in Servers, NEW w \in {"asked", "unheard"},
               worker' = [worker EXCEPT ![s] = w], peer' = [peer EXCEPT ![s] = rtreeBack[s]],
               UNCHANGED <<up, op_count>>
        PROVE  Linked(s)' /\ OnBackup(s)'
    <3>1. worker'[s] = w /\ peer'[s] = rtreeBack[s]
      BY <1>0, <2>2 DEF TypeOK
    <3>2. OnBackup(s)'
      BY <2>1, <2>2, <3>1, OnBackupStays DEF OnBackup, Alive, Done, Holds
    <3>. QED BY <1>0, <2>1, <2>2, <3>1, <3>2 DEF Linked
  <2>3. CASE rtreeBack[s] \notin Servers /\ Finish(s)
    BY <2>1, <2>3, FinishLinked
  <2>4. CASE Dies(s) /\ UNCHANGED <<worker, op_count, peer>>
    BY <1>1, <2>1, <2>4
  <2>5. CASE rtreeBack[s] \notin Servers /\ worker' = [worker EXCEPT ![s] = "astray"]
    <3>1. worker'[s] = "astray"
      BY <1>0, <2>5 DEF TypeOK
    <3>. QED BY <2>1, <2>5, <3>1 DEF Linked, OnBackup
  <2>. QED BY <1>0, <1>6, <2>2, <2>3, <2>4, <2>5, ForwardFacts
<1>7. CASE Answered(s)
  <2>1. UNCHANGED <<since, rtreeBack>> /\ worker[s] = "answered" /\ Finish(s)
    BY <1>7 DEF Answered, links
  <2>2. rtreeBack[s] \in Servers => op_count[s] < since[s] \/ Holds(rtreeBack[s], Task(s).id)
    BY <1>0, <2>1 DEF Linked, Waits
  <2>. QED BY <2>1, <2>2, FinishLinked
<1>8. CASE Abandoned(s)
  <2>1. UNCHANGED <<since, rtreeBack, peer>> /\ worker[s] \in Waits /\ up[peer[s]] # "up"
        /\ worker[s] # "idle"
    BY <1>8 DEF Abandoned, Alive, Waits
  <2>2. CASE Dies(s) /\ UNCHANGED <<op_count, worker>>
    BY <1>1, <2>1, <2>2
  <2>3. CASE Finish(s) /\ UNCHANGED <<up, thread, fired, connecting, inbox>>
    <3>1. rtreeBack[s] \in Servers /\ up'[rtreeBack[s]] = "up" => op_count[s] < since[s]
      BY <1>0, <2>1, <2>3 DEF Linked
    <3>. QED BY <2>1, <2>3, <3>1, FinishLinked
  <2>. QED BY <1>8, <2>2, <2>3 DEF Abandoned
<1>10. CASE StrayEnds(s)
  <2>1. UNCHANGED <<since, rtreeBack, peer>> /\ worker[s] = "astray"
    BY <1>0, <1>10, StrayFacts
  <2>2. CASE Dies(s) /\ UNCHANGED <<op_count, worker>>
    BY <1>1, <2>1, <2>2
  <2>3. CASE Finish(s)
    BY <1>0, <2>1, <2>3, FinishLinked DEF Linked
  <2>. QED BY <1>0, <1>10, <2>2, <2>3, StrayFacts
<1>11. CASE Hears(s)
  <2>1. UNCHANGED <<up, since, rtreeBack, op_count, peer, queue>> /\ worker[s] = "unheard"
        /\ worker' = [worker EXCEPT ![s] = "asked"]
    BY <1>11 DEF Hears, links
  <2>2. worker'[s] = "asked"
    BY <1>0, <2>1 DEF TypeOK
  <2>3. OnBackup(s)'
    BY <2>1, OnBackupStays DEF OnBackup, Alive, Done, Holds
  <2>. QED BY <1>0, <2>1, <2>2, <2>3 DEF Linked, Waits
<1>9. CASE ServeReplica(s)
  <2>1. /\ UNCHANGED <<up, since, rtreeBack, op_count, peer>> /\ worker[s] = "asked"
        /\ worker' = [worker EXCEPT ![s] = "answered"]
    BY <1>9 DEF ServeReplica, links
  <2>2. Holds(peer[s], Task(s).id)'
    <3>1. Replica(s) \in Writes /\ Task(s) \in Writes /\ peer[s] \in Servers /\ Enqueue(peer[s], Replica(s))
      BY <1>0, <1>9, ReplicaType DEF ServeReplica
    <3>2. queue' = [queue EXCEPT ![peer[s]] = Append(@, Replica(s))]
          /\ queue \in [Servers -> Seq(Writes)]
      BY <1>0, <3>1 DEF Enqueue, EnqueuePut, EnqueueDel, TypeOK
    <3>3. /\ DOMAIN queue'[peer[s]] = 1..(Len(queue[peer[s]]) + 1) /\ Len(queue[peer[s]]) \in Nat
          /\ queue'[peer[s]][Len(queue[peer[s]]) + 1] = Replica(s)
      BY <3>1, <3>2, AppendFacts
    <3>4. \E n \in DOMAIN queue'[peer[s]] : queue'[peer[s]][n].id = Replica(s).id
      BY <3>3
    <3>5. Replica(s).id = Task(s).id
      BY <3>1 DEF Replica, Writes
    <3>6. op_count[s] + 1 \in DOMAIN queue[s]
      <4>1. op_count[s] \in Nat /\ queue[s] \in Seq(Writes) /\ op_count[s] < Len(queue[s])
        BY <1>0, <2>1 DEF TypeOK
      <4>. QED BY <4>1
    <3>7. queue'[s][op_count[s] + 1].id = Task(s).id
      BY <1>0, <3>6, TasksStay DEF Task
    <3>. QED BY <2>1, <3>4, <3>5, <3>7 DEF Holds, Task
  <2>3. worker'[s] = "answered"
    BY <1>0, <2>1 DEF TypeOK
  <2>4. OnBackup(s)'
    BY <2>1, OnBackupStays DEF OnBackup, Alive, Done, Holds
  <2>. QED BY <1>0, <2>1, <2>2, <2>3, <2>4 DEF Linked, Waits
<1>. QED
  BY <1>2, <1>3, <1>4, <1>5, <1>6, <1>7, <1>8, <1>9, <1>10, <1>11 DEF Step, ChildWatcher, ProcessTask

\* What a server has finished with while it was connected to a backup that still
\* lives is in the backup's queue, whatever became of connections and roles.
THEOREM FinishedCorrect == Spec => []FinishedIsOnBackup
<1>1. Init => LinkInv
  <2>1. Init => TypeOK
    BY BoundsAssumption DEF Init, TypeOK
  <2>2. ASSUME Init, NEW s \in Servers PROVE Linked(s) /\ OnBackup(s)
    BY <2>2, ServersFacts DEF Init, Linked, OnBackup
  <2>. QED BY <2>1, <2>2 DEF LinkInv
<1>2. LinkInv /\ [Next]_vars => LinkInv'
  <2>1. ASSUME LinkInv, Next PROVE LinkInv'
    <3>1. PICK s \in Servers : Step(s)
      BY <2>1 DEF Next, Step
    <3>2. TypeOK'
      BY <2>1, <3>1, StepTypeOK DEF LinkInv
    <3>3. ASSUME NEW t \in Servers PROVE Linked(t)' /\ OnBackup(t)'
      <4>1. CASE t = s
        BY <2>1, <3>1, <3>2, <4>1, OwnLinked
      <4>2. CASE t # s
        BY <2>1, <3>1, <3>2, <4>2, StepOwner, QuietLinked DEF LinkInv
      <4>. QED BY <4>1, <4>2
    <3>. QED BY <3>2, <3>3 DEF LinkInv
  <2>2. ASSUME LinkInv, UNCHANGED vars PROVE LinkInv'
    <3>1. UNCHANGED <<up, thread, role, node, fired, connecting, rtreeBack, since, writes, inbox,
                      queue, op_count, worker, peer, tree>>
      BY <2>2 DEF vars, zoo, links, clients
    <3>2. TypeOK'
      BY <2>2, <3>1 DEF LinkInv, TypeOK
    <3>3. ASSUME NEW t \in Servers PROVE Linked(t)' /\ OnBackup(t)'
      BY <2>2, <3>1 DEF LinkInv, Linked, OnBackup, Holds, Done, Task, Alive
    <3>. QED BY <3>2, <3>3 DEF LinkInv
  <2>. QED BY <2>1, <2>2
<1>3. LinkInv => FinishedIsOnBackup
  BY DEF LinkInv, OnBackup, FinishedIsOnBackup
<1>. QED BY <1>1, <1>2, <1>3, PTL DEF Spec

\* Where a step takes the second thread of s.
LEMMA WorkerStep ==
  ASSUME TypeOK, NEW s \in Servers, Step(s)
  PROVE  \/ UNCHANGED <<worker, op_count, peer>>
         \/ Finish(s) /\ UNCHANGED peer /\ (worker[s] # "idle" \/ Execute(s))
         \/ Execute(s) /\ worker' = [worker EXCEPT ![s] = "forward"] /\ UNCHANGED <<op_count, peer>>
         \/ /\ worker[s] = "forward" /\ rtreeBack[s] \in Servers
            /\ peer' = [peer EXCEPT ![s] = rtreeBack[s]] /\ UNCHANGED op_count
            /\ \E w \in {"asked", "unheard"} : worker' = [worker EXCEPT ![s] = w]
         \/ /\ worker[s] = "forward" /\ worker' = [worker EXCEPT ![s] = "astray"]
            /\ UNCHANGED <<op_count, peer>>
         \/ /\ worker[s] \in {"asked", "unheard"} /\ UNCHANGED <<op_count, peer>>
            /\ \E w \in {"asked", "answered"} : worker' = [worker EXCEPT ![s] = w]
<1>1. CASE Forward(s)
  BY <1>1, ForwardFacts
<1>2. CASE StrayEnds(s)
  BY <1>2, StrayFacts
<1>3. CASE Execute(s) \/ Answered(s) \/ Abandoned(s)
  BY <1>3 DEF Execute, Answered, Abandoned
<1>4. CASE Hears(s) \/ ServeReplica(s)
  BY <1>4 DEF Hears, ServeReplica
<1>5. CASE UNCHANGED <<worker, op_count, peer>>
  BY <1>5
<1>6. \/ Forward(s) \/ StrayEnds(s) \/ Execute(s) \/ Answered(s) \/ Abandoned(s)
      \/ Hears(s) \/ ServeReplica(s) \/ UNCHANGED <<worker, op_count, peer>>
  BY DEF Step, ChildWatcher, ProcessTask, Start, Launch, TakesOver, Crash, Expire, Promote,
         SeesBackup, Connect, SeesNoBackup, Request, ServeClient
<1>. QED BY <1>1, <1>2, <1>3, <1>4, <1>5, <1>6

-----------------------------------------------------------------------------
(* Nothing is invented, doubled or reordered on the way to a backup.  Servers *)
(* send only to servers that become the primary later, if at all, and the     *)
(* servers that have a write form a chain of which only the last has not sent *)
(* it yet.                                                                    *)

\* The primaries come first by name, and connections lead from a server to a later
\* one.
Ordered(s) ==
  /\ up[s] = "off" => role[s] = "none"
  /\ role[s] = "primary" => \A t \in 1..(s - 1) : role[t] = "primary"
  /\ s \in connecting => node["primary"] = s
  /\ rtreeBack[s] \in Servers => s < rtreeBack[s]
  /\ worker[s] \in Waits => s < peer[s]

NodesHaveRoles ==
  /\ node["primary"] # None => role[node["primary"]] = "primary"
  /\ node["backup"] # None => role[node["backup"]] = "backup"

OrderInv == TypeOK /\ NodesHaveRoles /\ \A s \in Servers : Ordered(s)

\* Who has not become the primary is later than all who have.
LEMMA PrimariesFirst ==
  ASSUME OrderInv, NEW s \in Servers, NEW t \in Servers,
         role[s] = "primary", role[t] # "primary"
  PROVE  s < t
<1>1. Servers = 1..N /\ N \in Nat
  BY BoundsAssumption DEF Servers
<1>2. t < s => t \in 1..(s - 1)
  BY <1>1
<1>3. ~(t < s)
  BY <1>2 DEF OrderInv, Ordered
<1>. QED BY <1>1, <1>3

\* A server takes a role when it starts, takes over or is promoted, and becomes the
\* primary only when it is its turn.
LEMMA RoleStep ==
  ASSUME TypeOK, NEW s \in Servers, Step(s)
  PROVE  \/ /\ Start(s) \/ TakesOver(s) \/ Promote(s)
            /\ up'[s] # "off" /\ (Promote(s) \/ up[s] = "off")
            /\ \E r \in {"primary", "backup"} :
                 /\ role' = [role EXCEPT ![s] = r]
                 /\ r = "backup" => Start(s) /\ node' = [node EXCEPT !["backup"] = s]
                 /\ r = "primary" => /\ NextPrimary(s)
                                     /\ \/ Start(s) /\ node' = [node EXCEPT !["primary"] = s]
                                        \/ node' = [primary |-> s, backup |-> None]
         \/ UNCHANGED role /\ ~Start(s) /\ ~TakesOver(s) /\ ~Promote(s)
<1>1. CASE Start(s)
  <2>1. up[s] = "off" /\ up' = [up EXCEPT ![s] = "up"]
    BY <1>1 DEF Start
  <2>2. up'[s] = "up"
    BY <2>1 DEF TypeOK
  <2>3. PICK r \in {"primary", "backup"} :
          /\ r = "primary" => NextPrimary(s)
          /\ node' = [node EXCEPT ![r] = s] /\ role' = [role EXCEPT ![s] = r]
    BY <1>1 DEF Start
  <2>. QED BY <1>1, <2>1, <2>2, <2>3
<1>2. CASE TakesOver(s)
  <2>1. up'[s] = "up"
    BY <1>2 DEF TakesOver, TypeOK
  <2>. QED BY <1>2, <2>1 DEF TakesOver
<1>3. CASE Promote(s)
  BY <1>3 DEF Promote, Told, Alive
<1>4. CASE ~Start(s) /\ ~TakesOver(s) /\ ~Promote(s)
  BY <1>4, ForwardFacts, StrayFacts
  DEF Step, ChildWatcher, ProcessTask, Launch, Hears, Crash, Expire, SeesBackup, Connect,
      SeesNoBackup, Request, ServeClient, Execute, Answered, Abandoned, ServeReplica, zoo
<1>. QED BY <1>1, <1>2, <1>3, <1>4

LEMMA OrderStep ==
  ASSUME OrderInv, NEW s \in Servers, Step(s), TypeOK'
  PROVE  OrderInv'
<1>0. TypeOK /\ NodesHaveRoles /\ Ordered(s) /\ Servers \subseteq Nat /\ Servers = 1..N /\ N \in Nat
  BY BoundsAssumption, ServersFacts DEF OrderInv, Servers
<1>1. \A t \in Servers : up[t] # "off" => up'[t] # "off"
  BY <1>0, StepOwner
<1>2. /\ \A r \in {"primary", "backup"} : node[r] \in Servers \cup {None} /\ None \notin Servers
      /\ role \in [Servers -> {"primary", "backup", "none"}]
  BY <1>0, ServersFacts DEF TypeOK
<1>3. ASSUME NEW r \in {"primary", "backup"}, role' = [role EXCEPT ![s] = r]
      PROVE  role'[s] = r /\ \A t \in Servers \ {s} : role'[t] = role[t]
  BY <1>2, <1>3
<1>4. /\ rtreeBack \in [Servers -> Servers \cup {None, Unconnected}]
      /\ worker \in [Servers -> Places]
      /\ peer \in [Servers -> Servers \cup {None}]
  BY <1>0 DEF TypeOK, Places
<1>5. NodesHaveRoles'
  <2>1. CASE UNCHANGED role
    <3>1. CASE Expire(s)
      <4>1. \A r \in {"primary", "backup"} : node'[r] \in {node[r], None}
        BY <1>0, <3>1 DEF Expire, TypeOK
      <4>. QED BY <1>0, <2>1, <4>1 DEF NodesHaveRoles
    <3>2. CASE UNCHANGED node
      BY <1>0, <2>1, <3>2 DEF NodesHaveRoles
    <3>3. CASE Start(s) \/ TakesOver(s) \/ Promote(s)
      <4>1. PICK r \in {"primary", "backup"} :
              /\ role' = [role EXCEPT ![s] = r]
              /\ r = "backup" => Start(s)
              /\ r = "primary" => NextPrimary(s)
              /\ up[s] = "off" \/ Promote(s)
        BY <1>0, <3>3, RoleStep
      <4>2. role[s] = r
        BY <1>3, <2>1, <4>1
      <4>3. up[s] # "off"
        BY <1>0, <4>2 DEF Ordered
      <4>4. r = "primary"
        BY <4>1, <4>3 DEF Start
      <4>. QED BY <1>0, <4>1, <4>2, <4>4 DEF NextPrimary
    <3>4. Start(s) \/ TakesOver(s) \/ Promote(s) \/ Expire(s) \/ UNCHANGED node
      BY <1>0, ForwardFacts, StrayFacts
      DEF Step, ChildWatcher, ProcessTask, Launch, Hears, Crash, SeesBackup, Connect, SeesNoBackup,
          Request, ServeClient, Execute, Answered, Abandoned, ServeReplica, zoo
    <3>. QED BY <3>1, <3>2, <3>3, <3>4
  <2>2. ASSUME role' = [role EXCEPT ![s] = "backup"], node' = [node EXCEPT !["backup"] = s], up[s] = "off"
        PROVE  NodesHaveRoles'
    <3>1. node'["primary"] = node["primary"] /\ node'["backup"] = s
      BY <1>0, <2>2 DEF TypeOK
    <3>2. node["primary"] # s
      BY <1>0, <1>2, <2>2 DEF NodesHaveRoles, Ordered
    <3>. QED BY <1>0, <1>2, <1>3, <2>2, <3>1, <3>2 DEF NodesHaveRoles
  <2>3. ASSUME role' = [role EXCEPT ![s] = "primary"], node' = [node EXCEPT !["primary"] = s], up[s] = "off"
        PROVE  NodesHaveRoles'
    <3>1. node'["primary"] = s /\ node'["backup"] = node["backup"]
      BY <1>0, <2>3 DEF TypeOK
    <3>2. node["backup"] # s
      BY <1>0, <1>2, <2>3 DEF NodesHaveRoles, Ordered
    <3>. QED BY <1>0, <1>2, <1>3, <2>3, <3>1, <3>2 DEF NodesHaveRoles
  <2>4. ASSUME role' = [role EXCEPT ![s] = "primary"], node' = [primary |-> s, backup |-> None]
        PROVE  NodesHaveRoles'
    BY <1>3, <2>4 DEF NodesHaveRoles
  <2>5. ASSUME NEW r \in {"primary", "backup"},
               role' = [role EXCEPT ![s] = r],
               r = "backup" => Start(s) /\ node' = [node EXCEPT !["backup"] = s],
               r = "primary" => \/ Start(s) /\ node' = [node EXCEPT !["primary"] = s]
                                \/ node' = [primary |-> s, backup |-> None]
        PROVE  NodesHaveRoles'
    BY <2>2, <2>3, <2>4, <2>5 DEF Start
  <2>. QED BY <1>0, <2>1, <2>5, RoleStep
<1>6. ASSUME NEW t \in Servers PROVE Ordered(t)'
  <2>0. Ordered(t)
    BY DEF OrderInv
  <2>1. /\ up'[t] = "off" => role'[t] = "none"
        /\ role'[t] = "primary" => \A x \in 1..(t - 1) : role'[x] = "primary"
    <3>1. \A x \in 1..(t - 1) : x \in Servers
      BY <1>0
    <3>2. CASE UNCHANGED role
      BY <1>1, <2>0, <3>2 DEF Ordered
    <3>3. ASSUME NEW r \in {"primary", "backup"}, role' = [role EXCEPT ![s] = r],
                 up'[s] # "off", r = "primary" => NextPrimary(s),
                 r = "backup" => up[s] = "off"
          PROVE  /\ up'[t] = "off" => role'[t] = "none"
                 /\ role'[t] = "primary" => \A x \in 1..(t - 1) : role'[x] = "primary"
      <4>1. role'[s] = r /\ \A x \in Servers \ {s} : role'[x] = role[x]
        BY <1>3, <3>3
      <4>2. CASE t = s
        <5>1. r = "primary" => \A x \in 1..(s - 1) : x # s /\ role[x] = "primary"
          BY <1>0, <3>1, <3>3, <4>2 DEF NextPrimary
        <5>. QED BY <3>1, <3>3, <4>1, <4>2, <5>1
      <4>3. CASE t # s
        <5>1. \A x \in 1..(t - 1) : role[x] = "primary" => role'[x] = "primary"
          BY <1>0, <3>1, <3>3, <4>1 DEF Ordered
        <5>. QED BY <1>1, <2>0, <4>1, <4>3, <5>1 DEF Ordered
      <4>. QED BY <4>2, <4>3
    <3>4. \/ UNCHANGED role
          \/ /\ up'[s] # "off"
             /\ \E r \in {"primary", "backup"} :
                  /\ role' = [role EXCEPT ![s] = r]
                  /\ r = "primary" => NextPrimary(s)
                  /\ r = "backup" => up[s] = "off"
      BY <1>0, RoleStep DEF Start
    <3>. QED BY <3>2, <3>3, <3>4
  <2>2. t \in connecting' => node'["primary"] = t
    <3>1. CASE Start(s)
      <4>1. PICK r \in {"primary", "backup"} : node[r] = None /\ node' = [node EXCEPT ![r] = s]
        BY <3>1 DEF Start
      <4>2. UNCHANGED connecting
        BY <3>1 DEF Start, links
      <4>3. t \in connecting => node["primary"] = t /\ r # "primary"
        BY <1>2, <2>0, <4>1 DEF Ordered
      <4>4. r # "primary" => node'["primary"] = node["primary"]
        BY <1>0, <4>1 DEF TypeOK
      <4>. QED BY <4>2, <4>3, <4>4
    <3>2. CASE Expire(s)
      BY <1>0, <2>0, <3>2 DEF Ordered, Expire, TypeOK, links
    <3>3. CASE Promote(s) \/ TakesOver(s)
      <4>1. node["primary"] = None /\ UNCHANGED connecting
        BY <3>3 DEF Promote, TakesOver, links
      <4>. QED BY <1>0, <1>2, <2>0, <4>1 DEF Ordered
    <3>4. CASE SeesBackup(s)
      BY <2>0, <3>4 DEF Ordered, SeesBackup
    <3>5. CASE UNCHANGED node /\ connecting' \subseteq connecting
      BY <2>0, <3>5 DEF Ordered
    <3>6. Start(s) \/ Expire(s) \/ Promote(s) \/ TakesOver(s) \/ SeesBackup(s)
          \/ (UNCHANGED node /\ connecting' \subseteq connecting)
      BY <1>0, ForwardFacts, StrayFacts
      DEF Step, ChildWatcher, ProcessTask, Launch, Hears, Crash, Connect, SeesNoBackup, Request, Dies,
          ServeClient, Execute, Answered, Abandoned, ServeReplica, zoo, links
    <3>. QED BY <3>1, <3>2, <3>3, <3>4, <3>5, <3>6
  <2>3. rtreeBack'[t] \in Servers => t < rtreeBack'[t]
    <3>1. CASE t # s
      BY <1>0, <2>0, <3>1, StepOwner DEF Ordered
    <3>2. CASE t = s /\ Connect(s)
      <4>1. node["primary"] = s /\ node["backup"] \in Servers \cup {None}
        BY <1>0, <1>2, <2>0, <3>2 DEF Ordered, Connect
      <4>2. CASE node["backup"] # None /\ Alive(node["backup"])
        <5>1. rtreeBack'[s] = node["backup"]
          BY <1>4, <3>2, <4>2 DEF Connect
        <5>2. s # None /\ node["primary"] < node["backup"]
          <6>1. role[s] = "primary" /\ role[node["backup"]] = "backup" /\ node["backup"] \in Servers
            BY <1>0, <1>2, <4>1, <4>2 DEF NodesHaveRoles
          <6>. QED BY <1>2, <4>1, <6>1, PrimariesFirst
        <5>. QED BY <3>2, <4>1, <5>1, <5>2
      <4>3. CASE ~(node["backup"] # None /\ Alive(node["backup"]))
        <5>1. UNCHANGED rtreeBack
          BY <3>2, <4>3 DEF Connect
        <5>. QED BY <2>0, <5>1 DEF Ordered
      <4>. QED BY <4>2, <4>3
    <3>3. CASE t = s /\ (Promote(s) \/ SeesBackup(s) \/ SeesNoBackup(s))
      <4>1. rtreeBack' = [rtreeBack EXCEPT ![s] = None] \/ rtreeBack' = [rtreeBack EXCEPT ![s] = Unconnected]
        BY <3>3 DEF Promote, SeesBackup, SeesNoBackup
      <4>2. rtreeBack'[s] \in {None, Unconnected}
        BY <1>4, <4>1
      <4>. QED BY <3>3, <4>2, ServersFacts
    <3>4. CASE UNCHANGED rtreeBack
      BY <2>0, <3>4 DEF Ordered
    <3>5. Connect(s) \/ Promote(s) \/ SeesBackup(s) \/ SeesNoBackup(s) \/ UNCHANGED rtreeBack
      BY <1>0, ForwardFacts, StrayFacts
      DEF Step, ChildWatcher, ProcessTask, Start, Launch, TakesOver, Hears, Crash, Expire, Request,
          ServeClient, Execute, Answered, Abandoned, ServeReplica, links
    <3>. QED BY <3>1, <3>2, <3>3, <3>4, <3>5
  <2>4. worker'[t] \in Waits => t < peer'[t]
    <3>1. CASE t # s
      BY <1>0, <2>0, <3>1, StepOwner DEF Ordered
    <3>2. CASE t = s
      <4>1. ASSUME NEW w \in Waits, worker' = [worker EXCEPT ![s] = w], rtreeBack[s] \in Servers,
                   peer' = [peer EXCEPT ![s] = rtreeBack[s]]
            PROVE  s < peer'[s]
        <5>1. peer'[s] = rtreeBack[s]
          BY <1>4, <4>1
        <5>. QED BY <1>0, <4>1, <5>1 DEF Ordered
      <4>2. CASE worker[s] \in Waits /\ UNCHANGED peer
        BY <1>0, <3>2, <4>2 DEF Ordered
      <4>3. ASSUME NEW w \in Places \ Waits, worker' = [worker EXCEPT ![s] = w]
            PROVE  worker'[s] \notin Waits
        BY <1>4, <4>3
      <4>4. CASE UNCHANGED <<worker, peer>>
        BY <1>0, <3>2, <4>4 DEF Ordered
      <4>. QED BY <1>0, <3>2, <4>1, <4>2, <4>3, <4>4, WorkerStep DEF Finish, Places, Waits
    <3>. QED BY <3>1, <3>2
  <2>. QED BY <2>1, <2>2, <2>3, <2>4 DEF Ordered
<1>. QED BY <1>0, <1>5, <1>6 DEF OrderInv

\* s has passed on its n-th task, or will never do so.
Sent(s, n) == n <= op_count[s] \/ (n = op_count[s] + 1 /\ worker[s] = "answered")

LEMMA SentStays ==
  ASSUME TypeOK, NEW s \in Servers, Step(s), NEW t \in Servers, NEW n \in Nat, Sent(t, n)
  PROVE  Sent(t, n)'
<1>1. op_count[t] \in Nat /\ op_count \in [Servers -> Nat]
      /\ worker \in [Servers -> Places]
  BY DEF TypeOK, Places
<1>2. CASE t # s
  BY <1>2, StepOwner DEF Sent
<1>3. CASE UNCHANGED <<op_count, worker>>
  BY <1>3 DEF Sent
<1>4. CASE t = s /\ Finish(s)
  <2>1. op_count'[t] = op_count[t] + 1
    BY <1>1, <1>4 DEF Finish
  <2>. QED BY <1>1, <2>1 DEF Sent
<1>5. CASE t = s /\ worker[s] # "answered" /\ UNCHANGED op_count
  BY <1>5 DEF Sent
<1>6. Finish(s) \/ (worker[s] # "answered" /\ UNCHANGED op_count) \/ UNCHANGED <<op_count, worker>>
  BY WorkerStep DEF Execute
<1>. QED BY <1>2, <1>3, <1>4, <1>5, <1>6

\* The only task a step can add is one at the end of one queue: a client's, or
\* what s sends to a later server.
LEMMA NewTask ==
  ASSUME OrderInv, NEW s \in Servers, Step(s), NEW t \in Servers,
         NEW n \in DOMAIN queue'[t], n \notin DOMAIN queue[t]
  PROVE  /\ n = Len(queue[t]) + 1
         /\ \A x \in Servers \ {t} : queue'[x] = queue[x]
         /\ \/ ServeClient(s) /\ t = s /\ queue'[t][n] = Head(inbox[s])
            \/ ServeReplica(s) /\ t = peer[s] /\ s < t /\ queue'[t][n] = Replica(s)
<1>0. TypeOK /\ queue \in [Servers -> Seq(Writes)]
  BY DEF OrderInv, TypeOK
<1>1. CASE UNCHANGED queue
  BY <1>1
<1>2. CASE Execute(s)
  <2>1. queue' \in [Servers -> Seq(Writes)] /\ \A x \in Servers : Len(queue'[x]) = Len(queue[x])
    BY <1>0, <1>2, ExecuteFacts
  <2>2. DOMAIN queue'[t] = 1..Len(queue'[t]) /\ DOMAIN queue[t] = 1..Len(queue[t])
    BY <1>0, <2>1
  <2>. QED BY <2>1, <2>2
<1>3. ASSUME NEW r \in Servers, NEW write \in Writes, Enqueue(r, write)
      PROVE  /\ n = Len(queue[t]) + 1 /\ t = r /\ queue'[t][n] = write
             /\ \A x \in Servers \ {t} : queue'[x] = queue[x]
  <2>1. queue' = [queue EXCEPT ![r] = Append(@, write)]
    BY <1>3 DEF Enqueue, EnqueuePut, EnqueueDel
  <2>2. /\ \A x \in Servers \ {r} : queue'[x] = queue[x]
        /\ DOMAIN queue'[r] = 1..(Len(queue[r]) + 1)
        /\ queue'[r][Len(queue[r]) + 1] = write
    BY <1>0, <2>1, AppendFacts
  <2>3. t = r
    BY <2>2
  <2>4. DOMAIN queue[t] = 1..Len(queue[t]) /\ Len(queue[t]) \in Nat
    BY <1>0
  <2>5. n \in 1..(Len(queue[t]) + 1) /\ n \notin 1..Len(queue[t])
    BY <2>2, <2>3, <2>4
  <2>6. n = Len(queue[t]) + 1
    BY <2>4, <2>5
  <2>. QED BY <2>2, <2>3, <2>6
<1>4. CASE ServeClient(s)
  <2>1. Head(inbox[s]) \in Writes /\ Enqueue(s, Head(inbox[s]))
    BY <1>0, <1>4 DEF ServeClient, TypeOK
  <2>. QED BY <1>3, <1>4, <2>1
<1>5. CASE ServeReplica(s)
  <2>1. Replica(s) \in Writes /\ peer[s] \in Servers /\ Enqueue(peer[s], Replica(s))
    BY <1>0, <1>5, ReplicaType DEF ServeReplica
  <2>2. s < peer[s]
    BY <1>5 DEF Waits, ServeReplica, OrderInv, Ordered
  <2>. QED BY <1>3, <1>5, <2>1, <2>2
<1>. QED BY <1>0, <1>1, <1>2, <1>4, <1>5, StepQueue

\* The tasks of a queue differ; what a server has not sent yet, no later server
\* has; what it is about to send it has done.
Numbered(s) ==
  /\ \A n \in DOMAIN queue[s] : queue[s][n].id <= writes
  /\ \A m, n \in DOMAIN queue[s] : queue[s][m].id = queue[s][n].id => m = n
  /\ \A n \in DOMAIN queue[s] : \A t \in Servers :
       ~Sent(s, n) /\ s < t => ~Holds(t, queue[s][n].id)
  /\ worker[s] # "idle" => Done(s, op_count[s] + 1)

\* No server has what a client's request asks for.
Fresh(s) ==
  inbox[s] # << >> =>
    /\ Head(inbox[s]).id <= writes /\ Head(inbox[s]).from = s
    /\ \A t \in Servers : /\ ~Holds(t, Head(inbox[s]).id)
                          /\ t # s /\ inbox[t] # << >> => Head(inbox[t]).id # Head(inbox[s]).id

IdInv == OrderInv /\ \A s \in Servers : Numbered(s) /\ Fresh(s)

LEMMA ReplicaFacts ==
  ASSUME IdInv, NEW s \in Servers, ServeReplica(s)
  PROVE  /\ op_count[s] + 1 \in DOMAIN queue[s] /\ ~Sent(s, op_count[s] + 1)
         /\ Done(s, op_count[s] + 1)
         /\ Replica(s).id = queue[s][op_count[s] + 1].id
         /\ Replica(s).op = queue[s][op_count[s] + 1].op
         /\ Replica(s).from = s
         /\ \A n \in Nat : n = op_count[s] + 1 => Sent(s, n)'
<1>1. /\ op_count[s] \in Nat /\ queue[s] \in Seq(Writes) /\ TypeOK /\ worker[s] = "asked"
      /\ worker' = [worker EXCEPT ![s] = "answered"] /\ UNCHANGED op_count
      /\ worker \in [Servers -> Places]
  BY DEF Places, ServeReplica, IdInv, OrderInv, TypeOK
<1>2. op_count[s] < Len(queue[s])
  BY <1>1 DEF TypeOK
<1>3. op_count[s] + 1 \in DOMAIN queue[s]
  BY <1>1, <1>2
<1>4. ~Sent(s, op_count[s] + 1) /\ \A n \in Nat : n = op_count[s] + 1 => Sent(s, n)'
  BY <1>1 DEF Sent
<1>5. Done(s, op_count[s] + 1)
  BY <1>1 DEF IdInv, Numbered
<1>6. queue[s][op_count[s] + 1] \in Writes
  BY <1>1, <1>3
<1>7. /\ Replica(s).id = queue[s][op_count[s] + 1].id
      /\ Replica(s).op = queue[s][op_count[s] + 1].op
      /\ Replica(s).from = s
  BY <1>6 DEF Replica, Task, Writes
<1>. QED BY <1>3, <1>4, <1>5, <1>7

\* A task that is added is new to its server and to all later ones, and whoever
\* has it already has sent it.
LEMMA NewId ==
  ASSUME IdInv, NEW s \in Servers, Step(s), NEW t \in Servers,
         NEW n \in DOMAIN queue'[t], n \notin DOMAIN queue[t]
  PROVE  /\ queue'[t][n].id <= writes
         /\ \A x \in Servers : t <= x => ~Holds(x, queue'[t][n].id)
         /\ \A x \in Servers : \A i \in DOMAIN queue[x] :
              queue[x][i].id = queue'[t][n].id => Sent(x, i)'
<1>0. TypeOK /\ OrderInv /\ Servers \subseteq Nat
  BY ServersFacts DEF IdInv, OrderInv
<1>1. \A x \in Servers : queue[x] \in Seq(Writes)
  BY <1>0 DEF TypeOK
<1>2. CASE ServeClient(s) /\ t = s /\ queue'[t][n] = Head(inbox[s])
  <2>1. Fresh(s) /\ inbox[s] # << >>
    BY <1>2 DEF IdInv, ServeClient
  <2>. QED BY <1>2, <2>1 DEF Fresh, Holds
<1>3. CASE ServeReplica(s) /\ t = peer[s] /\ s < t /\ queue'[t][n] = Replica(s)
  <2> DEFINE k == op_count[s] + 1
  <2>1. k \in DOMAIN queue[s] /\ ~Sent(s, k) /\ queue'[t][n].id = queue[s][k].id
    BY <1>3, ReplicaFacts
  <2>2. Numbered(s)
    BY DEF IdInv
  <2>3. queue'[t][n].id <= writes
    BY <2>1, <2>2 DEF Numbered
  <2>4. \A x \in Servers : s < x => ~Holds(x, queue'[t][n].id)
    BY <2>1, <2>2 DEF Numbered
  <2>5. \A x \in Servers : t <= x => s < x
    BY <1>0, <1>3
  <2>6. ASSUME NEW x \in Servers, NEW i \in DOMAIN queue[x], queue[x][i].id = queue'[t][n].id
        PROVE  Sent(x, i)'
    <3>1. CASE x = s
      <4>1. i = k
        BY <2>1, <2>2, <2>6, <3>1 DEF Numbered
      <4>2. i \in Nat
        BY <1>1
      <4>. QED BY <1>3, <3>1, <4>1, <4>2, ReplicaFacts
    <3>2. CASE s < x
      BY <2>4, <2>6, <3>2 DEF Holds
    <3>3. CASE x < s
      <4>1. Sent(x, i)
        <5>1. Numbered(x) /\ Holds(s, queue[x][i].id)
          BY <2>1, <2>6 DEF IdInv, Holds
        <5>. QED BY <3>3, <5>1 DEF Numbered
      <4>2. i \in Nat
        BY <1>1
      <4>. QED BY <1>0, <4>1, <4>2, SentStays
    <3>. QED BY <1>0, <3>1, <3>2, <3>3
  <2>. QED BY <2>3, <2>4, <2>5, <2>6
<1>. QED BY <1>0, <1>2, <1>3, NewTask

LEMMA WritesFacts == \A write \in Writes : write.id \in Nat
BY BoundsAssumption DEF Writes

LEMMA IdTypes ==
  ASSUME TypeOK
  PROVE  /\ writes \in Nat
         /\ \A s \in Servers :
              /\ queue[s] \in Seq(Writes)
              /\ \A n \in DOMAIN queue[s] : queue[s][n].id \in Nat
              /\ inbox[s] # << >> => Head(inbox[s]).id \in Nat
<1>1. writes \in 0..MaxWrites
  BY DEF TypeOK
<1>2. writes \in Nat
  BY <1>1, BoundsAssumption
<1>3. queue \in [Servers -> Seq(Writes)] /\ inbox \in [Servers -> Seq(Writes)]
  BY DEF TypeOK
<1>4. ASSUME NEW s \in Servers
      PROVE  /\ \A n \in DOMAIN queue[s] : queue[s][n] \in Writes
             /\ inbox[s] # << >> => Head(inbox[s]) \in Writes
  BY <1>3
<1>. QED BY <1>2, <1>3, <1>4, WritesFacts

\* Requests are counted; a request waits in its server's sockets until it is served.
LEMMA InboxStep ==
  ASSUME TypeOK, NEW s \in Servers, Step(s)
  PROVE  \/ /\ \E op \in Ops : Request(s, op)
            /\ writes' = writes + 1 /\ UNCHANGED queue
            /\ Head(inbox'[s]).id = writes' /\ Head(inbox'[s]).from = s
            /\ Head(inbox'[s]).status = "pending"
            /\ \A t \in Servers \ {s} : inbox'[t] = inbox[t]
         \/ /\ writes' = writes
            /\ \A t \in Servers : inbox'[t] = inbox[t] \/ inbox'[t] = << >>
            /\ ServeClient(s) => inbox'[s] = << >>
<1>0. inbox \in [Servers -> Seq(Writes)]
  BY DEF TypeOK
<1>1. ASSUME NEW op \in Ops, Request(s, op)
      PROVE  /\ writes' = writes + 1 /\ UNCHANGED queue
             /\ Head(inbox'[s]).id = writes' /\ Head(inbox'[s]).from = s
             /\ Head(inbox'[s]).status = "pending"
             /\ \A t \in Servers \ {s} : inbox'[t] = inbox[t]
  <2> DEFINE write == [id |-> writes', op |-> op, status |-> "pending", from |-> s]
  <2>1. inbox' = [inbox EXCEPT ![s] = <<write>>] /\ writes' = writes + 1 /\ UNCHANGED queue
    BY <1>1 DEF Request
  <2>2. inbox'[s] = <<write>>
    BY <1>0, <2>1
  <2>3. Head(inbox'[s]) = write
    BY <2>2
  <2>. QED BY <1>0, <2>1, <2>3
<1>2. ASSUME ServeClient(s)
      PROVE  inbox'[s] = << >> /\ writes' = writes /\ \A t \in Servers \ {s} : inbox'[t] = inbox[t]
  BY <1>0, <1>2 DEF ServeClient
<1>3. CASE Crash(s) \/ Abandoned(s) \/ Forward(s) \/ StrayEnds(s)
  <2>1. writes' = writes /\ (inbox' = [inbox EXCEPT ![s] = << >>] \/ UNCHANGED inbox)
    BY <1>3, ForwardFacts, StrayFacts DEF Crash, Abandoned, Dies
  <2>2. ServeClient(s) => inbox'[s] = << >>
    BY <1>2
  <2>. QED BY <1>0, <2>1, <2>2
<1>4. CASE UNCHANGED clients
  <2>1. ServeClient(s) => inbox'[s] = << >>
    BY <1>2
  <2>. QED BY <1>4, <2>1 DEF clients
<1>5. \/ \E op \in Ops : Request(s, op)
      \/ ServeClient(s) \/ Crash(s) \/ Abandoned(s) \/ Forward(s) \/ StrayEnds(s)
      \/ UNCHANGED clients
  BY DEF Step, ChildWatcher, ProcessTask, Start, Launch, TakesOver, Expire, Promote, SeesBackup,
         Connect, SeesNoBackup, Execute, Answered, Hears, ServeReplica
<1>. QED BY <1>1, <1>2, <1>3, <1>4, <1>5

LEMMA FreshStep ==
  ASSUME IdInv, NEW s \in Servers, Step(s), TypeOK', NEW t \in Servers
  PROVE  Fresh(t)'
<1>0. TypeOK /\ OrderInv /\ writes \in Nat /\ \A x \in Servers : Fresh(x) /\ Numbered(x)
  BY IdTypes DEF IdInv, OrderInv
<1>1. CASE writes' = writes + 1 /\ UNCHANGED queue /\ Head(inbox'[s]).id = writes'
           /\ Head(inbox'[s]).from = s /\ \A x \in Servers \ {s} : inbox'[x] = inbox[x]
  <2>1. \A x \in Servers : \A n \in DOMAIN queue[x] : queue[x][n].id <= writes /\ queue[x][n].id \in Nat
    <3>1. ASSUME NEW x \in Servers PROVE \A n \in DOMAIN queue[x] : queue[x][n].id <= writes
      BY <1>0 DEF Numbered
    <3>. QED BY <1>0, <3>1, IdTypes
  <2>2. \A x \in Servers : inbox[x] # << >> =>
          Head(inbox[x]).id <= writes /\ Head(inbox[x]).id \in Nat /\ Head(inbox[x]).from = x
    <3>1. ASSUME NEW x \in Servers, inbox[x] # << >>
          PROVE  Head(inbox[x]).id <= writes /\ Head(inbox[x]).from = x
      BY <1>0, <3>1 DEF Fresh
    <3>. QED BY <1>0, <3>1, IdTypes
  <2>3. \A x \in Servers : ~\E n \in DOMAIN queue[x] : queue[x][n].id = writes'
    BY <1>0, <1>1, <2>1
  <2>4. CASE t = s
    BY <1>0, <1>1, <2>2, <2>3, <2>4 DEF Fresh, Holds
  <2>5. CASE t # s
    BY <1>0, <1>1, <2>2, <2>5 DEF Fresh, Holds
  <2>. QED BY <2>4, <2>5
<1>2. CASE writes' = writes /\ (\A x \in Servers : inbox'[x] = inbox[x] \/ inbox'[x] = << >>)
           /\ (ServeClient(s) => inbox'[s] = << >>)
  <2>1. SUFFICES ASSUME inbox'[t] # << >> PROVE Fresh(t)'
    BY DEF Fresh
  <2>2. inbox'[t] = inbox[t] /\ inbox[t] # << >> /\ (ServeClient(s) => t # s)
    BY <1>2, <2>1
  <2> DEFINE id == Head(inbox[t]).id
  <2>3. /\ id <= writes /\ Head(inbox[t]).from = t
        /\ \A x \in Servers : ~Holds(x, id) /\ (x # t /\ inbox[x] # << >> => Head(inbox[x]).id # id)
    BY <1>0, <2>2 DEF Fresh
  <2>4. ASSUME NEW x \in Servers, NEW n \in DOMAIN queue'[x] PROVE queue'[x][n].id # id
    <3>1. CASE n \in DOMAIN queue[x]
      BY <1>0, <2>3, <3>1, TasksStay DEF Holds
    <3>2. CASE n \notin DOMAIN queue[x] /\ ServeClient(s) /\ queue'[x][n] = Head(inbox[s])
      <4>1. inbox[s] # << >>
        BY <3>2 DEF ServeClient
      <4>. QED BY <2>2, <2>3, <3>2, <4>1
    <3>3. CASE n \notin DOMAIN queue[x] /\ ServeReplica(s) /\ queue'[x][n] = Replica(s)
      <4>1. op_count[s] + 1 \in DOMAIN queue[s] /\ queue'[x][n].id = queue[s][op_count[s] + 1].id
        BY <3>3, ReplicaFacts
      <4>. QED BY <2>3, <4>1 DEF Holds
    <3>. QED BY <1>0, <3>1, <3>2, <3>3, NewTask
  <2>. QED BY <1>2, <2>2, <2>3, <2>4 DEF Fresh, Holds
<1>. QED BY <1>0, <1>1, <1>2, InboxStep

LEMMA NumberedStep ==
  ASSUME IdInv, NEW s \in Servers, Step(s), TypeOK', NEW t \in Servers
  PROVE  Numbered(t)'
<1>0. TypeOK /\ OrderInv /\ Servers \subseteq Nat /\ Numbered(t)
      /\ \A x \in Servers : queue[x] \in Seq(Writes) /\ queue'[x] \in Seq(Writes)
  BY ServersFacts DEF IdInv, OrderInv, TypeOK
<1>1. ASSUME NEW n \in DOMAIN queue'[t] PROVE queue'[t][n].id <= writes'
  <2>1. writes \in Nat /\ (writes' = writes \/ writes' = writes + 1)
    BY <1>0, InboxStep, IdTypes
  <2>2. queue'[t][n].id <= writes
    <3>1. CASE n \in DOMAIN queue[t]
      BY <1>0, <3>1, TasksStay DEF Numbered
    <3>2. CASE n \notin DOMAIN queue[t]
      BY <3>2, NewId
    <3>. QED BY <3>1, <3>2
  <2>3. queue'[t][n].id \in Nat
    <3>1. queue'[t][n] \in Writes
      BY <1>0, <1>1
    <3>. QED BY <3>1, WritesFacts
  <2>. QED BY <2>1, <2>2, <2>3
<1>2. ASSUME NEW m \in DOMAIN queue'[t], NEW n \in DOMAIN queue'[t], queue'[t][m].id = queue'[t][n].id
      PROVE  m = n
  <2>1. CASE m \in DOMAIN queue[t] /\ n \in DOMAIN queue[t]
    BY <1>0, <1>2, <2>1, TasksStay DEF Numbered
  <2>2. ASSUME NEW k \in DOMAIN queue'[t], k \notin DOMAIN queue[t], NEW o \in DOMAIN queue[t]
        PROVE  queue'[t][k].id # queue'[t][o].id
    <3>1. ~Holds(t, queue'[t][k].id)
      BY <1>0, <2>2, NewId
    <3>. QED BY <1>0, <3>1, TasksStay DEF Holds
  <2>3. CASE m \notin DOMAIN queue[t] /\ n \notin DOMAIN queue[t]
    BY <1>0, <2>3, NewTask
  <2>. QED BY <1>2, <2>1, <2>2, <2>3
<1>3. ASSUME NEW n \in DOMAIN queue'[t], NEW x \in Servers, ~Sent(t, n)', t < x
      PROVE  ~\E j \in DOMAIN queue'[x] : queue'[x][j].id = queue'[t][n].id
  <2>1. SUFFICES ASSUME NEW j \in DOMAIN queue'[x], queue'[x][j].id = queue'[t][n].id PROVE FALSE
    OBVIOUS
  <2>2. CASE n \in DOMAIN queue[t] /\ j \in DOMAIN queue[x]
    <3>1. queue[t][n].id = queue[x][j].id
      BY <1>0, <2>1, <2>2, TasksStay
    <3>2. n \in Nat
      BY <1>0
    <3>3. ~Sent(t, n)
      BY <1>0, <1>3, <3>2, SentStays
    <3>. QED BY <1>0, <1>3, <2>2, <3>1, <3>3 DEF Numbered, Holds
  <2>3. CASE n \in DOMAIN queue[t] /\ j \notin DOMAIN queue[x]
    <3>1. queue[t][n].id = queue'[x][j].id
      BY <1>0, <2>1, <2>3, TasksStay
    <3>. QED BY <1>3, <2>3, <3>1, NewId
  <2>4. CASE n \notin DOMAIN queue[t]
    <3>1. j \in DOMAIN queue[x] /\ queue'[x][j] = queue[x][j]
      BY <1>0, <1>3, <2>4, NewTask
    <3>2. ~Holds(x, queue'[t][n].id)
      BY <1>0, <1>3, <2>4, NewId
    <3>. QED BY <2>1, <3>1, <3>2 DEF Holds
  <2>. QED BY <2>2, <2>3, <2>4
<1>4. ASSUME worker'[t] # "idle" PROVE Done(t, op_count[t] + 1)'
  <2>0. /\ worker \in [Servers -> Places]
        /\ op_count \in [Servers -> Nat]
        /\ worker[t] # "idle" => op_count[t] < Len(queue[t])
    BY <1>0 DEF TypeOK, Places
  <2>1. CASE worker[t] # "idle" /\ op_count'[t] = op_count[t] /\ ~(t = s /\ Execute(s))
    <3>1. op_count[t] + 1 \in DOMAIN queue[t]
      BY <1>0, <2>0, <2>1
    <3>2. queue'[t][op_count[t] + 1].status = queue[t][op_count[t] + 1].status
      BY <1>0, <2>1, <3>1, TasksStay
    <3>. QED BY <1>0, <2>1, <3>2 DEF Numbered, Done
  <2>2. CASE t = s /\ Execute(s)
    <3>1. Outcome(s) = "done" /\ op_count' = op_count
      BY <1>4, <2>0, <2>2 DEF Execute, Finish
    <3>2. Task(s) \in Writes
      <4>1. op_count[s] + 1 \in 1..Len(queue[s])
        BY <1>0, <2>2, ExecuteFacts
      <4>. QED BY <1>0, <4>1 DEF Task
    <3>3. queue'[s][op_count[s] + 1].status = "done"
      BY <1>0, <2>2, <3>1, <3>2, ExecuteFacts DEF Writes
    <3>. QED BY <2>2, <3>1, <3>3 DEF Done
  <2>3. CASE t # s
    <3>1. worker'[t] = worker[t] /\ op_count'[t] = op_count[t]
      BY <1>0, <2>3, StepOwner
    <3>. QED BY <1>4, <2>1, <2>3, <3>1
  <2>4. CASE t = s /\ ~Execute(s)
    <3>1. worker' = [worker EXCEPT ![s] = "idle"] \/ (worker[s] # "idle" /\ UNCHANGED op_count)
          \/ UNCHANGED <<worker, op_count>>
      BY <1>0, <2>4, WorkerStep DEF Finish
    <3>2. worker[t] # "idle" /\ op_count'[t] = op_count[t]
      BY <1>4, <2>0, <2>4, <3>1
    <3>. QED BY <2>1, <2>4, <3>2
  <2>. QED BY <2>2, <2>3, <2>4
<1>. QED BY <1>1, <1>2, <1>3, <1>4 DEF Numbered, Holds

\* The n-th task of p is the write that b has as its m-th.
SameWrite(b, m, p, n) == queue[b][m].id = queue[p][n].id

\* What b got from another server, that server has done.
Genuine(b) ==
  \A m \in DOMAIN queue[b] : \A p \in Servers :
    queue[b][m].from = p /\ p # b =>
      /\ p < b
      /\ \E n \in DOMAIN queue[p] :
           SameWrite(b, m, p, n) /\ queue[b][m].op = queue[p][n].op /\ Done(p, n)

\* What b got from p is in the order of p.
InOrder(b) ==
  \A k, m \in DOMAIN queue[b] : \A p \in Servers :
    k < m /\ p # b /\ queue[b][k].from = p /\ queue[b][m].from = p =>
      \A i, j \in DOMAIN queue[p] : SameWrite(b, k, p, i) /\ SameWrite(b, m, p, j) => i < j

ReplicaInv == IdInv /\ \A b \in Servers : Genuine(b) /\ InOrder(b)

LEMMA GenuineStep ==
  ASSUME ReplicaInv, NEW s \in Servers, Step(s), TypeOK', NEW b \in Servers
  PROVE  Genuine(b)'
<1>0. TypeOK /\ OrderInv /\ IdInv /\ Genuine(b) /\ Servers \subseteq Nat
  BY ServersFacts DEF ReplicaInv, IdInv, OrderInv
<1>1. SUFFICES ASSUME NEW m \in DOMAIN queue'[b], NEW p \in Servers,
                      queue'[b][m].from = p, p # b
               PROVE  /\ p < b
                      /\ \E n \in DOMAIN queue'[p] :
                           /\ queue'[b][m].id = queue'[p][n].id
                           /\ queue'[b][m].op = queue'[p][n].op
                           /\ queue'[p][n].status = "done"
  BY DEF Genuine, SameWrite, Done
<1>2. CASE m \in DOMAIN queue[b]
  <2>1. p < b /\ queue[b][m].from = p
    BY <1>0, <1>1, <1>2, TasksStay DEF Genuine
  <2>2. PICK n \in DOMAIN queue[p] :
          SameWrite(b, m, p, n) /\ queue[b][m].op = queue[p][n].op /\ Done(p, n)
    BY <1>0, <1>1, <1>2, <2>1 DEF Genuine
  <2>3. /\ n \in DOMAIN queue'[p] /\ queue'[b][m].id = queue'[p][n].id
        /\ queue'[b][m].op = queue'[p][n].op
    BY <1>0, <1>2, <2>2, TasksStay DEF SameWrite
  <2>4. ~(p = s /\ n = op_count[s] + 1 /\ Execute(s))
    <3>1. Sent(p, n)
      BY <1>2, <2>1, <2>2 DEF ReplicaInv, IdInv, Numbered, Holds, SameWrite
    <3>2. Execute(s) => worker[s] = "idle" /\ op_count[s] \in Nat
      BY <1>0 DEF Execute, TypeOK
    <3>. QED BY <3>1, <3>2 DEF Sent
  <2>5. queue'[p][n].status = "done"
    BY <1>0, <2>2, <2>4, TasksStay DEF Done
  <2>. QED BY <2>1, <2>3, <2>5
<1>3. CASE m \notin DOMAIN queue[b]
  <2>1. CASE ServeClient(s) /\ b = s /\ queue'[b][m] = Head(inbox[s])
    <3>1. Fresh(s) /\ inbox[s] # << >>
      BY <1>0, <2>1 DEF IdInv, ServeClient
    <3>. QED BY <1>1, <2>1, <3>1 DEF Fresh
  <2>2. CASE ServeReplica(s) /\ b = peer[s] /\ s < b /\ queue'[b][m] = Replica(s)
    <3> DEFINE n == op_count[s] + 1
    <3>1. /\ n \in DOMAIN queue[s] /\ Done(s, n) /\ queue'[b][m].id = queue[s][n].id
          /\ queue'[b][m].op = queue[s][n].op /\ p = s
      BY <1>0, <1>1, <2>2, ReplicaFacts
    <3>2. queue'[s] = queue[s]
      BY <1>0, <1>1, <1>3, <3>1, NewTask
    <3>. QED BY <2>2, <3>1, <3>2 DEF Done
  <2>. QED BY <1>0, <1>3, <2>1, <2>2, NewTask
<1>. QED BY <1>2, <1>3

LEMMA InOrderStep ==
  ASSUME ReplicaInv, NEW s \in Servers, Step(s), TypeOK', NEW b \in Servers
  PROVE  InOrder(b)'
<1>0. TypeOK /\ OrderInv /\ IdInv /\ Genuine(b) /\ InOrder(b) /\ Servers \subseteq Nat
      /\ \A x \in Servers : queue[x] \in Seq(Writes) /\ queue'[x] \in Seq(Writes)
  BY ServersFacts DEF ReplicaInv, IdInv, OrderInv, TypeOK
<1>1. SUFFICES ASSUME NEW k \in DOMAIN queue'[b], NEW m \in DOMAIN queue'[b], NEW p \in Servers,
                      k < m, p # b, queue'[b][k].from = p, queue'[b][m].from = p,
                      NEW i \in DOMAIN queue'[p], NEW j \in DOMAIN queue'[p],
                      queue'[b][k].id = queue'[p][i].id, queue'[b][m].id = queue'[p][j].id
               PROVE  i < j
  BY DEF InOrder, SameWrite
<1>2. k \in DOMAIN queue[b]
  <2>1. CASE m \in DOMAIN queue[b]
    BY <1>0, <1>1, <2>1
  <2>2. CASE m \notin DOMAIN queue[b]
    <3>1. m = Len(queue[b]) + 1
      BY <1>0, <2>2, NewTask
    <3>. QED BY <1>0, <1>1, <3>1
  <2>. QED BY <2>1, <2>2
<1>3. p < b /\ queue[b][k].from = p /\ queue'[b][k].id = queue[b][k].id
  <2>1. queue[b][k].from = p /\ queue'[b][k].id = queue[b][k].id
    BY <1>0, <1>1, <1>2, TasksStay
  <2>. QED BY <1>0, <1>1, <1>2, <2>1 DEF Genuine
\* Nothing that b has comes to p any more.
<1>4. ASSUME NEW o \in DOMAIN queue[b], NEW h \in DOMAIN queue'[p], queue[b][o].id = queue'[p][h].id
      PROVE  h \in DOMAIN queue[p] /\ queue'[p][h].id = queue[p][h].id
  <2>1. CASE h \notin DOMAIN queue[p]
    <3>1. ~Holds(b, queue'[p][h].id)
      BY <1>0, <1>3, <2>1, NewId
    <3>. QED BY <1>4, <3>1 DEF Holds
  <2>. QED BY <1>0, <2>1, TasksStay
<1>5. i \in DOMAIN queue[p] /\ queue[b][k].id = queue[p][i].id
  BY <1>1, <1>2, <1>3, <1>4
<1>6. CASE m \in DOMAIN queue[b]
  <2>1. queue[b][m].from = p /\ queue'[b][m].id = queue[b][m].id
    BY <1>0, <1>1, <1>6, TasksStay
  <2>2. j \in DOMAIN queue[p] /\ queue[b][m].id = queue[p][j].id
    BY <1>1, <1>4, <1>6, <2>1
  <2>. QED BY <1>0, <1>1, <1>2, <1>3, <1>5, <1>6, <2>1, <2>2 DEF InOrder, SameWrite
<1>7. CASE m \notin DOMAIN queue[b]
  <2>1. CASE ServeClient(s) /\ b = s /\ queue'[b][m] = Head(inbox[s])
    <3>1. Fresh(s) /\ inbox[s] # << >>
      BY <1>0, <2>1 DEF IdInv, ServeClient
    <3>. QED BY <1>1, <2>1, <3>1 DEF Fresh
  <2>2. CASE ServeReplica(s) /\ b = peer[s] /\ s < b /\ queue'[b][m] = Replica(s)
    <3> DEFINE n == op_count[s] + 1
    <3>1. n \in DOMAIN queue[s] /\ queue'[b][m].id = queue[s][n].id /\ p = s
          /\ worker[s] = "asked" /\ op_count[s] \in Nat
      <4>1. n \in DOMAIN queue[s] /\ queue'[b][m].id = queue[s][n].id /\ p = s
        BY <1>0, <1>1, <2>2, ReplicaFacts
      <4>2. worker[s] = "asked"
        BY <2>2 DEF ServeReplica
      <4>3. op_count[s] \in Nat
        BY <1>0 DEF TypeOK
      <4>. QED BY <4>1, <4>2, <4>3
    <3>2. queue'[p] = queue[p]
      BY <1>0, <1>1, <1>7, NewTask
    <3>3. j = n
      BY <1>0, <1>1, <3>1, <3>2 DEF IdInv, Numbered
    <3>4. Sent(p, i)
      <4>1. Numbered(p)
        BY <1>0 DEF IdInv
      <4>2. Holds(b, queue[p][i].id)
        BY <1>2, <1>5 DEF Holds
      <4>. QED BY <1>3, <1>5, <4>1, <4>2 DEF Numbered
    <3>5. i <= op_count[s] /\ i \in Nat
      <4>1. i \in Nat
        BY <1>0, <1>5
      <4>. QED BY <3>1, <3>4, <4>1 DEF Sent
    <3>. QED BY <3>1, <3>3, <3>5
  <2>. QED BY <1>0, <1>7, <2>1, <2>2, NewTask
<1>. QED BY <1>6, <1>7

\* The place of a task is the only one with its number.
LEMMA ReplicaInvSuffices == ReplicaInv => NothingInvented
<1>1. SUFFICES ASSUME ReplicaInv, NEW b \in Servers, NEW m \in DOMAIN queue[b],
                      NEW p \in Servers, p = queue[b][m].from, p # b
               PROVE  /\ Holds(p, queue[b][m].id)
                      /\ Done(p, Position(p, queue[b][m].id))
                      /\ queue[p][Position(p, queue[b][m].id)].op = queue[b][m].op
                      /\ \A k \in 1..(m - 1) : queue[b][k].from = p =>
                           Position(p, queue[b][k].id) < Position(p, queue[b][m].id)
  <2>1. ASSUME ReplicaInv, NEW b \in Servers, NEW m \in DOMAIN queue[b] PROVE queue[b][m].from \in Servers
    <3>1. queue \in [Servers -> Seq(Writes)]
      BY <2>1 DEF ReplicaInv, IdInv, OrderInv, TypeOK
    <3>2. queue[b][m] \in Writes
      BY <2>1, <3>1
    <3>. QED BY <3>2 DEF Writes
  <2>. QED BY <2>1 DEF NothingInvented
<1>2. Genuine(b) /\ InOrder(b) /\ queue[b] \in Seq(Writes)
      /\ \A i, j \in DOMAIN queue[p] : queue[p][i].id = queue[p][j].id => i = j
  <2>1. TypeOK /\ Numbered(p) /\ Genuine(b) /\ InOrder(b)
    BY <1>1 DEF ReplicaInv, IdInv, OrderInv
  <2>2. queue[b] \in Seq(Writes)
    BY <2>1 DEF TypeOK
  <2>. QED BY <2>1, <2>2 DEF Numbered
<1>3. ASSUME NEW o \in DOMAIN queue[b], queue[b][o].from = p
      PROVE  /\ Position(p, queue[b][o].id) \in DOMAIN queue[p]
             /\ queue[p][Position(p, queue[b][o].id)].id = queue[b][o].id
             /\ queue[p][Position(p, queue[b][o].id)].op = queue[b][o].op
             /\ Done(p, Position(p, queue[b][o].id))
  <2>1. PICK n \in DOMAIN queue[p] :
          queue[p][n].id = queue[b][o].id /\ queue[b][o].op = queue[p][n].op /\ Done(p, n)
    BY <1>1, <1>2, <1>3 DEF Genuine, SameWrite
  <2>2. Position(p, queue[b][o].id) \in DOMAIN queue[p]
        /\ queue[p][Position(p, queue[b][o].id)].id = queue[b][o].id
    BY <2>1 DEF Position
  <2>3. Position(p, queue[b][o].id) = n
    BY <1>2, <2>1, <2>2
  <2>. QED BY <2>1, <2>3
<1>4. ASSUME NEW k \in 1..(m - 1), queue[b][k].from = p
      PROVE  Position(p, queue[b][k].id) < Position(p, queue[b][m].id)
  <2>1. k \in DOMAIN queue[b] /\ k < m
    BY <1>2
  <2>. QED BY <1>1, <1>2, <1>3, <1>4, <2>1 DEF InOrder, SameWrite
<1>5. Holds(p, queue[b][m].id)
  BY <1>1, <1>3 DEF Holds
<1>. QED BY <1>1, <1>3, <1>4, <1>5

\* Servers send only to later ones, and what came from another server that server
\* has done, in the same order.
THEOREM ReplicaInvariant == Spec => []ReplicaInv
<1>1. Init => ReplicaInv
  <2>1. Init => TypeOK
    BY BoundsAssumption DEF Init, TypeOK
  <2>2. ASSUME Init PROVE /\ NodesHaveRoles
                          /\ \A s \in Servers : Ordered(s) /\ Numbered(s) /\ Fresh(s) /\ Genuine(s) /\ InOrder(s)
    <3>1. \A s \in Servers : DOMAIN queue[s] = {} /\ inbox[s] = << >> /\ worker[s] = "idle"
      BY <2>2 DEF Init
    <3>2. NodesHaveRoles /\ \A s \in Servers : Ordered(s)
      BY <2>2, ServersFacts DEF Init, Waits, NodesHaveRoles, Ordered
    <3>. QED BY <3>1, <3>2 DEF Numbered, Fresh, Genuine, InOrder
  <2>. QED BY <2>1, <2>2 DEF ReplicaInv, IdInv, OrderInv
<1>2. ReplicaInv /\ [Next]_vars => ReplicaInv'
  <2>1. ASSUME ReplicaInv, Next PROVE ReplicaInv'
    <3>1. PICK s \in Servers : Step(s)
      BY <2>1 DEF Next, Step
    <3>2. IdInv /\ OrderInv /\ TypeOK
      BY <2>1 DEF ReplicaInv, IdInv, OrderInv
    <3>3. TypeOK'
      BY <3>1, <3>2, StepTypeOK
    <3>4. OrderInv'
      BY <3>1, <3>2, <3>3, OrderStep
    <3>5. \A t \in Servers : Numbered(t)' /\ Fresh(t)'
      BY <3>1, <3>2, <3>3, NumberedStep, FreshStep
    <3>6. \A t \in Servers : Genuine(t)' /\ InOrder(t)'
      BY <2>1, <3>1, <3>3, GenuineStep, InOrderStep
    <3>. QED BY <3>4, <3>5, <3>6 DEF ReplicaInv, IdInv
  <2>2. ASSUME ReplicaInv, UNCHANGED vars PROVE ReplicaInv'
    <3>1. UNCHANGED <<up, thread, role, node, fired, connecting, rtreeBack, since, writes, inbox, queue,
                      op_count, worker, peer, tree>>
      BY <2>2 DEF vars, zoo, links, clients
    <3>2. OrderInv'
      BY <2>2, <3>1 DEF ReplicaInv, IdInv, OrderInv, TypeOK, NodesHaveRoles, Ordered
    <3>3. ASSUME NEW t \in Servers PROVE Numbered(t)' /\ Fresh(t)' /\ Genuine(t)' /\ InOrder(t)'
      BY <2>2, <3>1 DEF ReplicaInv, IdInv, Numbered, Fresh, Genuine, InOrder, Sent, Holds, Done, SameWrite
    <3>. QED BY <3>2, <3>3 DEF ReplicaInv, IdInv
  <2>. QED BY <2>1, <2>2
<1>. QED BY <1>1, <1>2, PTL DEF Spec

\* A backup gets only what its sender has done, each write once, and in the order
\* in which the sender has done them.
THEOREM ReplicationCorrect == Spec => []NothingInvented
BY ReplicaInvariant, ReplicaInvSuffices, PTL

-----------------------------------------------------------------------------
(* A backup that follows its primary has the same tree after the same writes. *)
(* The tree of every server is what it has done, in order; the m-th task of a *)
(* follower is the m-th that changed the tree of its primary.                 *)

\* The number of tasks s has carried out: all it has counted and the one in work.
Carried(s) == op_count[s] + IF worker[s] = "idle" THEN 0 ELSE 1

\* Only what was not carried out is pending.
Pending(s) ==
  /\ inbox[s] # << >> => Head(inbox[s]).status = "pending"
  /\ \A n \in DOMAIN queue[s] : queue[s][n].status = "pending" <=> Carried(s) < n

LEMMA CarriedStep ==
  ASSUME TypeOK, NEW s \in Servers, Step(s), NEW t \in Servers
  PROVE  /\ Carried(t) \in Nat /\ Carried(t) <= Len(queue[t])
         /\ t = s /\ Execute(s) => Carried(t) = op_count[s] /\ Carried(t)' = op_count[s] + 1
         /\ ~(t = s /\ Execute(s)) => Carried(t)' = Carried(t)
<1>0. /\ op_count \in [Servers -> Nat]
      /\ worker \in [Servers -> Places]
      /\ queue[t] \in Seq(Writes)
      /\ op_count[t] <= Len(queue[t]) /\ (worker[t] # "idle" => op_count[t] < Len(queue[t]))
  BY DEF TypeOK, Places
<1>1. Carried(t) \in Nat /\ Carried(t) <= Len(queue[t])
  BY <1>0 DEF Carried
<1>2. CASE t = s /\ Execute(s)
  <2>1. worker[s] = "idle"
    BY <1>2 DEF Execute
  <2>2. CASE Outcome(s) = "done"
    <3>1. worker' = [worker EXCEPT ![s] = "forward"] /\ UNCHANGED op_count
      BY <1>2, <2>2 DEF Execute
    <3>. QED BY <1>0, <1>1, <1>2, <2>1, <3>1 DEF Carried
  <2>3. CASE Outcome(s) # "done"
    <3>1. Finish(s)
      BY <1>2, <2>3 DEF Execute
    <3>. QED BY <1>0, <1>1, <1>2, <2>1, <3>1 DEF Carried, Finish
  <2>. QED BY <2>2, <2>3
<1>3. CASE t # s
  BY <1>1, <1>3, StepOwner DEF Carried
<1>4. CASE t = s /\ ~Execute(s)
  <2>1. \/ worker[s] # "idle" /\ Finish(s)
        \/ worker[s] # "idle" /\ UNCHANGED op_count
             /\ \E w \in Places \ {"idle"} : worker' = [worker EXCEPT ![s] = w]
        \/ UNCHANGED <<worker, op_count>>
    BY <1>4, WorkerStep DEF Places
  <2>2. CASE worker[s] # "idle" /\ Finish(s)
    BY <1>0, <1>1, <1>4, <2>2 DEF Carried, Finish
  <2>3. ASSUME worker[s] # "idle", UNCHANGED op_count,
               NEW w \in Places \ {"idle"}, worker' = [worker EXCEPT ![s] = w]
        PROVE  Carried(t)' = Carried(t)
    BY <1>0, <1>4, <2>3 DEF Carried
  <2>4. ASSUME UNCHANGED <<worker, op_count>> PROVE Carried(t)' = Carried(t)
    BY <2>4 DEF Carried
  <2>. QED BY <1>1, <1>4, <2>1, <2>2, <2>3, <2>4
<1>. QED BY <1>1, <1>2, <1>3, <1>4

\* What is added to a queue is pending.
LEMMA AddedIsPending ==
  ASSUME OrderInv, NEW s \in Servers, Step(s), TypeOK', NEW t \in Servers, Pending(s), Pending(t),
         NEW n \in DOMAIN queue'[t], n \notin DOMAIN queue[t]
  PROVE  queue'[t][n].status = "pending"
<1>1. TypeOK
  BY DEF OrderInv
<1>. QED
  <2>1. CASE ServeClient(s) /\ queue'[t][n] = Head(inbox[s])
    <3>1. inbox[s] # << >>
      BY <2>1 DEF ServeClient
    <3>. QED BY <2>1, <3>1 DEF Pending
  <2>2. CASE ServeReplica(s) /\ queue'[t][n] = Replica(s)
    <3>1. Task(s) \in Writes
      BY <1>1, <2>2, ReplicaType
    <3>. QED BY <2>2, <3>1 DEF Replica, Writes
  <2>. QED BY <2>1, <2>2, NewTask

LEMMA PendingStep ==
  ASSUME OrderInv, NEW s \in Servers, Step(s), TypeOK', NEW t \in Servers, Pending(s), Pending(t)
  PROVE  Pending(t)'
<1>0. TypeOK /\ queue[t] \in Seq(Writes) /\ op_count[s] \in Nat
  BY DEF OrderInv, TypeOK
<1>1. inbox'[t] # << >> => Head(inbox'[t]).status = "pending"
  BY <1>0, InboxStep DEF Pending
<1>2. ASSUME NEW n \in DOMAIN queue'[t]
      PROVE  queue'[t][n].status = "pending" <=> Carried(t)' < n
  <2>0. Carried(t) \in Nat /\ Carried(t) <= Len(queue[t])
    BY <1>0, CarriedStep
  <2>1. CASE n \in DOMAIN queue[t] /\ t = s /\ Execute(s)
    <3>1. Carried(t) = op_count[s] /\ Carried(t)' = op_count[s] + 1 /\ n \in Nat
      BY <1>0, <2>1, CarriedStep
    <3>2. CASE n = op_count[s] + 1
      <4>1. Task(s) \in Writes
        <5>1. op_count[s] + 1 \in 1..Len(queue[s])
          BY <1>0, <2>1, ExecuteFacts
        <5>. QED BY <1>0, <2>1, <5>1 DEF Task
      <4>2. queue'[t][n].status = Outcome(s) /\ Outcome(s) \in {"done", "failed"}
        BY <1>0, <2>1, <3>2, <4>1, ExecuteFacts DEF Writes
      <4>. QED BY <3>1, <3>2, <4>2
    <3>3. CASE n # op_count[s] + 1
      <4>1. queue'[t][n].status = queue[t][n].status
        BY <1>0, <2>1, <3>3, TasksStay
      <4>2. Carried(t)' < n <=> Carried(t) < n
        BY <1>0, <3>1, <3>3
      <4>. QED BY <2>1, <4>1, <4>2 DEF Pending
    <3>. QED BY <3>2, <3>3
  <2>2. CASE n \in DOMAIN queue[t] /\ ~(t = s /\ Execute(s))
    <3>1. queue'[t][n].status = queue[t][n].status
      BY <1>0, <2>2, TasksStay
    <3>2. Carried(t)' = Carried(t)
      BY <1>0, <2>2, CarriedStep
    <3>. QED BY <2>2, <3>1, <3>2 DEF Pending
  <2>3. CASE n \notin DOMAIN queue[t]
    <3>1. n = Len(queue[t]) + 1
      BY <2>3, NewTask
    <3>2. Carried(t)' < n
      <4>1. CASE t = s /\ Execute(s)
        <5>1. Carried(t)' = op_count[s] + 1 /\ op_count[s] < Len(queue[s])
          BY <1>0, <4>1, CarriedStep DEF Execute
        <5>. QED BY <1>0, <3>1, <4>1, <5>1
      <4>2. CASE ~(t = s /\ Execute(s))
        <5>1. Carried(t)' = Carried(t)
          BY <1>0, <4>2, CarriedStep
        <5>. QED BY <1>0, <2>0, <3>1, <5>1
      <4>. QED BY <4>1, <4>2
    <3>. QED BY <2>3, <3>2, AddedIsPending
  <2>. QED BY <2>1, <2>2, <2>3
<1>. QED BY <1>1, <1>2 DEF Pending

\* The tree of s: the numbers of what it has done, in order, and no delete among
\* them found its key missing.
OpsBefore(s, k) == [i \in 1..(k - 1) |-> queue[s][tree[s][i]].op]

TreeOf(s) ==
  /\ \A k \in DOMAIN tree[s] : tree[s][k] \in DOMAIN queue[s] /\ Done(s, tree[s][k])
  /\ \A n \in DOMAIN queue[s] : Done(s, n) => \E k \in DOMAIN tree[s] : tree[s][k] = n
  /\ \A j, k \in DOMAIN tree[s] : j < k => tree[s][j] < tree[s][k]
  /\ \A k \in DOMAIN tree[s] : queue[s][tree[s][k]].op = "put" \/ KeyFound(OpsBefore(s, k))

NoneFailed(s) == \A n \in DOMAIN queue[s] : queue[s][n].status # "failed"

\* Where nothing has failed, the tree has had every task that was carried out.
Unfailed(s) ==
  NoneFailed(s) => Len(tree[s]) = Carried(s) /\ \A k \in DOMAIN tree[s] : tree[s][k] = k

\* s applies a write to its tree in this step.
Applies(s) == Execute(s) /\ Outcome(s) = "done"

LEMMA TreeStep ==
  ASSUME TypeOK, NEW s \in Servers, Step(s), NEW t \in Servers
  PROVE  /\ t = s /\ Applies(s) => tree'[t] = Append(tree[t], op_count[s] + 1)
         /\ ~(t = s /\ Applies(s)) => tree'[t] = tree[t]
<1>0. tree \in [Servers -> Seq(Nat)]
  BY DEF TypeOK
<1>1. CASE Execute(s) /\ Outcome(s) = "done"
  <2>1. tree' = [tree EXCEPT ![s] = Append(@, op_count[s] + 1)]
    BY <1>1 DEF Execute, Apply
  <2>. QED BY <1>0, <1>1, <2>1 DEF Applies
<1>2. CASE Execute(s) /\ Outcome(s) # "done"
  BY <1>2 DEF Execute, Apply, Applies
<1>3. CASE ~Execute(s)
  <2>1. UNCHANGED tree
    BY <1>3, ForwardFacts, StrayFacts
    DEF Step, ChildWatcher, ProcessTask, Start, Launch, TakesOver, Crash, Expire, Promote, SeesBackup,
        Connect, SeesNoBackup, Request, ServeClient, Answered, Abandoned, Hears, ServeReplica
  <2>. QED BY <1>3, <2>1 DEF Applies
<1>. QED BY <1>1, <1>2, <1>3

\* What becomes done was pending, and is the task that s applies.
LEMMA DoneStep ==
  ASSUME TypeOK, NEW s \in Servers, Step(s), NEW t \in Servers, Pending(t),
         NEW n \in DOMAIN queue[t]
  PROVE  /\ n \in DOMAIN queue'[t]
         /\ queue'[t][n].status = "done" <=> (Done(t, n) \/ (t = s /\ Applies(s) /\ n = op_count[s] + 1))
         /\ Done(t, n) => n <= Carried(t)
         /\ queue[t][n].status = "failed" => queue'[t][n].status = "failed"
         /\ t = s /\ Execute(s) /\ Outcome(s) # "done" /\ n = op_count[s] + 1 =>
              queue'[t][n].status = "failed"
<1>0. queue[t] \in Seq(Writes) /\ n \in Nat /\ Carried(t) \in Nat /\ op_count[s] \in Nat
  <2>1. Carried(t) \in Nat
    BY CarriedStep
  <2>2. queue[t] \in Seq(Writes) /\ op_count[s] \in Nat
    BY DEF TypeOK
  <2>3. n \in Nat
    BY <2>2
  <2>. QED BY <2>1, <2>2, <2>3
<1>1. n \in DOMAIN queue'[t]
  BY TasksStay
<1>2. queue[t][n].status = "pending" <=> Carried(t) < n
  BY DEF Pending
<1>3. Done(t, n) => n <= Carried(t)
  BY <1>0, <1>2 DEF Done
<1>4. CASE t = s /\ Execute(s) /\ n = op_count[s] + 1
  <2>1. Task(s) \in Writes
    BY <1>0, <1>4 DEF Task
  <2>2. queue'[t][n].status = Outcome(s) /\ Outcome(s) \in {"done", "failed"}
    BY <1>4, <2>1, ExecuteFacts DEF Writes
  <2>3. Carried(t) < n
    BY <1>0, <1>4, CarriedStep
  <2>. QED BY <1>1, <1>2, <1>3, <1>4, <2>2, <2>3 DEF Done, Applies
<1>5. CASE ~(t = s /\ Execute(s) /\ n = op_count[s] + 1)
  <2>1. queue'[t][n].status = queue[t][n].status
    BY <1>5, TasksStay
  <2>. QED BY <1>1, <1>3, <1>5, <2>1 DEF Done, Applies
<1>. QED BY <1>4, <1>5

LEMMA OutcomeFound ==
  ASSUME NEW s \in Servers, Outcome(s) = "done"
  PROVE  Task(s).op = "put" \/ KeyFound(Applied(s))
BY DEF Outcome

LEMMA TreeOfStep ==
  ASSUME OrderInv, NEW s \in Servers, Step(s), TypeOK', NEW t \in Servers, Pending(s), Pending(t),
         TreeOf(t)
  PROVE  TreeOf(t)'
<1> DEFINE done == op_count[s] + 1
           len == Len(tree[t])
<1>0. /\ TypeOK /\ queue[t] \in Seq(Writes) /\ op_count[s] \in Nat
      /\ tree[t] \in Seq(Nat) /\ DOMAIN tree[t] = 1..len /\ len \in Nat
  <2>1. TypeOK
    BY DEF OrderInv
  <2>2. queue[t] \in Seq(Writes) /\ op_count[s] \in Nat /\ tree[t] \in Seq(Nat)
    BY <2>1 DEF TypeOK
  <2>. QED BY <2>1, <2>2
\* What was in the tree is there still, and nothing in it changes.
<1>1. ASSUME NEW k \in DOMAIN tree[t]
      PROVE  /\ k \in DOMAIN tree'[t] /\ tree'[t][k] = tree[t][k]
             /\ tree[t][k] \in DOMAIN queue[t] /\ tree[t][k] \in DOMAIN queue'[t]
             /\ queue'[t][tree[t][k]].status = "done"
             /\ queue'[t][tree'[t][k]].op = queue[t][tree[t][k]].op
  <2>1. tree[t][k] \in DOMAIN queue[t] /\ Done(t, tree[t][k])
    BY DEF TreeOf
  <2>2. tree[t][k] \in DOMAIN queue'[t] /\ queue'[t][tree[t][k]].op = queue[t][tree[t][k]].op
    BY <1>0, <2>1, TasksStay
  <2>3. queue'[t][tree[t][k]].status = "done"
    BY <1>0, <2>1, DoneStep
  <2>4. k \in DOMAIN tree'[t] /\ tree'[t][k] = tree[t][k]
    <3>1. CASE t = s /\ Applies(s)
      <4>1. tree'[t] = Append(tree[t], done)
        BY <1>0, <3>1, TreeStep
      <4>. QED BY <1>0, <4>1
    <3>2. CASE ~(t = s /\ Applies(s))
      <4>1. tree'[t] = tree[t]
        BY <1>0, <3>2, TreeStep
      <4>. QED BY <4>1
    <3>. QED BY <3>1, <3>2
  <2>. QED BY <2>1, <2>2, <2>3, <2>4
\* What is new is what s applies.
<1>2. ASSUME NEW k \in DOMAIN tree'[t], k \notin DOMAIN tree[t]
      PROVE  t = s /\ Applies(s) /\ k = len + 1 /\ tree'[t][k] = done
  <2>1. t = s /\ Applies(s)
    BY <1>0, <1>2, TreeStep
  <2>2. tree'[t] = Append(tree[t], done)
    BY <1>0, <2>1, TreeStep
  <2>3. DOMAIN tree'[t] = 1..(len + 1) /\ tree'[t][len + 1] = done
    BY <1>0, <2>2
  <2>4. k = len + 1
    BY <1>0, <1>2, <2>3
  <2>. QED BY <2>1, <2>3, <2>4
<1>3. ASSUME t = s, Applies(s)
      PROVE  /\ done \in DOMAIN queue[t] /\ done \in DOMAIN queue'[t] /\ queue'[t][done].status = "done"
             /\ queue'[t][done].op = Task(s).op /\ Carried(t) < done
             /\ len + 1 \in DOMAIN tree'[t] /\ tree'[t][len + 1] = done
  <2>1. done \in DOMAIN queue[t]
    <3>1. done \in 1..Len(queue[s])
      BY <1>0, <1>3, ExecuteFacts DEF Applies
    <3>. QED BY <1>0, <1>3, <3>1
  <2>2. done \in DOMAIN queue'[t] /\ queue'[t][done].status = "done"
    BY <1>0, <1>3, <2>1, DoneStep
  <2>3. queue'[t][done].op = Task(s).op
    BY <1>0, <1>3, <2>1, TasksStay DEF Task
  <2>4. Carried(t) < done
    <3>1. Carried(t) = op_count[s]
      BY <1>0, <1>3, CarriedStep DEF Applies
    <3>. QED BY <1>0, <3>1
  <2>5. tree'[t] = Append(tree[t], done)
    BY <1>0, <1>3, TreeStep
  <2>6. len + 1 \in DOMAIN tree'[t] /\ tree'[t][len + 1] = done
    BY <1>0, <2>5
  <2>. QED BY <2>1, <2>2, <2>3, <2>4, <2>6
<1> HIDE DEF done, len
<1>4. ASSUME NEW k \in DOMAIN tree'[t] PROVE tree'[t][k] \in DOMAIN queue'[t] /\ queue'[t][tree'[t][k]].status = "done"
  <2>1. CASE k \in DOMAIN tree[t]
    <3>1. tree'[t][k] = tree[t][k] /\ tree[t][k] \in DOMAIN queue'[t] /\ queue'[t][tree[t][k]].status = "done"
      BY <1>1, <2>1
    <3>. QED BY <3>1
  <2>2. CASE k \notin DOMAIN tree[t]
    <3>1. tree'[t][k] = done /\ done \in DOMAIN queue'[t] /\ queue'[t][done].status = "done"
      BY <1>2, <1>3, <2>2
    <3>. QED BY <3>1
  <2>. QED BY <2>1, <2>2
<1>5. ASSUME NEW n \in DOMAIN queue'[t], queue'[t][n].status = "done" PROVE \E k \in DOMAIN tree'[t] : tree'[t][k] = n
  <2>1. n \in DOMAIN queue[t]
    BY <1>0, <1>5, AddedIsPending
  <2>2. Done(t, n) \/ (t = s /\ Applies(s) /\ n = done)
    BY <1>0, <1>5, <2>1, DoneStep DEF done
  <2>3. CASE Done(t, n)
    <3>1. PICK k \in DOMAIN tree[t] : tree[t][k] = n
      BY <2>1, <2>3 DEF TreeOf
    <3>. QED BY <1>1, <3>1
  <2>4. CASE t = s /\ Applies(s) /\ n = done
    BY <1>3, <2>4
  <2>. QED BY <2>2, <2>3, <2>4
<1>6. ASSUME NEW j \in DOMAIN tree'[t], NEW k \in DOMAIN tree'[t], j < k
      PROVE  tree'[t][j] < tree'[t][k]
  <2>1. tree'[t] \in Seq(Nat) /\ j \in Nat /\ k \in Nat
    <3>1. tree'[t] \in Seq(Nat)
      BY DEF TypeOK
    <3>. QED BY <3>1
  <2>2. CASE k \in DOMAIN tree[t]
    <3>1. j \in DOMAIN tree[t]
      BY <1>0, <1>2, <1>6, <2>1, <2>2
    <3>2. tree[t][j] < tree[t][k]
      BY <1>6, <2>2, <3>1 DEF TreeOf
    <3>. QED BY <1>1, <2>2, <3>1, <3>2
  <2>3. CASE k \notin DOMAIN tree[t]
    <3>1. t = s /\ Applies(s) /\ k = len + 1 /\ tree'[t][k] = done
      BY <1>2, <2>3
    <3>2. j \in DOMAIN tree[t]
      BY <1>0, <1>2, <1>6, <2>1, <3>1
    <3>3. tree[t][j] \in DOMAIN queue[t] /\ Done(t, tree[t][j])
      BY <3>2 DEF TreeOf
    <3>4. tree[t][j] <= Carried(t) /\ tree[t][j] \in Nat /\ Carried(t) \in Nat /\ done \in Nat
      <4>1. tree[t][j] <= Carried(t)
        BY <1>0, <3>3, DoneStep
      <4>2. Carried(t) \in Nat
        BY <1>0, CarriedStep
      <4>3. tree[t][j] \in Nat
        BY <1>0, <3>2
      <4>. QED BY <1>0, <4>1, <4>2, <4>3 DEF done
    <3>5. Carried(t) < done
      BY <1>3, <3>1
    <3>6. tree'[t][j] = tree[t][j]
      BY <1>1, <3>2
    <3>. QED BY <3>1, <3>4, <3>5, <3>6
  <2>. QED BY <2>2, <2>3
<1>7. ASSUME NEW k \in DOMAIN tree'[t]
      PROVE  queue'[t][tree'[t][k]].op = "put" \/ KeyFound([i \in 1..(k - 1) |-> queue'[t][tree'[t][i]].op])
  <2>1. CASE k \in DOMAIN tree[t]
    <3>1. \A i \in 1..(k - 1) : i \in DOMAIN tree[t]
      BY <1>0, <2>1
    <3>2. [i \in 1..(k - 1) |-> queue'[t][tree'[t][i]].op] = OpsBefore(t, k)
      BY <1>1, <3>1 DEF OpsBefore
    <3>3. queue[t][tree[t][k]].op = "put" \/ KeyFound(OpsBefore(t, k))
      BY <2>1 DEF TreeOf
    <3>4. queue'[t][tree'[t][k]].op = queue[t][tree[t][k]].op
      BY <1>1, <2>1
    <3>. QED BY <3>2, <3>3, <3>4
  <2>2. CASE k \notin DOMAIN tree[t]
    <3>1. t = s /\ Applies(s) /\ k = len + 1 /\ tree'[t][k] = done
      BY <1>2, <2>2
    <3>2. queue'[t][done].op = Task(s).op
      BY <1>3, <3>1
    <3>3. 1..(k - 1) = DOMAIN tree[t]
      BY <1>0, <3>1
    <3>4. [i \in 1..(k - 1) |-> queue'[t][tree'[t][i]].op] = Applied(s)
      BY <1>1, <3>1, <3>3 DEF Applied
    <3>5. Task(s).op = "put" \/ KeyFound(Applied(s))
      BY <3>1, OutcomeFound DEF Applies
    <3>. QED BY <3>1, <3>2, <3>4, <3>5
  <2>. QED BY <2>1, <2>2
<1>. QED BY <1>4, <1>5, <1>6, <1>7 DEF TreeOf, OpsBefore, Done

LEMMA UnfailedStep ==
  ASSUME OrderInv, NEW s \in Servers, Step(s), TypeOK', NEW t \in Servers, Pending(s), Pending(t),
         Unfailed(t)
  PROVE  Unfailed(t)'
<1>0. TypeOK /\ tree[t] \in Seq(Nat) /\ op_count[s] \in Nat
  BY DEF OrderInv, TypeOK
<1>1. SUFFICES ASSUME NoneFailed(t)'
               PROVE  Len(tree'[t]) = Carried(t)' /\ \A k \in DOMAIN tree'[t] : tree'[t][k] = k
  BY DEF Unfailed
<1>2. NoneFailed(t)
  <2>1. ASSUME NEW n \in DOMAIN queue[t] PROVE queue[t][n].status # "failed"
    BY <1>0, <1>1, DoneStep DEF NoneFailed
  <2>. QED BY <2>1 DEF NoneFailed
<1>3. Len(tree[t]) = Carried(t) /\ \A k \in DOMAIN tree[t] : tree[t][k] = k
  BY <1>2 DEF Unfailed
<1>4. CASE t = s /\ Applies(s)
  <2>1. Carried(t) = op_count[s] /\ Carried(t)' = op_count[s] + 1
    BY <1>0, <1>4, CarriedStep DEF Applies
  <2>2. tree'[t] = Append(tree[t], op_count[s] + 1)
    BY <1>0, <1>4, TreeStep
  <2>. QED BY <1>0, <1>3, <2>1, <2>2
<1>5. CASE t = s /\ Execute(s) /\ Outcome(s) # "done"
  <2>1. op_count[s] + 1 \in DOMAIN queue[t]
    <3>1. op_count[s] + 1 \in 1..Len(queue[s]) /\ queue[s] \in Seq(Writes)
      BY <1>0, <1>5, ExecuteFacts DEF TypeOK
    <3>. QED BY <1>5, <3>1
  <2>2. op_count[s] + 1 \in DOMAIN queue'[t] /\ queue'[t][op_count[s] + 1].status = "failed"
    BY <1>0, <1>5, <2>1, DoneStep
  <2>. QED BY <1>1, <2>2 DEF NoneFailed
<1>6. CASE ~(t = s /\ Execute(s))
  <2>1. Carried(t)' = Carried(t) /\ tree'[t] = tree[t]
    BY <1>0, <1>6, CarriedStep, TreeStep DEF Applies
  <2>. QED BY <1>3, <2>1
<1>. QED BY <1>4, <1>5, <1>6 DEF Applies

\* b follows p, said of the places of the tasks.
Behind(b, p) ==
  /\ b # p
  /\ \A m \in DOMAIN queue[b] : queue[b][m].from = p
  /\ \A m \in DOMAIN queue[b] : \A j \in DOMAIN queue[p] :
       SameWrite(b, m, p, j) => \A n \in 1..j : Done(p, n) => Holds(b, queue[p][n].id)

\* The m-th task of a follower is the m-th write that changed the tree of p, and
\* it does not fail.
Mirrors(b, p) ==
  Behind(b, p) =>
    /\ \A m \in DOMAIN queue[b] : /\ m \in DOMAIN tree[p]
                                  /\ SameWrite(b, m, p, tree[p][m])
                                  /\ queue[b][m].op = queue[p][tree[p][m]].op
    /\ NoneFailed(b)

LEMMA FollowsBehind ==
  ASSUME ReplicaInv, NEW b \in Servers, NEW p \in Servers, Follows(b, p)
  PROVE  Behind(b, p)
<1>1. \A i, j \in DOMAIN queue[p] : queue[p][i].id = queue[p][j].id => i = j
  BY DEF ReplicaInv, IdInv, Numbered
<1>2. ASSUME NEW m \in DOMAIN queue[b], NEW j \in DOMAIN queue[p], SameWrite(b, m, p, j)
      PROVE  \A n \in 1..j : Done(p, n) => Holds(b, queue[p][n].id)
  <2>1. /\ Position(p, queue[b][m].id) \in DOMAIN queue[p]
        /\ queue[p][Position(p, queue[b][m].id)].id = queue[b][m].id
    BY <1>2 DEF Position, SameWrite
  <2>2. Position(p, queue[b][m].id) = j
    BY <1>1, <1>2, <2>1 DEF SameWrite
  <2>. QED BY <2>2 DEF Follows
<1>. QED BY <1>2 DEF Follows, Behind

\* A server that has missed a write never follows again.
LEMMA BehindBefore ==
  ASSUME ReplicaInv, ReplicaInv', NEW s \in Servers, Step(s),
         NEW b \in Servers, NEW p \in Servers, Pending(p), Behind(b, p)'
  PROVE  Behind(b, p)
<1>0. /\ TypeOK /\ OrderInv /\ InOrder(b)' /\ b # p
      /\ queue[b] \in Seq(Writes) /\ queue[p] \in Seq(Writes)
  <2>1. TypeOK /\ OrderInv
    BY DEF ReplicaInv, IdInv, OrderInv
  <2>2. InOrder(b)'
    BY DEF ReplicaInv
  <2>. QED BY <2>1, <2>2 DEF TypeOK, Behind
<1>1. ASSUME NEW m \in DOMAIN queue[b] PROVE queue[b][m].from = p
  <2>1. m \in DOMAIN queue'[b] /\ queue'[b][m].from = queue[b][m].from
    BY <1>0, TasksStay
  <2>. QED BY <2>1 DEF Behind
<1>2. ASSUME NEW m \in DOMAIN queue[b], NEW j \in DOMAIN queue[p], SameWrite(b, m, p, j),
             NEW n \in 1..j, Done(p, n)
      PROVE  Holds(b, queue[p][n].id)
  <2>1. n \in DOMAIN queue[p] /\ n \in Nat /\ j \in Nat /\ n <= j /\ m \in Nat
    BY <1>0
  <2>2. /\ m \in DOMAIN queue'[b] /\ j \in DOMAIN queue'[p] /\ n \in DOMAIN queue'[p]
        /\ queue'[b][m].id = queue[b][m].id /\ queue'[p][j].id = queue[p][j].id
        /\ queue'[p][n].id = queue[p][n].id
    BY <1>0, <2>1, TasksStay
  <2>3. queue'[p][n].status = "done"
    BY <1>0, <1>2, <2>1, DoneStep
  <2>4. PICK o \in DOMAIN queue'[b] : queue'[b][o].id = queue'[p][n].id
    BY <1>2, <2>2, <2>3 DEF Behind, SameWrite, Done, Holds
  <2>5. CASE o \in DOMAIN queue[b]
    <3>1. queue[b][o].id = queue'[b][o].id
      BY <1>0, <2>5, TasksStay
    <3>. QED BY <2>2, <2>4, <2>5, <3>1 DEF Holds
  <2>6. CASE o \notin DOMAIN queue[b]
    <3>1. o = Len(queue[b]) + 1
      BY <1>0, <2>6, NewTask
    <3>2. m < o
      BY <1>0, <3>1
    <3>3. queue'[b][m].from = p /\ queue'[b][o].from = p
      BY <2>2 DEF Behind
    <3>4. j < n
      BY <1>0, <1>2, <2>2, <2>4, <3>2, <3>3 DEF InOrder, SameWrite
    <3>. QED BY <2>1, <3>4
  <2>. QED BY <2>5, <2>6
<1>. QED BY <1>0, <1>1, <1>2 DEF Behind

\* A follower applies to its tree what p has applied, at the same place.
LEMMA FollowerSucceeds ==
  ASSUME TypeOK, NEW b \in Servers, NEW p \in Servers, Execute(b),
         Unfailed(b), TreeOf(p), Mirrors(b, p), Behind(b, p)
  PROVE  Outcome(b) = "done"
<1> DEFINE n == op_count[b] + 1
<1>1. /\ n \in 1..Len(queue[b]) /\ n \in DOMAIN queue[b] /\ worker[b] = "idle"
      /\ op_count[b] \in Nat /\ queue[b] \in Seq(Writes) /\ tree[b] \in Seq(Nat)
      /\ tree[p] \in Seq(Nat)
  <2>1. n \in 1..Len(queue[b])
    BY ExecuteFacts
  <2>2. op_count[b] \in Nat /\ queue[b] \in Seq(Writes) /\ tree[b] \in Seq(Nat) /\ tree[p] \in Seq(Nat)
    BY DEF TypeOK
  <2>. QED BY <2>1, <2>2 DEF Execute
<1>2. DOMAIN tree[b] = 1..(n - 1) /\ \A k \in DOMAIN tree[b] : tree[b][k] = k
  <2>1. NoneFailed(b)
    BY DEF Mirrors
  <2>2. Len(tree[b]) = op_count[b]
    BY <1>1, <2>1 DEF Unfailed, Carried
  <2>. QED BY <1>1, <2>1, <2>2 DEF Unfailed
<1>3. ASSUME NEW k \in 1..(n - 1) PROVE queue[b][k].op = queue[p][tree[p][k]].op
  <2>1. k \in DOMAIN queue[b]
    BY <1>1
  <2>. QED BY <2>1 DEF Mirrors
<1>4. n \in DOMAIN tree[p] /\ Task(b).op = queue[p][tree[p][n]].op
  BY <1>1 DEF Mirrors, Task
<1>5. Applied(b) = OpsBefore(p, n)
  BY <1>2, <1>3 DEF Applied, OpsBefore
<1>6. Task(b).op = "put" \/ KeyFound(Applied(b))
  BY <1>4, <1>5 DEF TreeOf
<1>. QED BY <1>6 DEF Outcome

\* What arrives at a follower is the next write that changed the tree of p: an
\* earlier one it does not have it would have missed, and a later one it has not
\* been sent yet.
LEMMA NextOfTree ==
  ASSUME ReplicaInv, ReplicaInv', NEW p \in Servers, NEW b \in Servers, Step(p), ServeReplica(p),
         TreeOf(p), Pending(p), Mirrors(b, p), Behind(b, p), Behind(b, p)',
         NEW m \in DOMAIN queue'[b], m \notin DOMAIN queue[b], b = peer[p], p < b,
         queue'[b][m] = Replica(p)
  PROVE  m \in DOMAIN tree[p] /\ tree[p][m] = op_count[p] + 1
<1> DEFINE n == op_count[p] + 1
<1>1. /\ TypeOK /\ OrderInv /\ IdInv /\ b # p /\ TypeOK'
      /\ \A i, j \in DOMAIN queue[p] : queue[p][i].id = queue[p][j].id => i = j
  BY DEF ReplicaInv, IdInv, OrderInv, Numbered, Behind
<1>2. /\ queue[b] \in Seq(Writes) /\ queue[p] \in Seq(Writes) /\ tree[p] \in Seq(Nat)
      /\ op_count[p] \in Nat
  BY <1>1 DEF TypeOK
<1>3. m = Len(queue[b]) + 1 /\ queue'[p] = queue[p]
  BY <1>1, NewTask
<1>4. /\ n \in DOMAIN queue[p] /\ ~Sent(p, n) /\ Done(p, n)
      /\ queue'[b][m].id = queue[p][n].id
  BY <1>1, ReplicaFacts
<1>5. ~Holds(b, queue[p][n].id)
  BY <1>1, <1>4 DEF IdInv, Numbered
<1>6. PICK k \in DOMAIN tree[p] : tree[p][k] = n
  BY <1>4 DEF TreeOf
<1>7. k \in Nat /\ m \in Nat /\ n \in Nat /\ DOMAIN tree[p] = 1..Len(tree[p])
      /\ DOMAIN queue[b] = 1..(m - 1)
  <2>1. n \in Nat /\ DOMAIN tree[p] = 1..Len(tree[p]) /\ Len(tree[p]) \in Nat
    BY <1>2
  <2>2. DOMAIN queue[b] = 1..Len(queue[b]) /\ Len(queue[b]) \in Nat
    BY <1>2
  <2>3. m \in Nat /\ m - 1 = Len(queue[b])
    BY <1>3, <2>2
  <2>4. k \in Nat
    BY <1>6, <2>1
  <2>. QED BY <2>1, <2>2, <2>3, <2>4
<1>8. ~(k < m)
  <2>1. SUFFICES ASSUME k < m PROVE FALSE
    OBVIOUS
  <2>2. k \in DOMAIN queue[b]
    BY <1>2, <1>6, <1>7, <2>1
  <2>3. queue[b][k].id = queue[p][n].id
    BY <1>6, <2>2 DEF Mirrors, SameWrite
  <2>. QED BY <1>5, <2>2, <2>3 DEF Holds
<1>9. ~(m < k)
  <2>1. SUFFICES ASSUME m < k PROVE FALSE
    OBVIOUS
  <2>2. m \in DOMAIN tree[p]
    BY <1>2, <1>6, <1>7, <1>3, <2>1
  <2> DEFINE i == tree[p][m]
  <2>3. i < n /\ i \in DOMAIN queue[p] /\ Done(p, i)
    BY <1>6, <2>1, <2>2 DEF TreeOf
  <2>4. i \in 1..n
    <3>1. DOMAIN queue[p] = 1..Len(queue[p])
      BY <1>2
    <3>. HIDE DEF i, n
    <3>. QED BY <1>7, <2>3, <3>1
  <2>5. PICK o \in DOMAIN queue'[b] : queue'[b][o].id = queue[p][i].id
    <3>1. queue'[p][i].status = "done"
      BY <1>3, <2>3 DEF Done
    <3>. QED BY <1>3, <1>4, <2>4, <3>1 DEF Behind, SameWrite, Done, Holds
  <2>6. CASE o \in DOMAIN queue[b]
    <3>1. queue[b][o].id = queue'[b][o].id
      BY <1>1, <2>6, TasksStay
    <3>2. o \in DOMAIN tree[p] /\ queue[b][o].id = queue[p][tree[p][o]].id
      BY <2>6 DEF Mirrors, SameWrite
    <3>3. tree[p][o] = i
      <4>1. tree[p][o] \in DOMAIN queue[p]
        BY <3>2 DEF TreeOf
      <4>2. queue[p][tree[p][o]].id = queue[p][i].id
        BY <2>5, <3>1, <3>2
      <4>. HIDE DEF i
      <4>. QED BY <1>1, <2>3, <4>1, <4>2
    <3>4. o < m /\ tree[p][o] < tree[p][m]
      BY <1>7, <2>2, <2>6, <3>2 DEF TreeOf
    <3>5. i \in Nat
      BY <1>2, <2>2
    <3>. QED BY <3>3, <3>4, <3>5
  <2>7. CASE o \notin DOMAIN queue[b]
    <3>1. o = m
      BY <1>1, <1>3, <2>7, NewTask
    <3>2. i = n
      BY <1>1, <1>4, <2>3, <2>5, <3>1
    <3>. QED BY <1>7, <2>3, <3>2
  <2>. QED BY <2>6, <2>7
<1>. QED BY <1>6, <1>7, <1>8, <1>9

LEMMA MirrorsStep ==
  ASSUME ReplicaInv, ReplicaInv', NEW s \in Servers, Step(s), NEW b \in Servers, NEW p \in Servers,
         \A t \in Servers : Pending(t) /\ Unfailed(t) /\ TreeOf(t), Mirrors(b, p)
  PROVE  Mirrors(b, p)'
<1>1. SUFFICES ASSUME Behind(b, p)'
               PROVE  /\ \A m \in DOMAIN queue'[b] :
                           /\ m \in DOMAIN tree'[p]
                           /\ queue'[b][m].id = queue'[p][tree'[p][m]].id
                           /\ queue'[b][m].op = queue'[p][tree'[p][m]].op
                      /\ NoneFailed(b)'
  BY DEF Mirrors, SameWrite
<1>2. TypeOK /\ TypeOK' /\ OrderInv /\ IdInv /\ Behind(b, p) /\ b # p
  <2>1. Behind(b, p)
    BY <1>1, BehindBefore
  <2>. QED BY <2>1 DEF ReplicaInv, IdInv, OrderInv, Behind
<1>3. ASSUME NEW k \in DOMAIN tree[p]
      PROVE  /\ k \in DOMAIN tree'[p] /\ tree'[p][k] = tree[p][k]
             /\ queue'[p][tree'[p][k]].id = queue[p][tree[p][k]].id
             /\ queue'[p][tree'[p][k]].op = queue[p][tree[p][k]].op
  <2>1. k \in DOMAIN tree'[p] /\ tree'[p][k] = tree[p][k]
    <3>1. tree[p] \in Seq(Nat) /\ op_count[s] \in Nat
      BY <1>2 DEF TypeOK
    <3>2. tree'[p] = tree[p] \/ tree'[p] = Append(tree[p], op_count[s] + 1)
      BY <1>2, TreeStep
    <3>3. CASE tree'[p] = tree[p]
      BY <3>3
    <3>4. CASE tree'[p] = Append(tree[p], op_count[s] + 1)
      BY <3>1, <3>4
    <3>. QED BY <3>2, <3>3, <3>4
  <2>2. tree[p][k] \in DOMAIN queue[p]
    BY DEF TreeOf
  <2>. QED BY <1>2, <2>1, <2>2, TasksStay
<1>4. ASSUME NEW m \in DOMAIN queue'[b], m \notin DOMAIN queue[b]
      PROVE  /\ s = p /\ m \in DOMAIN tree[p]
             /\ queue'[b][m].id = queue[p][tree[p][m]].id
             /\ queue'[b][m].op = queue[p][tree[p][m]].op
  <2>1. queue'[b][m].from = p
    BY <1>1 DEF Behind
  <2>2. CASE ServeClient(s) /\ b = s /\ queue'[b][m] = Head(inbox[s])
    <3>1. Fresh(s) /\ inbox[s] # << >>
      BY <1>2, <2>2 DEF IdInv, ServeClient
    <3>. QED BY <1>2, <2>1, <2>2, <3>1 DEF Fresh
  <2>3. CASE ServeReplica(s) /\ b = peer[s] /\ s < b /\ queue'[b][m] = Replica(s)
    <3>1. /\ s = p /\ queue'[b][m].id = queue[p][op_count[p] + 1].id
          /\ queue'[b][m].op = queue[p][op_count[p] + 1].op
      BY <1>2, <2>1, <2>3, ReplicaFacts
    <3>2. m \in DOMAIN tree[p] /\ tree[p][m] = op_count[p] + 1
      BY <1>1, <1>2, <1>4, <2>3, <3>1, NextOfTree
    <3>. QED BY <3>1, <3>2
  <2>. QED BY <1>2, <1>4, <2>2, <2>3, NewTask
<1>5. ASSUME NEW m \in DOMAIN queue'[b]
      PROVE  /\ m \in DOMAIN tree'[p]
             /\ queue'[b][m].id = queue'[p][tree'[p][m]].id
             /\ queue'[b][m].op = queue'[p][tree'[p][m]].op
  <2>1. CASE m \in DOMAIN queue[b]
    <3>1. queue'[b][m].id = queue[b][m].id /\ queue'[b][m].op = queue[b][m].op
      BY <1>2, <2>1, TasksStay
    <3>2. /\ m \in DOMAIN tree[p] /\ queue[b][m].id = queue[p][tree[p][m]].id
          /\ queue[b][m].op = queue[p][tree[p][m]].op
      BY <1>2, <2>1 DEF Mirrors, SameWrite
    <3>. QED BY <1>3, <3>1, <3>2
  <2>2. CASE m \notin DOMAIN queue[b]
    BY <1>3, <1>4, <2>2
  <2>. QED BY <2>1, <2>2
<1>6. ASSUME NEW m \in DOMAIN queue'[b] PROVE queue'[b][m].status # "failed"
  <2>1. CASE m \notin DOMAIN queue[b]
    BY <1>2, <2>1, AddedIsPending
  <2>2. CASE m \in DOMAIN queue[b] /\ ~(b = s /\ m = op_count[s] + 1 /\ Execute(s))
    <3>1. queue'[b][m].status = queue[b][m].status
      BY <1>2, <2>2, TasksStay
    <3>. QED BY <1>2, <2>2, <3>1 DEF Mirrors, NoneFailed
  <2>3. CASE m \in DOMAIN queue[b] /\ b = s /\ m = op_count[s] + 1 /\ Execute(s)
    <3>1. Outcome(s) = "done"
      BY <1>2, <2>3, FollowerSucceeds
    <3>2. queue'[b][m].status = "done"
      BY <1>2, <2>3, <3>1, DoneStep DEF Applies
    <3>. QED BY <3>2
  <2>. QED BY <2>1, <2>2, <2>3
<1>. QED BY <1>5, <1>6 DEF NoneFailed

\* The inductive invariant of the followers, on top of ReplicaInv.
FollowInv ==
  /\ \A s \in Servers : Pending(s) /\ TreeOf(s) /\ Unfailed(s)
  /\ \A b, p \in Servers : Mirrors(b, p)

LEMMA FollowInvSuffices == ReplicaInv /\ FollowInv => FollowersAgree
<1>1. SUFFICES ASSUME ReplicaInv, FollowInv, NEW p \in Servers, NEW b \in Servers, Follows(b, p)
               PROVE  /\ \A m \in DOMAIN queue[b] : queue[b][m].status # "failed"
                      /\ (\A n \in DOMAIN queue[p] : queue[p][n].status # "failed") =>
                           \A m \in DOMAIN queue[b] : queue[b][m].id = queue[p][m].id
  BY DEF FollowersAgree
<1>2. Behind(b, p) /\ Mirrors(b, p) /\ Unfailed(p)
  BY <1>1, FollowsBehind DEF FollowInv
<1>3. \A m \in DOMAIN queue[b] : queue[b][m].status # "failed"
  BY <1>2 DEF Mirrors, NoneFailed
<1>4. ASSUME \A n \in DOMAIN queue[p] : queue[p][n].status # "failed", NEW m \in DOMAIN queue[b]
      PROVE  queue[b][m].id = queue[p][m].id
  <2>1. \A k \in DOMAIN tree[p] : tree[p][k] = k
    BY <1>2, <1>4 DEF Unfailed, NoneFailed
  <2>2. m \in DOMAIN tree[p] /\ queue[b][m].id = queue[p][tree[p][m]].id
    BY <1>2 DEF Mirrors, SameWrite
  <2>. QED BY <2>1, <2>2
<1>. QED BY <1>3, <1>4

\* For any number of servers, of writes and any tree: a backup that follows its
\* primary never fails in what the primary has done, although it decides for
\* itself whether a delete finds its key, and while nothing has failed at the
\* primary a number names the same write at both.
THEOREM FollowersCorrect == Spec => []FollowersAgree
<1>1. Init => FollowInv
  <2>1. SUFFICES ASSUME Init PROVE FollowInv
    OBVIOUS
  <2>2. \A s \in Servers : /\ queue[s] = << >> /\ tree[s] = << >> /\ inbox[s] = << >>
                           /\ op_count[s] = 0 /\ worker[s] = "idle"
    BY <2>1 DEF Init
  <2>3. \A s \in Servers : Pending(s) /\ TreeOf(s) /\ Unfailed(s) /\ NoneFailed(s)
    BY <2>2 DEF Pending, TreeOf, Unfailed, NoneFailed, Carried
  <2>4. \A b, p \in Servers : Mirrors(b, p)
    BY <2>2, <2>3 DEF Mirrors
  <2>. QED BY <2>3, <2>4 DEF FollowInv
<1>2. ReplicaInv /\ ReplicaInv' /\ FollowInv /\ [Next]_vars => FollowInv'
  <2>1. ASSUME ReplicaInv, ReplicaInv', FollowInv, Next PROVE FollowInv'
    <3>1. PICK s \in Servers : Step(s)
      BY <2>1 DEF Next, Step
    <3>2. OrderInv /\ TypeOK' /\ \A t \in Servers : Pending(t) /\ TreeOf(t) /\ Unfailed(t)
      BY <2>1 DEF ReplicaInv, IdInv, OrderInv, FollowInv
    <3>3. \A t \in Servers : Pending(t)' /\ TreeOf(t)' /\ Unfailed(t)'
      BY <3>1, <3>2, PendingStep, TreeOfStep, UnfailedStep
    <3>4. \A b, p \in Servers : Mirrors(b, p)'
      BY <2>1, <3>1, <3>2, MirrorsStep DEF FollowInv
    <3>. QED BY <3>3, <3>4 DEF FollowInv
  <2>2. ASSUME FollowInv, UNCHANGED vars PROVE FollowInv'
    BY <2>2 DEF FollowInv, Pending, TreeOf, Unfailed, Mirrors, Behind, NoneFailed, Carried, OpsBefore,
                SameWrite, Done, Holds, vars, clients
  <2>. QED BY <2>1, <2>2
<1>. QED BY <1>1, <1>2, ReplicaInvariant, FollowInvSuffices, PTL DEF Spec
=============================================================================
