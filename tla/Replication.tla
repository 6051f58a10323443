----------------------------- MODULE Replication -----------------------------
(***************************************************************************)
(* The writes of phase 4, from the client's request to the backup's tree:  *)
(* the queue of every server, its second thread, which applies a write and *)
(* then sends it to the server rtreeBack leads to and waits for the answer *)
(* with both locks held, and the changes of rtreeBack by ZooKeeper's       *)
(* thread.  Roles are taken and given up as module Roles says, which has   *)
(* every ZooKeeper call as a step; here one step stands for each handler   *)
(* up to the point where rtreeBack is in use.                              *)
(***************************************************************************)
EXTENDS Naturals, Sequences

CONSTANTS
  N,              \* bound: servers that are started; one that died stays dead
  MaxWrites,      \* bound: writes that clients request
  KeyFound(_)     \* whether tree_del finds the key after these writes were applied

\* Servers are called by the order in which they become the primary; those that
\* never do come last.
Servers == 1..N
None == 0
\* There is no connection behind the sock_desc of rtreeBack: it is not assigned
\* yet, or closed, and then the number may be that of an accepted client.
Unconnected == N + 1
ASSUME BoundsAssumption == N \in Nat /\ MaxWrites \in Nat

Ops == {"put", "del"}
Statuses == {"pending", "done", "failed"}

VARIABLES
  up,        \* server -> "off", "up" or "dead"
  thread,    \* server -> its second thread: "none", "ready", "runs" or "lost"
  role,      \* server -> currentPath, "none" before it has one
  node,      \* "primary" and "backup" -> the owner of the znode, or None
  fired,     \* servers whose watch has fired and was not handled yet
  connecting,\* servers whose child_watcher is about to connect to the backup
  rtreeBack, \* server -> None, Unconnected or the server it is connected to
  writes,    \* number of writes requested so far
  inbox,     \* server -> requests of clients that wait in its sockets
  queue,     \* server -> tasks in the order of their numbers
  op_count,  \* server -> number of tasks its second thread has finished
  worker,    \* server -> where its second thread is
  peer,      \* server -> whom the second thread has sent a write to
  tree,      \* server -> the numbers of the tasks that changed its tree, in order
  since      \* history: server -> tasks finished when it connected to the backup

zoo == <<role, node, fired>>
links == <<connecting, rtreeBack, since>>
clients == <<writes, inbox>>
vars == <<up, thread, zoo, links, clients, queue, op_count, worker, peer, tree>>

Init ==
  /\ up = [s \in Servers |-> "off"]
  /\ thread = [s \in Servers |-> "none"]
  /\ role = [s \in Servers |-> "none"]
  /\ node = [r \in {"primary", "backup"} |-> None]
  /\ fired = {} /\ connecting = {}
  /\ rtreeBack = [s \in Servers |-> None]
  /\ writes = 0
  /\ inbox = [s \in Servers |-> << >>]
  /\ queue = [s \in Servers |-> << >>]
  /\ op_count = [s \in Servers |-> 0]
  /\ worker = [s \in Servers |-> "idle"]
  /\ peer = [s \in Servers |-> None]
  /\ tree = [s \in Servers |-> << >>]
  /\ since = [s \in Servers |-> 0]

Alive(s) == up[s] = "up"
Owners(nodes) == {nodes["primary"], nodes["backup"]} \cap Servers

-----------------------------------------------------------------------------
(* Roles. *)

\* Whose turn it is by its name.  This guard says nothing of the code: whoever
\* becomes a primary, in another naming it is its turn.
NextPrimary(s) == \A t \in Servers : role[t] = "primary" <=> t < s

\* child_watcher sees what happens once tree_skel_init has set the watch.
Watching(t) == Alive(t) /\ thread[t] # "none"
Changed(nodes) == fired' = (fired \cup {t \in Owners(nodes) : Watching(t)})

\* A server has looked at the nodes some time before it creates its own: as a
\* primary it saw none, and as a backup it saw a primary.  Who creates a node that
\* is there exits.
Start(s) ==
  /\ up[s] = "off"
  /\ \E r \in {"primary", "backup"} :
       /\ node[r] = None
       /\ IF r = "primary" THEN NextPrimary(s) ELSE \E t \in Servers : role[t] = "primary"
       /\ node' = [node EXCEPT ![r] = s]
       /\ role' = [role EXCEPT ![s] = r]
  /\ up' = [up EXCEPT ![s] = "up"]
  /\ Changed(node)
  /\ UNCHANGED <<thread, links, clients, queue, op_count, worker, peer, tree>>

\* The watch is set and the second thread created, then the locks and the condition
\* variable it uses are initialised.
Launch(s) ==
  /\ Alive(s) /\ thread[s] = "none"
  /\ thread' = [thread EXCEPT ![s] = "ready"]
  /\ UNCHANGED <<up, zoo, links, clients, queue, op_count, worker, peer, tree>>

\* The nodes changed while s looked, so that it created none.  It watches all the
\* same, and once it sees the backup alone, deletes that node and becomes the
\* primary.  Whatever else it sees ends it: it has no path to compare.
TakesOver(s) ==
  /\ up[s] = "off" /\ NextPrimary(s)
  /\ node["primary"] = None /\ node["backup"] # None
  /\ node' = [primary |-> s, backup |-> None]
  /\ role' = [role EXCEPT ![s] = "primary"]
  /\ up' = [up EXCEPT ![s] = "up"]
  /\ thread' = [thread EXCEPT ![s] = "ready"]
  /\ fired' = fired \cup {s}
  /\ UNCHANGED <<links, clients, queue, op_count, worker, peer, tree>>

\* What it was about to do is gone; what it has sent is on its way.
Dies(s) ==
  /\ up' = [up EXCEPT ![s] = "dead"]
  /\ thread' = [thread EXCEPT ![s] = "none"]
  /\ fired' = fired \ {s}
  /\ connecting' = connecting \ {s}
  /\ inbox' = [inbox EXCEPT ![s] = << >>]

Crash(s) ==
  /\ Alive(s)
  /\ Dies(s)
  /\ UNCHANGED <<role, node, rtreeBack, since, writes, queue, op_count, worker, peer, tree>>

\* A dead server's node goes some time later; so does that of a server that is
\* cut off from ZooKeeper, which keeps its role and its connections.
Expire(s) ==
  /\ s \in Owners(node) /\ s \notin connecting
  /\ node' = [r \in DOMAIN node |-> IF node[r] = s THEN None ELSE node[r]]
  /\ fired' = (fired \cup {t \in Owners(node') : Watching(t)}) \ {s}
  /\ UNCHANGED <<up, thread, role, links, clients, queue, op_count, worker, peer, tree>>

\* ZooKeeper tells a server of changes for as long as its session lasts.
Told(s) == Alive(s) /\ s \in fired \cap Owners(node) /\ s \notin connecting

Promote(s) ==
  /\ Told(s)
  /\ node["primary"] = None /\ node["backup"] = s
  /\ NextPrimary(s)
  /\ node' = [primary |-> s, backup |-> None]
  /\ role' = [role EXCEPT ![s] = "primary"]
  /\ rtreeBack' = [rtreeBack EXCEPT ![s] = None]
  /\ UNCHANGED <<up, thread, fired, connecting, since, clients, queue, op_count, worker, peer, tree>>

SeesBackup(s) ==
  /\ Told(s)
  /\ node["primary"] = s /\ node["backup"] # None
  /\ fired' = fired \ {s}
  /\ connecting' = connecting \cup {s}
  /\ rtreeBack' = [rtreeBack EXCEPT ![s] = Unconnected]
  /\ UNCHANGED <<up, thread, role, node, since, clients, queue, op_count, worker, peer, tree>>

\* history: writes after these are for the new backup; one that was sent before,
\* to whomever, is not.
FirstForBackup(s) == op_count[s] + IF worker[s] \in {"idle", "forward"} THEN 0 ELSE 1

\* The backup may be gone by now: no address, or nobody listens there.  Then the
\* socket is closed, and rtreeBack keeps its number.
Connect(s) ==
  /\ Alive(s) /\ s \in connecting
  /\ connecting' = connecting \ {s}
  /\ IF node["backup"] # None /\ Alive(node["backup"])
     THEN /\ rtreeBack' = [rtreeBack EXCEPT ![s] = node["backup"]]
          /\ since' = [since EXCEPT ![s] = FirstForBackup(s)]
     ELSE UNCHANGED <<rtreeBack, since>>
  /\ UNCHANGED <<up, thread, zoo, clients, queue, op_count, worker, peer, tree>>

\* A backup has nothing to do while there is a primary's node, and is told again
\* when that goes.
SeesNoBackup(s) ==
  /\ Told(s)
  /\ node["primary"] = s /\ node["backup"] = None
  /\ fired' = fired \ {s}
  /\ rtreeBack' = [rtreeBack EXCEPT ![s] = None]
  /\ UNCHANGED <<up, thread, role, node, connecting, since, clients, queue, op_count, worker, peer, tree>>

-----------------------------------------------------------------------------
(* The main thread: invoke. *)

\* A client writes to a server that was the primary when it looked.
Request(s, op) ==
  /\ Alive(s) /\ role[s] = "primary"
  /\ writes < MaxWrites /\ inbox[s] = << >>
  /\ writes' = writes + 1
  /\ inbox' = [inbox EXCEPT ![s] = <<[id |-> writes', op |-> op, status |-> "pending", from |-> s]>>]
  /\ UNCHANGED <<up, thread, zoo, links, queue, op_count, worker, peer, tree>>

\* The main loop comes after tree_skel_init.  invoke needs queue_lock, which the
\* second thread keeps while it waits for an answer.
QueueFree(s) == Alive(s) /\ thread[s] # "none" /\ worker[s] = "idle"

\* A second thread that was waiting when its condition variable was initialised is
\* not there to be woken, now or later.
Signal(s) ==
  IF thread[s] = "ready"
  THEN \E t \in {"runs", "lost"} : thread' = [thread EXCEPT ![s] = t]
  ELSE UNCHANGED thread

\* The task gets the next number, which is sent back as its name.
EnqueuePut(s, write) ==
  /\ QueueFree(s) /\ write.op = "put"
  /\ queue' = [queue EXCEPT ![s] = Append(@, write)]

EnqueueDel(s, write) ==
  /\ QueueFree(s) /\ write.op = "del"
  /\ queue' = [queue EXCEPT ![s] = Append(@, write)]

Enqueue(s, write) ==
  /\ EnqueuePut(s, write) \/ EnqueueDel(s, write)
  /\ Signal(s)

ServeClient(s) ==
  /\ inbox[s] # << >>
  /\ Enqueue(s, Head(inbox[s]))
  /\ inbox' = [inbox EXCEPT ![s] = << >>]
  /\ UNCHANGED <<up, zoo, links, writes, op_count, worker, peer, tree>>

-----------------------------------------------------------------------------
(* The second thread: process_task. *)

Task(s) == queue[s][op_count[s] + 1]

\* The writes that have changed the tree of s, in order.
Applied(s) == [k \in DOMAIN tree[s] |-> queue[s][tree[s][k]].op]

\* A put always succeeds.
Outcome(s) == IF Task(s).op = "put" \/ KeyFound(Applied(s)) THEN "done" ELSE "failed"

\* The task gets its outcome, and changes the tree unless it failed.
Apply(s) ==
  /\ queue' = [queue EXCEPT ![s][op_count[s] + 1].status = Outcome(s)]
  /\ tree' = IF Outcome(s) = "done"
             THEN [tree EXCEPT ![s] = Append(@, op_count[s] + 1)] ELSE tree

\* The task is counted after the locks are released; nothing that is seen in
\* between matters here (module TaskQueue has that step).
Finish(s) ==
  /\ worker' = [worker EXCEPT ![s] = "idle"]
  /\ op_count' = [op_count EXCEPT ![s] = @ + 1]

\* Mutant: what failed here is sent all the same.
ExecuteSendsAll(s) ==
  /\ Alive(s) /\ thread[s] = "runs" /\ worker[s] = "idle"
  /\ op_count[s] < Len(queue[s])
  /\ Apply(s)
  /\ worker' = [worker EXCEPT ![s] = "forward"]
  /\ UNCHANGED <<up, thread, zoo, links, clients, op_count, peer>>

\* Mutant: a failed task is counted on the spot and again when the locks are free.
ExecuteCountsTwice(s) ==
  /\ Alive(s) /\ thread[s] = "runs" /\ worker[s] = "idle"
  /\ op_count[s] < Len(queue[s])
  /\ Apply(s)
  /\ IF Outcome(s) = "done"
     THEN worker' = [worker EXCEPT ![s] = "forward"] /\ UNCHANGED op_count
     ELSE /\ worker' = [worker EXCEPT ![s] = "idle"]
          /\ op_count' = [op_count EXCEPT ![s] = @ + 2]
  /\ UNCHANGED <<up, thread, zoo, links, clients, peer>>

Execute(s) ==
  /\ Alive(s) /\ thread[s] = "runs" /\ worker[s] = "idle"
  /\ op_count[s] < Len(queue[s])
  /\ Apply(s)
  /\ IF Outcome(s) = "done"
     THEN worker' = [worker EXCEPT ![s] = "forward"] /\ UNCHANGED op_count
     ELSE Finish(s)
  /\ UNCHANGED <<up, thread, zoo, links, clients, peer>>

\* The main thread of the backup may not have accepted the connection: its table
\* of descriptors is full, or has lost the one that was.
Sends(s) ==
  /\ \E w \in {"asked", "unheard"} : worker' = [worker EXCEPT ![s] = w]
  /\ peer' = [peer EXCEPT ![s] = rtreeBack[s]]

\* send fails, or SIGPIPE ends the process, or the number is that of a client's
\* connection: then recv waits for what that client says.
GoesAstray(s) ==
  \/ Finish(s) /\ UNCHANGED <<up, thread, fired, connecting, inbox>>
  \/ Dies(s) /\ UNCHANGED <<worker, op_count>>
  \/ worker' = [worker EXCEPT ![s] = "astray"] /\ UNCHANGED <<up, thread, fired, connecting, inbox, op_count>>

\* Mutant: deletes are not sent.
ForwardPuts(s) ==
  /\ Alive(s) /\ worker[s] = "forward"
  /\ \/ /\ rtreeBack[s] \in Servers /\ Task(s).op = "put"
        /\ Sends(s)
        /\ UNCHANGED <<up, thread, fired, connecting, inbox, op_count>>
     \/ /\ rtreeBack[s] = Unconnected
        /\ GoesAstray(s)
        /\ UNCHANGED peer
     \/ /\ rtreeBack[s] = None \/ Task(s).op = "del"
        /\ Finish(s)
        /\ UNCHANGED <<up, thread, fired, connecting, inbox, peer>>
  /\ UNCHANGED <<role, node, rtreeBack, since, writes, queue, tree>>

\* rtree_put and rtree_del: nothing is sent if rtreeBack is NULL, and what they
\* return is ignored.  This is where rtreeBack is read.
Forward(s) ==
  /\ Alive(s) /\ worker[s] = "forward"
  /\ \/ /\ rtreeBack[s] \in Servers
        /\ Sends(s)
        /\ UNCHANGED <<up, thread, fired, connecting, inbox, op_count>>
     \/ /\ rtreeBack[s] = Unconnected
        /\ GoesAstray(s)
        /\ UNCHANGED peer
     \/ /\ rtreeBack[s] = None
        /\ Finish(s)
        /\ UNCHANGED <<up, thread, fired, connecting, inbox, peer>>
  /\ UNCHANGED <<role, node, rtreeBack, since, writes, queue, tree>>

\* The client has sent something, which is taken for the answer: its request, if
\* one was waiting, is lost, and the opcode may be 0, as it is when it hangs up.
StrayEnds(s) ==
  /\ Alive(s) /\ worker[s] = "astray"
  /\ \/ Dies(s) /\ UNCHANGED <<op_count, worker>>
     \/ /\ Finish(s)
        /\ inbox' \in {inbox, [inbox EXCEPT ![s] = << >>]}
        /\ UNCHANGED <<up, thread, fired, connecting>>
  /\ UNCHANGED <<role, node, rtreeBack, since, writes, queue, peer, tree>>

\* Mutant: every write is sent as a delete.
ReplicaDel(s) == [Task(s) EXCEPT !.status = "pending", !.from = s, !.op = "del"]

\* invoke at the other end; the sender may have died since.
Replica(s) == [Task(s) EXCEPT !.status = "pending", !.from = s]

\* The backup accepts the connection after all.
Hears(s) ==
  /\ worker[s] = "unheard" /\ Alive(peer[s])
  /\ worker' = [worker EXCEPT ![s] = "asked"]
  /\ UNCHANGED <<up, thread, zoo, links, clients, queue, op_count, peer, tree>>

ServeReplica(s) ==
  /\ worker[s] = "asked"
  /\ Enqueue(peer[s], Replica(s))
  /\ worker' = [worker EXCEPT ![s] = "answered"]
  /\ UNCHANGED <<up, zoo, links, clients, op_count, peer, tree>>

Answered(s) ==
  /\ Alive(s) /\ worker[s] = "answered"
  /\ Finish(s)
  /\ UNCHANGED <<up, thread, zoo, links, clients, queue, peer, tree>>

\* Mutant: recv waits on.
AbandonedWaits(s) ==
  /\ Alive(s) /\ worker[s] \in {"asked", "unheard"}
  /\ ~Alive(peer[s])
  /\ UNCHANGED vars

\* recv returns nothing, which is unpacked as opcode 0 and ends the process, as
\* SIGPIPE in send would; or send or recv fails and NULL is returned.
Abandoned(s) ==
  /\ Alive(s) /\ worker[s] \in {"asked", "unheard"}
  /\ ~Alive(peer[s])
  /\ \/ Dies(s) /\ UNCHANGED <<op_count, worker>>
     \/ Finish(s) /\ UNCHANGED <<up, thread, fired, connecting, inbox>>
  /\ UNCHANGED <<role, node, rtreeBack, since, writes, queue, peer, tree>>

-----------------------------------------------------------------------------
ChildWatcher(s) == \/ Promote(s) \/ SeesBackup(s) \/ Connect(s)
                   \/ SeesNoBackup(s)
ProcessTask(s) == Execute(s) \/ Forward(s) \/ Answered(s) \/ Abandoned(s)

Next == \E s \in Servers : \/ Start(s) \/ Launch(s) \/ TakesOver(s)
                           \/ Crash(s) \/ Expire(s)
                           \/ ChildWatcher(s)
                           \/ \E op \in Ops : Request(s, op)
                           \/ ServeClient(s)
                           \/ ProcessTask(s) \/ StrayEnds(s)
                           \/ Hears(s) \/ ServeReplica(s)

\* Main threads and second threads that can go on do; nothing makes a server start,
\* die or lose its node, a client write, or a full table take one more connection.
Fairness == \A s \in Servers : /\ WF_vars(Launch(s) \/ ServeClient(s))
                               /\ WF_vars(ProcessTask(s))
                               /\ WF_vars(ServeReplica(s))

Spec == Init /\ [][Next]_vars /\ Fairness

-----------------------------------------------------------------------------
(* Properties. *)

Writes == [id : 1..MaxWrites, op : Ops, status : Statuses, from : Servers]

TypeOK ==
  /\ up \in [Servers -> {"off", "up", "dead"}]
  /\ thread \in [Servers -> {"none", "ready", "runs", "lost"}]
  /\ role \in [Servers -> {"primary", "backup", "none"}]
  /\ node \in [{"primary", "backup"} -> Servers \cup {None}]
  /\ fired \subseteq Servers /\ connecting \subseteq Servers
  /\ rtreeBack \in [Servers -> Servers \cup {None, Unconnected}]
  /\ writes \in 0..MaxWrites
  /\ inbox \in [Servers -> Seq(Writes)] /\ \A s \in Servers : Len(inbox[s]) <= 1
  /\ queue \in [Servers -> Seq(Writes)]
  /\ op_count \in [Servers -> Nat] /\ since \in [Servers -> Nat]
  /\ worker \in [Servers -> {"idle", "forward", "asked", "unheard", "answered", "astray"}]
  /\ peer \in [Servers -> Servers \cup {None}]
  /\ tree \in [Servers -> Seq(Nat)]
  /\ \A s \in Servers :
       /\ op_count[s] <= Len(queue[s]) /\ since[s] <= Len(queue[s])
       /\ worker[s] # "idle" => op_count[s] < Len(queue[s])
       /\ worker[s] \in {"asked", "unheard", "answered"} => peer[s] \in Servers

Holds(s, id) == \E n \in DOMAIN queue[s] : queue[s][n].id = id
Position(s, id) == CHOOSE n \in DOMAIN queue[s] : queue[s][n].id = id
Done(s, n) == queue[s][n].status = "done"

\* A write that reached a server by replication was applied by the sender first;
\* it arrives once, and in the order in which the sender applied it, whatever
\* connections were made, lost and made again.
NothingInvented ==
  \A b \in Servers : \A m \in DOMAIN queue[b] :
    LET task == queue[b][m]
        p == task.from
    IN  p # b =>
          /\ Holds(p, task.id)
          /\ Done(p, Position(p, task.id))
          /\ queue[p][Position(p, task.id)].op = task.op
          /\ \A k \in 1..(m - 1) : queue[b][k].from = p =>
               Position(p, queue[b][k].id) < Position(p, task.id)

\* A write that a server has finished with while it was connected to a backup that
\* still lives is in the backup's queue: it outlives the server.
FinishedIsOnBackup ==
  \A p \in Servers :
    rtreeBack[p] \in Servers /\ Alive(rtreeBack[p]) =>
      \A n \in (since[p] + 1)..op_count[p] :
        Done(p, n) => Holds(rtreeBack[p], queue[p][n].id)

\* b has had all its writes from p, and every write that p had applied before the
\* last of them.
Follows(b, p) ==
  /\ b # p
  /\ \A m \in DOMAIN queue[b] : queue[b][m].from = p
  /\ \A m \in DOMAIN queue[b] : \A n \in 1..Position(p, queue[b][m].id) :
       Done(p, n) => Holds(b, queue[p][n].id)

\* A backup that follows its primary never fails in what the primary has done: it
\* has the same tree after the same writes.  As long as nothing has failed at the
\* primary either, a number names the same write at both, so that a client that
\* writes to one and asks the other about the write is told the truth.
FollowersAgree ==
  \A p, b \in Servers :
    Follows(b, p) =>
      /\ \A m \in DOMAIN queue[b] : queue[b][m].status # "failed"
      /\ (\A n \in DOMAIN queue[p] : queue[p][n].status # "failed") =>
           \A m \in DOMAIN queue[b] : queue[b][m].id = queue[p][m].id

\* The servers one after the other of which waits for the next one's answer.
Ahead[s \in Servers] == IF worker[s] = "asked" THEN {s} \cup Ahead[peer[s]] ELSE {s}

\* Somebody ahead waits at a connection that nobody answers.
Held(s) == \E t \in Ahead[s] : Alive(t) /\ worker[t] \in {"unheard", "astray"}

\* Although a primary holds both locks while it waits for the backup, and the
\* backup's main thread needs a lock of its own to answer: again and again a server
\* that lives has taken what clients asked of it and finished every task, unless its
\* second thread was lost when it started.  Nothing else than a connection that is not
\* accepted, or is not the backup's, can hold it up for ever.
TasksFinished ==
  \A s \in Servers :
    []<>(\/ inbox[s] = << >> /\ (op_count[s] = Len(queue[s]) \/ thread[s] = "lost")
         \/ ~Alive(s) \/ Held(s))
=============================================================================
