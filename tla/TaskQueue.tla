----------------------------- MODULE TaskQueue -----------------------------
(***************************************************************************)
(* The write queue of the phase 3 server (tree_skel.c).  Two threads share *)
(* it: the main thread runs the poll loop and calls invoke() for one       *)
(* request at a time; the thread made by pthread_create runs process_task. *)
(* Every write is numbered, queued and answered at once, and carried out   *)
(* later by the second thread; verify(n) asks what became of operation n.  *)
(*                                                                         *)
(* What tree_put and tree_del return is a free choice here (module Tree    *)
(* models the tree); what is kept of a key or of a value is nothing.       *)
(***************************************************************************)
EXTENDS Integers, Sequences

CONSTANTS
  MaxOps,        \* bound: write operations given a number in a behaviour
  FreshTask,     \* what the memory malloc returns for a task_t may contain
  OutOfMemory,   \* whether malloc may fail
  PollFails      \* whether poll may fail, which ends the server

Ops == {"del", "put"}

\* A task_t.  next is "linked" when it points to the following element of
\* queue, "null", or "wild" when uninitialised memory holds some address.
Task == [op_n : Int, op : Ops \cup {"junk"}, isDone : Int,
         next : {"linked", "null", "wild"}]

ASSUME BoundsAssumption ==
  /\ MaxOps \in Nat
  /\ OutOfMemory \in BOOLEAN
  /\ PollFails \in BOOLEAN

ASSUME FreshTaskAssumption ==
  /\ FreshTask \subseteq Task
  /\ \A t \in FreshTask : t.next # "linked"

VARIABLES
  mpc,             \* where the main thread is
  wpc,             \* where the second thread is
  queue_lock,      \* owner of the mutex: "free", "main" or "worker"
  tree_lock,
  queue_not_empty, \* what the condition variable knows of the second thread
  last_assigned,
  op_count,
  queue,           \* the list from queue_head; its last task is not filled yet
  req,             \* the write being invoked: [op, id]
  reply,           \* the answer sent last
  tree,            \* "live", then "freed" and "null" in tree_skel_destroy
  outcome,         \* what the tree operation of the current task returned
  crashed,         \* a wild pointer was followed
  executed,        \* history: tasks applied to the tree, in order
  accepted         \* history: writes acknowledged to clients, in order

mainVars == <<mpc, req, reply, accepted>>
workerVars == <<wpc, op_count, outcome, executed>>
lockVars == <<queue_lock, tree_lock, queue_not_empty>>
vars == <<mpc, wpc, queue_lock, tree_lock, queue_not_empty, last_assigned,
          op_count, queue, req, reply, tree, outcome, crashed, executed, accepted>>

InitSteps == {"create_thread", "init_queue_lock", "init_tree_lock", "init_cond"}
InvokeSteps == {"lock_queue", "enqueue", "assign", "signal", "unlock_queue"}
DestroySteps == {"destroy_tree", "null_tree", "join"}
MainSteps == InitSteps \cup {"poll"} \cup InvokeSteps \cup DestroySteps
WorkerSteps == {"none", "lock", "check", "wait", "blocked", "relock", "fetch",
                "mutate", "mark", "unlock_tree", "unlock_queue", "count"}
Owners == {"free", "main", "worker"}

NoReply == [kind |-> "none", n |-> 0, value |-> 0]
IdReply(n) == [kind |-> "id", n |-> n, value |-> 0]
StatusReply(n, v) == [kind |-> "status", n |-> n, value |-> v]
ReadReply(torn) == [kind |-> "read", n |-> 0, value |-> IF torn THEN 1 ELSE 0]
ErrorReply == [kind |-> "error", n |-> 0, value |-> 0]
Replies == [kind : {"none", "id", "status", "read", "error"}, n : Int, value : Int]

\* The task at the end of the list: malloc made it, nobody has filled it yet.
Unfilled == queue[Len(queue)]

Init ==
  /\ mpc = "create_thread"
  /\ wpc = "none"
  /\ queue_lock = "free"
  /\ tree_lock = "free"
  /\ queue_not_empty = "none"
  /\ last_assigned = 0
  /\ op_count = 0
  /\ queue \in {<<fresh>> : fresh \in FreshTask}
  /\ req = [op |-> "junk", id |-> 0]
  /\ reply = NoReply
  /\ tree = "live"
  /\ outcome = 0
  /\ crashed = FALSE
  /\ executed = << >>
  /\ accepted = << >>

-----------------------------------------------------------------------------
(* tree_skel_init, from the creation of the second thread on. *)

CreateThread ==
  /\ mpc = "create_thread"
  /\ mpc' = "init_queue_lock"
  /\ wpc' = "lock"
  /\ UNCHANGED <<lockVars, last_assigned, op_count, queue, req, reply, tree,
                 outcome, crashed, executed, accepted>>

\* pthread_mutex_init overwrites the mutex: whoever held it does so no more.
InitQueueLock ==
  /\ mpc = "init_queue_lock"
  /\ mpc' = "init_tree_lock"
  /\ queue_lock' = "free"
  /\ UNCHANGED <<workerVars, tree_lock, queue_not_empty, last_assigned, queue,
                 req, reply, tree, crashed, accepted>>

InitTreeLock ==
  /\ mpc = "init_tree_lock"
  /\ mpc' = "init_cond"
  /\ tree_lock' = "free"
  /\ UNCHANGED <<workerVars, queue_lock, queue_not_empty, last_assigned, queue,
                 req, reply, tree, crashed, accepted>>

\* pthread_cond_init overwrites the condition variable: it forgets its waiter.
InitCond ==
  /\ mpc = "init_cond"
  /\ mpc' = "poll"
  /\ queue_not_empty' = "none"
  /\ UNCHANGED <<workerVars, queue_lock, tree_lock, last_assigned, queue,
                 req, reply, tree, crashed, accepted>>

-----------------------------------------------------------------------------
(* The main thread serves requests: writes. *)

RequestWrite(op) ==
  /\ mpc = "poll"
  /\ last_assigned < MaxOps
  /\ mpc' = "lock_queue"
  /\ req' = [op |-> op, id |-> 0]
  /\ reply' = NoReply
  /\ UNCHANGED <<workerVars, lockVars, last_assigned, queue, tree, crashed, accepted>>

\* The number the client will be told is read as soon as the lock is held.
LockQueue ==
  /\ mpc = "lock_queue"
  /\ queue_lock = "free"
  /\ queue_lock' = "main"
  /\ req' = [req EXCEPT !.id = last_assigned]
  /\ mpc' = "enqueue"
  /\ UNCHANGED <<workerVars, tree_lock, queue_not_empty, last_assigned, queue,
                 reply, tree, crashed, accepted>>

\* The walk to the end of the list trusts the next of the unfilled task.
WalkOffQueue ==
  /\ mpc = "enqueue"
  /\ Unfilled.next = "wild"
  /\ crashed' = TRUE
  /\ UNCHANGED <<mainVars, workerVars, lockVars, last_assigned, queue, tree>>

\* Mutant: isDone is not reset.
FilledKeepsIsDone ==
  [op_n |-> last_assigned, op |-> req.op, isDone |-> Unfilled.isDone, next |-> "linked"]

Filled == [op_n |-> last_assigned, op |-> req.op, isDone |-> 0, next |-> "linked"]

\* The last task is filled and followed by a new one, which is not.
Enqueue ==
  /\ mpc = "enqueue"
  /\ Unfilled.next = "null"
  /\ \E fresh \in FreshTask :
        queue' = Append([queue EXCEPT ![Len(queue)] = Filled], fresh)
  /\ mpc' = "assign"
  /\ UNCHANGED <<workerVars, lockVars, last_assigned, req, reply, tree, crashed, accepted>>

\* The error return leaves queue_lock locked.
EnqueueFails ==
  /\ OutOfMemory
  /\ mpc = "enqueue"
  /\ Unfilled.next = "null"
  /\ mpc' = "poll"
  /\ reply' = ErrorReply
  /\ UNCHANGED <<workerVars, lockVars, last_assigned, queue, req, tree, crashed, accepted>>

Assign ==
  /\ mpc = "assign"
  /\ last_assigned' = last_assigned + 1
  /\ mpc' = "signal"
  /\ UNCHANGED <<workerVars, lockVars, queue, req, reply, tree, crashed, accepted>>

\* Mutant: nobody is signalled.
SignalForgotten ==
  /\ mpc = "signal"
  /\ mpc' = "unlock_queue"
  /\ UNCHANGED <<workerVars, lockVars, last_assigned, queue, req, reply, tree,
                 crashed, accepted>>

Signal ==
  /\ mpc = "signal"
  /\ queue_not_empty' = IF queue_not_empty = "waiting" THEN "signalled"
                                                      ELSE queue_not_empty
  /\ mpc' = "unlock_queue"
  /\ UNCHANGED <<workerVars, queue_lock, tree_lock, last_assigned, queue, req,
                 reply, tree, crashed, accepted>>

\* A mutex of the default type does not check who unlocks it.
UnlockQueue ==
  /\ mpc = "unlock_queue"
  /\ queue_lock' = "free"
  /\ mpc' = "poll"
  /\ reply' = IdReply(req.id)
  /\ accepted' = Append(accepted, req)
  /\ UNCHANGED <<workerVars, tree_lock, queue_not_empty, last_assigned, queue,
                 req, tree, crashed>>

-----------------------------------------------------------------------------
(* The main thread serves requests: verify and the reads of the tree. *)

\* The tasks whose number is n, unfilled one included.
Matches(n) == {i \in DOMAIN queue : queue[i].op_n = n}

\* Mutant: the walk goes on after a match, so the last one counts.
StatusOfLastMatch(n) ==
  IF Matches(n) = {}
  THEN -1
  ELSE LET i == CHOOSE j \in Matches(n) : \A k \in Matches(n) : j >= k
       IN  CASE queue[i].isDone = 1  -> 1
             [] queue[i].isDone = -1 -> 2
             [] OTHER                -> 0

\* verify() returns at the first match; isDone of an unfilled task is junk.
StatusOf(n) ==
  IF Matches(n) = {}
  THEN -1
  ELSE LET i == CHOOSE j \in Matches(n) : \A k \in Matches(n) : j <= k
       IN  CASE queue[i].isDone = 1  -> 1
             [] queue[i].isDone = -1 -> 2
             [] OTHER                -> 0

Verify(n) ==
  /\ mpc = "poll"
  /\ Matches(n) # {} \/ Unfilled.next = "null"
  /\ reply' = StatusReply(n, StatusOf(n))
  /\ UNCHANGED <<mpc, req, accepted, workerVars, lockVars, last_assigned, queue,
                 tree, crashed>>

VerifyWalksOff(n) ==
  /\ mpc = "poll"
  /\ Matches(n) = {}
  /\ Unfilled.next = "wild"
  /\ crashed' = TRUE
  /\ UNCHANGED <<mainVars, workerVars, lockVars, last_assigned, queue, tree>>

\* size, height, get and getkeys walk the tree and take no lock.
ReadTree ==
  /\ mpc = "poll"
  /\ reply' = ReadReply(wpc = "mutate")
  /\ UNCHANGED <<mpc, req, accepted, workerVars, lockVars, last_assigned, queue,
                 tree, crashed>>

-----------------------------------------------------------------------------
(* The end of the main loop: tree_skel_destroy. *)

PollError ==
  /\ PollFails
  /\ mpc = "poll"
  /\ mpc' = "destroy_tree"
  /\ UNCHANGED <<workerVars, lockVars, last_assigned, queue, req, reply, tree,
                 crashed, accepted>>

DestroyTree ==
  /\ mpc = "destroy_tree"
  /\ tree' = "freed"
  /\ mpc' = "null_tree"
  /\ UNCHANGED <<workerVars, lockVars, last_assigned, queue, req, reply,
                 crashed, accepted>>

\* Then pthread_join, which never returns: process_task does not end.
NullTree ==
  /\ mpc = "null_tree"
  /\ tree' = "null"
  /\ mpc' = "join"
  /\ UNCHANGED <<workerVars, lockVars, last_assigned, queue, req, reply,
                 crashed, accepted>>

-----------------------------------------------------------------------------
(* The second thread: process_task. *)

WLock ==
  /\ wpc = "lock"
  /\ queue_lock = "free"
  /\ queue_lock' = "worker"
  /\ wpc' = "check"
  /\ UNCHANGED <<mainVars, tree_lock, queue_not_empty, last_assigned, op_count,
                 queue, tree, outcome, crashed, executed>>

WCheck ==
  /\ wpc = "check"
  /\ wpc' = IF last_assigned = op_count THEN "wait" ELSE "fetch"
  /\ UNCHANGED <<mainVars, lockVars, last_assigned, op_count, queue, tree,
                 outcome, crashed, executed>>

\* Mutant: the thread polls the counters instead, and keeps the lock.
WWaitSpins ==
  /\ wpc = "wait"
  /\ wpc' = "check"
  /\ UNCHANGED <<mainVars, lockVars, last_assigned, op_count, queue, tree,
                 outcome, crashed, executed>>

\* pthread_cond_wait: releases the mutex and starts to wait, in one step.
WWait ==
  /\ wpc = "wait"
  /\ queue_lock' = "free"
  /\ queue_not_empty' = "waiting"
  /\ wpc' = "blocked"
  /\ UNCHANGED <<mainVars, tree_lock, last_assigned, op_count, queue, tree,
                 outcome, crashed, executed>>

WWake ==
  /\ wpc = "blocked"
  /\ queue_not_empty = "signalled"
  /\ queue_not_empty' = "none"
  /\ wpc' = "relock"
  /\ UNCHANGED <<mainVars, queue_lock, tree_lock, last_assigned, op_count, queue,
                 tree, outcome, crashed, executed>>

\* POSIX allows pthread_cond_wait to return unasked; nothing makes it do so.
WSpuriousWake ==
  /\ wpc = "blocked"
  /\ queue_not_empty # "signalled"
  /\ queue_not_empty' = "none"
  /\ wpc' = "relock"
  /\ UNCHANGED <<mainVars, queue_lock, tree_lock, last_assigned, op_count, queue,
                 tree, outcome, crashed, executed>>

WRelock ==
  /\ wpc = "relock"
  /\ queue_lock = "free"
  /\ queue_lock' = "worker"
  /\ wpc' = "check"
  /\ UNCHANGED <<mainVars, tree_lock, queue_not_empty, last_assigned, op_count,
                 queue, tree, outcome, crashed, executed>>

\* Mutant: one link too many is followed.
CurrentTooFar == op_count + 2

\* op_count links are followed from queue_head, then tree_lock is taken.
Current == op_count + 1

\* Mutant: the worker does not take tree_lock either.
WFetchUnlocked ==
  /\ wpc = "fetch"
  /\ wpc' = "mutate"
  /\ UNCHANGED <<mainVars, lockVars, last_assigned, op_count, queue, tree,
                 outcome, crashed, executed>>

WFetch ==
  /\ wpc = "fetch"
  /\ tree_lock = "free"
  /\ tree_lock' = "worker"
  /\ wpc' = "mutate"
  /\ UNCHANGED <<mainVars, queue_lock, queue_not_empty, last_assigned, op_count,
                 queue, tree, outcome, crashed, executed>>

\* Mutant: what the tree returns (0 or -1) is kept as it is.
OutcomesUnmapped(op) ==
  CASE op = "put" -> {0}
    [] tree = "null" -> {-1}
    [] OTHER -> {0, -1}

\* tree_del may find no key; tree_put does not fail (it does not check malloc),
\* not even on a NULL tree, for which it makes a tree that is then lost.
Outcomes(op) ==
  CASE op = "put" -> {1}
    [] tree = "null" -> {-1}
    [] OTHER -> {1, -1}

WMutate ==
  /\ wpc = "mutate"
  /\ outcome' \in Outcomes(queue[Current].op)
  /\ executed' = Append(executed, [op_n |-> queue[Current].op_n,
                                   op |-> queue[Current].op,
                                   outcome |-> outcome'])
  /\ wpc' = "mark"
  /\ UNCHANGED <<mainVars, lockVars, last_assigned, op_count, queue, tree, crashed>>

\* tree_skel_destroy frees the tree with no lock and without stopping the
\* thread; tree_create writes through what malloc returned.
WMutateCrashes ==
  /\ wpc = "mutate"
  /\ tree = "freed" \/ (OutOfMemory /\ queue[Current].op = "put")
  /\ crashed' = TRUE
  /\ UNCHANGED <<mainVars, workerVars, lockVars, last_assigned, queue, tree>>

WMark ==
  /\ wpc = "mark"
  /\ queue' = [queue EXCEPT ![Current].isDone = outcome]
  /\ wpc' = "unlock_tree"
  /\ UNCHANGED <<mainVars, lockVars, last_assigned, op_count, tree, outcome,
                 crashed, executed>>

WUnlockTree ==
  /\ wpc = "unlock_tree"
  /\ tree_lock' = "free"
  /\ wpc' = "unlock_queue"
  /\ UNCHANGED <<mainVars, queue_lock, queue_not_empty, last_assigned, op_count,
                 queue, tree, outcome, crashed, executed>>

WUnlockQueue ==
  /\ wpc = "unlock_queue"
  /\ queue_lock' = "free"
  /\ wpc' = "count"
  /\ UNCHANGED <<mainVars, tree_lock, queue_not_empty, last_assigned, op_count,
                 queue, tree, outcome, crashed, executed>>

WCount ==
  /\ wpc = "count"
  /\ op_count' = op_count + 1
  /\ wpc' = "lock"
  /\ UNCHANGED <<mainVars, lockVars, last_assigned, queue, tree, outcome,
                 crashed, executed>>

-----------------------------------------------------------------------------
MainStarts == CreateThread \/ InitQueueLock \/ InitTreeLock \/ InitCond
Invoke == LockQueue \/ WalkOffQueue \/ Enqueue \/ EnqueueFails \/ Assign
          \/ Signal \/ UnlockQueue
Request == \/ \E op \in Ops : RequestWrite(op)
           \/ \E n \in 0..MaxOps : Verify(n) \/ VerifyWalksOff(n)
           \/ ReadTree
Destroy == PollError \/ DestroyTree \/ NullTree

ProcessTask == WLock \/ WCheck \/ WWait \/ WWake \/ WRelock \/ WFetch \/ WMutate
               \/ WMutateCrashes \/ WMark \/ WUnlockTree \/ WUnlockQueue \/ WCount

Next == /\ ~crashed
        /\ MainStarts \/ Invoke \/ Request \/ Destroy \/ ProcessTask \/ WSpuriousWake

\* Both threads are scheduled, and a thread that finds a mutex free again and
\* again gets it; nothing forces a client to send a request, poll to fail or a
\* wait to end unasked.
Fairness == /\ WF_vars(~crashed /\ (MainStarts \/ Invoke))
            /\ WF_vars(~crashed /\ ProcessTask)
            /\ SF_vars(~crashed /\ LockQueue)
            /\ SF_vars(~crashed /\ (WLock \/ WRelock))

Spec == Init /\ [][Next]_vars /\ Fairness

-----------------------------------------------------------------------------
(* Properties. *)

Reports == [op_n : Int, op : Ops \cup {"junk"}, outcome : {1, -1}]
Requests == [op : Ops \cup {"junk"}, id : Nat]

\* The type of every variable.
TypeOK ==
  /\ mpc \in MainSteps
  /\ wpc \in WorkerSteps
  /\ queue_lock \in Owners
  /\ tree_lock \in Owners
  /\ queue_not_empty \in {"none", "waiting", "signalled"}
  /\ last_assigned \in Nat
  /\ op_count \in Nat
  /\ queue \in Seq(Task) /\ queue # << >>
  /\ req \in Requests
  /\ reply \in Replies
  /\ tree \in {"live", "freed", "null"}
  /\ outcome \in {0, 1, -1}
  /\ crashed \in BOOLEAN
  /\ executed \in Seq(Reports)
  /\ accepted \in Seq(Requests)

\* Exactly once and in order: the k-th task the second thread applies is the
\* write that was acknowledged with number k - 1, the same operation, and it is
\* never the unfilled task at the end of the list.  It holds even when the
\* two threads are in the critical section together.
ExecutedInOrder ==
  /\ \A i \in DOMAIN accepted : accepted[i].id = i - 1
  /\ \A i \in DOMAIN executed : executed[i].op_n = i - 1 /\ executed[i].op \in Ops
  /\ \A i \in DOMAIN executed \cap DOMAIN accepted : executed[i].op = accepted[i].op

-----------------------------------------------------------------------------
(* Why ExecutedInOrder holds: an inductive invariant, which no lock is needed *)
(* for.  The second thread reads a task only after last_assigned counts it,   *)
(* and the main thread fills the task before that.                            *)

\* Every task but the last is filled; during assign one of them is not counted.
QueueShape ==
  /\ Len(queue) = last_assigned + (IF mpc = "assign" THEN 2 ELSE 1)
  /\ \A i \in 1..(Len(queue) - 1) : queue[i].op_n = i - 1 /\ queue[i].op \in Ops

\* The worker has a task in hand, and has applied it to the tree.
HasTask == wpc \in {"fetch", "mutate", "mark", "unlock_tree", "unlock_queue", "count"}
Applied == wpc \in {"mark", "unlock_tree", "unlock_queue", "count"}

CountersInv ==
  /\ mpc = "create_thread" => wpc = "none"
  /\ op_count <= last_assigned
  /\ HasTask => op_count < last_assigned

\* The request in hand and the number it was promised.
RequestInv ==
  /\ mpc \in InvokeSteps => req.op \in Ops
  /\ mpc \in {"enqueue", "assign"} => req.id = last_assigned
  /\ mpc \in {"signal", "unlock_queue"} => last_assigned > 0 /\ req.id = last_assigned - 1
  /\ mpc \in {"assign", "signal", "unlock_queue"} => queue[req.id + 1].op = req.op

\* The histories and the list agree.
HistoryInv ==
  /\ Len(executed) = op_count + (IF Applied THEN 1 ELSE 0)
  /\ \A i \in DOMAIN executed : executed[i].op_n = i - 1 /\ executed[i].op = queue[i].op
  /\ Len(accepted) = last_assigned - (IF mpc \in {"signal", "unlock_queue"} THEN 1 ELSE 0)
  /\ \A i \in DOMAIN accepted : accepted[i].id = i - 1 /\ accepted[i].op = queue[i].op

\* isDone of a filled task is the result of the tree operation, once there is one.
StatusInv ==
  /\ wpc = "mark" => outcome = executed[Current].outcome
  /\ \A i \in 1..(Len(queue) - 1) :
       queue[i].isDone = IF i <= op_count \/ (i = Current /\ Applied /\ wpc # "mark")
                         THEN executed[i].outcome ELSE 0

\* The list, the two counters, the request in hand and the two histories agree
\* at every step of both threads.
QueueInv == QueueShape /\ CountersInv /\ RequestInv /\ HistoryInv /\ StatusInv

-----------------------------------------------------------------------------
\* What verify(n) answers for a number that was handed out: 1 or 2 only once
\* the tree operation is over, with its result, 0 only before it is counted, and
\* never that the operation does not exist.
VerifyTruthful ==
  [][ LET n == reply'.n
          v == reply'.value
      IN  reply'.kind = "status" /\ reply' # reply /\ n < last_assigned =>
            /\ v \in {0, 1, 2}
            /\ v = 0 => op_count <= n
            /\ v = 1 => n + 1 \in DOMAIN executed /\ executed[n + 1].outcome = 1
            /\ v = 2 => n + 1 \in DOMAIN executed /\ executed[n + 1].outcome = -1 ]_vars

\* The numbered tasks with what verify would say of them: the log of WriteLog.
LogStatus(isDone) == CASE isDone = 1  -> "done"
                       [] isDone = -1 -> "failed"
                       [] OTHER       -> "pending"
Entry(task) == [op |-> task.op, status |-> LogStatus(task.isDone)]
Log == [i \in 1..last_assigned |-> Entry(queue[i])]

WL == INSTANCE WriteLog WITH log <- Log

\* The queue, the threads and their locks implement the write log.
ImplementsWriteLog == WL!Spec

\* tree_skel_init creates the thread before it initialises the locks.  A start
\* is harmless when the thread has not locked the queue when queue_lock is
\* initialised and does not wait when the condition variable is.
Harmless ==
  /\ mpc = "init_queue_lock" => wpc = "lock"
  /\ mpc \in {"init_tree_lock", "init_cond"} => wpc # "blocked"

HarmlessStart == []Harmless

HoldsQueue(thread) ==
  IF thread = "main" THEN mpc \in {"enqueue", "assign", "signal", "unlock_queue"}
                     ELSE wpc \in {"check", "wait", "fetch", "mutate", "mark",
                                   "unlock_tree", "unlock_queue"}

LocksHeld ==
  /\ \A thread \in {"main", "worker"} : HoldsQueue(thread) <=> queue_lock = thread
  /\ wpc \in {"mutate", "mark", "unlock_tree"} <=> tree_lock = "worker"

\* After a harmless start a thread between lock and unlock of queue_lock owns
\* it, so the two are never there together, and the worker mutates the tree
\* owning tree_lock.
LocksProtect == HarmlessStart => []LocksHeld

\* After a harmless start every write that got a number is carried out: no
\* signal is lost between the test of the counters and the wait.
EventuallyExecuted ==
  HarmlessStart =>
    \A n \in 0..(MaxOps - 1) : (last_assigned > n) ~> (op_count > n)

\* invoke() is not stuck on queue_lock: it "Retorna 0 (OK) ou -1 (erro...)"
\* (tree_skel.c:148-151), whatever happened when the server started.  It is only
\* true of a server that never runs out of memory: after EnqueueFails the next
\* write waits for a lock that its own thread holds.
InvokeReturns == (mpc = "lock_queue") ~> (mpc = "poll")

=============================================================================
