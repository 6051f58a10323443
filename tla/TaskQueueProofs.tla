-------------------------- MODULE TaskQueueProofs --------------------------
(***************************************************************************)
(* Theorems about TaskQueue for every bound on the writes, every content   *)
(* of malloc'ed memory, with or without failures of malloc and poll, and   *)
(* every interleaving of the start of the second thread with the           *)
(* initialisation of the locks.                                            *)
(***************************************************************************)
EXTENDS TaskQueue, TLAPS

Inv == TypeOK /\ QueueInv

USE BoundsAssumption, FreshTaskAssumption

\* The server starts with an unfilled task, nothing counted and empty histories.
LEMMA InitInv == Init => Inv
<1> SUFFICES ASSUME Init PROVE Inv
  OBVIOUS
<1> PICK fresh \in FreshTask : queue = <<fresh>>
  BY DEF Init
<1>1. TypeOK
  <2>1. queue \in Seq(Task) /\ queue # << >>
    OBVIOUS
  <2>2. req \in Requests /\ reply \in Replies
    BY DEF Init, Requests, Replies, NoReply
  <2>3. executed \in Seq(Reports) /\ accepted \in Seq(Requests)
    BY DEF Init
  <2>4. QED
    BY <2>1, <2>2, <2>3 DEF Init, TypeOK, MainSteps, InitSteps, WorkerSteps, Owners
<1>2. QueueShape /\ CountersInv
  BY DEF Init, QueueShape, CountersInv, HasTask
<1>3. RequestInv
  BY DEF Init, RequestInv, InvokeSteps
<1>4. HistoryInv
  <2>1. Len(executed) = 0 /\ DOMAIN executed = {} /\ Len(accepted) = 0 /\ DOMAIN accepted = {}
    BY DEF Init
  <2>2. op_count = 0 /\ last_assigned = 0 /\ wpc = "none" /\ mpc = "create_thread"
    BY DEF Init
  <2>3. Len(executed) = op_count + (IF Applied THEN 1 ELSE 0)
    BY <2>1, <2>2 DEF Applied
  <2>4. Len(accepted) = last_assigned - (IF mpc \in {"signal", "unlock_queue"} THEN 1 ELSE 0)
    <3>1. mpc \notin {"signal", "unlock_queue"}
      BY <2>2
    <3>2. last_assigned - 0 = 0
      BY <2>2
    <3>3. QED
      BY <3>1, <3>2, <2>1
  <2>5. QED
    BY <2>1, <2>3, <2>4 DEF HistoryInv
<1>5. StatusInv
  BY DEF Init, StatusInv, Applied
<1>6. QED
  BY <1>1, <1>2, <1>3, <1>4, <1>5 DEF Inv, QueueInv

\* A step of the main thread keeps every variable in its type.
LEMMA MainTypeOK ==
  ASSUME Inv, MainStarts \/ Invoke \/ Request \/ Destroy
  PROVE  TypeOK'
<1> TypeOK /\ QueueInv
  BY DEF Inv
<1> USE DEF TypeOK, mainVars, workerVars, lockVars,
            MainSteps, InitSteps, InvokeSteps, DestroySteps
<1>1. CASE CreateThread
  BY <1>1 DEF CreateThread, WorkerSteps
<1>2. CASE InitQueueLock
  BY <1>2 DEF InitQueueLock, Owners
<1>3. CASE InitTreeLock
  BY <1>3 DEF InitTreeLock, Owners
<1>4. CASE InitCond
  BY <1>4 DEF InitCond
<1>5. ASSUME NEW op \in Ops, RequestWrite(op) PROVE TypeOK'
  BY <1>5 DEF RequestWrite, Requests, Replies, NoReply
<1>6. CASE LockQueue
  <2>1. req' \in Requests
    BY <1>6 DEF LockQueue, Requests
  <2>2. QED
    BY <1>6, <2>1 DEF LockQueue, Owners
<1>7. CASE WalkOffQueue
  BY <1>7 DEF WalkOffQueue
<1>8. CASE Enqueue
  <2>1. Filled \in Task
    BY <1>8 DEF Filled, Task, Enqueue, QueueInv, RequestInv
  <2>2. queue' \in Seq(Task) /\ queue' # << >>
    BY <1>8, <2>1 DEF Enqueue
  <2>3. QED
    BY <1>8, <2>2 DEF Enqueue
<1>9. CASE EnqueueFails
  BY <1>9 DEF EnqueueFails, Replies, ErrorReply
<1>10. CASE Assign
  BY <1>10 DEF Assign
<1>11. CASE Signal
  BY <1>11 DEF Signal
<1>12. CASE UnlockQueue
  <2>1. reply' \in Replies
    BY <1>12 DEF UnlockQueue, IdReply, Replies, Requests
  <2>2. QED
    BY <1>12, <2>1 DEF UnlockQueue, Owners
<1>13. ASSUME NEW n \in 0..MaxOps, Verify(n) \/ VerifyWalksOff(n) PROVE TypeOK'
  <2>1. StatusReply(n, StatusOf(n)) \in Replies
    BY DEF StatusReply, StatusOf, Replies
  <2>2. QED
    BY <1>13, <2>1 DEF Verify, VerifyWalksOff
<1>14. CASE ReadTree
  BY <1>14 DEF ReadTree, ReadReply, Replies
<1>15. CASE Destroy
  BY <1>15 DEF Destroy, PollError, DestroyTree, NullTree
<1>16. QED
  BY <1>1, <1>2, <1>3, <1>4, <1>5, <1>6, <1>7, <1>8, <1>9, <1>10, <1>11, <1>12,
     <1>13, <1>14, <1>15 DEF MainStarts, Invoke, Request

\* A step of the second thread keeps every variable in its type.
LEMMA WorkerTypeOK ==
  ASSUME Inv, ProcessTask \/ WSpuriousWake
  PROVE  TypeOK'
<1> TypeOK /\ QueueInv
  BY DEF Inv
<1> USE DEF TypeOK, mainVars, workerVars, lockVars, WorkerSteps
<1>1. CASE WLock \/ WRelock
  BY <1>1 DEF WLock, WRelock, Owners
<1>2. CASE WCheck
  BY <1>2 DEF WCheck
<1>3. CASE WWait
  BY <1>3 DEF WWait, Owners
<1>4. CASE WWake \/ WSpuriousWake
  BY <1>4 DEF WWake, WSpuriousWake
<1>5. CASE WFetch
  BY <1>5 DEF WFetch, Owners
<1>6. CASE WMutate
  <2>1. Current \in 1..(Len(queue) - 1)
    BY <1>6 DEF WMutate, Current, QueueInv, QueueShape, CountersInv, HasTask
  <2>2. queue[Current] \in Task
    BY <2>1
  <2>3. outcome' \in {1, -1}
    BY <1>6 DEF WMutate, Outcomes
  <2>4. [op_n |-> queue[Current].op_n, op |-> queue[Current].op,
         outcome |-> outcome'] \in Reports
    BY <2>2, <2>3 DEF Task, Reports
  <2>5. executed' \in Seq(Reports)
    BY <1>6, <2>4 DEF WMutate
  <2>6. QED
    BY <1>6, <2>3, <2>5 DEF WMutate
<1>7. CASE WMutateCrashes
  BY <1>7 DEF WMutateCrashes
<1>8. CASE WMark
  <2>1. Current \in 1..Len(queue)
    BY <1>8 DEF WMark, Current, QueueInv, QueueShape, CountersInv, HasTask
  <2>2. [queue[Current] EXCEPT !.isDone = outcome] \in Task
    <3>1. queue[Current] \in Task /\ outcome \in Int
      BY <2>1
    <3>2. QED
      BY <3>1 DEF Task
  <2>3. queue' \in Seq(Task) /\ queue' # << >>
    BY <1>8, <2>1, <2>2 DEF WMark
  <2>4. QED
    BY <1>8, <2>3 DEF WMark
<1>9. CASE WUnlockTree
  BY <1>9 DEF WUnlockTree, Owners
<1>10. CASE WUnlockQueue
  BY <1>10 DEF WUnlockQueue, Owners
<1>11. CASE WCount
  BY <1>11 DEF WCount
<1>12. QED
  BY <1>1, <1>2, <1>3, <1>4, <1>5, <1>6, <1>7, <1>8, <1>9, <1>10, <1>11
     DEF ProcessTask

\* The agreement is about these variables only.
LEMMA SameQueueInv ==
  ASSUME QueueInv,
         UNCHANGED <<mpc, wpc, last_assigned, op_count, queue, req, outcome, executed, accepted>>
  PROVE  QueueInv'
BY DEF QueueInv, QueueShape, CountersInv, RequestInv, HistoryInv, StatusInv, HasTask,
       Applied, Current, InvokeSteps

\* A step of the main thread keeps the list, the counters and the histories in
\* agreement: Enqueue fills the one task the worker cannot see yet.
LEMMA MainQueueInv ==
  ASSUME Inv, MainStarts \/ Invoke \/ Request \/ Destroy
  PROVE  QueueInv'
<1> TypeOK /\ QueueInv
  BY DEF Inv
<1> USE DEF TypeOK, QueueInv, QueueShape, CountersInv, RequestInv, HistoryInv, StatusInv,
            HasTask, Applied, Current, InvokeSteps, mainVars, workerVars, lockVars
<1>1. CASE CreateThread
  BY <1>1 DEF CreateThread
<1>2. CASE InitQueueLock \/ InitTreeLock \/ InitCond
  BY <1>2 DEF InitQueueLock, InitTreeLock, InitCond
<1>3. ASSUME NEW op \in Ops, RequestWrite(op) PROVE QueueInv'
  BY <1>3 DEF RequestWrite
<1>4. CASE LockQueue
  <2> HIDE DEF QueueShape, CountersInv, RequestInv, HistoryInv, StatusInv, HasTask, Applied
  <2>1. /\ mpc = "lock_queue" /\ mpc' = "enqueue"
        /\ req' = [req EXCEPT !.id = last_assigned]
        /\ UNCHANGED <<wpc, last_assigned, op_count, queue, outcome, executed, accepted>>
    BY <1>4 DEF LockQueue
  <2>2. QueueShape' /\ CountersInv'
    BY <2>1 DEF QueueShape, CountersInv, HasTask
  <2>3. RequestInv'
    BY <2>1 DEF RequestInv, Requests
  <2>4. HistoryInv' /\ StatusInv'
    BY <2>1 DEF HistoryInv, StatusInv, Applied
  <2>5. QED
    BY <2>2, <2>3, <2>4
<1>5. CASE WalkOffQueue \/ EnqueueFails
  <2> HIDE DEF QueueShape, CountersInv, RequestInv, HistoryInv, StatusInv, HasTask, Applied
  <2>1. CASE WalkOffQueue
    BY <2>1, SameQueueInv DEF WalkOffQueue
  <2>2. CASE EnqueueFails
    <3>1. /\ mpc = "enqueue" /\ mpc' = "poll"
          /\ UNCHANGED <<wpc, last_assigned, op_count, queue, req, outcome, executed, accepted>>
      BY <2>2 DEF EnqueueFails
    <3>2. QueueShape' /\ CountersInv' /\ RequestInv'
      BY <3>1 DEF QueueShape, CountersInv, RequestInv, HasTask
    <3>3. HistoryInv' /\ StatusInv'
      BY <3>1 DEF HistoryInv, StatusInv, Applied
    <3>4. QED
      BY <3>2, <3>3
  <2>3. QED
    BY <1>5, <2>1, <2>2
<1>6. CASE Enqueue
  <2> HIDE DEF QueueShape, CountersInv, RequestInv, HistoryInv, StatusInv, HasTask, Applied
  <2> PICK fresh \in FreshTask :
        queue' = Append([queue EXCEPT ![Len(queue)] = Filled], fresh)
    BY <1>6 DEF Enqueue
  <2>1. /\ mpc = "enqueue" /\ mpc' = "assign"
        /\ UNCHANGED <<wpc, last_assigned, op_count, req, outcome, executed, accepted>>
    BY <1>6 DEF Enqueue
  <2>2. Len(queue) = last_assigned + 1
    BY <2>1 DEF QueueShape
  <2>3. /\ Len(queue') = Len(queue) + 1
        /\ \A i \in 1..(Len(queue) - 1) : queue'[i] = queue[i]
        /\ queue'[Len(queue)] = Filled
    BY <2>2
  <2>4. /\ Filled.op_n = last_assigned /\ Filled.op = req.op /\ Filled.isDone = 0
        /\ req.op \in Ops /\ req.id = last_assigned
    BY <2>1 DEF Filled, RequestInv
  <2>5. QueueShape'
    <3>1. ASSUME NEW i \in 1..(Len(queue') - 1)
          PROVE  queue'[i].op_n = i - 1 /\ queue'[i].op \in Ops
      <4>1. CASE i = Len(queue)
        BY <4>1, <2>2, <2>3, <2>4
      <4>2. CASE i # Len(queue)
        BY <4>2, <2>1, <2>2, <2>3 DEF QueueShape
      <4>3. QED
        BY <4>1, <4>2
    <3>2. Len(queue') = last_assigned' + 2
      BY <2>1, <2>2, <2>3
    <3>3. QED
      BY <3>1, <3>2, <2>1 DEF QueueShape
  <2>6. CountersInv'
    BY <2>1 DEF CountersInv, HasTask
  <2>7. RequestInv'
    BY <2>1, <2>2, <2>3, <2>4 DEF RequestInv
  <2>8. op_count <= last_assigned /\ (HasTask => op_count < last_assigned)
    BY DEF CountersInv
  <2>9. HistoryInv'
    <3>1. Len(executed) <= last_assigned /\ Len(accepted) = last_assigned
      BY <2>1, <2>8 DEF HistoryInv, Applied, HasTask
    <3>2. \A i \in DOMAIN executed : queue'[i] = queue[i]
      BY <3>1, <2>2, <2>3
    <3>3. \A i \in DOMAIN accepted : queue'[i] = queue[i]
      BY <3>1, <2>2, <2>3
    <3>4. QED
      BY <3>2, <3>3, <2>1 DEF HistoryInv, Applied
  <2>10. StatusInv'
    <3>1. ASSUME NEW i \in 1..(Len(queue') - 1)
          PROVE  queue'[i].isDone = IF i <= op_count \/ (i = Current /\ Applied /\ wpc # "mark")
                                    THEN executed[i].outcome ELSE 0
      <4>1. CASE i = Len(queue)
        <5>1. i = last_assigned + 1 /\ queue'[i].isDone = 0
          BY <4>1, <2>2, <2>3, <2>4
        <5>2. ~(i <= op_count) /\ ~(i = Current /\ Applied)
          BY <5>1, <2>8 DEF Applied, HasTask
        <5>3. QED
          BY <5>1, <5>2
      <4>2. CASE i # Len(queue)
        BY <4>2, <2>2, <2>3 DEF StatusInv
      <4>3. QED
        BY <4>1, <4>2
    <3>2. wpc = "mark" => outcome = executed[Current].outcome
      BY DEF StatusInv
    <3>3. QED
      BY <3>1, <3>2, <2>1 DEF StatusInv, Applied
  <2>11. QED
    BY <2>5, <2>6, <2>7, <2>9, <2>10
<1>7. CASE Assign
  <2> HIDE DEF QueueShape, CountersInv, RequestInv, HistoryInv, StatusInv, HasTask, Applied
  <2>1. QueueShape'
    BY <1>7 DEF Assign, QueueShape
  <2>2. CountersInv'
    BY <1>7 DEF Assign, CountersInv, HasTask
  <2>3. RequestInv'
    BY <1>7 DEF Assign, RequestInv
  <2>4. HistoryInv' /\ StatusInv'
    <3>1. /\ mpc = "assign" /\ mpc' = "signal" /\ last_assigned' = last_assigned + 1
          /\ UNCHANGED <<wpc, op_count, queue, outcome, executed, accepted>>
      BY <1>7 DEF Assign
    <3>2. HistoryInv'
      BY <3>1 DEF HistoryInv, Applied
    <3>3. StatusInv'
      BY <3>1 DEF StatusInv, Applied
    <3>4. QED
      BY <3>2, <3>3
  <2>5. QED
    BY <2>1, <2>2, <2>3, <2>4
<1>8. CASE Signal
  BY <1>8 DEF Signal
<1>9. CASE UnlockQueue
  <2> HIDE DEF QueueShape, CountersInv, RequestInv, HistoryInv, StatusInv, HasTask, Applied
  <2>1. QueueShape' /\ CountersInv' /\ RequestInv'
    BY <1>9 DEF UnlockQueue, QueueShape, CountersInv, RequestInv, HasTask
  <2>2. Len(accepted) = last_assigned - 1 /\ accepted' = Append(accepted, req)
    BY <1>9 DEF UnlockQueue, HistoryInv
  <2>3. req.id = last_assigned - 1 /\ queue[last_assigned].op = req.op
    BY <1>9 DEF UnlockQueue, RequestInv
  <2>4. HistoryInv'
    BY <1>9, <2>2, <2>3 DEF UnlockQueue, HistoryInv, Applied
  <2>5. StatusInv'
    BY <1>9 DEF UnlockQueue, StatusInv, Applied
  <2>6. QED
    BY <2>1, <2>4, <2>5
<1>10. ASSUME NEW n \in 0..MaxOps, Verify(n) \/ VerifyWalksOff(n) PROVE QueueInv'
  <2> HIDE DEF QueueInv
  <2>1. QED
    BY <1>10, SameQueueInv DEF Verify, VerifyWalksOff
<1>11. CASE ReadTree
  <2> HIDE DEF QueueInv
  <2>1. QED
    BY <1>11, SameQueueInv DEF ReadTree
<1>12. CASE Destroy
  <2> HIDE DEF QueueShape, CountersInv, RequestInv, HistoryInv, StatusInv, HasTask, Applied
  <2>1. /\ mpc \in {"poll", "destroy_tree", "null_tree"} /\ mpc' \in DestroySteps
        /\ UNCHANGED <<wpc, last_assigned, op_count, queue, req, outcome, executed, accepted>>
    BY <1>12 DEF Destroy, PollError, DestroyTree, NullTree, DestroySteps
  <2>2. QueueShape' /\ CountersInv' /\ RequestInv'
    BY <2>1 DEF QueueShape, CountersInv, RequestInv, HasTask, DestroySteps
  <2>3. HistoryInv' /\ StatusInv'
    BY <2>1 DEF HistoryInv, StatusInv, Applied, DestroySteps
  <2>4. QED
    BY <2>2, <2>3
<1>13. QED
  <2> HIDE DEF QueueInv
  <2>1. QED
    BY <1>1, <1>2, <1>3, <1>4, <1>5, <1>6, <1>7, <1>8, <1>9, <1>10, <1>11, <1>12
       DEF MainStarts, Invoke, Request

\* A step of the second thread keeps them in agreement too: WMutate and WMark
\* work on the task at op_count + 1, which is filled and counted.
LEMMA WorkerQueueInv ==
  ASSUME Inv, ProcessTask \/ WSpuriousWake
  PROVE  QueueInv'
<1> TypeOK /\ QueueInv
  BY DEF Inv
<1> USE DEF TypeOK, QueueInv, QueueShape, CountersInv, RequestInv, HistoryInv, StatusInv,
            HasTask, Applied, Current, mainVars, workerVars, lockVars
<1>1. CASE WLock \/ WRelock \/ WWait \/ WWake \/ WSpuriousWake
  BY <1>1 DEF WLock, WRelock, WWait, WWake, WSpuriousWake
<1>2. CASE WCheck
  <2> HIDE DEF QueueShape, CountersInv, RequestInv, HistoryInv, StatusInv, HasTask, Applied
  <2>1. CountersInv'
    BY <1>2 DEF WCheck, CountersInv, HasTask
  <2>2. QueueShape' /\ RequestInv'
    BY <1>2 DEF WCheck, QueueShape, RequestInv
  <2>3. HistoryInv' /\ StatusInv'
    BY <1>2 DEF WCheck, HistoryInv, StatusInv, Applied
  <2>4. QED
    BY <2>1, <2>2, <2>3
<1>3. CASE WFetch
  BY <1>3 DEF WFetch
<1>4. CASE WMutate
  <2> DEFINE report == [op_n |-> queue[Current].op_n, op |-> queue[Current].op,
                        outcome |-> outcome']
  <2>1. Current \in 1..(Len(queue) - 1) /\ Len(executed) = op_count
    BY <1>4 DEF WMutate
  <2>2. /\ executed' = Append(executed, report)
        /\ Len(executed') = Current
        /\ executed'[Current] = report
        /\ \A i \in 1..op_count : executed'[i] = executed[i]
    BY <1>4, <2>1 DEF WMutate
  <2> HIDE DEF QueueShape, CountersInv, RequestInv, HistoryInv, StatusInv, HasTask, Applied
  <2>3. report.op_n = op_count /\ report.op = queue[Current].op /\ report.outcome = outcome'
    BY <2>1 DEF QueueShape
  <2>4. wpc = "mutate" /\ wpc' = "mark" /\ Applied' /\ ~Applied
    BY <1>4 DEF WMutate, Applied
  <2>5. UNCHANGED <<mpc, last_assigned, op_count, queue, accepted, req>>
    BY <1>4 DEF WMutate
  <2> HIDE DEF report
  <2>6. HistoryInv'
    BY <2>1, <2>2, <2>3, <2>4, <2>5 DEF HistoryInv
  <2>7. StatusInv'
    BY <2>1, <2>2, <2>3, <2>4, <2>5 DEF StatusInv
  <2>8. QueueShape' /\ CountersInv' /\ RequestInv'
    BY <2>4, <2>5 DEF QueueShape, CountersInv, RequestInv, HasTask, InvokeSteps
  <2>9. QED
    BY <2>6, <2>7, <2>8
<1>5. CASE WMutateCrashes
  BY <1>5 DEF WMutateCrashes
<1>6. CASE WMark
  <2> HIDE DEF QueueShape, CountersInv, RequestInv, HistoryInv, StatusInv, HasTask, Applied
  <2>1. Current \in 1..(Len(queue) - 1) /\ Current \in 1..Len(queue)
    <3>1. wpc = "mark"
      BY <1>6 DEF WMark
    <3>2. op_count < last_assigned
      BY <3>1 DEF CountersInv, HasTask
    <3>3. Len(queue) >= last_assigned + 1
      BY DEF QueueShape
    <3>4. QED
      BY <3>2, <3>3 DEF Current
  <2>2. UNCHANGED <<mpc, last_assigned, op_count, executed, accepted, req, outcome>>
    BY <1>6 DEF WMark
  <2>3. wpc = "mark" /\ wpc' = "unlock_tree" /\ Applied' /\ Applied
    BY <1>6 DEF WMark, Applied
  <2>4. queue[Current] \in Task
    BY <2>1
  <2>5. Len(queue') = Len(queue) /\ DOMAIN queue' = 1..Len(queue)
    BY <1>6 DEF WMark
  <2>6. /\ queue'[Current] = [queue[Current] EXCEPT !.isDone = outcome]
        /\ \A i \in 1..Len(queue) \ {Current} : queue'[i] = queue[i]
    BY <1>6, <2>1 DEF WMark
  <2>7. queue'[Current].isDone = outcome
    BY <2>4, <2>6 DEF Task
  <2>8. \A i \in 1..Len(queue) : queue'[i].op_n = queue[i].op_n /\ queue'[i].op = queue[i].op
    BY <2>4, <2>6 DEF Task
  <2> HIDE DEF Current
  <2>9. QueueShape' /\ CountersInv'
    <3>1. QueueShape'
      <4>1. Len(queue') = last_assigned' + (IF mpc' = "assign" THEN 2 ELSE 1)
        BY <2>2, <2>5 DEF QueueShape
      <4>2. Len(queue') = Len(queue) /\ Len(queue) \in Nat
        BY <2>5
      <4>3. ASSUME NEW i \in 1..(Len(queue') - 1)
            PROVE  queue'[i].op_n = i - 1 /\ queue'[i].op \in Ops
        <5>1. i \in 1..(Len(queue) - 1) /\ i \in 1..Len(queue)
          BY <4>2
        <5>2. queue[i].op_n = i - 1 /\ queue[i].op \in Ops
          BY <5>1 DEF QueueShape
        <5>3. QED
          BY <5>1, <5>2, <2>8
      <4>4. QED
        BY <4>1, <4>3 DEF QueueShape
    <3>2. CountersInv'
      BY <2>2, <2>3 DEF CountersInv, HasTask
    <3>3. QED
      BY <3>1, <3>2
  <2>10. RequestInv'
    <3>1. mpc \in {"assign", "signal", "unlock_queue"} => req.id + 1 \in 1..Len(queue)
      BY DEF QueueShape, RequestInv
    <3>2. QED
      BY <3>1, <2>2, <2>8 DEF RequestInv
  <2>11. HistoryInv'
    <3>1. /\ \A i \in DOMAIN executed : i \in 1..Len(queue)
          /\ \A i \in DOMAIN accepted : i \in 1..Len(queue)
      BY <2>3 DEF QueueShape, HistoryInv, CountersInv, HasTask
    <3>2. QED
      BY <3>1, <2>2, <2>3, <2>8 DEF HistoryInv
  <2>12. StatusInv'
    <3>1. outcome = executed[Current].outcome
      BY <2>3 DEF StatusInv
    <3>2. Current = op_count + 1 /\ Current' = Current
      BY <2>2 DEF Current
    <3>3. ASSUME NEW i \in 1..(Len(queue) - 1)
          PROVE  queue'[i].isDone = IF i <= op_count \/ i = Current
                                    THEN executed[i].outcome ELSE 0
      <4>1. CASE i = Current
        BY <4>1, <3>1, <2>7
      <4>2. CASE i # Current
        BY <4>2, <2>1, <2>3, <2>6 DEF StatusInv
      <4>3. QED
        BY <4>1, <4>2
    <3>4. QED
      BY <3>2, <3>3, <2>2, <2>3, <2>5 DEF StatusInv
  <2>13. QED
    BY <2>9, <2>10, <2>11, <2>12
<1>7. CASE WUnlockTree \/ WUnlockQueue
  <2> HIDE DEF QueueShape, CountersInv, RequestInv, HistoryInv, StatusInv, HasTask, Applied
  <2>1. /\ wpc \in {"unlock_tree", "unlock_queue"} /\ wpc' \in {"unlock_queue", "count"}
        /\ UNCHANGED <<mpc, last_assigned, op_count, queue, executed, accepted, req, outcome>>
    BY <1>7 DEF WUnlockTree, WUnlockQueue
  <2>2. QueueShape' /\ RequestInv'
    BY <2>1 DEF QueueShape, RequestInv
  <2>3. CountersInv'
    BY <2>1 DEF CountersInv, HasTask
  <2>4. HistoryInv' /\ StatusInv'
    BY <2>1 DEF HistoryInv, StatusInv, Applied
  <2>5. QED
    BY <2>2, <2>3, <2>4
<1>8. CASE WCount
  <2> HIDE DEF QueueShape, CountersInv, RequestInv, HistoryInv, StatusInv, HasTask, Applied
  <2>1. wpc = "count" /\ wpc' = "lock" /\ op_count' = op_count + 1
    BY <1>8 DEF WCount
  <2>2. UNCHANGED <<mpc, last_assigned, queue, executed, accepted, req, outcome>>
    BY <1>8 DEF WCount
  <2>3. QueueShape' /\ CountersInv' /\ RequestInv'
    <3>1. QueueShape' /\ RequestInv'
      BY <2>1, <2>2 DEF QueueShape, RequestInv
    <3>2. CountersInv'
      BY <2>1, <2>2 DEF CountersInv, HasTask
    <3>3. QED
      BY <3>1, <3>2
  <2>4. HistoryInv'
    BY <2>1, <2>2 DEF HistoryInv, Applied
  <2>5. Applied /\ ~Applied' /\ wpc # "mark" /\ op_count \in Nat
    BY <2>1 DEF Applied
  <2>6. \A i \in Nat : i <= op_count' <=> i <= op_count \/ i = Current
    BY <2>1, <2>5
  <2>7. ASSUME NEW i \in 1..(Len(queue) - 1)
        PROVE  queue[i].isDone = IF i <= op_count' THEN executed[i].outcome ELSE 0
    BY <2>5, <2>6 DEF StatusInv
  <2>8. StatusInv'
    BY <2>1, <2>2, <2>5, <2>7 DEF StatusInv
  <2>9. QED
    BY <2>3, <2>4, <2>8
<1>9. QED
  BY <1>1, <1>2, <1>3, <1>4, <1>5, <1>6, <1>7, <1>8 DEF ProcessTask

\* Inv is inductive.
LEMMA NextInv == Inv /\ [Next]_vars => Inv'
<1> SUFFICES ASSUME Inv, [Next]_vars PROVE Inv'
  OBVIOUS
<1>1. CASE MainStarts \/ Invoke \/ Request \/ Destroy
  BY <1>1, MainTypeOK, MainQueueInv DEF Inv
<1>2. CASE ProcessTask \/ WSpuriousWake
  BY <1>2, WorkerTypeOK, WorkerQueueInv DEF Inv
<1>3. CASE UNCHANGED vars
  BY <1>3 DEF vars, Inv, TypeOK, QueueInv, QueueShape, CountersInv, RequestInv, HistoryInv,
              StatusInv, HasTask, Applied, Current
<1>4. QED
  BY <1>1, <1>2, <1>3 DEF Next

\* The inductive invariant holds in every reachable state.
LEMMA InvAlways == Spec => []Inv
<1>1. QED
  BY InitInv, NextInv, PTL DEF Spec

\* Every variable stays in its type, for the whole life of the server.
THEOREM TypeCorrect == Spec => []TypeOK
<1>1. Inv => TypeOK
  BY DEF Inv
<1>2. QED
  BY <1>1, InvAlways, PTL

\* The list, the counters, the request in hand and the histories agree, even
\* when the two threads are in the critical section at the same time.
THEOREM QueueCorrect == Spec => []QueueInv
<1>1. Inv => QueueInv
  BY DEF Inv
<1>2. QED
  BY <1>1, InvAlways, PTL

\* Writes are carried out exactly once, in the order of the numbers their
\* clients were given (process_task and the write cases of invoke).
THEOREM FifoCorrect == Spec => []ExecutedInOrder
<1>1. Inv => ExecutedInOrder
  <2> SUFFICES ASSUME Inv PROVE ExecutedInOrder
    OBVIOUS
  <2> USE DEF Inv, TypeOK, QueueInv
  <2>1. \A i \in DOMAIN accepted : accepted[i].id = i - 1
    BY DEF HistoryInv
  <2>2. \A i \in DOMAIN executed : i \in 1..(Len(queue) - 1)
    <3>1. Len(queue) >= last_assigned + 1
      BY DEF QueueShape
    <3>2. Len(executed) <= last_assigned
      BY DEF HistoryInv, CountersInv, HasTask, Applied
    <3>3. QED
      BY <3>1, <3>2
  <2>3. \A i \in DOMAIN executed : executed[i].op_n = i - 1 /\ executed[i].op \in Ops
    BY <2>2 DEF HistoryInv, QueueShape
  <2>4. \A i \in DOMAIN executed \cap DOMAIN accepted : executed[i].op = accepted[i].op
    BY DEF HistoryInv
  <2>5. QED
    BY <2>1, <2>3, <2>4 DEF ExecutedInOrder
<1>2. QED
  BY <1>1, InvAlways, PTL

\* A write gets its place in the log when last_assigned counts it.
LEMMA AssignAccepts == Inv /\ Assign => WL!Accept(req.op) /\ req.op \in Ops
<1> SUFFICES ASSUME Inv, Assign PROVE WL!Accept(req.op) /\ req.op \in Ops
  OBVIOUS
<1> TypeOK /\ QueueShape /\ CountersInv /\ RequestInv /\ HistoryInv /\ StatusInv
  BY DEF Inv, QueueInv
<1> PICK new \in Nat : new = last_assigned + 1
  BY DEF TypeOK
<1>1. /\ last_assigned' = new /\ last_assigned \in Nat
      /\ queue' = queue /\ op_count \in Nat /\ op_count <= last_assigned
      /\ Len(queue) = new + 1
  BY DEF Assign, TypeOK, CountersInv, QueueShape
<1>2. queue[new].op = req.op /\ req.op \in Ops
  BY DEF Assign, RequestInv, InvokeSteps, TypeOK
<1>3. queue[new].isDone = 0
  <2>1. ~(new <= op_count) /\ new \in 1..(Len(queue) - 1)
    BY <1>1
  <2>2. new = Current => ~Applied
    BY <1>1 DEF Current, CountersInv, HasTask, Applied
  <2>3. QED
    BY <2>1, <2>2 DEF StatusInv
<1>4. Entry(queue[new]) = [op |-> req.op, status |-> "pending"]
  BY <1>2, <1>3 DEF Entry, LogStatus
<1>5. Log' = [i \in 1..new |-> Entry(queue[i])]
  BY <1>1 DEF Log
<1>6. Append(Log, Entry(queue[new])) = [i \in 1..new |-> Entry(queue[i])]
  <2>1. Log \in Seq({Entry(queue[i]) : i \in 1..new}) /\ Len(Log) = last_assigned
    BY <1>1 DEF Log
  <2>2. QED
    BY <2>1, <1>1 DEF Log
<1>7. Log' = Append(Log, [op |-> req.op, status |-> "pending"])
  BY <1>4, <1>5, <1>6
<1>8. QED
  BY <1>2, <1>7 DEF WL!Accept

\* Marking a task is the step at which the abstract log executes its operation.
LEMMA MarkExecutes ==
  Inv /\ WMark => \E outcm \in {"done", "failed"} : WL!Execute(Current, outcm)
<1> SUFFICES ASSUME Inv, WMark
             PROVE  WL!Execute(Current, LogStatus(outcome))
                      /\ LogStatus(outcome) \in {"done", "failed"}
  OBVIOUS
<1> TypeOK /\ QueueShape /\ CountersInv /\ RequestInv /\ HistoryInv /\ StatusInv
  BY DEF Inv, QueueInv
<1>1. /\ wpc = "mark" /\ op_count \in Nat /\ last_assigned \in Nat
      /\ op_count < last_assigned /\ last_assigned' = last_assigned
  BY DEF WMark, TypeOK, CountersInv, HasTask
<1>2. Current \in 1..last_assigned /\ last_assigned <= Len(queue) - 1
  BY <1>1 DEF Current, QueueShape, TypeOK
<1>3. outcome = executed[Current].outcome /\ Current \in DOMAIN executed
  BY <1>1 DEF StatusInv, HistoryInv, Current, Applied, TypeOK
<1>4. \A i \in DOMAIN executed : executed[i].outcome \in {1, -1}
  <2> TAKE i \in DOMAIN executed
  <2>1. executed[i] \in Reports
    BY DEF TypeOK
  <2>2. QED
    BY <2>1 DEF Reports
<1>5. LogStatus(outcome) \in {"done", "failed"}
  BY <1>3, <1>4 DEF LogStatus
<1>6. queue[Current].isDone = 0
  BY <1>1, <1>2 DEF StatusInv, Current
<1>7. \A i \in 1..(Current - 1) : Log[i].status # "pending"
  <2> TAKE i \in 1..(Current - 1)
  <2>1. i \in 1..last_assigned /\ i <= op_count /\ i \in 1..(Len(queue) - 1)
    BY <1>1, <1>2 DEF Current, TypeOK
  <2>2. i \in DOMAIN executed
    BY <2>1, <1>1 DEF HistoryInv, TypeOK
  <2>3. queue[i].isDone \in {1, -1}
    BY <2>1, <2>2, <1>4 DEF StatusInv
  <2>4. QED
    BY <2>1, <2>3 DEF Log, Entry, LogStatus
<1>8. Log[Current].status = "pending" /\ Current \in DOMAIN Log
  BY <1>2, <1>6 DEF Log, Entry, LogStatus
<1>9. Log' = [Log EXCEPT ![Current].status = LogStatus(outcome)]
  <2>1. \A i \in 1..last_assigned : i \in 1..Len(queue) /\ queue[i] \in Task
    BY <1>1, <1>2 DEF TypeOK
  <2>2. /\ queue'[Current] = [queue[Current] EXCEPT !.isDone = outcome]
        /\ \A i \in 1..last_assigned : i # Current => queue'[i] = queue[i]
    <3>1. queue' = [queue EXCEPT ![Current].isDone = outcome] /\ queue \in Seq(Task)
      BY DEF WMark, TypeOK
    <3>2. Current \in DOMAIN queue /\ \A i \in 1..last_assigned : i \in DOMAIN queue
      BY <2>1, <1>2, <3>1
    <3> HIDE DEF Current
    <3>3. QED
      BY <3>1, <3>2
  <2>3. Entry(queue'[Current]) = [Entry(queue[Current]) EXCEPT !.status = LogStatus(outcome)]
    <3>1. queue'[Current].op = queue[Current].op /\ queue'[Current].isDone = outcome
      BY <2>1, <2>2, <1>2 DEF Task
    <3>2. QED
      BY <3>1 DEF Entry
  <2>4. Log' = [i \in 1..last_assigned |-> Entry(queue'[i])]
    BY <1>1 DEF Log
  <2>5. \A i \in 1..last_assigned : i # Current => Entry(queue'[i]) = Log[i]
    BY <2>2 DEF Log
  <2>6. Entry(queue'[Current]) = [Log[Current] EXCEPT !.status = LogStatus(outcome)]
    BY <2>3, <1>2 DEF Log
  <2>7. DOMAIN Log = 1..last_assigned
    BY DEF Log
  <2> HIDE DEF Current
  <2>8. QED
    BY <2>4, <2>5, <2>6, <2>7, <1>2
<1>10. QED
  BY <1>5, <1>7, <1>8, <1>9 DEF WL!Execute

\* Every other step leaves the log as it is: Enqueue writes past its end.
LEMMA OthersKeepLog ==
  ASSUME Inv, [Next]_vars, ~Assign, ~WMark
  PROVE  UNCHANGED Log
<1>1. CASE Enqueue
  <2> PICK fresh \in FreshTask :
        queue' = Append([queue EXCEPT ![Len(queue)] = Filled], fresh)
    BY <1>1 DEF Enqueue
  <2>1. Len(queue) = last_assigned + 1 /\ last_assigned' = last_assigned /\ queue \in Seq(Task)
    BY <1>1 DEF Enqueue, Inv, TypeOK, QueueInv, QueueShape
  <2>2. last_assigned \in Nat
    BY DEF Inv, TypeOK
  <2>3. \A i \in 1..last_assigned : queue'[i] = queue[i]
    BY <2>1, <2>2
  <2>4. QED
    BY <2>1, <2>3 DEF Log
<1>2. CASE ~Enqueue
  <2> USE DEF mainVars, workerVars, lockVars
  <2>1. CASE MainStarts \/ Destroy
    BY <2>1 DEF MainStarts, CreateThread, InitQueueLock, InitTreeLock, InitCond,
                Destroy, PollError, DestroyTree, NullTree, Log
  <2>2. CASE Invoke
    BY <2>2, <1>2 DEF Invoke, LockQueue, WalkOffQueue, EnqueueFails, Signal, UnlockQueue, Log
  <2>3. CASE Request
    BY <2>3 DEF Request, RequestWrite, Verify, VerifyWalksOff, ReadTree, Log
  <2>4. CASE ProcessTask \/ WSpuriousWake
    BY <2>4 DEF ProcessTask, WLock, WCheck, WWait, WWake, WRelock, WFetch, WMutate,
                WMutateCrashes, WUnlockTree, WUnlockQueue, WCount, WSpuriousWake, Log
  <2>5. CASE UNCHANGED vars
    BY <2>5 DEF vars, Log
  <2>6. QED
    BY <2>1, <2>2, <2>3, <2>4, <2>5 DEF Next
<1>3. QED
  BY <1>1, <1>2

\* tree_skel.c implements the write log: with its queue, its two threads and its
\* locks, right or wrong, the numbered tasks are a log executed in order.
THEOREM QueueImplementsLog == Spec => ImplementsWriteLog
<1>1. Init => WL!Init
  <2> SUFFICES ASSUME Init PROVE Log = << >>
    BY DEF WL!Init
  <2>1. last_assigned = 0
    BY DEF Init
  <2>2. QED
    BY <2>1 DEF Log
<1>2. Inv /\ [Next]_vars => [WL!Next]_Log
  <2> SUFFICES ASSUME Inv, [Next]_vars PROVE [WL!Next]_Log
    OBVIOUS
  <2>1. CASE Assign
    <3>1. req.op \in WL!Ops
      BY <2>1, AssignAccepts DEF Ops, WL!Ops
    <3>2. QED
      BY <2>1, <3>1, AssignAccepts DEF WL!Next
  <2>2. CASE WMark
    BY <2>2, MarkExecutes DEF WL!Next, WL!Execute
  <2>3. CASE ~Assign /\ ~WMark
    BY <2>3, OthersKeepLog
  <2>4. QED
    BY <2>1, <2>2, <2>3
<1>3. QED
  BY <1>1, <1>2, InvAlways, PTL DEF Spec, ImplementsWriteLog, WL!Spec

\* The walk of verify() stops at the task of a number that was handed out.
LEMMA VerifyFindsTask ==
  ASSUME Inv, mpc = "poll", NEW n \in Nat, n < last_assigned
  PROVE  /\ n + 1 \in 1..(Len(queue) - 1)
         /\ StatusOf(n) = CASE queue[n + 1].isDone = 1  -> 1
                            [] queue[n + 1].isDone = -1 -> 2
                            [] OTHER                    -> 0
<1>1. queue \in Seq(Task) /\ last_assigned \in Nat /\ Len(queue) = last_assigned + 1
  BY DEF Inv, TypeOK, QueueInv, QueueShape
<1>2. n + 1 \in 1..(Len(queue) - 1) /\ n + 1 \in DOMAIN queue
  BY <1>1
<1>3. \A i \in 1..(Len(queue) - 1) : queue[i].op_n = i - 1
  BY DEF Inv, QueueInv, QueueShape
<1>4. n + 1 \in Matches(n)
  BY <1>2, <1>3 DEF Matches
<1>5. \A i \in Matches(n) : n + 1 <= i
  BY <1>1, <1>3 DEF Matches
<1>6. (CHOOSE j \in Matches(n) : \A k \in Matches(n) : j <= k) = n + 1
  <2>1. \A j \in Matches(n) : j \in Nat
    BY <1>1 DEF Matches
  <2>2. \A j \in Matches(n) : (\A k \in Matches(n) : j <= k) => j = n + 1
    BY <1>4, <1>5, <2>1
  <2>3. QED
    BY <1>4, <1>5, <2>2
<1>7. QED
  BY <1>2, <1>4, <1>6 DEF StatusOf

\* verify() never misleads the client about a number it was given: "done" and
\* "failed" only after the tree operation, "pending" only before it is counted.
THEOREM VerifyIsTruthful == Spec => VerifyTruthful
<1> DEFINE Truth ==
      LET n == reply'.n
          v == reply'.value
      IN  reply'.kind = "status" /\ reply' # reply /\ n < last_assigned =>
            /\ v \in {0, 1, 2}
            /\ v = 0 => op_count <= n
            /\ v = 1 => n + 1 \in DOMAIN executed /\ executed[n + 1].outcome = 1
            /\ v = 2 => n + 1 \in DOMAIN executed /\ executed[n + 1].outcome = -1
<1>1. ASSUME Inv, NEW n \in Nat, Verify(n) PROVE Truth
  <2> SUFFICES ASSUME n < last_assigned
               PROVE  LET v == StatusOf(n) IN
                      /\ v \in {0, 1, 2}
                      /\ v = 0 => op_count <= n
                      /\ v = 1 => n + 1 \in DOMAIN executed /\ executed[n + 1].outcome = 1
                      /\ v = 2 => n + 1 \in DOMAIN executed /\ executed[n + 1].outcome = -1
    BY <1>1 DEF Verify, StatusReply
  <2>1. mpc = "poll" /\ n + 1 \in 1..(Len(queue) - 1)
    BY <1>1, VerifyFindsTask DEF Verify
  <2>2. StatusOf(n) = CASE queue[n + 1].isDone = 1  -> 1
                        [] queue[n + 1].isDone = -1 -> 2
                        [] OTHER                    -> 0
    BY <1>1, <2>1, VerifyFindsTask
  <2>3. op_count \in Nat /\ executed \in Seq(Reports) /\ HistoryInv /\ StatusInv
    BY <1>1 DEF Inv, TypeOK, QueueInv
  <2>4. \A i \in DOMAIN executed : executed[i].outcome \in {1, -1}
    <3> TAKE i \in DOMAIN executed
    <3>1. executed[i] \in Reports
      BY <2>3
    <3>2. QED
      BY <3>1 DEF Reports
  <2>5. CASE n + 1 <= op_count \/ (n + 1 = Current /\ Applied /\ wpc # "mark")
    <3>1. queue[n + 1].isDone = executed[n + 1].outcome
      BY <2>1, <2>3, <2>5 DEF StatusInv
    <3>2. n + 1 \in DOMAIN executed
      BY <2>3, <2>5 DEF HistoryInv, Current
    <3>3. queue[n + 1].isDone \in {1, -1}
      BY <3>1, <3>2, <2>4
    <3>4. StatusOf(n) = IF queue[n + 1].isDone = 1 THEN 1 ELSE 2
      BY <3>3, <2>2
    <3>5. QED
      BY <3>1, <3>2, <3>3, <3>4
  <2>6. CASE ~(n + 1 <= op_count \/ (n + 1 = Current /\ Applied /\ wpc # "mark"))
    <3>1. queue[n + 1].isDone = 0
      BY <2>1, <2>3, <2>6 DEF StatusInv
    <3>2. StatusOf(n) = 0
      BY <3>1, <2>2
    <3>3. op_count <= n
      BY <2>3, <2>6
    <3>4. QED
      BY <3>2, <3>3
  <2>7. QED
    BY <2>5, <2>6
<1>2. ASSUME [Next]_vars, \A n \in 0..MaxOps : ~Verify(n)
      PROVE  reply'.kind = "status" => reply' = reply
  <2> USE DEF mainVars
  <2>1. CASE MainStarts \/ Destroy
    BY <2>1 DEF MainStarts, CreateThread, InitQueueLock, InitTreeLock, InitCond,
                Destroy, PollError, DestroyTree, NullTree
  <2>2. CASE Invoke
    BY <2>2 DEF Invoke, LockQueue, WalkOffQueue, Enqueue, EnqueueFails, Assign, Signal,
                UnlockQueue, IdReply, ErrorReply
  <2>3. CASE Request
    BY <2>3, <1>2 DEF Request, RequestWrite, VerifyWalksOff, ReadTree, NoReply, ReadReply
  <2>4. CASE ProcessTask \/ WSpuriousWake
    BY <2>4 DEF ProcessTask, WLock, WCheck, WWait, WWake, WRelock, WFetch, WMutate,
                WMutateCrashes, WMark, WUnlockTree, WUnlockQueue, WCount, WSpuriousWake
  <2>5. CASE UNCHANGED vars
    BY <2>5 DEF vars
  <2>6. QED
    BY <2>1, <2>2, <2>3, <2>4, <2>5, <1>2 DEF Next
<1>3. Inv /\ [Next]_vars => [Truth]_vars
  BY <1>1, <1>2
<1>4. QED
  BY <1>3, InvAlways, PTL DEF Spec, VerifyTruthful

-----------------------------------------------------------------------------
(* The locks. *)

\* While the locks are initialised there is no task yet, so the second thread holds no
\* tree_lock for InitTreeLock to break.
LockInv == LocksHeld /\ (mpc \in InitSteps => last_assigned = 0)

LEMMA LocksMean ==
  LocksHeld <=>
    /\ mpc \in {"enqueue", "assign", "signal", "unlock_queue"} <=> queue_lock = "main"
    /\ wpc \in {"check", "wait", "fetch", "mutate", "mark", "unlock_tree", "unlock_queue"}
         <=> queue_lock = "worker"
    /\ wpc \in {"mutate", "mark", "unlock_tree"} <=> tree_lock = "worker"
BY DEF LocksHeld, HoldsQueue

LEMMA LocksMeanNext ==
  LocksHeld' <=>
    /\ mpc' \in {"enqueue", "assign", "signal", "unlock_queue"} <=> queue_lock' = "main"
    /\ wpc' \in {"check", "wait", "fetch", "mutate", "mark", "unlock_tree", "unlock_queue"}
         <=> queue_lock' = "worker"
    /\ wpc' \in {"mutate", "mark", "unlock_tree"} <=> tree_lock' = "worker"
BY DEF LocksHeld, HoldsQueue

LEMMA MainLocks ==
  ASSUME Inv, LockInv, Harmless, ~OutOfMemory, MainStarts \/ Invoke \/ Request \/ Destroy
  PROVE  LockInv'
<1> USE LocksMean, LocksMeanNext DEF LockInv, InitSteps, mainVars, workerVars, lockVars
<1>1. CASE CreateThread
  BY <1>1 DEF CreateThread, Inv, QueueInv, CountersInv
<1>2. CASE InitQueueLock
  BY <1>2 DEF InitQueueLock, Harmless
<1>3. CASE InitTreeLock
  <2>1. last_assigned = 0 /\ op_count \in Nat
    BY <1>3 DEF InitTreeLock, Inv, TypeOK
  <2>2. wpc \notin {"mutate", "mark", "unlock_tree"}
    BY <2>1 DEF Inv, QueueInv, CountersInv, HasTask
  <2>. QED BY <1>3, <2>2 DEF InitTreeLock
<1>4. CASE InitCond
  BY <1>4 DEF InitCond
<1>5. CASE Request \/ Destroy
  BY <1>5 DEF Request, RequestWrite, Verify, VerifyWalksOff, ReadTree,
              Destroy, PollError, DestroyTree, NullTree
<1>6. CASE Invoke
  <2>1. CASE LockQueue
    BY <2>1 DEF LockQueue
  <2>2. CASE WalkOffQueue \/ Enqueue \/ Assign \/ Signal
    BY <2>2 DEF WalkOffQueue, Enqueue, Assign, Signal
  <2>3. CASE UnlockQueue
    BY <2>3 DEF UnlockQueue
  <2>. QED BY <1>6, <2>1, <2>2, <2>3 DEF Invoke, EnqueueFails
<1>. QED BY <1>1, <1>2, <1>3, <1>4, <1>5, <1>6 DEF MainStarts

LEMMA WorkerLocks ==
  ASSUME LockInv, ProcessTask \/ WSpuriousWake
  PROVE  LockInv'
<1> USE LocksMean, LocksMeanNext DEF LockInv, mainVars, workerVars, lockVars
<1>1. UNCHANGED <<mpc, last_assigned>>
  BY DEF ProcessTask, WLock, WCheck, WWait, WWake, WRelock, WFetch, WMutate, WMutateCrashes,
         WMark, WUnlockTree, WUnlockQueue, WCount, WSpuriousWake
<1>2. CASE WLock \/ WRelock
  BY <1>1, <1>2 DEF WLock, WRelock
<1>3. CASE WCheck \/ WWait
  BY <1>1, <1>3 DEF WCheck, WWait
<1>4. CASE WWake \/ WSpuriousWake
  BY <1>1, <1>4 DEF WWake, WSpuriousWake
<1>5. CASE WFetch \/ WMutate
  BY <1>1, <1>5 DEF WFetch, WMutate
<1>6. CASE WMutateCrashes \/ WMark
  BY <1>1, <1>6 DEF WMutateCrashes, WMark
<1>7. CASE WUnlockTree \/ WUnlockQueue \/ WCount
  BY <1>1, <1>7 DEF WUnlockTree, WUnlockQueue, WCount
<1>. QED BY <1>2, <1>3, <1>4, <1>5, <1>6, <1>7 DEF ProcessTask

\* If malloc does not fail and the second thread has not run into the initialisation of
\* the locks (tree_skel.c:46-64), nobody changes the list or the tree without owning
\* their locks, and the two threads are never between lock and unlock together.
THEOREM LocksCorrect == ~OutOfMemory => (Spec => LocksProtect)
<1> SUFFICES ASSUME ~OutOfMemory PROVE Spec => LocksProtect
  OBVIOUS
<1>1. Init => LockInv
  BY LocksMean DEF Init, LockInv
<1>2. Inv /\ LockInv /\ Harmless /\ [Next]_vars => LockInv'
  <2> SUFFICES ASSUME Inv, LockInv, Harmless, [Next]_vars PROVE LockInv'
    OBVIOUS
  <2>1. CASE UNCHANGED vars
    BY <2>1, LocksMean, LocksMeanNext DEF vars, LockInv
  <2>2. CASE Next
    BY <2>2, MainLocks, WorkerLocks DEF Next
  <2>. QED BY <2>1, <2>2
<1>3. LockInv => LocksHeld
  BY DEF LockInv
<1>. QED BY <1>1, <1>2, <1>3, InvAlways, PTL DEF Spec, LocksProtect, HarmlessStart
=============================================================================
