------------------------- MODULE QueuedServerProofs -------------------------
(***************************************************************************)
(* Theorems about QueuedServer, for any number of clients, requests and    *)
(* writes, any set of keys and a tree of any size: its types, and that     *)
(* what verify calls done is there for whoever reads next.                 *)
(***************************************************************************)
EXTENDS QueuedServer, TLAPS

TP == INSTANCE TreeProofs

-----------------------------------------------------------------------------
(* The inductive invariant. *)

Tasks == [op : {"put", "del"}, key : Keys, isDone : {0, 1, -1}, data : Values \cup {None}]

QueueTyped ==
  /\ tasks \in Seq(Tasks)
  /\ \A i \in DOMAIN tasks : tasks[i].op = "put" =>
       tasks[i].isDone # -1 /\ tasks[i].data \in Values

\* The tasks are done in the order of their numbers, and the second thread is at
\* work only while one is left.
DoneInOrder ==
  /\ \A i, j \in DOMAIN tasks : i < j /\ tasks[j].isDone # 0 => tasks[i].isDone # 0
  /\ working => \E i \in DOMAIN tasks : tasks[i].isDone = 0

WellAsked(r) ==
  /\ r.opcode \in {10, 20, 30, 40, 50, 60, 70}
  /\ r.opcode \in {20, 30, 40} => r.key \in Keys
  /\ r.opcode = 40 => r.data \in Values

ClientsTyped ==
  /\ server \in {"up", "down", "astray"} /\ asked \in 0..MaxRequests
  /\ client \in [Clients -> {"off", "idle", "waits", "left"}]
  /\ DOMAIN request = Clients /\ DOMAIN answer = Clients
  /\ DOMAIN given = Clients /\ DOMAIN told = Clients
  /\ \A c \in Clients : request[c] = None \/ WellAsked(request[c])

\* What an answer on its way says is so.
AnswersTrue ==
  \A c \in Clients : answer[c] # None =>
    /\ client[c] = "waits"
    /\ answer[c].opcode \in {21, 41} => answer[c].tree_info \in 0..(Len(tasks) - 1)
    /\ answer[c] = [opcode |-> 71, tree_info |-> 1] =>
         \A n \in given[c] : request[c].tree_info = n => tasks[n + 1].isDone = 1

\* What verify has called done was done, and stays so.
ToldIsDone ==
  \A c \in Clients :
    /\ given[c] \subseteq 0..(Len(tasks) - 1)
    /\ told[c] \subseteq given[c]
    /\ \A n \in told[c] : tasks[n + 1].isDone = 1

AllPuts == \A i \in DOMAIN tasks : tasks[i].op = "put"
DonePuts(k) == {i \in DOMAIN tasks : tasks[i].key = k /\ tasks[i].isDone = 1}

\* As long as nobody deletes, the tree is what the puts that were done have made.
TreeHoldsPuts ==
  AllPuts =>
    /\ TP!PutInv
    /\ \A k \in Keys :
         /\ TP!Found(k) <=> DonePuts(k) # {}
         /\ \A i \in DonePuts(k) : (\A j \in DonePuts(k) : j <= i) => TP!Get(k) = tasks[i].data

IInv == /\ TP!IInv /\ QueueTyped /\ DoneInOrder /\ ClientsTyped
        /\ AnswersTrue /\ ToldIsDone /\ TreeHoldsPuts

-----------------------------------------------------------------------------
(* The tree of QueuedServer is the one of TreeProofs. *)

LEMMA KeysAndValues == TP!TreeAssumption
BY ConstantsAssumption DEF TP!TreeAssumption

LEMMA SameWalk ==
  ASSUME NEW k
  PROVE  T!End(k) = TP!End(k) /\ T!Found(k) = TP!Found(k)
<1>1. T!End(k) = TP!End(k)
  BY DEF T!End, TP!End, T!OnWalk, TP!OnWalk, T!HasEntry, TP!HasEntry, T!EntryAt, TP!EntryAt,
         T!SideOf, TP!SideOf, T!NULL, TP!NULL
<1>. QED
  BY <1>1 DEF T!Found, TP!Found, T!HasEntry, TP!HasEntry, T!EntryAt, TP!EntryAt, T!NULL, TP!NULL

LEMMA SamePut ==
  ASSUME NEW k, NEW v, T!Put(k, v)
  PROVE  TP!Put(k, v)
<1>1. T!End(k) = TP!End(k) /\ T!Found(k) = TP!Found(k)
  BY SameWalk
<1>2. T!FreeId = TP!FreeId
  BY DEF T!FreeId, TP!FreeId, T!EntryIds, TP!EntryIds
<1>3. CASE T!PutReplaces(k, v)
  BY <1>1, <1>3 DEF T!PutReplaces, TP!PutReplaces, TP!Put
<1>4. CASE T!PutFills(k, v)
  BY <1>1, <1>2, <1>4
  DEF T!PutFills, TP!PutFills, TP!Put, T!HasEntry, TP!HasEntry, T!NULL, TP!NULL, T!NewEntry, TP!NewEntry
<1>5. CASE T!PutGrows(k, v)
  BY <1>1, <1>2, <1>5
  DEF T!PutGrows, TP!PutGrows, TP!Put, T!HasEntry, TP!HasEntry, T!NULL, TP!NULL, T!NewEntry, TP!NewEntry,
      T!Child, TP!Child, T!SideOf, TP!SideOf, T!EntryAt, TP!EntryAt,
      T!Cardinality, TP!Cardinality
<1>. QED BY <1>3, <1>4, <1>5 DEF T!Put

LEMMA SameDel ==
  ASSUME NEW k, T!Del(k)
  PROVE  TP!Del(k)
<1>1. T!End(k) = TP!End(k) /\ TP!Found(k)
  BY SameWalk DEF T!Del
<1>2. T!NULL = TP!NULL /\ T!Sides = TP!Sides
  BY DEF T!NULL, TP!NULL, T!Sides, TP!Sides
<1>3. \A p, side : T!Child(p, side) = TP!Child(p, side)
  BY DEF T!Child, TP!Child
<1>4. \A p : T!Children(p) = TP!Children(p)
  BY <1>2, <1>3 DEF T!Children, TP!Children
<1>5. \A id : T!Destroy(id) => TP!Destroy(id)
  BY <1>2 DEF T!Destroy, TP!Destroy, T!Keep, TP!Keep, T!Pointed, TP!Pointed
<1>6. T!Keep(entries) => TP!Keep(entries)
  BY <1>2 DEF T!Keep, TP!Keep, T!Pointed, TP!Pointed
<1>7. ASSUME NEW p, T!DelLeaf(p)
      PROVE  TP!DelLeaf(p)
  BY <1>2, <1>4, <1>5, <1>7 DEF T!DelLeaf, TP!DelLeaf
<1>8. ASSUME NEW p, T!DelOnlyChild(p)
      PROVE  TP!DelOnlyChild(p)
  BY <1>2, <1>4, <1>5, <1>8
  DEF T!DelOnlyChild, TP!DelOnlyChild, T!Child, TP!Child, T!IsUnder, TP!IsUnder
<1>9. ASSUME NEW p, T!DelTwoChildren(p)
      PROVE  TP!DelTwoChildren(p)
  <2>1. T!Successor(p) = TP!Successor(p)
    BY DEF T!Successor, TP!Successor, T!Child, TP!Child, T!IsUnder, TP!IsUnder
  <2>. QED BY <1>2, <1>4, <1>6, <1>9, <2>1 DEF T!DelTwoChildren, TP!DelTwoChildren
<1>. QED BY <1>1, <1>7, <1>8, <1>9 DEF T!Del, TP!Del

LEMMA SameTypes == TP!IInv => T!TypeOK
<1>1. TP!TypeOK => T!TypeOK
  BY DEF T!TypeOK, TP!TypeOK, T!Sides, TP!Sides, T!EntryIds, TP!EntryIds, T!NULL, TP!NULL,
         T!Pointed, TP!Pointed
<1>. QED BY <1>1, KeysAndValues, TP!InvariantTypes

-----------------------------------------------------------------------------
(* The tasks. *)

LEMMA TasksAre ==
  ASSUME QueueTyped
  PROVE  /\ Len(tasks) \in Nat /\ DOMAIN tasks = 1..Len(tasks)
         /\ \A i \in DOMAIN tasks : tasks[i] \in Tasks
BY DEF QueueTyped

LEMMA NextTaskIs ==
  ASSUME QueueTyped, \E i \in DOMAIN tasks : tasks[i].isDone = 0
  PROVE  /\ NextTask \in DOMAIN tasks /\ tasks[NextTask].isDone = 0
         /\ \A j \in 1..(NextTask - 1) : tasks[j].isDone # 0
<1> DEFINE left == {i \in DOMAIN tasks : tasks[i].isDone = 0}
<1>1. left \subseteq Nat /\ left # {} /\ DOMAIN tasks = 1..Len(tasks) /\ Len(tasks) \in Nat
  BY TasksAre
<1> HIDE DEF left
<1>2. PICK i \in left : \A j \in left : i <= j
  BY <1>1, KeysAndValues, TP!Smallest
<1> USE DEF left
<1>3. i \in DOMAIN tasks /\ tasks[i].isDone = 0 /\ \A j \in 1..(i - 1) : tasks[j].isDone # 0
  <2>1. ASSUME NEW j \in 1..(i - 1), tasks[j].isDone = 0
        PROVE  FALSE
    <3>1. i \in 1..Len(tasks) /\ j \in 1..Len(tasks) /\ j < i
      BY <1>1
    <3>. QED BY <1>1, <1>2, <2>1, <3>1
  <2>. QED BY <2>1
<1>. QED BY <1>3 DEF NextTask

\* What a step may do to the list: add a task, and decide one that was open.
TasksStay ==
  /\ Len(tasks') \in Nat /\ Len(tasks) <= Len(tasks')
  /\ \A i \in DOMAIN tasks : tasks[i].isDone = 1 => tasks'[i].isDone = 1

QueuePart == TP!IInv /\ QueueTyped /\ DoneInOrder /\ TreeHoldsPuts

LEMMA SameTreeKeeps ==
  ASSUME TP!IInv, UNCHANGED theTree
  PROVE  /\ TP!IInv'
         /\ TP!PutInv => TP!PutInv'
         /\ \A k : TP!Found(k)' = TP!Found(k) /\ TP!Get(k)' = TP!Get(k)
<1>1. UNCHANGED TP!vars
  BY DEF theTree, TP!vars
<1>. QED BY <1>1, KeysAndValues, TP!StutterKeeps, TP!StutterPuts, TP!StutterFinds

\* Steps that leave the list and the tree alone.
LEMMA QuietKeepsQueue ==
  ASSUME QueuePart, UNCHANGED <<theTree, tasks>>,
         working' => \E i \in DOMAIN tasks : tasks[i].isDone = 0
  PROVE  QueuePart' /\ TasksStay
<1>1. tasks' = tasks /\ Len(tasks) \in Nat
  BY TasksAre DEF QueuePart
<1>2. TP!IInv' /\ (TP!PutInv => TP!PutInv')
      /\ \A k : TP!Found(k)' = TP!Found(k) /\ TP!Get(k)' = TP!Get(k)
  BY SameTreeKeeps DEF QueuePart
<1>3. QueueTyped'
  BY <1>1 DEF QueuePart, QueueTyped
<1>4. DoneInOrder'
  BY <1>1 DEF QueuePart, DoneInOrder
<1>5. \A k : DonePuts(k)' = DonePuts(k)
  BY <1>1 DEF DonePuts
<1>6. TreeHoldsPuts'
  BY <1>1, <1>2, <1>5 DEF QueuePart, TreeHoldsPuts, AllPuts
<1>. QED BY <1>1, <1>2, <1>3, <1>4, <1>6 DEF QueuePart, TasksStay

LEMMA WriteKeepsQueue ==
  ASSUME QueuePart, ClientsTyped, NEW c \in Clients, InvokePut(c) \/ InvokeDel(c)
  PROVE  QueuePart' /\ TasksStay
<1>1. PICK new \in Tasks :
        /\ tasks' = Append(tasks, new)
        /\ new.isDone = 0 /\ (new.op = "put" => new.data \in Values)
  <2>1. request[c] # None => WellAsked(request[c])
    BY DEF ClientsTyped
  <2>2. CASE InvokePut(c)
    <3> DEFINE new == [op |-> "put", key |-> request[c].key, isDone |-> 0, data |-> request[c].data]
    <3>1. new.key \in Keys /\ new.data \in Values
      BY <2>1, <2>2 DEF InvokePut, InvokeWrite, Pending, WellAsked
    <3>2. tasks' = Append(tasks, new)
      BY <2>2 DEF InvokePut, InvokeWrite
    <3>3. new \in Tasks
      BY <3>1 DEF Tasks
    <3>. QED BY <3>1, <3>2, <3>3
  <2>3. CASE InvokeDel(c)
    <3> DEFINE new == [op |-> "del", key |-> request[c].key, isDone |-> 0, data |-> None]
    <3>1. new.key \in Keys
      BY <2>1, <2>3 DEF InvokeDel, InvokeWrite, Pending, WellAsked
    <3>2. tasks' = Append(tasks, new)
      BY <2>3 DEF InvokeDel, InvokeWrite
    <3>3. new \in Tasks
      BY <3>1 DEF Tasks
    <3>. QED BY <3>2, <3>3
  <2>. QED BY <2>2, <2>3
<1> DEFINE n == Len(tasks)
<1>2. tasks \in Seq(Tasks) /\ n \in Nat /\ DOMAIN tasks = 1..n
  BY TasksAre DEF QueuePart, QueueTyped
<1>3. /\ tasks' \in Seq(Tasks) /\ Len(tasks') = n + 1 /\ DOMAIN tasks' = 1..(n + 1)
      /\ \A i \in 1..n : tasks'[i] = tasks[i]
      /\ tasks'[n + 1] = new
  BY <1>1, <1>2
<1>4. \A i \in DOMAIN tasks' : i \in DOMAIN tasks \/ i = n + 1
  BY <1>2, <1>3
<1>5. UNCHANGED theTree /\ ~working'
  BY DEF InvokePut, InvokeDel, InvokeWrite
<1> HIDE DEF n
<1>6. QueueTyped'
  BY <1>1, <1>2, <1>3, <1>4 DEF QueuePart, QueueTyped
<1>7. DoneInOrder'
  <2>1. SUFFICES ASSUME NEW i \in DOMAIN tasks', NEW j \in DOMAIN tasks', i < j, tasks'[j].isDone # 0
                 PROVE  tasks'[i].isDone # 0
    BY <1>5 DEF DoneInOrder
  <2>2. j # n + 1
    BY <1>1, <1>3, <2>1
  <2>3. i \in 1..n /\ j \in 1..n
    BY <1>2, <1>3, <2>1, <2>2
  <2>. QED BY <1>2, <1>3, <2>1, <2>3 DEF QueuePart, DoneInOrder
<1>8. TreeHoldsPuts'
  <2>1. SUFFICES ASSUME AllPuts'
                 PROVE  /\ TP!PutInv'
                        /\ \A k \in Keys :
                             /\ TP!Found(k)' <=> DonePuts(k)' # {}
                             /\ \A i \in DonePuts(k)' :
                                  (\A j \in DonePuts(k)' : j <= i) => TP!Get(k)' = tasks'[i].data
    BY DEF TreeHoldsPuts
  <2>2. AllPuts
    BY <1>2, <1>3, <2>1 DEF AllPuts
  <2>3. \A k : DonePuts(k)' = DonePuts(k)
    BY <1>1, <1>2, <1>3, <1>4 DEF DonePuts
  <2>4. \A k : \A i \in DonePuts(k) : tasks'[i] = tasks[i]
    BY <1>2, <1>3 DEF DonePuts
  <2>5. TP!IInv
    BY DEF QueuePart
  <2>. QED BY <1>5, <2>2, <2>3, <2>4, <2>5, SameTreeKeeps DEF QueuePart, TreeHoldsPuts
<1>9. TasksStay
  BY <1>2, <1>3 DEF TasksStay
<1>. QED BY <1>5, <1>6, <1>7, <1>8, <1>9, SameTreeKeeps DEF QueuePart

\* The end of a task: the next one is decided, and what it was decided to be shows
\* that all before it are.
LEMMA FinishesNext ==
  ASSUME QueuePart, working, NEW isDone \in {1, -1}, Finishes(isDone),
         isDone = -1 => tasks[NextTask].op # "put"
  PROVE  /\ QueueTyped' /\ DoneInOrder' /\ TasksStay
         /\ NextTask \in DOMAIN tasks /\ tasks[NextTask] \in Tasks
         /\ tasks[NextTask].isDone = 0
         /\ DOMAIN tasks' = DOMAIN tasks
         /\ \A i \in DOMAIN tasks : /\ tasks'[i].op = tasks[i].op
                                   /\ tasks'[i].key = tasks[i].key
                                   /\ tasks'[i].data = tasks[i].data
                                   /\ tasks'[i].isDone = IF i = NextTask THEN isDone ELSE tasks[i].isDone
         /\ \A i \in DOMAIN tasks : tasks[i].isDone # 0 => i <= NextTask
<1>1. /\ Len(tasks) \in Nat /\ DOMAIN tasks = 1..Len(tasks)
      /\ \A i \in DOMAIN tasks : tasks[i] \in Tasks
      /\ tasks \in Seq(Tasks)
  BY TasksAre DEF QueuePart, QueueTyped
<1>2. PICK n : n = NextTask
  OBVIOUS
<1>3. /\ n \in DOMAIN tasks /\ tasks[n].isDone = 0
      /\ \A j \in 1..(n - 1) : tasks[j].isDone # 0
  BY <1>2, NextTaskIs DEF QueuePart, DoneInOrder
<1>4. tasks' = [tasks EXCEPT ![n] = [tasks[n] EXCEPT !.isDone = isDone]] /\ ~working'
  BY <1>2 DEF Finishes
<1> DEFINE new == [tasks[n] EXCEPT !.isDone = isDone]
<1>5. /\ new \in Tasks /\ new.op = tasks[n].op /\ new.key = tasks[n].key
      /\ new.data = tasks[n].data /\ new.isDone = isDone
  <2>1. tasks[n] \in Tasks
    BY <1>1, <1>3
  <2>. QED BY <2>1 DEF Tasks
<1> HIDE DEF new
<1>6. tasks' = [tasks EXCEPT ![n] = new]
  BY <1>4 DEF new
<1>7. /\ tasks' \in Seq(Tasks) /\ Len(tasks') = Len(tasks) /\ DOMAIN tasks' = DOMAIN tasks
      /\ \A i \in DOMAIN tasks : tasks'[i] = IF i = n THEN new ELSE tasks[i]
  BY <1>1, <1>3, <1>5, <1>6
<1>8. \A i \in DOMAIN tasks : tasks[i].isDone # 0 => i <= n
  <2>1. ASSUME NEW i \in DOMAIN tasks, tasks[i].isDone # 0, n < i
        PROVE  FALSE
    BY <1>3, <2>1 DEF QueuePart, DoneInOrder
  <2>. QED BY <1>1, <1>3, <2>1
<1>9. QueueTyped'
  <2>1. ASSUME NEW i \in DOMAIN tasks, tasks'[i].op = "put"
        PROVE  tasks'[i].isDone # -1 /\ tasks'[i].data \in Values
    BY <1>2, <1>3, <1>5, <1>7, <2>1 DEF QueuePart, QueueTyped
  <2>. QED BY <1>7, <2>1 DEF QueueTyped
<1>10. DoneInOrder'
  <2>1. SUFFICES ASSUME NEW i \in DOMAIN tasks, NEW j \in DOMAIN tasks, i < j, tasks'[j].isDone # 0
                 PROVE  tasks'[i].isDone # 0
    BY <1>4, <1>7 DEF DoneInOrder
  <2>2. CASE i = n
    BY <1>5, <1>7, <2>2
  <2>3. CASE i # n /\ j = n
    <3>1. i \in 1..(n - 1)
      BY <1>1, <1>3, <2>1, <2>3
    <3>. QED BY <1>3, <1>7, <2>3, <3>1
  <2>4. CASE i # n /\ j # n
    BY <1>7, <2>1, <2>4 DEF QueuePart, DoneInOrder
  <2>. QED BY <2>2, <2>3, <2>4
<1>11. TasksStay
  BY <1>1, <1>3, <1>7 DEF TasksStay
<1>12. \A i \in DOMAIN tasks : /\ tasks'[i].op = tasks[i].op
                              /\ tasks'[i].key = tasks[i].key
                              /\ tasks'[i].data = tasks[i].data
                              /\ tasks'[i].isDone = IF i = n THEN isDone ELSE tasks[i].isDone
  BY <1>5, <1>7
<1>. QED BY <1>1, <1>2, <1>3, <1>7, <1>8, <1>9, <1>10, <1>11, <1>12

LEMMA PutsKeepsQueue ==
  ASSUME QueuePart, Puts
  PROVE  QueuePart' /\ TasksStay
<1>1. PICK n, k, v : n = NextTask /\ k = tasks[n].key /\ v = tasks[n].data
  OBVIOUS
<1>2. /\ QueueTyped' /\ DoneInOrder' /\ TasksStay
      /\ n \in DOMAIN tasks /\ tasks[n] \in Tasks /\ tasks[n].isDone = 0 /\ DOMAIN tasks' = DOMAIN tasks
      /\ \A i \in DOMAIN tasks : /\ tasks'[i].op = tasks[i].op
                                /\ tasks'[i].key = tasks[i].key
                                /\ tasks'[i].data = tasks[i].data
                                /\ tasks'[i].isDone = IF i = n THEN 1 ELSE tasks[i].isDone
      /\ \A i \in DOMAIN tasks : tasks[i].isDone # 0 => i <= n
  BY <1>1, FinishesNext DEF Puts
<1>3. k \in Keys /\ v \in Values /\ TP!Put(k, v)
  <2>1. tasks[n].op = "put" /\ T!Put(k, v)
    BY <1>1 DEF Puts
  <2>. QED BY <1>1, <1>2, <2>1, SamePut DEF QueuePart, QueueTyped, Tasks
<1>4. TP!IInv'
  BY <1>3, KeysAndValues, TP!PutKeeps DEF QueuePart
<1>5. TreeHoldsPuts'
  <2>1. SUFFICES ASSUME AllPuts'
                 PROVE  /\ TP!PutInv'
                        /\ \A j \in Keys :
                             /\ TP!Found(j)' <=> DonePuts(j)' # {}
                             /\ \A i \in DonePuts(j)' :
                                  (\A m \in DonePuts(j)' : m <= i) => TP!Get(j)' = tasks'[i].data
    BY DEF TreeHoldsPuts
  <2>2. AllPuts
    BY <1>2, <2>1 DEF AllPuts
  <2>3. TP!PutInv
    BY <2>2 DEF QueuePart, TreeHoldsPuts
  <2>4. TP!PutInv'
    BY <1>3, <2>3, KeysAndValues, TP!PutsKeep
  <2>5. ASSUME NEW j \in Keys, j # k
        PROVE  /\ TP!Found(j)' <=> DonePuts(j)' # {}
               /\ \A i \in DonePuts(j)' :
                    (\A m \in DonePuts(j)' : m <= i) => TP!Get(j)' = tasks'[i].data
    <3>1. TP!Found(j) => TP!Found(j)' /\ TP!Get(j)' = TP!Get(j)
      BY <1>3, <2>5, KeysAndValues, TP!PutFinds DEF QueuePart
    <3>2. TP!Found(j)' => TP!Found(j)
      BY <1>3, <2>3, <2>5, KeysAndValues, TP!PutAddsOne
    <3>3. DonePuts(j)' = DonePuts(j)
      BY <1>1, <1>2, <2>5 DEF DonePuts
    <3>4. \A i \in DonePuts(j) : tasks'[i].data = tasks[i].data
      BY <1>2 DEF DonePuts
    <3>5. /\ TP!Found(j) <=> DonePuts(j) # {}
          /\ \A i \in DonePuts(j) :
               (\A m \in DonePuts(j) : m <= i) => TP!Get(j) = tasks[i].data
      BY <2>2 DEF QueuePart, TreeHoldsPuts
    <3>. QED BY <3>1, <3>2, <3>3, <3>4, <3>5
  <2>6. /\ TP!Found(k)' <=> DonePuts(k)' # {}
        /\ \A i \in DonePuts(k)' :
             (\A m \in DonePuts(k)' : m <= i) => TP!Get(k)' = tasks'[i].data
    <3>1. TP!Found(k)' /\ TP!Get(k)' = v
      BY <1>3, KeysAndValues, TP!PutFinds DEF QueuePart
    <3>2. n \in DonePuts(k)'
      BY <1>1, <1>2 DEF DonePuts
    <3>3. \A i \in DonePuts(k)' : i \in Nat /\ i <= n
      BY <1>2, TasksAre DEF DonePuts, QueuePart
    <3>4. \A i \in DonePuts(k)' : (\A m \in DonePuts(k)' : m <= i) => i = n
      BY <3>2, <3>3
    <3>5. tasks'[n].data = v
      BY <1>1, <1>2
    <3>. QED BY <3>1, <3>2, <3>4, <3>5
  <2>. QED BY <2>4, <2>5, <2>6
<1>. QED BY <1>2, <1>4, <1>5 DEF QueuePart

LEMMA DeletesKeepsQueue ==
  ASSUME QueuePart, Deletes
  PROVE  QueuePart' /\ TasksStay
<1>1. PICK n, k : n = NextTask /\ k = tasks[n].key
  OBVIOUS
<1>2. working /\ tasks[n].op = "del"
      /\ \/ T!Del(k) /\ Finishes(1)
         \/ T!DelMissing(k) /\ Finishes(-1)
  BY <1>1 DEF Deletes
<1>3. /\ QueueTyped' /\ DoneInOrder' /\ TasksStay
      /\ n \in DOMAIN tasks /\ DOMAIN tasks' = DOMAIN tasks
      /\ \A i \in DOMAIN tasks : tasks'[i].op = tasks[i].op
  BY <1>1, <1>2, FinishesNext
<1>4. TP!IInv'
  <2>1. CASE T!Del(k)
    BY <2>1, SameDel, KeysAndValues, TP!DelKeeps DEF QueuePart
  <2>2. CASE T!DelMissing(k)
    BY <2>2, SameTreeKeeps DEF T!DelMissing, T!vars, theTree, QueuePart
  <2>. QED BY <1>2, <2>1, <2>2
<1>5. TreeHoldsPuts'
  BY <1>2, <1>3 DEF TreeHoldsPuts, AllPuts
<1>. QED BY <1>3, <1>4, <1>5 DEF QueuePart

-----------------------------------------------------------------------------
(* The clients, their answers and what they were told. *)

ClientPart == ClientsTyped /\ AnswersTrue /\ ToldIsDone

\* What is known of numbers is not forgotten.
LEMMA NumbersStay ==
  ASSUME QueueTyped, TasksStay, NEW n \in 0..(Len(tasks) - 1)
  PROVE  /\ n \in 0..(Len(tasks') - 1)
         /\ tasks[n + 1].isDone = 1 => tasks'[n + 1].isDone = 1
<1>1. Len(tasks) \in Nat /\ DOMAIN tasks = 1..Len(tasks)
  BY TasksAre
<1>. QED BY <1>1 DEF TasksStay

LEMMA ToldStays ==
  ASSUME QueueTyped, TasksStay, ToldIsDone, UNCHANGED history
  PROVE  ToldIsDone'
<1>1. given' = given /\ told' = told
  BY DEF history
<1>2. \A n \in 0..(Len(tasks) - 1) :
        /\ n \in 0..(Len(tasks') - 1)
        /\ tasks[n + 1].isDone = 1 => tasks'[n + 1].isDone = 1
  BY NumbersStay
<1>. QED BY <1>1, <1>2 DEF ToldIsDone

LEMMA AnswerStays ==
  ASSUME QueueTyped, TasksStay, ToldIsDone, UNCHANGED given, AnswersTrue,
         NEW c \in Clients, answer'[c] = answer[c],
         answer[c] # None => client'[c] = client[c] /\ request'[c] = request[c]
  PROVE  answer'[c] # None =>
           /\ client'[c] = "waits"
           /\ answer'[c].opcode \in {21, 41} => answer'[c].tree_info \in 0..(Len(tasks') - 1)
           /\ answer'[c] = [opcode |-> 71, tree_info |-> 1] =>
                \A n \in given'[c] : request'[c].tree_info = n => tasks'[n + 1].isDone = 1
<1>1. \A n \in 0..(Len(tasks) - 1) :
        /\ n \in 0..(Len(tasks') - 1)
        /\ tasks[n + 1].isDone = 1 => tasks'[n + 1].isDone = 1
  BY NumbersStay
<1>2. given[c] \subseteq 0..(Len(tasks) - 1)
  BY DEF ToldIsDone
<1>. QED BY <1>1, <1>2 DEF AnswersTrue

\* Steps that touch no answer and no request.
LEMMA QuietKeepsClients ==
  ASSUME QueueTyped, TasksStay, ClientPart, UNCHANGED <<channels, history>>,
         server' \in {"up", "down", "astray"}
  PROVE  ClientPart'
<1>1. UNCHANGED <<client, request, answer, asked, given, told>>
  BY DEF channels, history
<1>2. ClientsTyped'
  BY <1>1 DEF ClientPart, ClientsTyped
<1>3. AnswersTrue'
  BY <1>1, AnswerStays DEF ClientPart, AnswersTrue
<1>. QED BY <1>2, <1>3, ToldStays DEF ClientPart

\* Steps of one client that take an answer away or leave it alone.
LEMMA ClientStepKeeps ==
  ASSUME QueueTyped, TasksStay, ClientPart, NEW c \in Clients,
         \/ rtree_connect(c) \/ LosesServer(c) \/ Leaves(c)
         \/ \E req \in Requests : Command(c, req)
  PROVE  ClientPart'
<1>1. /\ server' = server /\ UNCHANGED history
      /\ client \in [Clients -> {"off", "idle", "waits", "left"}]
      /\ DOMAIN request = Clients /\ DOMAIN answer = Clients
      /\ asked \in Nat /\ MaxRequests \in Nat /\ asked <= MaxRequests
  BY ConstantsAssumption DEF rtree_connect, LosesServer, Leaves, Command, ClientPart, ClientsTyped
<1>2. \E to \in {"idle", "waits", "left"} : client' = [client EXCEPT ![c] = to]
  BY DEF rtree_connect, LosesServer, Leaves, Command
<1>3. answer' = answer \/ answer' = [answer EXCEPT ![c] = None]
  BY DEF rtree_connect, LosesServer, Leaves, Command
<1>4. asked' \in 0..MaxRequests
  BY <1>1 DEF rtree_connect, LosesServer, Leaves, Command
<1>5. /\ DOMAIN request' = Clients
      /\ \A d \in Clients \ {c} : request'[d] = request[d]
      /\ request'[c] = None \/ request'[c] = request[c] \/ WellAsked(request'[c])
  <2>2. CASE rtree_connect(c) \/ LosesServer(c) \/ Leaves(c)
    <3>1. request' = request \/ request' = [request EXCEPT ![c] = None]
      BY <2>2 DEF rtree_connect, LosesServer, Leaves
    <3>. QED BY <1>1, <3>1
  <2>3. ASSUME NEW req \in Requests, Command(c, req)
        PROVE  WellAsked(req)
    <3>1. asked + 1 \in Values
      BY <1>1, <2>3 DEF Command, Values
    <3>. QED
      BY <3>1 DEF Requests, Writes, rtree_put, rtree_get, rtree_del, rtree_size, rtree_height,
                  rtree_get_keys, rtree_verify, WellAsked
  <2>4. CASE \E req \in Requests : Command(c, req)
    BY <1>1, <2>3, <2>4 DEF Command
  <2>. QED BY <2>2, <2>4
<1>6. ClientsTyped'
  <2>1. DOMAIN answer' = Clients /\ DOMAIN given' = Clients /\ DOMAIN told' = Clients
    BY <1>1, <1>3 DEF history, ClientPart, ClientsTyped
  <2>2. DOMAIN request' = Clients /\ \A d \in Clients : request'[d] = None \/ WellAsked(request'[d])
    BY <1>1, <1>5 DEF ClientPart, ClientsTyped
  <2>3. client' \in [Clients -> {"off", "idle", "waits", "left"}] /\ server' \in {"up", "down", "astray"}
    BY <1>1, <1>2 DEF ClientPart, ClientsTyped
  <2>. QED BY <1>4, <2>1, <2>2, <2>3 DEF ClientsTyped
<1>7. AnswersTrue'
  <2>1. ASSUME NEW d \in Clients, d # c
        PROVE  /\ answer'[d] = answer[d]
               /\ client'[d] = client[d] /\ request'[d] = request[d]
    BY <1>1, <1>2, <1>3, <1>5, <2>1
  <2>2. answer'[c] = None \/ (answer'[c] = answer[c] /\ answer[c] = None)
    <3>1. answer[c] # None => client[c] = "waits"
      BY DEF ClientPart, AnswersTrue
    <3>. QED BY <1>1, <3>1 DEF rtree_connect, LosesServer, Leaves, Command
  <2>3. UNCHANGED given
    BY <1>1 DEF history
  <2>. QED BY <2>1, <2>2, <2>3, AnswerStays DEF ClientPart, AnswersTrue
<1>. QED BY <1>1, <1>6, <1>7, ToldStays DEF ClientPart

\* An answer is read: the numbers in it are given from now on.
LEMMA ReceiveKeeps ==
  ASSUME QueueTyped, ClientPart, NEW c \in Clients, network_send_receive(c)
  PROVE  ClientPart'
<1>1. /\ client' = [client EXCEPT ![c] = "idle"]
      /\ request' = [request EXCEPT ![c] = None]
      /\ answer' = [answer EXCEPT ![c] = None]
      /\ answer[c] # None
      /\ UNCHANGED <<tasks, server, asked>>
  BY DEF network_send_receive, queue
<1> DEFINE new == {a.tree_info : a \in {b \in {answer[c]} : b.opcode \in {21, 41}}}
           done == {n \in given[c] : answer[c] = [opcode |-> 71, tree_info |-> 1]
                                     /\ request[c].tree_info = n}
<1>2. given' = [given EXCEPT ![c] = @ \cup new] /\ told' = [told EXCEPT ![c] = @ \cup done]
  BY DEF network_send_receive
<1>3. /\ new \subseteq 0..(Len(tasks) - 1)
      /\ done \subseteq given[c] /\ \A n \in done : tasks[n + 1].isDone = 1
  BY <1>1 DEF ClientPart, AnswersTrue
<1> HIDE DEF new, done
<1>4. DOMAIN given = Clients /\ DOMAIN told = Clients /\ DOMAIN answer = Clients /\ DOMAIN request = Clients
      /\ client \in [Clients -> {"off", "idle", "waits", "left"}]
  BY DEF ClientPart, ClientsTyped
<1>5. ClientsTyped'
  BY <1>1, <1>2, <1>4 DEF ClientPart, ClientsTyped
<1>6. AnswersTrue'
  <2>1. ASSUME NEW d \in Clients, d # c
        PROVE  /\ answer'[d] = answer[d] /\ given'[d] = given[d]
               /\ client'[d] = client[d] /\ request'[d] = request[d]
    BY <1>1, <1>2, <1>4, <2>1
  <2>2. answer'[c] = None
    BY <1>1, <1>4
  <2>. QED BY <1>1, <2>1, <2>2 DEF ClientPart, AnswersTrue
<1>7. ToldIsDone'
  <2>1. SUFFICES ASSUME NEW d \in Clients
                 PROVE  /\ given'[d] \subseteq 0..(Len(tasks) - 1)
                        /\ told'[d] \subseteq given'[d]
                        /\ \A n \in told'[d] : tasks[n + 1].isDone = 1
    BY <1>1 DEF ToldIsDone
  <2>2. /\ given[d] \subseteq 0..(Len(tasks) - 1) /\ told[d] \subseteq given[d]
        /\ \A n \in told[d] : tasks[n + 1].isDone = 1
    BY DEF ClientPart, ToldIsDone
  <2>3. CASE d = c
    <3>1. given'[d] = given[d] \cup new /\ told'[d] = told[d] \cup done
      BY <1>2, <1>4, <2>3
    <3>. QED BY <1>3, <2>2, <2>3, <3>1
  <2>4. CASE d # c
    BY <1>2, <1>4, <2>2, <2>4
  <2>. QED BY <2>3, <2>4
<1>. QED BY <1>5, <1>6, <1>7 DEF ClientPart

\* The server answers client c.
LEMMA AnswerKeeps ==
  ASSUME QueueTyped, TasksStay, ClientPart, NEW c \in Clients, NEW ans, Answers(c, ans),
         UNCHANGED <<server, client, asked, history>>,
         ans.opcode \in {21, 41} => ans.tree_info \in 0..(Len(tasks') - 1),
         ans = [opcode |-> 71, tree_info |-> 1] =>
           \A n \in given[c] : request[c].tree_info = n => tasks'[n + 1].isDone = 1
  PROVE  ClientPart'
<1>1. /\ DOMAIN given = Clients /\ DOMAIN told = Clients /\ DOMAIN answer = Clients
      /\ DOMAIN request = Clients
  BY DEF ClientPart, ClientsTyped
<1>2. /\ DOMAIN answer' = Clients /\ DOMAIN request' = Clients
      /\ \A d \in Clients \ {c} : answer'[d] = answer[d] /\ request'[d] = request[d]
      /\ IF client[c] = "waits" THEN answer'[c] = ans /\ request'[c] = request[c]
         ELSE answer'[c] = None /\ request'[c] = None
  BY <1>1 DEF Answers
<1>3. UNCHANGED <<given, told>>
  BY DEF history
<1>4. ClientsTyped'
  BY <1>2, <1>3 DEF ClientPart, ClientsTyped
<1>5. AnswersTrue'
  <2>1. SUFFICES ASSUME NEW d \in Clients
                 PROVE  answer'[d] # None =>
                          /\ client'[d] = "waits"
                          /\ answer'[d].opcode \in {21, 41} => answer'[d].tree_info \in 0..(Len(tasks') - 1)
                          /\ answer'[d] = [opcode |-> 71, tree_info |-> 1] =>
                               \A n \in given'[d] : request'[d].tree_info = n => tasks'[n + 1].isDone = 1
    BY DEF AnswersTrue
  <2>2. CASE d = c
    BY <1>2, <1>3, <2>2
  <2>3. CASE d # c
    BY <1>2, <1>3, <2>3, AnswerStays DEF ClientPart
  <2>. QED BY <2>2, <2>3
<1>. QED BY <1>4, <1>5, ToldStays DEF ClientPart

-----------------------------------------------------------------------------
(* Every step. *)

LEMMA Initially == Init => IInv
<1> SUFFICES ASSUME Init PROVE IInv
  OBVIOUS
<1>1. TP!Init
  BY DEF Init, T!Init, TP!Init, T!NULL, TP!NULL
<1>2. TP!IInv /\ TP!PutInv /\ TP!KeysFound = {}
  <2>1. TP!IInv /\ TP!PutInv
    BY <1>1, KeysAndValues, TP!InitPuts DEF TP!PutInv
  <2>2. ASSUME NEW k, TP!Found(k)
        PROVE  FALSE
    <3>1. DOMAIN tree = {<< >>} /\ tree[<< >>] = TP!NULL
      BY <1>1 DEF TP!Init
    <3>2. TP!End(k) \in DOMAIN tree
      BY <2>1, KeysAndValues, TP!EndIsNode
    <3>. QED BY <2>2, <3>1, <3>2 DEF TP!Found, TP!HasEntry
  <2>. QED BY <2>1, <2>2 DEF TP!KeysFound
<1>3. tasks = << >> /\ Len(tasks) = 0 /\ DOMAIN tasks = {}
  BY DEF Init
<1>4. QueueTyped /\ DoneInOrder
  BY <1>3 DEF Init, QueueTyped, DoneInOrder
<1>5. ClientPart
  BY <1>3, ConstantsAssumption DEF Init, ClientPart, ClientsTyped, AnswersTrue, ToldIsDone
<1>6. TreeHoldsPuts
  BY <1>2, <1>3 DEF TreeHoldsPuts, DonePuts, TP!KeysFound
<1>. QED BY <1>2, <1>4, <1>5, <1>6 DEF IInv, ClientPart

LEMMA InvokeWriteKeeps ==
  ASSUME IInv, NEW c \in Clients, InvokePut(c) \/ InvokeDel(c)
  PROVE  IInv'
<1>1. QueuePart /\ ClientPart /\ ClientsTyped /\ QueueTyped
  BY DEF IInv, QueuePart, ClientPart
<1>2. QueuePart' /\ TasksStay
  BY <1>1, WriteKeepsQueue
<1>3. PICK ans : /\ Answers(c, ans)
                 /\ ans.opcode # 71 /\ ans.tree_info = Len(tasks)
                 /\ UNCHANGED <<server, client, asked, history>>
  <2>1. CASE InvokePut(c)
    BY <2>1 DEF InvokePut, InvokeWrite
  <2>2. CASE InvokeDel(c)
    BY <2>2 DEF InvokeDel, InvokeWrite
  <2>. QED BY <2>1, <2>2
<1>4. Len(tasks) \in 0..(Len(tasks') - 1)
  <2>1. Len(tasks) \in Nat /\ tasks \in Seq(Tasks)
    BY <1>1, TasksAre DEF QueueTyped
  <2>2. \E new : tasks' = Append(tasks, new)
    BY DEF InvokePut, InvokeDel, InvokeWrite
  <2>. QED BY <2>1, <2>2
<1>5. ans # [opcode |-> 71, tree_info |-> 1]
  BY <1>3
<1>. QED BY <1>1, <1>2, <1>3, <1>4, <1>5, AnswerKeeps DEF IInv, QueuePart, ClientPart

LEMMA InvokeReadKeeps ==
  ASSUME IInv, NEW c \in Clients,
         \/ InvokeGet(c) \/ InvokeSize(c) \/ InvokeHeight(c) \/ InvokeGetKeys(c) \/ InvokeVerify(c)
  PROVE  IInv'
<1>1. QueuePart /\ ClientPart /\ ClientsTyped /\ QueueTyped
  BY DEF IInv, QueuePart, ClientPart
<1>2. PICK ans : /\ Read(c, ans)
                 /\ ans.opcode \notin {21, 41}
                 /\ ans = [opcode |-> 71, tree_info |-> 1] => 1 \in verify(request[c].tree_info)
  <2>1. CASE InvokeGet(c)
    BY <2>1 DEF InvokeGet
  <2>2. CASE InvokeSize(c)
    BY <2>2 DEF InvokeSize
  <2>3. CASE InvokeHeight(c)
    BY <2>3 DEF InvokeHeight
  <2>4. CASE InvokeGetKeys(c)
    BY <2>4 DEF InvokeGetKeys
  <2>5. CASE InvokeVerify(c)
    <3>1. PICK result \in verify(request[c].tree_info) :
            Read(c, IF result = -1 THEN [opcode |-> 99]
                                   ELSE [opcode |-> 71, tree_info |-> result])
      BY <2>5 DEF InvokeVerify
    <3>. QED BY <3>1
  <2>. QED BY <2>1, <2>2, <2>3, <2>4, <2>5
<1>3. UNCHANGED <<theTree, tasks, working, server, client, asked, history>> /\ Answers(c, ans)
  BY <1>2 DEF Read, queue
<1>4. QueuePart' /\ TasksStay
  BY <1>1, <1>3, QuietKeepsQueue DEF QueuePart, DoneInOrder
<1>5. ASSUME ans = [opcode |-> 71, tree_info |-> 1], NEW n \in given[c], request[c].tree_info = n
      PROVE  tasks'[n + 1].isDone = 1
  <2>1. n \in 0..(Len(tasks) - 1) /\ Len(tasks) \in Nat
    BY <1>1, TasksAre DEF ClientPart, ToldIsDone
  <2>2. ~(n >= Len(tasks))
    BY <2>1
  <2>3. 1 \in verify(n)
    BY <1>2, <1>5
  <2>4. tasks[n + 1].isDone = 1
    BY <2>2, <2>3 DEF verify
  <2>. QED BY <1>3, <2>4
<1>. QED BY <1>1, <1>2, <1>3, <1>4, <1>5, AnswerKeeps DEF IInv, QueuePart, ClientPart

LEMMA NextKeeps == IInv /\ [Next]_vars => IInv'
<1> SUFFICES ASSUME IInv, [Next]_vars PROVE IInv'
  OBVIOUS
<1>1. QueuePart /\ ClientPart /\ QueueTyped /\ server \in {"up", "down", "astray"}
  BY DEF IInv, QueuePart, ClientPart, ClientsTyped
<1>2. working => \E i \in DOMAIN tasks : tasks[i].isDone = 0
  BY DEF IInv, DoneInOrder
<1>3. CASE TakesTask
  <2>1. QueuePart' /\ TasksStay
    BY <1>1, <1>3, QuietKeepsQueue DEF TakesTask
  <2>. QED BY <1>1, <1>3, <2>1, QuietKeepsClients DEF TakesTask, IInv, QueuePart, ClientPart
<1>4. CASE Puts
  <2>1. QueuePart' /\ TasksStay
    BY <1>1, <1>4, PutsKeepsQueue
  <2>. QED BY <1>1, <1>4, <2>1, QuietKeepsClients DEF Puts, Finishes, IInv, QueuePart, ClientPart
<1>5. CASE Deletes
  <2>1. QueuePart' /\ TasksStay
    BY <1>1, <1>5, DeletesKeepsQueue
  <2>. QED BY <1>1, <1>5, <2>1, QuietKeepsClients DEF Deletes, Finishes, IInv, QueuePart, ClientPart
<1>6. ASSUME NEW c \in Clients, invoke(c)
      PROVE  IInv'
  <2>1. CASE InvokeCrashes(c) \/ InvokeOverruns(c)
    <3>1. /\ UNCHANGED <<theTree, tasks, working, channels, history>>
          /\ server' \in {"up", "down", "astray"}
      BY <2>1 DEF InvokeCrashes, InvokeOverruns, queue
    <3>2. QueuePart' /\ TasksStay
      BY <1>1, <1>2, <3>1, QuietKeepsQueue
    <3>. QED BY <1>1, <3>1, <3>2, QuietKeepsClients DEF IInv, QueuePart, ClientPart
  <2>. QED BY <1>6, <2>1, InvokeWriteKeeps, InvokeReadKeeps DEF invoke
<1>7. ASSUME NEW c \in Clients,
             \/ rtree_connect(c) \/ LosesServer(c) \/ Leaves(c)
             \/ \E req \in Requests : Command(c, req)
      PROVE  IInv'
  <2>1. UNCHANGED <<theTree, queue>>
    BY <1>7 DEF rtree_connect, LosesServer, Leaves, Command
  <2>2. QueuePart' /\ TasksStay
    BY <1>1, <1>2, <2>1, QuietKeepsQueue DEF queue
  <2>. QED BY <1>1, <1>7, <2>2, ClientStepKeeps DEF IInv, QueuePart, ClientPart
<1>8. ASSUME NEW c \in Clients, network_send_receive(c)
      PROVE  IInv'
  <2>1. QueuePart'
    BY <1>1, <1>2, <1>8, QuietKeepsQueue DEF network_send_receive, queue
  <2>. QED BY <1>1, <1>8, <2>1, ReceiveKeeps DEF IInv, QueuePart, ClientPart
<1>9. CASE UNCHANGED vars
  <2>1. UNCHANGED <<theTree, tasks, working, server, channels, history>>
    BY <1>9 DEF vars, queue
  <2>2. QueuePart' /\ TasksStay
    BY <1>1, <1>2, <2>1, QuietKeepsQueue
  <2>. QED BY <1>1, <2>1, <2>2, QuietKeepsClients DEF IInv, QueuePart, ClientPart
<1>. QED BY <1>3, <1>4, <1>5, <1>6, <1>7, <1>8, <1>9 DEF Next, process_task

\* The tasks are done in order, the answers on their way are true, and the tree holds
\* what the puts that were done have put, as long as nobody asks for a delete.
THEOREM Invariant == Spec => []IInv
BY Initially, NextKeeps, PTL DEF Spec

\* The types of the requests, of the tasks and of the tree; the second thread works
\* only while a task is left, and verify names numbers that were given.
THEOREM TypeCorrect == Spec => []TypeOK
<1>1. IInv => TypeOK
  <2> SUFFICES ASSUME IInv PROVE TypeOK
    OBVIOUS
  <2>1. T!TypeOK
    BY SameTypes DEF IInv
  <2>2. \A i \in DOMAIN tasks :
          /\ tasks[i].op \in {"put", "del"} /\ tasks[i].key \in Keys
          /\ tasks[i].isDone \in (IF tasks[i].op = "put" THEN {0, 1} ELSE {0, 1, -1})
    BY TasksAre DEF IInv, QueueTyped, Tasks
  <2>3. working => \E i \in DOMAIN tasks : tasks[i].isDone = 0
    BY DEF IInv, DoneInOrder
  <2>4. \A c \in Clients : /\ given[c] \subseteq 0..(Len(tasks) - 1)
                           /\ told[c] \subseteq given[c]
    BY DEF IInv, ToldIsDone
  <2>5. \A c \in Clients : /\ client[c] \in {"off", "idle", "waits", "left"}
                           /\ request[c] = None \/ request[c].opcode \in {10, 20, 30, 40, 50, 60, 70}
    BY DEF IInv, ClientsTyped, WellAsked
  <2>. QED BY <2>1, <2>2, <2>3, <2>4, <2>5 DEF TypeOK, IInv, ClientsTyped
<1>. QED BY <1>1, Invariant, PTL

-----------------------------------------------------------------------------
(* What verify has called done is there. *)

\* When the last task is done all are, and the second thread is at rest.
LEMMA AllAreDone ==
  ASSUME IInv, NEW c \in Clients, Len(tasks) - 1 \in told[c]
  PROVE  ~working /\ \A i \in DOMAIN tasks : tasks[i].isDone # 0
<1>1. /\ Len(tasks) \in Nat /\ DOMAIN tasks = 1..Len(tasks)
      /\ Len(tasks) - 1 \in 0..(Len(tasks) - 1)
      /\ tasks[(Len(tasks) - 1) + 1].isDone = 1
  BY TasksAre DEF IInv, ToldIsDone
<1>2. tasks[Len(tasks)].isDone = 1 /\ Len(tasks) \in DOMAIN tasks
  BY <1>1
<1>3. \A i \in DOMAIN tasks : tasks[i].isDone # 0
  <2>1. ASSUME NEW i \in DOMAIN tasks
        PROVE  i = Len(tasks) \/ i < Len(tasks)
    BY <1>1
  <2>. QED BY <1>2, <2>1 DEF IInv, DoneInOrder
<1>. QED BY <1>3 DEF IInv, DoneInOrder

LEMMA GotIsLastPut ==
  ASSUME IInv, AllPuts, \A i \in DOMAIN tasks : tasks[i].isDone # 0, NEW k \in Keys
  PROVE  \A data \in Got(k) : BeginsWith(data, LastPut(k))
<1>1. \A i \in DOMAIN tasks : tasks[i].isDone = 1
  BY TasksAre DEF IInv, QueueTyped, AllPuts, Tasks
<1> DEFINE puts == {i \in DOMAIN tasks : tasks[i].key = k}
<1>2. DonePuts(k) = puts
  BY <1>1 DEF DonePuts
<1>3. /\ TP!Found(k) <=> puts # {}
      /\ \A i \in puts : (\A j \in puts : j <= i) => TP!Get(k) = tasks[i].data
  BY <1>2 DEF IInv, TreeHoldsPuts
<1>4. Got(k) = IF puts = {} THEN {None} ELSE {TP!Get(k)} \X {"clean", "trailing"}
  BY <1>3, SameWalk DEF Got, TP!Get, T!EntryAt, TP!EntryAt
<1>5. CASE puts = {}
  BY <1>4, <1>5 DEF LastPut, BeginsWith
<1>6. CASE puts # {}
  <2>1. puts \subseteq Nat /\ Len(tasks) \in Nat /\ \A i \in puts : i <= Len(tasks)
    BY TasksAre DEF IInv
  <2> DEFINE last == CHOOSE i \in puts : \A j \in puts : j <= i
  <2>2. LastPut(k) = tasks[last].data
    BY <1>6 DEF LastPut
  <2> HIDE DEF puts
  <2>3. \E i \in puts : \A j \in puts : j <= i
    BY <1>6, <2>1, KeysAndValues, TP!Largest
  <2>4. last \in puts /\ \A j \in puts : j <= last
    BY <2>3
  <2> HIDE DEF last
  <2>5. LastPut(k) = TP!Get(k)
    BY <1>3, <2>2, <2>4
  <2>6. LastPut(k) \in Values
    <3>1. last \in DOMAIN tasks
      BY <2>4 DEF puts
    <3>. QED BY <2>2, <3>1, TasksAre DEF IInv, QueueTyped, AllPuts, Tasks
  <2>7. ASSUME NEW data \in Got(k)
        PROVE  data \in Values \X {"clean", "trailing"} /\ data[1] = LastPut(k)
    BY <1>4, <1>6, <2>5, <2>6
  <2>. QED BY <2>6, <2>7, ConstantsAssumption DEF BeginsWith, Values
<1>. QED BY <1>5, <1>6

\* The only step that answers a get.
LEMMA GetAnswers ==
  ASSUME IInv, Next, NEW c \in Clients,
         answer[c] = None, answer'[c] # None, request[c].opcode = 30
  PROVE  InvokeGet(c)
<1>1. DOMAIN answer = Clients
  BY DEF IInv, ClientsTyped
<1>2. UNCHANGED answer => FALSE
  OBVIOUS
<1>3. ASSUME NEW d \in Clients, NEW ans, Answers(d, ans)
      PROVE  d = c
  BY <1>1, <1>3 DEF Answers
<1>4. ASSUME NEW d \in Clients, invoke(d)
      PROVE  InvokeGet(c)
  <2>1. ~InvokeCrashes(d) /\ ~InvokeOverruns(d)
    BY <1>2 DEF InvokeCrashes, InvokeOverruns, channels
  <2>2. CASE InvokePut(d)
    BY <1>3, <2>2 DEF InvokePut, InvokeWrite
  <2>3. CASE InvokeDel(d)
    BY <1>3, <2>3 DEF InvokeDel, InvokeWrite
  <2>4. CASE InvokeSize(d)
    BY <1>3, <2>4 DEF InvokeSize, Read
  <2>5. CASE InvokeHeight(d)
    BY <1>3, <2>5 DEF InvokeHeight, Read
  <2>6. CASE InvokeGetKeys(d)
    BY <1>3, <2>6 DEF InvokeGetKeys, Read
  <2>7. CASE InvokeVerify(d)
    BY <1>3, <2>7 DEF InvokeVerify, Read
  <2>8. CASE InvokeGet(d)
    BY <1>3, <2>8 DEF InvokeGet, Read
  <2>. QED BY <1>4, <2>1, <2>2, <2>3, <2>4, <2>5, <2>6, <2>7, <2>8 DEF invoke
<1>5. ~process_task
  BY <1>2 DEF process_task, TakesTask, Puts, Deletes, Finishes, channels
<1>6. ASSUME NEW d \in Clients
      PROVE  /\ ~rtree_connect(d) /\ ~network_send_receive(d) /\ ~LosesServer(d) /\ ~Leaves(d)
             /\ ~\E req \in Requests : Command(d, req)
  <2>1. answer' # [answer EXCEPT ![d] = None]
    BY <1>1
  <2>. QED BY <1>2, <2>1 DEF rtree_connect, network_send_receive, LosesServer, Leaves, Command
<1>. QED BY <1>4, <1>5, <1>6 DEF Next

\* What a client gets that was told by verify that the last write is done begins with
\* what was put, as long as nobody deletes: the last write is done only after all
\* others, so that nobody is in the tree, and the tree is the map of the puts.
THEOREM VerifiedVisible == Spec => VerifiedIsVisible
<1>1. ASSUME IInv, [Next]_vars, NEW c \in Clients,
             answer[c] = None, answer'[c] # None, request[c].opcode = 30,
             Len(tasks) - 1 \in told[c],
             \A i \in DOMAIN tasks : tasks[i].op = "put"
      PROVE  BeginsWith(answer'[c].data, LastPut(request[c].key))
  <2>1. InvokeGet(c)
    <3>1. UNCHANGED vars => FALSE
      BY <1>1 DEF vars, channels
    <3>. QED BY <1>1, <3>1, GetAnswers
  <2>2. ~working /\ \A i \in DOMAIN tasks : tasks[i].isDone # 0
    BY <1>1, AllAreDone
  <2>3. \E data \in Got(request[c].key) : answer'[c].data = data
    <3>1. DOMAIN answer = Clients
      BY <1>1 DEF IInv, ClientsTyped
    <3>2. PICK data \in Got(request[c].key) : Answers(c, [opcode |-> 31, data |-> data])
      BY <2>1, <2>2 DEF InvokeGet, Read
    <3>3. answer'[c] = [opcode |-> 31, data |-> data]
      BY <1>1, <3>1, <3>2 DEF Answers
    <3>. QED BY <3>3
  <2>4. request[c].key \in Keys
    BY <1>1, <2>1 DEF InvokeGet, Pending, IInv, ClientsTyped, WellAsked
  <2>. QED BY <1>1, <2>2, <2>3, <2>4, GotIsLastPut DEF AllPuts
<1>2. IInv /\ [Next]_vars =>
        [\A c \in Clients :
           /\ answer[c] = None /\ answer'[c] # None /\ request[c].opcode = 30
           /\ Len(tasks) - 1 \in told[c]
           /\ \A i \in DOMAIN tasks : tasks[i].op = "put"
           => BeginsWith(answer'[c].data, LastPut(request[c].key))]_vars
  BY <1>1
<1>. QED BY <1>2, Invariant, PTL DEF Spec, VerifiedIsVisible

=============================================================================
