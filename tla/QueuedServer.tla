---------------------------- MODULE QueuedServer ----------------------------
(***************************************************************************)
(* Phase 3 from end to end: clients whose writes are put in a queue and    *)
(* answered with a number, a second thread that carries them out on the    *)
(* tree, and reads and verifies that do not wait for it (client_stub.c,    *)
(* tree_client.c and network_client.c with invoke and process_task).  The  *)
(* queue is the log that module TaskQueue implements, the tree is module   *)
(* Tree, and the poll loop, module ServerLoop, serves one request at a     *)
(* time in any order.                                                      *)
(***************************************************************************)
EXTENDS Integers, Sequences

CONSTANTS
  Clients,
  Keys, MaxNodes, KeyRoom, \* as in Tree
  None,                    \* no request, no answer, NULL
  MaxRequests,             \* bound: requests of all clients
  MaxWrites                \* bound: no more writes are asked for after that many tasks

ASSUME ConstantsAssumption ==
  /\ MaxRequests \in Nat /\ MaxWrites \in Nat
  /\ Keys \subseteq Nat \X Nat /\ MaxNodes \in Nat \ {0} /\ KeyRoom \in Nat
  /\ None \notin 1..MaxRequests /\ None \notin (1..MaxRequests) \X {"clean", "trailing"}

\* What is put is told apart by the request that puts it.
Values == 1..MaxRequests

VARIABLES
  tree, entries, \* as in Tree
  tasks,         \* the operations given a number: number n is at n + 1
  working,       \* the second thread is in tree_put or tree_del, with both locks
  server,        \* "up" or "down", or "astray" when it has written where it should not
                 \* and may do anything
  client,        \* client -> where it is
  request,       \* client -> what it has asked, until it has read the answer
  answer,        \* client -> the answer on its way, or None
  asked,         \* number of requests so far
  given,         \* history: client -> numbers its writes were given
  told           \* history: client -> those of them verify said were done

T == INSTANCE Tree

theTree == <<tree, entries>>
queue == <<tasks, working>>
channels == <<client, request, answer, asked>>
history == <<given, told>>
vars == <<theTree, queue, server, channels, history>>

Init ==
  /\ T!Init
  /\ tasks = << >> /\ working = FALSE
  /\ server = "up"
  /\ client = [c \in Clients |-> "off"]
  /\ request = [c \in Clients |-> None]
  /\ answer = [c \in Clients |-> None]
  /\ asked = 0
  /\ given = [c \in Clients |-> {}]
  /\ told = [c \in Clients |-> {}]

-----------------------------------------------------------------------------
(* client_stub.c: what a request carries. *)

rtree_put(k, v) == [opcode |-> 40, key |-> k, data |-> v]
rtree_get(k) == [opcode |-> 30, key |-> k]
rtree_del(k) == [opcode |-> 20, key |-> k]
rtree_size == [opcode |-> 10]
rtree_height == [opcode |-> 60]
rtree_get_keys == [opcode |-> 50]
rtree_verify(n) == [opcode |-> 70, tree_info |-> n]

\* Bound: verify asks for numbers that were given, and for the one after them.
Writes == {rtree_put(k, asked + 1) : k \in Keys} \cup {rtree_del(k) : k \in Keys}
Requests ==
  {w \in Writes : Len(tasks) < MaxWrites}
    \cup {rtree_get(k) : k \in Keys}
    \cup {rtree_size, rtree_height, rtree_get_keys}
    \cup {rtree_verify(n) : n \in 0..Len(tasks)}

-----------------------------------------------------------------------------
(* tree_client.c and network_client.c. *)

rtree_connect(c) ==
  /\ client[c] = "off" /\ server = "up"
  /\ client' = [client EXCEPT ![c] = "idle"]
  /\ UNCHANGED <<theTree, queue, server, request, answer, asked, history>>

Command(c, req) ==
  /\ client[c] = "idle" /\ asked < MaxRequests
  /\ client' = [client EXCEPT ![c] = "waits"]
  /\ request' = [request EXCEPT ![c] = req]
  /\ asked' = asked + 1
  /\ UNCHANGED <<theTree, queue, server, answer, history>>

\* A user remembers the numbers of its writes, and what verify says of those.
network_send_receive(c) ==
  /\ client[c] = "waits" /\ answer[c] # None
  /\ client' = [client EXCEPT ![c] = "idle"]
  /\ request' = [request EXCEPT ![c] = None]
  /\ answer' = [answer EXCEPT ![c] = None]
  /\ given' = [given EXCEPT ![c] =
                 @ \cup {a.tree_info : a \in {b \in {answer[c]} : b.opcode \in {21, 41}}}]
  /\ told' = [told EXCEPT ![c] =
                @ \cup {n \in given[c] : answer[c] = [opcode |-> 71, tree_info |-> 1]
                                         /\ request[c].tree_info = n}]
  /\ UNCHANGED <<theTree, queue, server, asked>>

\* recv gives nothing and the client exits, or fails and the command does, or the
\* next send is answered with SIGPIPE.
LosesServer(c) ==
  /\ server = "down" /\ client[c] \in {"idle", "waits"} /\ answer[c] = None
  /\ client' \in {[client EXCEPT ![c] = to] : to \in {"left", "idle"}}
  /\ request' = [request EXCEPT ![c] = None]
  /\ UNCHANGED <<theTree, queue, server, answer, asked, history>>

\* rtree_disconnect, or a line that ends the client; or it is killed while it waits,
\* and what it has asked is carried out or not.
Leaves(c) ==
  /\ client[c] \in {"idle", "waits"}
  /\ client' = [client EXCEPT ![c] = "left"]
  /\ answer' = [answer EXCEPT ![c] = None]
  /\ request' \in {request, [request EXCEPT ![c] = None]}
  /\ answer[c] # None => request'[c] = None
  /\ UNCHANGED <<theTree, queue, server, asked, history>>

-----------------------------------------------------------------------------
(* invoke *)

\* The request of client c has not been looked at yet.
Pending(c) == server = "up" /\ request[c] # None /\ answer[c] = None

\* The answer to client c, which gets it if it is still there.
Answers(c, ans) ==
  /\ answer' = [answer EXCEPT ![c] = IF client[c] = "waits" THEN ans ELSE None]
  /\ request' = [request EXCEPT ![c] = IF client[c] = "waits" THEN @ ELSE None]

\* A write takes queue_lock, which the second thread holds while it works, and is
\* answered with the number it was given.
InvokeWrite(c, op, opcode) ==
  /\ Pending(c) /\ request[c].opcode = opcode /\ ~working
  /\ tasks' = Append(tasks, [op |-> op, key |-> request[c].key, isDone |-> 0,
                             data |-> IF op = "put" THEN request[c].data ELSE None])
  /\ Answers(c, [opcode |-> opcode + 1, tree_info |-> Len(tasks)])
  /\ UNCHANGED <<theTree, working, server, client, asked, history>>

InvokePut(c) == InvokeWrite(c, "put", 40)
InvokeDel(c) == InvokeWrite(c, "del", 20)

Read(c, ans) ==
  /\ Answers(c, ans)
  /\ UNCHANGED <<theTree, queue, server, client, asked, history>>

\* What get may answer: the copy that data_dup makes of a value has no terminator and
\* is sent as a string, with what follows it in memory, if anything but a zero does.
Got(k) == IF T!Found(k) THEN {T!EntryAt(T!End(k)).value} \X {"clean", "trailing"} ELSE {None}

\* Reads take no lock: one that meets the second thread in the tree may get anything,
\* for which None stands.
InvokeGet(c) ==
  /\ Pending(c) /\ request[c].opcode = 30
  /\ \E data \in (IF working THEN {None} ELSE Got(request[c].key)) :
       Read(c, [opcode |-> 31, data |-> data])

InvokeSize(c) ==
  /\ Pending(c) /\ request[c].opcode = 10
  /\ Read(c, [opcode |-> 11, tree_info |-> IF working THEN None ELSE T!Size])

InvokeHeight(c) ==
  /\ Pending(c) /\ request[c].opcode = 60
  /\ Read(c, [opcode |-> 61, tree_info |-> IF working THEN None ELSE T!Height])

InvokeGetKeys(c) ==
  /\ Pending(c) /\ request[c].opcode = 50
  /\ working \/ ~(T!GetKeysCrashes \/ T!GetKeysOverruns)
  /\ Read(c, [opcode |-> 51, keys |-> IF working THEN None
                                      ELSE IF T!Size = 0 THEN {} ELSE T!KeysReached])

\* Mutant: a task that is in the list is taken for one that was carried out.
VerifyGuesses(n) == IF n < Len(tasks) THEN {1} ELSE {-1}

\* 2, 1 and 0 stand for failed, done and not done yet, -1 for no such number.  A
\* number not given yet may be the one that is by chance in the task at the end of
\* the list, which nobody has filled.
verify(n) ==
  IF n >= Len(tasks) THEN {2, 1, 0, -1}
  ELSE {CASE tasks[n + 1].isDone = 1 -> 1
          [] tasks[n + 1].isDone = -1 -> 2
          [] OTHER -> 0}

InvokeVerify(c) ==
  /\ Pending(c) /\ request[c].opcode = 70
  /\ \E result \in verify(request[c].tree_info) :
       Read(c, IF result = -1 THEN [opcode |-> 99]
                              ELSE [opcode |-> 71, tree_info |-> result])

\* A walk through the tree that the second thread is changing, or that meets a child
\* without an entry, may end the process.
InvokeCrashes(c) ==
  /\ Pending(c)
  /\ \/ working /\ request[c].opcode \in {10, 30, 50, 60}
     \/ T!GetKeysCrashes /\ request[c].opcode = 50
  /\ server' = "down"
  /\ UNCHANGED <<theTree, queue, channels, history>>

\* tree_get_keys writes past its array: over nothing of use, over the bookkeeping of
\* malloc or over the tree.  A tree that is being changed may look larger than it is.
InvokeOverruns(c) ==
  /\ Pending(c) /\ request[c].opcode = 50
  /\ working \/ T!GetKeysOverruns
  /\ server' = "astray"
  /\ UNCHANGED <<theTree, queue, channels, history>>

invoke(c) == \/ InvokePut(c) \/ InvokeDel(c) \/ InvokeGet(c) \/ InvokeSize(c)
             \/ InvokeHeight(c) \/ InvokeGetKeys(c) \/ InvokeVerify(c)
             \/ InvokeCrashes(c) \/ InvokeOverruns(c)

-----------------------------------------------------------------------------
(* process_task *)

NextTask == CHOOSE i \in DOMAIN tasks :
              tasks[i].isDone = 0 /\ \A j \in 1..(i - 1) : tasks[j].isDone # 0

TakesTask ==
  /\ server = "up" /\ ~working
  /\ \E i \in DOMAIN tasks : tasks[i].isDone = 0
  /\ working' = TRUE
  /\ UNCHANGED <<theTree, tasks, server, channels, history>>

Finishes(isDone) ==
  /\ tasks' = [tasks EXCEPT ![NextTask].isDone = isDone]
  /\ working' = FALSE
  /\ UNCHANGED <<server, channels, history>>

\* Mutant: the result of tree_put is read the wrong way round.
PutsInverted ==
  /\ server = "up" /\ working /\ tasks[NextTask].op = "put"
  /\ T!Put(tasks[NextTask].key, tasks[NextTask].data)
  /\ Finishes(-1)

Puts ==
  /\ server = "up" /\ working /\ tasks[NextTask].op = "put"
  /\ T!Put(tasks[NextTask].key, tasks[NextTask].data)
  /\ Finishes(1)

Deletes ==
  /\ server = "up" /\ working /\ tasks[NextTask].op = "del"
  /\ \/ T!Del(tasks[NextTask].key) /\ Finishes(1)
     \/ T!DelMissing(tasks[NextTask].key) /\ Finishes(-1)

process_task == TakesTask \/ Puts \/ Deletes

-----------------------------------------------------------------------------
Next == \/ process_task
        \/ \E c \in Clients : \/ invoke(c)
                              \/ rtree_connect(c) \/ network_send_receive(c)
                              \/ LosesServer(c) \/ Leaves(c)
                              \/ \E req \in Requests : Command(c, req)

Spec == Init /\ [][Next]_vars

-----------------------------------------------------------------------------
(* Properties. *)

TypeOK ==
  /\ T!TypeOK
  /\ \A i \in DOMAIN tasks :
       /\ tasks[i].op \in {"put", "del"} /\ tasks[i].key \in Keys
       /\ tasks[i].isDone \in (IF tasks[i].op = "put" THEN {0, 1} ELSE {0, 1, -1})
  /\ working => \E i \in DOMAIN tasks : tasks[i].isDone = 0
  /\ server \in {"up", "down", "astray"}
  /\ \A c \in Clients : /\ client[c] \in {"off", "idle", "waits", "left"}
                        /\ request[c] = None \/ request[c].opcode \in {10, 20, 30, 40, 50, 60, 70}
                        /\ given[c] \subseteq 0..(Len(tasks) - 1)
                        /\ told[c] \subseteq given[c]
  /\ asked \in 0..MaxRequests

\* What the writes that were given a number leave under a key if none is a delete.
LastPut(k) ==
  LET puts == {i \in DOMAIN tasks : tasks[i].key = k}
  IN  IF puts = {} THEN None
      ELSE tasks[CHOOSE i \in puts : \A j \in puts : j <= i].data

\* A client that was told by verify that the last write of all is done gets from the
\* tree what was put, whoever put it, as long as nobody deletes: the answer of verify
\* takes no lock, and neither does get.  The answer begins with what was put; what
\* data_dup lets follow it is not.
BeginsWith(data, value) == IF value = None THEN data = None ELSE data # None /\ data[1] = value
VerifiedIsVisible ==
  [][\A c \in Clients :
       /\ answer[c] = None /\ answer'[c] # None /\ request[c].opcode = 30
       /\ Len(tasks) - 1 \in told[c]
       /\ \A i \in DOMAIN tasks : tasks[i].op = "put"
       => BeginsWith(answer'[c].data, LastPut(request[c].key))]_vars
=============================================================================
