---------------------------- MODULE SingleServer ----------------------------
(***************************************************************************)
(* Phase 2: a server that serves one client after the other, each with a   *)
(* tree of its own that is destroyed when the client has gone, and the     *)
(* clients at the other end of the connections.  The tree is module Tree.  *)
(***************************************************************************)
EXTENDS Naturals, Sequences, FiniteSets

CONSTANTS
  Clients,
  Keys, MaxNodes, KeyRoom, \* as in Tree
  Versions,        \* what a client may put under a key
  None,            \* NULL
  MaxRequests,     \* bound: requests of all clients
  Descriptors      \* bound: connections the server may have open

ASSUME ConstantsAssumption ==
  /\ MaxRequests \in Nat /\ Descriptors \in Nat
  /\ None \notin Clients /\ None \notin Clients \X Versions
  /\ None \notin (Clients \X Versions) \X {"clean", "trailing"}
  /\ Keys \subseteq Nat \X Nat /\ MaxNodes \in Nat \ {0} /\ KeyRoom \in Nat

\* A value says who has put it.
Values == Clients \X Versions

VARIABLES
  tree, entries, \* as in Tree
  server,        \* where network_main_loop is: "accept" or "serve"; "down", or "astray"
                 \* when it has written where it should not and may do anything
  current,       \* the client that is being served, or None
  backlog,       \* clients that are connected and not accepted yet
  accepted,      \* connections accepted; none of them is ever closed
  client,        \* client -> where it is
  request,       \* client -> what it has asked, until it has read the answer
  answer,        \* client -> the answer on its way, or None
  asked,         \* number of requests so far
  last,          \* history: key -> what the current client has put last, or None
  deleted        \* history: the current client has deleted something

T == INSTANCE Tree

theTree == <<tree, entries>>
loop == <<server, current, backlog, accepted>>
channels == <<client, request, answer, asked>>
history == <<last, deleted>>
vars == <<theTree, loop, channels, history>>

\* network_server_init; nothing is in the tree before a client is accepted.
Init ==
  /\ T!Init
  /\ server = "accept" /\ current = None /\ backlog = << >> /\ accepted = 0
  /\ client = [c \in Clients |-> "off"]
  /\ request = [c \in Clients |-> None]
  /\ answer = [c \in Clients |-> None]
  /\ asked = 0
  /\ last = [k \in Keys |-> None]
  /\ deleted = FALSE

-----------------------------------------------------------------------------
(* client_stub.c: what a request carries. *)

rtree_put(k, v) == [opcode |-> 40, key |-> k, data |-> v]
rtree_get(k) == [opcode |-> 30, key |-> k]
rtree_del(k) == [opcode |-> 20, key |-> k]
rtree_size == [opcode |-> 10]
rtree_height == [opcode |-> 60]
rtree_get_keys == [opcode |-> 50]

\* An entry too long for the buffer of the receiver.
TooLong == [opcode |-> 40, key |-> "long"]

Requests(c) ==
  {rtree_put(k, <<c, v>>) : k \in Keys, v \in Versions}
    \cup {rtree_get(k) : k \in Keys} \cup {rtree_del(k) : k \in Keys}
    \cup {rtree_size, rtree_height, rtree_get_keys, TooLong}

-----------------------------------------------------------------------------
(* tree_client.c and network_client.c: a client at the keyboard. *)

\* The system completes connections before the server accepts them.
rtree_connect(c) ==
  /\ client[c] = "off" /\ server # "down"
  /\ client' = [client EXCEPT ![c] = "idle"]
  /\ backlog' = Append(backlog, c)
  /\ UNCHANGED <<theTree, server, current, accepted, request, answer, asked, history>>

Ask(c, req) ==
  /\ client[c] = "idle" /\ asked < MaxRequests
  /\ client' = [client EXCEPT ![c] = "waits"]
  /\ request' = [request EXCEPT ![c] = req]
  /\ asked' = asked + 1
  /\ UNCHANGED <<theTree, loop, answer, history>>

Receive(c) ==
  /\ client[c] = "waits" /\ answer[c] # None
  /\ client' = [client EXCEPT ![c] = "idle"]
  /\ request' = [request EXCEPT ![c] = None]
  /\ answer' = [answer EXCEPT ![c] = None]
  /\ UNCHANGED <<theTree, loop, asked, history>>

\* network_send_receive gets nothing, or -1, or SIGPIPE: the client ends.
LosesServer(c) ==
  /\ server = "down" /\ client[c] \in {"idle", "waits"} /\ answer[c] = None
  /\ client' = [client EXCEPT ![c] = "left"]
  /\ UNCHANGED <<theTree, loop, request, answer, asked, history>>

\* quit, or the end of the input.  rtree_disconnect frees its structure twice, which
\* may end the client; its connection is closed by then.
Quit(c) ==
  /\ client[c] = "idle"
  /\ client' = [client EXCEPT ![c] = "left"]
  /\ UNCHANGED <<theTree, loop, request, answer, asked, history>>

\* A client is killed while a request of its own is not answered, or the answer
\* not read: the system resets the connection.
Killed(c) ==
  /\ client[c] = "waits"
  /\ client' = [client EXCEPT ![c] = "broken"]
  /\ UNCHANGED <<theTree, loop, request, answer, asked, history>>

-----------------------------------------------------------------------------
(* tree_skel.c *)

\* The answer of invoke, which the client gets if it is still there.
Answers(ans) ==
  /\ answer' = [answer EXCEPT ![current] = IF client[current] = "waits" THEN ans ELSE None]
  /\ request' = [request EXCEPT ![current] = IF client[current] = "waits" THEN @ ELSE None]

Reads(ans) == Answers(ans) /\ UNCHANGED <<theTree, history>>

InvokeSize(req) == req.opcode = 10 /\ Reads([opcode |-> 11, tree_info |-> T!Size])

InvokeDel(req) ==
  /\ req.opcode = 20
  /\ \/ T!Del(req.key) /\ Answers([opcode |-> 21])
     \/ T!DelMissing(req.key) /\ Answers([opcode |-> 99])
  /\ deleted' = TRUE
  /\ UNCHANGED last

\* What get may answer: the copy that data_dup makes of a value has no terminator and
\* is sent as a string, with what follows it in memory, if anything but a zero does.
Got(k) == IF T!Found(k) THEN {T!EntryAt(T!End(k)).value} \X {"clean", "trailing"} ELSE {None}
InvokeGet(req) ==
  req.opcode = 30 /\ \E data \in Got(req.key) : Reads([opcode |-> 31, data |-> data])

InvokePut(req) ==
  /\ req.opcode = 40 /\ req # TooLong
  /\ T!Put(req.key, req.data)
  /\ Answers([opcode |-> 41])
  /\ last' = [last EXCEPT ![req.key] = req.data]
  /\ UNCHANGED deleted

\* An empty tree is not asked for its keys.
InvokeGetKeys(req) ==
  /\ req.opcode = 50 /\ ~T!GetKeysCrashes /\ ~T!GetKeysOverruns
  /\ Reads([opcode |-> 51, keys |-> IF T!Size = 0 THEN {} ELSE T!KeysReached])

InvokeHeight(req) == req.opcode = 60 /\ Reads([opcode |-> 61, tree_info |-> T!Height])

invoke(req) == \/ InvokeSize(req) \/ InvokeDel(req) \/ InvokeGet(req)
               \/ InvokePut(req) \/ InvokeGetKeys(req) \/ InvokeHeight(req)

\* Mutant: the client's tree is left to the next one.
SkelInitKeeps == UNCHANGED theTree

tree_skel_init == tree' = [p \in {<< >>} |-> T!NULL] /\ entries' = [id \in {} |-> T!NULL]

\* The tree is not looked at again before the next client has a new one.
tree_skel_destroy == tree_skel_init

-----------------------------------------------------------------------------
(* network_server.c *)

\* The process is gone, or astray; with it go the tree and the client that was served.
Ends(how) ==
  /\ server' = how /\ current' = None
  /\ tree_skel_destroy
  /\ last' = [k \in Keys |-> None] /\ deleted' = FALSE
  /\ UNCHANGED <<backlog, accepted, channels>>
GoesDown == Ends("down")

\* Without a descriptor accept fails and network_main_loop returns: the server has
\* opened as many as it may, or the system is out of them.
AcceptFails == server = "accept" /\ backlog # << >> /\ GoesDown

Accept ==
  /\ server = "accept" /\ backlog # << >> /\ accepted < Descriptors
  /\ server' = "serve"
  /\ current' = Head(backlog) /\ backlog' = Tail(backlog)
  /\ accepted' = accepted + 1
  /\ tree_skel_init
  /\ last' = [k \in Keys |-> None] /\ deleted' = FALSE
  /\ UNCHANGED channels

\* A request that was sent is received, whatever became of the client.
Pending == server = "serve" /\ request[current] # None /\ answer[current] = None

Serve ==
  /\ Pending
  /\ invoke(request[current])
  /\ UNCHANGED <<loop, client, asked>>

\* message_t__unpack returns NULL for a message that was cut, tree_get_keys reads
\* the entry of an empty child: the process ends.
ServeCrashes ==
  /\ Pending
  /\ \/ request[current] = TooLong
     \/ request[current].opcode = 50 /\ T!GetKeysCrashes
  /\ GoesDown

\* tree_get_keys writes past its array: over nothing of use, over the bookkeeping of
\* malloc or over the tree.
ServeOverruns ==
  /\ Pending /\ request[current].opcode = 50 /\ T!GetKeysOverruns
  /\ Ends("astray")

\* Mutant: the tree of a client that has gone is kept.
HangUpKeepsTree ==
  /\ server = "serve" /\ client[current] \in {"left", "broken"} /\ ~Pending
  /\ server' = "accept" /\ current' = None
  /\ UNCHANGED <<theTree, backlog, accepted, channels, history>>

\* Mutant: only a connection that was reset ends the client's turn.
HangUpForgotten ==
  /\ server = "serve" /\ client[current] = "broken" /\ ~Pending
  /\ server' = "accept" /\ current' = None
  /\ tree_skel_destroy
  /\ UNCHANGED <<backlog, accepted, channels, history>>

\* recv returns nothing: opcode 0, invoke is -1, the tree is destroyed.  The socket
\* is not closed.  Before that something is sent, which kills the server if the
\* connection was reset; an entry that two nodes share is freed twice.
HangUp ==
  /\ server = "serve" /\ client[current] \in {"left", "broken"} /\ ~Pending
  /\ \/ /\ ~T!DestroysTwice
        /\ server' = "accept" /\ current' = None
        /\ tree_skel_destroy
        /\ UNCHANGED <<backlog, accepted, channels, history>>
     \/ /\ T!DestroysTwice \/ client[current] = "broken"
        /\ GoesDown

network_main_loop == Accept \/ AcceptFails \/ Serve \/ ServeCrashes \/ ServeOverruns \/ HangUp

-----------------------------------------------------------------------------
Next == \/ network_main_loop
        \/ \E c \in Clients : \/ rtree_connect(c) \/ Receive(c) \/ LosesServer(c)
                              \/ Quit(c) \/ Killed(c)
                              \/ \E req \in Requests(c) : Ask(c, req)

\* The server runs and a client that waits reads; nothing makes a user type or leave.
Fairness == WF_vars(network_main_loop) /\ \A c \in Clients : WF_vars(Receive(c) \/ LosesServer(c))

Spec == Init /\ [][Next]_vars /\ Fairness

-----------------------------------------------------------------------------
(* Properties. *)

TypeOK ==
  /\ T!TypeOK
  /\ server \in {"accept", "serve", "down", "astray"}
  /\ server = "accept" => T!Init
  /\ current \in Clients \cup {None} /\ (server = "serve" => current # None)
  /\ \A n \in DOMAIN backlog : backlog[n] \in Clients \ {current}
  /\ accepted \in 0..Descriptors
  /\ \A c \in Clients : /\ client[c] \in {"off", "idle", "waits", "left", "broken"}
                        /\ request[c] \in Requests(c) \cup {None}
  /\ asked \in 0..MaxRequests
  /\ last \in [Keys -> Values \cup {None}] /\ deleted \in BOOLEAN

\* What a client is told is its own: no answer begins with a value that another client
\* has put, and as long as it deletes nothing, each begins with just what it has put
\* itself, although all clients are served, in turn, from one global tree.
Bound == {k \in Keys : last[k] # None}
BeginsWith(data, value) == IF value = None THEN data = None ELSE data # None /\ data[1] = value
AnswersTruthful ==
  \A c \in Clients :
    client[c] = "waits" /\ answer[c] # None /\ server # "astray" =>
      CASE answer[c].opcode = 31 -> /\ answer[c].data = None \/ answer[c].data[1][1] = c
                                    /\ deleted \/ BeginsWith(answer[c].data, last[request[c].key])
        [] answer[c].opcode = 11 -> deleted \/ answer[c].tree_info = Cardinality(Bound)
        [] answer[c].opcode = 51 -> deleted \/ answer[c].keys = Bound
        [] OTHER -> TRUE

\* A client that waits when every other has gone, or has not come yet, is answered,
\* or the server goes down and the client ends, or goes astray: whoever comes later
\* waits behind it.
Gone(c) == client[c] \in {"off", "left", "broken"}
WaitersServed ==
  \A c \in Clients :
    client[c] = "waits" /\ (\A d \in Clients \ {c} : Gone(d))
      ~> client[c] # "waits" \/ server = "astray"
=============================================================================
