---------------------------- MODULE TableServer ----------------------------
(***************************************************************************)
(* The table server of grupo62_2 and its clients: tables that last as long *)
(* as the server, which serves one client after the other (table-server.c, *)
(* table-client.c, network_client.c, message.c).  The tables are those of  *)
(* module HashTable.                                                       *)
(***************************************************************************)
EXTENDS HashTable, Sequences

CONSTANTS
  Clients,
  None,
  Sizes,         \* the sizes given to the server, one per table
  MaxRequests    \* bound: requests of all clients

ASSUME ServerAssumption == /\ Sizes \in Seq(Nat \ {0})
                           /\ MaxRequests \in Nat
                           /\ None \notin Clients

VARIABLES
  tables,      \* number -> table
  server,      \* where main is: "accept" or "serve"; or "down"; or "astray", once it
               \* has used memory outside a table
  current,     \* the client that is being served, or None
  backlog,     \* clients that are connected and not accepted yet
  size_client, \* whether anything has been written to the variable
  client,      \* client -> where it is
  request,     \* client -> what it has asked, until it has read the answer, or None
  answer,      \* client -> the answer on its way, or None
  asked        \* number of requests so far

loop == <<server, current, backlog, size_client>>
channels == <<client, request, answer, asked>>
vars == <<tables, loop, channels>>

Numbers == 1..Len(Sizes)

Init ==
  /\ tables = [n \in Numbers |-> table_create(Sizes[n])]
  /\ server = "accept" /\ current = None /\ backlog = << >> /\ size_client = "unset"
  /\ client = [c \in Clients |-> "off"]
  /\ request = [c \in Clients |-> None]
  /\ answer = [c \in Clients |-> None]
  /\ asked = 0

-----------------------------------------------------------------------------
(* table-client.c *)

\* The key "*", which get takes for all keys: its only character is 42.
Star == <<42, 1>>

\* 0 stands for the numbers the server has no table for; the rest of such a request
\* makes no difference.
Requests ==
  [opcode : {"put", "update"}, table_num : Numbers, key : Keys, data : Values]
    \cup [opcode : {"get"}, table_num : Numbers, key : Keys \cup {Star}]
    \cup [opcode : {"size"}, table_num : Numbers \cup {0}]
    \cup [opcode : {"collisions"}, table_num : Numbers]

network_connect(c) ==
  /\ client[c] = "off" /\ server # "down"
  /\ client' = [client EXCEPT ![c] = "idle"]
  /\ backlog' = Append(backlog, c)
  /\ UNCHANGED <<tables, server, current, size_client, request, answer, asked>>

Command(c, req) ==
  /\ client[c] = "idle" /\ asked < MaxRequests
  /\ client' = [client EXCEPT ![c] = "waits"]
  /\ request' = [request EXCEPT ![c] = req]
  /\ asked' = asked + 1
  /\ UNCHANGED <<tables, loop, answer>>

network_send_receive(c) ==
  /\ client[c] = "waits" /\ answer[c] # None
  /\ client' = [client EXCEPT ![c] = "idle"]
  /\ request' = [request EXCEPT ![c] = None]
  /\ answer' = [answer EXCEPT ![c] = None]
  /\ UNCHANGED <<tables, loop, asked>>

Ends(c) ==
  /\ client' = [client EXCEPT ![c] = "left"]
  /\ request' = [request EXCEPT ![c] = None]
  /\ UNCHANGED <<tables, loop, answer, asked>>

\* quit; or a line that is no command: the message that is freed was never filled
\* in, which the client may or may not survive.
Quit(c) == client[c] = "idle" /\ Ends(c)

\* network_send_receive returns NULL, and print_message reads it.
LosesServer(c) ==
  server \in {"down", "astray"} /\ client[c] \in {"idle", "waits"} /\ answer[c] = None /\ Ends(c)

\* The process is killed while it sends or waits; what was sent in part is not a
\* request.  An answer that was not read resets the connection.
Killed(c) ==
  /\ client[c] = "waits"
  /\ client' = [client EXCEPT ![c] = IF answer[c] = None THEN "left" ELSE "reset"]
  /\ request' \in {[request EXCEPT ![c] = None]} \cup {r \in {request} : answer[c] = None}
  /\ answer' = [answer EXCEPT ![c] = None]
  /\ UNCHANGED <<tables, loop, asked>>

-----------------------------------------------------------------------------
(* process_message *)

\* What happens to table n, and what is answered.
Does(n, table, ans) ==
  /\ tables' = [tables EXCEPT ![n] = table]
  /\ answer' = [answer EXCEPT ![current] = IF client[current] = "waits" THEN ans ELSE None]

Error == [opcode |-> "error"]

NoTable(req) ==
  /\ req.table_num \notin Numbers
  /\ UNCHANGED tables
  /\ answer' = [answer EXCEPT ![current] = IF client[current] = "waits" THEN Error ELSE None]

OnTable(req, opcode) == req.opcode = opcode /\ req.table_num \in Numbers
Table(req) == tables[req.table_num]

ProcessPut(req) ==
  /\ OnTable(req, "put") /\ ~PutGoesAstray(Table(req), req.key)
  /\ Does(req.table_num, table_put(Table(req), req.key, req.data),
          IF Accepts(Table(req), req.key) THEN [opcode |-> "put"] ELSE Error)

ProcessUpdate(req) ==
  /\ OnTable(req, "update") /\ ~Outside(Table(req), req.key)
  /\ ~UpdateCrashes(Table(req), req.key)
  /\ IF Found(Table(req), req.key) = {}
     THEN Does(req.table_num, Table(req), Error)
     ELSE Does(req.table_num, table_update(Table(req), req.key, req.data), [opcode |-> "update"])

\* A block of no bytes stands for a key that was not found.
ProcessGet(req) ==
  /\ OnTable(req, "get") /\ req.key # Star /\ ~Outside(Table(req), req.key)
  /\ Does(req.table_num, Table(req), [opcode |-> "get", data |-> table_get(Table(req), req.key)])

ProcessGetKeys(req) ==
  /\ OnTable(req, "get") /\ req.key = Star
  /\ Does(req.table_num, Table(req), [opcode |-> "get", keys |-> table_get_keys(Table(req))])

\* getSize returns the size of the array, not the number of elements.
ProcessSize(req) ==
  /\ OnTable(req, "size")
  /\ Does(req.table_num, Table(req), [opcode |-> "size", result |-> Table(req).size])

ProcessCollisions(req) ==
  /\ OnTable(req, "collisions")
  /\ Does(req.table_num, Table(req), [opcode |-> "collisions", result |-> Table(req).numCol])

process_message(req) ==
  \/ NoTable(req)
  \/ ProcessPut(req) \/ ProcessUpdate(req) \/ ProcessGet(req) \/ ProcessGetKeys(req)
  \/ ProcessSize(req) \/ ProcessCollisions(req)

ProcessCrashes(req) ==
  OnTable(req, "update") /\ ~Outside(Table(req), req.key) /\ UpdateCrashes(Table(req), req.key)

\* The key's slot lies before the array.
ProcessGoesAstray(req) ==
  \/ OnTable(req, "put") /\ PutGoesAstray(Table(req), req.key)
  \/ OnTable(req, "update") /\ Outside(Table(req), req.key)
  \/ OnTable(req, "get") /\ req.key # Star /\ Outside(Table(req), req.key)

-----------------------------------------------------------------------------
(* table-server.c: network_receive_send and main. *)

Becomes(place) == server' = place /\ UNCHANGED <<tables, current, backlog, size_client, channels>>
GoesDown == Becomes("down")

\* accept reads size_client, which nothing has set the first time: a negative
\* length makes it fail, and the server ends.
Accept ==
  /\ server = "accept" /\ backlog # << >>
  /\ \/ /\ server' = "serve"
        /\ current' = Head(backlog) /\ backlog' = Tail(backlog)
        /\ size_client' = "set"
        /\ UNCHANGED <<tables, channels>>
     \/ size_client = "unset" /\ GoesDown

Serving == server = "serve"
Gone == client[current] \in {"left", "reset"}
Pending == request[current] # None /\ answer[current] = None

Serve ==
  /\ Serving /\ Pending /\ ~Gone
  /\ process_message(request[current])
  /\ UNCHANGED <<loop, client, request, asked>>

\* The answer cannot be delivered: nobody notices yet, or writing fails and the
\* client's turn ends, or SIGPIPE ends the server.
AnswersNobody ==
  /\ request' = [request EXCEPT ![current] = None]
  /\ \/ server' = "serve" /\ current' = current
     \/ server' = "accept" /\ current' = None
     \/ server' = "down" /\ current' = current
  /\ UNCHANGED <<backlog, size_client, client, asked>>

ServeGone ==
  /\ Serving /\ Pending /\ Gone
  /\ process_message(request[current])
  /\ AnswersNobody

\* read_all returns 0 at the end of the input, which is not taken for an error:
\* the size of the message, and the message, are whatever the memory holds.
ServeGarbage ==
  /\ Serving /\ ~Pending /\ client[current] = "left"
  /\ \E req \in Requests : process_message(req)
  /\ AnswersNobody

\* Memory that does not read as a message may still be freed as one.
ServeCrashes ==
  /\ Serving
  /\ IF Pending THEN ProcessCrashes(request[current]) ELSE client[current] = "left"
  /\ GoesDown

\* From here on the server may do anything: the model says nothing of it, and of the
\* tables it says what they were.
ServeGoesAstray ==
  /\ Serving
  /\ IF Pending
     THEN ProcessGoesAstray(request[current])
     ELSE client[current] = "left" /\ \E req \in Requests : ProcessGoesAstray(req)
  /\ Becomes("astray")

\* What was read is no message, or the connection was reset.
HangUp ==
  /\ Serving /\ ~Pending /\ Gone
  /\ server' = "accept" /\ current' = None
  /\ UNCHANGED <<tables, backlog, size_client, channels>>

main == \/ Accept \/ HangUp
        \/ Serve \/ ServeGone \/ ServeGarbage \/ ServeCrashes \/ ServeGoesAstray

-----------------------------------------------------------------------------
Next == \/ main
        \/ \E c \in Clients : \/ network_connect(c) \/ network_send_receive(c)
                              \/ Quit(c) \/ LosesServer(c) \/ Killed(c)
                              \/ \E req \in Requests : Command(c, req)

Spec == Init /\ [][Next]_vars

-----------------------------------------------------------------------------
(* Properties. *)

TypeOK ==
  /\ DOMAIN tables = Numbers
  /\ \A n \in Numbers : TableType(tables[n], Sizes[n])
  /\ server \in {"accept", "serve", "down", "astray"}
  /\ current \in Clients \cup {None} /\ (server = "serve" => current # None)
  /\ \A n \in DOMAIN backlog : backlog[n] \in Clients \ {current}
  /\ size_client \in {"unset", "set"}
  /\ \A c \in Clients : /\ client[c] \in {"off", "idle", "waits", "left", "reset"}
                        /\ request[c] \in Requests \cup {None}
  /\ asked \in 0..MaxRequests

\* Whatever the clients do and wherever they disappear, every key is found from its
\* own slot although chains grow together, no chain runs in a circle, and the two
\* counters say how many slots are in use and how many by a key of another slot.
WellLinked == \A n \in Numbers : Linked(tables[n])

\* The answer a client is about to read tells the truth about what is in the slots:
\* a put or an update that was acknowledged is there, a put was refused for a key
\* that is bound or a table that is full, an update for one that is not bound.
AnswersAgree ==
  \A c \in Clients :
    client[c] = "waits" /\ answer[c] # None /\ request[c].table_num \in Numbers =>
      LET req == request[c]
          map == Contents(tables[req.table_num])
          Bound(k) == k \in DOMAIN map
      IN  CASE answer[c] = Error /\ req.opcode = "put" ->
                 Bound(req.key) \/ Cardinality(DOMAIN map) = Sizes[req.table_num]
            [] answer[c] = Error /\ req.opcode = "update" -> ~Bound(req.key)
            [] answer[c].opcode \in {"put", "update"} ->
                 Bound(req.key) /\ map[req.key] = req.data
            [] answer[c].opcode = "get" /\ req.key = Star -> answer[c].keys = DOMAIN map
            [] answer[c].opcode = "get" /\ req.key # Star ->
                 answer[c].data = IF Bound(req.key) THEN map[req.key] ELSE NULL
            [] OTHER -> TRUE

\* Each table is a map with a fixed number of places in which a put never replaces
\* and an update never adds, even when memory nobody has written is taken for a
\* request after a client has gone.
Maps == INSTANCE PutOnceMaps WITH maps <- [n \in Numbers |-> Contents(tables[n])]
TablesAreMaps == Maps!Spec
=============================================================================
