---------------------------- MODULE ClientSession ----------------------------
(***************************************************************************)
(* The client of phase 4: the main thread, which connects and then handles *)
(* one line of input after the other, and ZooKeeper's thread, which runs   *)
(* child_watcher_client whenever a server comes or goes.  The threads      *)
(* share rtreePrimary and rtreeBackup without a lock, the descriptors of   *)
(* the process, and the place strtok goes on from.  The servers and the    *)
(* znodes are the environment (modules Roles and ServerLoop); a server     *)
(* that is up answers what it is sent.                                     *)
(***************************************************************************)
EXTENDS Naturals, Sequences

CONSTANTS
  Servers,
  Zoo,           \* whoever listens at the address of ZooKeeper
  None,          \* NULL, no node, no connection
  Lines,         \* bound: the kinds of lines that the user types
  Descriptors,   \* bound: number of descriptors for sockets
  MaxEvents      \* bound: znodes that come or go, servers that die, connections
                 \* to ZooKeeper that are lost, together

ASSUME ConstantsAssumption ==
  /\ Zoo \notin Servers /\ None \notin Servers \cup {Zoo}
  /\ {"key", "data", "garbage"} \cap (Servers \cup {Zoo}) = {}
  /\ Descriptors \in Nat \ {0} /\ MaxEvents \in Nat

Replicas == {"primary", "backup"}
Threads == {"main", "watcher"}
Fds == 1..Descriptors
NoFd == 0

VARIABLES
  up,          \* servers that run
  node,        \* replica -> the server whose address its znode holds, or None
  events,      \* number of events of the environment so far
  is_connected,
  watch,       \* the watch on /kvstore: "none", "set" or "fired"
  rtreeOf,     \* replica -> rtreePrimary or rtreeBackup
  rtree,       \* descriptor in the structure main has
  fd,          \* descriptor -> who is at the other end, None if it is free
  scan,        \* the tokens strtok(NULL, ..) would return next
  thread,      \* thread -> where it is, and with what
  call,        \* the command that main handles
  lost,        \* history: the connection to ZooKeeper was lost once
  severed,     \* history: rtree_disconnect has closed another's connection
  overlapped,  \* history: child_watcher_client ran before rtree_connect ended
  calm         \* history: child_watcher_client has not run during this command

world == <<up, node, events, is_connected>>
history == <<lost, severed, overlapped, calm>>
vars == <<world, watch, rtreeOf, rtree, fd, scan, thread, call, history>>

\* A structure rtree_t: the server it names, its descriptor, and whether
\* network_connect has been called and has succeeded.
Struct == [server : Servers \cup {None}, sock : Fds \cup {NoFd},
           state : {"fresh", "linked", "failed"}]

\* The line main handles, the tokens it has taken of it, the structure it used,
\* the descriptor it sent through and the one it waits at.
NoCall == [line |-> "help", tokens |-> << >>, to |-> "primary", struct |-> None,
           sent |-> NoFd, sock |-> NoFd]

Init ==
  /\ up = Servers
  /\ node \in [Replicas -> Servers \cup {None}]
  /\ node["backup"] # None => node["primary"] \notin {None, node["backup"]}
  /\ events = 0
  /\ is_connected = FALSE
  /\ watch = "none"
  /\ rtreeOf = [r \in Replicas |-> None]
  /\ rtree = NoFd
  /\ fd = [d \in Fds |-> None]
  /\ scan = << >>
  /\ thread = [t \in Threads |-> [at |-> IF t = "main" THEN "start" ELSE "idle",
                                  replica |-> "primary", addr |-> None]]
  /\ call = NoCall
  /\ lost = FALSE /\ severed = FALSE /\ overlapped = FALSE /\ calm = TRUE

At(t, place) == thread["main"].at # "down" /\ thread[t].at = place
Goes(t, place) == thread' = [thread EXCEPT ![t].at = place]

-----------------------------------------------------------------------------
(* The environment. *)

Event == events < MaxEvents /\ events' = events + 1

\* Only the node list is watched, and a watch fires once.
Changed == /\ Event
           /\ watch' = IF watch = "set" THEN "fired" ELSE watch
           /\ UNCHANGED <<up, is_connected, rtreeOf, rtree, fd, scan, thread, call, history>>

\* A server takes the role that is free; a backup is promoted.
TakesRole(s, r) ==
  /\ s \in up /\ node[r] = None
  /\ IF r = "primary" THEN node["backup"] \in {None, s}
                      ELSE node["primary"] \notin {None, s}
  /\ node' = [node EXCEPT ![r] = s]
  /\ Changed

NodeGoes(r) ==
  /\ node[r] # None
  /\ node' = [node EXCEPT ![r] = None]
  /\ Changed

Dies(s) ==
  /\ s \in up
  /\ up' = up \ {s}
  /\ Event
  /\ UNCHANGED <<node, is_connected, watch, rtreeOf, rtree, fd, scan, thread, call, history>>

con_watcher_client(connected) ==
  /\ is_connected # connected
  /\ is_connected' = connected
  /\ IF connected THEN UNCHANGED <<events, lost>> ELSE Event /\ lost' = TRUE
  /\ UNCHANGED <<up, node, watch, rtreeOf, rtree, fd, scan, thread, call, severed, overlapped, calm>>

-----------------------------------------------------------------------------
(* network_client.c *)

Free == {d \in Fds : fd[d] = None}

LowestFree == IF Free = {} THEN NoFd ELSE CHOOSE d \in Free : \A e \in Free : d <= e

\* socket takes the lowest free descriptor.  If nobody is there it is closed
\* again, and its number stays in the structure.
network_connect(peer) ==
  LET d == LowestFree
      linked == d # NoFd /\ peer \in up \cup {Zoo}
  IN  [sock |-> d,
       state |-> IF linked THEN "linked" ELSE "failed",
       fd |-> IF linked THEN [fd EXCEPT ![d] = peer] ELSE fd]

\* close of a number that is no descriptor is an error that nobody looks at.
network_close(d) == IF d = NoFd THEN fd ELSE [fd EXCEPT ![d] = None]

-----------------------------------------------------------------------------
(* Reading the addresses, in rtree_connect (main) and child_watcher_client. *)

AfterReplica(t) ==
  IF thread[t].replica = "primary"
  THEN [at |-> "look", replica |-> "backup", addr |-> None]
  ELSE [at |-> IF t = "main" THEN "dialZoo" ELSE "idle", replica |-> "primary", addr |-> None]

\* zoo_exists; any error counts as "does not exist".
Look(t) ==
  /\ At(t, "look")
  /\ Goes(t, IF is_connected /\ node[thread[t].replica] # None THEN "fetch" ELSE "absent")
  /\ UNCHANGED <<world, watch, rtreeOf, rtree, fd, scan, call, history>>

\* Mutant: the variable is left alone.
AbsentKeeps(t) ==
  /\ At(t, "absent")
  /\ thread' = [thread EXCEPT ![t] = AfterReplica(t)]
  /\ UNCHANGED <<world, watch, rtreeOf, rtree, fd, scan, call, history>>

Absent(t) ==
  /\ At(t, "absent")
  /\ rtreeOf' = [rtreeOf EXCEPT ![thread[t].replica] = None]
  /\ thread' = [thread EXCEPT ![t] = AfterReplica(t)]
  /\ UNCHANGED <<world, watch, rtree, fd, scan, call, history>>

\* zoo_get, whose error is ignored: the buffer is then whatever malloc gave.  The
\* new structure can be seen at once, and what it says of a socket is not yet set.
Fetch(t) ==
  /\ At(t, "fetch")
  /\ LET r == thread[t].replica
         addr == IF is_connected THEN node[r] ELSE None
     IN  /\ rtreeOf' = [rtreeOf EXCEPT ![r] = [server |-> addr, sock |-> NoFd, state |-> "fresh"]]
         /\ scan' \in IF addr = None THEN {<< >>, <<"garbage">>} ELSE {<<addr>>}
         /\ thread' = [thread EXCEPT ![t].at = "dial", ![t].addr = addr]
  /\ UNCHANGED <<world, watch, rtree, fd, call, history>>

Down == /\ Goes("main", "down")
        /\ UNCHANGED <<world, watch, rtreeOf, rtree, fd, scan, call, history>>

\* Mutant: the structure names who has the role now.
DialReadsAgain(t) ==
  /\ At(t, "dial")
  /\ LET r == thread[t].replica
         new == network_connect(Head(scan))
     IN  IF scan = << >> \/ rtreeOf[r] = None
         THEN Down
         ELSE /\ scan' = << >>
              /\ fd' = new.fd
              /\ rtreeOf' = [rtreeOf EXCEPT ![r] = [server |-> node[r], sock |-> new.sock, state |-> new.state]]
              /\ call' = IF call.sent # NoFd /\ call.to = r /\ call.struct.state = "fresh"
                         THEN [call EXCEPT !.sock = new.sock] ELSE call
              /\ thread' = [thread EXCEPT ![t] = AfterReplica(t)]
              /\ UNCHANGED <<world, watch, rtree, history>>

\* Mutant: strtok(NULL, ..) for the host as well.
DialTakesBoth(t) ==
  /\ At(t, "dial")
  /\ LET r == thread[t].replica
         new == network_connect(Head(scan))
     IN  IF scan = << >> \/ rtreeOf[r] = None
         THEN Down
         ELSE /\ scan' = << >>
              /\ fd' = new.fd
              /\ rtreeOf' = [rtreeOf EXCEPT ![r] = [server |-> Head(scan), sock |-> new.sock, state |-> new.state]]
              /\ call' = IF call.sent # NoFd /\ call.to = r /\ call.struct.state = "fresh"
                         THEN [call EXCEPT !.sock = new.sock] ELSE call
              /\ thread' = [thread EXCEPT ![t] = AfterReplica(t)]
              /\ UNCHANGED <<world, watch, rtree, history>>

\* The port is what strtok goes on with, the structure the one the variable leads
\* to now; either may be the other thread's, or NULL, which ends the process.
\* (Servers differ in their port.)  If main has sent through this structure already
\* it will wait at the new descriptor.
Dial(t) ==
  /\ At(t, "dial")
  /\ LET r == thread[t].replica
         new == network_connect(Head(scan))
     IN  IF scan = << >> \/ rtreeOf[r] = None
         THEN Down
         ELSE /\ scan' = << >>
              /\ fd' = new.fd
              /\ rtreeOf' = [rtreeOf EXCEPT ![r] = [server |-> thread[t].addr,
                                                    sock |-> new.sock, state |-> new.state]]
              /\ call' = IF call.sent # NoFd /\ call.to = r /\ call.struct.state = "fresh"
                         THEN [call EXCEPT !.sock = new.sock] ELSE call
              /\ thread' = [thread EXCEPT ![t] = AfterReplica(t)]
              /\ UNCHANGED <<world, watch, rtree, history>>

-----------------------------------------------------------------------------
(* client_stub.c: the session. *)

\* Five seconds after zookeeper_init; without a connection there are no servers,
\* and no watch, ever.
SetWatch ==
  /\ At("main", "start")
  /\ IF is_connected
     THEN Goes("main", "look") /\ watch' = "set"
     ELSE Goes("main", "dialZoo") /\ UNCHANGED watch
  /\ UNCHANGED <<world, rtreeOf, rtree, fd, scan, call, history>>

\* The structure that main gets is connected to ZooKeeper's port.
DialZoo ==
  /\ At("main", "dialZoo")
  /\ \/ LET new == network_connect(Zoo)
        IN  /\ new.state = "linked"
            /\ fd' = new.fd /\ rtree' = new.sock
            /\ Goes("main", "prompt")
            /\ UNCHANGED <<world, watch, rtreeOf, scan, call, history>>
     \/ ~is_connected /\ Down

rtree_connect == SetWatch \/ DialZoo

\* The event arrives; then the watch is set anew, before anything is read.
WatcherCalled ==
  /\ At("watcher", "idle")
  /\ watch = "fired" /\ is_connected
  /\ watch' = "none"
  /\ Goes("watcher", "rewatch")
  /\ overlapped' = (overlapped \/ thread["main"].at \in {"start", "look", "absent", "fetch", "dial"})
  /\ calm' = (thread["main"].at \notin {"parsed", "sent"})
  /\ UNCHANGED <<world, rtreeOf, rtree, fd, scan, call, lost, severed>>

Rewatch ==
  /\ At("watcher", "rewatch")
  /\ watch' = IF is_connected THEN "set" ELSE "none"
  /\ Goes("watcher", "look")
  /\ UNCHANGED <<world, rtreeOf, rtree, fd, scan, call, history>>

child_watcher_client == \/ WatcherCalled \/ Rewatch
                        \/ Look("watcher") \/ Absent("watcher") \/ Fetch("watcher") \/ Dial("watcher")

-----------------------------------------------------------------------------
(* client_stub.c: the requests.  Without a structure nothing is sent. *)

Ask(r, opcode, tokens) == [to |-> r, struct |-> rtreeOf[r], opcode |-> opcode, tokens |-> tokens]

rtree_put(tokens) == Ask("primary", 40, tokens)
rtree_del(tokens) == Ask("primary", 20, tokens)
rtree_get(tokens) == Ask("backup", 30, tokens)
rtree_verify(tokens) == Ask("backup", 70, tokens)
rtree_size(tokens) == Ask("backup", 10, tokens)
rtree_height(tokens) == Ask("backup", 60, tokens)
rtree_get_keys(tokens) == Ask("backup", 50, tokens)

Requests == {"put", "del", "get", "verify", "size", "height", "getkeys"}
AllLines == Requests \cup {"help", "quit", "blank"}
ASSUME LinesAssumption == Lines \subseteq AllLines

\* What follows the command in a line.
Typed(line) == CASE line = "put" -> <<"key", "data">>
                 [] line \in {"get", "del", "verify"} -> <<"key">>
                 [] OTHER -> << >>

Stub(line, tokens) == CASE line = "put" -> rtree_put(tokens)
                        [] line = "del" -> rtree_del(tokens)
                        [] line = "get" -> rtree_get(tokens)
                        [] line = "verify" -> rtree_verify(tokens)
                        [] line = "size" -> rtree_size(tokens)
                        [] line = "height" -> rtree_height(tokens)
                        [] line = "getkeys" -> rtree_get_keys(tokens)

-----------------------------------------------------------------------------
(* tree_client.c *)

\* With a server missing only help and quit are known, and a blank line is compared
\* with NULL.
WithoutServers(line) ==
  /\ \E r \in Replicas : rtreeOf[r] = None
  /\ Goes("main", IF line \in {"quit", "blank"} THEN "down" ELSE "disconnect")
  /\ scan' = Typed(line)
  /\ UNCHANGED call

WithServers(line) ==
  /\ \A r \in Replicas : rtreeOf[r] # None
  /\ Goes("main", CASE line = "quit" -> "down"
                    [] line \in Requests -> "parsed"
                    [] OTHER -> "disconnect")
  /\ call' = [NoCall EXCEPT !.line = line]
  /\ scan' = IF line = "blank" THEN scan ELSE Typed(line)

\* fgets has a line.
Command(line) ==
  /\ At("main", "prompt")
  /\ WithoutServers(line) \/ WithServers(line)
  /\ calm' = At("watcher", "idle")
  /\ UNCHANGED <<world, watch, rtreeOf, rtree, fd, lost, severed, overlapped>>

\* The key, then the data; the end of what strtok has is a NULL that strdup reads.
Token ==
  /\ At("main", "parsed") /\ Len(call.tokens) < Len(Typed(call.line))
  /\ IF scan = << >>
     THEN Down
     ELSE /\ call' = [call EXCEPT !.tokens = Append(@, Head(scan))]
          /\ scan' = Tail(scan)
          /\ UNCHANGED <<world, watch, rtreeOf, rtree, fd, thread, history>>

\* Until it is connected a structure has any number where the descriptor belongs.
SockOf(struct) == IF struct = None THEN {NoFd}
                  ELSE IF struct.state = "fresh" THEN Fds \cup {NoFd} ELSE {struct.sock}

\* The variable is read again here, after the test of both.
Send ==
  /\ At("main", "parsed") /\ Len(call.tokens) = Len(Typed(call.line))
  /\ LET ask == Stub(call.line, call.tokens)
     IN  \E sock \in SockOf(ask.struct) :
           IF sock = NoFd \/ fd[sock] = None
           THEN Goes("main", "disconnect") /\ UNCHANGED call
           ELSE /\ Goes("main", "sent")
                /\ call' = [call EXCEPT !.to = ask.to, !.struct = ask.struct,
                                        !.sent = sock, !.sock = sock]
  /\ UNCHANGED <<world, watch, rtreeOf, rtree, fd, scan, history>>

Returns == /\ Goes("main", "disconnect")
           /\ UNCHANGED <<world, watch, rtreeOf, rtree, fd, scan, call, history>>

AnswerMayBeCut == {"get", "getkeys"}

\* Mutant: recv is called again when it returns nothing.
ReceiveAgain ==
  /\ At("main", "sent")
  /\ call.sock = call.sent /\ fd[call.sent] \in up /\ Returns

\* network_send_receive, from recv on.  A server that is gone, or that is not one,
\* ends the connection: opcode 0 and exit, SIGPIPE, or an error and NULL.  An answer
\* longer than the buffer cannot be unpacked and NULL is read.  Where nothing was
\* sent there is no answer, and recv waits.
Receive ==
  /\ At("main", "sent")
  /\ LET peer == IF call.sock = NoFd THEN None ELSE fd[call.sock]
     IN  \/ peer \notin up /\ Returns
         \/ peer \in (Servers \cup {Zoo}) \ up /\ Down
         \/ peer \in up /\ call.sock = call.sent /\ Returns
         \/ peer \in up /\ call.sock = call.sent /\ call.line \in AnswerMayBeCut /\ Down

\* After every line, whatever it was.
rtree_disconnect ==
  /\ At("main", "disconnect")
  /\ fd' = network_close(rtree)
  /\ severed' = (severed \/ fd[rtree] \in Servers)
  /\ call' = NoCall
  /\ Goes("main", "prompt")
  /\ calm' = TRUE
  /\ UNCHANGED <<world, watch, rtreeOf, rtree, scan, lost, overlapped>>

HandleLine == Token \/ Send \/ Receive \/ rtree_disconnect
ReadAddresses == rtree_connect \/ Look("main") \/ Absent("main") \/ Fetch("main") \/ Dial("main")

-----------------------------------------------------------------------------
Next == \/ ReadAddresses \/ HandleLine \/ child_watcher_client
        \/ \E line \in Lines : Command(line)
        \/ \E r \in Replicas : NodeGoes(r) \/ \E s \in Servers : TakesRole(s, r)
        \/ \E s \in Servers : Dies(s)
        \/ \E connected \in BOOLEAN : con_watcher_client(connected)

\* Both threads run, and ZooKeeper can be reached again some time; nothing makes
\* the user type, or a server come or go.
Fairness == /\ WF_vars(ReadAddresses) /\ WF_vars(HandleLine)
            /\ WF_vars(child_watcher_client)
            /\ WF_vars(con_watcher_client(TRUE))

Spec == Init /\ [][Next]_vars /\ Fairness

-----------------------------------------------------------------------------
(* Properties. *)

TypeOK ==
  /\ up \subseteq Servers
  /\ node \in [Replicas -> Servers \cup {None}]
  /\ events \in 0..MaxEvents
  /\ is_connected \in BOOLEAN
  /\ watch \in {"none", "set", "fired"}
  /\ rtreeOf \in [Replicas -> Struct \cup {None}]
  /\ rtree \in Fds \cup {NoFd}
  /\ fd \in [Fds -> Servers \cup {Zoo, None}]
  /\ thread["main"].at \in {"start", "look", "absent", "fetch", "dial", "dialZoo",
                            "prompt", "parsed", "sent", "disconnect", "down"}
  /\ thread["watcher"].at \in {"idle", "rewatch", "look", "absent", "fetch", "dial"}
  /\ \A t \in Threads : thread[t].replica \in Replicas /\ thread[t].addr \in Servers \cup {None}
  /\ call.line \in AllLines /\ {call.sent, call.sock} \subseteq Fds \cup {NoFd}
  /\ {lost, severed, overlapped, calm} \subseteq BOOLEAN

\* What the user asks for arrives as it was typed, and at the server that the
\* structure names, unless one of these has happened: the connection was never made,
\* the two threads read addresses at the same time, rtree_disconnect has closed a
\* descriptor that had become another's, or child_watcher_client ran between two
\* calls of strtok.
RequestsArrive ==
  At("main", "sent") =>
    /\ call.struct.state # "linked" \/ severed \/ overlapped
         \/ fd[call.sent] = call.struct.server
    /\ calm => call.tokens = Typed(call.line)

Named(r) == IF rtreeOf[r] = None THEN None ELSE rtreeOf[r].server

\* Although a watch fires once and servers come and go while the addresses are
\* read, the client ends up with the servers that are there, unless it ends,
\* loses ZooKeeper, or the watch fires before rtree_connect has returned.
FollowsNodes ==
  <>[](\/ thread["main"].at = "down"
       \/ lost \/ overlapped \/ watch = "none"
       \/ \A r \in Replicas : Named(r) = node[r])

\* Every line is done with in the end, or the client is, unless it waits at a
\* connection it has not sent through.
CommandsReturn ==
  thread["main"].at \in {"parsed", "sent", "disconnect"} ~>
    \/ thread["main"].at \in {"prompt", "down"}
    \/ thread["main"].at = "sent" /\ call.sock # call.sent
=============================================================================
