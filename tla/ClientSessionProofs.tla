------------------------ MODULE ClientSessionProofs ------------------------
(***************************************************************************)
(* Theorems about ClientSession, for any number of servers, descriptors    *)
(* and events and any set of lines: its types, and that a request arrives  *)
(* where and as it was meant unless one of the four accidents that         *)
(* RequestsArrive names has happened.                                      *)
(***************************************************************************)
EXTENDS ClientSession, WellFoundedInduction, TLAPS

-----------------------------------------------------------------------------
(* The inductive invariant. *)

Structs == Struct \cup {None}
Socks == Fds \cup {NoFd}
Words == {"key", "data", "garbage"}
Tokens == Words \cup Servers

Calls == [line : AllLines, tokens : Seq(Tokens), to : Replicas, struct : Structs,
          sent : Socks, sock : Socks]
MainPlaces == {"start", "look", "absent", "fetch", "dial", "dialZoo",
               "prompt", "parsed", "sent", "disconnect", "down"}
WatcherPlaces == {"idle", "rewatch", "look", "absent", "fetch", "dial"}
Thread == [at : MainPlaces \cup WatcherPlaces, replica : Replicas, addr : Servers \cup {None}]

\* The types, in parts, with the shape of the records and of what strtok goes through.
WorldTyped ==
  /\ up \subseteq Servers
  /\ node \in [Replicas -> Servers \cup {None}]
  /\ events \in 0..MaxEvents
  /\ is_connected \in BOOLEAN
  /\ watch \in {"none", "set", "fired"}
  /\ {lost, severed, overlapped, calm} \subseteq BOOLEAN

ThreadsTyped ==
  /\ thread \in [Threads -> Thread]
  /\ thread["main"].at \in MainPlaces
  /\ thread["watcher"].at \in WatcherPlaces

SessionTyped ==
  /\ rtreeOf \in [Replicas -> Structs]
  /\ rtree \in Socks
  /\ fd \in [Fds -> Servers \cup {Zoo, None}]
  /\ call \in Calls
  /\ scan \in Seq(Tokens)

Connecting == thread["main"].at \in {"start", "look", "absent", "fetch", "dial"}

\* Until child_watcher_client has run during rtree_connect only one thread reads
\* addresses at a time, and the address it connects to is the one it was given.
AddressesApart ==
  ~overlapped =>
    /\ Connecting => thread["watcher"].at = "idle"
    /\ \A t \in Threads : thread[t].at = "dial" =>
         \A n \in DOMAIN scan : scan[n] \in Servers => scan[n] = thread[t].addr

\* The structure leads to the server it names.
LeadsTo(struct, d) == struct.server \in Servers /\ d \in Fds /\ fd[d] = struct.server

LinksHold ==
  ~overlapped /\ ~severed =>
    /\ \A r \in Replicas : rtreeOf[r] # None /\ rtreeOf[r].state = "linked" =>
         LeadsTo(rtreeOf[r], rtreeOf[r].sock)
    /\ thread["main"].at = "sent" /\ call.struct.state = "linked" =>
         LeadsTo(call.struct, call.sent)

\* While main has strtok to itself, what it has taken of the line and what is left
\* of it make up the line.
LineWhole ==
  calm =>
    /\ thread["main"].at \in {"parsed", "sent"} => thread["watcher"].at = "idle"
    /\ thread["main"].at = "parsed" => call.tokens \o scan = Typed(call.line)
    /\ thread["main"].at = "sent" => call.tokens = Typed(call.line)

\* Only requests reach a stub.
Asking == thread["main"].at \in {"parsed", "sent"} => call.line \in Requests

IInv == /\ WorldTyped /\ ThreadsTyped /\ SessionTyped
        /\ AddressesApart /\ LinksHold /\ LineWhole

LEMMA TypesOK == WorldTyped /\ ThreadsTyped /\ SessionTyped => TypeOK
<1> SUFFICES ASSUME WorldTyped, ThreadsTyped, SessionTyped PROVE TypeOK
  OBVIOUS
<1>1. \A t \in Threads : thread[t].replica \in Replicas /\ thread[t].addr \in Servers \cup {None}
  BY DEF ThreadsTyped, Thread
<1>2. call.line \in AllLines /\ {call.sent, call.sock} \subseteq Fds \cup {NoFd}
  BY DEF SessionTyped, Calls, Socks
<1>. QED
  BY <1>1, <1>2 DEF TypeOK, WorldTyped, ThreadsTyped, SessionTyped, Structs, Socks, MainPlaces, WatcherPlaces

LEMMA Initially == Init => IInv
<1> SUFFICES ASSUME Init PROVE IInv
  OBVIOUS
<1>1. Descriptors \in Nat /\ MaxEvents \in Nat
  BY ConstantsAssumption
<1>2. WorldTyped
  <2>1. {lost, severed, overlapped, calm} \subseteq BOOLEAN
    BY DEF Init
  <2>2. events \in 0..MaxEvents
    BY <1>1 DEF Init
  <2>3. /\ up \subseteq Servers /\ node \in [Replicas -> Servers \cup {None}]
        /\ is_connected \in BOOLEAN /\ watch \in {"none", "set", "fired"}
    BY DEF Init
  <2>. QED BY <2>1, <2>2, <2>3 DEF WorldTyped
<1>3. ThreadsTyped
  <2>1. /\ thread["main"] = [at |-> "start", replica |-> "primary", addr |-> None]
        /\ thread["watcher"] = [at |-> "idle", replica |-> "primary", addr |-> None]
    BY DEF Init, Threads
  <2>2. \A t \in Threads : thread[t] \in Thread
    <3>1. thread["main"] \in Thread
      BY <2>1 DEF Thread, MainPlaces, Replicas
    <3>2. thread["watcher"] \in Thread
      BY <2>1 DEF Thread, WatcherPlaces, Replicas
    <3>. QED BY <3>1, <3>2 DEF Threads
  <2>3. thread = [t \in Threads |-> thread[t]]
    BY DEF Init
  <2>4. thread["main"].at = "start" /\ thread["watcher"].at = "idle"
    BY <2>1
  <2>. QED BY <2>2, <2>3, <2>4 DEF ThreadsTyped, MainPlaces, WatcherPlaces
<1>4. << >> \in Seq(Tokens)
  OBVIOUS
<1>5. NoCall \in Calls
  BY <1>4 DEF NoCall, Calls, AllLines, Requests, Replicas, Structs, Socks
<1>6. SessionTyped
  BY <1>4, <1>5 DEF Init, SessionTyped, Structs, Socks
<1>7. AddressesApart /\ LinksHold /\ LineWhole
  BY DEF Init, AddressesApart, LinksHold, LineWhole, Threads
<1>. QED BY <1>2, <1>3, <1>6, <1>7 DEF IInv

-----------------------------------------------------------------------------
(* The steps of the environment. *)

LEMMA WorldOnly ==
  ASSUME IInv, WorldTyped',
         UNCHANGED <<rtreeOf, rtree, fd, scan, thread, call, severed, overlapped, calm>>
  PROVE  IInv'
<1>1. ThreadsTyped' /\ SessionTyped'
  BY DEF IInv, ThreadsTyped, SessionTyped
<1>2. AddressesApart' /\ LinksHold' /\ LineWhole'
  BY DEF IInv, AddressesApart, LinksHold, LineWhole, LeadsTo, Connecting
<1>. QED BY <1>1, <1>2 DEF IInv

LEMMA EnvironmentKeeps ==
  ASSUME IInv,
         \/ \E r \in Replicas : NodeGoes(r) \/ \E s \in Servers : TakesRole(s, r)
         \/ \E s \in Servers : Dies(s)
         \/ \E connected \in BOOLEAN : con_watcher_client(connected)
  PROVE  IInv'
<1>0. WorldTyped /\ MaxEvents \in Nat
  BY ConstantsAssumption DEF IInv
<1>1. ASSUME Event
      PROVE  events' \in 0..MaxEvents
  BY <1>0, <1>1 DEF Event, WorldTyped
<1>2. ASSUME NEW r \in Replicas, NodeGoes(r)
      PROVE  IInv'
  BY <1>0, <1>1, <1>2, WorldOnly DEF NodeGoes, Changed, WorldTyped, history
<1>3. ASSUME NEW r \in Replicas, NEW s \in Servers, TakesRole(s, r)
      PROVE  IInv'
  BY <1>0, <1>1, <1>3, WorldOnly DEF TakesRole, Changed, WorldTyped, history
<1>4. ASSUME NEW s \in Servers, Dies(s)
      PROVE  IInv'
  BY <1>0, <1>1, <1>4, WorldOnly DEF Dies, WorldTyped, history
<1>5. ASSUME NEW connected \in BOOLEAN, con_watcher_client(connected)
      PROVE  IInv'
  BY <1>0, <1>1, <1>5, WorldOnly DEF con_watcher_client, WorldTyped
<1>. QED BY <1>2, <1>3, <1>4, <1>5

-----------------------------------------------------------------------------
(* Moving from place to place. *)

LEMMA GoesFacts ==
  ASSUME ThreadsTyped, NEW t \in Threads, NEW place \in MainPlaces \cup WatcherPlaces,
         t = "main" => place \in MainPlaces, t = "watcher" => place \in WatcherPlaces,
         Goes(t, place)
  PROVE  /\ ThreadsTyped'
         /\ thread'[t].at = place /\ thread'[t].replica = thread[t].replica
         /\ thread'[t].addr = thread[t].addr
         /\ \A u \in Threads \ {t} : thread'[u] = thread[u]
<1> DEFINE new == [at |-> place, replica |-> thread[t].replica, addr |-> thread[t].addr]
<1>1. thread \in [Threads -> Thread] /\ thread[t] \in Thread
  BY DEF ThreadsTyped
<1>2. [thread[t] EXCEPT !.at = place] = new /\ new \in Thread
  BY <1>1 DEF Thread
<1>3. thread' = [thread EXCEPT ![t] = new]
  BY <1>1, <1>2 DEF Goes
<1>4. thread' \in [Threads -> Thread] /\ thread'[t] = new /\ \A u \in Threads \ {t} : thread'[u] = thread[u]
  BY <1>1, <1>2, <1>3
<1>5. thread'["main"].at \in MainPlaces /\ thread'["watcher"].at \in WatcherPlaces
  BY <1>4 DEF ThreadsTyped, Threads
<1>. QED BY <1>4, <1>5 DEF ThreadsTyped

\* The next replica, or the end of reading addresses.
LEMMA AfterReplicaFacts ==
  ASSUME ThreadsTyped, NEW t \in Threads, thread' = [thread EXCEPT ![t] = AfterReplica(t)]
  PROVE  /\ ThreadsTyped'
         /\ thread'[t].at \in {"look", IF t = "main" THEN "dialZoo" ELSE "idle"}
         /\ \A u \in Threads \ {t} : thread'[u] = thread[u]
<1>1. thread \in [Threads -> Thread]
  BY DEF ThreadsTyped
<1>2. AfterReplica(t) \in Thread /\ AfterReplica(t).at \in {"look", IF t = "main" THEN "dialZoo" ELSE "idle"}
  BY DEF AfterReplica, Thread, Replicas, MainPlaces, WatcherPlaces
<1>3. /\ thread' \in [Threads -> Thread] /\ thread'[t] = AfterReplica(t)
      /\ \A u \in Threads \ {t} : thread'[u] = thread[u]
  BY <1>1, <1>2
<1>4. thread'["main"].at \in MainPlaces /\ thread'["watcher"].at \in WatcherPlaces
  BY <1>2, <1>3 DEF ThreadsTyped, Threads, MainPlaces, WatcherPlaces
<1>. QED BY <1>2, <1>3, <1>4 DEF ThreadsTyped

\* A thread moves between two places where no address and no request is on its way;
\* nothing else changes but what the world does.
LEMMA QuietMove ==
  ASSUME IInv, WorldTyped', ThreadsTyped', NEW t \in Threads,
         UNCHANGED <<rtreeOf, rtree, fd, scan, call, severed, overlapped, calm>>,
         \A u \in Threads \ {t} : thread'[u] = thread[u],
         thread'[t].at \notin {"dial", "parsed", "sent"},
         t = "main" => ~Connecting' \/ Connecting,
         t = "watcher" => thread[t].at # "idle"
  PROVE  IInv'
<1>1. SessionTyped' /\ "main" \in Threads /\ "watcher" \in Threads
  BY DEF IInv, SessionTyped, Threads
<1>2. \A u \in Threads : u = "main" \/ u = "watcher"
  BY DEF Threads
<1>3. AddressesApart'
  BY <1>1, <1>2 DEF IInv, AddressesApart, Connecting
<1>4. LinksHold'
  BY <1>1, <1>2 DEF IInv, LinksHold, LeadsTo
<1>5. LineWhole'
  BY <1>1, <1>2 DEF IInv, LineWhole
<1>. QED BY <1>1, <1>3, <1>4, <1>5 DEF IInv

LEMMA DownKeeps ==
  ASSUME IInv, Down, UNCHANGED world
  PROVE  IInv'
<1>1. /\ Goes("main", "down")
      /\ UNCHANGED <<up, node, events, is_connected, watch, rtreeOf, rtree, fd, scan, call,
                     lost, severed, overlapped, calm>>
  BY DEF Down, world, history
<1>2. "main" \in Threads /\ "down" \in MainPlaces /\ ThreadsTyped /\ WorldTyped
  BY DEF Threads, MainPlaces, IInv
<1>3. /\ ThreadsTyped' /\ thread'["main"].at = "down"
      /\ \A u \in Threads \ {"main"} : thread'[u] = thread[u]
  BY <1>1, <1>2, GoesFacts
<1>4. WorldTyped'
  BY <1>1, <1>2 DEF WorldTyped
<1>5. ~Connecting'
  BY <1>3 DEF Connecting
<1>. QED BY <1>1, <1>2, <1>3, <1>4, <1>5, QuietMove

-----------------------------------------------------------------------------
(* Reading the addresses. *)

LEMMA LookKeeps ==
  ASSUME IInv, NEW t \in Threads, Look(t)
  PROVE  IInv'
<1>1. PICK place \in {"fetch", "absent"} : Goes(t, place)
  BY DEF Look
<1>2. thread[t].at = "look" /\ UNCHANGED <<up, node, events, is_connected, watch, rtreeOf, rtree, fd,
                                          scan, call, lost, severed, overlapped, calm>>
  BY DEF Look, At, world, history
<1>3. ThreadsTyped /\ WorldTyped
  BY DEF IInv
<1>4. /\ ThreadsTyped' /\ thread'[t].at = place
      /\ \A u \in Threads \ {t} : thread'[u] = thread[u]
  BY <1>1, <1>3, GoesFacts DEF MainPlaces, WatcherPlaces
<1>5. WorldTyped'
  BY <1>2, <1>3 DEF WorldTyped
<1>6. t = "main" => Connecting
  BY <1>2 DEF Connecting
<1>. QED BY <1>2, <1>4, <1>5, <1>6, QuietMove

LEMMA SetWatchKeeps ==
  ASSUME IInv, SetWatch
  PROVE  IInv'
<1>1. PICK place \in {"look", "dialZoo"} : Goes("main", place)
  BY DEF SetWatch
<1>2. /\ thread["main"].at = "start" /\ watch' \in {watch, "set"}
      /\ UNCHANGED <<up, node, events, is_connected, rtreeOf, rtree, fd,
                     scan, call, lost, severed, overlapped, calm>>
  BY DEF SetWatch, At, world, history
<1>3. ThreadsTyped /\ WorldTyped /\ "main" \in Threads
  BY DEF IInv, Threads
<1>4. /\ ThreadsTyped' /\ thread'["main"].at = place
      /\ \A u \in Threads \ {"main"} : thread'[u] = thread[u]
  BY <1>1, <1>3, GoesFacts DEF MainPlaces, WatcherPlaces
<1>5. WorldTyped'
  BY <1>2, <1>3 DEF WorldTyped
<1>6. Connecting
  BY <1>2 DEF Connecting
<1>. QED BY <1>2, <1>3, <1>4, <1>5, <1>6, QuietMove

LEMMA RewatchKeeps ==
  ASSUME IInv, Rewatch
  PROVE  IInv'
<1>1. Goes("watcher", "look") /\ thread["watcher"].at = "rewatch"
  BY DEF Rewatch, At
<1>2. /\ watch' \in {"none", "set"}
      /\ UNCHANGED <<up, node, events, is_connected, rtreeOf, rtree, fd,
                     scan, call, lost, severed, overlapped, calm>>
  BY DEF Rewatch, world, history
<1>3. ThreadsTyped /\ WorldTyped /\ "watcher" \in Threads
  BY DEF IInv, Threads
<1>4. /\ ThreadsTyped' /\ thread'["watcher"].at = "look"
      /\ \A u \in Threads \ {"watcher"} : thread'[u] = thread[u]
  BY <1>1, <1>3, GoesFacts DEF MainPlaces, WatcherPlaces
<1>5. WorldTyped'
  BY <1>2, <1>3 DEF WorldTyped
<1>. QED BY <1>1, <1>2, <1>3, <1>4, <1>5, QuietMove

\* From here on child_watcher_client uses strtok: if main is at a line it is not calm,
\* if main is in rtree_connect the two overlap.
LEMMA WatcherCalledKeeps ==
  ASSUME IInv, WatcherCalled
  PROVE  IInv'
<1>1. /\ Goes("watcher", "rewatch") /\ watch' = "none"
      /\ overlapped' = (overlapped \/ Connecting)
      /\ calm' = (thread["main"].at \notin {"parsed", "sent"})
      /\ UNCHANGED <<up, node, events, is_connected, rtreeOf, rtree, fd, scan, call, lost, severed>>
  BY DEF WatcherCalled, world, Connecting
<1>2. ThreadsTyped /\ WorldTyped /\ SessionTyped /\ AddressesApart /\ LinksHold /\ "watcher" \in Threads
  BY DEF IInv, Threads
<1>3. /\ ThreadsTyped' /\ thread'["watcher"].at = "rewatch"
      /\ \A u \in Threads \ {"watcher"} : thread'[u] = thread[u]
  BY <1>1, <1>2, GoesFacts DEF MainPlaces, WatcherPlaces
<1>4. thread'["main"] = thread["main"]
  BY <1>3 DEF Threads
<1>5. WorldTyped'
  <2>1. {lost', severed', overlapped', calm'} \subseteq BOOLEAN
    BY <1>1, <1>2 DEF WorldTyped
  <2>2. /\ up' \subseteq Servers /\ node' \in [Replicas -> Servers \cup {None}]
        /\ events' \in 0..MaxEvents /\ is_connected' \in BOOLEAN
        /\ watch' \in {"none", "set", "fired"}
    BY <1>1, <1>2 DEF WorldTyped
  <2>. QED BY <2>1, <2>2 DEF WorldTyped
<1>6. SessionTyped'
  BY <1>1, <1>2 DEF SessionTyped
<1>7. AddressesApart'
  <2> SUFFICES ASSUME ~overlapped' PROVE ~Connecting' /\ \A t \in Threads : thread'[t].at # "dial"
    BY DEF AddressesApart
  <2>1. ~Connecting
    BY <1>1
  <2>. QED BY <2>1, <1>3, <1>4 DEF Connecting, Threads
<1>8. LinksHold'
  BY <1>1, <1>2, <1>4 DEF LinksHold, LeadsTo
<1>9. LineWhole'
  BY <1>1, <1>4 DEF LineWhole
<1>. QED BY <1>3, <1>5, <1>6, <1>7, <1>8, <1>9 DEF IInv

LEMMA AbsentStepKeeps ==
  ASSUME IInv, NEW t \in Threads, Absent(t)
  PROVE  IInv'
<1>1. /\ thread[t].at = "absent"
      /\ rtreeOf' = [rtreeOf EXCEPT ![thread[t].replica] = None]
      /\ thread' = [thread EXCEPT ![t] = AfterReplica(t)]
      /\ UNCHANGED <<up, node, events, is_connected, watch, rtree, fd, scan, call,
                     lost, severed, overlapped, calm>>
  BY DEF Absent, At, world, history
<1>2. /\ ThreadsTyped /\ WorldTyped /\ SessionTyped /\ AddressesApart /\ LinksHold /\ LineWhole
  BY DEF IInv
<1>3. /\ ThreadsTyped'
      /\ thread'[t].at \in {"look", IF t = "main" THEN "dialZoo" ELSE "idle"}
      /\ \A u \in Threads \ {t} : thread'[u] = thread[u]
  BY <1>1, <1>2, AfterReplicaFacts
<1>4. WorldTyped'
  BY <1>1, <1>2 DEF WorldTyped
<1>5. rtreeOf' \in [Replicas -> Structs] /\ \A r \in Replicas : rtreeOf'[r] \in {None, rtreeOf[r]}
  BY <1>1, <1>2 DEF SessionTyped, Structs
<1>6. SessionTyped'
  BY <1>1, <1>2, <1>5 DEF SessionTyped
<1>7. AddressesApart'
  <2>1. CASE t = "main"
    BY <2>1, <1>1, <1>2, <1>3 DEF AddressesApart, Connecting, Threads
  <2>2. CASE t = "watcher"
    BY <2>2, <1>1, <1>2, <1>3 DEF AddressesApart, Connecting, Threads
  <2>. QED BY <2>1, <2>2 DEF Threads
<1>8. LinksHold'
  <2>1. thread'["main"].at = "sent" => thread["main"].at = "sent"
    BY <1>3 DEF Threads
  <2>. QED BY <2>1, <1>1, <1>2, <1>5 DEF LinksHold, LeadsTo
<1>9. LineWhole'
  <2>1. CASE t = "main"
    BY <2>1, <1>3 DEF LineWhole
  <2>2. CASE t = "watcher"
    BY <2>2, <1>1, <1>2, <1>3 DEF LineWhole, Threads
  <2>. QED BY <2>1, <2>2 DEF Threads
<1>. QED BY <1>3, <1>4, <1>6, <1>7, <1>8, <1>9 DEF IInv

LEMMA FetchKeeps ==
  ASSUME IInv, NEW t \in Threads, Fetch(t)
  PROVE  IInv'
<1> DEFINE r == thread[t].replica
           addr == IF is_connected THEN node[r] ELSE None
           new == [server |-> addr, sock |-> NoFd, state |-> "fresh"]
<1>1. /\ thread[t].at = "fetch"
      /\ rtreeOf' = [rtreeOf EXCEPT ![r] = new]
      /\ scan' \in IF addr = None THEN {<< >>, <<"garbage">>} ELSE {<<addr>>}
      /\ thread' = [thread EXCEPT ![t].at = "dial", ![t].addr = addr]
      /\ UNCHANGED <<up, node, events, is_connected, watch, rtree, fd, call,
                     lost, severed, overlapped, calm>>
  BY DEF Fetch, At, world, history
<1>2. /\ ThreadsTyped /\ WorldTyped /\ SessionTyped /\ AddressesApart /\ LinksHold /\ LineWhole
  BY DEF IInv
<1>3. r \in Replicas /\ addr \in Servers \cup {None}
  BY <1>2 DEF ThreadsTyped, Thread, WorldTyped
<1>4. new \in Structs /\ new.state = "fresh"
  BY <1>3 DEF Structs, Struct
<1> HIDE DEF new
<1>5. /\ scan' \in Seq(Tokens)
      /\ \A n \in DOMAIN scan' : scan'[n] \in Servers => scan'[n] = addr
  <2>1. CASE scan' = << >>
    BY <2>1
  <2>2. CASE scan' = <<"garbage">>
    BY <2>2, ConstantsAssumption DEF Tokens, Words
  <2>3. CASE addr # None /\ scan' = <<addr>>
    BY <2>3, <1>3 DEF Tokens
  <2>. QED BY <1>1, <2>1, <2>2, <2>3
<1> HIDE DEF addr
<1>6. /\ ThreadsTyped' /\ thread'[t].at = "dial" /\ thread'[t].addr = addr
      /\ \A u \in Threads \ {t} : thread'[u] = thread[u]
  <2> DEFINE moved == [at |-> "dial", replica |-> r, addr |-> addr]
  <2>1. thread[t] \in Thread /\ thread \in [Threads -> Thread]
    BY <1>2 DEF ThreadsTyped
  <2>2. thread' = [thread EXCEPT ![t] = moved]
    <3>1. PICK half : half = [thread[t] EXCEPT !.at = "dial"]
      OBVIOUS
    <3>2. half = [at |-> "dial", replica |-> r, addr |-> thread[t].addr]
      BY <2>1, <3>1 DEF Thread
    <3>3. [half EXCEPT !.addr = addr] = moved
      BY <3>2
    <3>4. thread' = [thread EXCEPT ![t] = [half EXCEPT !.addr = addr]]
      BY <1>1, <2>1, <3>1
    <3>. QED BY <3>3, <3>4
  <2>3. moved \in Thread
    BY <1>3 DEF Thread, MainPlaces
  <2>4. /\ thread' \in [Threads -> Thread] /\ thread'[t] = moved
        /\ \A u \in Threads \ {t} : thread'[u] = thread[u]
    BY <2>1, <2>2, <2>3
  <2>5. thread'["main"].at \in MainPlaces /\ thread'["watcher"].at \in WatcherPlaces
    BY <2>4, <1>2 DEF ThreadsTyped, Threads, MainPlaces, WatcherPlaces
  <2>. QED BY <2>4, <2>5 DEF ThreadsTyped
<1>7. WorldTyped'
  BY <1>1, <1>2 DEF WorldTyped
<1>8. rtreeOf' \in [Replicas -> Structs] /\ \A q \in Replicas : rtreeOf'[q] \in {new, rtreeOf[q]}
  BY <1>1, <1>2, <1>3, <1>4 DEF SessionTyped
<1>9. SessionTyped'
  BY <1>1, <1>2, <1>5, <1>8 DEF SessionTyped
<1>10. AddressesApart'
  <2> SUFFICES ASSUME ~overlapped
               PROVE  /\ Connecting' => thread'["watcher"].at = "idle"
                      /\ \A u \in Threads \ {t} : thread'[u].at # "dial"
    BY <1>1, <1>5, <1>6 DEF AddressesApart
  <2>1. Connecting => thread["watcher"].at = "idle"
    BY <1>2 DEF AddressesApart
  <2>2. CASE t = "main"
    BY <2>1, <2>2, <1>1, <1>6 DEF Connecting, Threads
  <2>3. CASE t = "watcher"
    <3>1. thread'["main"] = thread["main"] /\ ~Connecting
      BY <2>1, <2>3, <1>1, <1>6 DEF Threads
    <3>. QED BY <2>3, <3>1 DEF Connecting, Threads
  <2>. QED BY <2>2, <2>3 DEF Threads
<1>11. LinksHold'
  <2>1. thread'["main"].at = "sent" => thread["main"].at = "sent"
    BY <1>6 DEF Threads
  <2>. QED BY <2>1, <1>1, <1>2, <1>4, <1>8 DEF LinksHold, LeadsTo
<1>12. LineWhole'
  <2>1. CASE t = "main"
    BY <2>1, <1>6 DEF LineWhole
  <2>2. CASE t = "watcher"
    BY <2>2, <1>1, <1>2, <1>6 DEF LineWhole, Threads
  <2>. QED BY <2>1, <2>2 DEF Threads
<1>. QED BY <1>6, <1>7, <1>9, <1>10, <1>11, <1>12 DEF IInv

-----------------------------------------------------------------------------
(* Connecting. *)

\* A set of natural numbers has a smallest one.
LEMMA Smallest ==
  ASSUME NEW S, S \subseteq Nat, S # {}
  PROVE  \E f \in S : \A g \in S : f <= g
<1> DEFINE R == {p \in Nat \X Nat : p[1] < p[2]}
<1>1. IsWellFoundedOn(R, Nat)
  BY NatLessThanWellFounded DEF OpToRel
<1>2. PICK f \in S : \A g \in S : ~(<<g, f>> \in R)
  BY <1>1, WFMin
<1>3. ASSUME NEW g \in S, g < f
      PROVE  FALSE
  <2>1. <<g, f>> \in Nat \X Nat /\ <<g, f>>[1] = g /\ <<g, f>>[2] = f
    OBVIOUS
  <2>2. <<g, f>> \in R
    BY <1>3, <2>1
  <2>. QED BY <1>2, <2>2
<1>. QED BY <1>3

LEMMA LowestFreeFacts ==
  /\ LowestFree \in Socks
  /\ LowestFree # NoFd => LowestFree \in Fds /\ fd[LowestFree] = None
<1>1. Fds \subseteq Nat \ {0} /\ Free \subseteq Fds
  BY ConstantsAssumption DEF Fds, Free
<1>2. CASE Free = {}
  BY <1>2 DEF LowestFree, Socks
<1>3. CASE Free # {}
  <2>1. \E d \in Free : \A e \in Free : d <= e
    BY <1>1, <1>3, Smallest
  <2>2. LowestFree \in Free
    BY <1>3, <2>1 DEF LowestFree
  <2>. QED BY <1>1, <2>2 DEF Free, Socks
<1>. QED BY <1>2, <1>3

\* A connection takes a descriptor that is free and leaves the others alone.
LEMMA ConnectFacts ==
  ASSUME SessionTyped, up \subseteq Servers, NEW addr,
         NEW new, new = network_connect(addr)
  PROVE  /\ new.sock \in Socks /\ new.state \in {"linked", "failed"}
         /\ new.fd \in [Fds -> Servers \cup {Zoo, None}]
         /\ \A d \in Fds : fd[d] # None => new.fd[d] = fd[d]
         /\ new.state = "linked" =>
              addr \in up \cup {Zoo} /\ new.sock \in Fds /\ new.fd[new.sock] = addr
<1> DEFINE linked == LowestFree # NoFd /\ addr \in up \cup {Zoo}
<1>1. /\ new.sock = LowestFree
      /\ new.state = IF linked THEN "linked" ELSE "failed"
      /\ new.fd = IF linked THEN [fd EXCEPT ![LowestFree] = addr] ELSE fd
  BY DEF network_connect
<1>2. fd \in [Fds -> Servers \cup {Zoo, None}]
  BY DEF SessionTyped
<1>3. /\ LowestFree \in Socks
      /\ LowestFree # NoFd => LowestFree \in Fds /\ fd[LowestFree] = None
  BY LowestFreeFacts
<1> HIDE DEF linked
<1>4. CASE linked
  <2>1. LowestFree \in Fds /\ fd[LowestFree] = None /\ addr \in up \cup {Zoo}
    BY <1>3, <1>4 DEF linked
  <2>2. new.fd = [fd EXCEPT ![LowestFree] = addr] /\ new.state = "linked"
    BY <1>1, <1>4
  <2>. QED BY <1>1, <1>2, <1>3, <2>1, <2>2
<1>5. CASE ~linked
  <2>1. new.fd = fd /\ new.state = "failed"
    BY <1>1, <1>5
  <2>. QED BY <1>1, <1>2, <1>3, <2>1
<1>. QED BY <1>4, <1>5

\* What leads to a server still does when nothing is closed.
LEMMA LeadsToStays ==
  ASSUME \A d \in Fds : fd[d] # None => fd'[d] = fd[d],
         NEW struct, NEW d, LeadsTo(struct, d)
  PROVE  struct.server \in Servers /\ d \in Fds /\ fd'[d] = struct.server
BY ConstantsAssumption DEF LeadsTo

LEMMA DialStepKeeps ==
  ASSUME IInv, NEW t \in Threads, Dial(t)
  PROVE  IInv'
<1> DEFINE r == thread[t].replica
<1>1. thread[t].at = "dial" /\ UNCHANGED <<up, node, events, is_connected>>
  <2>1. At(t, "dial")
    BY DEF Dial
  <2>2. UNCHANGED world
    BY DEF Dial, Down
  <2>. QED BY <2>1, <2>2 DEF At, world
<1>2. CASE scan = << >> \/ rtreeOf[r] = None
  <2>1. Down
    BY <1>2 DEF Dial
  <2>. QED BY <2>1, <1>1, DownKeeps DEF world
<1>3. CASE ~(scan = << >> \/ rtreeOf[r] = None)
  <2>1. PICK new : new = network_connect(Head(scan))
    OBVIOUS
  <2> DEFINE struct == [server |-> thread[t].addr, sock |-> new.sock, state |-> new.state]
  <2>2. /\ scan' = << >>
        /\ fd' = new.fd
        /\ rtreeOf' = [rtreeOf EXCEPT ![r] = struct]
        /\ call' = IF call.sent # NoFd /\ call.to = r /\ call.struct.state = "fresh"
                   THEN [call EXCEPT !.sock = new.sock] ELSE call
        /\ thread' = [thread EXCEPT ![t] = AfterReplica(t)]
        /\ UNCHANGED <<watch, rtree, lost, severed, overlapped, calm>>
    BY <1>3, <2>1 DEF Dial, history
  <2>3. /\ ThreadsTyped /\ WorldTyped /\ SessionTyped /\ AddressesApart /\ LinksHold /\ LineWhole
    BY DEF IInv
  <2>4. /\ new.sock \in Socks /\ new.state \in {"linked", "failed"}
        /\ new.fd \in [Fds -> Servers \cup {Zoo, None}]
        /\ \A d \in Fds : fd[d] # None => new.fd[d] = fd[d]
        /\ new.state = "linked" =>
             Head(scan) \in up \cup {Zoo} /\ new.sock \in Fds /\ new.fd[new.sock] = Head(scan)
    BY <2>1, <2>3, ConnectFacts DEF WorldTyped
  <2>5. r \in Replicas /\ thread[t].addr \in Servers \cup {None}
    BY <2>3 DEF ThreadsTyped, Thread
  <2>6. struct \in Structs /\ struct.server = thread[t].addr /\ struct.sock = new.sock /\ struct.state = new.state
    BY <2>4, <2>5 DEF Structs, Struct, Socks
  <2> HIDE DEF struct
  <2>7. /\ ThreadsTyped'
        /\ thread'[t].at \in {"look", IF t = "main" THEN "dialZoo" ELSE "idle"}
        /\ \A u \in Threads \ {t} : thread'[u] = thread[u]
    BY <2>2, <2>3, AfterReplicaFacts
  <2>8. WorldTyped'
    BY <1>1, <2>2, <2>3 DEF WorldTyped
  <2>9. /\ call' \in Calls
        /\ call'.line = call.line /\ call'.tokens = call.tokens
        /\ call'.struct = call.struct /\ call'.sent = call.sent
    <3>1. call \in Calls
      BY <2>3 DEF SessionTyped
    <3>2. /\ [call EXCEPT !.sock = new.sock] \in Calls
          /\ [call EXCEPT !.sock = new.sock].line = call.line
          /\ [call EXCEPT !.sock = new.sock].tokens = call.tokens
          /\ [call EXCEPT !.sock = new.sock].struct = call.struct
          /\ [call EXCEPT !.sock = new.sock].sent = call.sent
      BY <3>1, <2>4 DEF Calls
    <3>. QED BY <3>1, <3>2, <2>2
  <2>10. rtreeOf' \in [Replicas -> Structs] /\ rtreeOf'[r] = struct /\ \A q \in Replicas \ {r} : rtreeOf'[q] = rtreeOf[q]
    BY <2>2, <2>3, <2>5, <2>6 DEF SessionTyped
  <2>11. SessionTyped'
    <3>1. scan' \in Seq(Tokens)
      BY <2>2
    <3>. QED BY <3>1, <2>2, <2>3, <2>4, <2>9, <2>10 DEF SessionTyped
  <2>12. AddressesApart'
    <3>1. DOMAIN scan' = {}
      BY <2>2
    <3>2. CASE t = "main"
      BY <3>1, <3>2, <1>1, <2>2, <2>3, <2>7 DEF AddressesApart, Connecting, Threads
    <3>3. CASE t = "watcher"
      BY <3>1, <3>3, <1>1, <2>2, <2>3, <2>7 DEF AddressesApart, Connecting, Threads
    <3>. QED BY <3>2, <3>3 DEF Threads
  <2>13. LinksHold'
    <3> SUFFICES ASSUME ~overlapped, ~severed
                 PROVE  /\ \A q \in Replicas : rtreeOf'[q] # None /\ rtreeOf'[q].state = "linked" =>
                             /\ rtreeOf'[q].server \in Servers /\ rtreeOf'[q].sock \in Fds
                             /\ fd'[rtreeOf'[q].sock] = rtreeOf'[q].server
                        /\ thread'["main"].at = "sent" /\ call'.struct.state = "linked" =>
                             /\ call'.struct.server \in Servers /\ call'.sent \in Fds
                             /\ fd'[call'.sent] = call'.struct.server
      BY <2>2 DEF LinksHold, LeadsTo
    <3>1. \A d \in Fds : fd[d] # None => fd'[d] = fd[d]
      BY <2>2, <2>4
    <3>2. ASSUME NEW q \in Replicas, rtreeOf'[q] # None, rtreeOf'[q].state = "linked"
          PROVE  /\ rtreeOf'[q].server \in Servers /\ rtreeOf'[q].sock \in Fds
                 /\ fd'[rtreeOf'[q].sock] = rtreeOf'[q].server
      <4>1. CASE q # r
        <5>1. rtreeOf'[q] = rtreeOf[q]
          BY <2>10, <4>1
        <5>2. LeadsTo(rtreeOf[q], rtreeOf[q].sock)
          BY <3>2, <5>1, <2>3 DEF LinksHold
        <5>. QED BY <3>1, <5>1, <5>2, LeadsToStays
      <4>2. CASE q = r
        <5>1. rtreeOf'[q] = struct /\ new.state = "linked"
          BY <3>2, <4>2, <2>6, <2>10
        <5>2. Head(scan) \in up \cup {Zoo} /\ new.sock \in Fds /\ new.fd[new.sock] = Head(scan)
          BY <5>1, <2>4
        <5>3. scan \in Seq(Tokens) /\ scan # << >>
          BY <1>3, <2>3 DEF SessionTyped
        <5>4. 1 \in DOMAIN scan /\ Head(scan) = scan[1] /\ Head(scan) \in Tokens
          BY <5>3
        <5>5. Head(scan) \in Servers
          BY <5>2, <5>4, <2>3, ConstantsAssumption DEF Tokens, Words, WorldTyped
        <5>6. Head(scan) = thread[t].addr
          BY <5>4, <5>5, <1>1, <2>3 DEF AddressesApart
        <5>. QED BY <5>1, <5>2, <5>5, <5>6, <2>2, <2>6
      <4>. QED BY <4>1, <4>2
    <3>3. ASSUME thread'["main"].at = "sent", call'.struct.state = "linked"
          PROVE  /\ call'.struct.server \in Servers /\ call'.sent \in Fds
                 /\ fd'[call'.sent] = call'.struct.server
      <4>1. thread["main"].at = "sent"
        BY <3>3, <2>7 DEF Threads
      <4>2. LeadsTo(call.struct, call.sent)
        BY <3>3, <4>1, <2>3, <2>9 DEF LinksHold
      <4>. QED BY <3>1, <4>2, <2>9, LeadsToStays
    <3>. QED BY <3>2, <3>3
  <2>14. LineWhole'
    <3>1. CASE t = "main"
      BY <3>1, <2>7 DEF LineWhole
    <3>2. CASE t = "watcher"
      BY <3>2, <1>1, <2>2, <2>3, <2>7 DEF LineWhole, Threads
    <3>. QED BY <3>1, <3>2 DEF Threads
  <2>. QED BY <2>7, <2>8, <2>11, <2>12, <2>13, <2>14 DEF IInv
<1>. QED BY <1>2, <1>3

LEMMA DialZooKeeps ==
  ASSUME IInv, DialZoo
  PROVE  IInv'
<1>1. thread["main"].at = "dialZoo" /\ UNCHANGED <<up, node, events, is_connected>>
  BY DEF DialZoo, Down, At, world
<1>2. CASE Down
  BY <1>1, <1>2, DownKeeps DEF world
<1>3. CASE ~Down
  <2>1. PICK new : new = network_connect(Zoo)
    OBVIOUS
  <2>2. /\ fd' = new.fd /\ rtree' = new.sock
        /\ Goes("main", "prompt")
        /\ UNCHANGED <<watch, rtreeOf, scan, call, lost, severed, overlapped, calm>>
    BY <1>3, <2>1 DEF DialZoo, history
  <2>3. /\ ThreadsTyped /\ WorldTyped /\ SessionTyped /\ AddressesApart /\ LinksHold /\ LineWhole
        /\ "main" \in Threads
    BY DEF IInv, Threads
  <2>4. /\ new.sock \in Socks /\ new.fd \in [Fds -> Servers \cup {Zoo, None}]
        /\ \A d \in Fds : fd[d] # None => new.fd[d] = fd[d]
    BY <2>1, <2>3, ConnectFacts DEF WorldTyped
  <2>5. /\ ThreadsTyped' /\ thread'["main"].at = "prompt"
        /\ \A u \in Threads \ {"main"} : thread'[u] = thread[u]
    BY <2>2, <2>3, GoesFacts DEF MainPlaces
  <2>6. WorldTyped'
    BY <1>1, <2>2, <2>3 DEF WorldTyped
  <2>7. SessionTyped'
    BY <2>2, <2>3, <2>4 DEF SessionTyped
  <2>8. AddressesApart'
    <3>1. \A u \in Threads : thread'[u].at = "dial" => thread'[u] = thread[u]
      BY <2>5
    <3>. QED BY <2>2, <2>3, <2>5, <3>1 DEF AddressesApart, Connecting
  <2>9. LinksHold'
    <3>1. \A d \in Fds : fd[d] # None => fd'[d] = fd[d]
      BY <2>2, <2>4
    <3>2. \A struct, d : LeadsTo(struct, d) => struct.server \in Servers /\ d \in Fds /\ fd'[d] = struct.server
      BY <3>1, LeadsToStays
    <3>. QED BY <2>2, <2>3, <2>5, <3>2 DEF LinksHold, LeadsTo
  <2>10. LineWhole'
    BY <2>5 DEF LineWhole
  <2>. QED BY <2>5, <2>6, <2>7, <2>8, <2>9, <2>10 DEF IInv
<1>. QED BY <1>2, <1>3

-----------------------------------------------------------------------------
(* A line of input. *)

LEMMA TypedFacts ==
  ASSUME NEW line \in AllLines
  PROVE  Typed(line) \in Seq(Tokens) /\ \A n \in DOMAIN Typed(line) : Typed(line)[n] \notin Servers
<1>1. CASE line = "put"
  <2>1. Typed(line) = <<"key", "data">>
    BY <1>1 DEF Typed
  <2>. QED BY <2>1, ConstantsAssumption DEF Tokens, Words
<1>2. CASE line \in {"get", "del", "verify"}
  <2>1. Typed(line) = <<"key">>
    BY <1>2 DEF Typed
  <2>. QED BY <2>1, ConstantsAssumption DEF Tokens, Words
<1>3. CASE line # "put" /\ line \notin {"get", "del", "verify"}
  <2>1. Typed(line) = << >>
    BY <1>3 DEF Typed
  <2>. QED BY <2>1
<1>. QED BY <1>1, <1>2, <1>3

LEMMA CommandKeeps ==
  ASSUME IInv, NEW line \in Lines, Command(line)
  PROVE  IInv'
<1>0. line \in AllLines /\ "main" \in Threads
  BY LinesAssumption DEF Threads
<1>1. /\ thread["main"].at = "prompt"
      /\ calm' = (thread["watcher"].at = "idle")
      /\ UNCHANGED <<up, node, events, is_connected, watch, rtreeOf, rtree, fd, lost, severed, overlapped>>
  BY DEF Command, At, world
<1>2. PICK place \in {"down", "disconnect", "parsed"} :
        /\ Goes("main", place)
        /\ call' \in {call, [NoCall EXCEPT !.line = line]}
        /\ scan' \in {scan, Typed(line)}
        /\ place = "parsed" => call' = [NoCall EXCEPT !.line = line] /\ scan' = Typed(line)
  <2>1. CASE WithoutServers(line)
    BY <2>1 DEF WithoutServers
  <2>2. CASE WithServers(line)
    <3>1. CASE line = "quit"
      BY <2>2, <3>1 DEF WithServers
    <3>2. CASE line \in Requests
      <4>1. line # "quit" /\ line # "blank"
        BY <3>2 DEF Requests
      <4>. QED BY <2>2, <3>2, <4>1 DEF WithServers
    <3>3. CASE line # "quit" /\ line \notin Requests
      BY <2>2, <3>3 DEF WithServers
    <3>. QED BY <3>1, <3>2, <3>3
  <2>. QED BY <2>1, <2>2 DEF Command
<1>3. /\ ThreadsTyped /\ WorldTyped /\ SessionTyped /\ AddressesApart /\ LinksHold
  BY DEF IInv
<1>4. /\ ThreadsTyped' /\ thread'["main"].at = place
      /\ \A u \in Threads \ {"main"} : thread'[u] = thread[u]
  BY <1>0, <1>2, <1>3, GoesFacts DEF MainPlaces
<1>5. [NoCall EXCEPT !.line = line] \in Calls /\ [NoCall EXCEPT !.line = line].tokens = << >>
      /\ [NoCall EXCEPT !.line = line].line = line
  <2>1. << >> \in Seq(Tokens)
    OBVIOUS
  <2>. QED BY <1>0, <2>1 DEF NoCall, Calls, Replicas, Structs, Socks
<1>6. WorldTyped'
  <2>1. {lost', severed', overlapped', calm'} \subseteq BOOLEAN
    BY <1>1, <1>3 DEF WorldTyped
  <2>2. /\ up' \subseteq Servers /\ node' \in [Replicas -> Servers \cup {None}]
        /\ events' \in 0..MaxEvents /\ is_connected' \in BOOLEAN
        /\ watch' \in {"none", "set", "fired"}
    BY <1>1, <1>3 DEF WorldTyped
  <2>. QED BY <2>1, <2>2 DEF WorldTyped
<1>7. SessionTyped'
  BY <1>0, <1>1, <1>2, <1>3, <1>5, TypedFacts DEF SessionTyped
<1>8. AddressesApart'
  <2>1. ~Connecting' /\ \A u \in Threads : thread'[u].at = "dial" => thread'[u] = thread[u]
    BY <1>2, <1>4 DEF Connecting
  <2>2. \A n \in DOMAIN scan' : scan'[n] \in Servers => scan' = scan
    BY <1>0, <1>2, TypedFacts
  <2>. QED BY <1>1, <1>3, <2>1, <2>2 DEF AddressesApart
<1>9. LinksHold'
  BY <1>1, <1>2, <1>3, <1>4 DEF LinksHold, LeadsTo
<1>10. LineWhole'
  <2>1. thread'["watcher"] = thread["watcher"]
    BY <1>4 DEF Threads
  <2>2. place = "parsed" => call'.tokens \o scan' = Typed(call'.line)
    <3>1. Typed(line) \in Seq(Tokens)
      BY <1>0, TypedFacts
    <3>2. << >> \o Typed(line) = Typed(line)
      BY <3>1
    <3>. QED BY <1>2, <1>5, <3>2
  <2>. QED BY <1>1, <1>2, <1>4, <2>1, <2>2 DEF LineWhole
<1>. QED BY <1>4, <1>6, <1>7, <1>8, <1>9, <1>10 DEF IInv

\* Moving a word from the front of what is left to the end of what was taken.
LEMMA MoveWord ==
  ASSUME NEW taken \in Seq(Tokens), NEW left \in Seq(Tokens), left # << >>
  PROVE  /\ Append(taken, Head(left)) \in Seq(Tokens) /\ Tail(left) \in Seq(Tokens)
         /\ Append(taken, Head(left)) \o Tail(left) = taken \o left
         /\ \A n \in DOMAIN Tail(left) : n + 1 \in DOMAIN left /\ Tail(left)[n] = left[n + 1]
OBVIOUS

LEMMA TokenKeeps ==
  ASSUME IInv, Token
  PROVE  IInv'
<1>1. thread["main"].at = "parsed" /\ UNCHANGED <<up, node, events, is_connected>>
  BY DEF Token, Down, At, world
<1>2. CASE scan = << >>
  BY <1>1, <1>2, DownKeeps DEF Token, world
<1>3. CASE scan # << >>
  <2>1. /\ call' = [call EXCEPT !.tokens = Append(@, Head(scan))]
        /\ scan' = Tail(scan)
        /\ UNCHANGED <<watch, rtreeOf, rtree, fd, thread, lost, severed, overlapped, calm>>
    BY <1>3 DEF Token, history
  <2>2. /\ ThreadsTyped /\ WorldTyped /\ SessionTyped /\ AddressesApart /\ LinksHold /\ LineWhole
    BY DEF IInv
  <2>3. scan \in Seq(Tokens) /\ call \in Calls /\ call.tokens \in Seq(Tokens)
    BY <2>2 DEF SessionTyped, Calls
  <2>4. /\ Append(call.tokens, Head(scan)) \in Seq(Tokens) /\ Tail(scan) \in Seq(Tokens)
        /\ Append(call.tokens, Head(scan)) \o Tail(scan) = call.tokens \o scan
        /\ \A n \in DOMAIN Tail(scan) : n + 1 \in DOMAIN scan /\ Tail(scan)[n] = scan[n + 1]
    BY <1>3, <2>3, MoveWord
  <2>5. /\ call' \in Calls /\ call'.tokens = Append(call.tokens, Head(scan))
        /\ call'.line = call.line
    BY <2>1, <2>3, <2>4 DEF Calls
  <2>6. WorldTyped' /\ ThreadsTyped'
    BY <1>1, <2>1, <2>2 DEF WorldTyped, ThreadsTyped
  <2>7. SessionTyped'
    BY <2>1, <2>2, <2>4, <2>5 DEF SessionTyped
  <2>8. AddressesApart'
    BY <2>1, <2>2, <2>4 DEF AddressesApart, Connecting
  <2>9. LinksHold'
    BY <1>1, <2>1, <2>2 DEF LinksHold, LeadsTo
  <2>10. LineWhole'
    BY <1>1, <2>1, <2>2, <2>4, <2>5 DEF LineWhole
  <2>. QED BY <2>6, <2>7, <2>8, <2>9, <2>10 DEF IInv
<1>. QED BY <1>2, <1>3

\* Every stub asks through the structure that the variable leads to.
LEMMA StubFacts ==
  ASSUME NEW line \in Requests, NEW tokens
  PROVE  /\ Stub(line, tokens).to \in Replicas
         /\ Stub(line, tokens).struct = rtreeOf[Stub(line, tokens).to]
<1>1. \A r, opcode, words : /\ Ask(r, opcode, words).to = r
                            /\ Ask(r, opcode, words).struct = rtreeOf[r]
  BY DEF Ask
<1>2. Stub(line, tokens) \in {rtree_put(tokens), rtree_del(tokens), rtree_get(tokens), rtree_verify(tokens),
                              rtree_size(tokens), rtree_height(tokens), rtree_get_keys(tokens)}
  BY DEF Stub, Requests
<1>. QED
  BY <1>1, <1>2 DEF rtree_put, rtree_del, rtree_get, rtree_verify, rtree_size, rtree_height,
                    rtree_get_keys, Replicas

\* A whole is its first part when they are as long as each other.
LEMMA FirstPart ==
  ASSUME NEW taken \in Seq(Tokens), NEW left \in Seq(Tokens), Len(taken) = Len(taken \o left)
  PROVE  taken = taken \o left
<1>1. Len(left) = 0
  OBVIOUS
<1>2. left = << >>
  BY <1>1
<1>. QED BY <1>2

LEMMA SendKeeps ==
  ASSUME IInv, Send, call.line \in Requests
  PROVE  IInv'
<1> DEFINE ask == Stub(call.line, call.tokens)
<1>1. /\ thread["main"].at = "parsed" /\ Len(call.tokens) = Len(Typed(call.line))
      /\ UNCHANGED <<up, node, events, is_connected, watch, rtreeOf, rtree, fd, scan,
                     lost, severed, overlapped, calm>>
  BY DEF Send, At, world, history
<1>2. PICK sock \in SockOf(ask.struct) :
        IF sock = NoFd \/ fd[sock] = None
        THEN Goes("main", "disconnect") /\ UNCHANGED call
        ELSE /\ Goes("main", "sent")
             /\ call' = [call EXCEPT !.to = ask.to, !.struct = ask.struct,
                                     !.sent = sock, !.sock = sock]
  BY DEF Send
<1>3. /\ ThreadsTyped /\ WorldTyped /\ SessionTyped /\ AddressesApart /\ LinksHold /\ LineWhole
      /\ "main" \in Threads
  BY DEF IInv, Threads
<1>4. ask.to \in Replicas /\ ask.struct = rtreeOf[ask.to] /\ ask.struct \in Structs
  BY <1>3, StubFacts DEF SessionTyped
<1> HIDE DEF ask
<1>5. WorldTyped'
  BY <1>1, <1>3 DEF WorldTyped
<1>6. CASE sock = NoFd \/ fd[sock] = None
  <2>1. Goes("main", "disconnect") /\ UNCHANGED call
    BY <1>2, <1>6
  <2>2. /\ ThreadsTyped' /\ thread'["main"].at = "disconnect"
        /\ \A u \in Threads \ {"main"} : thread'[u] = thread[u]
    BY <2>1, <1>3, GoesFacts DEF MainPlaces
  <2>3. ~Connecting'
    BY <2>2 DEF Connecting
  <2>. QED BY <1>1, <1>3, <1>5, <2>1, <2>2, <2>3, QuietMove
<1>7. CASE ~(sock = NoFd \/ fd[sock] = None)
  <2>1. /\ Goes("main", "sent")
        /\ call' = [call EXCEPT !.to = ask.to, !.struct = ask.struct, !.sent = sock, !.sock = sock]
    BY <1>2, <1>7
  <2>2. /\ ThreadsTyped' /\ thread'["main"].at = "sent"
        /\ \A u \in Threads \ {"main"} : thread'[u] = thread[u]
    BY <2>1, <1>3, GoesFacts DEF MainPlaces
  <2>3. sock \in Socks /\ ask.struct # None /\ (ask.struct.state = "linked" => sock = ask.struct.sock)
    BY <1>2, <1>4, <1>7 DEF SockOf, Structs, Struct, Socks
  <2>4. call \in Calls
    BY <1>3 DEF SessionTyped
  <2>5. call' = [line |-> call.line, tokens |-> call.tokens, to |-> ask.to, struct |-> ask.struct,
                 sent |-> sock, sock |-> sock]
    BY <2>1, <2>4 DEF Calls
  <2>6. call' \in Calls
    BY <2>3, <2>4, <2>5, <1>4 DEF Calls
  <2>7. SessionTyped'
    BY <2>6, <1>1, <1>3 DEF SessionTyped
  <2>8. AddressesApart'
    <3>1. ~Connecting' /\ \A u \in Threads : thread'[u].at = "dial" => thread'[u] = thread[u]
      BY <2>2 DEF Connecting
    <3>. QED BY <1>1, <1>3, <3>1 DEF AddressesApart
  <2>9. LinksHold'
    <3> SUFFICES ASSUME ~overlapped, ~severed
                 PROVE  ask.struct.state = "linked" => LeadsTo(ask.struct, sock)
      BY <1>1, <1>3, <2>2, <2>5 DEF LinksHold, LeadsTo
    <3>. QED BY <1>3, <1>4, <2>3 DEF LinksHold
  <2>10. LineWhole'
    <3> SUFFICES ASSUME calm
                 PROVE  thread["watcher"].at = "idle" /\ call.tokens = Typed(call.line)
      BY <1>1, <2>2, <2>5 DEF LineWhole, Threads
    <3>1. thread["watcher"].at = "idle" /\ call.tokens \o scan = Typed(call.line)
      BY <1>1, <1>3 DEF LineWhole
    <3>2. call.tokens \in Seq(Tokens) /\ scan \in Seq(Tokens)
      BY <1>3, <2>4 DEF SessionTyped, Calls
    <3>. QED BY <1>1, <3>1, <3>2, FirstPart
  <2>. QED BY <1>5, <2>2, <2>7, <2>8, <2>9, <2>10 DEF IInv
<1>. QED BY <1>6, <1>7

LEMMA ReceiveKeeps ==
  ASSUME IInv, Receive
  PROVE  IInv'
<1>1. UNCHANGED world /\ (Down \/ Returns)
  BY DEF Receive, Down, Returns
<1>2. CASE Down
  BY <1>1, <1>2, DownKeeps
<1>3. CASE Returns
  <2>1. /\ Goes("main", "disconnect")
        /\ UNCHANGED <<up, node, events, is_connected, watch, rtreeOf, rtree, fd, scan, call,
                       lost, severed, overlapped, calm>>
    BY <1>3 DEF Returns, world, history
  <2>2. "main" \in Threads /\ ThreadsTyped /\ WorldTyped
    BY DEF Threads, IInv
  <2>3. /\ ThreadsTyped' /\ thread'["main"].at = "disconnect"
        /\ \A u \in Threads \ {"main"} : thread'[u] = thread[u]
    BY <2>1, <2>2, GoesFacts DEF MainPlaces
  <2>4. WorldTyped' /\ ~Connecting'
    BY <2>1, <2>2, <2>3 DEF WorldTyped, Connecting
  <2>. QED BY <2>1, <2>2, <2>3, <2>4, QuietMove
<1>. QED BY <1>1, <1>2, <1>3

\* A descriptor that has become a server's is another's: closing it is on record.
LEMMA DisconnectKeeps ==
  ASSUME IInv, rtree_disconnect
  PROVE  IInv'
<1>1. /\ thread["main"].at = "disconnect" /\ Goes("main", "prompt")
      /\ fd' = network_close(rtree)
      /\ severed' = (severed \/ fd[rtree] \in Servers)
      /\ call' = NoCall /\ calm' = TRUE
      /\ UNCHANGED <<up, node, events, is_connected, watch, rtreeOf, rtree, scan, lost, overlapped>>
  BY DEF rtree_disconnect, At, world
<1>2. /\ ThreadsTyped /\ WorldTyped /\ SessionTyped /\ AddressesApart /\ LinksHold
      /\ "main" \in Threads
  BY DEF IInv, Threads
<1>3. /\ ThreadsTyped' /\ thread'["main"].at = "prompt"
      /\ \A u \in Threads \ {"main"} : thread'[u] = thread[u]
  BY <1>1, <1>2, GoesFacts DEF MainPlaces
<1>4. /\ fd' \in [Fds -> Servers \cup {Zoo, None}]
      /\ \A d \in Fds : d # rtree => fd'[d] = fd[d]
  <2>1. fd \in [Fds -> Servers \cup {Zoo, None}]
    BY <1>2 DEF SessionTyped
  <2>2. fd' = fd \/ fd' = [fd EXCEPT ![rtree] = None]
    BY <1>1 DEF network_close
  <2>. QED BY <2>1, <2>2
<1>5. WorldTyped'
  <2>1. {lost', severed', overlapped', calm'} \subseteq BOOLEAN
    BY <1>1, <1>2 DEF WorldTyped
  <2>2. /\ up' \subseteq Servers /\ node' \in [Replicas -> Servers \cup {None}]
        /\ events' \in 0..MaxEvents /\ is_connected' \in BOOLEAN
        /\ watch' \in {"none", "set", "fired"}
    BY <1>1, <1>2 DEF WorldTyped
  <2>. QED BY <2>1, <2>2 DEF WorldTyped
<1>6. SessionTyped'
  <2>1. << >> \in Seq(Tokens)
    OBVIOUS
  <2>2. NoCall \in Calls
    BY <2>1 DEF NoCall, Calls, AllLines, Requests, Replicas, Structs, Socks
  <2>. QED BY <1>1, <1>2, <1>4, <2>2 DEF SessionTyped
<1>7. AddressesApart'
  <2>1. ~Connecting' /\ \A u \in Threads : thread'[u].at = "dial" => thread'[u] = thread[u]
    BY <1>3 DEF Connecting
  <2>. QED BY <1>1, <1>2, <2>1 DEF AddressesApart
<1>8. LinksHold'
  <2> SUFFICES ASSUME ~overlapped, ~severed'
               PROVE  \A r \in Replicas : rtreeOf[r] # None /\ rtreeOf[r].state = "linked" =>
                        /\ rtreeOf[r].server \in Servers /\ rtreeOf[r].sock \in Fds
                        /\ fd'[rtreeOf[r].sock] = rtreeOf[r].server
    BY <1>1, <1>3 DEF LinksHold, LeadsTo
  <2>1. ~severed /\ fd[rtree] \notin Servers
    BY <1>1
  <2>2. ASSUME NEW r \in Replicas, rtreeOf[r] # None, rtreeOf[r].state = "linked"
        PROVE  /\ rtreeOf[r].server \in Servers /\ rtreeOf[r].sock \in Fds
               /\ fd'[rtreeOf[r].sock] = rtreeOf[r].server
    <3>1. LeadsTo(rtreeOf[r], rtreeOf[r].sock)
      BY <1>2, <2>1, <2>2 DEF LinksHold
    <3>. QED BY <1>4, <2>1, <3>1 DEF LeadsTo
  <2>. QED BY <2>2
<1>9. LineWhole'
  BY <1>3 DEF LineWhole
<1>. QED BY <1>3, <1>5, <1>6, <1>7, <1>8, <1>9 DEF IInv

LEMMA AskingKept ==
  ASSUME IInv, Asking, Next
  PROVE  Asking'
<1>0. ThreadsTyped /\ call \in Calls /\ "main" \in Threads /\ "watcher" \in Threads
  BY DEF IInv, SessionTyped, Threads
<1>1. ASSUME NEW t \in Threads, NEW place \in (MainPlaces \cup WatcherPlaces) \ {"parsed", "sent"},
             t = "main" => place \in MainPlaces, t = "watcher" => place \in WatcherPlaces,
             Goes(t, place), call'.line = call.line
      PROVE  Asking'
  <2>1. thread'[t].at = place /\ \A u \in Threads \ {t} : thread'[u] = thread[u]
    BY <1>0, <1>1, GoesFacts
  <2>. QED BY <1>0, <1>1, <2>1 DEF Asking
<1>2. ASSUME Down
      PROVE  Asking'
  BY <1>0, <1>1, <1>2 DEF Down, MainPlaces
<1>3. ASSUME NEW t \in Threads, Look(t)
      PROVE  Asking'
  BY <1>1, <1>3 DEF Look, MainPlaces, WatcherPlaces
<1>4. ASSUME NEW t \in Threads, thread' = [thread EXCEPT ![t] = AfterReplica(t)], call'.line = call.line
      PROVE  Asking'
  <2>1. /\ thread'[t].at \in {"look", IF t = "main" THEN "dialZoo" ELSE "idle"}
        /\ \A u \in Threads \ {t} : thread'[u] = thread[u]
    BY <1>0, <1>4, AfterReplicaFacts
  <2>. QED BY <1>0, <1>4, <2>1 DEF Asking
<1>5. ASSUME NEW t \in Threads, Absent(t)
      PROVE  Asking'
  BY <1>4, <1>5 DEF Absent
<1>6. ASSUME NEW t \in Threads, Fetch(t)
      PROVE  Asking'
  <2>1. /\ UNCHANGED call
        /\ \E addr : thread' = [thread EXCEPT ![t].at = "dial", ![t].addr = addr]
    BY <1>6 DEF Fetch
  <2>2. thread'[t].at = "dial" /\ \A u \in Threads \ {t} : thread'[u] = thread[u]
    BY <1>0, <2>1 DEF ThreadsTyped, Thread
  <2>. QED BY <1>0, <2>1, <2>2 DEF Asking
<1>7. ASSUME NEW t \in Threads, Dial(t)
      PROVE  Asking'
  <2>1. CASE Down
    BY <1>2, <2>1
  <2>2. CASE ~Down
    <3>1. /\ thread' = [thread EXCEPT ![t] = AfterReplica(t)]
          /\ \E sock : call' \in {call, [call EXCEPT !.sock = sock]}
      BY <1>7, <2>2 DEF Dial
    <3>2. call'.line = call.line
      BY <1>0, <3>1 DEF Calls
    <3>. QED BY <1>4, <3>1, <3>2
  <2>. QED BY <2>1, <2>2
<1>8. ASSUME rtree_connect
      PROVE  Asking'
  <2>1. CASE SetWatch
    BY <1>0, <1>1, <2>1 DEF SetWatch, MainPlaces
  <2>2. CASE DialZoo
    BY <1>0, <1>1, <1>2, <2>2 DEF DialZoo, MainPlaces
  <2>. QED BY <1>8, <2>1, <2>2 DEF rtree_connect
<1>9. ASSUME WatcherCalled \/ Rewatch
      PROVE  Asking'
  BY <1>0, <1>1, <1>9 DEF WatcherCalled, Rewatch, WatcherPlaces
<1>10. ASSUME NEW line \in Lines, Command(line)
       PROVE  Asking'
  <2>1. CASE WithoutServers(line)
    BY <1>0, <1>1, <2>1 DEF WithoutServers, MainPlaces
  <2>2. CASE WithServers(line)
    <3>1. PICK place \in {"down", "parsed", "disconnect"} :
            /\ Goes("main", place)
            /\ place = "parsed" => line \in Requests
            /\ call' = [NoCall EXCEPT !.line = line]
      <4>1. CASE line = "quit"
        BY <2>2, <4>1 DEF WithServers
      <4>2. CASE line \in Requests
        <5>1. line # "quit"
          BY <4>2 DEF Requests
        <5>. QED BY <2>2, <4>2, <5>1 DEF WithServers
      <4>3. CASE line # "quit" /\ line \notin Requests
        BY <2>2, <4>3 DEF WithServers
      <4>. QED BY <4>1, <4>2, <4>3
    <3>2. thread'["main"].at = place
      BY <1>0, <3>1, GoesFacts DEF MainPlaces
    <3>3. call'.line = line
      BY <3>1 DEF NoCall
    <3>. QED BY <3>1, <3>2, <3>3 DEF Asking
  <2>. QED BY <1>10, <2>1, <2>2 DEF Command
<1>11. ASSUME Token
       PROVE  Asking'
  <2>1. CASE Down
    BY <1>2, <2>1
  <2>2. CASE ~Down
    <3>1. UNCHANGED thread /\ \E words : call' = [call EXCEPT !.tokens = words]
      BY <1>11, <2>2 DEF Token
    <3>2. call'.line = call.line
      BY <1>0, <3>1 DEF Calls
    <3>. QED BY <3>1, <3>2 DEF Asking
  <2>. QED BY <2>1, <2>2
<1>12. ASSUME Send
       PROVE  Asking'
  <2>1. call.line \in Requests
    BY <1>12 DEF Send, At, Asking
  <2>2. call' = call \/ \E to, struct, sock :
          call' = [call EXCEPT !.to = to, !.struct = struct, !.sent = sock, !.sock = sock]
    BY <1>12 DEF Send
  <2>3. call'.line = call.line
    BY <1>0, <2>2 DEF Calls
  <2>. QED BY <2>1, <2>3 DEF Asking
<1>13. ASSUME Receive
       PROVE  Asking'
  <2>1. Down \/ Returns
    BY <1>13 DEF Receive
  <2>. QED BY <1>0, <1>1, <1>2, <2>1 DEF Returns, MainPlaces
<1>14. ASSUME rtree_disconnect
       PROVE  Asking'
  <2>1. Goes("main", "prompt")
    BY <1>14 DEF rtree_disconnect
  <2>2. thread'["main"].at = "prompt"
    BY <1>0, <2>1, GoesFacts DEF MainPlaces
  <2>. QED BY <2>2 DEF Asking
<1>15. ASSUME \/ \E r \in Replicas : NodeGoes(r) \/ \E s \in Servers : TakesRole(s, r)
              \/ \E s \in Servers : Dies(s)
              \/ \E connected \in BOOLEAN : con_watcher_client(connected)
       PROVE  Asking'
  BY <1>15 DEF NodeGoes, TakesRole, Dies, Changed, con_watcher_client, Asking
<1>. QED
  BY <1>0, <1>3, <1>5, <1>6, <1>7, <1>8, <1>9, <1>10, <1>11, <1>12, <1>13, <1>14, <1>15
     DEF Next, ReadAddresses, HandleLine, child_watcher_client

-----------------------------------------------------------------------------
(* The theorems. *)

\* The inductive invariant holds in every state.
THEOREM Invariant == Spec => [](IInv /\ Asking)
<1>1. Init => IInv /\ Asking
  BY Initially DEF Init, Asking, Threads
<1>2. IInv /\ Asking /\ Next => IInv'
  <2> SUFFICES ASSUME IInv, Asking, Next PROVE IInv'
    OBVIOUS
  <2>0. "main" \in Threads /\ "watcher" \in Threads
    BY DEF Threads
  <2>1. ReadAddresses => IInv'
    BY <2>0, SetWatchKeeps, DialZooKeeps, LookKeeps, AbsentStepKeeps, FetchKeeps, DialStepKeeps
       DEF ReadAddresses, rtree_connect
  <2>2. HandleLine => IInv'
    <3>1. Send => call.line \in Requests
      BY DEF Send, At, Asking
    <3>. QED BY <3>1, TokenKeeps, SendKeeps, ReceiveKeeps, DisconnectKeeps DEF HandleLine
  <2>3. child_watcher_client => IInv'
    BY <2>0, WatcherCalledKeeps, RewatchKeeps, LookKeeps, AbsentStepKeeps, FetchKeeps, DialStepKeeps
       DEF child_watcher_client
  <2>. QED BY <2>1, <2>2, <2>3, CommandKeeps, EnvironmentKeeps DEF Next
<1>3. IInv /\ Asking /\ UNCHANGED vars => IInv' /\ Asking'
  <2> SUFFICES ASSUME IInv, Asking, UNCHANGED vars PROVE IInv' /\ Asking'
    OBVIOUS
  <2>1. UNCHANGED <<up, node, events, is_connected, watch, rtreeOf, rtree, fd, scan, thread, call,
                    lost, severed, overlapped, calm>>
    BY DEF vars, world, history
  <2>2. WorldTyped'
    BY <2>1 DEF IInv, WorldTyped
  <2>. QED BY <2>1, <2>2, WorldOnly DEF Asking
<1>. QED BY <1>1, <1>2, <1>3, AskingKept, PTL DEF Spec

\* The types of the client, of its threads and of its descriptors.
THEOREM TypeCorrect == Spec => []TypeOK
<1>1. IInv => TypeOK
  BY TypesOK DEF IInv
<1>. QED BY <1>1, Invariant, PTL

\* A request goes to the server its structure names, and goes as it was typed,
\* but for the accidents that RequestsArrive lists.
THEOREM RequestsCorrect == Spec => []RequestsArrive
<1>1. IInv => RequestsArrive
  BY DEF IInv, LinksHold, LineWhole, LeadsTo, RequestsArrive, At
<1>. QED BY <1>1, Invariant, PTL
=============================================================================
