----------------------------- MODULE ServerLoop -----------------------------
(***************************************************************************)
(* The poll loop of the server (network_server.c) and the clients at the   *)
(* other end of its connections.  The array connections[] holds the        *)
(* listening socket in slot 0 and the connected clients in the slots below *)
(* nfds; a slot is taken out by closing its descriptor and moving the      *)
(* following slots down.  poll, accept, recv, send and close are the       *)
(* operating system's and are modelled from how the loop uses them.        *)
(*                                                                         *)
(* Of the server's second thread (modules TaskQueue and Replication) there *)
(* is only that it may hold queue_lock when invoke wants it.               *)
(***************************************************************************)
EXTENDS Integers, FiniteSets

CONSTANTS
  Clients,
  MAX_NUM_CLIENTS,   \* slots of connections[], listening socket included
  MaxRequests,       \* bound: requests of all clients
  InitialRevents     \* what revents of a slot may hold before poll writes it

ASSUME LoopAssumption ==
  /\ IsFiniteSet(Clients)
  /\ MAX_NUM_CLIENTS \in Nat /\ MAX_NUM_CLIENTS >= 3
  /\ MaxRequests \in Nat
  /\ InitialRevents \subseteq SUBSET {"IN", "HUP"}

Slots == 1..(MAX_NUM_CLIENTS - 1)
Fds == 1..Cardinality(Clients)   \* descriptors handed out by accept, lowest first
NoFd == -1

VARIABLES
  pc,         \* "poll", "accept", "scan" of slot i, "invoke" or "answer" what it sent,
              \* or "hup": its second test; "down" once the process is gone
  i,
  request,    \* what has been received from slot i
  slots,      \* slot -> [fd, revents]
  nfds,
  open,       \* the server's open descriptors -> the client at the other end
  backlog,    \* clients whose connection is not accepted yet
  peer,       \* client -> "away", "up", "eof" (it closed) or "reset"
  inbox,      \* client -> "none", "good" or "bad": the request on its way
  sent,       \* client -> requests sent
  answered,   \* client -> answers sent to it
  asked,      \* number of requests so far
  mishap      \* history: the table was full when a slot was removed, or a revents
              \* that poll has not written was used

table == <<slots, nfds, open, mishap>>
serverVars == <<pc, i, request, table>>
clientVars == <<peer, inbox, sent, asked>>
vars == <<serverVars, backlog, clientVars, answered>>

Init ==
  /\ pc = "poll" /\ i = 1 /\ request = "none" /\ mishap = FALSE
  /\ slots \in [Slots -> [fd : {NoFd}, revents : InitialRevents]]
  /\ nfds = 1
  /\ open = [fd \in {} |-> 0]
  /\ backlog = {}
  /\ peer = [c \in Clients |-> "away"]
  /\ inbox = [c \in Clients |-> "none"]
  /\ sent = [c \in Clients |-> 0]
  /\ answered = [c \in Clients |-> 0]
  /\ asked = 0

-----------------------------------------------------------------------------
(* The clients. *)

Connect(c) ==
  /\ peer[c] = "away"
  /\ peer' = [peer EXCEPT ![c] = "up"]
  /\ backlog' = backlog \cup {c}
  /\ UNCHANGED <<serverVars, inbox, sent, asked, answered>>

\* A client sends one request and waits for its answer.  A "bad" one is longer than
\* what network_receive reads, or has an opcode that invoke does not know.
Send(c, kind) ==
  /\ peer[c] = "up"
  /\ sent[c] = answered[c] /\ asked < MaxRequests
  /\ inbox' = [inbox EXCEPT ![c] = kind]
  /\ sent' = [sent EXCEPT ![c] = @ + 1]
  /\ asked' = asked + 1
  /\ UNCHANGED <<serverVars, backlog, peer, answered>>

\* What has arrived before the client left, or reset the connection, can still be read.
Leave(c, how) ==
  /\ peer[c] = "up"
  /\ peer' = [peer EXCEPT ![c] = how]
  /\ UNCHANGED <<serverVars, backlog, inbox, sent, asked, answered>>

\* An answer that comes to a client after it closed makes it reset the connection.
Resets(c) ==
  /\ peer[c] = "eof" /\ answered[c] > 0
  /\ peer' = [peer EXCEPT ![c] = "reset"]
  /\ UNCHANGED <<serverVars, backlog, inbox, sent, asked, answered>>

-----------------------------------------------------------------------------
(* The operating system, as the loop sees it. *)

IsOpen(fd) == fd \in DOMAIN open

\* What poll reports: nothing that the loop looks at for a closed descriptor
\* (POLLNVAL), and nothing at all for a negative one.
Events(fd) ==
  IF ~IsOpen(fd) THEN {}
  ELSE LET c == open[fd] IN
       (IF inbox[c] # "none" \/ peer[c] \in {"eof", "reset"} THEN {"IN"} ELSE {})
         \cup (IF peer[c] = "reset" THEN {"HUP"} ELSE {})

\* poll also returns when a descriptor is closed.
HasEvent(fd) == fd # NoFd /\ (~IsOpen(fd) \/ Events(fd) # {})

Close(fds) == open' = [fd \in DOMAIN open \ fds |-> open[fd]]

-----------------------------------------------------------------------------
(* network_main_loop. *)

Polled == {s \in Slots : s < nfds}

\* Slot 0 is the listening socket's: its revents says whether somebody is waiting.
Waiting == nfds > 0 /\ backlog # {}

PollReturns == Waiting \/ \E s \in Polled : HasEvent(slots[s].fd)

Polls(first) ==
  /\ pc = "poll" /\ PollReturns
  /\ slots' = [s \in Slots |->
       IF s \in Polled THEN [slots[s] EXCEPT !.revents = Events(slots[s].fd)] ELSE slots[s]]
  /\ pc' = IF Waiting /\ nfds < MAX_NUM_CLIENTS THEN "accept" ELSE "scan"
  /\ i' = first
  /\ UNCHANGED <<request, nfds, open, mishap, backlog, clientVars, answered>>


Poll == Polls(1)

\* The new slot keeps whatever revents it had.
Accept ==
  /\ pc = "accept"
  /\ \E c \in backlog :
       LET fd == CHOOSE f \in Fds \ DOMAIN open : \A g \in Fds \ DOMAIN open : f <= g
       IN  /\ backlog' = backlog \ {c}
           /\ slots' = [slots EXCEPT ![nfds].fd = fd]
           /\ open' = [f \in DOMAIN open \cup {fd} |-> IF f = fd THEN c ELSE open[f]]
  /\ mishap' = (mishap \/ slots[nfds].revents # {})
  /\ nfds' = nfds + 1
  /\ pc' = "scan"
  /\ UNCHANGED <<i, request, clientVars, answered>>

\* Mutant: nfds is not decremented.
RemoveKeepsCount(s) ==
  LET last == MAX_NUM_CLIENTS - 1
      cleared == [slots EXCEPT ![s].fd = NoFd]
      shifted == [t \in Slots |-> IF t >= s /\ t < last THEN cleared[t + 1] ELSE cleared[t]]
  IN  /\ slots' = [shifted EXCEPT ![last].fd = NoFd]
      /\ Close({slots[s].fd, shifted[last].fd})
      /\ UNCHANGED nfds

\* Mutant: the slots are moved down first, then slot s is closed.
RemoveClosesLate(s) ==
  LET last == MAX_NUM_CLIENTS - 1
      shifted == [t \in Slots |-> IF t >= s /\ t < last THEN slots[t + 1] ELSE slots[t]]
  IN  /\ slots' = [shifted EXCEPT ![last].fd = NoFd]
      /\ Close({shifted[s].fd, shifted[last].fd})
      /\ nfds' = nfds - 1

\* Closes slot s, moves the following slots down, then closes and clears the last
\* slot: its descriptor is also the one that has just been moved down from it.
Remove(s) ==
  LET last == MAX_NUM_CLIENTS - 1
      cleared == [slots EXCEPT ![s].fd = NoFd]
      shifted == [t \in Slots |-> IF t >= s /\ t < last THEN cleared[t + 1] ELSE cleared[t]]
  IN  /\ slots' = [shifted EXCEPT ![last].fd = NoFd]
      /\ Close({slots[s].fd, shifted[last].fd})
      /\ nfds' = nfds - 1

TableFull == nfds = MAX_NUM_CLIENTS

\* The loop also tests that slot i holds a descriptor.
Serving == pc = "scan" /\ i < nfds

NothingToRead ==
  /\ Serving
  /\ slots[i].fd # NoFd /\ "IN" \notin slots[i].revents
  /\ pc' = "hup"
  /\ UNCHANGED <<i, request, table, backlog, clientVars, answered>>

\* recv blocks until there is something to read: this thread serves everybody.
Readable(s) ==
  /\ Serving
  /\ slots[s].fd # NoFd /\ "IN" \in slots[s].revents
  /\ IsOpen(slots[s].fd) => Events(slots[s].fd) # {}

Peer(s) == open[slots[s].fd]

\* A write waits for queue_lock if the second thread holds it; nothing else waits.
Receives(kind) ==
  /\ request' = kind
  /\ pc' \in {"answer"} \cup {p \in {"invoke"} : kind = "good"}

\* Mutant: the request is looked at and not consumed.
ReceivePeeks ==
  /\ Readable(i) /\ IsOpen(slots[i].fd)
  /\ inbox[Peer(i)] # "none"
  /\ Receives(inbox[Peer(i)])
  /\ UNCHANGED <<i, table, backlog, clientVars, answered>>

Receive ==
  /\ Readable(i) /\ IsOpen(slots[i].fd)
  /\ inbox[Peer(i)] # "none"
  /\ Receives(inbox[Peer(i)])
  /\ inbox' = [inbox EXCEPT ![Peer(i)] = "none"]
  /\ UNCHANGED <<i, table, backlog, peer, sent, asked, answered>>

\* recv returns 0 for a connection that was closed, also when it has been reset
\* since: no bytes are an empty message, which invoke rejects.
ReceiveNothing ==
  /\ Readable(i) /\ IsOpen(slots[i].fd)
  /\ inbox[Peer(i)] = "none"
  /\ Receives("bad")
  /\ UNCHANGED <<i, table, backlog, clientVars, answered>>

\* message_t__unpack returns NULL for a request that is cut off, and its opcode is read.
ReceiveKills ==
  /\ Readable(i) /\ IsOpen(slots[i].fd)
  /\ inbox[Peer(i)] = "bad"
  /\ pc' = "down"
  /\ UNCHANGED <<i, request, table, backlog, clientVars, answered>>

\* network_receive fails on a reset or closed descriptor.
ReceiveFails ==
  /\ Readable(i)
  /\ IsOpen(slots[i].fd) => peer[Peer(i)] = "reset" /\ inbox[Peer(i)] = "none"
  /\ Remove(i)
  /\ mishap' = (mishap \/ TableFull)
  /\ pc' = "hup"
  /\ UNCHANGED <<i, request, backlog, clientVars, answered>>

\* The second thread has released queue_lock, which it holds while the backup is
\* told of a write.
InvokeReturns ==
  /\ pc = "invoke"
  /\ pc' = "answer"
  /\ UNCHANGED <<i, request, table, backlog, clientVars, answered>>

\* What invoke executed is answered; to a client that has reset the connection
\* send fails, which is printed.
Answer ==
  /\ pc = "answer" /\ request = "good"
  /\ answered' = IF peer[Peer(i)] = "reset" THEN answered
                                             ELSE [answered EXCEPT ![Peer(i)] = @ + 1]
  /\ request' = "none"
  /\ pc' = "hup"
  /\ UNCHANGED <<i, table, backlog, clientVars>>

\* What invoke rejected is sent back, as an error, and the connection closed; its
\* client is told nothing else any more.
Reject ==
  /\ pc = "answer" /\ request = "bad"
  /\ Remove(i)
  /\ mishap' = (mishap \/ TableFull)
  /\ request' = "none"
  /\ pc' = "hup"
  /\ UNCHANGED <<i, backlog, clientVars, answered>>

\* Nothing handles SIGPIPE.
AnswerKills ==
  /\ pc = "answer" /\ peer[Peer(i)] = "reset"
  /\ pc' = "down"
  /\ UNCHANGED <<i, request, table, backlog, clientVars, answered>>

\* The second test of the body looks at slot i again, whoever is in it by now.
HangUp ==
  /\ pc = "hup"
  /\ IF "HUP" \in slots[i].revents
     THEN Remove(i) /\ mishap' = (mishap \/ TableFull \/ i >= nfds)
     ELSE UNCHANGED table
  /\ i' = i + 1
  /\ pc' = "scan"
  /\ UNCHANGED <<request, backlog, clientVars, answered>>

EndRound ==
  /\ pc = "scan" /\ i >= nfds
  /\ pc' = "poll"
  /\ i' = 1
  /\ UNCHANGED <<request, table, backlog, clientVars, answered>>

-----------------------------------------------------------------------------
Loop == \/ Poll \/ Accept \/ NothingToRead
        \/ Receive \/ ReceiveNothing \/ ReceiveKills \/ ReceiveFails
        \/ Answer \/ Reject \/ AnswerKills
        \/ HangUp \/ EndRound
ClientStep == \E c \in Clients : \/ Connect(c) \/ Resets(c)
                                 \/ \E kind \in {"good", "bad"} : Send(c, kind)
                                 \/ \E how \in {"eof", "reset"} : Leave(c, how)
Next == pc # "down" /\ (Loop \/ InvokeReturns \/ ClientStep)

\* The server's thread is scheduled; nothing makes a client do anything, or the
\* second thread release its lock.
Spec == Init /\ [][Next]_vars /\ WF_vars(Loop)

-----------------------------------------------------------------------------
(* Properties. *)

\* The type of every variable; no client is answered more often than it asked.
TypeOK ==
  /\ pc \in {"poll", "accept", "scan", "invoke", "answer", "hup", "down"}
  /\ i \in 1..MAX_NUM_CLIENTS
  /\ request \in {"none", "good", "bad"}
  /\ slots \in [Slots -> [fd : Fds \cup {NoFd}, revents : SUBSET {"IN", "HUP"}]]
  /\ nfds \in 0..MAX_NUM_CLIENTS
  /\ DOMAIN open \subseteq Fds /\ \A fd \in DOMAIN open : open[fd] \in Clients
  /\ backlog \subseteq Clients
  /\ peer \in [Clients -> {"away", "up", "eof", "reset"}]
  /\ inbox \in [Clients -> {"none", "good", "bad"}]
  /\ sent \in [Clients -> Nat] /\ answered \in [Clients -> Nat]
  /\ \A c \in Clients : answered[c] <= sent[c]
  /\ asked \in 0..MaxRequests
  /\ mishap \in BOOLEAN

\* Whenever the loop goes to poll, the slots below nfds hold the open connections,
\* each of them once: nobody is forgotten and nobody is there twice.  So the
\* number the loop prints (nfds - 1) is the number of clients connected.  It is so
\* until a slot is removed from a full table or an unwritten revents is used.
EveryConnectionPolled ==
  pc = "poll" /\ ~mishap =>
    /\ {slots[s].fd : s \in Polled} = DOMAIN open
    /\ Cardinality(Polled) = Cardinality(DOMAIN open)

\* Until then the loop closes the connection of a client only after the client
\* left or sent a request that invoke rejects.
OnlyLeaversDropped ==
  [][\A fd \in DOMAIN open \ DOMAIN open' :
       \/ mishap'
       \/ peer[open[fd]] # "up"
       \/ request = "bad" /\ fd = slots[i].fd]_vars

=============================================================================
