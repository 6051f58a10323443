------------------------- MODULE SingleServerProofs -------------------------
(***************************************************************************)
(* Theorems about SingleServer, for any number of clients and requests,    *)
(* any sets of keys and versions, any number of descriptors and a tree of  *)
(* any size: its types, and that every answer is the client's own.         *)
(***************************************************************************)
EXTENDS SingleServer, SequenceTheorems, TLAPS

TP == INSTANCE TreeProofs

-----------------------------------------------------------------------------
(* The inductive invariant. *)

LoopTyped ==
  /\ server \in {"accept", "serve", "down", "astray"}
  /\ server = "accept" => current = None
  /\ server = "serve" => current \in Clients
  /\ current \in Clients \cup {None}
  /\ accepted \in 0..Descriptors

ClientsTyped ==
  /\ client \in [Clients -> {"off", "idle", "waits", "left", "broken"}]
  /\ DOMAIN request = Clients /\ DOMAIN answer = Clients
  /\ \A c \in Clients : request[c] \in Requests(c) \cup {None}
  /\ asked \in 0..MaxRequests
  /\ last \in [Keys -> Values \cup {None}] /\ deleted \in BOOLEAN

\* A client that waits to be accepted waits once, and is not the one that is served.
WaitsOnce ==
  /\ backlog \in Seq(Clients)
  /\ \A m, n \in DOMAIN backlog : backlog[m] = backlog[n] => m = n
  /\ \A n \in DOMAIN backlog : backlog[n] # current /\ client[backlog[n]] # "off"
  /\ current # None => client[current] # "off"

\* The tree of the client that is served: nobody else has put anything in it, and as
\* long as it deletes nothing it is what it has put itself.
TreeIsOwn ==
  /\ server = "accept" => TP!Init
  /\ server = "serve" =>
       /\ \A id \in DOMAIN entries : entries[id].value[1] = current
       /\ ~deleted => /\ TP!PutInv
                      /\ \A k \in Keys : /\ TP!Found(k) <=> last[k] # None
                                         /\ TP!Found(k) => TP!Get(k) = last[k]

\* What AnswersTruthful says of the answer of client c.
Truthful(c) ==
  /\ answer[c].opcode = 31 =>
       /\ answer[c].data = None \/ answer[c].data[1][1] = c
       /\ deleted \/ BeginsWith(answer[c].data, last[request[c].key])
  /\ answer[c].opcode = 11 => deleted \/ answer[c].tree_info = Cardinality(Bound)
  /\ answer[c].opcode = 51 => deleted \/ answer[c].keys = Bound

\* Only the client that is served has an answer to read, while it waits for one.
AnswersAreCurrent ==
  \A c \in Clients :
    /\ client[c] \in {"off", "idle"} => answer[c] = None
    /\ client[c] = "waits" /\ answer[c] # None => c = current /\ Truthful(c)

IInv == TP!IInv /\ LoopTyped /\ ClientsTyped /\ WaitsOnce /\ TreeIsOwn /\ AnswersAreCurrent

-----------------------------------------------------------------------------
(* The tree of SingleServer is the one of TreeProofs. *)

LEMMA KeysAndValues == TP!TreeAssumption
BY ConstantsAssumption DEF TP!TreeAssumption

LEMMA SameWalk ==
  ASSUME NEW k
  PROVE  T!End(k) = TP!End(k) /\ T!Found(k) = TP!Found(k)
<1>1. T!End(k) = TP!End(k)
  BY DEF T!End, TP!End, T!OnWalk, TP!OnWalk, T!HasEntry, TP!HasEntry, T!EntryAt, TP!EntryAt,
         T!SideOf, TP!SideOf, T!NULL, TP!NULL
<1>. QED
  BY <1>1 DEF T!Found, TP!Found, T!HasEntry, TP!HasEntry, T!EntryAt, TP!EntryAt, T!NULL, TP!NULL

LEMMA SamePut ==
  ASSUME NEW k, NEW v, T!Put(k, v)
  PROVE  TP!Put(k, v)
<1>1. T!End(k) = TP!End(k) /\ T!Found(k) = TP!Found(k)
  BY SameWalk
<1>2. T!FreeId = TP!FreeId
  BY DEF T!FreeId, TP!FreeId, T!EntryIds, TP!EntryIds
<1>3. CASE T!PutReplaces(k, v)
  BY <1>1, <1>3 DEF T!PutReplaces, TP!PutReplaces, TP!Put
<1>4. CASE T!PutFills(k, v)
  BY <1>1, <1>2, <1>4
  DEF T!PutFills, TP!PutFills, TP!Put, T!HasEntry, TP!HasEntry, T!NULL, TP!NULL, T!NewEntry, TP!NewEntry
<1>5. CASE T!PutGrows(k, v)
  BY <1>1, <1>2, <1>5
  DEF T!PutGrows, TP!PutGrows, TP!Put, T!HasEntry, TP!HasEntry, T!NULL, TP!NULL, T!NewEntry, TP!NewEntry,
      T!Child, TP!Child, T!SideOf, TP!SideOf, T!EntryAt, TP!EntryAt,
      T!Cardinality, TP!Cardinality
<1>. QED BY <1>3, <1>4, <1>5 DEF T!Put

LEMMA SameDel ==
  ASSUME NEW k, T!Del(k)
  PROVE  TP!Del(k)
<1>1. T!End(k) = TP!End(k) /\ TP!Found(k)
  BY SameWalk DEF T!Del
<1>2. T!NULL = TP!NULL /\ T!Sides = TP!Sides
  BY DEF T!NULL, TP!NULL, T!Sides, TP!Sides
<1>3. \A p, side : T!Child(p, side) = TP!Child(p, side)
  BY DEF T!Child, TP!Child
<1>4. \A p : T!Children(p) = TP!Children(p)
  BY <1>2, <1>3 DEF T!Children, TP!Children
<1>5. \A id : T!Destroy(id) => TP!Destroy(id)
  BY <1>2 DEF T!Destroy, TP!Destroy, T!Keep, TP!Keep, T!Pointed, TP!Pointed
<1>6. T!Keep(entries) => TP!Keep(entries)
  BY <1>2 DEF T!Keep, TP!Keep, T!Pointed, TP!Pointed
<1>7. ASSUME NEW p, T!DelLeaf(p)
      PROVE  TP!DelLeaf(p)
  BY <1>2, <1>4, <1>5, <1>7 DEF T!DelLeaf, TP!DelLeaf
<1>8. ASSUME NEW p, T!DelOnlyChild(p)
      PROVE  TP!DelOnlyChild(p)
  BY <1>2, <1>4, <1>5, <1>8
  DEF T!DelOnlyChild, TP!DelOnlyChild, T!Child, TP!Child, T!IsUnder, TP!IsUnder
<1>9. ASSUME NEW p, T!DelTwoChildren(p)
      PROVE  TP!DelTwoChildren(p)
  <2>1. T!Successor(p) = TP!Successor(p)
    BY DEF T!Successor, TP!Successor, T!Child, TP!Child, T!IsUnder, TP!IsUnder
  <2>. QED BY <1>2, <1>4, <1>6, <1>9, <2>1 DEF T!DelTwoChildren, TP!DelTwoChildren
<1>. QED BY <1>1, <1>7, <1>8, <1>9 DEF T!Del, TP!Del

LEMMA SameTypes == TP!IInv => T!TypeOK
<1>1. TP!TypeOK => T!TypeOK
  BY DEF T!TypeOK, TP!TypeOK, T!Sides, TP!Sides, T!EntryIds, TP!EntryIds, T!NULL, TP!NULL,
         T!Pointed, TP!Pointed
<1>. QED BY <1>1, KeysAndValues, TP!InvariantTypes

-----------------------------------------------------------------------------
(* The clients. *)

LEMMA SameTreeKeeps ==
  ASSUME TP!IInv, UNCHANGED theTree
  PROVE  /\ TP!IInv'
         /\ TP!PutInv => TP!PutInv'
         /\ \A k : TP!Found(k)' = TP!Found(k) /\ TP!Get(k)' = TP!Get(k)
<1>1. UNCHANGED TP!vars
  BY DEF theTree, TP!vars
<1>. QED BY <1>1, KeysAndValues, TP!StutterKeeps, TP!StutterPuts, TP!StutterFinds

\* While the server does not move its tree stays as it is.
LEMMA QuietKeepsTree ==
  ASSUME TP!IInv, TreeIsOwn, UNCHANGED <<theTree, server, current, history>>
  PROVE  TP!IInv' /\ TreeIsOwn'
<1>1. entries' = entries /\ UNCHANGED <<server, current, last, deleted>>
  BY DEF theTree, history
<1>2. TP!IInv' /\ (TP!PutInv => TP!PutInv')
      /\ \A k : TP!Found(k)' = TP!Found(k) /\ TP!Get(k)' = TP!Get(k)
  BY SameTreeKeeps
<1>3. TP!Init => TP!Init'
  BY DEF theTree, TP!Init
<1>. QED BY <1>1, <1>2, <1>3 DEF TreeIsOwn

LEMMA TruthStays ==
  ASSUME NEW c, Truthful(c), UNCHANGED history,
         answer'[c] = answer[c], request'[c] = request[c]
  PROVE  Truthful(c)'
BY DEF Truthful, history, Bound

\* Steps of one client, which may take its answer away.
LEMMA ClientStepKeeps ==
  ASSUME IInv, NEW c \in Clients,
         \/ rtree_connect(c) \/ Receive(c) \/ LosesServer(c) \/ Quit(c) \/ Killed(c)
         \/ \E req \in Requests(c) : Ask(c, req)
  PROVE  IInv'
<1>1. UNCHANGED <<theTree, server, current, accepted, history>>
  BY DEF rtree_connect, Receive, LosesServer, Quit, Killed, Ask, loop
<1>2. TP!IInv' /\ TreeIsOwn'
  BY <1>1, QuietKeepsTree DEF IInv
<1>3. LoopTyped'
  BY <1>1 DEF IInv, LoopTyped
<1>4. /\ client \in [Clients -> {"off", "idle", "waits", "left", "broken"}]
      /\ DOMAIN request = Clients /\ DOMAIN answer = Clients
      /\ asked \in Nat /\ MaxRequests \in Nat /\ asked <= MaxRequests
  BY ConstantsAssumption DEF IInv, ClientsTyped
<1>5. \E to \in {"idle", "waits", "left", "broken"} : client' = [client EXCEPT ![c] = to]
  BY DEF rtree_connect, Receive, LosesServer, Quit, Killed, Ask
<1>6. /\ client' \in [Clients -> {"off", "idle", "waits", "left", "broken"}]
      /\ client'[c] # "off"
      /\ \A d \in Clients \ {c} : client'[d] = client[d]
  BY <1>4, <1>5
<1>7. asked' \in 0..MaxRequests
  BY <1>4 DEF rtree_connect, Receive, LosesServer, Quit, Killed, Ask
<1>8. /\ DOMAIN request' = Clients /\ DOMAIN answer' = Clients
      /\ \A d \in Clients \ {c} : request'[d] = request[d] /\ answer'[d] = answer[d]
      /\ request'[c] \in Requests(c) \cup {request[c], None}
  <2>1. CASE rtree_connect(c) \/ LosesServer(c) \/ Quit(c) \/ Killed(c)
    BY <1>4, <2>1 DEF rtree_connect, LosesServer, Quit, Killed
  <2>2. CASE Receive(c)
    BY <1>4, <2>2 DEF Receive
  <2>3. CASE \E req \in Requests(c) : Ask(c, req)
    BY <1>4, <2>3 DEF Ask
  <2>. QED BY <2>1, <2>2, <2>3
<1>9. ClientsTyped'
  <2>1. \A d \in Clients : request'[d] \in Requests(d) \cup {None}
    BY <1>8 DEF IInv, ClientsTyped
  <2>2. last' = last /\ deleted' = deleted
    BY <1>1 DEF history
  <2>. QED BY <1>6, <1>7, <1>8, <2>1, <2>2 DEF IInv, ClientsTyped
<1>10. WaitsOnce'
  <2>1. CASE rtree_connect(c)
    <3>1. backlog' = Append(backlog, c) /\ client[c] = "off"
      BY <2>1 DEF rtree_connect
    <3>2. backlog \in Seq(Clients) /\ Len(backlog) \in Nat /\ DOMAIN backlog = 1..Len(backlog)
          /\ \A n \in DOMAIN backlog : backlog[n] \in Clients
      BY DEF IInv, WaitsOnce
    <3>3. /\ backlog' \in Seq(Clients) /\ DOMAIN backlog' = 1..(Len(backlog) + 1)
          /\ \A n \in DOMAIN backlog : backlog'[n] = backlog[n]
          /\ backlog'[Len(backlog) + 1] = c
      BY <3>1, <3>2
    <3>4. \A n \in DOMAIN backlog : backlog[n] # c /\ client'[backlog[n]] # "off" /\ backlog[n] # current
      BY <1>6, <3>1, <3>2 DEF IInv, WaitsOnce
    <3>5. c # current
      BY <3>1, ConstantsAssumption DEF IInv, WaitsOnce
    <3>6. \A n \in DOMAIN backlog' : n \in DOMAIN backlog \/ n = Len(backlog) + 1
      BY <3>2, <3>3
    <3>7. \A m, n \in DOMAIN backlog' : backlog'[m] = backlog'[n] => m = n
      BY <3>3, <3>4, <3>6 DEF IInv, WaitsOnce
    <3>8. \A n \in DOMAIN backlog' : backlog'[n] # current' /\ client'[backlog'[n]] # "off"
      BY <1>1, <1>6, <3>3, <3>4, <3>5, <3>6
    <3>9. current' # None => client'[current'] # "off"
      BY <1>1, <1>6, <3>5 DEF IInv, WaitsOnce, LoopTyped
    <3>. QED BY <3>3, <3>7, <3>8, <3>9 DEF WaitsOnce
  <2>2. CASE ~rtree_connect(c)
    <3>1. backlog' = backlog
      BY <2>2 DEF Receive, LosesServer, Quit, Killed, Ask, loop
    <3>2. \A d \in Clients : client[d] # "off" => client'[d] # "off"
      BY <1>6
    <3>3. \A n \in DOMAIN backlog : backlog[n] \in Clients
      BY ElementOfSeq DEF IInv, WaitsOnce
    <3>. QED BY <1>1, <3>1, <3>2, <3>3 DEF IInv, WaitsOnce, LoopTyped
  <2>. QED BY <2>1, <2>2
<1>11. AnswersAreCurrent'
  <2>1. SUFFICES ASSUME NEW d \in Clients
                 PROVE  /\ client'[d] \in {"off", "idle"} => answer'[d] = None
                        /\ client'[d] = "waits" /\ answer'[d] # None => d = current /\ Truthful(d)'
    BY <1>1 DEF AnswersAreCurrent
  <2>2. CASE d # c
    BY <1>1, <1>6, <1>8, <2>2, TruthStays DEF IInv, AnswersAreCurrent
  <2>3. client[c] \in {"off", "idle"} => answer[c] = None
    BY DEF IInv, AnswersAreCurrent
  <2>4. CASE rtree_connect(c) \/ Receive(c) \/ LosesServer(c) \/ Quit(c) \/ Killed(c)
    <3>1. client'[c] # "waits"
      BY <1>4, <2>4 DEF rtree_connect, Receive, LosesServer, Quit, Killed
    <3>2. client'[c] = "idle" => answer'[c] = None
      BY <1>4, <2>3, <2>4 DEF rtree_connect, Receive, LosesServer, Quit, Killed
    <3>. QED BY <1>6, <2>2, <3>1, <3>2
  <2>5. CASE \E req \in Requests(c) : Ask(c, req)
    <3>1. client[c] = "idle" /\ client'[c] = "waits" /\ answer' = answer
      BY <1>4, <2>5 DEF Ask
    <3>. QED BY <2>2, <2>3, <3>1
  <2>. QED BY <2>4, <2>5
<1>. QED BY <1>2, <1>3, <1>9, <1>10, <1>11 DEF IInv

-----------------------------------------------------------------------------
(* The server. *)

\* A new tree.
LEMMA EmptyTree == TP!Init => TP!PutInv /\ \A k : ~TP!Found(k)
<1> SUFFICES ASSUME TP!Init PROVE TP!PutInv /\ \A k : ~TP!Found(k)
  OBVIOUS
<1>1. TP!PutInv /\ TP!IInv
  BY KeysAndValues, TP!InitPuts DEF TP!PutInv
<1>2. ASSUME NEW k, TP!Found(k)
      PROVE  FALSE
  <2>1. DOMAIN tree = {<< >>} /\ tree[<< >>] = TP!NULL
    BY DEF TP!Init
  <2>2. TP!End(k) \in DOMAIN tree
    BY <1>1, KeysAndValues, TP!EndIsNode
  <2>. QED BY <1>2, <2>1, <2>2 DEF TP!Found, TP!HasEntry
<1>. QED BY <1>1, <1>2

LEMMA EmptyTreeNext == TP!Init' => TP!PutInv' /\ \A k : ~TP!Found(k)'
<1>1. (TP!Init => TP!PutInv /\ \A k : ~TP!Found(k))'
  BY EmptyTree, PTL
<1>. QED BY <1>1

LEMMA NewTree ==
  ASSUME tree_skel_init
  PROVE  /\ TP!IInv' /\ TP!PutInv' /\ DOMAIN entries' = {}
         /\ TP!Init' /\ \A k : ~TP!Found(k)'
<1>1. TP!Init'
  BY DEF tree_skel_init, TP!Init, T!NULL, TP!NULL
<1>2. TP!PutInv' /\ \A k : ~TP!Found(k)'
  BY <1>1, EmptyTreeNext
<1>. QED BY <1>1, <1>2 DEF TP!PutInv, tree_skel_init

\* Whoever the server ends with: nobody has an answer to read by then.
LEMMA EndKeeps ==
  ASSUME IInv, NEW how \in {"down", "astray"}, Ends(how),
         \A c \in Clients : ~(client[c] = "waits" /\ answer[c] # None)
  PROVE  IInv'
<1>1. /\ UNCHANGED <<backlog, accepted, client, request, answer, asked>>
      /\ server' = how /\ current' = None /\ tree_skel_init
      /\ last' = [k \in Keys |-> None] /\ deleted' = FALSE
  BY DEF Ends, channels, tree_skel_destroy
<1>2. TP!IInv' /\ TreeIsOwn'
  BY <1>1, NewTree DEF TreeIsOwn
<1>3. LoopTyped' /\ ClientsTyped'
  BY <1>1 DEF IInv, LoopTyped, ClientsTyped
<1>4. WaitsOnce'
  <2>1. \A n \in DOMAIN backlog : backlog[n] # None
    BY ElementOfSeq, ConstantsAssumption DEF IInv, WaitsOnce
  <2>. QED BY <1>1, <2>1 DEF IInv, WaitsOnce
<1>5. AnswersAreCurrent'
  BY <1>1 DEF IInv, AnswersAreCurrent
<1>. QED BY <1>2, <1>3, <1>4, <1>5 DEF IInv

\* While nobody is served, and before the client that is served is answered, nobody has
\* an answer to read.
LEMMA NothingToRead ==
  ASSUME IInv, server = "accept" \/ Pending
               \/ (server = "serve" /\ client[current] \in {"left", "broken"})
  PROVE  \A c \in Clients : ~(client[c] = "waits" /\ answer[c] # None)
BY ConstantsAssumption DEF IInv, AnswersAreCurrent, LoopTyped, Pending

LEMMA AcceptanceKeeps ==
  ASSUME IInv, Accept
  PROVE  IInv'
<1>1. /\ server = "accept" /\ server' = "serve" /\ backlog # << >>
      /\ current = None /\ current' = Head(backlog) /\ backlog' = Tail(backlog)
      /\ accepted < Descriptors /\ accepted' = accepted + 1 /\ tree_skel_init
      /\ last' = [k \in Keys |-> None] /\ deleted' = FALSE
      /\ UNCHANGED <<client, request, answer, asked>>
  BY DEF Accept, channels, IInv, LoopTyped
<1>2. /\ backlog \in Seq(Clients) /\ Len(backlog) \in Nat /\ Len(backlog) # 0
      /\ DOMAIN backlog = 1..Len(backlog) /\ 1 \in DOMAIN backlog
      /\ \A n \in DOMAIN backlog : backlog[n] \in Clients
  BY <1>1 DEF IInv, WaitsOnce
<1>3. /\ current' = backlog[1] /\ current' \in Clients
      /\ backlog' \in Seq(Clients) /\ DOMAIN backlog' = 1..(Len(backlog) - 1)
      /\ \A n \in DOMAIN backlog' : backlog'[n] = backlog[n + 1]
  BY <1>1, <1>2
<1>4. \A n \in DOMAIN backlog' : n + 1 \in DOMAIN backlog /\ n + 1 # 1 /\ n \in Nat
  BY <1>2, <1>3
<1>5. TP!IInv' /\ TreeIsOwn'
  BY <1>1, NewTree DEF TreeIsOwn
<1>6. LoopTyped'
  <2>1. accepted + 1 \in 0..Descriptors
    BY <1>1, ConstantsAssumption DEF IInv, LoopTyped
  <2>. QED BY <1>1, <1>3, <2>1, ConstantsAssumption DEF LoopTyped
<1>7. ClientsTyped'
  BY <1>1 DEF IInv, ClientsTyped
<1>8. WaitsOnce'
  <2>1. \A m, n \in DOMAIN backlog' : backlog'[m] = backlog'[n] => m = n
    BY <1>3, <1>4 DEF IInv, WaitsOnce
  <2>2. \A n \in DOMAIN backlog' : backlog'[n] # current' /\ client[backlog'[n]] # "off"
    BY <1>2, <1>3, <1>4 DEF IInv, WaitsOnce
  <2>3. client[current'] # "off"
    BY <1>2, <1>3 DEF IInv, WaitsOnce
  <2>. QED BY <1>1, <1>3, <2>1, <2>2, <2>3 DEF WaitsOnce
<1>9. AnswersAreCurrent'
  <2>1. \A c \in Clients : ~(client[c] = "waits" /\ answer[c] # None)
    BY <1>1, ConstantsAssumption DEF IInv, AnswersAreCurrent
  <2>. QED BY <1>1, <2>1 DEF IInv, AnswersAreCurrent
<1>. QED BY <1>5, <1>6, <1>7, <1>8, <1>9 DEF IInv

LEMMA HangUpKeeps ==
  ASSUME IInv, HangUp
  PROVE  IInv'
<1>1. CASE GoesDown
  BY <1>1, NothingToRead, EndKeeps DEF GoesDown, HangUp
<1>2. CASE ~GoesDown
  <2>1. /\ server = "serve" /\ client[current] \in {"left", "broken"}
        /\ server' = "accept" /\ current' = None /\ tree_skel_init
        /\ UNCHANGED <<backlog, accepted, client, request, answer, asked, last, deleted>>
    BY <1>2 DEF HangUp, tree_skel_destroy, channels, history
  <2>2. TP!IInv' /\ TreeIsOwn'
    BY <2>1, NewTree DEF TreeIsOwn
  <2>3. LoopTyped' /\ ClientsTyped'
    BY <2>1 DEF IInv, LoopTyped, ClientsTyped
  <2>4. WaitsOnce'
    <3>1. \A n \in DOMAIN backlog : backlog[n] # None
      BY ElementOfSeq, ConstantsAssumption DEF IInv, WaitsOnce
    <3>. QED BY <2>1, <3>1 DEF IInv, WaitsOnce
  <2>5. AnswersAreCurrent'
    <3>1. \A c \in Clients : ~(client[c] = "waits" /\ answer[c] # None)
      BY <2>1 DEF IInv, AnswersAreCurrent
    <3>. QED BY <2>1, <3>1 DEF IInv, AnswersAreCurrent
  <2>. QED BY <2>2, <2>3, <2>4, <2>5 DEF IInv
<1>. QED BY <1>1, <1>2

-----------------------------------------------------------------------------
(* invoke. *)

\* The request of the client that is served is one of its own.
LEMMA RequestOf ==
  ASSUME IInv, Pending
  PROVE  /\ server = "serve" /\ current \in Clients /\ answer[current] = None
         /\ request[current] \in Requests(current)
         /\ current # None /\ client[current] # "off"
BY ConstantsAssumption DEF Pending, IInv, LoopTyped, ClientsTyped, WaitsOnce

\* The server answers its client.
LEMMA AnswerKeeps ==
  ASSUME IInv, Pending, NEW ans, Answers(ans), UNCHANGED <<loop, client, asked>>,
         last' \in [Keys -> Values \cup {None}], deleted' \in BOOLEAN,
         answer'[current] = ans /\ request'[current] = request[current] => Truthful(current)'
  PROVE  LoopTyped' /\ ClientsTyped' /\ WaitsOnce' /\ AnswersAreCurrent'
<1>1. /\ server = "serve" /\ current \in Clients /\ answer[current] = None
      /\ request[current] \in Requests(current)
  BY RequestOf
<1>2. UNCHANGED <<server, current, backlog, accepted>>
  BY DEF loop
<1>3. /\ DOMAIN request = Clients /\ DOMAIN answer = Clients
      /\ \A c \in Clients : request[c] \in Requests(c) \cup {None}
  BY DEF IInv, ClientsTyped
<1>4. /\ DOMAIN request' = Clients /\ DOMAIN answer' = Clients
      /\ \A c \in Clients \ {current} : request'[c] = request[c] /\ answer'[c] = answer[c]
      /\ IF client[current] = "waits" THEN answer'[current] = ans /\ request'[current] = request[current]
         ELSE answer'[current] = None /\ request'[current] = None
  BY <1>1, <1>3 DEF Answers
<1>5. LoopTyped' /\ WaitsOnce'
  BY <1>2 DEF IInv, LoopTyped, WaitsOnce
<1>6. ClientsTyped'
  <2>1. \A c \in Clients : request'[c] \in Requests(c) \cup {None}
    BY <1>3, <1>4
  <2>. QED BY <1>4, <2>1 DEF IInv, ClientsTyped
<1>7. AnswersAreCurrent'
  <2>1. SUFFICES ASSUME NEW c \in Clients
                 PROVE  /\ client[c] \in {"off", "idle"} => answer'[c] = None
                        /\ client[c] = "waits" /\ answer'[c] # None => c = current /\ Truthful(c)'
    BY <1>2 DEF AnswersAreCurrent
  <2>2. CASE c = current
    <3>1. CASE client[current] = "waits"
      <4>1. Truthful(current)'
        BY <1>4, <3>1
      <4>2. PICK d : d = current
        OBVIOUS
      <4>3. Truthful(d)'
        BY <1>2, <4>1, <4>2 DEF Truthful
      <4>. QED BY <2>2, <3>1, <4>2, <4>3
    <3>2. CASE client[current] # "waits"
      BY <1>4, <2>2, <3>2
    <3>. QED BY <3>1, <3>2
  <2>3. CASE c # current
    BY <1>4, <2>3 DEF IInv, AnswersAreCurrent
  <2>. QED BY <2>2, <2>3
<1>. QED BY <1>5, <1>6, <1>7

\* Reads: the tree and the histories stay as they are.
LEMMA ReadKeeps ==
  ASSUME IInv, Pending, NEW ans, Reads(ans), UNCHANGED <<loop, client, asked>>,
         NEW c, c = current,
         ans.opcode = 31 => /\ ans.data = None \/ ans.data[1][1] = c
                            /\ deleted \/ BeginsWith(ans.data, last[request[c].key]),
         ans.opcode = 11 => deleted \/ ans.tree_info = Cardinality(Bound),
         ans.opcode = 51 => deleted \/ ans.keys = Bound
  PROVE  IInv'
<1>1. UNCHANGED <<theTree, server, current, history, last, deleted>> /\ Answers(ans)
  BY DEF Reads, loop, history
<1>2. TP!IInv' /\ TreeIsOwn'
  BY <1>1, QuietKeepsTree DEF IInv
<1>3. last' \in [Keys -> Values \cup {None}] /\ deleted' \in BOOLEAN
  BY <1>1 DEF IInv, ClientsTyped
<1>4. ASSUME answer'[current] = ans, request'[current] = request[current]
      PROVE  Truthful(current)'
  <2>1. answer'[c] = ans /\ request'[c] = request[c] /\ current' = c
    BY <1>1, <1>4
  <2>2. Bound' = Bound
    BY <1>1 DEF Bound
  <2>. QED BY <1>1, <2>1, <2>2 DEF Truthful
<1>. QED BY <1>1, <1>2, <1>3, <1>4, AnswerKeeps DEF IInv

LEMMA SameCardinality ==
  ASSUME NEW S
  PROVE  T!Cardinality(S) = TP!Cardinality(S) /\ Cardinality(S) = TP!Cardinality(S)
BY DEF T!Cardinality, TP!Cardinality, Cardinality

LEMMA SameCounts == T!Size = TP!Size /\ T!KeysReached = TP!KeysReached
<1>1. T!Reached = TP!Reached
  BY DEF T!Reached, TP!Reached, T!HasEntry, TP!HasEntry, T!NULL, TP!NULL
<1>2. T!Size = TP!Size
  BY <1>1, SameCardinality DEF T!Size, TP!Size
<1>3. T!KeysReached = TP!KeysReached
  BY <1>1 DEF T!KeysReached, TP!KeysReached, T!EntryAt, TP!EntryAt
<1>. QED BY <1>2, <1>3

\* What the client that is served finds.
LEMMA GotIsOwn ==
  ASSUME IInv, server = "serve", NEW k \in Keys, NEW data \in Got(k)
  PROVE  /\ data = None \/ data[1][1] = current
         /\ deleted \/ BeginsWith(data, last[k])
<1>1. T!End(k) = TP!End(k) /\ T!Found(k) = TP!Found(k)
  BY SameWalk
<1>2. CASE TP!Found(k)
  <2>1. PICK tail \in {"clean", "trailing"} : data = <<TP!EntryAt(TP!End(k)).value, tail>>
    BY <1>1, <1>2 DEF Got, T!EntryAt, TP!EntryAt
  <2>2. ASSUME ~deleted
        PROVE  data # None
    <3>1. TP!EntryAt(TP!End(k)).value \in Values
      BY <1>2, <2>2 DEF IInv, TreeIsOwn, ClientsTyped, TP!Get
    <3>. QED BY <2>1, <3>1, ConstantsAssumption DEF Values
  <2>3. tree[TP!End(k)] \in DOMAIN entries
    BY <1>2, KeysAndValues, TP!FoundEntry DEF IInv
  <2>4. data[1] = TP!Get(k) /\ data[1][1] = current
    BY <1>2, <2>1, <2>3 DEF IInv, TreeIsOwn, TP!EntryAt, TP!Get
  <2>. QED BY <1>2, <2>2, <2>4 DEF IInv, TreeIsOwn, BeginsWith
<1>3. CASE ~TP!Found(k)
  BY <1>1, <1>3 DEF Got, IInv, TreeIsOwn, BeginsWith
<1>. QED BY <1>2, <1>3

LEMMA FoundIsBound ==
  ASSUME IInv, server = "serve", ~deleted
  PROVE  T!Size = Cardinality(Bound) /\ (~T!GetKeysOverruns => T!KeysReached = Bound)
<1>1. TP!KeysFound = Bound
  BY DEF IInv, TreeIsOwn, TP!KeysFound, Bound
<1>2. TP!PutsAreCounted
  BY KeysAndValues, TP!PutsCount DEF IInv, TreeIsOwn
<1>3. TP!Size = Cardinality(Bound) /\ (~TP!GetKeysOverruns => TP!KeysReached = Bound)
  BY <1>1, <1>2, SameCardinality DEF TP!PutsAreCounted
<1>. QED BY <1>3, SameCounts DEF T!GetKeysOverruns, TP!GetKeysOverruns

LEMMA InvokeReadKeeps ==
  ASSUME IInv, Pending, UNCHANGED <<loop, client, asked>>,
         NEW req, req = request[current],
         InvokeSize(req) \/ InvokeGet(req) \/ InvokeGetKeys(req) \/ InvokeHeight(req)
  PROVE  IInv'
<1>1. /\ server = "serve" /\ req \in Requests(current)
  BY RequestOf
<1>2. CASE InvokeSize(req)
  <2>1. PICK ans : ans = [opcode |-> 11, tree_info |-> T!Size]
    OBVIOUS
  <2>2. Reads(ans) /\ ans.opcode = 11 /\ ans.tree_info = T!Size
    BY <1>2, <2>1 DEF InvokeSize
  <2>. QED BY <1>1, <2>2, FoundIsBound, ReadKeeps
<1>3. CASE InvokeGet(req)
  <2>1. PICK data \in Got(req.key) : Reads([opcode |-> 31, data |-> data])
    BY <1>3 DEF InvokeGet
  <2>2. PICK ans : ans = [opcode |-> 31, data |-> data]
    OBVIOUS
  <2>3. Reads(ans) /\ ans.opcode = 31 /\ ans.data = data /\ req.opcode = 30
    BY <1>3, <2>1, <2>2 DEF InvokeGet
  <2>4. req.key \in Keys
    BY <1>1, <2>3 DEF Requests, rtree_put, rtree_get, rtree_del, rtree_size, rtree_height,
                      rtree_get_keys, TooLong
  <2>. QED BY <1>1, <2>1, <2>3, <2>4, GotIsOwn, ReadKeeps
<1>4. CASE InvokeGetKeys(req)
  <2>1. PICK ans : ans = [opcode |-> 51, keys |-> IF T!Size = 0 THEN {} ELSE T!KeysReached]
    OBVIOUS
  <2>2. /\ Reads(ans) /\ ans.opcode = 51 /\ ~T!GetKeysOverruns
        /\ ans.keys = IF T!Size = 0 THEN {} ELSE T!KeysReached
    BY <1>4, <2>1 DEF InvokeGetKeys
  <2>3. T!Size = 0 => T!KeysReached = {}
    BY KeysAndValues, SameCounts, TP!NoneReached DEF IInv
  <2>. QED BY <1>1, <2>2, <2>3, FoundIsBound, ReadKeeps
<1>5. CASE InvokeHeight(req)
  <2>1. PICK ans : ans = [opcode |-> 61, tree_info |-> T!Height]
    OBVIOUS
  <2>2. Reads(ans) /\ ans.opcode = 61
    BY <1>5, <2>1 DEF InvokeHeight
  <2>. QED BY <2>2, ReadKeeps
<1>. QED BY <1>2, <1>3, <1>4, <1>5

LEMMA InvokePutKeeps ==
  ASSUME IInv, Pending, UNCHANGED <<loop, client, asked>>,
         NEW req, req = request[current], InvokePut(req)
  PROVE  IInv'
<1>1. /\ server = "serve" /\ current \in Clients /\ req \in Requests(current)
  BY RequestOf
<1>2. req.opcode = 40 /\ req # TooLong /\ T!Put(req.key, req.data) /\ Answers([opcode |-> 41])
      /\ last' = [last EXCEPT ![req.key] = req.data] /\ deleted' = deleted
  BY DEF InvokePut
<1>3. PICK k \in Keys, v \in Versions : req = rtree_put(k, <<current, v>>)
  BY <1>1, <1>2 DEF Requests, rtree_get, rtree_del, rtree_size, rtree_height, rtree_get_keys
<1>4. PICK value : value = <<current, v>>
  OBVIOUS
<1>5. /\ req.key = k /\ req.data = value
      /\ value \in Values /\ value[1] = current /\ value # None
  BY <1>1, <1>3, <1>4, ConstantsAssumption DEF rtree_put, Values
<1>6. TP!Put(k, value)
  BY <1>2, <1>5, SamePut
<1>7. last \in [Keys -> Values \cup {None}] /\ deleted \in BOOLEAN
  BY DEF IInv, ClientsTyped
<1>8. /\ last' \in [Keys -> Values \cup {None}] /\ deleted' \in BOOLEAN
      /\ last'[k] = value /\ \A j \in Keys \ {k} : last'[j] = last[j]
  BY <1>2, <1>5, <1>7
<1>9. LoopTyped' /\ ClientsTyped' /\ WaitsOnce' /\ AnswersAreCurrent'
  <2>1. PICK ans : ans = [opcode |-> 41]
    OBVIOUS
  <2>2. ans.opcode = 41 /\ Answers(ans)
    BY <1>2, <2>1
  <2>3. ASSUME answer'[current] = ans
        PROVE  Truthful(current)'
    <3>1. answer'[current'].opcode = 41
      BY <2>2, <2>3 DEF loop
    <3>. QED BY <3>1 DEF Truthful
  <2>. QED BY <1>8, <2>2, <2>3, AnswerKeeps
<1>10. TP!IInv'
  BY <1>5, <1>6, KeysAndValues, TP!PutKeeps DEF IInv
<1>11. TreeIsOwn'
  <2>1. server' = server /\ current' = current
    BY DEF loop
  <2>2. \A id \in DOMAIN entries' : entries'[id].value[1] = current
    <3>1. \A id \in DOMAIN entries : entries[id].value[1] = current
      BY <1>1 DEF IInv, TreeIsOwn
    <3>2. \/ \E id : TP!Rebinds(k, value, id)
          \/ \E n, id : TP!Stores(k, value, n, id)
      BY <1>5, <1>6, KeysAndValues, TP!PutCases DEF IInv
    <3>3. CASE \E id : TP!Rebinds(k, value, id)
      BY <1>5, <3>1, <3>3 DEF TP!Rebinds
    <3>4. CASE \E n, id : TP!Stores(k, value, n, id)
      BY <1>5, <3>1, <3>4 DEF TP!Stores, TP!NewEntry
    <3>. QED BY <3>2, <3>3, <3>4
  <2>3. ASSUME ~deleted
        PROVE  /\ TP!PutInv'
               /\ \A j \in Keys : /\ TP!Found(j)' <=> last'[j] # None
                                  /\ TP!Found(j)' => TP!Get(j)' = last'[j]
    <3>1. /\ TP!PutInv
          /\ \A j \in Keys : /\ TP!Found(j) <=> last[j] # None
                             /\ TP!Found(j) => TP!Get(j) = last[j]
      BY <1>1, <2>3 DEF IInv, TreeIsOwn
    <3>2. TP!PutInv'
      BY <1>5, <1>6, <3>1, KeysAndValues, TP!PutsKeep
    <3>3. /\ TP!Found(k)' /\ TP!Get(k)' = value
          /\ \A j : j # k /\ TP!Found(j) => TP!Found(j)' /\ TP!Get(j)' = TP!Get(j)
      BY <1>5, <1>6, KeysAndValues, TP!PutFinds DEF IInv
    <3>4. \A j : j # k /\ TP!Found(j)' => TP!Found(j)
      BY <1>5, <1>6, <3>1, KeysAndValues, TP!PutAddsOne
    <3>. QED BY <1>5, <1>8, <3>1, <3>2, <3>3, <3>4
  <2>. QED BY <1>1, <1>2, <2>1, <2>2, <2>3 DEF TreeIsOwn
<1>. QED BY <1>9, <1>10, <1>11 DEF IInv

LEMMA InvokeDelKeeps ==
  ASSUME IInv, Pending, UNCHANGED <<loop, client, asked>>,
         NEW req, req = request[current], InvokeDel(req)
  PROVE  IInv'
<1>1. server = "serve" /\ current \in Clients
  BY RequestOf
<1>2. /\ deleted' = TRUE /\ last' = last
      /\ \/ T!Del(req.key) /\ Answers([opcode |-> 21])
         \/ T!DelMissing(req.key) /\ Answers([opcode |-> 99])
  BY DEF InvokeDel
<1>3. LoopTyped' /\ ClientsTyped' /\ WaitsOnce' /\ AnswersAreCurrent'
  <2>1. PICK ans : ans.opcode \in {21, 99} /\ Answers(ans)
    BY <1>2
  <2>2. ASSUME answer'[current] = ans
        PROVE  Truthful(current)'
    <3>1. answer'[current'].opcode \in {21, 99}
      BY <2>1, <2>2 DEF loop
    <3>. QED BY <3>1 DEF Truthful
  <2>. QED BY <1>2, <2>1, <2>2, AnswerKeeps DEF IInv, ClientsTyped
<1>4. TP!IInv' /\ \A id \in DOMAIN entries' : id \in DOMAIN entries /\ entries'[id] = entries[id]
  <2>1. CASE T!Del(req.key)
    BY <2>1, SameDel, KeysAndValues, TP!DelKeeps DEF IInv, TP!EntriesStay
  <2>2. CASE T!DelMissing(req.key)
    BY <2>2, SameTreeKeeps DEF T!DelMissing, T!vars, theTree, IInv
  <2>. QED BY <1>2, <2>1, <2>2
<1>5. TreeIsOwn'
  BY <1>1, <1>2, <1>4 DEF TreeIsOwn, IInv, loop
<1>. QED BY <1>3, <1>4, <1>5 DEF IInv

-----------------------------------------------------------------------------
(* Every step. *)

LEMMA Initially == Init => IInv
<1> SUFFICES ASSUME Init PROVE IInv
  OBVIOUS
<1>1. TP!Init
  BY DEF Init, T!Init, TP!Init, T!NULL, TP!NULL
<1>2. TP!IInv
  BY <1>1, EmptyTree DEF TP!PutInv
<1>3. LoopTyped
  BY ConstantsAssumption DEF Init, LoopTyped
<1>4. ClientsTyped
  <2>1. /\ client \in [Clients -> {"off", "idle", "waits", "left", "broken"}]
        /\ DOMAIN request = Clients /\ DOMAIN answer = Clients
    BY DEF Init
  <2>2. \A c \in Clients : request[c] \in Requests(c) \cup {None}
    BY DEF Init
  <2>3. asked \in 0..MaxRequests
    BY ConstantsAssumption DEF Init
  <2>4. last \in [Keys -> Values \cup {None}] /\ deleted \in BOOLEAN
    BY DEF Init
  <2>. QED BY <2>1, <2>2, <2>3, <2>4 DEF ClientsTyped
<1>5. WaitsOnce
  BY DEF Init, WaitsOnce
<1>6. TreeIsOwn /\ AnswersAreCurrent
  BY <1>1 DEF Init, TreeIsOwn, AnswersAreCurrent
<1>. QED BY <1>2, <1>3, <1>4, <1>5, <1>6 DEF IInv

LEMMA StutterKeeps ==
  ASSUME IInv, UNCHANGED vars
  PROVE  IInv'
<1>1. UNCHANGED <<theTree, server, current, backlog, accepted, client, request, answer, asked, history>>
  BY DEF vars, loop, channels
<1>2. TP!IInv' /\ TreeIsOwn'
  BY <1>1, QuietKeepsTree DEF IInv
<1>3. LoopTyped' /\ ClientsTyped' /\ WaitsOnce'
  BY <1>1 DEF IInv, LoopTyped, ClientsTyped, WaitsOnce, history
<1>4. AnswersAreCurrent'
  BY <1>1, TruthStays DEF IInv, AnswersAreCurrent
<1>. QED BY <1>2, <1>3, <1>4 DEF IInv

LEMMA NextKeeps == IInv /\ [Next]_vars => IInv'
<1> SUFFICES ASSUME IInv, [Next]_vars PROVE IInv'
  OBVIOUS
<1>1. CASE Accept
  BY <1>1, AcceptanceKeeps
<1>2. CASE Serve
  <2>1. PICK req : req = request[current]
    OBVIOUS
  <2>2. Pending /\ invoke(req) /\ UNCHANGED <<loop, client, asked>>
    BY <1>2, <2>1 DEF Serve
  <2>. QED BY <2>1, <2>2, InvokeReadKeeps, InvokePutKeeps, InvokeDelKeeps DEF invoke
<1>3. CASE ServeCrashes \/ ServeOverruns \/ AcceptFails
  BY <1>3, NothingToRead, EndKeeps DEF ServeCrashes, ServeOverruns, AcceptFails, GoesDown
<1>4. CASE HangUp
  BY <1>4, HangUpKeeps
<1>5. ASSUME NEW c \in Clients,
             \/ rtree_connect(c) \/ Receive(c) \/ LosesServer(c) \/ Quit(c) \/ Killed(c)
             \/ \E req \in Requests(c) : Ask(c, req)
      PROVE  IInv'
  BY <1>5, ClientStepKeeps
<1>6. CASE UNCHANGED vars
  BY <1>6, StutterKeeps
<1>. QED BY <1>1, <1>2, <1>3, <1>4, <1>5, <1>6 DEF Next, network_main_loop

\* The tree is the one of the client that is served, and what is on its way to that
\* client was read from it.
THEOREM Invariant == Spec => []IInv
BY Initially, NextKeeps, PTL DEF Spec

\* The types; whoever is served is not in the queue, and there is somebody while the
\* server serves.
THEOREM TypeCorrect == Spec => []TypeOK
<1>1. IInv => TypeOK
  <2> SUFFICES ASSUME IInv PROVE TypeOK
    OBVIOUS
  <2>1. T!TypeOK
    BY SameTypes DEF IInv
  <2>2. /\ server = "serve" => current # None
        /\ server = "accept" => T!Init
    BY ConstantsAssumption DEF IInv, LoopTyped, TreeIsOwn, T!Init, TP!Init, T!NULL, TP!NULL
  <2>3. \A n \in DOMAIN backlog : backlog[n] \in Clients \ {current}
    BY ElementOfSeq DEF IInv, WaitsOnce
  <2>4. \A c \in Clients : /\ client[c] \in {"off", "idle", "waits", "left", "broken"}
                           /\ request[c] \in Requests(c) \cup {None}
    BY DEF IInv, ClientsTyped
  <2>. QED BY <2>1, <2>2, <2>3, <2>4 DEF TypeOK, IInv, LoopTyped, ClientsTyped
<1>. QED BY <1>1, Invariant, PTL

\* A client is told only what it has put itself, and exactly that as long as it deletes
\* nothing, although all clients are served from one global tree in turn.
THEOREM AnswersCorrect == Spec => []AnswersTruthful
<1>1. IInv => AnswersTruthful
  <2> SUFFICES ASSUME IInv, NEW c \in Clients, client[c] = "waits", answer[c] # None
               PROVE  CASE answer[c].opcode = 31 ->
                             /\ answer[c].data = None \/ answer[c].data[1][1] = c
                             /\ deleted \/ BeginsWith(answer[c].data, last[request[c].key])
                        [] answer[c].opcode = 11 ->
                             deleted \/ answer[c].tree_info = Cardinality(Bound)
                        [] answer[c].opcode = 51 -> deleted \/ answer[c].keys = Bound
                        [] OTHER -> TRUE
    BY DEF AnswersTruthful
  <2>1. Truthful(c)
    BY DEF IInv, AnswersAreCurrent
  <2>2. CASE answer[c].opcode = 31
    BY <2>1, <2>2 DEF Truthful
  <2>3. CASE answer[c].opcode = 11
    BY <2>1, <2>3 DEF Truthful
  <2>4. CASE answer[c].opcode = 51
    BY <2>1, <2>4 DEF Truthful
  <2>5. CASE answer[c].opcode \notin {31, 11, 51}
    BY <2>5
  <2>. QED BY <2>2, <2>3, <2>4, <2>5
<1>. QED BY <1>1, Invariant, PTL

=============================================================================
