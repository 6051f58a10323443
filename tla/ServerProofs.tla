---------------------------- MODULE ServerProofs ----------------------------
(***************************************************************************)
(* Theorems about what a phase 4 server does besides its tree and queue:   *)
(* its connections to clients (ServerLoop) and its part as primary or      *)
(* backup (Roles).  The two share no state, and their proofs no lemma.     *)
(*                                                                         *)
(* The loop: for any number of clients and of requests, a table of any     *)
(* size and whatever its memory held before.  Until the table was full     *)
(* when a slot was removed, or an unwritten revents was used, slots and    *)
(* connections agree; the types and the answers hold after that as well.   *)
(* The roles: for any set of servers.                                      *)
(***************************************************************************)
EXTENDS ServerLoop, Roles, FiniteSetTheorems, FunctionTheorems, TLAPS

-----------------------------------------------------------------------------
(* ServerLoop: the inductive invariant. *)

\* The slots below nfds hold the open descriptors, each once, and no others do.
SlotsHoldOpen ==
  /\ nfds \in 1..MAX_NUM_CLIENTS
  /\ \A s \in Slots : IF s < nfds THEN slots[s].fd \in DOMAIN open
                                  ELSE slots[s].fd = NoFd
  /\ \A s, t \in Polled : slots[s].fd = slots[t].fd => s = t
  /\ \A fd \in DOMAIN open : \E s \in Polled : slots[s].fd = fd

\* A POLLHUP in a slot that poll is given is of its client.
HangUpIsTrue ==
  \A s \in Polled : "HUP" \in slots[s].revents => peer[open[slots[s].fd]] = "reset"

InStep == ~mishap => SlotsHoldOpen /\ HangUpIsTrue

\* A client is away, waits to be accepted, or is at the end of one descriptor.
OneConnectionEach ==
  /\ \A fd, gd \in DOMAIN open : open[fd] = open[gd] => fd = gd
  /\ \A fd \in DOMAIN open : open[fd] \notin backlog /\ peer[open[fd]] # "away"
  /\ \A c \in backlog : peer[c] # "away"

\* What has been received from slot i and not been answered yet is of client c.
InHand(c) == pc \in {"invoke", "answer"} /\ request = "good" /\ Peer(i) = c

RequestIsUnanswered ==
  \A c \in Clients :
    /\ inbox[c] # "none" \/ InHand(c) => answered[c] < sent[c]
    /\ InHand(c) => inbox[c] = "none"

\* What the tests that led to a step still say when it is taken.
TestsHold ==
  /\ pc = "accept" => nfds \in Slots
  /\ pc \in {"invoke", "answer"} => i \in Slots /\ i < nfds /\ IsOpen(slots[i].fd)
  /\ pc = "hup" => i \in Slots /\ i <= nfds

IInv == TypeOK /\ InStep /\ OneConnectionEach /\ RequestIsUnanswered /\ TestsHold

-----------------------------------------------------------------------------
(* The types, in the parts that steps change together. *)

SlotType == [fd : Fds \cup {NoFd}, revents : SUBSET {"IN", "HUP"}]

TableTyped ==
  /\ slots \in [Slots -> SlotType]
  /\ nfds \in 0..MAX_NUM_CLIENTS
  /\ DOMAIN open \subseteq Fds /\ \A fd \in DOMAIN open : open[fd] \in Clients

LoopTyped ==
  /\ pc \in {"poll", "accept", "scan", "invoke", "answer", "hup", "down"}
  /\ i \in 1..MAX_NUM_CLIENTS
  /\ request \in {"none", "good", "bad"}
  /\ mishap \in BOOLEAN

ClientsTyped ==
  /\ backlog \subseteq Clients
  /\ peer \in [Clients -> {"away", "up", "eof", "reset"}]
  /\ inbox \in [Clients -> {"none", "good", "bad"}]
  /\ sent \in [Clients -> Nat] /\ answered \in [Clients -> Nat]
  /\ \A c \in Clients : answered[c] <= sent[c]
  /\ asked \in 0..MaxRequests

LEMMA TypeParts == TypeOK <=> TableTyped /\ LoopTyped /\ ClientsTyped
BY DEF TypeOK, TableTyped, LoopTyped, ClientsTyped, SlotType

\* Slots and descriptors are counted from 1.
LEMMA Sizes ==
  /\ MAX_NUM_CLIENTS \in Nat /\ MAX_NUM_CLIENTS >= 3 /\ MaxRequests \in Nat
  /\ Slots = 1..(MAX_NUM_CLIENTS - 1)
  /\ IsFiniteSet(Clients) /\ Cardinality(Clients) \in Nat
  /\ NoFd \notin Fds /\ Fds \subseteq Nat
BY LoopAssumption, FS_CardinalityType DEF Slots, NoFd, Fds

-----------------------------------------------------------------------------
(* Descriptors. *)

\* A set of natural numbers has a smallest one.
LEMMA Smallest ==
  ASSUME NEW S, S \subseteq Nat, S # {}
  PROVE  \E f \in S : \A g \in S : f <= g
<1> DEFINE R == {p \in Nat \X Nat : p[1] < p[2]}
<1>1. IsWellFoundedOn(R, Nat)
  BY NatLessThanWellFounded DEF OpToRel
<1>2. PICK f \in S : \A g \in S : ~(<<g, f>> \in R)
  BY <1>1, WFMin
<1>3. ASSUME NEW g \in S, g < f
      PROVE  FALSE
  <2>1. <<g, f>> \in Nat \X Nat /\ <<g, f>>[1] = g /\ <<g, f>>[2] = f
    OBVIOUS
  <2>2. <<g, f>> \in R
    BY <1>3, <2>1
  <2>. QED BY <1>2, <2>2
<1>. QED BY <1>3

\* While a client waits to be accepted there is a descriptor for it, since no two
\* descriptors have the same client at the other end.
LEMMA FreeDescriptor ==
  ASSUME OneConnectionEach, TypeOK, NEW c \in backlog
  PROVE  \E f \in Fds \ DOMAIN open : \A g \in Fds \ DOMAIN open : f <= g
<1> DEFINE others == Clients \ {c}
<1>1. IsFiniteSet(others) /\ Cardinality(others) = Cardinality(Clients) - 1
  BY Sizes, FS_RemoveElement DEF TypeOK
<1>2. \A fd \in DOMAIN open : open[fd] \in others
  BY DEF TypeOK, OneConnectionEach
<1>3. Fds \ DOMAIN open # {}
  <2> SUFFICES ASSUME Fds \subseteq DOMAIN open
               PROVE  FALSE
    OBVIOUS
  <2> DEFINE f == [fd \in Fds |-> open[fd]]
  <2>1. f \in [Fds -> others] /\ \A fd, gd \in Fds : f[fd] = f[gd] => fd = gd
    BY <1>2 DEF OneConnectionEach
  <2>2. f \in Injection(Fds, others)
    BY <2>1 DEF Injection, IsInjective
  <2>3. Cardinality(Fds) <= Cardinality(others)
    BY <2>2, <1>1, FS_Injection
  <2>4. Cardinality(Fds) = Cardinality(Clients)
    BY Sizes, FS_Interval DEF Fds
  <2>. QED BY <2>3, <2>4, <1>1, Sizes
<1>. QED BY <1>3, Smallest, Sizes

-----------------------------------------------------------------------------
(* What the loop's two changes of the table do. *)

\* Accept takes the lowest free descriptor and puts it in slot nfds.
LEMMA AcceptFacts ==
  ASSUME TypeOK, OneConnectionEach, TestsHold, Accept
  PROVE  \E c \in backlog, fd \in Fds \ DOMAIN open :
           /\ nfds \in Slots /\ nfds' = nfds + 1
           /\ backlog' = backlog \ {c}
           /\ slots' = [slots EXCEPT ![nfds].fd = fd]
           /\ DOMAIN open' = DOMAIN open \cup {fd}
           /\ open'[fd] = c
           /\ \A f \in DOMAIN open : open'[f] = open[f]
<1> DEFINE Lowest == CHOOSE f \in Fds \ DOMAIN open : \A g \in Fds \ DOMAIN open : f <= g
<1>1. PICK c \in backlog :
        /\ backlog' = backlog \ {c}
        /\ slots' = [slots EXCEPT ![nfds].fd = Lowest]
        /\ open' = [f \in DOMAIN open \cup {Lowest} |-> IF f = Lowest THEN c ELSE open[f]]
  BY DEF Accept
<1>2. nfds' = nfds + 1 /\ nfds \in Slots
  BY DEF Accept, TestsHold
<1>3. Lowest \in Fds \ DOMAIN open
  BY FreeDescriptor
<1> HIDE DEF Lowest
<1>4. /\ DOMAIN open' = DOMAIN open \cup {Lowest}
      /\ open'[Lowest] = c
      /\ \A f \in DOMAIN open : open'[f] = open[f]
  BY <1>1, <1>3
<1>. QED BY <1>1, <1>2, <1>3, <1>4

\* The last slot of connections[].
LastSlot == MAX_NUM_CLIENTS - 1

\* Where the slots that Remove leaves come from, whatever is in the table.
LEMMA RemoveMoves ==
  ASSUME TypeOK, NEW s \in Slots, Remove(s)
  PROVE  /\ nfds' = nfds - 1 /\ slots' \in [Slots -> SlotType]
         /\ \A t \in Slots : t < s => slots'[t] = slots[t]
         /\ \A t \in Slots : s <= t /\ t < LastSlot => t + 1 \in Slots /\ slots'[t] = slots[t + 1]
         /\ slots'[LastSlot].fd = NoFd
         /\ open' = [fd \in DOMAIN open \ {slots[s].fd, IF s = LastSlot THEN NoFd ELSE slots[LastSlot].fd}
                       |-> open[fd]]
<1> DEFINE cleared == [slots EXCEPT ![s].fd = NoFd]
           shifted == [t \in Slots |-> IF t >= s /\ t < LastSlot THEN cleared[t + 1] ELSE cleared[t]]
<1>1. /\ slots' = [shifted EXCEPT ![LastSlot].fd = NoFd]
      /\ Close({slots[s].fd, shifted[LastSlot].fd})
      /\ nfds' = nfds - 1
  BY DEF Remove, LastSlot
<1>2. /\ s \in Nat /\ LastSlot \in Nat /\ 1 <= s /\ s <= LastSlot
      /\ Slots = 1..LastSlot
  BY Sizes DEF LastSlot
<1>3. slots \in [Slots -> SlotType] /\ LastSlot \in Slots
  BY <1>2, TypeParts DEF TableTyped
<1>4. /\ cleared \in [Slots -> SlotType]
      /\ \A t \in Slots \ {s} : cleared[t] = slots[t]
      /\ cleared[s].fd = NoFd
  BY <1>3 DEF SlotType
<1> HIDE DEF cleared
<1>5. \A t \in Slots : t < s => shifted[t] = slots[t]
  BY <1>2, <1>4
<1>6. \A t \in Slots : s <= t /\ t < LastSlot => t + 1 \in Slots /\ shifted[t] = slots[t + 1]
  BY <1>2, <1>4
<1>7. shifted[LastSlot] = cleared[LastSlot]
  BY <1>2, <1>3, <1>4
<1>8. shifted \in [Slots -> SlotType]
  <2>1. \A t \in Slots : shifted[t] \in SlotType
    <3>1. \A t \in Slots : t < s \/ (s <= t /\ t < LastSlot) \/ t = LastSlot
      BY <1>2
    <3>. QED BY <3>1, <1>3, <1>4, <1>5, <1>6, <1>7
  <2>2. shifted = [t \in Slots |-> shifted[t]]
    OBVIOUS
  <2> HIDE DEF shifted
  <2>. QED BY <2>1, <2>2
<1> HIDE DEF shifted
<1>9. slots' = [shifted EXCEPT ![LastSlot] = [fd |-> NoFd, revents |-> shifted[LastSlot].revents]]
  <2>1. shifted[LastSlot] \in SlotType
    BY <1>8, <1>3
  <2>2. [shifted[LastSlot] EXCEPT !.fd = NoFd] = [fd |-> NoFd, revents |-> shifted[LastSlot].revents]
    BY <2>1 DEF SlotType
  <2>. QED BY <1>1, <2>2
<1>10. /\ slots' \in [Slots -> SlotType]
       /\ \A t \in Slots \ {LastSlot} : slots'[t] = shifted[t]
       /\ slots'[LastSlot].fd = NoFd
  BY <1>9, <1>8, <1>3 DEF SlotType
<1>11. shifted[LastSlot].fd = IF s = LastSlot THEN NoFd ELSE slots[LastSlot].fd
  BY <1>3, <1>4, <1>7
<1>12. \A t \in Slots : s <= t /\ t < LastSlot => t + 1 \in Slots /\ slots'[t] = slots[t + 1]
  <2> SUFFICES ASSUME NEW t \in Slots, s <= t, t < LastSlot
               PROVE  t + 1 \in Slots /\ slots'[t] = slots[t + 1]
    OBVIOUS
  <2>1. t # LastSlot
    BY <1>2
  <2>. QED BY <2>1, <1>6, <1>10
<1>13. open' = [fd \in DOMAIN open \ {slots[s].fd, IF s = LastSlot THEN NoFd ELSE slots[LastSlot].fd}
                  |-> open[fd]]
  BY <1>1, <1>11 DEF Close
<1>14. \A t \in Slots : t < s => slots'[t] = slots[t]
  BY <1>2, <1>5, <1>10
<1>15. nfds' = nfds - 1 /\ slots' \in [Slots -> SlotType] /\ slots'[LastSlot].fd = NoFd
  BY <1>1, <1>10
<1>. QED BY <1>12, <1>13, <1>14, <1>15

\* So the types survive it, and no connection gets another client.
LEMMA RemoveTyped ==
  ASSUME TypeOK, NEW s \in Slots, s <= nfds, Remove(s)
  PROVE  /\ TableTyped' /\ DOMAIN open' \subseteq DOMAIN open
         /\ \A fd \in DOMAIN open' : open'[fd] = open[fd]
<1>1. nfds' = nfds - 1 /\ slots' \in [Slots -> SlotType]
  BY RemoveMoves
<1>2. DOMAIN open' \subseteq DOMAIN open /\ \A fd \in DOMAIN open' : open'[fd] = open[fd]
  BY RemoveMoves
<1>3. nfds' \in 0..MAX_NUM_CLIENTS
  BY <1>1, Sizes DEF TypeOK
<1>. QED BY <1>1, <1>2, <1>3, TypeParts DEF TableTyped

\* While the table is not full, Remove closes the descriptor of slot s alone.
LEMMA RemoveFacts ==
  ASSUME TypeOK, SlotsHoldOpen, NEW s \in Polled, ~TableFull, Remove(s)
  PROVE  /\ nfds' = nfds - 1 /\ nfds' \in 1..MAX_NUM_CLIENTS
         /\ \A t \in Slots : t < s => slots'[t] = slots[t]
         /\ \A t \in Slots : s <= t /\ t < nfds => t + 1 \in Slots /\ slots'[t] = slots[t + 1]
         /\ \A t \in Slots : nfds <= t => slots'[t].fd = NoFd
         /\ DOMAIN open' = DOMAIN open \ {slots[s].fd}
         /\ \A fd \in DOMAIN open' : open'[fd] = open[fd]
<1>1. /\ s \in Nat /\ nfds \in Nat /\ LastSlot \in Nat /\ 1 <= s /\ s < nfds /\ nfds <= LastSlot
      /\ s \in Slots /\ LastSlot \in Slots /\ Slots = 1..LastSlot
  BY Sizes DEF SlotsHoldOpen, Polled, TableFull, LastSlot
<1>2. /\ nfds' = nfds - 1
      /\ \A t \in Slots : t < s => slots'[t] = slots[t]
      /\ \A t \in Slots : s <= t /\ t < LastSlot => t + 1 \in Slots /\ slots'[t] = slots[t + 1]
      /\ slots'[LastSlot].fd = NoFd
      /\ open' = [fd \in DOMAIN open \ {slots[s].fd, IF s = LastSlot THEN NoFd ELSE slots[LastSlot].fd}
                    |-> open[fd]]
  BY <1>1, RemoveMoves
<1>3. s < LastSlot /\ slots[LastSlot].fd = NoFd /\ NoFd \notin DOMAIN open
  BY <1>1, Sizes DEF SlotsHoldOpen, TypeOK
<1>4. DOMAIN open' = DOMAIN open \ {slots[s].fd} /\ \A fd \in DOMAIN open' : open'[fd] = open[fd]
  BY <1>1, <1>2, <1>3
<1>5. \A t \in Slots : t < s => slots'[t] = slots[t]
  BY <1>1, <1>2, <1>3
<1>6. \A t \in Slots : s <= t /\ t < nfds => t + 1 \in Slots /\ slots'[t] = slots[t + 1]
  <2> SUFFICES ASSUME NEW t \in Slots, s <= t, t < nfds
               PROVE  t + 1 \in Slots /\ slots'[t] = slots[t + 1]
    OBVIOUS
  <2>1. t < LastSlot
    BY <1>1
  <2>. QED BY <2>1, <1>2
<1>7. ASSUME NEW t \in Slots, nfds <= t
      PROVE  slots'[t].fd = NoFd
  <2>1. CASE t = LastSlot
    BY <2>1, <1>2
  <2>2. CASE t # LastSlot
    <3>1. t < LastSlot /\ s <= t /\ ~(t + 1 < nfds)
      BY <1>1, <1>7, <2>2
    <3>2. t + 1 \in Slots /\ slots'[t] = slots[t + 1]
      BY <1>2, <3>1
    <3>. QED BY <3>1, <3>2 DEF SlotsHoldOpen
  <2>. QED BY <2>1, <2>2
<1>8. nfds' \in 1..MAX_NUM_CLIENTS
  BY <1>1, <1>2, Sizes DEF LastSlot
<1>. QED BY <1>2, <1>4, <1>5, <1>6, <1>7, <1>8

\* The table stays in step with the connections.
LEMMA RemoveKeeps ==
  ASSUME TypeOK, SlotsHoldOpen, HangUpIsTrue, NEW s \in Polled, ~TableFull,
         Remove(s), UNCHANGED peer
  PROVE  SlotsHoldOpen' /\ HangUpIsTrue'
<1> DEFINE from(t) == IF t < s THEN t ELSE t + 1
<1>1. /\ nfds' = nfds - 1 /\ nfds' \in 1..MAX_NUM_CLIENTS
      /\ \A t \in Slots : t < s => slots'[t] = slots[t]
      /\ \A t \in Slots : s <= t /\ t < nfds => t + 1 \in Slots /\ slots'[t] = slots[t + 1]
      /\ \A t \in Slots : nfds <= t => slots'[t].fd = NoFd
      /\ DOMAIN open' = DOMAIN open \ {slots[s].fd}
      /\ \A fd \in DOMAIN open' : open'[fd] = open[fd]
  BY RemoveFacts
<1>2. /\ nfds \in Nat /\ s \in Nat /\ 1 <= s /\ s < nfds /\ Slots \subseteq Nat
      /\ nfds \in Slots /\ \A t \in Nat, u \in Slots : 1 <= t /\ t <= u => t \in Slots
      /\ \A t \in Slots : 1 <= t
  BY Sizes DEF SlotsHoldOpen, Polled, TableFull
<1>1a. nfds' = nfds - 1 /\ nfds \in Nat /\ s \in Nat /\ 1 <= s /\ s < nfds
  BY <1>1, <1>2
<1>3. \A t \in Polled' : from(t) \in Polled \ {s} /\ slots'[t] = slots[from(t)]
  BY <1>1, <1>2 DEF Polled
<1>4. \A u \in Polled \ {s} : \E t \in Polled' : from(t) = u
  <2> SUFFICES ASSUME NEW u \in Polled \ {s}
               PROVE  \E t \in Polled' : from(t) = u
    OBVIOUS
  <2>1. u \in Slots /\ u \in Nat /\ u < nfds /\ u # s
    BY <1>2 DEF Polled
  <2>2. CASE u < s
    <3>1. u < nfds'
      BY <1>1a, <2>1, <2>2
    <3>. QED BY <2>1, <2>2, <3>1 DEF Polled
  <2>3. CASE u > s
    <3>1. u - 1 \in Slots /\ u - 1 < nfds' /\ ~(u - 1 < s) /\ (u - 1) + 1 = u
      BY <1>1, <1>2, <2>1, <2>3
    <3>. QED BY <3>1 DEF Polled
  <2>. QED BY <1>2, <2>1, <2>2, <2>3
<1>5. \A t, u \in Polled' : from(t) = from(u) => t = u
  BY <1>2 DEF Polled
<1> HIDE DEF from
<1>6. \A t \in Slots : t < nfds' <=> t \in Polled'
  BY DEF Polled
<1>7. \A t \in Polled : slots[t].fd \in DOMAIN open
  BY DEF SlotsHoldOpen, Polled
<1>8. \A t, u \in Polled : slots[t].fd = slots[u].fd => t = u
  BY DEF SlotsHoldOpen
<1>9. \A t \in Polled' : slots'[t].fd \in DOMAIN open'
  BY <1>1, <1>3, <1>7, <1>8
<1>10. \A t \in Slots : ~(t < nfds') => slots'[t].fd = NoFd
  <2> SUFFICES ASSUME NEW t \in Slots, ~(t < nfds')
               PROVE  slots'[t].fd = NoFd
    OBVIOUS
  <2>1. CASE t >= nfds
    BY <2>1, <1>1, <1>2
  <2>2. CASE t < nfds
    <3>1. t = nfds - 1 /\ s <= t /\ t + 1 = nfds
      BY <1>1a, <1>2, <2>2
    <3>2. slots'[t] = slots[nfds]
      BY <3>1, <1>1, <2>2
    <3>3. slots[nfds].fd = NoFd
      BY <1>2 DEF SlotsHoldOpen
    <3>. QED BY <3>2, <3>3
  <2>. QED BY <1>2, <2>1, <2>2
<1>11. \A t, u \in Polled' : slots'[t].fd = slots'[u].fd => t = u
  BY <1>3, <1>5, <1>8
<1>12. \A fd \in DOMAIN open' : \E t \in Polled' : slots'[t].fd = fd
  <2> SUFFICES ASSUME NEW fd \in DOMAIN open'
               PROVE  \E t \in Polled' : slots'[t].fd = fd
    OBVIOUS
  <2>1. fd \in DOMAIN open /\ fd # slots[s].fd
    BY <1>1
  <2>2. PICK u \in Polled : slots[u].fd = fd
    BY <2>1 DEF SlotsHoldOpen
  <2>. QED BY <2>1, <2>2, <1>3, <1>4
<1>13. SlotsHoldOpen'
  BY <1>1, <1>6, <1>9, <1>10, <1>11, <1>12 DEF SlotsHoldOpen
<1>14. HangUpIsTrue'
  <2> SUFFICES ASSUME NEW t \in Polled', "HUP" \in slots'[t].revents
               PROVE  peer[open'[slots'[t].fd]] = "reset"
    BY DEF HangUpIsTrue
  <2>1. from(t) \in Polled \ {s} /\ slots'[t] = slots[from(t)]
    BY <1>3
  <2>2. peer[open[slots[from(t)].fd]] = "reset"
    BY <2>1 DEF HangUpIsTrue
  <2>. QED BY <2>1, <2>2, <1>1, <1>9
<1>. QED BY <1>13, <1>14

\* So does Accept, if the revents it leaves in the slot is empty.
LEMMA AcceptKeeps ==
  ASSUME TypeOK, SlotsHoldOpen, HangUpIsTrue, OneConnectionEach, TestsHold,
         Accept, slots[nfds].revents = {}
  PROVE  SlotsHoldOpen' /\ HangUpIsTrue'
<1>1. PICK c \in backlog, fd \in Fds \ DOMAIN open :
        /\ nfds \in Slots /\ nfds' = nfds + 1
        /\ slots' = [slots EXCEPT ![nfds].fd = fd]
        /\ DOMAIN open' = DOMAIN open \cup {fd}
        /\ open'[fd] = c
        /\ \A f \in DOMAIN open : open'[f] = open[f]
  BY AcceptFacts
<1>2. slots \in [Slots -> SlotType]
  BY TypeParts DEF TableTyped
<1>3. /\ slots'[nfds].fd = fd /\ slots'[nfds].revents = {}
      /\ \A t \in Slots \ {nfds} : slots'[t] = slots[t]
  BY <1>1, <1>2 DEF SlotType
<1>4. nfds \in Nat /\ Slots \subseteq Nat /\ nfds' \in 1..MAX_NUM_CLIENTS
  BY <1>1, Sizes
<1>5. nfds \notin Polled /\ Polled' = Polled \cup {nfds}
  BY <1>1, <1>4 DEF Polled
<1>6. \A t \in Polled : slots'[t] = slots[t] /\ slots[t].fd \in DOMAIN open /\ slots[t].fd # fd
  BY <1>3, <1>5 DEF SlotsHoldOpen, Polled
<1>7. SlotsHoldOpen'
  <2>1. \A t \in Slots : ~(t < nfds') => slots'[t].fd = NoFd
    <3> SUFFICES ASSUME NEW t \in Slots, ~(t < nfds')
                 PROVE  slots'[t].fd = NoFd
      OBVIOUS
    <3>1. t # nfds /\ ~(t < nfds)
      BY <1>1, <1>4
    <3>. QED BY <3>1, <1>3 DEF SlotsHoldOpen
  <2>2. \A t \in Slots : t < nfds' => slots'[t].fd \in DOMAIN open'
    <3> SUFFICES ASSUME NEW t \in Slots, t < nfds'
                 PROVE  slots'[t].fd \in DOMAIN open'
      OBVIOUS
    <3>1. t \in Polled'
      BY DEF Polled
    <3>. QED BY <3>1, <1>1, <1>3, <1>5, <1>6
  <2>3. \A t, u \in Polled' : slots'[t].fd = slots'[u].fd => t = u
    BY <1>3, <1>5, <1>6 DEF SlotsHoldOpen
  <2>4. \A f \in DOMAIN open' : \E t \in Polled' : slots'[t].fd = f
    BY <1>1, <1>3, <1>5, <1>6 DEF SlotsHoldOpen
  <2>. QED BY <1>4, <2>1, <2>2, <2>3, <2>4 DEF SlotsHoldOpen
<1>8. HangUpIsTrue'
  <2>1. peer' = peer
    BY DEF Accept, clientVars
  <2> SUFFICES ASSUME NEW t \in Polled', "HUP" \in slots'[t].revents
               PROVE  peer[open'[slots'[t].fd]] = "reset"
    BY <2>1 DEF HangUpIsTrue
  <2>2. t \in Polled
    BY <1>3, <1>5
  <2>3. peer[open[slots[t].fd]] = "reset"
    BY <2>2, <1>6 DEF HangUpIsTrue
  <2>. QED BY <2>2, <2>3, <1>1, <1>6
<1>. QED BY <1>7, <1>8

\* A client that is accepted is at the end of the new descriptor only.
LEMMA AcceptConnects ==
  ASSUME TypeOK, OneConnectionEach, TestsHold, Accept
  PROVE  OneConnectionEach' /\ TableTyped'
<1>1. PICK c \in backlog, fd \in Fds \ DOMAIN open :
        /\ nfds \in Slots /\ nfds' = nfds + 1
        /\ backlog' = backlog \ {c}
        /\ slots' = [slots EXCEPT ![nfds].fd = fd]
        /\ DOMAIN open' = DOMAIN open \cup {fd}
        /\ open'[fd] = c
        /\ \A f \in DOMAIN open : open'[f] = open[f]
  BY AcceptFacts
<1>2. peer' = peer /\ c \in Clients
  BY DEF Accept, clientVars, TypeOK
<1>3. \A f \in DOMAIN open : open[f] # c
  BY DEF OneConnectionEach
<1>4. OneConnectionEach'
  BY <1>1, <1>2, <1>3 DEF OneConnectionEach
<1>5. slots' \in [Slots -> SlotType] /\ nfds' \in 0..MAX_NUM_CLIENTS
  BY <1>1, Sizes, TypeParts DEF TableTyped, SlotType
<1>. QED BY <1>1, <1>2, <1>4, <1>5, TypeParts DEF TableTyped

\* poll writes the slots below nfds only, and writes what is so.
LEMMA PollKeeps ==
  ASSUME TypeOK, Poll
  PROVE  /\ slots' \in [Slots -> SlotType]
         /\ SlotsHoldOpen => SlotsHoldOpen' /\ HangUpIsTrue'
<1>0. slots \in [Slots -> SlotType]
  BY TypeParts DEF TableTyped
<1>1. /\ slots' = [s \in Slots |->
           IF s \in Polled THEN [slots[s] EXCEPT !.revents = Events(slots[s].fd)] ELSE slots[s]]
      /\ UNCHANGED <<nfds, open, peer>>
  BY DEF Poll, Polls, clientVars
<1>2. \A f : Events(f) \in SUBSET {"IN", "HUP"}
  BY DEF Events
<1>3. ASSUME NEW s \in Slots
      PROVE  /\ slots'[s] \in SlotType /\ slots'[s].fd = slots[s].fd
             /\ s \in Polled => slots'[s].revents = Events(slots[s].fd)
  <2>1. slots[s] \in SlotType
    BY <1>0
  <2>2. CASE s \in Polled
    BY <2>1, <2>2, <1>1, <1>2 DEF SlotType
  <2>3. CASE s \notin Polled
    BY <2>1, <2>3, <1>1
  <2>. QED BY <2>2, <2>3
<1>4. slots' \in [Slots -> SlotType]
  <2>1. slots' = [s \in Slots |-> slots'[s]]
    BY <1>1
  <2>. QED BY <1>3, <2>1
<1>5. Polled' = Polled /\ Polled \subseteq Slots
  BY <1>1 DEF Polled
<1>6. SlotsHoldOpen => SlotsHoldOpen'
  BY <1>1, <1>3, <1>5 DEF SlotsHoldOpen
<1>7. SlotsHoldOpen => HangUpIsTrue'
  <2> SUFFICES ASSUME NEW t \in Polled, "HUP" \in slots'[t].revents
               PROVE  peer[open[slots[t].fd]] = "reset"
    BY <1>1, <1>3, <1>5 DEF HangUpIsTrue
  <2>1. "HUP" \in Events(slots[t].fd)
    BY <1>3, <1>5
  <2>. QED BY <2>1 DEF Events
<1>. QED BY <1>4, <1>6, <1>7

-----------------------------------------------------------------------------
(* Every step keeps the invariant: the requests. *)

\* Nothing changes for requests in hand while the server has received none.
LEMMA NothingInHand ==
  ASSUME pc' \notin {"invoke", "answer"} \/ request' # "good",
         UNCHANGED <<inbox, sent, answered>>, RequestIsUnanswered
  PROVE  RequestIsUnanswered'
BY DEF RequestIsUnanswered, InHand

\* A client's request is answered once, and the client sends no other before.
LEMMA RequestsKept ==
  ASSUME IInv, Next
  PROVE  ClientsTyped' /\ RequestIsUnanswered'
<1>0. ClientsTyped /\ TableTyped /\ LoopTyped /\ RequestIsUnanswered /\ TestsHold /\ MaxRequests \in Nat
  BY Sizes, TypeParts DEF IInv
<1>1. ASSUME NEW c \in Clients, Connect(c) \/ Resets(c) \/ \E how \in {"eof", "reset"} : Leave(c, how)
      PROVE  ClientsTyped' /\ RequestIsUnanswered'
  <2>1. UNCHANGED <<serverVars, inbox, sent, asked, answered>>
    BY <1>1 DEF Connect, Resets, Leave
  <2>2. backlog' \subseteq Clients /\ peer' \in [Clients -> {"away", "up", "eof", "reset"}]
    BY <1>0, <1>1 DEF Connect, Resets, Leave, ClientsTyped
  <2>3. RequestIsUnanswered'
    BY <1>0, <2>1 DEF RequestIsUnanswered, InHand, Peer, serverVars, table
  <2>. QED BY <1>0, <2>1, <2>2, <2>3 DEF ClientsTyped
<1>2. ASSUME NEW c \in Clients, NEW kind \in {"good", "bad"}, Send(c, kind)
      PROVE  ClientsTyped' /\ RequestIsUnanswered'
  <2>1. /\ inbox' = [inbox EXCEPT ![c] = kind]
        /\ sent' = [sent EXCEPT ![c] = @ + 1]
        /\ sent[c] = answered[c] /\ asked < MaxRequests /\ asked' = asked + 1
        /\ UNCHANGED <<serverVars, backlog, peer, answered>>
    BY <1>2 DEF Send
  <2>2. sent[c] \in Nat /\ answered[c] \in Nat
    BY <1>0 DEF ClientsTyped
  <2>3. /\ sent'[c] = sent[c] + 1 /\ inbox'[c] = kind
        /\ \A d \in Clients \ {c} : sent'[d] = sent[d] /\ inbox'[d] = inbox[d]
    BY <1>0, <2>1 DEF ClientsTyped
  <2>4. ClientsTyped'
    BY <1>0, <2>1, <2>2, <2>3 DEF ClientsTyped
  <2>5. \A d \in Clients : InHand(d)' <=> InHand(d)
    BY <2>1 DEF InHand, Peer, serverVars, table
  <2>6. ~InHand(c)
    BY <1>0, <2>1, <2>2 DEF RequestIsUnanswered
  <2>7. RequestIsUnanswered'
    <3> SUFFICES ASSUME NEW d \in Clients
                 PROVE  /\ inbox'[d] # "none" \/ InHand(d)' => answered'[d] < sent'[d]
                        /\ InHand(d)' => inbox'[d] = "none"
      BY DEF RequestIsUnanswered
    <3>1. CASE d = c
      BY <3>1, <2>1, <2>2, <2>3, <2>5, <2>6
    <3>2. CASE d # c
      BY <3>2, <1>0, <2>1, <2>3, <2>5 DEF RequestIsUnanswered
    <3>. QED BY <3>1, <3>2
  <2>. QED BY <2>4, <2>7
<1>3. ASSUME Poll \/ Accept \/ NothingToRead \/ ReceiveFails \/ HangUp \/ EndRound \/ ReceiveKills
             \/ Reject \/ AnswerKills
      PROVE  ClientsTyped' /\ RequestIsUnanswered'
  <2>1. UNCHANGED <<clientVars, answered>> /\ backlog' \subseteq backlog
        /\ pc' \notin {"invoke", "answer"}
    BY <1>3 DEF Poll, Polls, Accept, NothingToRead, ReceiveFails, HangUp, EndRound, ReceiveKills,
                Reject, AnswerKills
  <2>. QED BY <1>0, <2>1, NothingInHand DEF ClientsTyped, clientVars
<1>4. ASSUME Receive
      PROVE  ClientsTyped' /\ RequestIsUnanswered'
  <2> DEFINE c == Peer(i)
  <2>1. /\ inbox[c] # "none" /\ request' = inbox[c]
        /\ inbox' = [inbox EXCEPT ![c] = "none"]
        /\ UNCHANGED <<i, table, backlog, peer, sent, asked, answered>>
    BY <1>4 DEF Receive, Receives
  <2>2. c \in Clients
    BY <1>0, <1>4 DEF Receive, Peer, IsOpen, TableTyped
  <2>3. \A d \in Clients : InHand(d)' => d = c
    BY <2>1 DEF InHand, Peer, table
  <2> HIDE DEF c
  <2>4. inbox'[c] = "none" /\ \A d \in Clients \ {c} : inbox'[d] = inbox[d]
    BY <1>0, <2>1, <2>2 DEF ClientsTyped
  <2>5. answered[c] < sent[c]
    BY <1>0, <2>1, <2>2 DEF RequestIsUnanswered
  <2>6. RequestIsUnanswered'
    <3> SUFFICES ASSUME NEW d \in Clients
                 PROVE  /\ inbox'[d] # "none" \/ InHand(d)' => answered'[d] < sent'[d]
                        /\ InHand(d)' => inbox'[d] = "none"
      BY DEF RequestIsUnanswered
    <3>1. CASE d = c
      BY <3>1, <2>1, <2>4, <2>5
    <3>2. CASE d # c
      BY <3>2, <1>0, <2>1, <2>3, <2>4 DEF RequestIsUnanswered
    <3>. QED BY <3>1, <3>2
  <2>. QED BY <1>0, <2>1, <2>2, <2>6 DEF ClientsTyped
<1>5. ASSUME ReceiveNothing
      PROVE  ClientsTyped' /\ RequestIsUnanswered'
  <2>1. UNCHANGED <<backlog, clientVars, answered>> /\ request' = "bad"
    BY <1>5 DEF ReceiveNothing, Receives
  <2>. QED BY <1>0, <2>1, NothingInHand DEF ClientsTyped, clientVars
<1>6. ASSUME InvokeReturns
      PROVE  ClientsTyped' /\ RequestIsUnanswered'
  <2>1. /\ UNCHANGED <<i, request, table, backlog, clientVars, answered>>
        /\ pc = "invoke"
    BY <1>6 DEF InvokeReturns
  <2>2. \A d \in Clients : InHand(d)' => InHand(d)
    BY <2>1 DEF InHand, Peer, table
  <2>. QED BY <1>0, <2>1, <2>2 DEF ClientsTyped, RequestIsUnanswered, clientVars
<1>7. ASSUME Answer
      PROVE  ClientsTyped' /\ RequestIsUnanswered'
  <2> DEFINE c == Peer(i)
  <2>1. /\ UNCHANGED <<backlog, clientVars>> /\ pc' = "hup"
        /\ answered' \in {answered, [answered EXCEPT ![c] = @ + 1]}
    BY <1>7 DEF Answer
  <2>2. c \in Clients /\ InHand(c)
    BY <1>0, <1>7 DEF Answer, Peer, IsOpen, TableTyped, TestsHold, InHand
  <2> HIDE DEF c
  <2>3. /\ answered[c] < sent[c] /\ inbox[c] = "none"
        /\ answered[c] \in Nat /\ sent[c] \in Nat
    BY <1>0, <2>2 DEF RequestIsUnanswered, ClientsTyped
  <2>4. /\ answered' \in [Clients -> Nat]
        /\ answered'[c] <= sent[c]
        /\ \A d \in Clients \ {c} : answered'[d] = answered[d]
    <3>1. CASE answered' = answered
      BY <3>1, <1>0, <2>3 DEF ClientsTyped
    <3>2. CASE answered' = [answered EXCEPT ![c] = @ + 1]
      BY <3>2, <1>0, <2>2, <2>3 DEF ClientsTyped
    <3>. QED BY <2>1, <3>1, <3>2
  <2>5. ClientsTyped'
    BY <1>0, <2>1, <2>4 DEF ClientsTyped, clientVars
  <2>6. RequestIsUnanswered'
    <3>1. \A d \in Clients : ~InHand(d)'
      BY <2>1 DEF InHand
    <3>. QED BY <1>0, <2>1, <2>3, <2>4, <3>1 DEF RequestIsUnanswered, clientVars
  <2>. QED BY <2>5, <2>6
<1>. QED BY <1>1, <1>2, <1>3, <1>4, <1>5, <1>6, <1>7 DEF Next, Loop, ClientStep

-----------------------------------------------------------------------------
(* Every step keeps the invariant: the table and the place in the loop. *)

\* The steps that leave the table and the connections as they are.
LEMMA TableStays ==
  ASSUME InStep, OneConnectionEach, TableTyped, UNCHANGED <<table, backlog, peer>>
  PROVE  InStep' /\ OneConnectionEach' /\ TableTyped'
BY DEF InStep, SlotsHoldOpen, HangUpIsTrue, OneConnectionEach, TableTyped, Polled, table

\* The steps that take a slot out.
LEMMA RemoveStep ==
  ASSUME IInv, NEW s \in Slots, s <= nfds, Remove(s), UNCHANGED <<backlog, peer>>,
         ~mishap' => ~mishap /\ ~TableFull /\ s < nfds
  PROVE  InStep' /\ OneConnectionEach' /\ TableTyped'
<1>1. TypeOK /\ InStep /\ OneConnectionEach
  BY DEF IInv
<1>2. TableTyped' /\ OneConnectionEach'
  <2>1. /\ TableTyped' /\ DOMAIN open' \subseteq DOMAIN open
        /\ \A fd \in DOMAIN open' : open'[fd] = open[fd]
    BY <1>1, RemoveTyped
  <2>. QED BY <1>1, <2>1 DEF OneConnectionEach
<1>3. InStep'
  <2> SUFFICES ASSUME ~mishap' PROVE SlotsHoldOpen' /\ HangUpIsTrue'
    BY DEF InStep
  <2>1. SlotsHoldOpen /\ HangUpIsTrue /\ ~TableFull /\ s \in Polled
    BY <1>1 DEF InStep, Polled
  <2>. QED BY <1>1, <2>1, RemoveKeeps
<1>. QED BY <1>2, <1>3

\* What the clients do to their connections.
LEMMA ClientsKeepTable ==
  ASSUME IInv, NEW c \in Clients, NEW how \in {"up", "eof", "reset"},
         UNCHANGED table, peer' = [peer EXCEPT ![c] = how],
         \/ peer[c] = "away" /\ how = "up" /\ backlog' = backlog \cup {c}
         \/ peer[c] \in {"up", "eof"} /\ how # "up" /\ UNCHANGED backlog
  PROVE  InStep' /\ OneConnectionEach' /\ TableTyped'
<1>0. InStep /\ OneConnectionEach /\ TableTyped /\ ClientsTyped
  BY TypeParts DEF IInv
<1>1. peer'[c] = how /\ \A d \in Clients \ {c} : peer'[d] = peer[d]
  BY <1>0 DEF ClientsTyped
<1>2. /\ \A fd \in DOMAIN open : open[fd] \in Clients
      /\ backlog \subseteq Clients
  BY <1>0 DEF TableTyped, ClientsTyped
<1>3. OneConnectionEach'
  <2>1. CASE peer[c] = "away"
    <3>1. \A fd \in DOMAIN open : open[fd] # c
      BY <1>0, <2>1 DEF OneConnectionEach
    <3>. QED BY <1>0, <1>1, <1>2, <2>1, <3>1 DEF OneConnectionEach, table
  <2>2. CASE peer[c] # "away"
    BY <1>0, <1>1, <1>2, <2>2 DEF OneConnectionEach, table
  <2>. QED BY <2>1, <2>2
<1>4. \A fd \in DOMAIN open : peer[open[fd]] = "reset" => peer'[open[fd]] = "reset"
  BY <1>0, <1>1, <1>2 DEF OneConnectionEach
<1>5. InStep'
  <2> SUFFICES ASSUME ~mishap PROVE SlotsHoldOpen' /\ HangUpIsTrue'
    BY DEF InStep, table
  <2>1. SlotsHoldOpen /\ HangUpIsTrue
    BY <1>0 DEF InStep
  <2>2. SlotsHoldOpen'
    BY <2>1 DEF SlotsHoldOpen, Polled, table
  <2>3. \A s \in Polled : slots[s].fd \in DOMAIN open
    BY <2>1 DEF SlotsHoldOpen, Polled
  <2>4. HangUpIsTrue'
    BY <1>4, <2>1, <2>3 DEF HangUpIsTrue, Polled, table
  <2>. QED BY <2>2, <2>4
<1>. QED BY <1>0, <1>3, <1>5 DEF TableTyped, table

LEMMA LoopKept ==
  ASSUME IInv, Next
  PROVE  TableTyped' /\ LoopTyped' /\ InStep' /\ OneConnectionEach' /\ TestsHold'
<1> DEFINE Goal == TableTyped' /\ LoopTyped' /\ InStep' /\ OneConnectionEach' /\ TestsHold'
<1>0. /\ TypeOK /\ TableTyped /\ LoopTyped /\ ClientsTyped
      /\ InStep /\ OneConnectionEach /\ TestsHold
      /\ MAX_NUM_CLIENTS \in Nat /\ MAX_NUM_CLIENTS >= 3
      /\ Slots = 1..(MAX_NUM_CLIENTS - 1)
  BY Sizes, TypeParts DEF IInv
<1>1. ASSUME UNCHANGED serverVars, InStep', OneConnectionEach', TableTyped'
      PROVE  Goal
  BY <1>0, <1>1 DEF LoopTyped, TestsHold, IsOpen, serverVars, table
<1>2. ASSUME NEW c \in Clients, Connect(c) \/ Resets(c) \/ \E how \in {"eof", "reset"} : Leave(c, how)
      PROVE  Goal
  <2>1. UNCHANGED serverVars /\ UNCHANGED table
    BY <1>2 DEF Connect, Resets, Leave, serverVars
  <2>2. InStep' /\ OneConnectionEach' /\ TableTyped'
    BY <1>2, <2>1, ClientsKeepTable DEF Connect, Resets, Leave
  <2>. QED BY <1>1, <2>1, <2>2
<1>3. ASSUME NEW c \in Clients, NEW kind \in {"good", "bad"}, Send(c, kind)
      PROVE  Goal
  <2>1. UNCHANGED serverVars /\ UNCHANGED <<table, backlog, peer>>
    BY <1>3 DEF Send, serverVars
  <2>. QED BY <1>0, <1>1, <2>1, TableStays
<1>4. CASE Poll
  <2>1. /\ i' = 1 /\ UNCHANGED <<request, nfds, open, mishap, backlog, peer>>
        /\ pc' \in {"accept", "scan"}
        /\ pc' = "accept" => Waiting /\ nfds < MAX_NUM_CLIENTS
    BY <1>4 DEF Poll, Polls, clientVars
  <2>2. LoopTyped'
    BY <1>0, <2>1 DEF LoopTyped
  <2>3. TestsHold'
    BY <1>0, <2>1 DEF TestsHold, Waiting, TableTyped
  <2>4. TableTyped' /\ InStep'
    BY <1>0, <1>4, <2>1, PollKeeps DEF TableTyped, InStep
  <2>. QED BY <1>0, <2>1, <2>2, <2>3, <2>4 DEF OneConnectionEach
<1>5. CASE Accept
  <2>1. /\ pc = "accept" /\ pc' = "scan" /\ UNCHANGED <<i, request>>
        /\ mishap' = (mishap \/ slots[nfds].revents # {})
    BY <1>5 DEF Accept
  <2>2. OneConnectionEach' /\ TableTyped'
    BY <1>0, <1>5, AcceptConnects
  <2>3. InStep'
    BY <1>0, <1>5, <2>1, AcceptKeeps DEF InStep
  <2>. QED BY <1>0, <2>1, <2>2, <2>3 DEF LoopTyped, TestsHold
<1>6. CASE NothingToRead \/ Receive \/ ReceiveNothing \/ ReceiveKills \/ InvokeReturns \/ Answer \/ AnswerKills
  <2>1. UNCHANGED <<i, table, backlog, peer>>
    BY <1>6 DEF NothingToRead, Receive, ReceiveNothing, ReceiveKills, InvokeReturns, Answer,
                AnswerKills, clientVars
  <2>2. InStep' /\ OneConnectionEach' /\ TableTyped'
    BY <1>0, <2>1, TableStays
  <2>3. LoopTyped'
    <3>1. CASE NothingToRead \/ ReceiveKills \/ InvokeReturns \/ AnswerKills
      BY <3>1, <1>0, <2>1 DEF NothingToRead, ReceiveKills, InvokeReturns, AnswerKills, LoopTyped, table
    <3>2. CASE Answer
      BY <3>2, <1>0, <2>1 DEF Answer, LoopTyped, table
    <3>3. CASE Receive
      <4>1. Peer(i) \in Clients
        BY <3>3, <1>0 DEF Receive, Peer, IsOpen, TableTyped
      <4>2. inbox[Peer(i)] \in {"good", "bad"}
        BY <3>3, <1>0, <4>1 DEF Receive, ClientsTyped
      <4>. QED BY <3>3, <1>0, <2>1, <4>2 DEF Receive, Receives, LoopTyped, table
    <3>4. CASE ReceiveNothing
      BY <3>4, <1>0, <2>1 DEF ReceiveNothing, Receives, LoopTyped, table
    <3>. QED BY <1>6, <3>1, <3>2, <3>3, <3>4
  <2>4. TestsHold'
    <3>1. CASE NothingToRead \/ Receive \/ ReceiveNothing
      <4>1. i < nfds /\ i \in Slots /\ pc' \in {"hup", "invoke", "answer"}
        BY <3>1, <1>0 DEF NothingToRead, Receive, ReceiveNothing, Receives, Readable, Serving,
                          LoopTyped, TableTyped
      <4>2. pc' = "hup" \/ IsOpen(slots[i].fd)
        BY <3>1 DEF NothingToRead, Receive, ReceiveNothing
      <4>. QED BY <1>0, <2>1, <4>1, <4>2 DEF TestsHold, IsOpen, LoopTyped, TableTyped, table
    <3>2. CASE InvokeReturns \/ Answer \/ ReceiveKills \/ AnswerKills
      <4>1. \/ pc \in {"invoke", "answer"} /\ pc' \in {"answer", "hup"}
            \/ pc' = "down"
        BY <3>2 DEF InvokeReturns, Answer, ReceiveKills, AnswerKills
      <4>. QED BY <1>0, <2>1, <4>1 DEF TestsHold, IsOpen, LoopTyped, TableTyped, table
    <3>. QED BY <1>6, <3>1, <3>2
  <2>. QED BY <2>2, <2>3, <2>4
<1>7. CASE ReceiveFails \/ Reject
  <2>1. /\ Remove(i) /\ UNCHANGED <<i, backlog, peer>> /\ pc' = "hup"
        /\ mishap' = (mishap \/ TableFull) /\ request' \in {"none", request}
    BY <1>7 DEF ReceiveFails, Reject, clientVars
  <2>2. i \in Slots /\ i < nfds
    BY <1>0, <1>7 DEF ReceiveFails, Reject, Readable, Serving, LoopTyped, TableTyped, TestsHold
  <2>3. i \in Nat /\ nfds \in Nat /\ i <= nfds
    BY <1>0, <2>2 DEF TableTyped
  <2>4. InStep' /\ OneConnectionEach' /\ TableTyped'
    BY <2>1, <2>2, <2>3, RemoveStep
  <2>5. LoopTyped'
    BY <1>0, <2>1 DEF LoopTyped
  <2>6. nfds' = nfds - 1
    BY <2>1 DEF Remove
  <2>7. TestsHold'
    BY <2>1, <2>2, <2>3, <2>6 DEF TestsHold
  <2>. QED BY <2>4, <2>5, <2>7
<1>8. CASE HangUp
  <2>1. /\ pc' = "scan" /\ i' = i + 1 /\ UNCHANGED <<request, backlog, peer>>
        /\ i \in Slots /\ i <= nfds
    BY <1>0, <1>8 DEF HangUp, clientVars, TestsHold
  <2>2. i' \in 1..MAX_NUM_CLIENTS /\ i \in Nat /\ nfds \in Nat
    BY <1>0, <2>1 DEF TableTyped
  <2>3. TestsHold'
    BY <2>1 DEF TestsHold
  <2>4. CASE "HUP" \in slots[i].revents
    <3>1. Remove(i) /\ mishap' = (mishap \/ TableFull \/ i >= nfds)
      BY <1>8, <2>4 DEF HangUp
    <3>2. ~mishap' => ~mishap /\ ~TableFull /\ ~(i >= nfds)
      BY <3>1
    <3>3. InStep' /\ OneConnectionEach' /\ TableTyped'
      <4>1. ~mishap' => ~mishap /\ ~TableFull /\ i < nfds
        BY <2>2, <3>2
      <4>. QED BY <2>1, <3>1, <4>1, RemoveStep
    <3>4. mishap' \in BOOLEAN
      BY <3>1
    <3>. QED BY <1>0, <2>1, <2>2, <2>3, <3>3, <3>4 DEF LoopTyped
  <2>5. CASE "HUP" \notin slots[i].revents
    <3>1. UNCHANGED table
      BY <1>8, <2>5 DEF HangUp
    <3>2. InStep' /\ OneConnectionEach' /\ TableTyped'
      BY <1>0, <2>1, <3>1, TableStays
    <3>. QED BY <1>0, <2>1, <2>2, <2>3, <3>1, <3>2 DEF LoopTyped, table
  <2>. QED BY <2>4, <2>5
<1>9. CASE EndRound
  <2>1. UNCHANGED <<request, table, backlog, peer>> /\ pc' = "poll" /\ i' = 1
    BY <1>9 DEF EndRound, clientVars
  <2>. QED BY <1>0, <2>1, TableStays DEF LoopTyped, TestsHold, table
<1>. QED
  BY <1>2, <1>3, <1>4, <1>5, <1>6, <1>7, <1>8, <1>9 DEF Next, Loop, ClientStep

-----------------------------------------------------------------------------
(* The theorems. *)

LEMMA Initially ==
  ASSUME Init
  PROVE  IInv
<1>1. slots \in [Slots -> [fd : {NoFd}, revents : InitialRevents]] /\ nfds = 1 /\ DOMAIN open = {}
  BY DEF Init
<1>2. \A s \in Slots : slots[s].fd = NoFd /\ ~(s < 1)
  BY <1>1, Sizes
<1>3. TypeOK
  <2>1. slots \in [Slots -> SlotType]
    BY <1>1, LoopAssumption DEF SlotType
  <2>2. TableTyped
    BY <1>1, <2>1, Sizes DEF TableTyped
  <2>3. LoopTyped
    <3>1. mishap \in BOOLEAN
      BY DEF Init
    <3>. QED BY <3>1, Sizes DEF Init, LoopTyped
  <2>4. ClientsTyped
    <3>1. \A c \in Clients : sent[c] = 0 /\ answered[c] = 0
      BY DEF Init
    <3>2. sent \in [Clients -> Nat] /\ answered \in [Clients -> Nat]
      BY DEF Init
    <3>3. /\ backlog = {} /\ asked = 0
          /\ peer \in [Clients -> {"away", "up", "eof", "reset"}]
          /\ inbox \in [Clients -> {"none", "good", "bad"}]
      BY DEF Init
    <3>4. asked \in 0..MaxRequests
      BY <3>3, Sizes
    <3>. QED BY <3>1, <3>2, <3>3, <3>4 DEF ClientsTyped
  <2>. QED BY <2>2, <2>3, <2>4, TypeParts
<1>4. Polled = {}
  BY <1>1, <1>2 DEF Polled
<1>5. InStep
  BY <1>1, <1>2, <1>4, Sizes DEF InStep, SlotsHoldOpen, HangUpIsTrue
<1>6. OneConnectionEach /\ RequestIsUnanswered /\ TestsHold
  BY <1>1 DEF Init, OneConnectionEach, RequestIsUnanswered, InHand, TestsHold
<1>. QED BY <1>3, <1>5, <1>6 DEF IInv

\* The inductive invariant holds in every state.
THEOREM Invariant == Spec => []IInv
<1>1. Init => IInv
  BY Initially
<1>2. IInv /\ [Next]_vars => IInv'
  <2>1. ASSUME IInv, Next
        PROVE  IInv'
    <3>1. ClientsTyped' /\ RequestIsUnanswered'
      BY <2>1, RequestsKept
    <3>2. TableTyped' /\ LoopTyped' /\ InStep' /\ OneConnectionEach' /\ TestsHold'
      BY <2>1, LoopKept
    <3>3. TypeOK'
      BY <3>1, <3>2 DEF TypeOK, TableTyped, LoopTyped, ClientsTyped, SlotType
    <3>. QED BY <3>1, <3>2, <3>3 DEF IInv
  <2>2. ASSUME IInv, UNCHANGED vars
        PROVE  IInv'
    <3>1. TypeOK'
      BY <2>2 DEF IInv, TypeOK, vars, serverVars, clientVars, table
    <3>2. InStep' /\ OneConnectionEach'
      BY <2>2, TableStays, TypeParts DEF IInv, vars, serverVars, clientVars
    <3>3. RequestIsUnanswered' /\ TestsHold'
      BY <2>2 DEF IInv, RequestIsUnanswered, InHand, Peer, TestsHold, IsOpen, vars, serverVars,
                  clientVars, table
    <3>. QED BY <3>1, <3>2, <3>3 DEF IInv
  <2>. QED BY <2>1, <2>2
<1>. QED BY <1>1, <1>2, PTL DEF Spec

\* The types, and that no client is answered more often than it asked: also after
\* the table was full, or an unwritten revents was used.
THEOREM TypeCorrect == Spec => []TypeOK
BY Invariant, PTL DEF IInv

\* The slots that poll is given are the open connections, each once.
THEOREM ConnectionsCorrect == Spec => []EveryConnectionPolled
<1>1. IInv => EveryConnectionPolled
  <2> SUFFICES ASSUME SlotsHoldOpen
               PROVE  /\ {slots[s].fd : s \in Polled} = DOMAIN open
                      /\ Cardinality(Polled) = Cardinality(DOMAIN open)
    BY DEF IInv, InStep, EveryConnectionPolled
  <2> DEFINE f == [s \in Polled |-> slots[s].fd]
  <2>1. \A s \in Polled : slots[s].fd \in DOMAIN open
    BY DEF SlotsHoldOpen, Polled
  <2>2. {slots[s].fd : s \in Polled} = DOMAIN open
    <3>1. \A fd \in DOMAIN open : \E s \in Polled : slots[s].fd = fd
      BY DEF SlotsHoldOpen
    <3>. QED BY <2>1, <3>1
  <2>3. f \in Injection(Polled, DOMAIN open)
    <3>1. f \in [Polled -> DOMAIN open] /\ \A s, t \in Polled : f[s] = f[t] => s = t
      BY <2>1 DEF SlotsHoldOpen
    <3>. QED BY <3>1 DEF Injection, IsInjective
  <2>4. f \in Surjection(Polled, DOMAIN open)
    <3>1. f \in [Polled -> DOMAIN open] /\ \A fd \in DOMAIN open : \E s \in Polled : f[s] = fd
      BY <2>1 DEF SlotsHoldOpen
    <3>. QED BY <3>1 DEF Surjection
  <2>5. ExistsBijection(Polled, DOMAIN open)
    BY <2>3, <2>4 DEF ExistsBijection, Bijection
  <2>6. IsFiniteSet(Polled)
    <3>1. Polled = 1..(nfds - 1) /\ nfds \in Nat
      BY Sizes DEF SlotsHoldOpen, Polled
    <3>. QED BY <3>1, FS_Interval
  <2>7. Cardinality(Polled) = Cardinality(DOMAIN open)
    BY <2>5, <2>6, FS_Bijection
  <2>. QED BY <2>2, <2>7
<1>. QED BY <1>1, Invariant, PTL

\* No step closes the connection of a client that stays and sends what invoke
\* executes, whatever the slots have been moved to since poll looked at them.
THEOREM DroppedCorrect == Spec => OnlyLeaversDropped
<1> DEFINE May(fd) == \/ mishap'
                      \/ peer[open[fd]] # "up"
                      \/ request = "bad" /\ fd = slots[i].fd
           Step == \A fd \in DOMAIN open \ DOMAIN open' : May(fd)
<1> SUFFICES Spec => [][Step]_vars
  BY DEF OnlyLeaversDropped
<1>1. IInv /\ [Next]_vars => [Step]_vars
  <2> SUFFICES ASSUME IInv, Next, ~mishap' PROVE Step
    OBVIOUS
  <2>0. TypeOK /\ InStep /\ TestsHold /\ LoopTyped /\ TableTyped
    BY TypeParts DEF IInv
  <2>1. ASSUME open' = open
        PROVE  Step
    BY <2>1
  <2>2. CASE ClientStep \/ Poll \/ EndRound \/ NothingToRead \/ Receive \/ ReceiveNothing
             \/ ReceiveKills \/ InvokeReturns \/ Answer \/ AnswerKills
    <3>1. open' = open
      BY <2>2 DEF ClientStep, Connect, Send, Leave, Resets, Poll, Polls, EndRound, NothingToRead,
                  Receive, ReceiveNothing, ReceiveKills, InvokeReturns, Answer, AnswerKills,
                  serverVars, table
    <3>. QED BY <2>1, <3>1
  <2>3. CASE Accept
    <3>1. DOMAIN open \subseteq DOMAIN open'
      BY <2>3 DEF Accept
    <3>. QED BY <3>1
  <2>4. ASSUME Remove(i), i \in Polled, ~mishap, ~TableFull
        PROVE  DOMAIN open \ DOMAIN open' = {slots[i].fd}
    <3>1. SlotsHoldOpen
      BY <2>0, <2>4 DEF InStep
    <3>2. DOMAIN open' = DOMAIN open \ {slots[i].fd}
      BY <2>0, <2>4, <3>1, RemoveFacts
    <3>. QED BY <2>4, <3>1, <3>2 DEF SlotsHoldOpen, Polled
  <2>5. CASE ReceiveFails \/ Reject
    <3>1. Remove(i) /\ ~mishap /\ ~TableFull
      BY <2>5 DEF ReceiveFails, Reject
    <3>2. i \in Polled
      BY <2>0, <2>5, Sizes
         DEF ReceiveFails, Reject, Readable, Serving, TestsHold, LoopTyped, TableTyped, Polled
    <3>3. IsOpen(slots[i].fd)
      BY <2>0, <3>1, <3>2 DEF InStep, SlotsHoldOpen, Polled, IsOpen
    <3>4. May(slots[i].fd)
      BY <2>5, <3>3 DEF ReceiveFails, Reject, Peer
    <3>. QED BY <2>4, <3>1, <3>2, <3>4
  <2>6. CASE HangUp
    <3>1. CASE "HUP" \in slots[i].revents
      <4>1. Remove(i) /\ ~mishap /\ ~TableFull /\ ~(i >= nfds) /\ i \in Slots
        BY <2>0, <2>6, <3>1 DEF HangUp, TestsHold
      <4>2. i \in Polled
        BY <2>0, <4>1, Sizes DEF TableTyped, Polled
      <4>3. peer[open[slots[i].fd]] = "reset"
        BY <2>0, <3>1, <4>1, <4>2 DEF InStep, HangUpIsTrue
      <4>. QED BY <2>4, <4>1, <4>2, <4>3
    <3>2. CASE "HUP" \notin slots[i].revents
      <4>1. open' = open
        BY <2>6, <3>2 DEF HangUp, table
      <4>. QED BY <2>1, <4>1
    <3>. QED BY <3>1, <3>2
  <2>. QED BY <2>2, <2>3, <2>5, <2>6 DEF Next, Loop
<1>. QED BY <1>1, Invariant, PTL DEF Spec

-----------------------------------------------------------------------------
(* Roles. *)

RolesInv == RolesTypeOK /\ NodesOwned /\ OnePrimary

\* The conditions of tree_skel_init lead to other steps of it.
LEMMA ChecksType ==
  ASSUME NEW step \in DOMAIN Checks
  PROVE  /\ step \in InitSteps \ {"watch"}
         /\ Checks[step].found \in InitSteps
         /\ Checks[step].missing \in InitSteps
<1>1. step \in {"both_primary", "both_backup", "none_primary", "none_backup", "one_primary", "one_backup"}
  BY DEF Checks
<1>2. CASE step = "both_primary" BY <1>2 DEF Checks, InitSteps
<1>3. CASE step = "both_backup" BY <1>3 DEF Checks, InitSteps
<1>4. CASE step = "none_primary" BY <1>4 DEF Checks, InitSteps
<1>5. CASE step = "none_backup" BY <1>5 DEF Checks, InitSteps
<1>6. CASE step = "one_primary" BY <1>6 DEF Checks, InitSteps
<1>7. CASE step = "one_backup" BY <1>7 DEF Checks, InitSteps
<1>. QED BY <1>1, <1>2, <1>3, <1>4, <1>5, <1>6, <1>7

-----------------------------------------------------------------------------
(* Types of the roles. *)

\* The parts that several actions share.
LEMMA DieType ==
  ASSUME RolesTypeOK, NEW p \in Procs, Die(p)
  PROVE  /\ mpc' \in [Procs -> {"off", "run", "dead"} \cup InitSteps]
         /\ wpc' \in [Procs -> {"idle", "delete_backup", "promote", "get_backup"}]
         /\ \A q \in Procs : wpc'[q] # "idle" => mpc'[q] = "run"
BY DEF RolesTypeOK, Die

LEMMA SetNodeType ==
  ASSUME RolesTypeOK, NEW role \in Roles, NEW owner \in Procs \cup {None}, SetNode(role, owner)
  PROVE  /\ node' \in [Roles -> Procs \cup {None}]
         /\ watch' \in [Procs -> {"none", "set", "fired"}]
BY DEF RolesTypeOK, SetNode, Notify

LEMMA MissedType ==
  ASSUME RolesTypeOK
  PROVE  MissedByWatchless \in [Procs -> BOOLEAN]
<1>1. \A q \in Procs : (missed[q] \/ mpc[q] = "watch") \in BOOLEAN
  OBVIOUS
<1>. QED BY <1>1, Zenon DEF MissedByWatchless

LEMMA LookType ==
  ASSUME RolesTypeOK, NEW p \in Procs, Look(p)
  PROVE  /\ watch' \in [Procs -> {"none", "set", "fired"}]
         /\ missed' \in [Procs -> BOOLEAN]
BY DEF RolesTypeOK, Look

\* No step leaves the types.
LEMMA NextRolesTypeOK ==
  ASSUME RolesTypeOK, NEW p \in Procs,
         Start(p) \/ TreeSkelInit(p) \/ ChildWatcher(p) \/ Crash(p) \/ EndSession(p)
  PROVE  RolesTypeOK'
<1>1. CASE Start(p)
  BY <1>1 DEF Start, RolesTypeOK, InitSteps
<1>2. CASE ExistsRoot(p)
  BY <1>2 DEF ExistsRoot, RolesTypeOK, InitSteps, Checks
<1>3. CASE CreateRoot(p)
  BY <1>3, DieType DEF CreateRoot, RolesTypeOK, InitSteps
<1>4. CASE Check(p)
  <2>1. mpc[p] \in DOMAIN Checks
    BY <1>4 DEF Check
  <2>2. PICK step \in InitSteps : mpc' = [mpc EXCEPT ![p] = step]
    BY <1>4, <2>1, ChecksType DEF Check
  <2>3. wpc[p] = "idle"
    BY <2>1, ChecksType DEF RolesTypeOK, InitSteps, Checks
  <2>. QED BY <1>4, <2>2, <2>3 DEF Check, RolesTypeOK
<1>5. CASE Exit(p)
  BY <1>5, DieType DEF Exit, RolesTypeOK
<1>6. ASSUME NEW role \in Roles, Create(p, role) PROVE RolesTypeOK'
  <2>1. CASE node[role] = None
    <3>1. SetNode(role, p)
      BY <1>6, <2>1 DEF Create
    <3>2. /\ node' \in [Roles -> Procs \cup {None}]
          /\ watch' \in [Procs -> {"none", "set", "fired"}]
      BY <3>1, SetNodeType
    <3>3. ChecksStillHold(role) \in BOOLEAN
      BY DEF ChecksStillHold
    <3>4. missed' \in [Procs -> BOOLEAN]
      BY <1>6, <2>1, <3>3, MissedType DEF Create
    <3>5. wpc[p] = "idle"
      BY <1>6 DEF Create, RolesTypeOK, Roles
    <3>6. /\ mpc' = [mpc EXCEPT ![p] = "watch"]
          /\ currentPath' = [currentPath EXCEPT ![p] = role]
          /\ UNCHANGED <<root, session, wpc, rtreeBack>>
      BY <1>6, <2>1 DEF Create
    <3>7. /\ mpc' \in [Procs -> {"off", "run", "dead"} \cup InitSteps]
          /\ currentPath' \in [Procs -> Roles \cup {None}]
      BY <3>6 DEF RolesTypeOK, InitSteps
    <3>8. \A q \in Procs : wpc'[q] # "idle" => mpc'[q] = "run"
      BY <3>5, <3>6 DEF RolesTypeOK
    <3>. QED BY <3>2, <3>4, <3>6, <3>7, <3>8 DEF RolesTypeOK
  <2>2. CASE node[role] # None
    BY <1>6, <2>2, DieType DEF Create, RolesTypeOK
  <2>. QED BY <2>1, <2>2
<1>7. CASE SetWatch(p)
  BY <1>7 DEF SetWatch, RolesTypeOK
<1>8. CASE SeesBackupAlone(p)
  BY <1>8, LookType DEF SeesBackupAlone, Fired, RolesTypeOK
<1>9. CASE PrimarySeesBoth(p)
  BY <1>9, LookType DEF PrimarySeesBoth, Fired, RolesTypeOK
<1>10. CASE PrimarySeesItself(p)
  BY <1>10, LookType DEF PrimarySeesItself, RolesTypeOK
<1>11. CASE SeesNothingToDo(p)
  BY <1>11, LookType DEF SeesNothingToDo, RolesTypeOK
<1>12. CASE RolelessCrashes(p)
  BY <1>12, LookType, DieType DEF RolelessCrashes, RolesTypeOK
<1>13. CASE DeleteBackup(p)
  <2>1. /\ node' \in [Roles -> Procs \cup {None}]
        /\ watch' \in [Procs -> {"none", "set", "fired"}]
    BY <1>13, SetNodeType DEF DeleteBackup, RolesTypeOK, Roles
  <2>2. missed' \in [Procs -> BOOLEAN]
    BY <1>13, MissedType DEF DeleteBackup, NodesChange, RolesTypeOK
  <2>. QED BY <1>13, <2>1, <2>2 DEF DeleteBackup, RolesTypeOK
<1>14. CASE Promote(p)
  <2>1. CASE node["primary"] = None
    <3>1. SetNode("primary", p) /\ NodesChange
      BY <1>14, <2>1 DEF Promote
    <3>2. /\ node' \in [Roles -> Procs \cup {None}]
          /\ watch' \in [Procs -> {"none", "set", "fired"}]
      BY <3>1, SetNodeType DEF Roles
    <3>3. missed' \in [Procs -> BOOLEAN]
      BY <3>1, MissedType DEF NodesChange
    <3>4. /\ wpc' = [wpc EXCEPT ![p] = "idle"]
          /\ currentPath' = [currentPath EXCEPT ![p] = "primary"]
          /\ rtreeBack' = [rtreeBack EXCEPT ![p] = None]
          /\ UNCHANGED <<root, session, mpc>>
      BY <1>14, <2>1 DEF Promote
    <3>5. /\ wpc' \in [Procs -> {"idle", "delete_backup", "promote", "get_backup"}]
          /\ \A q \in Procs : wpc'[q] # "idle" => mpc'[q] = "run"
      BY <3>4 DEF RolesTypeOK
    <3>6. /\ currentPath' \in [Procs -> Roles \cup {None}]
          /\ rtreeBack' \in [Procs -> Procs \cup {None, "unreachable"}]
      BY <3>4 DEF RolesTypeOK, Roles
    <3>. QED BY <3>2, <3>3, <3>4, <3>5, <3>6 DEF RolesTypeOK
  <2>2. CASE node["primary"] # None
    BY <1>14, <2>2, DieType DEF Promote, RolesTypeOK
  <2>. QED BY <2>1, <2>2
<1>15. CASE GetBackup(p)
  <2>1. rtreeBack' \in [Procs -> Procs \cup {None, "unreachable"}]
    BY <1>15 DEF GetBackup, RolesTypeOK, Roles
  <2>. QED BY <1>15, <2>1, DieType DEF GetBackup, RolesTypeOK
<1>16. CASE Crash(p)
  BY <1>16, DieType DEF Crash, RolesTypeOK
<1>17. CASE EndSession(p)
  <2>1. node' \in [Roles -> Procs \cup {None}]
    BY <1>17 DEF EndSession, WithoutNodesOf, RolesTypeOK
  <2>2. watch' \in [Procs -> {"none", "set", "fired"}]
    BY <1>17 DEF EndSession, Notify, RolesTypeOK
  <2>3. missed' \in [Procs -> BOOLEAN]
    BY <1>17, MissedType DEF EndSession, NodesChange, RolesTypeOK
  <2>. QED BY <1>17, <2>1, <2>2, <2>3 DEF EndSession, RolesTypeOK
<1>. QED
  BY <1>1, <1>2, <1>3, <1>4, <1>5, <1>6, <1>7, <1>8, <1>9, <1>10, <1>11, <1>12,
     <1>13, <1>14, <1>15, <1>16, <1>17 DEF TreeSkelInit, ChildWatcher

-----------------------------------------------------------------------------
(* Ownership. *)

Owned == NodesOwned /\ OnePrimary

\* A step that leaves the nodes, the sessions and the roles alone disturbs nothing
\* if the server that takes it is in session and does not go back to a step before
\* its own node.
LEMMA QuietStep ==
  ASSUME RolesInv, NEW p \in Procs,
         UNCHANGED <<node, session, currentPath>>,
         \A q \in Procs \ {p} : mpc'[q] = mpc[q] /\ wpc'[q] = wpc[q] /\ watch'[q] = watch[q],
         mpc'[p] \in InitSteps \/ watch'[p] # "none" \/ wpc'[p] # "idle" => session[p],
         mpc'[p] # "off",
         mpc'[p] \in InitSteps \ {"watch"} => mpc[p] \in InitSteps \ {"watch"},
         wpc'[p] = "promote" => wpc[p] = "promote"
  PROVE  Owned'
<1>1. InSession'
  BY DEF RolesInv, NodesOwned, InSession
<1>2. OwnersInSession' /\ NotItsOwnBackup' /\ OnePrimary'
  BY DEF RolesInv, NodesOwned, OwnersInSession, NotItsOwnBackup, OnePrimary
<1>3. OwnsNothingYet'
  BY DEF RolesInv, NodesOwned, OwnsNothingYet
<1>. QED BY <1>1, <1>2, <1>3 DEF Owned, NodesOwned

\* A server that dies keeps its nodes until its session ends.
LEMMA DeathIsQuiet ==
  ASSUME RolesInv, NEW p \in Procs, Die(p), UNCHANGED <<node, session, currentPath>>,
         \/ UNCHANGED watch
         \/ Look(p) /\ session[p]
  PROVE  Owned'
<1>1. /\ mpc'[p] = "dead" /\ wpc'[p] = "idle"
      /\ \A q \in Procs \ {p} : mpc'[q] = mpc[q] /\ wpc'[q] = wpc[q] /\ watch'[q] = watch[q]
  BY DEF Die, Look, RolesInv, RolesTypeOK
<1>2. watch'[p] # "none" => session[p]
  BY DEF RolesInv, NodesOwned, InSession
<1>3. "dead" \notin InitSteps
  BY DEF InitSteps, Checks
<1>. QED BY <1>1, <1>2, <1>3, QuietStep

\* No step of a server breaks the ownership of the nodes.
LEMMA NextOwned ==
  ASSUME RolesInv, RolesTypeOK', NEW p \in Procs,
         Start(p) \/ TreeSkelInit(p) \/ ChildWatcher(p) \/ Crash(p) \/ EndSession(p)
  PROVE  Owned'
<1>a. /\ "off" \notin InitSteps /\ "run" \notin InitSteps /\ "dead" \notin InitSteps
      /\ {"exists_root", "create_root", "create_primary", "create_backup", "exit"} \subseteq InitSteps \ {"watch"}
      /\ "watch" \in InitSteps /\ "both_primary" \in InitSteps \ {"watch"}
  BY DEF InitSteps, Checks
<1>b. Fired(p) => session[p] /\ mpc[p] = "run"
  BY DEF Fired, RolesInv, NodesOwned, InSession
<1>c. mpc[p] \in InitSteps \/ wpc[p] # "idle" => session[p]
  BY DEF RolesInv, NodesOwned, InSession
<1>1. CASE Start(p)
  <2>1. /\ mpc[p] = "off" /\ mpc'[p] \in {"exists_root", "run"}
        /\ mpc'[p] = "exists_root" => session'[p]
        /\ session[p] => session'[p]
        /\ \A q \in Procs \ {p} : mpc'[q] = mpc[q] /\ session'[q] = session[q]
    BY <1>1 DEF Start, RolesInv, RolesTypeOK
  <2>2. UNCHANGED <<node, watch, wpc, currentPath>>
    BY <1>1 DEF Start
  <2>3. InSession'
    BY <2>1, <2>2, <1>a DEF RolesInv, NodesOwned, InSession
  <2>4. OwnersInSession' /\ NotItsOwnBackup'
    BY <2>1, <2>2 DEF RolesInv, RolesTypeOK, NodesOwned, OwnersInSession, NotItsOwnBackup
  <2>5. OwnsNothingYet'
    BY <2>1, <2>2, <1>a DEF RolesInv, NodesOwned, OwnsNothingYet
  <2>6. OnePrimary'
    BY <2>1, <2>2 DEF RolesInv, NodesOwned, OwnsNothingYet, OnePrimary, None
  <2>. QED BY <2>3, <2>4, <2>5, <2>6 DEF Owned, NodesOwned
<1>2. CASE ExistsRoot(p)
  BY <1>2, <1>a, <1>c, QuietStep DEF ExistsRoot, RolesInv, RolesTypeOK
<1>3. CASE CreateRoot(p)
  <2>1. CASE root BY <1>3, <2>1, DeathIsQuiet DEF CreateRoot
  <2>2. CASE ~root BY <1>3, <2>2, <1>a, <1>c, QuietStep DEF CreateRoot, RolesInv, RolesTypeOK
  <2>. QED BY <2>1, <2>2
<1>4. CASE Check(p)
  <2>1. PICK step \in InitSteps : mpc' = [mpc EXCEPT ![p] = step]
    BY <1>4, ChecksType DEF Check
  <2>2. mpc[p] \in InitSteps \ {"watch"}
    BY <1>4, ChecksType DEF Check
  <2>. QED BY <1>4, <2>1, <2>2, <1>a, <1>c, QuietStep DEF Check, RolesInv, RolesTypeOK
<1>5. CASE Exit(p)
  BY <1>5, DeathIsQuiet DEF Exit
<1>6. ASSUME NEW role \in Roles, Create(p, role) PROVE Owned'
  <2>1. CASE node[role] = None
    <3>1. node' = [node EXCEPT ![role] = p] /\ UNCHANGED <<session, wpc>>
      BY <1>6, <2>1 DEF Create, SetNode
    <3>2. session[p] /\ wpc[p] = "idle" /\ node["primary"] # p /\ node["backup"] # p
      BY <1>6, <1>a, <1>c DEF Create, RolesInv, RolesTypeOK, NodesOwned, OwnsNothingYet, Roles
    <3>3. /\ mpc' = [mpc EXCEPT ![p] = "watch"]
          /\ currentPath' = [currentPath EXCEPT ![p] = role]
          /\ \A q \in Procs : watch'[q] # "none" => watch[q] # "none"
      BY <1>6, <2>1 DEF Create, SetNode, Notify
    <3>4. InSession' /\ OwnersInSession'
      BY <3>1, <3>2, <3>3 DEF RolesInv, RolesTypeOK, NodesOwned, InSession, OwnersInSession
    <3>5. NotItsOwnBackup'
      BY <3>1, <3>2, ProcsAssumption DEF RolesInv, RolesTypeOK, NodesOwned, NotItsOwnBackup, Roles
    <3>6. OwnsNothingYet'
      BY <3>1, <3>2, <3>3, <1>a DEF RolesInv, RolesTypeOK, NodesOwned, OwnsNothingYet, Roles
    <3>7. OnePrimary'
      BY <2>1, <3>1, <3>3, ProcsAssumption DEF RolesInv, RolesTypeOK, OnePrimary, Roles
    <3>. QED BY <3>4, <3>5, <3>6, <3>7 DEF Owned, NodesOwned
  <2>2. CASE node[role] # None
    BY <1>6, <2>2, DeathIsQuiet DEF Create
  <2>. QED BY <2>1, <2>2
<1>7. CASE SetWatch(p)
  BY <1>7, <1>a, <1>c, QuietStep DEF SetWatch, RolesInv, RolesTypeOK
<1>8. CASE SeesBackupAlone(p)
  BY <1>8, <1>b, QuietStep DEF SeesBackupAlone, Look, RolesInv, RolesTypeOK
<1>9. CASE PrimarySeesBoth(p)
  BY <1>9, <1>b, QuietStep DEF PrimarySeesBoth, Look, RolesInv, RolesTypeOK
<1>10. CASE PrimarySeesItself(p)
  BY <1>10, <1>b, QuietStep DEF PrimarySeesItself, Look, RolesInv, RolesTypeOK
<1>11. CASE SeesNothingToDo(p)
  BY <1>11, <1>b, QuietStep DEF SeesNothingToDo, Look, RolesInv, RolesTypeOK
<1>12. CASE RolelessCrashes(p)
  BY <1>12, <1>b, DeathIsQuiet DEF RolelessCrashes
<1>13. CASE DeleteBackup(p)
  <2>1. /\ node' = [node EXCEPT !["backup"] = None]
        /\ \A q \in Procs : watch'[q] # "none" => watch[q] # "none"
    BY <1>13 DEF DeleteBackup, SetNode, Notify, RolesInv, RolesTypeOK, Roles
  <2>2. /\ wpc' = [wpc EXCEPT ![p] = "promote"] /\ wpc[p] = "delete_backup"
        /\ UNCHANGED <<session, mpc, currentPath>>
    BY <1>13 DEF DeleteBackup
  <2>3. InSession' /\ OwnersInSession'
    BY <2>1, <2>2 DEF RolesInv, RolesTypeOK, NodesOwned, InSession, OwnersInSession
  <2>4. NotItsOwnBackup' /\ OnePrimary'
    BY <2>1, <2>2, ProcsAssumption DEF RolesInv, RolesTypeOK, NodesOwned, NotItsOwnBackup, OnePrimary, Roles
  <2>5. OwnsNothingYet'
    BY <2>1, <2>2, ProcsAssumption DEF RolesInv, RolesTypeOK, NodesOwned, OwnsNothingYet, Roles
  <2>. QED BY <2>3, <2>4, <2>5 DEF Owned, NodesOwned
<1>14. CASE Promote(p)
  <2>1. CASE node["primary"] = None
    <3>1. node' = [node EXCEPT !["primary"] = p] /\ UNCHANGED <<session, mpc>>
      BY <1>14, <2>1 DEF Promote, SetNode
    <3>2. session[p] /\ node["backup"] # p /\ mpc[p] = "run"
      BY <1>14, <1>c DEF Promote, RolesInv, RolesTypeOK, NodesOwned, OwnsNothingYet
    <3>3. /\ wpc' = [wpc EXCEPT ![p] = "idle"]
          /\ currentPath' = [currentPath EXCEPT ![p] = "primary"]
          /\ \A q \in Procs : watch'[q] # "none" => watch[q] # "none"
      BY <1>14, <2>1 DEF Promote, SetNode, Notify
    <3>4. InSession' /\ OwnersInSession'
      BY <3>1, <3>2, <3>3 DEF RolesInv, RolesTypeOK, NodesOwned, InSession, OwnersInSession
    <3>5. NotItsOwnBackup'
      BY <3>1, <3>2 DEF RolesInv, RolesTypeOK, NodesOwned, NotItsOwnBackup, Roles
    <3>6. OwnsNothingYet'
      BY <3>1, <3>2, <3>3, <1>a DEF RolesInv, RolesTypeOK, NodesOwned, OwnsNothingYet, Roles
    <3>7. OnePrimary'
      BY <2>1, <3>1, <3>3, ProcsAssumption DEF RolesInv, RolesTypeOK, OnePrimary, Roles
    <3>. QED BY <3>4, <3>5, <3>6, <3>7 DEF Owned, NodesOwned
  <2>2. CASE node["primary"] # None
    BY <1>14, <2>2, DeathIsQuiet DEF Promote
  <2>. QED BY <2>1, <2>2
<1>15. CASE GetBackup(p)
  <2>1. CASE Die(p) BY <1>15, <2>1, DeathIsQuiet DEF GetBackup
  <2>2. CASE ~Die(p)
    BY <1>15, <2>2, <1>c, QuietStep DEF GetBackup, RolesInv, RolesTypeOK
  <2>. QED BY <2>1, <2>2
<1>16. CASE Crash(p)
  BY <1>16, DeathIsQuiet DEF Crash
<1>17. CASE EndSession(p)
  <2>1. /\ session' = [session EXCEPT ![p] = FALSE]
        /\ mpc[p] \in {"dead", "run"} /\ wpc[p] = "idle"
        /\ UNCHANGED <<mpc, wpc, currentPath>>
    BY <1>17 DEF EndSession, RolesInv, RolesTypeOK
  <2>2. \A role \in Roles : node'[role] = IF node[role] = p THEN None ELSE node[role]
    BY <1>17 DEF EndSession, WithoutNodesOf
  <2>3. watch'[p] = "none" /\ \A q \in Procs : watch'[q] # "none" => watch[q] # "none"
    BY <1>17 DEF EndSession, Notify, RolesInv, RolesTypeOK
  <2>4. InSession' /\ OwnersInSession'
    BY <2>1, <2>2, <2>3, <1>a DEF RolesInv, RolesTypeOK, NodesOwned, InSession, OwnersInSession
  <2>5. NotItsOwnBackup' /\ OwnsNothingYet'
    BY <2>1, <2>2, ProcsAssumption DEF RolesInv, RolesTypeOK, NodesOwned, NotItsOwnBackup, OwnsNothingYet, Roles
  <2>6. OnePrimary'
    BY <2>1, <2>2 DEF RolesInv, RolesTypeOK, OnePrimary, Roles
  <2>. QED BY <2>4, <2>5, <2>6 DEF Owned, NodesOwned
<1>. QED
  BY <1>1, <1>2, <1>3, <1>4, <1>5, <1>6, <1>7, <1>8, <1>9, <1>10, <1>11, <1>12,
     <1>13, <1>14, <1>15, <1>16, <1>17 DEF TreeSkelInit, ChildWatcher

-----------------------------------------------------------------------------
(* The invariant of the roles, and the theorems. *)

\* RolesInv holds at every step.
LEMMA RolesInvAlways == RolesSpec => []RolesInv
<1>1. RolesInit => RolesInv
  <2>. SUFFICES ASSUME RolesInit PROVE RolesInv
    OBVIOUS
  <2>1. RolesTypeOK
    BY DEF RolesInit, RolesTypeOK, Roles
  <2>2. InSession
    BY DEF RolesInit, InSession, InitSteps, Checks
  <2>3. OwnersInSession /\ OnePrimary
    BY DEF RolesInit, OwnersInSession, OnePrimary, Roles
  <2>4. NotItsOwnBackup /\ OwnsNothingYet
    BY ProcsAssumption DEF RolesInit, NotItsOwnBackup, OwnsNothingYet, Roles
  <2>. QED BY <2>1, <2>2, <2>3, <2>4 DEF RolesInv, NodesOwned
<1>2. RolesInv /\ [RolesNext]_rolesVars => RolesInv'
  <2>. SUFFICES ASSUME RolesInv, [RolesNext]_rolesVars PROVE RolesInv'
    OBVIOUS
  <2>1. CASE RolesNext
    BY <2>1, NextRolesTypeOK, NextOwned DEF RolesNext, RolesInv, Owned
  <2>2. CASE UNCHANGED rolesVars
    BY <2>2 DEF rolesVars, RolesInv, RolesTypeOK, NodesOwned, InSession, OwnersInSession, NotItsOwnBackup, OwnsNothingYet, OnePrimary
  <2>. QED BY <2>1, <2>2
<1>. QED BY <1>1, <1>2, PTL DEF RolesSpec

\* Every variable of the servers and of ZooKeeper stays in its type.
THEOREM RolesTypeCorrect == RolesSpec => []RolesTypeOK
BY RolesInvAlways, PTL DEF RolesInv

\* The nodes are owned by servers in session, and a server that promotes itself
\* (tree_skel.c:72-74) is never its own backup.
THEOREM OwnershipCorrect == RolesSpec => []NodesOwned
BY RolesInvAlways, PTL DEF RolesInv

\* A server in session that has set currentPath to the primary's path owns the
\* primary's node, whatever the order of the checks and creations of the others.
THEOREM PrimaryOwnsNode == RolesSpec => []OnePrimary
BY RolesInvAlways, PTL DEF RolesInv
=============================================================================
