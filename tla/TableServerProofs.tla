------------------------- MODULE TableServerProofs -------------------------
(***************************************************************************)
(* Theorems about TableServer, for any number of clients and of requests,  *)
(* tables of any sizes and keys with any sums of characters.               *)
(*                                                                         *)
(* A chain is defined by a recursive walk.  What holds along it is proved  *)
(* from the least step at which it would not (Smallest, Climb), and that   *)
(* it ends from numbers that fall along it (Falls): a new entry gets the   *)
(* lowest, whichever chain it is put at the end of.                        *)
(***************************************************************************)
EXTENDS TableServer, TLAPS, FiniteSetTheorems, WellFoundedInduction, NaturalsInduction

-----------------------------------------------------------------------------
(* Least elements. *)

LEMMA Smallest ==
  ASSUME NEW S, S \subseteq Nat, S # {}
  PROVE  \E f \in S : \A g \in S : f <= g
<1> DEFINE R == {p \in Nat \X Nat : p[1] < p[2]}
<1>1. IsWellFoundedOn(R, Nat)
  BY NatLessThanWellFounded DEF OpToRel
<1>2. PICK f \in S : \A g \in S : ~(<<g, f>> \in R)
  BY <1>1, WFMin
<1>3. ASSUME NEW g \in S, g < f
      PROVE  FALSE
  <2>1. <<g, f>> \in Nat \X Nat /\ <<g, f>>[1] = g /\ <<g, f>>[2] = f
    OBVIOUS
  <2>2. <<g, f>> \in R
    BY <1>3, <2>1
  <2>. QED BY <1>2, <2>2
<1>. QED BY <1>3

-----------------------------------------------------------------------------
(* The walk along a chain. *)

\* The slot after j along the chain, or j at the end of it.
NextOf(t, j) == IF t.ary[j].next = NULL THEN j ELSE t.ary[j].next

\* f is the walk from i as far as m steps.
WalksTo(f, t, i, m) == f = [n \in 0..m |-> IF n = 0 THEN i ELSE NextOf(t, f[n - 1])]

LEMMA WalkExists ==
  ASSUME NEW t, NEW i, NEW m \in Nat
  PROVE  \E f : WalksTo(f, t, i, m)
<1> DEFINE Bad == {n \in Nat : ~\E f : WalksTo(f, t, i, n)}
<1>1. SUFFICES ASSUME Bad # {} PROVE FALSE
  OBVIOUS
<1>2. PICK b \in Bad : \A g \in Bad : b <= g
  BY <1>1, Smallest
<1>3. CASE b = 0
  <2>1. WalksTo([n \in 0..0 |-> i], t, i, 0)
    BY DEF WalksTo
  <2>. QED BY <1>2, <1>3, <2>1
<1>4. CASE b # 0
  <2>1. b - 1 \in Nat /\ b - 1 \notin Bad
    BY <1>2, <1>4
  <2>2. PICK f : WalksTo(f, t, i, b - 1)
    BY <2>1
  <2> DEFINE g == [n \in 0..b |-> IF n = 0 THEN i ELSE NextOf(t, f[n - 1])]
  <2>3. ASSUME NEW n \in 0..b, n # 0 PROVE g[n - 1] = f[n - 1]
    <3>1. n - 1 \in 0..(b - 1) /\ n - 1 \in 0..b
      BY <2>1, <2>3
    <3>2. f[n - 1] = IF n - 1 = 0 THEN i ELSE NextOf(t, f[(n - 1) - 1])
      BY <2>2, <3>1 DEF WalksTo
    <3>3. g[n - 1] = IF n - 1 = 0 THEN i ELSE NextOf(t, f[(n - 1) - 1])
      BY <3>1
    <3>. QED BY <3>2, <3>3
  <2>4. g = [n \in 0..b |-> IF n = 0 THEN i ELSE NextOf(t, g[n - 1])]
    BY <2>3
  <2>5. WalksTo(g, t, i, b)
    BY <2>4 DEF WalksTo
  <2>. QED BY <2>5
<1>. QED BY <1>3, <1>4

LEMMA WalkFacts ==
  ASSUME NEW t, NEW i, t.size \in Nat
  PROVE  /\ Walk(t, i)[0] = i
         /\ \A n \in 1..t.size : Walk(t, i)[n] = NextOf(t, Walk(t, i)[n - 1])
<1> DEFINE f == Walk(t, i)
<1>1. f = CHOOSE at : at = [n \in 0..t.size |-> IF n = 0 THEN i
                              ELSE IF t.ary[at[n - 1]].next = NULL THEN at[n - 1]
                              ELSE t.ary[at[n - 1]].next]
  BY DEF Walk
<1>2. f = CHOOSE at : WalksTo(at, t, i, t.size)
  BY <1>1 DEF WalksTo, NextOf
<1>3. WalksTo(f, t, i, t.size)
  BY <1>2, WalkExists
<1> HIDE DEF f
<1>4. f[0] = i
  BY <1>3 DEF WalksTo
<1>5. ASSUME NEW n \in 1..t.size PROVE f[n] = NextOf(t, f[n - 1])
  BY <1>3 DEF WalksTo
<1>. QED BY <1>4, <1>5 DEF f

LEMMA Climb ==
  ASSUME NEW m \in Nat, NEW S, 0 \in S, \A n \in 0..(m - 1) : n \in S => n + 1 \in S
  PROVE  \A n \in 0..m : n \in S
<1> DEFINE Bad == {n \in 0..m : n \notin S}
<1>1. SUFFICES ASSUME Bad # {} PROVE FALSE
  OBVIOUS
<1>2. PICK b \in Bad : \A g \in Bad : b <= g
  <2>1. Bad \subseteq Nat
    OBVIOUS
  <2>. QED BY <1>1, <2>1, Smallest
<1>3. b \in 0..m /\ b \notin S /\ b # 0
  BY <1>2
<1>4. b - 1 \in 0..(m - 1) /\ b - 1 \in 0..m /\ (b - 1) + 1 = b /\ ~(b <= b - 1)
  BY <1>3
<1>5. b - 1 \in S
  BY <1>2, <1>4
<1>. QED BY <1>3, <1>4, <1>5

-----------------------------------------------------------------------------
(* Chains without circles. *)

\* The entries of a chain can be given numbers that fall along it.
Falls(t, depth) ==
  /\ depth \in [InUse(t) -> Nat]
  /\ \A i \in InUse(t) :
       /\ depth[i] < t.numElem
       /\ t.ary[i].next # NULL => depth[t.ary[i].next] < depth[i]

Shaped(t) ==
  /\ t.size \in Nat /\ t.numElem \in 0..t.size
  /\ InUse(t) \subseteq Slots(t)
  /\ \A i \in InUse(t) : t.ary[i].next \in InUse(t) \cup {NULL}
  /\ \E depth : Falls(t, depth)

LEMMA NullNotInUse == \A t : Shaped(t) => NULL \notin InUse(t)
BY DEF Shaped, Slots, NULL

LEMMA ChainSteps ==
  ASSUME NEW t, Shaped(t), NEW i \in InUse(t)
  PROVE  \A n \in 0..t.size : Walk(t, i)[n] \in InUse(t)
<1> DEFINE w == Walk(t, i)
           S == {n \in 0..t.size : w[n] \in InUse(t)}
<1>1. t.size \in Nat
  BY DEF Shaped
<1>2. w[0] = i /\ \A n \in 1..t.size : w[n] = NextOf(t, w[n - 1])
  BY <1>1, WalkFacts
<1> HIDE DEF w
<1>3. 0 \in S
  BY <1>1, <1>2
<1>4. ASSUME NEW n \in 0..(t.size - 1), n \in S PROVE n + 1 \in S
  <2>1. n + 1 \in 1..t.size /\ n + 1 \in 0..t.size /\ (n + 1) - 1 = n
    BY <1>1
  <2>2. w[n + 1] = NextOf(t, w[n])
    BY <1>2, <2>1
  <2>3. NextOf(t, w[n]) \in InUse(t)
    BY <1>4 DEF NextOf, Shaped
  <2>. QED BY <2>1, <2>2, <2>3
<1>5. \A n \in 0..t.size : n \in S
  <2> HIDE DEF S
  <2>. QED BY <1>1, <1>3, <1>4, Climb
<1>. QED BY <1>5 DEF w

LEMMA ChainEnds ==
  ASSUME NEW t, Shaped(t), NEW i \in InUse(t)
  PROVE  t.ary[LastOf(t, i)].next = NULL
<1> DEFINE w == Walk(t, i)
<1>1. t.size \in Nat /\ t.numElem \in 0..t.size
  BY DEF Shaped
<1>2. w[0] = i /\ \A n \in 1..t.size : w[n] = NextOf(t, w[n - 1])
  BY <1>1, WalkFacts
<1>3. \A n \in 0..t.size : w[n] \in InUse(t)
  BY ChainSteps
<1> HIDE DEF w
<1>4. PICK depth : Falls(t, depth)
  BY DEF Shaped
<1>5. depth[i] \in Nat /\ depth[i] < t.size
  BY <1>1, <1>4 DEF Falls
<1> DEFINE S == {n \in 0..t.size : t.ary[w[n]].next = NULL \/ depth[w[n]] + n <= depth[i]}
<1>6. 0 \in S
  BY <1>1, <1>2, <1>5
<1>7. ASSUME NEW n \in 0..(t.size - 1), n \in S PROVE n + 1 \in S
  <2>1. n + 1 \in 1..t.size /\ n + 1 \in 0..t.size /\ (n + 1) - 1 = n /\ n \in 0..t.size
    BY <1>1
  <2>2. w[n + 1] = NextOf(t, w[n])
    BY <1>2, <2>1
  <2>3. CASE t.ary[w[n]].next = NULL
    BY <2>1, <2>2, <2>3 DEF NextOf
  <2>4. CASE t.ary[w[n]].next # NULL
    <3>1. w[n + 1] = t.ary[w[n]].next
      BY <2>2, <2>4 DEF NextOf
    <3>2. w[n] \in InUse(t) /\ w[n + 1] \in InUse(t)
      BY <1>3, <2>1
    <3>3. depth[w[n + 1]] < depth[w[n]] /\ depth[w[n + 1]] \in Nat /\ depth[w[n]] \in Nat
      BY <1>4, <2>4, <3>1, <3>2 DEF Falls
    <3>4. depth[w[n]] + n <= depth[i]
      BY <1>7, <2>4
    <3>5. depth[w[n + 1]] + (n + 1) <= depth[i]
      BY <1>1, <1>5, <3>3, <3>4
    <3>. QED BY <2>1, <3>5
  <2>. QED BY <2>3, <2>4
<1>8. t.size \in S
  <2>1. t.size \in 0..t.size
    BY <1>1
  <2> HIDE DEF S
  <2>. QED BY <1>1, <1>6, <1>7, <2>1, Climb
<1>9. w[t.size] \in InUse(t)
  BY <1>1, <1>3
<1>10. depth[w[t.size]] \in Nat
  BY <1>4, <1>9 DEF Falls
<1>11. t.ary[w[t.size]].next = NULL
  BY <1>1, <1>5, <1>8, <1>10
<1>. QED BY <1>11 DEF LastOf, w

\* A chain begins where it should, and goes on wherever an entry has a next.
LEMMA ChainGoesOn ==
  ASSUME NEW t, Shaped(t), NEW i \in InUse(t)
  PROVE  /\ i \in Chain(t, i)
         /\ Chain(t, i) \subseteq InUse(t)
         /\ \A j \in Chain(t, i) : t.ary[j].next # NULL => t.ary[j].next \in Chain(t, i)
         /\ LastOf(t, i) \in Chain(t, i)
<1> DEFINE w == Walk(t, i)
<1>1. t.size \in Nat
  BY DEF Shaped
<1>2. w[0] = i /\ \A n \in 1..t.size : w[n] = NextOf(t, w[n - 1])
  BY <1>1, WalkFacts
<1>3. \A n \in 0..t.size : w[n] \in InUse(t)
  BY ChainSteps
<1>4. Chain(t, i) = {w[n] : n \in 0..t.size} /\ LastOf(t, i) = w[t.size]
  BY DEF Chain, LastOf
<1>5. t.ary[w[t.size]].next = NULL
  BY <1>4, ChainEnds
<1> HIDE DEF w
<1>6. ASSUME NEW j \in Chain(t, i), t.ary[j].next # NULL
      PROVE  t.ary[j].next \in Chain(t, i)
  <2>1. PICK n \in 0..t.size : j = w[n]
    BY <1>4
  <2>2. n # t.size
    BY <1>5, <1>6, <2>1
  <2>3. n + 1 \in 1..t.size /\ n + 1 \in 0..t.size /\ (n + 1) - 1 = n
    BY <1>1, <2>2
  <2>4. w[n + 1] = t.ary[j].next
    BY <1>2, <1>6, <2>1, <2>3 DEF NextOf
  <2>. QED BY <1>4, <2>3, <2>4
<1>7. 0 \in 0..t.size /\ t.size \in 0..t.size
  BY <1>1
<1>. QED BY <1>2, <1>3, <1>4, <1>6, <1>7

\* A chain leads to nothing else than following the entries does.
LEMMA ChainWithin ==
  ASSUME NEW t, t.size \in Nat, NEW i, NEW S, i \in S,
         \A j \in S : t.ary[j].next # NULL => t.ary[j].next \in S
  PROVE  Chain(t, i) \subseteq S
<1> DEFINE w == Walk(t, i)
           N == {n \in 0..t.size : w[n] \in S}
<1>1. w[0] = i /\ \A n \in 1..t.size : w[n] = NextOf(t, w[n - 1])
  BY WalkFacts
<1> HIDE DEF w
<1>2. 0 \in N
  BY <1>1
<1>3. ASSUME NEW n \in 0..(t.size - 1), n \in N PROVE n + 1 \in N
  <2>1. n + 1 \in 1..t.size /\ n + 1 \in 0..t.size /\ (n + 1) - 1 = n
    OBVIOUS
  <2>2. w[n + 1] = NextOf(t, w[n])
    BY <1>1, <2>1
  <2>3. NextOf(t, w[n]) \in S
    BY <1>3 DEF NextOf
  <2>. QED BY <2>1, <2>2, <2>3
<1>4. \A n \in 0..t.size : n \in N
  <2> HIDE DEF N
  <2>. QED BY <1>2, <1>3, Climb
<1>. QED BY <1>4 DEF Chain, w

\* Only the last entry of a chain has no next.
LEMMA OneEnd ==
  ASSUME NEW t, Shaped(t), NEW i \in InUse(t), NEW j \in Chain(t, i), t.ary[j].next = NULL
  PROVE  j = LastOf(t, i)
<1> DEFINE w == Walk(t, i)
<1>1. t.size \in Nat
  BY DEF Shaped
<1>2. \A n \in 1..t.size : w[n] = NextOf(t, w[n - 1])
  BY <1>1, WalkFacts
<1>3. PICK n \in 0..t.size : j = w[n]
  BY DEF Chain
<1> HIDE DEF w
<1> DEFINE S == {m \in 0..t.size : m < n \/ w[m] = j}
<1>4. 0 \in S
  BY <1>1, <1>3
<1>5. ASSUME NEW m \in 0..(t.size - 1), m \in S PROVE m + 1 \in S
  <2>1. m + 1 \in 1..t.size /\ m + 1 \in 0..t.size /\ (m + 1) - 1 = m
    BY <1>1
  <2>2. w[m + 1] = NextOf(t, w[m])
    BY <1>2, <2>1
  <2>3. CASE m < n
    <3>1. m + 1 < n \/ m + 1 = n
      BY <1>1, <2>3
    <3>. QED BY <1>3, <2>1, <3>1
  <2>4. CASE w[m] = j
    BY <2>1, <2>2, <2>4 DEF NextOf
  <2>. QED BY <1>5, <2>3, <2>4
<1>6. t.size \in S
  <2>1. t.size \in 0..t.size
    BY <1>1
  <2> HIDE DEF S
  <2>. QED BY <1>1, <1>4, <1>5, <2>1, Climb
<1>7. w[t.size] = j
  BY <1>1, <1>3, <1>6
<1>. QED BY <1>7 DEF LastOf, w

\* A table that keeps the entries of another, and their order, keeps the chains.
LEMMA ChainsKept ==
  ASSUME NEW t, Shaped(t), NEW u, Shaped(u), InUse(t) \subseteq InUse(u),
         \A j \in InUse(t) : u.ary[j].next = t.ary[j].next,
         NEW i \in InUse(t)
  PROVE  Chain(u, i) = Chain(t, i)
<1>1. t.size \in Nat /\ u.size \in Nat
  BY DEF Shaped
<1>2. Chain(t, i) \subseteq InUse(t) /\ i \in Chain(t, i) /\ i \in Chain(u, i)
  BY ChainGoesOn
<1>3. \A j \in Chain(t, i) : u.ary[j].next # NULL => u.ary[j].next \in Chain(t, i)
  BY <1>2, ChainGoesOn
<1>4. Chain(u, i) \subseteq Chain(t, i)
  BY <1>1, <1>2, <1>3, ChainWithin
<1>5. \A j \in Chain(u, i) : t.ary[j].next # NULL => t.ary[j].next \in Chain(u, i)
  BY <1>2, <1>4, ChainGoesOn
<1>6. Chain(t, i) \subseteq Chain(u, i)
  BY <1>1, <1>2, <1>5, ChainWithin
<1>. QED BY <1>4, <1>6

-----------------------------------------------------------------------------
(* A table that gets one more entry. *)

\* u is t with an entry in the free slot new, to which the slot last leads, if any.
Grows(t, u, new, last, key, value) ==
  /\ u.size = t.size /\ u.numElem = t.numElem + 1
  /\ new \in Slots(t) \ InUse(t)
  /\ InUse(u) = InUse(t) \cup {new}
  /\ u.ary[new] = Entry(key, value)
  /\ \A i \in InUse(t) : /\ u.ary[i].key = t.ary[i].key
                         /\ u.ary[i].value = t.ary[i].value
                         /\ u.ary[i].next = IF i = last THEN new ELSE t.ary[i].next
  /\ last \in InUse(t) \cup {NULL}
  /\ last # NULL => t.ary[last].next = NULL

LEMMA GrownShaped ==
  ASSUME NEW t, NEW u, NEW new, NEW last, NEW key, NEW value,
         Shaped(t), Grows(t, u, new, last, key, value), t.numElem # t.size
  PROVE  Shaped(u)
<1>1. u.size \in Nat /\ u.numElem \in 0..u.size
  BY DEF Shaped, Grows
<1>2. InUse(u) \subseteq Slots(u)
  BY DEF Shaped, Grows, Slots
<1>3. u.ary[new].next = NULL
  BY DEF Grows, Entry
<1>4. \A i \in InUse(u) : u.ary[i].next \in InUse(u) \cup {NULL}
  BY <1>3 DEF Shaped, Grows
<1>5. PICK depth : Falls(t, depth)
  BY DEF Shaped
<1> DEFINE deeper == [i \in InUse(u) |-> IF i = new THEN 0 ELSE depth[i] + 1]
<1>6. new \notin InUse(t) /\ InUse(u) = InUse(t) \cup {new}
  BY DEF Grows
<1>7. \A i \in InUse(t) : depth[i] \in Nat /\ depth[i] < t.numElem
  BY <1>5 DEF Falls
<1>8. deeper[new] = 0 /\ \A i \in InUse(t) : deeper[i] = depth[i] + 1
  BY <1>6
<1>9. deeper \in [InUse(u) -> Nat]
  BY <1>6, <1>7
<1>10. u.numElem = t.numElem + 1 /\ t.numElem \in Nat
  BY DEF Grows, Shaped
<1> HIDE DEF deeper
<1>11. ASSUME NEW i \in InUse(u) PROVE deeper[i] < u.numElem
  BY <1>6, <1>7, <1>8, <1>10
<1>12. ASSUME NEW i \in InUse(u), u.ary[i].next # NULL
       PROVE  deeper[u.ary[i].next] < deeper[i]
  <2>1. i \in InUse(t)
    BY <1>3, <1>6, <1>12
  <2>2. CASE i = last
    <3>1. u.ary[i].next = new
      BY <2>1, <2>2 DEF Grows
    <3>. QED BY <1>7, <1>8, <2>1, <3>1
  <2>3. CASE i # last
    <3>1. u.ary[i].next = t.ary[i].next
      BY <2>1, <2>3 DEF Grows
    <3>2. t.ary[i].next \in InUse(t) /\ depth[t.ary[i].next] < depth[i]
      BY <1>5, <1>12, <2>1, <3>1 DEF Falls, Shaped
    <3>. QED BY <1>7, <1>8, <2>1, <3>1, <3>2
  <2>. QED BY <2>2, <2>3
<1>13. Falls(u, deeper)
  BY <1>9, <1>11, <1>12 DEF Falls
<1>. QED BY <1>1, <1>2, <1>4, <1>13 DEF Shaped

LEMMA GrownChains ==
  ASSUME NEW t, NEW u, NEW new, NEW last, NEW key, NEW value,
         Shaped(t), Grows(t, u, new, last, key, value), t.numElem # t.size,
         NEW i \in InUse(t)
  PROVE  /\ Chain(t, i) \subseteq Chain(u, i)
         /\ Chain(u, i) \subseteq Chain(t, i) \cup {new}
         /\ last \in Chain(t, i) => new \in Chain(u, i)
<1>1. Shaped(u) /\ t.size \in Nat /\ u.size \in Nat
  BY GrownShaped DEF Shaped
<1>2. InUse(u) = InUse(t) \cup {new} /\ u.ary[new].next = NULL
  BY DEF Grows, Entry
<1>3. i \in InUse(u)
  BY <1>2
<1>4. /\ i \in Chain(t, i) /\ Chain(t, i) \subseteq InUse(t)
      /\ \A j \in Chain(t, i) : t.ary[j].next # NULL => t.ary[j].next \in Chain(t, i)
  BY ChainGoesOn
<1>5. /\ i \in Chain(u, i)
      /\ \A j \in Chain(u, i) : u.ary[j].next # NULL => u.ary[j].next \in Chain(u, i)
  BY <1>1, <1>3, ChainGoesOn
<1>6. Chain(u, i) \subseteq Chain(t, i) \cup {new}
  <2> DEFINE S == Chain(t, i) \cup {new}
  <2>1. ASSUME NEW j \in S, u.ary[j].next # NULL PROVE u.ary[j].next \in S
    <3>1. j \in Chain(t, i)
      BY <1>2, <2>1
    <3>2. u.ary[j].next = IF j = last THEN new ELSE t.ary[j].next
      BY <1>4, <3>1 DEF Grows
    <3>. QED BY <1>4, <2>1, <3>1, <3>2
  <2> HIDE DEF S
  <2>2. i \in S
    BY <1>4 DEF S
  <2>3. Chain(u, i) \subseteq S
    BY <1>1, <2>1, <2>2, ChainWithin
  <2>. QED BY <2>3 DEF S
<1>7. Chain(t, i) \subseteq Chain(u, i)
  <2> DEFINE S == Chain(u, i) \cap InUse(t)
  <2>1. ASSUME NEW j \in S, t.ary[j].next # NULL PROVE t.ary[j].next \in S
    <3>1. NULL \notin InUse(t)
      BY NullNotInUse
    <3>2. j # last
      BY <2>1, <3>1 DEF Grows
    <3>3. u.ary[j].next = t.ary[j].next
      BY <3>2 DEF Grows
    <3>4. t.ary[j].next \in InUse(t)
      BY <2>1 DEF Shaped
    <3>. QED BY <1>5, <2>1, <3>3, <3>4
  <2> HIDE DEF S
  <2>2. i \in S
    BY <1>5 DEF S
  <2>3. Chain(t, i) \subseteq S
    BY <1>1, <2>1, <2>2, ChainWithin
  <2>. QED BY <2>3 DEF S
<1>8. ASSUME last \in Chain(t, i) PROVE new \in Chain(u, i)
  <2>1. u.ary[last].next = new
    BY <1>4, <1>8 DEF Grows
  <2>2. new # NULL
    BY DEF Grows, Slots, NULL
  <2>. QED BY <1>5, <1>7, <1>8, <2>1, <2>2
<1>. QED BY <1>6, <1>7, <1>8

\* Every key is found, where it is, from its own slot.
Finds(t) == \A i \in InUse(t) : Found(t, t.ary[i].key) = {i}

LEMMA GrownFinds ==
  ASSUME NEW t, NEW u, NEW new, NEW last, NEW key, NEW value,
         Shaped(t), Grows(t, u, new, last, key, value), t.numElem # t.size,
         Finds(t), Found(t, key) = {},
         IF Home(t, key) \in InUse(t) THEN last \in Chain(t, Home(t, key)) ELSE new = Home(t, key)
  PROVE  Finds(u)
<1>1. Shaped(u)
  BY GrownShaped
<1>2. InUse(u) = InUse(t) \cup {new} /\ u.ary[new].next = NULL /\ u.ary[new].key = key
  BY DEF Grows, Entry
<1>3. \A k : Home(u, k) = Home(t, k)
  BY DEF Home, Grows
<1>4. ASSUME NEW i \in InUse(t) PROVE t.ary[i].key # key
  BY DEF Finds
<1>5. ASSUME NEW i \in InUse(t) PROVE Found(u, u.ary[i].key) = {i}
  <2> DEFINE k == t.ary[i].key
  <2>1. u.ary[i].key = k /\ k # key
    BY <1>4 DEF Grows
  <2>2. Found(t, k) = {i}
    BY DEF Finds
  <2> HIDE DEF k
  <2>3. Home(t, k) \in InUse(t) /\ {i} = {j \in Chain(t, Home(t, k)) : t.ary[j].key = k}
    BY <2>2 DEF Found
  <2> DEFINE h == Home(t, k)
  <2>4. Chain(t, h) \subseteq Chain(u, h) /\ Chain(u, h) \subseteq Chain(t, h) \cup {new}
    BY <2>3, GrownChains
  <2>5. Chain(t, h) \subseteq InUse(t)
    BY <2>3, ChainGoesOn
  <2>6. \A j \in Chain(t, h) : u.ary[j].key = t.ary[j].key
    BY <2>5 DEF Grows
  <2>7. {j \in Chain(u, h) : u.ary[j].key = k} = {i}
    BY <1>2, <2>1, <2>3, <2>4, <2>6
  <2>8. Found(u, k) = {j \in Chain(u, h) : u.ary[j].key = k}
    BY <1>2, <1>3, <2>3 DEF Found
  <2>. QED BY <2>1, <2>7, <2>8
<1>6. Found(u, key) = {new}
  <2> DEFINE h == Home(t, key)
  <2>1. CASE h \in InUse(t)
    <3>1. /\ Chain(u, h) \subseteq Chain(t, h) \cup {new} /\ new \in Chain(u, h)
          /\ Chain(t, h) \subseteq InUse(t)
      BY <2>1, GrownChains, ChainGoesOn
    <3>2. \A j \in Chain(t, h) : u.ary[j].key # key
      BY <1>4, <3>1 DEF Grows
    <3>3. Found(u, key) = {j \in Chain(u, h) : u.ary[j].key = key}
      BY <1>2, <1>3, <2>1 DEF Found
    <3>. QED BY <1>2, <3>1, <3>2, <3>3
  <2>2. CASE h \notin InUse(t)
    <3>1. h = new /\ new \in InUse(u) /\ u.size \in Nat
      BY <1>1, <1>2, <2>2 DEF Shaped
    <3>2. Chain(u, new) \subseteq {new}
      BY <1>2, <3>1, ChainWithin
    <3>3. new \in Chain(u, new)
      BY <1>1, <3>1, ChainGoesOn
    <3>4. Found(u, key) = {j \in Chain(u, new) : u.ary[j].key = key}
      BY <1>3, <3>1 DEF Found
    <3>. QED BY <1>2, <3>2, <3>3, <3>4
  <2>. QED BY <2>1, <2>2
<1>7. ASSUME NEW i \in InUse(u) PROVE Found(u, u.ary[i].key) = {i}
  BY <1>2, <1>5, <1>6
<1>. QED BY <1>7 DEF Finds

-----------------------------------------------------------------------------
(* The counters. *)

Strays(t) == {i \in InUse(t) : Home(t, t.ary[i].key) # i}

Counts(t) == t.numElem = Cardinality(InUse(t)) /\ t.numCol = Cardinality(Strays(t))

LEMMA SlotsCounted ==
  ASSUME NEW t, t.size \in Nat, InUse(t) \subseteq Slots(t)
  PROVE  /\ IsFiniteSet(Slots(t)) /\ Cardinality(Slots(t)) = t.size
         /\ IsFiniteSet(InUse(t)) /\ Cardinality(InUse(t)) \in 0..t.size
         /\ Cardinality(InUse(t)) = t.size => InUse(t) = Slots(t)
         /\ IsFiniteSet(Strays(t)) /\ Cardinality(Strays(t)) \in 0..t.size
<1>1. 0 \in Int /\ t.size - 1 \in Int
  OBVIOUS
<1>2. /\ IsFiniteSet(0..(t.size - 1))
      /\ Cardinality(0..(t.size - 1)) = IF 0 > t.size - 1 THEN 0 ELSE (t.size - 1) - 0 + 1
  BY <1>1, FS_Interval
<1>3. IsFiniteSet(Slots(t)) /\ Cardinality(Slots(t)) = t.size
  BY <1>2 DEF Slots
<1>4. Strays(t) \subseteq Slots(t)
  BY DEF Strays
<1>5. /\ IsFiniteSet(InUse(t)) /\ Cardinality(InUse(t)) <= t.size
      /\ Cardinality(InUse(t)) = t.size => InUse(t) = Slots(t)
  BY <1>3, FS_Subset
<1>6. IsFiniteSet(Strays(t)) /\ Cardinality(Strays(t)) <= t.size
  BY <1>3, <1>4, FS_Subset
<1>7. Cardinality(InUse(t)) \in Nat /\ Cardinality(Strays(t)) \in Nat
  BY <1>5, <1>6, FS_CardinalityType
<1>. QED BY <1>3, <1>5, <1>6, <1>7

LEMMA Largest ==
  ASSUME NEW m \in Nat, NEW S, S \subseteq 0..m, S # {}
  PROVE  \E i \in S : \A j \in S : j <= i
<1> DEFINE D == {m - n : n \in S}
<1>1. D \subseteq Nat /\ D # {}
  <2>1. \A n \in S : m - n \in Nat
    OBVIOUS
  <2>. QED BY <2>1
<1>2. PICK f \in D : \A g \in D : f <= g
  <2> HIDE DEF D
  <2>. QED BY <1>1, Smallest
<1>3. PICK i \in S : f = m - i
  OBVIOUS
<1>4. \A j \in S : m - i <= m - j
  BY <1>2, <1>3
<1>. QED BY <1>4

LEMMA FreeSlot ==
  ASSUME NEW t, t.size \in Nat, InUse(t) \subseteq Slots(t),
         t.numElem = Cardinality(InUse(t)), t.numElem # t.size
  PROVE  HighestFree(t) \in Slots(t) \ InUse(t)
<1> DEFINE S == Slots(t) \ InUse(t)
<1>1. S # {}
  <2>1. InUse(t) # Slots(t)
    BY SlotsCounted
  <2>. QED BY <2>1
<1>2. S \subseteq 0..t.size
  BY DEF Slots
<1>3. \E i \in S : \A j \in S : j <= i
  <2> HIDE DEF S
  <2>. QED BY <1>1, <1>2, Largest
<1>. QED BY <1>3 DEF HighestFree

LEMMA GrownCounts ==
  ASSUME NEW t, NEW u, NEW new, NEW last, NEW key, NEW value,
         Shaped(t), Grows(t, u, new, last, key, value), Counts(t),
         u.numCol = IF new = Home(t, key) THEN t.numCol ELSE t.numCol + 1
  PROVE  Counts(u)
<1>1. t.size \in Nat /\ InUse(t) \subseteq Slots(t)
  BY DEF Shaped
<1>2. IsFiniteSet(InUse(t)) /\ IsFiniteSet(Strays(t))
  BY <1>1, SlotsCounted
<1>3. InUse(u) = InUse(t) \cup {new} /\ new \notin InUse(t)
  BY DEF Grows
<1>4. Cardinality(InUse(u)) = Cardinality(InUse(t)) + 1
  BY <1>2, <1>3, FS_AddElement
<1>5. \A k : Home(u, k) = Home(t, k)
  BY DEF Home, Grows
<1>6. u.ary[new].key = key /\ \A i \in InUse(t) : u.ary[i].key = t.ary[i].key
  BY DEF Grows, Entry
<1>7. Strays(u) = IF new = Home(t, key) THEN Strays(t) ELSE Strays(t) \cup {new}
  BY <1>3, <1>5, <1>6 DEF Strays
<1>8. new \notin Strays(t)
  BY <1>3 DEF Strays
<1>9. Cardinality(Strays(t) \cup {new}) = Cardinality(Strays(t)) + 1
  BY <1>2, <1>8, FS_AddElement
<1>10. u.numCol = Cardinality(Strays(u))
  BY <1>7, <1>9 DEF Counts
<1>11. u.numElem = Cardinality(InUse(u))
  BY <1>4 DEF Counts, Grows
<1>. QED BY <1>10, <1>11 DEF Counts

-----------------------------------------------------------------------------
(* What holds of every table of the server. *)

Record(t) ==
  t = [size |-> t.size, ary |-> t.ary, numElem |-> t.numElem, numCol |-> t.numCol]

Entries(size) == [key : Keys, value : Values, next : 0..(size - 1) \cup {NULL}]

Sound(t, size) ==
  /\ Record(t) /\ t.size = size
  /\ \A i \in InUse(t) : t.ary[i] \in Entries(size)
  /\ Shaped(t) /\ Finds(t) /\ Counts(t)

LEMMA SoundMeans ==
  ASSUME NEW t, NEW size, Sound(t, size)
  PROVE  TableType(t, size) /\ Linked(t)
<1>1. t.size = size /\ size \in Nat /\ InUse(t) \subseteq Slots(t)
  BY DEF Sound, Shaped
<1>2. t.numElem \in 0..size /\ t.numCol \in 0..size
  BY <1>1, SlotsCounted DEF Sound, Counts
<1>3. \A i \in InUse(t) : t.ary[i] \in [key : Keys, value : Values, next : Slots(t) \cup {NULL}]
  BY <1>1 DEF Sound, Entries, Slots
<1>4. TableType(t, size)
  BY <1>1, <1>2, <1>3 DEF TableType
<1>5. \A i \in InUse(t) : t.ary[LastOf(t, i)].next = NULL
  BY ChainEnds DEF Sound
<1>6. Linked(t)
  BY <1>5 DEF Linked, Sound, Shaped, Finds, Counts, Strays
<1>. QED BY <1>4, <1>6

LEMMA HomeIsSlot ==
  ASSUME NEW t, t.size \in Nat \ {0}, NEW key \in Keys, ~Outside(t, key)
  PROVE  Home(t, key) \in Slots(t)
<1>1. key[1] \in Int
  BY KeysAssumption
<1>2. CASE key[1] >= 0
  BY <1>1, <1>2 DEF Home, hash, Slots
<1>3. CASE ~(key[1] >= 0)
  <2>1. Home(t, key) = -((-key[1]) % t.size) /\ (-key[1]) % t.size \in 0..(t.size - 1)
    BY <1>1, <1>3 DEF Home, hash
  <2>2. ~(Home(t, key) < 0)
    BY DEF Outside
  <2>. QED BY <2>1, <2>2 DEF Slots
<1>. QED BY <1>2, <1>3

LEMMA CreateSound ==
  ASSUME NEW size \in Nat
  PROVE  Sound(table_create(size), size)
<1> DEFINE t == table_create(size)
<1>1. /\ t.size = size /\ t.numElem = 0 /\ t.numCol = 0
      /\ t.ary = [i \in {} |-> NULL] /\ Record(t)
  BY DEF table_create, Record
<1> HIDE DEF t
<1>2. InUse(t) = {} /\ Strays(t) = {}
  BY <1>1 DEF InUse, Strays
<1>3. Counts(t)
  BY <1>1, <1>2, FS_EmptySet DEF Counts
<1>4. Falls(t, [i \in {} |-> 0])
  BY <1>2 DEF Falls
<1>5. Shaped(t)
  BY <1>1, <1>2, <1>4 DEF Shaped
<1>. QED BY <1>1, <1>2, <1>3, <1>5 DEF Sound, Finds, t

\* table_put to a free slot of the key's own.
LEMMA AtHomeGrows ==
  ASSUME NEW t, NEW size \in Nat \ {0}, Sound(t, size), NEW key \in Keys, NEW value,
         ~Outside(t, key), Home(t, key) \notin InUse(t)
  PROVE  /\ Grows(t, AtHome(t, key, value), Home(t, key), NULL, key, value)
         /\ Record(AtHome(t, key, value))
         /\ AtHome(t, key, value).numCol = t.numCol
         /\ \A i \in InUse(t) : AtHome(t, key, value).ary[i] = t.ary[i]
<1> DEFINE u == AtHome(t, key, value)
           h == Home(t, key)
           a == [i \in InUse(t) \cup {h} |-> IF i = h THEN Entry(key, value) ELSE t.ary[i]]
<1>1. u = [t EXCEPT !.ary = a, !.numElem = @ + 1]
  BY DEF AtHome
<1>2. Record(t)
  BY DEF Sound
<1> HIDE DEF u, a
<1>3. u = [size |-> t.size, ary |-> a, numElem |-> t.numElem + 1, numCol |-> t.numCol]
  BY <1>1, <1>2 DEF Record
<1>4. Record(u) /\ u.size = t.size /\ u.ary = a /\ u.numElem = t.numElem + 1 /\ u.numCol = t.numCol
  BY <1>3 DEF Record
<1>5. h \in Slots(t) \ InUse(t)
  BY HomeIsSlot DEF Sound
<1> HIDE DEF h
<1>6. InUse(u) = InUse(t) \cup {h} /\ a[h] = Entry(key, value)
      /\ \A i \in InUse(t) : a[i] = t.ary[i]
  BY <1>4, <1>5 DEF InUse, a
<1>7. NULL \notin InUse(t)
  BY NullNotInUse DEF Sound
<1>8. Grows(t, u, h, NULL, key, value)
  BY <1>4, <1>5, <1>6, <1>7 DEF Grows
<1>. QED BY <1>4, <1>6, <1>8 DEF u, h

\* table_put of a key whose slot is taken.
LEMMA CollidingGrows ==
  ASSUME NEW t, NEW size \in Nat \ {0}, Sound(t, size), NEW key, NEW value,
         Home(t, key) \in InUse(t), t.numElem # t.size
  PROVE  /\ Grows(t, Colliding(t, key, value), HighestFree(t), LastOf(t, Home(t, key)), key, value)
         /\ Record(Colliding(t, key, value))
         /\ Colliding(t, key, value).numCol = t.numCol + 1
         /\ \A i \in InUse(t) :
              Colliding(t, key, value).ary[i] \in {t.ary[i], [t.ary[i] EXCEPT !.next = HighestFree(t)]}
<1> DEFINE u == Colliding(t, key, value)
           new == HighestFree(t)
           last == LastOf(t, Home(t, key))
           a == [i \in InUse(t) \cup {new} |->
                   IF i = new THEN Entry(key, value)
                   ELSE IF i = last THEN [t.ary[i] EXCEPT !.next = new]
                   ELSE t.ary[i]]
<1>1. u = [t EXCEPT !.ary = a, !.numElem = @ + 1, !.numCol = @ + 1]
  BY DEF Colliding
<1>2. Record(t)
  BY DEF Sound
<1> HIDE DEF u, a
<1>3. u = [size |-> t.size, ary |-> a, numElem |-> t.numElem + 1, numCol |-> t.numCol + 1]
  BY <1>1, <1>2 DEF Record
<1>4. /\ Record(u) /\ u.size = t.size /\ u.ary = a
      /\ u.numElem = t.numElem + 1 /\ u.numCol = t.numCol + 1
  BY <1>3 DEF Record
<1>5. new \in Slots(t) \ InUse(t)
  BY FreeSlot DEF Sound, Shaped, Counts
<1>6. last \in InUse(t) /\ t.ary[last].next = NULL
  BY ChainGoesOn, ChainEnds DEF Sound
<1> HIDE DEF new, last
<1>7. InUse(u) = InUse(t) \cup {new} /\ a[new] = Entry(key, value)
      /\ \A i \in InUse(t) : a[i] = IF i = last THEN [t.ary[i] EXCEPT !.next = new] ELSE t.ary[i]
  BY <1>4, <1>5 DEF InUse, a
<1>8. ASSUME NEW i \in InUse(t)
      PROVE  /\ a[i].key = t.ary[i].key /\ a[i].value = t.ary[i].value
             /\ a[i].next = IF i = last THEN new ELSE t.ary[i].next
             /\ a[i] \in {t.ary[i], [t.ary[i] EXCEPT !.next = new]}
  <2>1. t.ary[i] \in Entries(size)
    BY DEF Sound
  <2>. QED BY <1>7, <2>1 DEF Entries
<1>9. Grows(t, u, new, last, key, value)
  BY <1>4, <1>5, <1>6, <1>7, <1>8 DEF Grows
<1>. QED BY <1>4, <1>8, <1>9 DEF u, new, last

\* What any accepted put does to the slots.
LEMMA PutGrows ==
  ASSUME NEW t, NEW size \in Nat \ {0}, Sound(t, size), NEW key \in Keys, NEW value \in Values,
         Accepts(t, key), ~Outside(t, key)
  PROVE  /\ Sound(table_put(t, key, value), size)
         /\ \E new, last : Grows(t, table_put(t, key, value), new, last, key, value)
<1> DEFINE u == table_put(t, key, value)
           h == Home(t, key)
           new == IF h \in InUse(t) THEN HighestFree(t) ELSE h
           last == IF h \in InUse(t) THEN LastOf(t, h) ELSE NULL
<1>1. t.numElem # t.size /\ Found(t, key) = {}
  BY DEF Accepts
<1>2. u = IF h \in InUse(t) THEN Colliding(t, key, value) ELSE AtHome(t, key, value)
  BY DEF table_put
<1> HIDE DEF u
<1>3. /\ Grows(t, u, new, last, key, value) /\ Record(u)
      /\ u.numCol = IF new = h THEN t.numCol ELSE t.numCol + 1
      /\ \A i \in InUse(t) : u.ary[i] \in {t.ary[i], [t.ary[i] EXCEPT !.next = new]}
  <2>1. CASE h \in InUse(t)
    <3>1. HighestFree(t) \notin InUse(t)
      BY <1>1, FreeSlot DEF Sound, Shaped, Counts
    <3>. QED BY <1>1, <1>2, <2>1, <3>1, CollidingGrows
  <2>2. CASE h \notin InUse(t)
    BY <1>2, <2>2, AtHomeGrows
  <2>. QED BY <2>1, <2>2
<1>4. IF h \in InUse(t) THEN last \in Chain(t, h) ELSE new = h
  BY ChainGoesOn DEF Sound
<1> HIDE DEF new, last
<1>5. Shaped(u)
  BY <1>1, <1>3, GrownShaped DEF Sound
<1>6. Finds(u)
  BY <1>1, <1>3, <1>4, GrownFinds DEF Sound
<1>7. Counts(u)
  BY <1>3, GrownCounts DEF Sound
<1>8. u.size = size /\ new \in 0..(size - 1)
  BY <1>3 DEF Grows, Sound, Slots
<1>9. ASSUME NEW i \in InUse(u) PROVE u.ary[i] \in Entries(size)
  <2>1. CASE i = new
    <3>1. u.ary[i] = [key |-> key, value |-> value, next |-> NULL]
      BY <1>3, <2>1 DEF Grows, Entry
    <3>. QED BY <3>1 DEF Entries
  <2>2. CASE i \in InUse(t)
    <3>1. t.ary[i] \in Entries(size)
      BY <2>2 DEF Sound
    <3>2. [t.ary[i] EXCEPT !.next = new] \in Entries(size)
      BY <1>8, <3>1 DEF Entries
    <3>. QED BY <1>3, <2>2, <3>1, <3>2
  <2>. QED BY <1>3, <2>1, <2>2 DEF Grows
<1>10. Sound(u, size)
  BY <1>3, <1>5, <1>6, <1>7, <1>8, <1>9 DEF Sound
<1>. QED BY <1>3, <1>10 DEF u

-----------------------------------------------------------------------------
(* An update. *)

LEMMA UpdateKeepsLinks ==
  ASSUME NEW t, NEW size \in Nat \ {0}, Sound(t, size), NEW key \in Keys, NEW value \in Values
  PROVE  LET u == table_update(t, key, value)
         IN  /\ Sound(u, size)
             /\ InUse(u) = InUse(t)
             /\ \A i \in InUse(t) :
                  /\ u.ary[i].key = t.ary[i].key
                  /\ u.ary[i].value = IF i \in Found(t, key) THEN value ELSE t.ary[i].value
<1> DEFINE u == table_update(t, key, value)
           a == [i \in InUse(t) |-> IF i \in Found(t, key)
                                    THEN [t.ary[i] EXCEPT !.value = value]
                                    ELSE t.ary[i]]
<1>1. u = [t EXCEPT !.ary = a]
  BY DEF table_update
<1>2. Record(t)
  BY DEF Sound
<1> HIDE DEF u, a
<1>3. u = [size |-> t.size, ary |-> a, numElem |-> t.numElem, numCol |-> t.numCol]
  BY <1>1, <1>2 DEF Record
<1>4. /\ Record(u) /\ u.size = t.size /\ u.ary = a
      /\ u.numElem = t.numElem /\ u.numCol = t.numCol
  BY <1>3 DEF Record
<1>5. InUse(u) = InUse(t)
  BY <1>4 DEF InUse, a
<1>6. ASSUME NEW i \in InUse(t)
      PROVE  /\ u.ary[i] \in Entries(size)
             /\ u.ary[i].key = t.ary[i].key /\ u.ary[i].next = t.ary[i].next
             /\ u.ary[i].value = IF i \in Found(t, key) THEN value ELSE t.ary[i].value
  <2>1. t.ary[i] \in Entries(size)
    BY DEF Sound
  <2>2. u.ary[i] = IF i \in Found(t, key) THEN [t.ary[i] EXCEPT !.value = value] ELSE t.ary[i]
    BY <1>4 DEF a
  <2>. QED BY <2>1, <2>2 DEF Entries
<1>7. \A depth : Falls(t, depth) => Falls(u, depth)
  BY <1>4, <1>5, <1>6 DEF Falls
<1>8. Shaped(t)
  BY DEF Sound
<1>9. Shaped(u)
  BY <1>4, <1>5, <1>6, <1>7, <1>8 DEF Shaped, Slots
<1>10. \A i \in InUse(t) : Chain(u, i) = Chain(t, i)
  BY <1>5, <1>6, <1>8, <1>9, ChainsKept
<1>11. \A k : Home(u, k) = Home(t, k)
  BY <1>4 DEF Home
<1>12. ASSUME NEW i \in InUse(t) PROVE Found(u, u.ary[i].key) = {i}
  <2> DEFINE k == t.ary[i].key
             h == Home(t, k)
  <2>1. Found(t, k) = {i}
    BY DEF Sound, Finds
  <2>2. h \in InUse(t) /\ Found(t, k) = {j \in Chain(t, h) : t.ary[j].key = k}
    BY <2>1 DEF Found
  <2>3. Chain(t, h) \subseteq InUse(t)
    BY <1>8, <2>2, ChainGoesOn
  <2>4. {j \in Chain(u, h) : u.ary[j].key = k} = {i}
    BY <1>6, <1>10, <2>1, <2>2, <2>3
  <2>5. Found(u, k) = {j \in Chain(u, h) : u.ary[j].key = k}
    BY <1>5, <1>11, <2>2 DEF Found
  <2>. QED BY <1>6, <2>4, <2>5
<1>13. Finds(u)
  BY <1>5, <1>12 DEF Finds
<1>14. Strays(u) = Strays(t)
  BY <1>5, <1>6, <1>11 DEF Strays
<1>15. Counts(u)
  BY <1>4, <1>5, <1>14 DEF Counts, Sound
<1>16. Sound(u, size)
  BY <1>4, <1>5, <1>6, <1>9, <1>13, <1>15 DEF Sound
<1>. QED BY <1>5, <1>6, <1>16 DEF u

-----------------------------------------------------------------------------
(* What is in a table. *)

LEMMA ContentsMeans ==
  ASSUME NEW t, Shaped(t), Finds(t)
  PROVE  /\ DOMAIN Contents(t) = table_get_keys(t)
         /\ \A i \in InUse(t) : /\ t.ary[i].key \in table_get_keys(t)
                               /\ Contents(t)[t.ary[i].key] = t.ary[i].value
         /\ \A k \in table_get_keys(t) : \E i \in InUse(t) : t.ary[i].key = k
         /\ Cardinality(DOMAIN Contents(t)) = Cardinality(InUse(t))
<1>1. DOMAIN Contents(t) = table_get_keys(t)
  BY DEF Contents
<1>2. \A i, j \in InUse(t) : t.ary[i].key = t.ary[j].key => i = j
  BY DEF Finds
<1>3. \A i \in InUse(t) : t.ary[i].key \in table_get_keys(t)
  BY DEF table_get_keys
<1>4. \A k \in table_get_keys(t) : \E i \in InUse(t) : t.ary[i].key = k
  BY DEF table_get_keys
<1>5. ASSUME NEW i \in InUse(t) PROVE Contents(t)[t.ary[i].key] = t.ary[i].value
  <2> DEFINE k == t.ary[i].key
             j == CHOOSE j \in InUse(t) : t.ary[j].key = k
  <2>1. j \in InUse(t) /\ t.ary[j].key = k
    OBVIOUS
  <2>2. j = i
    BY <1>2, <2>1
  <2>3. Contents(t)[k] = t.ary[j].value
    BY <1>3 DEF Contents
  <2>. QED BY <2>2, <2>3
<1>6. Cardinality(table_get_keys(t)) = Cardinality(InUse(t))
  <2> DEFINE f == [i \in InUse(t) |-> t.ary[i].key]
  <2>1. IsFiniteSet(InUse(t))
    BY SlotsCounted DEF Shaped
  <2>2. f \in Bijection(InUse(t), table_get_keys(t))
    BY <1>2, <1>3, <1>4 DEF Bijection, Injection, Surjection, IsInjective
  <2> HIDE DEF f
  <2>3. ExistsBijection(InUse(t), table_get_keys(t))
    BY <2>2 DEF ExistsBijection
  <2>. QED BY <2>1, <2>3, FS_Bijection
<1>. QED BY <1>1, <1>3, <1>4, <1>5, <1>6

\* Following the chain of a key's slot comes to it exactly when it is in the table.
LEMMA FoundMeans ==
  ASSUME NEW t, Shaped(t), Finds(t), NEW k
  PROVE  /\ Found(t, k) = {i \in InUse(t) : t.ary[i].key = k}
         /\ Found(t, k) # {} <=> k \in DOMAIN Contents(t)
         /\ table_get(t, k) = IF k \in DOMAIN Contents(t) THEN Contents(t)[k] ELSE NULL
<1>1. ASSUME NEW i \in InUse(t), t.ary[i].key = k PROVE i \in Found(t, k)
  BY <1>1 DEF Finds
<1>2. ASSUME NEW i \in Found(t, k) PROVE i \in InUse(t) /\ t.ary[i].key = k
  <2>1. Home(t, k) \in InUse(t) /\ i \in Chain(t, Home(t, k)) /\ t.ary[i].key = k
    BY <1>2 DEF Found
  <2>. QED BY <2>1, ChainGoesOn
<1>3. Found(t, k) = {i \in InUse(t) : t.ary[i].key = k}
  BY <1>1, <1>2
<1>4. Found(t, k) # {} <=> k \in DOMAIN Contents(t)
  BY <1>3, ContentsMeans
<1>5. ASSUME Found(t, k) # {} PROVE table_get(t, k) = Contents(t)[k]
  <2> DEFINE i == CHOOSE i \in Found(t, k) : TRUE
  <2>1. i \in Found(t, k)
    BY <1>5
  <2>2. table_get(t, k) = t.ary[i].value
    BY <1>5 DEF table_get
  <2> HIDE DEF i
  <2>3. i \in InUse(t) /\ t.ary[i].key = k
    BY <1>3, <2>1
  <2>4. Contents(t)[t.ary[i].key] = t.ary[i].value
    BY <2>3, ContentsMeans
  <2>. QED BY <2>2, <2>3, <2>4
<1>6. Found(t, k) = {} => table_get(t, k) = NULL
  BY DEF table_get
<1>. QED BY <1>3, <1>4, <1>5, <1>6

BoundTo(map, k, v) == [j \in DOMAIN map \cup {k} |-> IF j = k THEN v ELSE map[j]]

LEMMA PutContents ==
  ASSUME NEW t, NEW u, NEW new, NEW last, NEW key, NEW value,
         Shaped(t), Finds(t), Shaped(u), Finds(u), Grows(t, u, new, last, key, value),
         Found(t, key) = {}
  PROVE  Contents(u) = BoundTo(Contents(t), key, value)
<1>1. /\ InUse(u) = InUse(t) \cup {new} /\ u.ary[new].key = key /\ u.ary[new].value = value
      /\ \A i \in InUse(t) : u.ary[i].key = t.ary[i].key /\ u.ary[i].value = t.ary[i].value
  BY DEF Grows, Entry
<1>2. table_get_keys(u) = table_get_keys(t) \cup {key}
  BY <1>1 DEF table_get_keys
<1>3. key \notin table_get_keys(t)
  BY FoundMeans, ContentsMeans
<1>4. ASSUME NEW k \in table_get_keys(u)
      PROVE  Contents(u)[k] = IF k = key THEN value ELSE Contents(t)[k]
  <2>1. CASE k = key
    BY <1>1, <2>1, ContentsMeans
  <2>2. CASE k # key
    <3>1. PICK i \in InUse(t) : t.ary[i].key = k
      BY <1>2, <2>2 DEF table_get_keys
    <3>2. Contents(t)[k] = t.ary[i].value
      BY <3>1, ContentsMeans
    <3>3. Contents(u)[k] = u.ary[i].value
      BY <1>1, <3>1, ContentsMeans
    <3>. QED BY <1>1, <2>2, <3>2, <3>3
  <2>. QED BY <2>1, <2>2
<1>5. Contents(u) = [k \in table_get_keys(u) |-> Contents(u)[k]]
  BY DEF Contents
<1>6. DOMAIN Contents(t) = table_get_keys(t)
  BY ContentsMeans
<1>. QED BY <1>2, <1>4, <1>5, <1>6 DEF BoundTo

LEMMA UpdateContents ==
  ASSUME NEW t, NEW size \in Nat \ {0}, Sound(t, size), NEW key \in Keys, NEW value \in Values,
         Found(t, key) # {}
  PROVE  Contents(table_update(t, key, value)) = BoundTo(Contents(t), key, value)
<1> DEFINE u == table_update(t, key, value)
<1>1. /\ Sound(u, size) /\ InUse(u) = InUse(t)
      /\ \A i \in InUse(t) :
           /\ u.ary[i].key = t.ary[i].key
           /\ u.ary[i].value = IF i \in Found(t, key) THEN value ELSE t.ary[i].value
  BY UpdateKeepsLinks
<1> HIDE DEF u
<1>2. Shaped(t) /\ Finds(t) /\ Shaped(u) /\ Finds(u)
  BY <1>1 DEF Sound
<1>3. table_get_keys(u) = table_get_keys(t)
  BY <1>1 DEF table_get_keys
<1>4. Found(t, key) = {i \in InUse(t) : t.ary[i].key = key}
  BY <1>2, FoundMeans
<1>5. key \in table_get_keys(t)
  BY <1>4 DEF table_get_keys
<1>6. ASSUME NEW k \in table_get_keys(u)
      PROVE  Contents(u)[k] = IF k = key THEN value ELSE Contents(t)[k]
  <2>1. PICK i \in InUse(t) : t.ary[i].key = k
    BY <1>3 DEF table_get_keys
  <2>2. Contents(t)[k] = t.ary[i].value
    BY <1>2, <2>1, ContentsMeans
  <2>3. Contents(u)[k] = u.ary[i].value
    BY <1>1, <1>2, <2>1, ContentsMeans
  <2>. QED BY <1>1, <1>4, <2>1, <2>2, <2>3
<1>7. Contents(u) = [k \in table_get_keys(u) |-> Contents(u)[k]]
  BY DEF Contents
<1>8. DOMAIN Contents(t) = table_get_keys(t)
  BY <1>2, ContentsMeans
<1>9. DOMAIN Contents(t) \cup {key} = table_get_keys(u)
  BY <1>3, <1>5, <1>8
<1>. QED BY <1>6, <1>7, <1>9 DEF BoundTo, u

-----------------------------------------------------------------------------
(* What a request does to the tables, and what is answered. *)

TablesOK ==
  /\ tables = [n \in Numbers |-> tables[n]]
  /\ \A n \in Numbers : Sound(tables[n], Sizes[n])

\* ans tells the truth to who has asked req, of a table that holds map.
Agrees(req, map, ans) ==
  CASE ans = Error /\ req.opcode = "put" ->
         req.key \in DOMAIN map \/ Cardinality(DOMAIN map) = Sizes[req.table_num]
    [] ans = Error /\ req.opcode = "update" -> req.key \notin DOMAIN map
    [] ans.opcode \in {"put", "update"} -> req.key \in DOMAIN map /\ map[req.key] = req.data
    [] ans.opcode = "get" /\ req.key = Star -> ans.keys = DOMAIN map
    [] ans.opcode = "get" /\ req.key # Star ->
         ans.data = IF req.key \in DOMAIN map THEN map[req.key] ELSE NULL
    [] OTHER -> TRUE

Answered(ans) ==
  answer' = [answer EXCEPT ![current] = IF client[current] = "waits" THEN ans ELSE None]

\* Table n comes to hold value for key, which is new to it only if there is room.
Binds(n, key, value) ==
  /\ key \in DOMAIN Contents(tables[n]) \/ Cardinality(DOMAIN Contents(tables[n])) < Sizes[n]
  /\ Contents(tables'[n]) = BoundTo(Contents(tables[n]), key, value)
  /\ \A m \in Numbers \ {n} : tables'[m] = tables[m]

MapStep ==
  \/ UNCHANGED tables
  \/ \E n \in Numbers, key \in Keys, value \in Values : Binds(n, key, value)

TablesOKNext ==
  /\ tables' = [n \in Numbers |-> tables'[n]]
  /\ \A n \in Numbers : Sound(tables'[n], Sizes[n])

LEMMA SizesArePositive == \A n \in Numbers : Sizes[n] \in Nat \ {0}
BY ServerAssumption DEF Numbers

LEMMA TableFacts ==
  ASSUME TablesOK, NEW n \in Numbers
  PROVE  /\ Sizes[n] \in Nat \ {0} /\ Sound(tables[n], Sizes[n])
         /\ Shaped(tables[n]) /\ Finds(tables[n])
         /\ tables[n].size = Sizes[n]
         /\ Cardinality(DOMAIN Contents(tables[n])) = tables[n].numElem
         /\ tables[n].numElem \in 0..Sizes[n]
<1>1. Sizes[n] \in Nat \ {0} /\ Sound(tables[n], Sizes[n])
  BY SizesArePositive DEF TablesOK
<1> DEFINE t == tables[n]
<1>2. Shaped(t) /\ Finds(t) /\ Counts(t) /\ t.size = Sizes[n]
  BY <1>1 DEF Sound
<1> HIDE DEF t
<1>3. Cardinality(DOMAIN Contents(t)) = t.numElem /\ t.numElem \in 0..Sizes[n]
  BY <1>2, ContentsMeans DEF Counts, Shaped
<1>. QED BY <1>1, <1>2, <1>3 DEF t

LEMMA SameTable ==
  ASSUME TablesOK, NEW n \in Numbers
  PROVE  [tables EXCEPT ![n] = tables[n]] = tables
BY DEF TablesOK

LEMMA OneTable ==
  ASSUME TablesOK, NEW n \in Numbers, NEW u, tables' = [tables EXCEPT ![n] = u],
         Sound(u, Sizes[n])
  PROVE  /\ TablesOKNext /\ tables'[n] = u
         /\ \A m \in Numbers \ {n} : tables'[m] = tables[m]
<1>1. tables = [m \in Numbers |-> tables[m]]
  BY DEF TablesOK
<1>2. tables' = [m \in Numbers |-> IF m = n THEN u ELSE tables[m]]
  BY <1>1
<1>3. tables'[n] = u /\ \A m \in Numbers \ {n} : tables'[m] = tables[m]
  BY <1>2
<1>4. tables' = [m \in Numbers |-> tables'[m]]
  BY <1>2
<1>5. \A m \in Numbers : Sound(tables'[m], Sizes[m])
  BY <1>3 DEF TablesOK
<1>. QED BY <1>3, <1>4, <1>5 DEF TablesOKNext

LEMMA RequestFields ==
  ASSUME NEW req \in Requests
  PROVE  /\ req.opcode \in {"put", "update", "get", "size", "collisions"}
         /\ req.opcode \in {"put", "update"} =>
              req.table_num \in Numbers /\ req.key \in Keys /\ req.data \in Values
BY DEF Requests

LEMMA PutDone ==
  ASSUME TablesOK, NEW req \in Requests, ProcessPut(req)
  PROVE  /\ TablesOKNext /\ MapStep
         /\ \E ans : Answered(ans) /\ Agrees(req, Contents(tables'[req.table_num]), ans)
<1> DEFINE n == req.table_num
           key == req.key
           t == tables[n]
           u == table_put(t, key, req.data)
           ans == IF Accepts(t, key) THEN [opcode |-> "put"] ELSE Error
<1>1. n \in Numbers /\ req.opcode = "put" /\ key \in Keys /\ req.data \in Values
  BY RequestFields DEF ProcessPut, OnTable
<1>0. t.numElem # t.size => ~Outside(t, key)
  BY DEF ProcessPut, PutGoesAstray, Table
<1>2. tables' = [tables EXCEPT ![n] = u] /\ Answered(ans)
  BY DEF ProcessPut, Does, Table, Answered
<1>3. /\ Sizes[n] \in Nat \ {0} /\ Sound(t, Sizes[n]) /\ Shaped(t) /\ Finds(t) /\ t.size = Sizes[n]
      /\ Cardinality(DOMAIN Contents(t)) = t.numElem /\ t.numElem \in 0..Sizes[n]
  BY <1>1, TableFacts
<1>4. Found(t, key) # {} <=> key \in DOMAIN Contents(t)
  BY <1>3, FoundMeans
<1>5. CASE Accepts(t, key)
  <2>0. ~Outside(t, key)
    BY <1>0, <1>5 DEF Accepts
  <2>1. Sound(u, Sizes[n]) /\ \E new, last : Grows(t, u, new, last, key, req.data)
    BY <1>1, <1>3, <1>5, <2>0, PutGrows
  <2>2. Contents(u) = BoundTo(Contents(t), key, req.data)
    BY <1>3, <1>5, <2>1, PutContents DEF Accepts, Sound
  <2>3. /\ TablesOKNext /\ tables'[n] = u
        /\ \A m \in Numbers \ {n} : tables'[m] = tables[m]
    BY <1>1, <1>2, <2>1, OneTable
  <2>4. Cardinality(DOMAIN Contents(t)) < Sizes[n]
    BY <1>3, <1>5 DEF Accepts
  <2>5. Binds(n, key, req.data)
    BY <2>2, <2>3, <2>4 DEF Binds
  <2>6. MapStep
    BY <1>1, <2>5 DEF MapStep
  <2>7. ans = [opcode |-> "put"] /\ ans # Error /\ ans.opcode = "put"
    BY <1>5 DEF Error
  <2>8. key \in DOMAIN Contents(u) /\ Contents(u)[key] = req.data
    BY <2>2 DEF BoundTo
  <2> HIDE DEF ans, u
  <2>9. Agrees(req, Contents(tables'[n]), ans)
    BY <2>3, <2>7, <2>8 DEF Agrees
  <2>. QED BY <1>2, <2>3, <2>6, <2>9
<1>6. CASE ~Accepts(t, key)
  <2>1. u = t /\ ans = Error
    BY <1>6 DEF table_put
  <2>2. tables' = tables
    BY <1>1, <1>2, <2>1, SameTable
  <2>3. TablesOKNext /\ MapStep
    BY <2>2 DEF TablesOKNext, TablesOK, MapStep
  <2>4. key \in DOMAIN Contents(t) \/ Cardinality(DOMAIN Contents(t)) = Sizes[n]
    BY <1>3, <1>4, <1>6 DEF Accepts
  <2>5. Agrees(req, Contents(tables'[n]), ans)
    <3>1. Error.opcode = "error"
      BY DEF Error
    <3> HIDE DEF ans, u
    <3>. QED BY <1>1, <2>1, <2>2, <2>4, <3>1 DEF Agrees
  <2>. QED BY <1>2, <2>3, <2>5
<1>. QED BY <1>5, <1>6

LEMMA UpdateDone ==
  ASSUME TablesOK, NEW req \in Requests, ProcessUpdate(req)
  PROVE  /\ TablesOKNext /\ MapStep
         /\ \E ans : Answered(ans) /\ Agrees(req, Contents(tables'[req.table_num]), ans)
<1> DEFINE n == req.table_num
           key == req.key
           t == tables[n]
           u == table_update(t, key, req.data)
<1>1. n \in Numbers /\ req.opcode = "update" /\ key \in Keys /\ req.data \in Values
  BY RequestFields DEF ProcessUpdate, OnTable
<1>3. /\ Sizes[n] \in Nat \ {0} /\ Sound(t, Sizes[n]) /\ Shaped(t) /\ Finds(t)
  BY <1>1, TableFacts
<1>4. Found(t, key) # {} <=> key \in DOMAIN Contents(t)
  BY <1>3, FoundMeans
<1>5. CASE Found(t, key) # {}
  <2> DEFINE ans == [opcode |-> "update"]
  <2>1. tables' = [tables EXCEPT ![n] = u] /\ Answered(ans)
    BY <1>5 DEF ProcessUpdate, Does, Table, Answered
  <2>2. Sound(u, Sizes[n])
    BY <1>1, <1>3, UpdateKeepsLinks
  <2>3. Contents(u) = BoundTo(Contents(t), key, req.data)
    BY <1>1, <1>3, <1>5, UpdateContents
  <2>4. /\ TablesOKNext /\ tables'[n] = u
        /\ \A m \in Numbers \ {n} : tables'[m] = tables[m]
    BY <1>1, <2>1, <2>2, OneTable
  <2>5. Binds(n, key, req.data)
    BY <1>4, <1>5, <2>3, <2>4 DEF Binds
  <2>6. MapStep
    BY <1>1, <2>5 DEF MapStep
  <2>7. ans # Error /\ ans.opcode = "update"
    BY DEF Error
  <2>8. key \in DOMAIN Contents(u) /\ Contents(u)[key] = req.data
    BY <2>3 DEF BoundTo
  <2> HIDE DEF ans, u
  <2>9. Agrees(req, Contents(tables'[n]), ans)
    BY <2>4, <2>7, <2>8 DEF Agrees
  <2>. QED BY <2>1, <2>4, <2>6, <2>9
<1>6. CASE Found(t, key) = {}
  <2>1. tables' = [tables EXCEPT ![n] = t] /\ Answered(Error)
    BY <1>6 DEF ProcessUpdate, Does, Table, Answered
  <2>2. tables' = tables
    BY <1>1, <2>1, SameTable
  <2>3. TablesOKNext /\ MapStep
    BY <2>2 DEF TablesOKNext, TablesOK, MapStep
  <2>4. key \notin DOMAIN Contents(t)
    BY <1>4, <1>6
  <2>5. Agrees(req, Contents(tables'[n]), Error)
    <3>1. Error.opcode = "error"
      BY DEF Error
    <3> HIDE DEF u
    <3>. QED BY <1>1, <2>2, <2>4, <3>1 DEF Agrees
  <2>. QED BY <2>1, <2>3, <2>5
<1>. QED BY <1>5, <1>6

\* The requests that only look.
LEMMA LookDone ==
  ASSUME TablesOK, NEW req \in Requests,
         ProcessGet(req) \/ ProcessGetKeys(req) \/ ProcessSize(req) \/ ProcessCollisions(req)
  PROVE  /\ TablesOKNext /\ MapStep
         /\ \E ans : Answered(ans) /\ Agrees(req, Contents(tables'[req.table_num]), ans)
<1> DEFINE n == req.table_num
           t == tables[n]
<1>1. n \in Numbers
  BY DEF ProcessGet, ProcessGetKeys, ProcessSize, ProcessCollisions, OnTable
<1>2. tables' = [tables EXCEPT ![n] = t]
  BY DEF ProcessGet, ProcessGetKeys, ProcessSize, ProcessCollisions, Does, Table
<1>3. tables' = tables
  BY <1>1, <1>2, SameTable
<1>4. TablesOKNext /\ MapStep
  BY <1>3 DEF TablesOKNext, TablesOK, MapStep
<1>5. Shaped(t) /\ Finds(t)
  BY <1>1, TableFacts
<1>6. CASE ProcessGet(req)
  <2> DEFINE ans == [opcode |-> "get", data |-> table_get(t, req.key)]
  <2>1. Answered(ans) /\ req.key # Star
    BY <1>6 DEF ProcessGet, Does, Table, Answered
  <2>2. ans # Error /\ ans.opcode = "get" /\ ans.data = table_get(t, req.key)
    BY DEF Error
  <2>3. ans.data = IF req.key \in DOMAIN Contents(t) THEN Contents(t)[req.key] ELSE NULL
    BY <1>5, <2>2, FoundMeans
  <2> HIDE DEF ans
  <2>4. Agrees(req, Contents(tables'[n]), ans)
    BY <1>3, <2>1, <2>2, <2>3 DEF Agrees
  <2>. QED BY <1>4, <2>1, <2>4
<1>7. CASE ProcessGetKeys(req)
  <2> DEFINE ans == [opcode |-> "get", keys |-> table_get_keys(t)]
  <2>1. Answered(ans) /\ req.key = Star
    BY <1>7 DEF ProcessGetKeys, Does, Table, Answered
  <2>2. ans # Error /\ ans.opcode = "get" /\ ans.keys = table_get_keys(t)
    BY DEF Error
  <2>3. ans.keys = DOMAIN Contents(t)
    BY <2>2 DEF Contents
  <2> HIDE DEF ans
  <2>4. Agrees(req, Contents(tables'[n]), ans)
    BY <1>3, <2>1, <2>2, <2>3 DEF Agrees
  <2>. QED BY <1>4, <2>1, <2>4
<1>8. CASE ProcessSize(req)
  <2> DEFINE ans == [opcode |-> "size", result |-> t.size]
  <2>1. Answered(ans)
    BY <1>8 DEF ProcessSize, Does, Table, Answered
  <2>2. ans # Error /\ ans.opcode = "size"
    BY DEF Error
  <2> HIDE DEF ans
  <2>3. Agrees(req, Contents(tables'[n]), ans)
    BY <2>2 DEF Agrees
  <2>. QED BY <1>4, <2>1, <2>3
<1>9. CASE ProcessCollisions(req)
  <2> DEFINE ans == [opcode |-> "collisions", result |-> t.numCol]
  <2>1. Answered(ans)
    BY <1>9 DEF ProcessCollisions, Does, Table, Answered
  <2>2. ans # Error /\ ans.opcode = "collisions"
    BY DEF Error
  <2> HIDE DEF ans
  <2>3. Agrees(req, Contents(tables'[n]), ans)
    BY <2>2 DEF Agrees
  <2>. QED BY <1>4, <2>1, <2>3
<1>. QED BY <1>6, <1>7, <1>8, <1>9

LEMMA ProcessDone ==
  ASSUME TablesOK, NEW req \in Requests, process_message(req)
  PROVE  /\ TablesOKNext /\ MapStep
         /\ \E ans : /\ Answered(ans)
                     /\ req.table_num \in Numbers =>
                          Agrees(req, Contents(tables'[req.table_num]), ans)
<1>1. CASE NoTable(req)
  <2>1. tables' = tables /\ Answered(Error) /\ req.table_num \notin Numbers
    BY <1>1 DEF NoTable, Answered
  <2>2. TablesOKNext /\ MapStep
    BY <2>1 DEF TablesOKNext, TablesOK, MapStep
  <2>. QED BY <2>1, <2>2
<1>2. CASE ProcessPut(req)
  BY <1>2, PutDone
<1>3. CASE ProcessUpdate(req)
  BY <1>3, UpdateDone
<1>4. CASE ProcessGet(req) \/ ProcessGetKeys(req) \/ ProcessSize(req) \/ ProcessCollisions(req)
  BY <1>4, LookDone
<1>. QED BY <1>1, <1>2, <1>3, <1>4 DEF process_message

-----------------------------------------------------------------------------
(* The inductive invariant. *)

LoopOK ==
  /\ server \in {"accept", "serve", "down", "astray"} /\ size_client \in {"unset", "set"}
  /\ current \in Clients \cup {None}
  /\ server = "serve" => current # None
  /\ server = "accept" => current = None

\* A client connects once, and is then either queued or served or done with.
QueueOK ==
  /\ backlog \in Seq(Clients)
  /\ \A m, n \in 1..Len(backlog) : m # n => backlog[m] # backlog[n]
  /\ \A n \in 1..Len(backlog) : backlog[n] # current /\ client[backlog[n]] # "off"
  /\ current # None => client[current] # "off"

ChannelsOK ==
  /\ client \in [Clients -> {"off", "idle", "waits", "left", "reset"}]
  /\ request \in [Clients -> Requests \cup {None}]
  /\ answer = [c \in Clients |-> answer[c]]
  /\ asked \in 0..MaxRequests

\* Only the client that is served has an answer coming, and waits for it.
OnlyCurrentAnswered ==
  \A c \in Clients : answer[c] # None =>
    /\ c = current /\ server # "accept" /\ client[c] = "waits" /\ request[c] # None

IInv == TablesOK /\ LoopOK /\ QueueOK /\ ChannelsOK /\ OnlyCurrentAnswered /\ AnswersAgree

LEMMA AgreesMeans ==
  AnswersAgree <=>
    \A c \in Clients :
      client[c] = "waits" /\ answer[c] # None /\ request[c].table_num \in Numbers =>
        Agrees(request[c], Contents(tables[request[c].table_num]), answer[c])
BY DEF AnswersAgree, Agrees

LEMMA AgreesMeansNext ==
  AnswersAgree' <=>
    \A c \in Clients :
      client'[c] = "waits" /\ answer'[c] # None /\ request'[c].table_num \in Numbers =>
        Agrees(request'[c], Contents(tables'[request'[c].table_num]), answer'[c])
BY DEF AnswersAgree, Agrees

LEMMA InvImplies == IInv => TypeOK /\ WellLinked
<1> SUFFICES ASSUME IInv PROVE TypeOK /\ WellLinked
  OBVIOUS
<1>1. \A n \in Numbers : TableType(tables[n], Sizes[n]) /\ Linked(tables[n])
  BY SoundMeans DEF IInv, TablesOK
<1>2. DOMAIN tables = Numbers
  BY DEF IInv, TablesOK
<1>3. \A n \in DOMAIN backlog : backlog[n] \in Clients \ {current}
  BY DEF IInv, QueueOK
<1>4. \A c \in Clients : /\ client[c] \in {"off", "idle", "waits", "left", "reset"}
                         /\ request[c] \in Requests \cup {None}
  BY DEF IInv, ChannelsOK
<1>5. asked \in 0..MaxRequests
  BY DEF IInv, ChannelsOK
<1>. QED BY <1>1, <1>2, <1>3, <1>4, <1>5 DEF IInv, LoopOK, TypeOK, WellLinked

LEMMA InitInv == Init => IInv
<1> SUFFICES ASSUME Init PROVE IInv
  OBVIOUS
<1>1. TablesOK
  <2>1. tables = [n \in Numbers |-> table_create(Sizes[n])]
    BY DEF Init
  <2>2. \A n \in Numbers : tables[n] = table_create(Sizes[n])
    BY <2>1
  <2>3. tables = [n \in Numbers |-> tables[n]]
    BY <2>1
  <2>4. \A n \in Numbers : Sound(tables[n], Sizes[n])
    BY <2>2, SizesArePositive, CreateSound
  <2>. QED BY <2>3, <2>4 DEF TablesOK
<1>2. LoopOK
  BY DEF Init, LoopOK
<1>3. QueueOK
  BY DEF Init, QueueOK
<1>4. ChannelsOK
  BY ServerAssumption DEF Init, ChannelsOK
<1>5. \A c \in Clients : answer[c] = None
  BY DEF Init
<1>6. OnlyCurrentAnswered /\ AnswersAgree
  BY <1>5, AgreesMeans DEF OnlyCurrentAnswered
<1>. QED BY <1>1, <1>2, <1>3, <1>4, <1>6 DEF IInv

-----------------------------------------------------------------------------
(* What most steps keep. *)

LEMMA TablesKept ==
  ASSUME TablesOK, UNCHANGED tables
  PROVE  TablesOK'
BY DEF TablesOK, Numbers

LEMMA QueueKept ==
  ASSUME QueueOK, UNCHANGED backlog, current' \in {current, None},
         \A c \in Clients : client[c] # "off" => client'[c] # "off",
         current \in Clients \cup {None}
  PROVE  QueueOK'
<1>1. \A n \in 1..Len(backlog) : backlog[n] \in Clients
  BY DEF QueueOK
<1>2. None \notin Clients
  BY ServerAssumption
<1>3. \A n \in 1..Len(backlog) : backlog[n] # current' /\ client'[backlog[n]] # "off"
  BY <1>1, <1>2 DEF QueueOK
<1>4. current' # None => client'[current'] # "off"
  BY DEF QueueOK
<1>. QED BY <1>3, <1>4 DEF QueueOK

\* No new answer, and those that are on their way stay the answers to what was asked.
LEMMA AnswersKept ==
  ASSUME OnlyCurrentAnswered, AnswersAgree, UNCHANGED tables,
         \A c \in Clients : answer'[c] # None =>
           /\ answer'[c] = answer[c] /\ request'[c] = request[c] /\ client'[c] = client[c]
           /\ current' = current /\ server' \in {server, "down", "astray"}
  PROVE  OnlyCurrentAnswered' /\ AnswersAgree'
<1>1. ASSUME NEW c \in Clients, answer'[c] # None
      PROVE  c = current' /\ server' # "accept" /\ client'[c] = "waits" /\ request'[c] # None
  BY <1>1 DEF OnlyCurrentAnswered
<1>2. OnlyCurrentAnswered'
  BY <1>1 DEF OnlyCurrentAnswered
<1>3. ASSUME NEW c \in Clients, client'[c] = "waits", answer'[c] # None,
             request'[c].table_num \in Numbers
      PROVE  Agrees(request'[c], Contents(tables'[request'[c].table_num]), answer'[c])
  <2>1. answer'[c] = answer[c] /\ request'[c] = request[c] /\ client'[c] = client[c] /\ tables' = tables
    BY <1>3
  <2>2. Agrees(request[c], Contents(tables[request[c].table_num]), answer[c])
    BY <1>3, <2>1, AgreesMeans
  <2>. QED BY <2>1, <2>2
<1>4. AnswersAgree'
  BY <1>3, AgreesMeansNext
<1>. QED BY <1>2, <1>4

-----------------------------------------------------------------------------
(* The clients' steps. *)

LEMMA ConnectKeeps ==
  ASSUME IInv, NEW c \in Clients, network_connect(c)
  PROVE  IInv'
<1>1. /\ client[c] = "off" /\ client' = [client EXCEPT ![c] = "idle"] /\ backlog' = Append(backlog, c)
      /\ UNCHANGED <<tables, server, current, size_client, request, answer, asked>>
  BY DEF network_connect
<1>2. TablesOK' /\ LoopOK'
  BY <1>1, TablesKept DEF IInv, LoopOK
<1>3. client \in [Clients -> {"off", "idle", "waits", "left", "reset"}] /\ backlog \in Seq(Clients)
  BY DEF IInv, ChannelsOK, QueueOK
<1>4. ChannelsOK'
  BY <1>1 DEF IInv, ChannelsOK
<1>5. client'[c] = "idle" /\ \A d \in Clients \ {c} : client'[d] = client[d]
  BY <1>1, <1>3
<1>6. OnlyCurrentAnswered' /\ AnswersAgree'
  <2>1. \A d \in Clients : answer[d] # None => d # c
    BY <1>1 DEF IInv, OnlyCurrentAnswered
  <2>. QED BY <1>1, <1>5, <2>1, AnswersKept DEF IInv
<1>7. QueueOK'
  <2>1. /\ backlog' \in Seq(Clients) /\ Len(backlog') = Len(backlog) + 1 /\ Len(backlog) \in Nat
        /\ \A n \in 1..Len(backlog) : backlog'[n] = backlog[n] /\ backlog[n] \in Clients
        /\ backlog'[Len(backlog) + 1] = c
    BY <1>1, <1>3
  <2>2. \A n \in 1..Len(backlog') : n \in 1..Len(backlog) \/ n = Len(backlog) + 1
    BY <2>1
  <2>3. \A n \in 1..Len(backlog) : backlog[n] # c /\ backlog[n] # current /\ client[backlog[n]] # "off"
    BY <1>1 DEF IInv, QueueOK
  <2>4. c # current /\ (current # None => current \in Clients /\ client[current] # "off")
    BY <1>1, ServerAssumption DEF IInv, QueueOK, LoopOK
  <2>5. \A n \in 1..Len(backlog') : backlog'[n] # current' /\ client'[backlog'[n]] # "off"
    BY <1>1, <1>5, <2>1, <2>2, <2>3, <2>4
  <2>6. \A m, n \in 1..Len(backlog) : m # n => backlog[m] # backlog[n]
    BY DEF IInv, QueueOK
  <2>7. \A m, n \in 1..Len(backlog') : m # n => backlog'[m] # backlog'[n]
    BY <2>1, <2>2, <2>3, <2>6
  <2>8. current' # None => client'[current'] # "off"
    BY <1>1, <1>5, <2>4
  <2>. QED BY <2>1, <2>5, <2>7, <2>8 DEF QueueOK
<1>. QED BY <1>2, <1>4, <1>6, <1>7 DEF IInv

\* Every other step of a client changes only its own place and channels.
LEMMA ClientStepKeeps ==
  ASSUME IInv, NEW c \in Clients, NEW place \in {"idle", "waits", "left", "reset"},
         NEW req \in Requests \cup {None},
         client' = [client EXCEPT ![c] = place], request' = [request EXCEPT ![c] = req],
         answer' = answer \/ answer' = [answer EXCEPT ![c] = None],
         answer'[c] = None, asked' \in 0..MaxRequests, UNCHANGED <<tables, loop>>
  PROVE  IInv'
<1>1. UNCHANGED <<tables, server, current, backlog, size_client>>
  BY DEF loop
<1>2. TablesOK' /\ LoopOK'
  BY <1>1, TablesKept DEF IInv, LoopOK
<1>3. ChannelsOK
  BY DEF IInv
<1>4. client' \in [Clients -> {"off", "idle", "waits", "left", "reset"}]
  BY <1>3 DEF ChannelsOK
<1>5. request' \in [Clients -> Requests \cup {None}]
  BY <1>3 DEF ChannelsOK
<1>6. answer' = [d \in Clients |-> answer'[d]] /\ \A d \in Clients \ {c} : answer'[d] = answer[d]
  <2>1. answer = [d \in Clients |-> answer[d]]
    BY <1>3 DEF ChannelsOK
  <2>2. CASE answer' = answer
    BY <2>1, <2>2
  <2>3. CASE answer' = [answer EXCEPT ![c] = None]
    <3>1. answer' = [d \in Clients |-> IF d = c THEN None ELSE answer[d]]
      BY <2>1, <2>3
    <3>. QED BY <3>1
  <2>. QED BY <2>2, <2>3
<1>7. ChannelsOK'
  BY <1>4, <1>5, <1>6 DEF ChannelsOK
<1>8. /\ client'[c] = place
      /\ \A d \in Clients \ {c} : client'[d] = client[d] /\ request'[d] = request[d]
  BY <1>3 DEF ChannelsOK
<1>9. OnlyCurrentAnswered' /\ AnswersAgree'
  BY <1>1, <1>6, <1>8, AnswersKept DEF IInv
<1>10. QueueOK'
  BY <1>1, <1>8, QueueKept DEF IInv, LoopOK
<1>. QED BY <1>2, <1>7, <1>9, <1>10 DEF IInv

LEMMA ClientKeeps ==
  ASSUME IInv, NEW c \in Clients,
         \/ network_send_receive(c) \/ Quit(c) \/ LosesServer(c) \/ Killed(c)
         \/ \E req \in Requests : Command(c, req)
  PROVE  IInv'
<1>1. /\ asked \in 0..MaxRequests /\ request[c] \in Requests \cup {None}
      /\ answer = [d \in Clients |-> answer[d]]
      /\ request \in [Clients -> Requests \cup {None}]
  BY DEF IInv, ChannelsOK
<1>2. client[c] # "waits" => answer[c] = None
  BY DEF IInv, OnlyCurrentAnswered
<1>3. [answer EXCEPT ![c] = None][c] = None
  BY <1>1
<1>4. request = [request EXCEPT ![c] = request[c]]
  BY <1>1
<1>5. CASE network_send_receive(c)
  BY <1>1, <1>3, <1>5, ClientStepKeeps DEF network_send_receive
<1>6. CASE Quit(c)
  BY <1>1, <1>2, <1>6, ClientStepKeeps DEF Quit, Ends
<1>7. CASE LosesServer(c)
  BY <1>1, <1>7, ClientStepKeeps DEF LosesServer, Ends
<1>8. CASE Killed(c)
  <2> DEFINE place == IF answer[c] = None THEN "left" ELSE "reset"
  <2>1. /\ client' = [client EXCEPT ![c] = place] /\ answer' = [answer EXCEPT ![c] = None]
        /\ UNCHANGED <<tables, loop, asked>>
    BY <1>8 DEF Killed
  <2>2. PICK req \in {None, request[c]} : request' = [request EXCEPT ![c] = req]
    BY <1>4, <1>8 DEF Killed
  <2>3. place \in {"idle", "waits", "left", "reset"} /\ req \in Requests \cup {None}
    BY <1>1
  <2> HIDE DEF place
  <2>. QED BY <1>1, <1>3, <2>1, <2>2, <2>3, ClientStepKeeps
<1>9. ASSUME NEW req \in Requests, Command(c, req) PROVE IInv'
  <2>1. /\ client[c] = "idle" /\ asked < MaxRequests
        /\ client' = [client EXCEPT ![c] = "waits"]
        /\ request' = [request EXCEPT ![c] = req]
        /\ asked' = asked + 1
        /\ UNCHANGED <<tables, loop, answer>>
    BY <1>9 DEF Command
  <2>2. asked' \in 0..MaxRequests
    BY <1>1, <2>1, ServerAssumption
  <2>3. answer'[c] = None
    BY <1>2, <2>1
  <2>. QED BY <2>1, <2>2, <2>3, ClientStepKeeps
<1>. QED BY <1>5, <1>6, <1>7, <1>8, <1>9

-----------------------------------------------------------------------------
(* The server's steps. *)

LEMMA AcceptKeeps ==
  ASSUME IInv, Accept
  PROVE  IInv'
<1>1. ChannelsOK' /\ TablesOK'
  BY TablesKept DEF IInv, Accept, GoesDown, Becomes, channels, ChannelsOK
<1>2. server = "accept" /\ current = None
  BY DEF Accept, IInv, LoopOK
<1>3. \A c \in Clients : answer[c] = None
  BY <1>2 DEF IInv, OnlyCurrentAnswered
<1>4. UNCHANGED <<tables, client, request, answer, asked>>
  BY DEF Accept, GoesDown, Becomes, channels
<1>5. OnlyCurrentAnswered' /\ AnswersAgree'
  BY <1>3, <1>4, AnswersKept DEF IInv
<1>6. CASE GoesDown
  <2>1. LoopOK'
    BY <1>2, <1>6 DEF GoesDown, Becomes, IInv, LoopOK
  <2>2. QueueOK'
    BY <1>6, QueueKept DEF GoesDown, Becomes, channels, IInv, LoopOK
  <2>. QED BY <1>1, <1>5, <2>1, <2>2 DEF IInv
<1>7. CASE /\ server' = "serve" /\ current' = Head(backlog) /\ backlog' = Tail(backlog)
           /\ size_client' = "set"
  <2>1. backlog \in Seq(Clients) /\ backlog # << >>
    BY DEF IInv, QueueOK, Accept
  <2>2. /\ Len(backlog) \in Nat /\ Len(backlog) # 0 /\ Head(backlog) = backlog[1] /\ backlog[1] \in Clients
        /\ Tail(backlog) \in Seq(Clients) /\ Len(Tail(backlog)) = Len(backlog) - 1
        /\ \A n \in 1..(Len(backlog) - 1) : Tail(backlog)[n] = backlog[n + 1]
    BY <2>1
  <2>3. LoopOK'
    BY <1>7, <2>2, ServerAssumption DEF LoopOK
  <2>4. \A m, n \in 1..Len(backlog) : m # n => backlog[m] # backlog[n]
    BY DEF IInv, QueueOK
  <2>5. \A n \in 1..Len(backlog) : client[backlog[n]] # "off"
    BY DEF IInv, QueueOK
  <2>6. \A n \in 1..Len(backlog') : /\ backlog'[n] = backlog[n + 1]
                                    /\ n + 1 \in 1..Len(backlog) /\ n + 1 # 1
    BY <1>7, <2>2
  <2>7. 1 \in 1..Len(backlog)
    BY <2>2
  <2>8. \A n \in 1..Len(backlog') : backlog'[n] # current' /\ client'[backlog'[n]] # "off"
    BY <1>4, <1>7, <2>2, <2>4, <2>5, <2>6, <2>7
  <2>9. \A m, n \in 1..Len(backlog') : m # n => backlog'[m] # backlog'[n]
    <3>1. \A m, n \in 1..Len(backlog') : m # n => m + 1 # n + 1
      OBVIOUS
    <3>. QED BY <2>4, <2>6, <3>1
  <2>10. backlog' \in Seq(Clients) /\ client'[current'] # "off"
    BY <1>4, <1>7, <2>2, <2>5, <2>7
  <2>11. QueueOK'
    BY <2>8, <2>9, <2>10 DEF QueueOK
  <2>. QED BY <1>1, <1>5, <2>3, <2>11 DEF IInv
<1>. QED BY <1>6, <1>7 DEF Accept

LEMMA ServingFacts ==
  ASSUME IInv, Serving
  PROVE  /\ current \in Clients
         /\ Pending => request[current] \in Requests
         /\ Gone \/ Pending => \A c \in Clients : answer[c] = None
<1>1. current \in Clients
  BY DEF IInv, LoopOK, Serving
<1>2. Pending => request[current] \in Requests
  BY <1>1 DEF Pending, IInv, ChannelsOK
<1>3. Gone \/ Pending => \A c \in Clients : answer[c] = None
  BY DEF Gone, Pending, IInv, OnlyCurrentAnswered
<1>. QED BY <1>1, <1>2, <1>3

\* Who is answered, when nobody has an answer coming.
LEMMA AnswerGoesToCurrent ==
  ASSUME IInv, Serving, \A c \in Clients : answer[c] = None, NEW ans, Answered(ans)
  PROVE  /\ answer' = [c \in Clients |-> answer'[c]]
         /\ \A c \in Clients : answer'[c] # None =>
              c = current /\ client[c] = "waits" /\ answer'[c] = ans
<1>1. current \in Clients /\ answer = [c \in Clients |-> answer[c]]
  BY ServingFacts DEF IInv, ChannelsOK
<1>2. answer' = [c \in Clients |-> IF c = current
                                   THEN IF client[current] = "waits" THEN ans ELSE None
                                   ELSE answer[c]]
  BY <1>1 DEF Answered
<1>. QED BY <1>2

LEMMA ServeKeeps ==
  ASSUME IInv, Serve
  PROVE  IInv'
<1> DEFINE req == request[current]
<1>1. Serving /\ Pending /\ process_message(req) /\ UNCHANGED <<loop, client, request, asked>>
  BY DEF Serve
<1>2. current \in Clients /\ req \in Requests /\ \A c \in Clients : answer[c] = None
  BY <1>1, ServingFacts
<1>3. req # None /\ server = "serve"
  BY <1>1 DEF Pending, Serving
<1>4. UNCHANGED <<server, current, backlog, size_client, client, request, asked>>
  BY <1>1 DEF loop
<1>5. TablesOK
  BY DEF IInv
<1>6. PICK ans : /\ Answered(ans)
                 /\ req.table_num \in Numbers =>
                      Agrees(req, Contents(tables'[req.table_num]), ans)
  BY <1>1, <1>2, <1>5, ProcessDone
<1>7. TablesOKNext
  BY <1>1, <1>2, <1>5, ProcessDone
<1>8. TablesOK'
  BY <1>7 DEF TablesOK, TablesOKNext, Numbers
<1>9. Answered(ans)
  BY <1>6 DEF Answered
<1>10. /\ answer' = [c \in Clients |-> answer'[c]]
       /\ \A c \in Clients : answer'[c] # None =>
            c = current /\ client[c] = "waits" /\ answer'[c] = ans
  BY <1>1, <1>2, <1>9, AnswerGoesToCurrent
<1>11. LoopOK' /\ ChannelsOK'
  BY <1>4, <1>10 DEF IInv, LoopOK, ChannelsOK
<1>12. QueueOK'
  BY <1>4, QueueKept DEF IInv, LoopOK
<1>13. OnlyCurrentAnswered'
  <2>1. ASSUME NEW c \in Clients, answer'[c] # None
        PROVE  c = current' /\ server' # "accept" /\ client'[c] = "waits" /\ request'[c] # None
    BY <1>3, <1>4, <1>10, <2>1
  <2>. QED BY <2>1 DEF OnlyCurrentAnswered
<1>14. AnswersAgree'
  <2>1. ASSUME NEW c \in Clients, client'[c] = "waits", answer'[c] # None,
               request'[c].table_num \in Numbers
        PROVE  Agrees(request'[c], Contents(tables'[request'[c].table_num]), answer'[c])
    <3>1. c = current /\ answer'[c] = ans /\ request'[c] = req
      BY <1>4, <1>10, <2>1
    <3>2. Agrees(req, Contents(tables'[req.table_num]), ans)
      BY <1>6, <2>1, <3>1
    <3> HIDE DEF req
    <3>. QED BY <3>1, <3>2
  <2>. QED BY <2>1, AgreesMeansNext
<1>. QED BY <1>8, <1>11, <1>12, <1>13, <1>14 DEF IInv

\* An answer to a client that has gone reaches nobody.
LEMMA ServeNobodyKeeps ==
  ASSUME IInv, Serving, Gone, NEW req \in Requests, process_message(req), AnswersNobody
  PROVE  IInv'
<1>1. current \in Clients /\ \A c \in Clients : answer[c] = None
  BY ServingFacts
<1>2. TablesOK
  BY DEF IInv
<1>3. PICK ans : Answered(ans)
  BY <1>2, ProcessDone
<1>4. TablesOKNext
  BY <1>2, ProcessDone
<1>5. TablesOK'
  BY <1>4 DEF TablesOK, TablesOKNext, Numbers
<1>6. Answered(ans)
  BY <1>3 DEF Answered
<1>7. /\ answer' = [c \in Clients |-> answer'[c]]
      /\ \A c \in Clients : answer'[c] # None => c = current /\ client[c] = "waits"
  BY <1>1, <1>6, AnswerGoesToCurrent
<1>8. \A c \in Clients : answer'[c] = None
  BY <1>7 DEF Gone
<1>9. /\ request' = [request EXCEPT ![current] = None]
      /\ \/ server' = "serve" /\ current' = current
         \/ server' = "accept" /\ current' = None
         \/ server' = "down" /\ current' = current
      /\ UNCHANGED <<backlog, size_client, client, asked>>
  BY DEF AnswersNobody
<1>10. LoopOK'
  BY <1>9 DEF IInv, LoopOK, Serving
<1>11. ChannelsOK'
  <2>1. request \in [Clients -> Requests \cup {None}]
    BY DEF IInv, ChannelsOK
  <2>2. request' \in [Clients -> Requests \cup {None}]
    BY <1>9, <2>1
  <2>. QED BY <1>7, <1>9, <2>2 DEF IInv, ChannelsOK
<1>12. QueueOK'
  BY <1>9, QueueKept DEF IInv, LoopOK
<1>13. OnlyCurrentAnswered' /\ AnswersAgree'
  BY <1>8, AgreesMeansNext DEF OnlyCurrentAnswered
<1>. QED BY <1>5, <1>10, <1>11, <1>12, <1>13 DEF IInv

LEMMA EndKeeps ==
  ASSUME IInv, Serving,
         \/ Becomes("down") \/ Becomes("astray")
         \/ /\ ~Pending /\ Gone /\ server' = "accept" /\ current' = None
            /\ UNCHANGED <<tables, backlog, size_client, channels>>
  PROVE  IInv'
<1>1. UNCHANGED <<tables, backlog, size_client, client, request, answer, asked>>
  BY DEF Becomes, channels
<1>2. TablesOK' /\ ChannelsOK'
  BY <1>1, TablesKept DEF IInv, ChannelsOK
<1>3. LoopOK'
  BY <1>1 DEF IInv, LoopOK, Serving, Becomes
<1>4. current' \in {current, None}
  BY DEF Becomes
<1>5. QueueOK'
  BY <1>1, <1>4, QueueKept DEF IInv, LoopOK
<1>6. OnlyCurrentAnswered' /\ AnswersAgree'
  <2>1. CASE Becomes("down") \/ Becomes("astray")
    BY <1>1, <2>1, AnswersKept DEF Becomes, IInv
  <2>2. CASE Gone
    <3>1. \A c \in Clients : answer[c] = None
      BY <2>2, ServingFacts
    <3>. QED BY <1>1, <3>1, AnswersKept DEF IInv
  <2>. QED BY <2>1, <2>2
<1>. QED BY <1>2, <1>3, <1>5, <1>6 DEF IInv

LEMMA MainKeeps ==
  ASSUME IInv, main
  PROVE  IInv'
<1>1. CASE Accept
  BY <1>1, AcceptKeeps
<1>2. CASE Serve
  BY <1>2, ServeKeeps
<1>3. CASE ServeGone
  <2>1. request[current] \in Requests
    BY <1>3, ServingFacts DEF ServeGone
  <2>. QED BY <1>3, <2>1, ServeNobodyKeeps DEF ServeGone
<1>4. CASE ServeGarbage
  <2>1. Gone
    BY <1>4 DEF ServeGarbage, Gone
  <2>. QED BY <1>4, <2>1, ServeNobodyKeeps DEF ServeGarbage
<1>5. CASE ServeCrashes
  BY <1>5, EndKeeps DEF ServeCrashes, GoesDown
<1>7. CASE ServeGoesAstray
  BY <1>7, EndKeeps DEF ServeGoesAstray
<1>6. CASE HangUp
  BY <1>6, EndKeeps DEF HangUp
<1>. QED BY <1>1, <1>2, <1>3, <1>4, <1>5, <1>6, <1>7 DEF main

LEMMA StutterKeeps ==
  ASSUME IInv, UNCHANGED vars
  PROVE  IInv'
<1>1. UNCHANGED <<tables, server, current, backlog, size_client, client, request, answer, asked>>
  BY DEF vars, loop, channels
<1>2. TablesOK' /\ LoopOK' /\ ChannelsOK'
  BY <1>1, TablesKept DEF IInv, LoopOK, ChannelsOK
<1>3. QueueOK'
  BY <1>1, QueueKept DEF IInv, LoopOK
<1>4. OnlyCurrentAnswered' /\ AnswersAgree'
  BY <1>1, AnswersKept DEF IInv
<1>. QED BY <1>2, <1>3, <1>4 DEF IInv

LEMMA NextKeeps == IInv /\ [Next]_vars => IInv'
<1>1. SUFFICES ASSUME IInv, [Next]_vars PROVE IInv'
  OBVIOUS
<1>2. ASSUME NEW c \in Clients, network_connect(c) PROVE IInv'
  BY <1>1, <1>2, ConnectKeeps
<1>3. ASSUME NEW c \in Clients,
             \/ network_send_receive(c) \/ Quit(c) \/ LosesServer(c) \/ Killed(c)
             \/ \E req \in Requests : Command(c, req)
      PROVE  IInv'
  BY <1>1, <1>3, ClientKeeps
<1>. QED BY <1>1, <1>2, <1>3, MainKeeps, StutterKeeps DEF Next

LEMMA Invariant == Spec => []IInv
BY InitInv, NextKeeps, PTL DEF Spec

-----------------------------------------------------------------------------
(* The theorems. *)

\* The tables, the server's loop and the clients' channels stay in their domains, and
\* who is served or waits to be is connected: no client is queued twice.
THEOREM TypeCorrect == Spec => []TypeOK
BY Invariant, InvImplies, PTL

\* In tables of any size, for keys with any sums of hash, negative ones too, and
\* whatever the clients ask and wherever they disappear: chains that grow together
\* never run in a circle or lose an entry, so every key is found from its own slot,
\* and the counters are right.  A server that is "astray" has met a key whose slot lies
\* before its table: the tables are then those of the moment before.
THEOREM StaysLinked == Spec => []WellLinked
BY Invariant, InvImplies, PTL

\* What process_message answers is true of the slots until the client reads it, for
\* any keys; a request that leads outside a table is not answered in the model.
THEOREM AnswersTrue == Spec => []AnswersAgree
<1>1. IInv => AnswersAgree
  BY DEF IInv
<1>. QED BY <1>1, Invariant, PTL

-----------------------------------------------------------------------------
(* The tables implement the maps of table.h. *)

LEMMA MapStepIsNext ==
  ASSUME TablesOK, MapStep, TablesOKNext
  PROVE  [Maps!Next]_([n \in Numbers |-> Contents(tables[n])])
<1> DEFINE map == [n \in Numbers |-> Contents(tables[n])]
<1>1. CASE UNCHANGED tables
  BY <1>1 DEF Numbers
<1>2. ASSUME NEW n \in Numbers, NEW key \in Keys, NEW value \in Values, Binds(n, key, value)
      PROVE  Maps!Next
  <2>1. map[n] = Contents(tables[n])
    OBVIOUS
  <2>2. \A m \in Numbers : Contents(tables'[m]) = IF m = n
                                                  THEN BoundTo(map[n], key, value)
                                                  ELSE map[m]
    BY <1>2 DEF Binds
  <2>3. [m \in Numbers |-> Contents(tables'[m])]
         = [map EXCEPT ![n] = BoundTo(map[n], key, value)]
    BY <2>2
  <2>4. Maps!Bind(n, key, value)
    BY <2>3 DEF Maps!Bind, BoundTo, Numbers
  <2>5. key \in DOMAIN map[n] \/ Cardinality(DOMAIN map[n]) < Sizes[n]
    BY <1>2, <2>1 DEF Binds
  <2>6. Maps!Put(n, key, value) \/ Maps!Update(n, key, value)
    BY <2>4, <2>5 DEF Maps!Put, Maps!Update, Maps!Cardinality, Cardinality
  <2>. QED BY <2>6 DEF Maps!Next, Numbers
<1>. QED BY <1>1, <1>2 DEF MapStep

LEMMA StepMaps ==
  ASSUME IInv, [Next]_vars
  PROVE  [Maps!Next]_([n \in Numbers |-> Contents(tables[n])])
<1>1. TablesOK
  BY DEF IInv
<1>2. ASSUME NEW req \in Requests, process_message(req)
      PROVE  [Maps!Next]_([n \in Numbers |-> Contents(tables[n])])
  BY <1>1, <1>2, ProcessDone, MapStepIsNext
<1>3. ASSUME UNCHANGED tables
      PROVE  [Maps!Next]_([n \in Numbers |-> Contents(tables[n])])
  BY <1>3 DEF Numbers
<1>4. CASE Serve \/ ServeGone
  <2>1. request[current] \in Requests /\ process_message(request[current])
    BY <1>4, ServingFacts DEF Serve, ServeGone
  <2>. QED BY <1>2, <2>1
<1>5. CASE ServeGarbage
  BY <1>2, <1>5 DEF ServeGarbage
<1>6. CASE Accept \/ ServeCrashes \/ ServeGoesAstray \/ HangUp
  BY <1>3, <1>6 DEF Accept, ServeCrashes, ServeGoesAstray, HangUp, GoesDown, Becomes
<1>7. ASSUME NEW c \in Clients,
             \/ network_connect(c) \/ network_send_receive(c)
             \/ Quit(c) \/ LosesServer(c) \/ Killed(c)
             \/ \E req \in Requests : Command(c, req)
      PROVE  UNCHANGED tables
  BY <1>7 DEF network_connect, network_send_receive, Quit, LosesServer, Killed, Command, Ends
<1>8. CASE UNCHANGED vars
  BY <1>3, <1>8 DEF vars
<1>. QED BY <1>3, <1>4, <1>5, <1>6, <1>7, <1>8 DEF Next, main

LEMMA InitMaps == Init => Maps!Init
<1> SUFFICES ASSUME Init PROVE Maps!Init
  OBVIOUS
<1>1. ASSUME NEW n \in Numbers PROVE Contents(tables[n]) = [k \in {} |-> 0]
  <2>1. tables[n] = table_create(Sizes[n])
    BY DEF Init
  <2>2. InUse(tables[n]) = {}
    BY <2>1 DEF table_create, InUse
  <2>3. table_get_keys(tables[n]) = {}
    BY <2>2 DEF table_get_keys
  <2>. QED BY <2>3 DEF Contents
<1>. QED BY <1>1 DEF Maps!Init, Numbers

\* Every step of the server is a put of a key that is not bound and has room, an update
\* of one that is, or changes nothing, with any request that memory may read as carried
\* out as well, up to a key whose slot lies before its table.
THEOREM TablesImplementMaps == Spec => TablesAreMaps
<1>1. IInv /\ [Next]_vars => [Maps!Next]_([n \in Numbers |-> Contents(tables[n])])
  BY StepMaps
<1>. QED BY <1>1, InitMaps, Invariant, PTL DEF Spec, TablesAreMaps, Maps!Spec
=============================================================================
