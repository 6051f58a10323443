----------------------------- MODULE TreeProofs -----------------------------
(***************************************************************************)
(* Theorems about Tree, for any set of keys and of values and a tree of    *)
(* any size.                                                               *)
(***************************************************************************)
EXTENDS Tree, FiniteSetTheorems, FunctionTheorems, SequenceTheorems,
        WellFoundedInduction, TLAPS

-----------------------------------------------------------------------------
(* Paths. *)

Paths == Seq(Sides)

LEMMA PrefixIsPath ==
  ASSUME NEW p \in Paths, NEW i \in 0..Len(p)
  PROVE  /\ SubSeq(p, 1, i) \in Paths
         /\ Len(SubSeq(p, 1, i)) = i
         /\ \A j \in 1..i : SubSeq(p, 1, i)[j] = p[j]
<1>1. \A j \in 1..i : p[j] \in Sides
  BY ElementOfSeq DEF Paths
<1>2. Len(p) \in Nat
  BY DEF Paths
<1>. QED BY <1>1, <1>2, SubSeqProperties DEF Paths

LEMMA SamePath ==
  ASSUME NEW p \in Paths, NEW q \in Paths, Len(p) = Len(q),
         \A i \in 1..Len(p) : p[i] = q[i]
  PROVE  p = q
BY SeqEqual DEF Paths

LEMMA WholePath ==
  ASSUME NEW p \in Paths
  PROVE  /\ Len(p) \in Nat
         /\ SubSeq(p, 1, Len(p)) = p
         /\ SubSeq(p, 1, 0) = << >>
         /\ \A i \in 1..Len(p) : p[i] \in Sides
<1>1. Len(p) \in Nat /\ \A i \in 1..Len(p) : p[i] \in Sides
  BY ElementOfSeq DEF Paths
<1>2. SubSeq(p, 1, 0) = << >>
  BY SubSeqEmpty
<1>3. SubSeq(p, 1, Len(p)) = p
  BY SubSeqFull DEF Paths
<1>. QED BY <1>1, <1>2, <1>3

LEMMA PrefixOfPrefix ==
  ASSUME NEW p \in Paths, NEW j \in 0..Len(p), NEW i \in 0..j
  PROVE  SubSeq(SubSeq(p, 1, j), 1, i) = SubSeq(p, 1, i)
<1>1. Len(p) \in Nat
  BY WholePath
<1>2. SubSeq(p, 1, j) \in Paths /\ Len(SubSeq(p, 1, j)) = j
       /\ \A n \in 1..j : SubSeq(p, 1, j)[n] = p[n]
  BY PrefixIsPath
<1>3. SubSeq(p, 1, i) \in Paths /\ Len(SubSeq(p, 1, i)) = i
       /\ \A n \in 1..i : SubSeq(p, 1, i)[n] = p[n]
  BY <1>1, PrefixIsPath
<1> DEFINE r == SubSeq(p, 1, j)
<1>4. SubSeq(r, 1, i) \in Paths /\ Len(SubSeq(r, 1, i)) = i
       /\ \A n \in 1..i : SubSeq(r, 1, i)[n] = r[n]
  BY <1>2, PrefixIsPath
<1>5. \A n \in 1..i : SubSeq(r, 1, i)[n] = SubSeq(p, 1, i)[n]
  BY <1>2, <1>3, <1>4
<1>. QED BY <1>3, <1>4, <1>5, SamePath

LEMMA ChildPath ==
  ASSUME NEW p \in Paths, NEW side \in Sides
  PROVE  /\ Child(p, side) \in Paths
         /\ Len(Child(p, side)) = Len(p) + 1
         /\ \A i \in 1..Len(p) : Child(p, side)[i] = p[i]
         /\ Child(p, side)[Len(p) + 1] = side
BY AppendProperties DEF Child, Paths

LEMMA PrefixOfChild ==
  ASSUME NEW p \in Paths, NEW side \in Sides, NEW i \in 0..Len(p)
  PROVE  SubSeq(Child(p, side), 1, i) = SubSeq(p, 1, i)
<1>1. Len(p) \in Nat
  BY WholePath
<1>2. i \in 0..Len(Child(p, side))
  BY <1>1, ChildPath
<1>3. /\ SubSeq(p, 1, i) \in Paths /\ SubSeq(Child(p, side), 1, i) \in Paths
      /\ Len(SubSeq(p, 1, i)) = i /\ Len(SubSeq(Child(p, side), 1, i)) = i
      /\ \A j \in 1..i : SubSeq(p, 1, i)[j] = p[j]
      /\ \A j \in 1..i : SubSeq(Child(p, side), 1, i)[j] = Child(p, side)[j]
  BY <1>2, ChildPath, PrefixIsPath
<1>4. \A j \in 1..i : Child(p, side)[j] = p[j]
  BY <1>1, ChildPath
<1>. QED BY <1>3, <1>4, SamePath

LEMMA ParentOfChild ==
  ASSUME NEW p \in Paths, NEW side \in Sides
  PROVE  /\ SubSeq(Child(p, side), 1, Len(p)) = p
         /\ SubSeq(Child(p, side), 1, Len(p) + 1) = Child(p, side)
BY PrefixOfChild, WholePath, ChildPath

LEMMA NextPrefix ==
  ASSUME NEW p \in Paths, NEW i \in 1..Len(p)
  PROVE  SubSeq(p, 1, i) = Child(SubSeq(p, 1, i - 1), p[i])
<1>1. Len(p) \in Nat /\ p[i] \in Sides
  BY WholePath
<1>2. i \in 0..Len(p) /\ i - 1 \in 0..Len(p) /\ i \in 1..i
  BY <1>1
<1> DEFINE r == SubSeq(p, 1, i - 1)
           s == SubSeq(p, 1, i)
<1>3. /\ r \in Paths /\ Len(r) = i - 1 /\ \A j \in 1..(i - 1) : r[j] = p[j]
      /\ s \in Paths /\ Len(s) = i /\ \A j \in 1..i : s[j] = p[j]
  BY <1>2, PrefixIsPath
<1>4. /\ Child(r, p[i]) \in Paths /\ Len(Child(r, p[i])) = i
      /\ \A j \in 1..(i - 1) : Child(r, p[i])[j] = r[j]
      /\ Child(r, p[i])[i] = p[i]
  <2> HIDE DEF r, s
  <2>1. /\ Child(r, p[i]) \in Paths /\ Len(Child(r, p[i])) = Len(r) + 1
        /\ \A j \in 1..Len(r) : Child(r, p[i])[j] = r[j]
        /\ Child(r, p[i])[Len(r) + 1] = p[i]
    BY <1>1, <1>3, ChildPath
  <2>2. Len(r) + 1 = i /\ Len(r) = i - 1
    BY <1>1, <1>3
  <2>. QED BY <2>1, <2>2
<1>5. \A j \in 1..i : j \in 1..(i - 1) \/ j = i
  BY <1>2
<1>6. \A j \in 1..i : s[j] = Child(r, p[i])[j]
  BY <1>3, <1>4, <1>5
<1>. QED BY <1>3, <1>4, <1>6, SamePath

LEMMA UnderMeans ==
  ASSUME NEW p \in Paths, NEW q \in Paths
  PROVE  IsUnder(p, q) <=> Len(p) <= Len(q) /\ \A i \in 1..Len(p) : q[i] = p[i]
<1>1. Len(p) \in Nat /\ Len(q) \in Nat
  BY WholePath
<1>2. CASE Len(p) <= Len(q)
  <2>1. /\ SubSeq(q, 1, Len(p)) \in Paths
        /\ Len(SubSeq(q, 1, Len(p))) = Len(p)
        /\ \A j \in 1..Len(p) : SubSeq(q, 1, Len(p))[j] = q[j]
    BY <1>1, <1>2, PrefixIsPath
  <2>2. ASSUME \A i \in 1..Len(p) : q[i] = p[i]
        PROVE  SubSeq(q, 1, Len(p)) = p
    BY <2>1, <2>2, SamePath
  <2>. QED BY <1>2, <2>1, <2>2 DEF IsUnder
<1>3. CASE ~(Len(p) <= Len(q))
  BY <1>3 DEF IsUnder
<1>. QED BY <1>2, <1>3

-----------------------------------------------------------------------------
(* The inductive invariant. *)

\* Every node is reached through its parents from the root.
NodesArePaths ==
  /\ DOMAIN tree \subseteq Paths
  /\ << >> \in DOMAIN tree
  /\ \A p \in DOMAIN tree : \A i \in 0..Len(p) : SubSeq(p, 1, i) \in DOMAIN tree

BoundedTree == IsFiniteSet(DOMAIN tree) /\ Cardinality(DOMAIN tree) <= MaxNodes

\* Every pointer leads to an entry, and every entry is some node's.
PointersLead ==
  /\ \A p \in DOMAIN tree : tree[p] \in EntryIds \cup {NULL}
  /\ DOMAIN entries = Pointed(tree)
  /\ \A id \in DOMAIN entries : entries[id] \in [key : Keys, value : Values, live : BOOLEAN]

\* Of two nodes that share an entry one is above the other, and has both children:
\* the walk for their key ends there and a delete finds two children.
SharedFromAbove ==
  \A p, q \in DOMAIN tree :
    p # q /\ HasEntry(p) /\ tree[p] = tree[q] =>
      \/ IsUnder(p, q) /\ Children(p) = Sides
      \/ IsUnder(q, p) /\ Children(q) = Sides

IInv == NodesArePaths /\ BoundedTree /\ PointersLead /\ SharedFromAbove /\ NoDangling

LEMMA InvariantTypes == IInv => TypeOK
<1> SUFFICES ASSUME IInv PROVE TypeOK
  OBVIOUS
<1>1. \A p \in DOMAIN tree : \A i \in 1..Len(p) : p[i] \in Sides
  BY WholePath DEF IInv, NodesArePaths
<1>. QED BY <1>1 DEF IInv, NodesArePaths, PointersLead, TypeOK

-----------------------------------------------------------------------------
(* The walk for a key. *)

\* A set of natural numbers has a smallest one, and a largest one below a bound.
LEMMA Smallest ==
  ASSUME NEW S, S \subseteq Nat, S # {}
  PROVE  \E f \in S : \A g \in S : f <= g
<1> DEFINE R == {p \in Nat \X Nat : p[1] < p[2]}
<1>1. IsWellFoundedOn(R, Nat)
  BY NatLessThanWellFounded DEF OpToRel
<1>2. PICK f \in S : \A g \in S : ~(<<g, f>> \in R)
  BY <1>1, WFMin
<1>3. ASSUME NEW g \in S, g < f
      PROVE  FALSE
  <2>1. <<g, f>> \in Nat \X Nat /\ <<g, f>>[1] = g /\ <<g, f>>[2] = f
    OBVIOUS
  <2>2. <<g, f>> \in R
    BY <1>3, <2>1
  <2>. QED BY <1>2, <2>2
<1>. QED BY <1>3

LEMMA Largest ==
  ASSUME NEW S, S \subseteq Nat, S # {}, NEW b \in Nat, \A s \in S : s <= b
  PROVE  \E f \in S : \A g \in S : g <= f
<1> DEFINE below == {n \in Nat : b - n \in S}
<1>1. below \subseteq Nat
  OBVIOUS
<1>2. \A s \in S : b - s \in below
  OBVIOUS
<1>3. below # {}
  BY <1>2
<1>4. PICK n \in below : \A m \in below : n <= m
  BY <1>1, <1>3, Smallest
<1>5. b - n \in S
  BY <1>4
<1>6. ASSUME NEW g \in S
      PROVE  g <= b - n
  <2>1. g \in Nat /\ b - g \in below /\ n \in Nat
    BY <1>2
  <2>2. n <= b - g
    BY <1>4, <2>1
  <2>. QED BY <2>1, <2>2
<1>. QED BY <1>5, <1>6

\* Two nodes that the walk for a key goes through are one above the other.
LEMMA OneWalk ==
  ASSUME NEW k, NEW p \in Paths, NEW q \in Paths, Len(p) <= Len(q),
         OnWalk(k, p), OnWalk(k, q)
  PROVE  IsUnder(p, q)
<1> DEFINE differ == {i \in 1..Len(p) : q[i] # p[i]}
<1>1. Len(p) \in Nat /\ Len(q) \in Nat
  BY WholePath
<1>2. ASSUME differ # {}
      PROVE  FALSE
  <2>1. differ \subseteq Nat
    BY <1>1
  <2>2. PICK i \in differ : \A j \in differ : i <= j
    BY <1>2, <2>1, Smallest
  <2> DEFINE above == SubSeq(p, 1, i - 1)
  <2>3. i \in 1..Len(p) /\ i \in 1..Len(q) /\ i - 1 \in 0..Len(p) /\ i - 1 \in 0..Len(q)
         /\ i - 1 \in Nat
    BY <1>1
  <2>4. \A j \in 1..(i - 1) : j \in 1..Len(p) /\ j \notin differ
    <3>1. SUFFICES ASSUME NEW j \in 1..(i - 1) PROVE j \in 1..Len(p) /\ j \notin differ
      OBVIOUS
    <3>2. j \in 1..Len(p) /\ ~(i <= j)
      BY <1>1, <2>3
    <3>. QED BY <2>2, <3>2
  <2>5. /\ above \in Paths /\ Len(above) = i - 1 /\ \A j \in 1..(i - 1) : above[j] = p[j]
        /\ SubSeq(q, 1, i - 1) \in Paths /\ Len(SubSeq(q, 1, i - 1)) = i - 1
        /\ \A j \in 1..(i - 1) : SubSeq(q, 1, i - 1)[j] = q[j]
    BY <2>3, PrefixIsPath
  <2>6. \A j \in 1..(i - 1) : above[j] = SubSeq(q, 1, i - 1)[j]
    BY <2>4, <2>5
  <2>7. SubSeq(q, 1, i - 1) = above
    BY <2>5, <2>6, SamePath
  <2>8. p[i] = SideOf(k, EntryAt(above).key)
    BY <2>3 DEF OnWalk
  <2>9. q[i] = SideOf(k, EntryAt(above).key)
    BY <2>3, <2>7 DEF OnWalk
  <2>. QED BY <2>8, <2>9
<1>3. \A i \in 1..Len(p) : q[i] = p[i]
  BY <1>2
<1>. QED BY <1>3, UnderMeans

\* A node is no deeper than the tree has nodes.
LEMMA Depth ==
  ASSUME NodesArePaths, IsFiniteSet(DOMAIN tree), NEW p \in DOMAIN tree
  PROVE  /\ Len(p) \in Nat /\ Cardinality(DOMAIN tree) \in Nat
         /\ Len(p) < Cardinality(DOMAIN tree)
<1> DEFINE above == [i \in 0..Len(p) |-> SubSeq(p, 1, i)]
<1>1. p \in Paths /\ Len(p) \in Nat
  BY WholePath DEF NodesArePaths
<1>2. \A i \in 0..Len(p) : above[i] \in DOMAIN tree /\ Len(above[i]) = i
  BY <1>1, PrefixIsPath DEF NodesArePaths
<1>3. above \in Injection(0..Len(p), DOMAIN tree)
  <2>1. above \in [0..Len(p) -> DOMAIN tree]
    BY <1>2
  <2>2. \A i, j \in 0..Len(p) : above[i] = above[j] => i = j
    BY <1>2
  <2>. QED BY <2>1, <2>2 DEF Injection, IsInjective
<1>4. Cardinality(0..Len(p)) <= Cardinality(DOMAIN tree)
  BY <1>3, FS_Injection
<1>5. Cardinality(0..Len(p)) = Len(p) + 1
  BY <1>1, FS_Interval
<1>6. Cardinality(DOMAIN tree) \in Nat
  BY FS_CardinalityType
<1>. QED BY <1>1, <1>4, <1>5, <1>6

\* The walk for k ends at p.
Ends(k, p) ==
  /\ p \in DOMAIN tree /\ OnWalk(k, p)
  /\ HasEntry(p) /\ EntryAt(p).key # k
       => Child(p, SideOf(k, EntryAt(p).key)) \notin DOMAIN tree

LEMMA SideIsSide == ASSUME NEW k, NEW m PROVE SideOf(k, m) \in Sides
BY DEF SideOf, Sides

LEMMA WalkGoesOn ==
  ASSUME NEW k, NEW p \in Paths, OnWalk(k, p), HasEntry(p), EntryAt(p).key # k
  PROVE  OnWalk(k, Child(p, SideOf(k, EntryAt(p).key)))
<1> DEFINE side == SideOf(k, EntryAt(p).key)
           c == Child(p, side)
<1>1. side \in Sides /\ Len(p) \in Nat
  BY SideIsSide, WholePath
<1>2. /\ Len(c) = Len(p) + 1 /\ \A i \in 1..Len(p) : c[i] = p[i]
      /\ c[Len(p) + 1] = side
      /\ \A i \in 0..Len(p) : SubSeq(c, 1, i) = SubSeq(p, 1, i)
      /\ SubSeq(p, 1, Len(p)) = p
  BY <1>1, ChildPath, PrefixOfChild, WholePath
<1> HIDE DEF c
<1>3. ASSUME NEW i \in 1..Len(c)
      PROVE  /\ HasEntry(SubSeq(c, 1, i - 1))
             /\ EntryAt(SubSeq(c, 1, i - 1)).key # k
             /\ c[i] = SideOf(k, EntryAt(SubSeq(c, 1, i - 1)).key)
  <2>1. CASE i \in 1..Len(p)
    <3>1. i - 1 \in 0..Len(p)
      BY <1>1, <2>1
    <3>. QED BY <1>2, <2>1, <3>1 DEF OnWalk
  <2>2. CASE i = Len(p) + 1
    <3>1. SubSeq(c, 1, i - 1) = p
      BY <1>1, <1>2, <2>2
    <3>. QED BY <1>2, <2>2, <3>1
  <2>. QED BY <1>1, <1>2, <2>1, <2>2
<1>. QED BY <1>3 DEF OnWalk, c

LEMMA EndIs ==
  ASSUME NodesArePaths, NEW k, NEW p, Ends(k, p)
  PROVE  p = End(k)
<1>1. p \in DOMAIN tree /\ OnWalk(k, p) /\ p \in Paths /\ Len(p) \in Nat
  BY WholePath DEF NodesArePaths, Ends
<1>2. ASSUME NEW q \in DOMAIN tree, OnWalk(k, q)
      PROVE  Len(q) \in Nat /\ Len(q) <= Len(p)
  <2>1. q \in Paths /\ Len(q) \in Nat
    BY WholePath DEF NodesArePaths
  <2>2. ASSUME Len(q) > Len(p)
        PROVE  FALSE
    <3> DEFINE i == Len(p) + 1
    <3>1. i \in 1..Len(q) /\ Len(p) \in 0..Len(q) /\ i - 1 = Len(p) /\ Len(p) <= Len(q)
           /\ i \in 0..Len(q)
      BY <1>1, <2>1, <2>2
    <3>2. SubSeq(q, 1, Len(p)) = p
      BY <1>1, <1>2, <2>1, <3>1, OneWalk DEF IsUnder
    <3>3. SubSeq(q, 1, i - 1) = p
      BY <3>1, <3>2
    <3>4. HasEntry(p) /\ EntryAt(p).key # k /\ q[i] = SideOf(k, EntryAt(p).key)
      BY <1>2, <3>1, <3>3 DEF OnWalk
    <3>5. SubSeq(q, 1, i) = Child(p, q[i])
      BY <2>1, <3>1, <3>3, NextPrefix
    <3>6. SubSeq(q, 1, i) \in DOMAIN tree
      BY <3>1 DEF NodesArePaths
    <3>. QED BY <3>4, <3>5, <3>6 DEF Ends
  <2>. QED BY <1>1, <2>1, <2>2
<1> DEFINE e == End(k)
<1>3. /\ e \in DOMAIN tree /\ OnWalk(k, e)
      /\ \A q \in DOMAIN tree : OnWalk(k, q) => Len(q) <= Len(e)
  BY <1>1, <1>2 DEF End
<1> HIDE DEF e
<1>4. e \in Paths /\ Len(e) = Len(p)
  BY <1>1, <1>2, <1>3 DEF NodesArePaths
<1>5. SubSeq(e, 1, Len(p)) = p
  BY <1>1, <1>3, <1>4, OneWalk DEF IsUnder
<1>6. e = p
  BY <1>4, <1>5, WholePath
<1>. QED BY <1>6 DEF e

LEMMA WalkEnds ==
  ASSUME NodesArePaths, IsFiniteSet(DOMAIN tree), NEW k
  PROVE  Ends(k, End(k))
<1> DEFINE lengths == {Len(q) : q \in {r \in DOMAIN tree : OnWalk(k, r)}}
           n == Cardinality(DOMAIN tree)
<1>1. n \in Nat /\ \A q \in DOMAIN tree : Len(q) \in Nat /\ Len(q) <= n
  BY Depth DEF NodesArePaths
<1>2. << >> \in DOMAIN tree /\ OnWalk(k, << >>)
  BY EmptySeq DEF NodesArePaths, OnWalk
<1>3. lengths \subseteq Nat /\ lengths # {} /\ \A s \in lengths : s <= n
  BY <1>1, <1>2
<1> HIDE DEF n
<1>4. PICK f \in lengths : \A g \in lengths : g <= f
  BY <1>1, <1>3, Largest
<1>5. PICK p \in DOMAIN tree : OnWalk(k, p) /\ f = Len(p)
  BY <1>4
<1>6. \A q \in DOMAIN tree : OnWalk(k, q) => Len(q) <= Len(p)
  BY <1>4, <1>5
<1>7. ASSUME HasEntry(p), EntryAt(p).key # k,
             Child(p, SideOf(k, EntryAt(p).key)) \in DOMAIN tree
      PROVE  FALSE
  <2>1. p \in Paths /\ Len(p) \in Nat /\ SideOf(k, EntryAt(p).key) \in Sides
    BY SideIsSide, WholePath DEF NodesArePaths
  <2>2. OnWalk(k, Child(p, SideOf(k, EntryAt(p).key)))
    BY <1>5, <1>7, <2>1, WalkGoesOn
  <2>3. Len(Child(p, SideOf(k, EntryAt(p).key))) = Len(p) + 1
    BY <2>1, ChildPath
  <2>. QED BY <1>6, <1>7, <2>1, <2>2, <2>3
<1>8. Ends(k, p)
  BY <1>5, <1>7 DEF Ends
<1>. QED BY <1>8, EndIs

\* The same, in a form that can be used of the next state.
LEMMA EndsMeet == NodesArePaths => \A k, p : Ends(k, p) => p = End(k)
BY EndIs

LEMMA EndIsNode ==
  ASSUME IInv, NEW k
  PROVE  /\ End(k) \in DOMAIN tree /\ End(k) \in Paths /\ Len(End(k)) \in Nat
         /\ OnWalk(k, End(k))
<1>1. Ends(k, End(k))
  BY WalkEnds DEF IInv, BoundedTree
<1>. QED BY <1>1, WholePath DEF Ends, IInv, NodesArePaths

-----------------------------------------------------------------------------
(* A put. *)

\* There is an id for one more entry when a node has none or one may be added.
LEMMA FreeIdIsFree ==
  ASSUME IInv,
         \/ Cardinality(DOMAIN tree) < MaxNodes
         \/ \E p \in DOMAIN tree : ~HasEntry(p)
  PROVE  FreeId \in EntryIds \ DOMAIN entries
<1> DEFINE full == {p \in DOMAIN tree : HasEntry(p)}
           f == [p \in full |-> tree[p]]
<1>1. /\ IsFiniteSet(DOMAIN tree) /\ Cardinality(DOMAIN tree) \in Nat
      /\ MaxNodes \in Nat /\ Cardinality(DOMAIN tree) <= MaxNodes
  BY FS_CardinalityType, TreeAssumption DEF IInv, BoundedTree
<1>2. IsFiniteSet(full) /\ Cardinality(full) \in Nat /\ Cardinality(full) < MaxNodes
  <2>1. CASE Cardinality(DOMAIN tree) < MaxNodes
    <3>1. IsFiniteSet(full) /\ Cardinality(full) <= Cardinality(DOMAIN tree)
      BY <1>1, FS_Subset
    <3>2. Cardinality(full) \in Nat
      BY <3>1, FS_CardinalityType
    <3>. QED BY <1>1, <2>1, <3>1, <3>2
  <2>2. CASE \E p \in DOMAIN tree : ~HasEntry(p)
    <3>1. PICK p \in DOMAIN tree : ~HasEntry(p)
      BY <2>2
    <3>2. /\ IsFiniteSet(DOMAIN tree \ {p})
          /\ Cardinality(DOMAIN tree \ {p}) = Cardinality(DOMAIN tree) - 1
      BY <1>1, FS_RemoveElement
    <3>3. full \in SUBSET (DOMAIN tree \ {p})
      BY <3>1
    <3>4. IsFiniteSet(full) /\ Cardinality(full) <= Cardinality(DOMAIN tree \ {p})
      BY <3>2, <3>3, FS_Subset
    <3>5. Cardinality(full) \in Nat
      BY <3>4, FS_CardinalityType
    <3>. QED BY <1>1, <3>2, <3>4, <3>5
  <2>. QED BY <2>1, <2>2
<1>3. f \in Surjection(full, Pointed(tree))
  <2>1. \A p \in full : f[p] \in Pointed(tree)
    BY DEF Pointed, HasEntry
  <2>2. \A id \in Pointed(tree) : \E p \in full : f[p] = id
    BY DEF Pointed, HasEntry
  <2>. QED BY <2>1, <2>2 DEF Surjection
<1>4. IsFiniteSet(Pointed(tree)) /\ Cardinality(Pointed(tree)) <= Cardinality(full)
  BY <1>2, <1>3, FS_Surjection
<1>5. Cardinality(Pointed(tree)) \in Nat
  BY <1>4, FS_CardinalityType
<1>6. Cardinality(EntryIds) = MaxNodes
  BY <1>1, FS_Interval DEF EntryIds
<1>7. ~(EntryIds \subseteq Pointed(tree))
  <2>1. ASSUME EntryIds \subseteq Pointed(tree)
        PROVE  FALSE
    <3>1. Cardinality(EntryIds) <= Cardinality(Pointed(tree))
      BY <1>4, <2>1, FS_Subset
    <3>. QED BY <1>1, <1>2, <1>4, <1>5, <1>6, <3>1
  <2>. QED BY <2>1
<1> DEFINE free == EntryIds \ DOMAIN entries
<1>8. free # {} /\ free \subseteq Nat
  BY <1>1, <1>7 DEF IInv, PointersLead, EntryIds
<1>9. PICK id \in free : \A other \in free : id <= other
  BY <1>8, Smallest
<1>. QED BY <1>9 DEF FreeId

\* The two puts that store a new entry: at an empty node, or at a new one.
Stores(k, v, n, id) ==
  /\ n \in Paths /\ OnWalk(k, n)
  /\ \A i \in 0..Len(n) : SubSeq(n, 1, i) \in DOMAIN tree \cup {n}
  /\ n \in DOMAIN tree => ~HasEntry(n)
  /\ n \notin DOMAIN tree => \A side \in Sides : Child(n, side) \notin DOMAIN tree
  /\ id \in EntryIds \ DOMAIN entries
  /\ DOMAIN tree' = DOMAIN tree \cup {n}
  /\ Cardinality(DOMAIN tree') <= MaxNodes
  /\ tree'[n] = id /\ \A p \in DOMAIN tree : p # n => tree'[p] = tree[p]
  /\ DOMAIN entries' = DOMAIN entries \cup {id}
  /\ entries'[id] = NewEntry(k, v)
  /\ \A other \in DOMAIN entries : entries'[other] = entries[other]

LEMMA PutFillsStores ==
  ASSUME IInv, NEW k \in Keys, NEW v \in Values, PutFills(k, v)
  PROVE  \E id : Stores(k, v, End(k), id)
<1> DEFINE n == End(k)
<1>1. n \in DOMAIN tree /\ n \in Paths /\ OnWalk(k, n) /\ ~HasEntry(n)
  BY EndIsNode DEF PutFills
<1>2. FreeId \in EntryIds \ DOMAIN entries
  BY <1>1, FreeIdIsFree
<1>3. tree' = [tree EXCEPT ![n] = FreeId]
  BY DEF PutFills
<1>4. /\ DOMAIN entries' = DOMAIN entries \cup {FreeId}
      /\ entries'[FreeId] = NewEntry(k, v)
      /\ \A other \in DOMAIN entries : entries'[other] = entries[other]
  BY <1>2 DEF PutFills
<1>5. \A i \in 0..Len(n) : SubSeq(n, 1, i) \in DOMAIN tree
  BY <1>1 DEF IInv, NodesArePaths
<1>6. Cardinality(DOMAIN tree) <= MaxNodes
  BY DEF IInv, BoundedTree
<1> HIDE DEF n
<1>7. /\ DOMAIN tree' = DOMAIN tree /\ DOMAIN tree = DOMAIN tree \cup {n}
      /\ tree'[n] = FreeId /\ \A p \in DOMAIN tree : p # n => tree'[p] = tree[p]
  BY <1>1, <1>3
<1>8. Stores(k, v, n, FreeId)
  BY <1>1, <1>2, <1>4, <1>5, <1>6, <1>7 DEF Stores
<1>. QED BY <1>8 DEF n

\* Where a put adds a node there is none, and so there is none below it.
LEMMA NothingBelow ==
  ASSUME NodesArePaths, NEW n \in Paths, n \notin DOMAIN tree, NEW side \in Sides
  PROVE  Child(n, side) \notin DOMAIN tree
<1>1. ASSUME Child(n, side) \in DOMAIN tree
      PROVE  FALSE
  <2>1. Len(n) \in 0..Len(Child(n, side)) /\ SubSeq(Child(n, side), 1, Len(n)) = n
    BY ChildPath, ParentOfChild, WholePath
  <2>2. SubSeq(Child(n, side), 1, Len(n)) \in DOMAIN tree
    BY <1>1, <2>1 DEF NodesArePaths
  <2>. QED BY <2>1, <2>2
<1>. QED BY <1>1

LEMMA PutGrowsStores ==
  ASSUME IInv, NEW k \in Keys, NEW v \in Values, PutGrows(k, v)
  PROVE  \E id : Stores(k, v, Child(End(k), SideOf(k, EntryAt(End(k)).key)), id)
<1> DEFINE e == End(k)
           n == Child(e, SideOf(k, EntryAt(e).key))
<1>1. /\ e \in DOMAIN tree /\ e \in Paths /\ Len(e) \in Nat /\ OnWalk(k, e) /\ HasEntry(e)
      /\ EntryAt(e).key # k
  BY EndIsNode DEF PutGrows, Found
<1>2. n \notin DOMAIN tree
  <2>1. Ends(k, End(k))
    BY WalkEnds DEF IInv, BoundedTree
  <2>. QED BY <1>1, <2>1 DEF Ends
<1>3. /\ n \in Paths /\ Len(n) = Len(e) + 1 /\ SubSeq(n, 1, Len(n)) = n
      /\ \A i \in 0..Len(e) : SubSeq(n, 1, i) = SubSeq(e, 1, i)
  BY <1>1, SideIsSide, ChildPath, PrefixOfChild, WholePath
<1>4. OnWalk(k, n)
  BY <1>1, WalkGoesOn
<1>5. FreeId \in EntryIds \ DOMAIN entries
  BY FreeIdIsFree DEF PutGrows
<1>6. tree' = [p \in DOMAIN tree \cup {n} |-> IF p = n THEN FreeId ELSE tree[p]]
  BY DEF PutGrows
<1>7. /\ DOMAIN entries' = DOMAIN entries \cup {FreeId}
      /\ entries'[FreeId] = NewEntry(k, v)
      /\ \A other \in DOMAIN entries : entries'[other] = entries[other]
  BY <1>5 DEF PutGrows
<1>8. \A side \in Sides : Child(n, side) \notin DOMAIN tree
  BY <1>2, <1>3, NothingBelow DEF IInv
<1>9. Cardinality(DOMAIN tree \cup {n}) <= MaxNodes
  <2>1. /\ Cardinality(DOMAIN tree \cup {n}) = Cardinality(DOMAIN tree) + 1
        /\ Cardinality(DOMAIN tree) \in Nat
    BY <1>2, FS_AddElement, FS_CardinalityType DEF IInv, BoundedTree
  <2>2. Cardinality(DOMAIN tree) < MaxNodes
    BY DEF PutGrows
  <2>. QED BY <2>1, <2>2, TreeAssumption
<1>10. \A i \in 0..Len(n) : SubSeq(n, 1, i) \in DOMAIN tree \cup {n}
  <2>1. SUFFICES ASSUME NEW i \in 0..Len(n)
                 PROVE  SubSeq(n, 1, i) \in DOMAIN tree \cup {n}
    OBVIOUS
  <2>2. i \in 0..Len(e) \/ i = Len(n)
    BY <1>1, <1>3
  <2>3. CASE i \in 0..Len(e)
    <3>1. SubSeq(e, 1, i) \in DOMAIN tree
      BY <1>1, <2>3 DEF IInv, NodesArePaths
    <3>. QED BY <1>3, <2>3, <3>1
  <2>4. CASE i = Len(n)
    BY <1>3, <2>4
  <2>. QED BY <2>2, <2>3, <2>4
<1> HIDE DEF n
<1>11. /\ DOMAIN tree' = DOMAIN tree \cup {n}
       /\ tree'[n] = FreeId /\ \A p \in DOMAIN tree : p # n => tree'[p] = tree[p]
  BY <1>6
<1>12. Stores(k, v, n, FreeId)
  BY <1>2, <1>3, <1>4, <1>5, <1>7, <1>8, <1>9, <1>10, <1>11 DEF Stores
<1>. QED BY <1>12 DEF n

LEMMA StoresKeeps ==
  ASSUME IInv, NEW k \in Keys, NEW v \in Values, NEW n, NEW id, Stores(k, v, n, id)
  PROVE  IInv'
<1>1. NodesArePaths'
  <2>1. DOMAIN tree' \subseteq Paths /\ << >> \in DOMAIN tree'
    BY DEF IInv, NodesArePaths, Stores
  <2>2. ASSUME NEW p \in DOMAIN tree', NEW i \in 0..Len(p)
        PROVE  SubSeq(p, 1, i) \in DOMAIN tree'
    BY DEF IInv, NodesArePaths, Stores
  <2>. QED BY <2>1, <2>2 DEF NodesArePaths
<1>2. BoundedTree'
  BY FS_AddElement DEF IInv, BoundedTree, Stores
<1>3. \A p \in DOMAIN tree : tree[p] \in DOMAIN entries \cup {NULL}
  BY DEF IInv, PointersLead, Pointed
<1>4. PointersLead'
  <2>1. \A p \in DOMAIN tree' : tree'[p] \in EntryIds \cup {NULL}
    BY DEF IInv, PointersLead, Stores
  <2>2. Pointed(tree') \subseteq DOMAIN entries'
    BY <1>3 DEF Pointed, Stores
  <2>3. ASSUME NEW x \in DOMAIN entries'
        PROVE  x \in Pointed(tree')
    <3>1. CASE x = id
      BY <3>1 DEF Pointed, Stores, EntryIds, NULL
    <3>2. CASE x # id
      <4>1. x \in Pointed(tree)
        BY <3>2 DEF Stores, IInv, PointersLead
      <4>2. PICK p \in DOMAIN tree : tree[p] = x /\ x # NULL
        BY <4>1 DEF Pointed
      <4>3. p # n
        BY <4>2 DEF Stores, HasEntry
      <4>. QED BY <4>2, <4>3 DEF Stores, Pointed
    <3>. QED BY <3>1, <3>2
  <2>4. ASSUME NEW x \in DOMAIN entries'
        PROVE  entries'[x] \in [key : Keys, value : Values, live : BOOLEAN]
    <3>1. CASE x = id
      <4>1. NewEntry(k, v) \in [key : Keys, value : Values, live : BOOLEAN]
        BY DEF NewEntry
      <4>. QED BY <3>1, <4>1 DEF Stores
    <3>2. CASE x # id
      <4>1. x \in DOMAIN entries /\ entries'[x] = entries[x]
        BY <2>4, <3>2 DEF Stores
      <4>. QED BY <4>1 DEF IInv, PointersLead
    <3>. QED BY <3>1, <3>2
  <2>. QED BY <2>1, <2>2, <2>3, <2>4 DEF PointersLead
<1>5. SharedFromAbove'
  <2>1. SUFFICES ASSUME NEW p \in DOMAIN tree', NEW q \in DOMAIN tree', p # q,
                        tree'[p] # NULL, tree'[p] = tree'[q]
                 PROVE  \/ IsUnder(p, q) /\ Children(p)' = Sides
                        \/ IsUnder(q, p) /\ Children(q)' = Sides
    BY DEF SharedFromAbove, HasEntry
  <2>2. p # n /\ q # n
    <3>1. \A r \in DOMAIN tree : tree[r] # id
      BY <1>3 DEF Stores, EntryIds, NULL
    <3>. QED BY <2>1, <3>1 DEF Stores
  <2>3. /\ p \in DOMAIN tree /\ q \in DOMAIN tree /\ HasEntry(p) /\ tree[p] = tree[q]
    BY <2>1, <2>2 DEF Stores, HasEntry
  <2>4. \/ IsUnder(p, q) /\ Children(p) = Sides
        \/ IsUnder(q, p) /\ Children(q) = Sides
    BY <2>1, <2>3 DEF IInv, SharedFromAbove
  <2>5. \A r : Children(r) \subseteq Children(r)' /\ Children(r)' \subseteq Sides
    BY DEF Children, Stores
  <2>. QED BY <2>4, <2>5
<1>6. NoDangling'
  <2>1. SUFFICES ASSUME NEW p \in DOMAIN tree', tree'[p] # NULL
                 PROVE  entries'[tree'[p]].live
    BY DEF NoDangling, HasEntry, EntryAt
  <2>2. CASE p = n
    BY <2>2 DEF Stores, NewEntry
  <2>3. CASE p # n
    <3>1. /\ p \in DOMAIN tree /\ tree'[p] = tree[p] /\ HasEntry(p)
          /\ tree[p] \in DOMAIN entries
      BY <1>3, <2>1, <2>3 DEF Stores, HasEntry
    <3>. QED BY <3>1 DEF Stores, IInv, NoDangling, EntryAt
  <2>. QED BY <2>2, <2>3
<1>. QED BY <1>1, <1>2, <1>4, <1>5, <1>6 DEF IInv

LEMMA FoundEntry ==
  ASSUME IInv, NEW k, Found(k)
  PROVE  /\ tree[End(k)] \in DOMAIN entries /\ tree[End(k)] # NULL
         /\ entries[tree[End(k)]].key = k
         /\ entries[tree[End(k)]] \in [key : Keys, value : Values, live : BOOLEAN]
<1>1. tree[End(k)] \in DOMAIN entries
  BY EndIsNode DEF Found, HasEntry, IInv, PointersLead, Pointed
<1>. QED BY <1>1 DEF Found, HasEntry, EntryAt, IInv, PointersLead

\* What a put that finds its key changes.
Rebinds(k, v, id) ==
  /\ id \in DOMAIN entries /\ entries[id].key = k
  /\ UNCHANGED tree
  /\ DOMAIN entries' = DOMAIN entries
  /\ entries'[id] = [key |-> k, value |-> v, live |-> entries[id].live]
  /\ \A other \in DOMAIN entries : other # id => entries'[other] = entries[other]

LEMMA PutReplacesRebinds ==
  ASSUME IInv, NEW k \in Keys, NEW v \in Values, PutReplaces(k, v)
  PROVE  Rebinds(k, v, tree[End(k)])
<1> DEFINE id == tree[End(k)]
<1>1. /\ id \in DOMAIN entries /\ entries[id].key = k
      /\ entries[id] \in [key : Keys, value : Values, live : BOOLEAN]
  BY FoundEntry DEF PutReplaces
<1>2. entries' = [entries EXCEPT ![id].value = v] /\ UNCHANGED tree
  BY DEF PutReplaces
<1> HIDE DEF id
<1>3. [entries[id] EXCEPT !.value = v] = [key |-> k, value |-> v, live |-> entries[id].live]
  BY <1>1
<1>4. entries'[id] = [entries[id] EXCEPT !.value = v]
  BY <1>1, <1>2
<1>5. /\ DOMAIN entries' = DOMAIN entries
      /\ \A other \in DOMAIN entries : other # id => entries'[other] = entries[other]
  BY <1>2
<1>6. Rebinds(k, v, id)
  BY <1>1, <1>2, <1>3, <1>4, <1>5 DEF Rebinds
<1>. QED BY <1>6 DEF id

LEMMA RebindsKeeps ==
  ASSUME IInv, NEW k \in Keys, NEW v \in Values, NEW id, Rebinds(k, v, id)
  PROVE  IInv'
<1>1. tree' = tree
  BY DEF Rebinds
<1>2. NodesArePaths' /\ BoundedTree' /\ SharedFromAbove'
  BY <1>1 DEF IInv, NodesArePaths, BoundedTree, SharedFromAbove, HasEntry, Children
<1>3. PointersLead'
  <2>1. \A p \in DOMAIN tree' : tree'[p] \in EntryIds \cup {NULL}
    BY <1>1 DEF IInv, PointersLead
  <2>2. DOMAIN entries' = Pointed(tree')
    BY <1>1 DEF IInv, PointersLead, Rebinds
  <2>3. \A x \in DOMAIN entries' :
          entries'[x] \in [key : Keys, value : Values, live : BOOLEAN]
    BY DEF Rebinds, IInv, PointersLead
  <2>. QED BY <2>1, <2>2, <2>3 DEF PointersLead
<1>4. \A x \in DOMAIN entries : entries'[x].live = entries[x].live
  BY DEF Rebinds
<1>5. \A p \in DOMAIN tree : HasEntry(p) => tree[p] \in DOMAIN entries
  BY DEF IInv, PointersLead, Pointed, HasEntry
<1>6. NoDangling'
  BY <1>1, <1>4, <1>5 DEF NoDangling, IInv, HasEntry, EntryAt
<1>. QED BY <1>2, <1>3, <1>6 DEF IInv

LEMMA PutCases ==
  ASSUME IInv, NEW k \in Keys, NEW v \in Values, Put(k, v)
  PROVE  \/ \E id : Rebinds(k, v, id)
         \/ \E n, id : Stores(k, v, n, id)
BY PutFillsStores, PutGrowsStores, PutReplacesRebinds DEF Put

LEMMA PutKeeps ==
  ASSUME IInv, NEW k \in Keys, NEW v \in Values, Put(k, v)
  PROVE  IInv'
BY PutCases, StoresKeeps, RebindsKeeps

-----------------------------------------------------------------------------
(* A delete. *)

\* Where the walk for a key stops before two children, no other node has its entry.
LEMMA OnlyPointer ==
  ASSUME IInv, NEW k, Found(k), Children(End(k)) # Sides,
         NEW q \in DOMAIN tree, tree[q] = tree[End(k)]
  PROVE  q = End(k)
<1> DEFINE p == End(k)
<1>1. /\ p \in DOMAIN tree /\ p \in Paths /\ Len(p) \in Nat /\ OnWalk(k, p)
      /\ q \in Paths /\ Len(q) \in Nat
  BY EndIsNode, WholePath DEF IInv, NodesArePaths
<1>2. tree[p] # NULL /\ entries[tree[p]].key = k
  BY FoundEntry
<1> HIDE DEF p
<1>3. ASSUME q # p
      PROVE  FALSE
  <2>1. \/ IsUnder(p, q) /\ Children(p) = Sides
        \/ IsUnder(q, p) /\ Children(q) = Sides
    BY <1>1, <1>2, <1>3 DEF p, IInv, SharedFromAbove, HasEntry
  <2>2. IsUnder(q, p)
    BY <2>1 DEF p
  <2>3. Len(q) <= Len(p) /\ SubSeq(p, 1, Len(q)) = q
    BY <2>2 DEF IsUnder
  <2>4. Len(q) # Len(p)
    BY <1>1, <1>3, <2>3, WholePath
  <2> DEFINE i == Len(q) + 1
  <2>5. i \in 1..Len(p) /\ SubSeq(p, 1, i - 1) = q
    BY <1>1, <2>3, <2>4
  <2>6. EntryAt(q).key # k
    BY <1>1, <2>5 DEF OnWalk
  <2>. QED BY <1>2, <2>6 DEF EntryAt, p
<1>. QED BY <1>3 DEF p

\* A delete forgets the entries that no node points to any more, among them the one
\* it has destroyed; the others are as before.
EntriesStay ==
  /\ Pointed(tree') \subseteq DOMAIN entries
  /\ DOMAIN entries' = Pointed(tree')
  /\ \A id \in Pointed(tree') : entries'[id] = entries[id]

LEMMA KeepStays ==
  ASSUME Pointed(tree') \subseteq DOMAIN entries, Keep(entries)
  PROVE  EntriesStay
BY DEF EntriesStay, Keep

LEMMA DestroyStays ==
  ASSUME NEW id, Pointed(tree') \subseteq DOMAIN entries \ {id}, Destroy(id)
  PROVE  EntriesStay
BY DEF EntriesStay, Keep, Destroy

LEMMA StayKeeps ==
  ASSUME IInv, EntriesStay, NodesArePaths', BoundedTree', SharedFromAbove'
  PROVE  IInv'
<1>1. DOMAIN entries \subseteq EntryIds /\ NULL \notin DOMAIN entries
  BY DEF IInv, PointersLead, Pointed
<1>2. \A p \in DOMAIN tree' : tree'[p] \in Pointed(tree') \cup {NULL}
  BY DEF Pointed
<1>3. PointersLead'
  <2>1. \A p \in DOMAIN tree' : tree'[p] \in EntryIds \cup {NULL}
    BY <1>1, <1>2 DEF EntriesStay
  <2>2. \A x \in DOMAIN entries' :
          entries'[x] \in [key : Keys, value : Values, live : BOOLEAN]
    BY DEF EntriesStay, IInv, PointersLead
  <2>. QED BY <2>1, <2>2 DEF PointersLead, EntriesStay
<1>4. \A id \in DOMAIN entries : entries[id].live
  BY DEF IInv, PointersLead, NoDangling, HasEntry, EntryAt, Pointed
<1>5. NoDangling'
  <2>1. SUFFICES ASSUME NEW p \in DOMAIN tree', tree'[p] # NULL
                 PROVE  entries'[tree'[p]].live
    BY DEF NoDangling, HasEntry, EntryAt
  <2>2. tree'[p] \in Pointed(tree')
    BY <1>2, <2>1
  <2>. QED BY <1>4, <2>2 DEF EntriesStay
<1>. QED BY <1>3, <1>5 DEF IInv

LEMMA DelLeafKeeps ==
  ASSUME IInv, NEW k, Found(k), DelLeaf(End(k))
  PROVE  IInv' /\ EntriesStay
<1> DEFINE p == End(k)
<1>1. p \in DOMAIN tree /\ Children(p) # Sides
  BY EndIsNode DEF DelLeaf, Sides
<1>2. \A q \in DOMAIN tree : tree[q] = tree[p] => q = p
  BY <1>1, OnlyPointer
<1>3. tree' = [tree EXCEPT ![p] = NULL] /\ Destroy(tree[p])
  BY DEF DelLeaf
<1> HIDE DEF p
<1>4. /\ DOMAIN tree' = DOMAIN tree /\ tree'[p] = NULL
      /\ \A q \in DOMAIN tree : q # p => tree'[q] = tree[q]
  BY <1>1, <1>3
<1>5. Pointed(tree') \subseteq DOMAIN entries \ {tree[p]}
  <2>1. ASSUME NEW x \in Pointed(tree')
        PROVE  x \in DOMAIN entries \ {tree[p]}
    <3>1. PICK q \in DOMAIN tree' : tree'[q] = x /\ x # NULL
      BY DEF Pointed
    <3>2. q \in DOMAIN tree /\ q # p /\ tree[q] = x
      BY <1>4, <3>1
    <3>3. x \in Pointed(tree)
      BY <3>1, <3>2 DEF Pointed
    <3>. QED BY <1>2, <3>2, <3>3 DEF IInv, PointersLead
  <2>. QED BY <2>1
<1>6. EntriesStay
  BY <1>3, <1>5, DestroyStays
<1>7. NodesArePaths' /\ BoundedTree'
  BY <1>4 DEF IInv, NodesArePaths, BoundedTree
<1>8. SharedFromAbove'
  <2>1. SUFFICES ASSUME NEW r \in DOMAIN tree', NEW q \in DOMAIN tree', r # q,
                        tree'[r] # NULL, tree'[r] = tree'[q]
                 PROVE  \/ IsUnder(r, q) /\ Children(r)' = Sides
                        \/ IsUnder(q, r) /\ Children(q)' = Sides
    BY DEF SharedFromAbove, HasEntry
  <2>2. r \in DOMAIN tree /\ q \in DOMAIN tree /\ tree[r] = tree[q] /\ HasEntry(r)
    BY <1>4, <2>1 DEF HasEntry
  <2>3. \A s : Children(s)' = Children(s)
    BY <1>4 DEF Children
  <2>. QED BY <2>1, <2>2, <2>3 DEF IInv, SharedFromAbove
<1>. QED BY <1>6, <1>7, <1>8, StayKeeps

LEMMA UnderTransitive ==
  ASSUME NEW p \in Paths, NEW q \in Paths, NEW r \in Paths, IsUnder(p, q), IsUnder(q, r)
  PROVE  IsUnder(p, r)
<1>1. Len(p) \in Nat /\ Len(q) \in Nat /\ Len(r) \in Nat
  BY WholePath
<1>2. /\ Len(p) <= Len(q) /\ \A i \in 1..Len(p) : q[i] = p[i]
      /\ Len(q) <= Len(r) /\ \A i \in 1..Len(q) : r[i] = q[i]
  BY UnderMeans
<1>3. Len(p) <= Len(r) /\ \A i \in 1..Len(p) : r[i] = p[i]
  BY <1>1, <1>2
<1>. QED BY <1>3, UnderMeans

LEMMA BothAbove ==
  ASSUME NEW p \in Paths, NEW q \in Paths, NEW r \in Paths, IsUnder(p, r), IsUnder(q, r)
  PROVE  IsUnder(p, q) \/ IsUnder(q, p)
<1>1. Len(p) \in Nat /\ Len(q) \in Nat /\ Len(r) \in Nat
  BY WholePath
<1>2. /\ \A i \in 1..Len(p) : r[i] = p[i]
      /\ \A i \in 1..Len(q) : r[i] = q[i]
  BY UnderMeans
<1>3. CASE Len(p) <= Len(q)
  <2>1. \A i \in 1..Len(p) : q[i] = p[i]
    BY <1>1, <1>2, <1>3
  <2>. QED BY <1>3, <2>1, UnderMeans
<1>4. CASE Len(q) <= Len(p)
  <2>1. \A i \in 1..Len(q) : p[i] = q[i]
    BY <1>1, <1>2, <1>4
  <2>. QED BY <1>4, <2>1, UnderMeans
<1>. QED BY <1>1, <1>3, <1>4

LEMMA ChildIsUnder ==
  ASSUME NEW p \in Paths, NEW side \in Sides
  PROVE  IsUnder(p, Child(p, side))
BY ChildPath, ParentOfChild, WholePath DEF IsUnder

\* Of a node with a right child: the leftmost node below that child exists.
LEMMA SuccessorIsBelow ==
  ASSUME IInv, NEW p \in DOMAIN tree, "right" \in Children(p)
  PROVE  /\ Successor(p) \in DOMAIN tree
         /\ IsUnder(Child(p, "right"), Successor(p))
         /\ Child(Successor(p), "left") \notin DOMAIN tree
<1> DEFINE top == Child(p, "right")
           spine == {q \in DOMAIN tree : /\ IsUnder(top, q)
                                         /\ \A i \in (Len(p) + 2)..Len(q) : q[i] = "left"}
           n == Cardinality(DOMAIN tree)
<1>1. /\ p \in Paths /\ Len(p) \in Nat /\ "right" \in Sides /\ "left" \in Sides
      /\ top \in DOMAIN tree
  BY WholePath DEF IInv, NodesArePaths, Children, Sides
<1>2. top \in Paths /\ Len(top) = Len(p) + 1 /\ SubSeq(top, 1, Len(top)) = top
  BY <1>1, ChildPath, WholePath
<1>3. top \in spine
  BY <1>1, <1>2 DEF IsUnder
<1>4. n \in Nat /\ \A q \in spine : Len(q) \in Nat /\ Len(q) <= n
  BY Depth DEF IInv, NodesArePaths, BoundedTree
<1> HIDE DEF top, n
<1> DEFINE lengths == {Len(q) : q \in spine}
<1>5. lengths \subseteq Nat /\ lengths # {} /\ \A l \in lengths : l <= n
  BY <1>3, <1>4
<1>6. PICK l \in lengths : \A m \in lengths : m <= l
  BY <1>4, <1>5, Largest
<1>7. PICK q \in spine : l = Len(q)
  BY <1>6
<1>8. q \in Paths /\ Len(q) \in Nat /\ Len(q) >= Len(p) + 1
  BY <1>1, <1>2, <1>7, WholePath DEF IInv, NodesArePaths, IsUnder
<1> DEFINE c == Child(q, "left")
<1>9. /\ c \in Paths /\ Len(c) = Len(q) + 1 /\ \A i \in 1..Len(q) : c[i] = q[i]
      /\ c[Len(q) + 1] = "left" /\ IsUnder(q, c)
  BY <1>1, <1>8, ChildPath, ChildIsUnder
<1>10. IsUnder(top, c)
  BY <1>2, <1>7, <1>8, <1>9, UnderTransitive
<1>11. \A i \in (Len(p) + 2)..Len(c) : c[i] = "left"
  <2>1. SUFFICES ASSUME NEW i \in (Len(p) + 2)..Len(c)
                 PROVE  c[i] = "left"
    OBVIOUS
  <2>2. i = Len(q) + 1 \/ (i \in (Len(p) + 2)..Len(q) /\ i \in 1..Len(q))
    BY <1>1, <1>8, <1>9
  <2>. QED BY <1>7, <1>9, <2>2
<1>12. c \notin DOMAIN tree
  BY <1>6, <1>7, <1>8, <1>9, <1>10, <1>11
<1>13. /\ q \in DOMAIN tree /\ IsUnder(top, q)
       /\ \A i \in (Len(p) + 2)..Len(q) : q[i] = "left"
       /\ Child(q, "left") \notin DOMAIN tree
  BY <1>7, <1>12
<1>. QED BY <1>13 DEF Successor, top

LEMMA DelTwoChildrenKeeps ==
  ASSUME IInv, NEW k, Found(k), DelTwoChildren(End(k))
  PROVE  IInv' /\ EntriesStay
<1> DEFINE p == End(k)
           s == Successor(p)
<1>1. p \in DOMAIN tree /\ p \in Paths /\ Children(p) = Sides
  BY EndIsNode DEF DelTwoChildren
<1>2. /\ s \in DOMAIN tree /\ s \in Paths /\ IsUnder(Child(p, "right"), s)
      /\ Child(s, "left") \notin DOMAIN tree
  BY <1>1, SuccessorIsBelow DEF Sides, IInv, NodesArePaths
<1>3. IsUnder(p, s)
  BY <1>1, <1>2, ChildIsUnder, ChildPath, UnderTransitive DEF Sides
<1>4. tree' = [tree EXCEPT ![p] = tree[s]] /\ Keep(entries)
  BY DEF DelTwoChildren
<1> HIDE DEF p, s
<1>5. /\ DOMAIN tree' = DOMAIN tree /\ tree'[p] = tree[s]
      /\ \A q \in DOMAIN tree : q # p => tree'[q] = tree[q]
  BY <1>1, <1>4
<1>6. Pointed(tree') \subseteq DOMAIN entries
  <2>1. \A q \in DOMAIN tree' : \E r \in DOMAIN tree : tree'[q] = tree[r]
    BY <1>1, <1>2, <1>5
  <2>. QED BY <2>1 DEF IInv, PointersLead, Pointed
<1>7. EntriesStay
  BY <1>4, <1>6, KeepStays
<1>8. NodesArePaths' /\ BoundedTree'
  BY <1>5 DEF IInv, NodesArePaths, BoundedTree
<1>9. \A r : Children(r)' = Children(r)
  BY <1>5 DEF Children
<1>10. Children(s) # Sides
  BY <1>2 DEF Children, Sides
<1>11. ASSUME NEW q \in DOMAIN tree, q # p, tree[q] = tree[s], tree[s] # NULL
       PROVE  \/ IsUnder(p, q) /\ Children(p) = Sides
              \/ IsUnder(q, p) /\ Children(q) = Sides
  <2>1. CASE q = s
    BY <1>1, <1>3, <2>1
  <2>2. CASE q # s
    <3>1. IsUnder(q, s) /\ Children(q) = Sides
      BY <1>2, <1>10, <1>11, <2>2 DEF IInv, SharedFromAbove, HasEntry
    <3>2. q \in Paths
      BY DEF IInv, NodesArePaths
    <3>3. IsUnder(p, q) \/ IsUnder(q, p)
      BY <1>1, <1>2, <1>3, <3>1, <3>2, BothAbove
    <3>. QED BY <1>1, <3>1, <3>3
  <2>. QED BY <2>1, <2>2
<1>12. SharedFromAbove'
  <2>1. SUFFICES ASSUME NEW r \in DOMAIN tree', NEW q \in DOMAIN tree', r # q,
                        tree'[r] # NULL, tree'[r] = tree'[q]
                 PROVE  \/ IsUnder(r, q) /\ Children(r)' = Sides
                        \/ IsUnder(q, r) /\ Children(q)' = Sides
    BY DEF SharedFromAbove, HasEntry
  <2>2. CASE r = p
    BY <1>5, <1>9, <1>11, <2>1, <2>2
  <2>3. CASE q = p
    BY <1>5, <1>9, <1>11, <2>1, <2>3
  <2>4. CASE r # p /\ q # p
    <3>1. r \in DOMAIN tree /\ q \in DOMAIN tree /\ tree[r] = tree[q] /\ HasEntry(r)
      BY <1>5, <2>1, <2>4 DEF HasEntry
    <3>. QED BY <1>9, <2>1, <3>1 DEF IInv, SharedFromAbove
  <2>. QED BY <2>2, <2>3, <2>4
<1>. QED BY <1>7, <1>8, <1>12, StayKeeps

-----------------------------------------------------------------------------
(* A delete with one child copies the child over its parent: where a node of the *)
(* new tree comes from.                                                          *)

Lower(p, side, q) == Child(p, side) \o SubSeq(q, Len(p) + 1, Len(q))
From(p, side, q) == IF IsUnder(p, q) THEN Lower(p, side, q) ELSE q
Raise(p, q) == p \o SubSeq(q, Len(p) + 2, Len(q))

LEMMA TailOfPath ==
  ASSUME NEW q \in Paths, NEW i \in 1..(Len(q) + 1)
  PROVE  /\ SubSeq(q, i, Len(q)) \in Paths
         /\ Len(SubSeq(q, i, Len(q))) = Len(q) + 1 - i
         /\ \A j \in 1..(Len(q) + 1 - i) : SubSeq(q, i, Len(q))[j] = q[i + j - 1]
<1>1. Len(q) \in Nat /\ \A j \in 1..Len(q) : q[j] \in Sides
  BY WholePath
<1>2. \A j \in i..Len(q) : q[j] \in Sides
  BY <1>1
<1>3. /\ SubSeq(q, i, Len(q)) \in Seq(Sides)
      /\ Len(SubSeq(q, i, Len(q))) = IF i <= Len(q) THEN Len(q) - i + 1 ELSE 0
      /\ \A j \in 1..(Len(q) - i + 1) : SubSeq(q, i, Len(q))[j] = q[i + j - 1]
  BY <1>1, <1>2, SubSeqProperties
<1>4. (IF i <= Len(q) THEN Len(q) - i + 1 ELSE 0) = Len(q) + 1 - i
       /\ Len(q) - i + 1 = Len(q) + 1 - i
  BY <1>1
<1>. QED BY <1>3, <1>4 DEF Paths

LEMMA LowerPath ==
  ASSUME NEW p \in Paths, NEW side \in Sides, NEW q \in Paths, IsUnder(p, q)
  PROVE  /\ Lower(p, side, q) \in Paths
         /\ Len(Lower(p, side, q)) = Len(q) + 1
         /\ \A i \in 1..Len(p) : Lower(p, side, q)[i] = p[i]
         /\ Lower(p, side, q)[Len(p) + 1] = side
         /\ \A i \in (Len(p) + 1)..Len(q) : Lower(p, side, q)[i + 1] = q[i]
<1> DEFINE c == Child(p, side)
           t == SubSeq(q, Len(p) + 1, Len(q))
           m == Len(p)
           n == Len(q)
<1>1. m \in Nat /\ n \in Nat /\ m <= n
  BY WholePath DEF IsUnder
<1>2. /\ c \in Paths /\ Len(c) = m + 1
      /\ \A i \in 1..m : c[i] = p[i]
      /\ c[m + 1] = side
  BY ChildPath
<1>3. t \in Paths /\ Len(t) = n - m /\ \A j \in 1..(n - m) : t[j] = q[m + j]
  <2>1. m + 1 \in 1..(n + 1)
    BY <1>1
  <2>2. /\ t \in Paths /\ Len(t) = n + 1 - (m + 1)
        /\ \A j \in 1..(n + 1 - (m + 1)) : t[j] = q[(m + 1) + j - 1]
    BY <2>1, TailOfPath
  <2>3. n + 1 - (m + 1) = n - m
    BY <1>1
  <2> HIDE DEF t, m, n
  <2>4. \A j \in 1..(n - m) : (m + 1) + j - 1 = m + j
    BY <1>1
  <2>. QED BY <2>2, <2>3, <2>4
<1> HIDE DEF c, t, m, n
<1>4. /\ c \o t \in Paths /\ Len(c \o t) = Len(c) + Len(t)
      /\ \A i \in 1..(Len(c) + Len(t)) :
           (c \o t)[i] = IF i <= Len(c) THEN c[i] ELSE t[i - Len(c)]
  BY <1>2, <1>3, ConcatProperties DEF Paths
<1>5. Len(c) + Len(t) = n + 1
  BY <1>1, <1>2, <1>3
<1>6. ASSUME NEW i \in 1..m
      PROVE  (c \o t)[i] = p[i]
  <2>1. i \in 1..(n + 1) /\ i <= m + 1
    BY <1>1
  <2>. QED BY <1>2, <1>4, <1>5, <2>1
<1>7. (c \o t)[m + 1] = side
  <2>1. m + 1 \in 1..(n + 1) /\ m + 1 <= m + 1
    BY <1>1
  <2>. QED BY <1>2, <1>4, <1>5, <2>1
<1>8. ASSUME NEW i \in (m + 1)..n
      PROVE  (c \o t)[i + 1] = q[i]
  <2>1. i + 1 \in 1..(n + 1) /\ ~(i + 1 <= m + 1) /\ (i + 1) - (m + 1) = i - m
         /\ i - m \in 1..(n - m) /\ m + (i - m) = i
    BY <1>1
  <2>2. (c \o t)[i + 1] = t[i - m]
    BY <1>2, <1>4, <1>5, <2>1
  <2>3. t[i - m] = q[m + (i - m)]
    BY <1>3, <2>1
  <2>. QED BY <2>1, <2>2, <2>3
<1>9. Lower(p, side, q) = c \o t
  BY DEF Lower, c, t
<1>. QED BY <1>4, <1>5, <1>6, <1>7, <1>8, <1>9 DEF m, n

LEMMA RaisePath ==
  ASSUME NEW p \in Paths, NEW q \in Paths, Len(p) + 1 <= Len(q)
  PROVE  /\ Raise(p, q) \in Paths
         /\ Len(Raise(p, q)) = Len(q) - 1
         /\ \A i \in 1..Len(p) : Raise(p, q)[i] = p[i]
         /\ \A i \in (Len(p) + 1)..(Len(q) - 1) : Raise(p, q)[i] = q[i + 1]
<1> DEFINE t == SubSeq(q, Len(p) + 2, Len(q))
           m == Len(p)
           n == Len(q)
<1>1. m \in Nat /\ n \in Nat /\ m + 1 <= n
  BY WholePath
<1>2. t \in Paths /\ Len(t) = n - m - 1 /\ \A j \in 1..(n - m - 1) : t[j] = q[m + j + 1]
  <2>1. m + 2 \in 1..(n + 1)
    BY <1>1
  <2>2. /\ t \in Paths /\ Len(t) = n + 1 - (m + 2)
        /\ \A j \in 1..(n + 1 - (m + 2)) : t[j] = q[(m + 2) + j - 1]
    BY <2>1, TailOfPath
  <2>3. n + 1 - (m + 2) = n - m - 1
    BY <1>1
  <2> HIDE DEF t, m, n
  <2>4. \A j \in 1..(n - m - 1) : (m + 2) + j - 1 = m + j + 1
    BY <1>1
  <2>. QED BY <2>2, <2>3, <2>4
<1> HIDE DEF t, n
<1>3. /\ p \o t \in Paths /\ Len(p \o t) = m + Len(t)
      /\ \A i \in 1..(m + Len(t)) :
           (p \o t)[i] = IF i <= m THEN p[i] ELSE t[i - m]
  <2>1. /\ p \o t \in Paths /\ Len(p \o t) = Len(p) + Len(t)
        /\ \A i \in 1..(Len(p) + Len(t)) :
             (p \o t)[i] = IF i <= Len(p) THEN p[i] ELSE t[i - Len(p)]
    <3>1. t \in Paths
      BY <1>2
    <3>. QED BY ONLY <3>1, p \in Paths, ConcatProperties DEF Paths
  <2>. QED BY <2>1
<1> HIDE DEF m
<1>4. m + Len(t) = n - 1
  BY <1>1, <1>2
<1>5. ASSUME NEW i \in 1..m
      PROVE  (p \o t)[i] = p[i]
  <2>1. i \in 1..(n - 1) /\ i <= m
    BY <1>1
  <2>. QED BY <1>3, <1>4, <2>1
<1>6. ASSUME NEW i \in (m + 1)..(n - 1)
      PROVE  (p \o t)[i] = q[i + 1]
  <2>1. i \in 1..(n - 1) /\ ~(i <= m) /\ i - m \in 1..(n - m - 1) /\ m + (i - m) + 1 = i + 1
    BY <1>1
  <2>2. (p \o t)[i] = t[i - m]
    BY <1>3, <1>4, <2>1
  <2>3. t[i - m] = q[m + (i - m) + 1]
    BY <1>2, <2>1
  <2>. QED BY <2>1, <2>2, <2>3
<1>7. Raise(p, q) = p \o t
  BY DEF Raise, t
<1>. QED BY <1>3, <1>4, <1>5, <1>6, <1>7 DEF m, n

LEMMA LowerIsUnder ==
  ASSUME NEW p \in Paths, NEW side \in Sides, NEW q \in Paths, IsUnder(p, q)
  PROVE  /\ IsUnder(Child(p, side), Lower(p, side, q))
         /\ IsUnder(p, Lower(p, side, q))
<1> DEFINE c == Child(p, side)
           w == Lower(p, side, q)
<1>1. Len(p) \in Nat /\ Len(q) \in Nat /\ Len(p) <= Len(q)
  BY WholePath DEF IsUnder
<1>2. /\ c \in Paths /\ Len(c) = Len(p) + 1
      /\ \A i \in 1..Len(p) : c[i] = p[i]
      /\ c[Len(p) + 1] = side
  BY ChildPath
<1>3. /\ w \in Paths /\ Len(w) = Len(q) + 1
      /\ \A i \in 1..Len(p) : w[i] = p[i]
      /\ w[Len(p) + 1] = side
  BY LowerPath
<1> HIDE DEF c, w
<1>4. \A i \in 1..Len(c) : w[i] = c[i]
  <2>1. \A i \in 1..Len(c) : i \in 1..Len(p) \/ i = Len(p) + 1
    BY <1>1, <1>2
  <2>. QED BY <1>2, <1>3, <2>1
<1>5. IsUnder(c, w)
  BY <1>1, <1>2, <1>3, <1>4, UnderMeans
<1>6. IsUnder(p, w)
  BY <1>1, <1>3, UnderMeans
<1>. QED BY <1>5, <1>6 DEF c, w

LEMMA RaiseLower ==
  ASSUME NEW p \in Paths, NEW side \in Sides, NEW q \in Paths, IsUnder(p, q)
  PROVE  Raise(p, Lower(p, side, q)) = q
<1> DEFINE w == Lower(p, side, q)
           m == Len(p)
           n == Len(q)
<1>1. m \in Nat /\ n \in Nat /\ m <= n /\ \A i \in 1..m : q[i] = p[i]
  BY WholePath, UnderMeans DEF IsUnder
<1>2. /\ w \in Paths /\ Len(w) = n + 1
      /\ \A i \in (m + 1)..n : w[i + 1] = q[i]
  BY LowerPath
<1> HIDE DEF w, n
<1>3. Len(p) + 1 <= Len(w)
  BY <1>1, <1>2
<1>4. /\ Raise(p, w) \in Paths /\ Len(Raise(p, w)) = Len(w) - 1
      /\ \A i \in 1..Len(p) : Raise(p, w)[i] = p[i]
      /\ \A i \in (Len(p) + 1)..(Len(w) - 1) : Raise(p, w)[i] = w[i + 1]
  BY <1>2, <1>3, RaisePath
<1>5. Len(w) - 1 = n
  BY <1>1, <1>2
<1>6. \A i \in 1..n : Raise(p, w)[i] = q[i]
  <2>1. \A i \in 1..n : i \in 1..m \/ i \in (m + 1)..n
    BY <1>1
  <2>2. \A i \in 1..m : Raise(p, w)[i] = q[i]
    BY <1>1, <1>4
  <2>3. \A i \in (m + 1)..n : Raise(p, w)[i] = q[i]
    BY <1>2, <1>4, <1>5
  <2>. QED BY <2>1, <2>2, <2>3
<1>. QED BY <1>4, <1>5, <1>6, SamePath DEF n, w

LEMMA LowerRaise ==
  ASSUME NEW p \in Paths, NEW side \in Sides, NEW r \in Paths, IsUnder(Child(p, side), r)
  PROVE  /\ Raise(p, r) \in Paths
         /\ IsUnder(p, Raise(p, r))
         /\ Lower(p, side, Raise(p, r)) = r
<1> DEFINE c == Child(p, side)
           q == Raise(p, r)
           m == Len(p)
           n == Len(r)
<1>1. m \in Nat /\ n \in Nat
  BY WholePath
<1>2. /\ c \in Paths /\ Len(c) = m + 1
      /\ \A i \in 1..m : c[i] = p[i]
      /\ c[m + 1] = side
  BY ChildPath
<1> HIDE DEF c
<1>3. m + 1 <= n /\ \A i \in 1..(m + 1) : r[i] = c[i]
  BY <1>2, UnderMeans DEF c
<1>4. /\ q \in Paths /\ Len(q) = n - 1
      /\ \A i \in 1..m : q[i] = p[i]
      /\ \A i \in (m + 1)..(n - 1) : q[i] = r[i + 1]
  BY <1>3, RaisePath
<1> HIDE DEF q
<1>5. IsUnder(p, q)
  BY <1>1, <1>3, <1>4, UnderMeans
<1> DEFINE w == Lower(p, side, q)
<1>6. /\ w \in Paths /\ Len(w) = Len(q) + 1
      /\ \A i \in 1..m : w[i] = p[i]
      /\ w[m + 1] = side
      /\ \A i \in (m + 1)..Len(q) : w[i + 1] = q[i]
  BY <1>4, <1>5, LowerPath
<1> HIDE DEF w, n, m
<1>7. Len(w) = n /\ Len(q) = n - 1
  BY <1>1, <1>4, <1>6
<1>8. ASSUME NEW i \in 1..n
      PROVE  w[i] = r[i]
  <2>1. CASE i \in 1..m
    <3>1. i \in 1..(m + 1)
      BY <1>1, <2>1
    <3>. QED BY <1>2, <1>3, <1>6, <2>1, <3>1
  <2>2. CASE i = m + 1
    <3>1. m + 1 \in 1..(m + 1)
      BY <1>1
    <3>. QED BY <1>2, <1>3, <1>6, <2>2, <3>1
  <2>3. CASE i \in (m + 2)..n
    <3>1. i - 1 \in (m + 1)..(n - 1) /\ (i - 1) + 1 = i
      BY <1>1, <2>3
    <3>. QED BY <1>4, <1>6, <1>7, <3>1
  <2>. QED BY <1>1, <2>1, <2>2, <2>3
<1>9. w = r
  BY <1>6, <1>7, <1>8, SamePath DEF n
<1>. QED BY <1>4, <1>5, <1>9 DEF w, q

LEMMA FromPath ==
  ASSUME NEW p \in Paths, NEW side \in Sides, NEW q \in Paths
  PROVE  From(p, side, q) \in Paths
BY LowerPath DEF From

LEMMA FromInjective ==
  ASSUME NEW p \in Paths, NEW side \in Sides, NEW q \in Paths, NEW r \in Paths,
         From(p, side, q) = From(p, side, r)
  PROVE  q = r
<1>1. CASE IsUnder(p, q) /\ IsUnder(p, r)
  BY <1>1, RaiseLower DEF From
<1>2. CASE IsUnder(p, q) /\ ~IsUnder(p, r)
  BY <1>2, LowerIsUnder DEF From
<1>3. CASE ~IsUnder(p, q) /\ IsUnder(p, r)
  BY <1>3, LowerIsUnder DEF From
<1>4. CASE ~IsUnder(p, q) /\ ~IsUnder(p, r)
  BY <1>4 DEF From
<1>. QED BY <1>1, <1>2, <1>3, <1>4

\* What is above what in the new tree was so in the old one, and conversely.
LEMMA FromUnder ==
  ASSUME NEW p \in Paths, NEW side \in Sides, NEW q \in Paths, NEW r \in Paths,
         IsUnder(From(p, side, q), From(p, side, r))
  PROVE  IsUnder(q, r)
<1>1. CASE IsUnder(p, q)
  <2> DEFINE u == Lower(p, side, q)
             w == Lower(p, side, r)
             m == Len(p)
  <2>1. From(p, side, q) = u
    BY <1>1 DEF From
  <2>2. u \in Paths /\ IsUnder(p, u)
    BY <1>1, LowerPath, LowerIsUnder
  <2>3. IsUnder(p, From(p, side, r))
    BY <2>1, <2>2, FromPath, UnderTransitive
  <2>4. IsUnder(p, r) /\ From(p, side, r) = w
    BY <2>3 DEF From
  <2>5. m \in Nat /\ Len(q) \in Nat /\ Len(r) \in Nat /\ m <= Len(q) /\ m <= Len(r)
    BY <1>1, <2>4, WholePath DEF IsUnder
  <2>6. /\ Len(u) = Len(q) + 1 /\ \A i \in (m + 1)..Len(q) : u[i + 1] = q[i]
        /\ w \in Paths /\ Len(w) = Len(r) + 1 /\ \A i \in (m + 1)..Len(r) : w[i + 1] = r[i]
    BY <1>1, <2>4, LowerPath
  <2> HIDE DEF u, w
  <2>7. Len(u) <= Len(w) /\ \A i \in 1..Len(u) : w[i] = u[i]
    BY <2>1, <2>2, <2>4, <2>6, UnderMeans
  <2>8. Len(q) <= Len(r)
    BY <2>5, <2>6, <2>7
  <2>9. \A i \in 1..m : q[i] = p[i] /\ r[i] = p[i]
    BY <1>1, <2>4, UnderMeans
  <2> HIDE DEF m
  <2>10. ASSUME NEW i \in (m + 1)..Len(q)
         PROVE  r[i] = q[i]
    <3>1. i + 1 \in 1..Len(u) /\ i \in (m + 1)..Len(r)
      BY <2>5, <2>6, <2>8
    <3>. QED BY <2>6, <2>7, <3>1
  <2>11. \A i \in 1..Len(q) : i \in 1..m \/ i \in (m + 1)..Len(q)
    BY <2>5
  <2>12. \A i \in 1..Len(q) : r[i] = q[i]
    BY <2>9, <2>10, <2>11
  <2>. QED BY <2>8, <2>12, UnderMeans
<1>2. CASE ~IsUnder(p, q) /\ IsUnder(p, r)
  <2> DEFINE w == Lower(p, side, r)
  <2>1. IsUnder(q, w) /\ IsUnder(p, w) /\ w \in Paths
    BY <1>2, LowerPath, LowerIsUnder DEF From
  <2>2. IsUnder(q, p)
    BY <1>2, <2>1, BothAbove
  <2>. QED BY <1>2, <2>2, UnderTransitive
<1>3. CASE ~IsUnder(p, q) /\ ~IsUnder(p, r)
  BY <1>3 DEF From
<1>. QED BY <1>1, <1>2, <1>3

LEMMA FromChild ==
  ASSUME NEW p \in Paths, NEW side \in Sides, NEW q \in Paths, IsUnder(p, q),
         NEW s \in Sides
  PROVE  From(p, side, Child(q, s)) = Child(From(p, side, q), s)
<1> DEFINE c == Child(q, s)
           u == Lower(p, side, c)
           w == Lower(p, side, q)
           m == Len(p)
           n == Len(q)
<1>1. m \in Nat /\ n \in Nat /\ m <= n
  BY WholePath DEF IsUnder
<1>2. /\ c \in Paths /\ Len(c) = n + 1 /\ \A i \in 1..n : c[i] = q[i]
      /\ c[n + 1] = s /\ IsUnder(p, c)
  BY ChildPath, ChildIsUnder, UnderTransitive
<1> HIDE DEF c
<1>3. /\ u \in Paths /\ Len(u) = Len(c) + 1
      /\ \A i \in 1..m : u[i] = p[i]
      /\ u[m + 1] = side
      /\ \A i \in (m + 1)..Len(c) : u[i + 1] = c[i]
  BY <1>2, LowerPath
<1>4. /\ w \in Paths /\ Len(w) = n + 1
      /\ \A i \in 1..m : w[i] = p[i]
      /\ w[m + 1] = side
      /\ \A i \in (m + 1)..n : w[i + 1] = q[i]
  BY LowerPath
<1> HIDE DEF u, w, m, n
<1>5. /\ Child(w, s) \in Paths /\ Len(Child(w, s)) = Len(w) + 1
      /\ \A i \in 1..Len(w) : Child(w, s)[i] = w[i]
      /\ Child(w, s)[Len(w) + 1] = s
  BY <1>4, ChildPath
<1>6. Len(u) = n + 2 /\ Len(Child(w, s)) = n + 2 /\ Len(w) + 1 = n + 2
  BY <1>1, <1>2, <1>3, <1>4, <1>5
<1>7. ASSUME NEW i \in 1..(n + 2)
      PROVE  u[i] = Child(w, s)[i]
  <2>1. CASE i \in 1..m
    <3>1. i \in 1..Len(w)
      BY <1>1, <1>4, <2>1
    <3>. QED BY <1>3, <1>4, <1>5, <2>1, <3>1
  <2>2. CASE i = m + 1
    <3>1. i \in 1..Len(w)
      BY <1>1, <1>4, <2>2
    <3>. QED BY <1>3, <1>4, <1>5, <2>2, <3>1
  <2>3. CASE i \in (m + 2)..(n + 1)
    <3>1. /\ i - 1 \in (m + 1)..n /\ i - 1 \in (m + 1)..Len(c) /\ i - 1 \in 1..n
          /\ (i - 1) + 1 = i /\ i \in 1..Len(w)
      BY <1>1, <1>2, <1>4, <2>3
    <3>2. u[i] = c[i - 1] /\ c[i - 1] = q[i - 1]
      BY <1>2, <1>3, <3>1
    <3>3. w[i] = q[i - 1] /\ Child(w, s)[i] = w[i]
      BY <1>4, <1>5, <3>1
    <3>. QED BY <3>2, <3>3
  <2>4. CASE i = n + 2
    <3>1. n + 1 \in (m + 1)..Len(c) /\ (n + 1) + 1 = n + 2
      BY <1>1, <1>2
    <3>. QED BY <1>2, <1>3, <1>5, <1>6, <2>4, <3>1
  <2>. QED BY <1>1, <2>1, <2>2, <2>3, <2>4
<1>8. u = Child(w, s)
  BY <1>3, <1>5, <1>6, <1>7, SamePath
<1>. QED BY <1>2, <1>8 DEF From, c, u, w

\* The tree after the child on that side was copied over p, and p emptied.
Shifted(p, side) ==
  /\ DOMAIN tree' = {q \in Paths : From(p, side, q) \in DOMAIN tree}
  /\ \A q \in DOMAIN tree' : tree'[q] = IF q = p THEN NULL ELSE tree[From(p, side, q)]

LEMMA DelOnlyChildShifts ==
  ASSUME NodesArePaths, NEW p \in DOMAIN tree, DelOnlyChild(p)
  PROVE  \E side \in Sides : /\ Children(p) = {side} /\ Shifted(p, side)
                             /\ Destroy(tree[p])
<1>1. PICK side \in Children(p) :
        /\ Children(p) = {side}
        /\ LET old(q) == Child(p, side) \o SubSeq(q, Len(p) + 1, Len(q))
               stays == {q \in DOMAIN tree : ~IsUnder(p, q)}
               moved == {p \o SubSeq(q, Len(p) + 2, Len(q)) :
                           q \in {r \in DOMAIN tree : IsUnder(Child(p, side), r)}}
           IN  tree' = [q \in stays \cup moved |->
                          IF q = p THEN NULL
                          ELSE IF q \in stays THEN tree[q] ELSE tree[old(q)]]
        /\ Destroy(tree[p])
  BY DEF DelOnlyChild
<1> DEFINE stays == {q \in DOMAIN tree : ~IsUnder(p, q)}
           below == {r \in DOMAIN tree : IsUnder(Child(p, side), r)}
           moved == {Raise(p, q) : q \in below}
           new == {q \in Paths : From(p, side, q) \in DOMAIN tree}
<1>2. tree' = [q \in stays \cup moved |->
                 IF q = p THEN NULL ELSE IF q \in stays THEN tree[q]
                                         ELSE tree[Lower(p, side, q)]]
  BY <1>1 DEF Raise, Lower
<1>3. p \in Paths /\ side \in Sides /\ DOMAIN tree \subseteq Paths
  BY DEF NodesArePaths, Children
<1>4. \A q \in moved : /\ q \in Paths /\ IsUnder(p, q)
                       /\ From(p, side, q) = Lower(p, side, q)
                       /\ Lower(p, side, q) \in DOMAIN tree
  BY <1>3, LowerRaise DEF From
<1>5. stays \cup moved \subseteq new
  BY <1>3, <1>4 DEF From
<1>6. ASSUME NEW q \in new
      PROVE  q \in stays \cup moved
  <2>1. CASE IsUnder(p, q)
    <3>1. Lower(p, side, q) \in below
      BY <1>3, <2>1, LowerIsUnder DEF From
    <3>2. Raise(p, Lower(p, side, q)) = q
      BY <1>3, <2>1, RaiseLower
    <3>. QED BY <3>1, <3>2
  <2>2. CASE ~IsUnder(p, q)
    BY <2>2 DEF From
  <2>. QED BY <2>1, <2>2
<1>7. DOMAIN tree' = new
  BY <1>2, <1>5, <1>6
<1>8. ASSUME NEW q \in DOMAIN tree'
      PROVE  tree'[q] = IF q = p THEN NULL ELSE tree[From(p, side, q)]
  <2>1. q \in stays \cup moved
    BY <1>2
  <2>2. CASE q \in stays
    BY <1>2, <2>1, <2>2 DEF From
  <2>3. CASE q \notin stays
    <3>1. q \in moved
      BY <2>1, <2>3
    <3>. QED BY <1>2, <1>4, <2>1, <2>3, <3>1
  <2>. QED BY <2>2, <2>3
<1>9. Shifted(p, side)
  BY <1>7, <1>8 DEF Shifted
<1>. QED BY <1>1, <1>3, <1>9

LEMMA ShiftedPaths ==
  ASSUME NodesArePaths, NEW p \in DOMAIN tree, NEW side \in Children(p), Shifted(p, side)
  PROVE  NodesArePaths' /\ p \in DOMAIN tree'
<1>1. p \in Paths /\ side \in Sides /\ Child(p, side) \in DOMAIN tree
  BY DEF NodesArePaths, Children
<1>2. p \in DOMAIN tree'
  <2>1. IsUnder(p, p) /\ Len(p) \in Nat
    BY <1>1, WholePath DEF IsUnder
  <2>2. SubSeq(p, Len(p) + 1, Len(p)) = << >>
    BY <2>1, SubSeqEmpty
  <2>3. Child(p, side) \o << >> = Child(p, side)
    BY <1>1, ChildPath, ConcatEmptySeq DEF Paths
  <2>4. From(p, side, p) = Child(p, side)
    BY <2>1, <2>2, <2>3 DEF From, Lower
  <2>. QED BY <1>1, <2>4 DEF Shifted
<1>3. DOMAIN tree' \subseteq Paths
  BY DEF Shifted
<1>4. ASSUME NEW q \in DOMAIN tree', NEW i \in 0..Len(q)
      PROVE  SubSeq(q, 1, i) \in DOMAIN tree'
  <2> DEFINE r == SubSeq(q, 1, i)
  <2>1. q \in Paths /\ From(p, side, q) \in DOMAIN tree /\ Len(q) \in Nat
    BY <1>3, WholePath DEF Shifted
  <2>2. r \in Paths /\ Len(r) = i /\ \A j \in 1..i : r[j] = q[j]
    BY <2>1, PrefixIsPath
  <2>3. IsUnder(r, q)
    BY <2>2 DEF IsUnder
  <2> HIDE DEF r
  <2>4. CASE IsUnder(p, r)
    <3> DEFINE u == Lower(p, side, r)
               w == Lower(p, side, q)
               m == Len(p)
    <3>1. IsUnder(p, q)
      BY <1>1, <2>1, <2>2, <2>3, <2>4, UnderTransitive
    <3>2. m \in Nat /\ m <= i
      BY <1>1, <2>2, <2>4, WholePath DEF IsUnder
    <3>3. /\ u \in Paths /\ Len(u) = i + 1
          /\ \A j \in 1..m : u[j] = p[j]
          /\ u[m + 1] = side
          /\ \A j \in (m + 1)..i : u[j + 1] = r[j]
      BY <1>1, <2>2, <2>4, LowerPath
    <3>4. /\ w \in Paths /\ Len(w) = Len(q) + 1
          /\ \A j \in 1..m : w[j] = p[j]
          /\ w[m + 1] = side
          /\ \A j \in (m + 1)..Len(q) : w[j + 1] = q[j]
      BY <1>1, <2>1, <3>1, LowerPath
    <3> HIDE DEF u, w, m
    <3>5. ASSUME NEW j \in 1..(i + 1)
          PROVE  w[j] = u[j]
      <4>1. CASE j \in 1..m
        BY <3>3, <3>4, <4>1
      <4>2. CASE j = m + 1
        BY <3>3, <3>4, <4>2
      <4>3. CASE j \in (m + 2)..(i + 1)
        <5>1. /\ j - 1 \in (m + 1)..i /\ j - 1 \in (m + 1)..Len(q) /\ j - 1 \in 1..i
              /\ (j - 1) + 1 = j
          BY <2>1, <3>2, <4>3
        <5>. QED BY <2>2, <3>3, <3>4, <5>1
      <4>. QED BY <3>2, <4>1, <4>2, <4>3
    <3>6. i + 1 \in 0..Len(w) /\ Len(u) <= Len(w)
      BY <2>1, <3>3, <3>4
    <3>7. SubSeq(w, 1, i + 1) = u
      <4>1. IsUnder(u, w)
        BY <3>3, <3>4, <3>5, <3>6, UnderMeans
      <4>. QED BY <3>3, <4>1 DEF IsUnder
    <3>8. w \in DOMAIN tree
      BY <2>1, <3>1 DEF From, w
    <3>9. u \in DOMAIN tree
      BY <3>6, <3>7, <3>8 DEF NodesArePaths
    <3>. QED BY <2>2, <2>4, <3>9 DEF Shifted, From, u, r
  <2>5. CASE ~IsUnder(p, r)
    <3>1. r \in DOMAIN tree
      <4>1. CASE IsUnder(p, q)
        <5>1. IsUnder(r, p)
          BY <1>1, <2>1, <2>2, <2>3, <2>5, <4>1, BothAbove
        <5>2. Len(r) \in 0..Len(p) /\ SubSeq(p, 1, Len(r)) = r
          BY <1>1, <2>2, <5>1, WholePath DEF IsUnder
        <5>. QED BY <5>2 DEF NodesArePaths
      <4>2. CASE ~IsUnder(p, q)
        BY <2>1, <4>2 DEF From, NodesArePaths, r
      <4>. QED BY <4>1, <4>2
    <3>. QED BY <2>2, <2>5, <3>1 DEF Shifted, From, r
  <2>. QED BY <2>4, <2>5
<1>5. << >> \in DOMAIN tree'
  <2>1. 0 \in 0..Len(p) /\ SubSeq(p, 1, 0) = << >>
    BY <1>1, WholePath
  <2>. QED BY <1>2, <1>4, <2>1
<1>. QED BY <1>2, <1>3, <1>4, <1>5 DEF NodesArePaths

LEMMA ShiftedBounded ==
  ASSUME BoundedTree, NEW p \in Paths, NEW side \in Sides, Shifted(p, side)
  PROVE  BoundedTree'
<1> DEFINE f == [q \in DOMAIN tree' |-> From(p, side, q)]
<1>1. f \in Injection(DOMAIN tree', DOMAIN tree)
  <2>1. f \in [DOMAIN tree' -> DOMAIN tree]
    BY DEF Shifted
  <2>2. ASSUME NEW q \in DOMAIN tree', NEW r \in DOMAIN tree', f[q] = f[r]
        PROVE  q = r
    <3>1. q \in Paths /\ r \in Paths /\ From(p, side, q) = From(p, side, r)
      BY <2>2 DEF Shifted
    <3>. QED BY <3>1, FromInjective
  <2>. QED BY <2>1, <2>2 DEF Injection, IsInjective
<1>2. IsFiniteSet(DOMAIN tree') /\ Cardinality(DOMAIN tree') <= Cardinality(DOMAIN tree)
  BY <1>1, FS_Injection DEF BoundedTree
<1>3. Cardinality(DOMAIN tree') \in Nat /\ Cardinality(DOMAIN tree) \in Nat
  BY <1>2, FS_CardinalityType DEF BoundedTree
<1>. QED BY <1>2, <1>3, TreeAssumption DEF BoundedTree

LEMMA ShiftedShares ==
  ASSUME NodesArePaths, SharedFromAbove,
         NEW p \in DOMAIN tree, NEW side \in Children(p), Shifted(p, side)
  PROVE  SharedFromAbove'
<1>1. p \in Paths /\ side \in Sides /\ p \in DOMAIN tree'
  BY ShiftedPaths DEF NodesArePaths, Children
<1>2. ASSUME NEW q \in DOMAIN tree', Children(From(p, side, q)) = Sides
      PROVE  Children(q)' = Sides
  <2>1. q \in Paths
    BY DEF Shifted
  <2>2. ASSUME NEW s \in Sides
        PROVE  Child(q, s) \in DOMAIN tree'
    <3>1. Child(q, s) \in Paths /\ Child(From(p, side, q), s) \in DOMAIN tree
      BY <1>2, <2>1, ChildPath DEF Children
    <3>2. CASE IsUnder(p, q)
      BY <1>1, <2>1, <3>1, <3>2, FromChild DEF Shifted
    <3>3. CASE ~IsUnder(p, q) /\ IsUnder(p, Child(q, s))
      <4>1. IsUnder(q, p)
        BY <1>1, <2>1, <3>1, <3>3, ChildIsUnder, BothAbove
      <4>2. /\ Len(q) \in Nat /\ Len(p) \in Nat /\ Len(Child(q, s)) = Len(q) + 1
            /\ Len(q) <= Len(p) /\ Len(p) <= Len(Child(q, s))
        BY <1>1, <2>1, <3>3, <4>1, ChildPath, WholePath DEF IsUnder
      <4>3. Len(p) # Len(q)
        <5>1. ASSUME Len(p) = Len(q)
              PROVE  p = q
          BY <1>1, <2>1, <4>1, <5>1, WholePath DEF IsUnder
        <5>. QED BY <1>1, <3>3, <4>1, <5>1
      <4>4. Len(p) = Len(Child(q, s))
        BY <4>2, <4>3
      <4>5. p = Child(q, s)
        BY <3>1, <3>3, <4>4, WholePath DEF IsUnder
      <4>. QED BY <1>1, <4>5
    <3>4. CASE ~IsUnder(p, q) /\ ~IsUnder(p, Child(q, s))
      BY <3>1, <3>4 DEF Shifted, From
    <3>. QED BY <3>2, <3>3, <3>4
  <2>. QED BY <2>2 DEF Children
<1>3. SUFFICES ASSUME NEW q \in DOMAIN tree', NEW r \in DOMAIN tree', q # r,
                      tree'[q] # NULL, tree'[q] = tree'[r]
               PROVE  \/ IsUnder(q, r) /\ Children(q)' = Sides
                      \/ IsUnder(r, q) /\ Children(r)' = Sides
  BY DEF SharedFromAbove, HasEntry
<1> DEFINE old == From(p, side, q)
           other == From(p, side, r)
<1>4. /\ q \in Paths /\ r \in Paths /\ old \in DOMAIN tree /\ other \in DOMAIN tree
      /\ tree[old] = tree'[q] /\ tree[other] = tree'[r]
  BY <1>3 DEF Shifted
<1>5. old # other
  BY <1>1, <1>3, <1>4, FromInjective
<1>6. \/ IsUnder(old, other) /\ Children(old) = Sides
      \/ IsUnder(other, old) /\ Children(other) = Sides
  BY <1>3, <1>4, <1>5 DEF SharedFromAbove, HasEntry
<1>7. CASE IsUnder(old, other) /\ Children(old) = Sides
  BY <1>1, <1>2, <1>4, <1>7, FromUnder
<1>8. CASE IsUnder(other, old) /\ Children(other) = Sides
  BY <1>1, <1>2, <1>4, <1>8, FromUnder
<1>. QED BY <1>6, <1>7, <1>8

LEMMA DelOnlyChildKeeps ==
  ASSUME IInv, NEW k, Found(k), DelOnlyChild(End(k))
  PROVE  IInv' /\ EntriesStay
<1> DEFINE p == End(k)
<1>1. p \in DOMAIN tree /\ p \in Paths
  BY EndIsNode
<1>2. PICK side \in Sides : Children(p) = {side} /\ Shifted(p, side) /\ Destroy(tree[p])
  BY <1>1, DelOnlyChildShifts DEF IInv
<1>3. Children(p) # Sides /\ side \in Children(p)
  BY <1>2 DEF Sides
<1>4. \A q \in DOMAIN tree : tree[q] = tree[p] => q = p
  BY <1>3, OnlyPointer
<1> HIDE DEF p
<1>5. NodesArePaths' /\ BoundedTree' /\ SharedFromAbove'
  BY <1>1, <1>2, <1>3, ShiftedPaths, ShiftedBounded, ShiftedShares DEF IInv
<1>6. \A q \in Paths : From(p, side, q) # p
  <2>1. SUFFICES ASSUME NEW q \in Paths, From(p, side, q) = p PROVE FALSE
    OBVIOUS
  <2>2. CASE IsUnder(p, q)
    <3>1. Len(Lower(p, side, q)) = Len(q) + 1
      BY <1>1, <2>2, LowerPath
    <3>2. Lower(p, side, q) = p
      BY <2>1, <2>2 DEF From
    <3>3. Len(q) \in Nat /\ Len(p) <= Len(q)
      BY <2>2, WholePath DEF IsUnder
    <3>. QED BY <3>1, <3>2, <3>3
  <2>3. CASE ~IsUnder(p, q)
    <3>1. IsUnder(p, p)
      BY <1>1, WholePath DEF IsUnder
    <3>. QED BY <2>1, <2>3, <3>1 DEF From
  <2>. QED BY <2>2, <2>3
<1>7. Pointed(tree') \subseteq DOMAIN entries \ {tree[p]}
  <2>1. ASSUME NEW x \in Pointed(tree')
        PROVE  x \in DOMAIN entries \ {tree[p]}
    <3>1. PICK q \in DOMAIN tree' : tree'[q] = x /\ x # NULL
      BY DEF Pointed
    <3>2. /\ q \in Paths /\ From(p, side, q) \in DOMAIN tree
          /\ tree[From(p, side, q)] = x
      BY <1>2, <3>1 DEF Shifted
    <3>3. x \in Pointed(tree) /\ x # tree[p]
      BY <1>4, <1>6, <3>1, <3>2 DEF Pointed
    <3>. QED BY <3>3 DEF IInv, PointersLead
  <2>. QED BY <2>1
<1>8. EntriesStay
  BY <1>2, <1>7, DestroyStays
<1>. QED BY <1>5, <1>8, StayKeeps

LEMMA DelKeeps ==
  ASSUME IInv, NEW k, Del(k)
  PROVE  IInv' /\ EntriesStay
BY DelLeafKeeps, DelOnlyChildKeeps, DelTwoChildrenKeeps DEF Del

-----------------------------------------------------------------------------
(* The theorems about every history. *)

LEMMA InitKeeps == Init => IInv
<1> SUFFICES ASSUME Init PROVE IInv
  OBVIOUS
<1>1. DOMAIN tree = {<< >>} /\ tree[<< >>] = NULL /\ DOMAIN entries = {}
  BY DEF Init
<1>2. Len(<< >>) = 0 /\ << >> \in Paths /\ SubSeq(<< >>, 1, 0) = << >>
  BY EmptySeq, SubSeqEmpty DEF Paths
<1>3. NodesArePaths
  BY <1>1, <1>2 DEF NodesArePaths
<1>4. BoundedTree
  <2>1. IsFiniteSet({<< >>}) /\ Cardinality({<< >>}) = 1
    BY FS_Singleton
  <2>2. 1 <= MaxNodes
    BY TreeAssumption
  <2>. QED BY <1>1, <2>1, <2>2 DEF BoundedTree
<1>5. PointersLead
  BY <1>1 DEF PointersLead, Pointed
<1>6. SharedFromAbove /\ NoDangling
  BY <1>1 DEF SharedFromAbove, NoDangling, HasEntry
<1>. QED BY <1>3, <1>4, <1>5, <1>6 DEF IInv

LEMMA StutterKeeps == ASSUME IInv, UNCHANGED vars PROVE IInv'
BY DEF vars, IInv, NodesArePaths, BoundedTree, PointersLead, SharedFromAbove, NoDangling,
       HasEntry, EntryAt, Children

LEMMA NextKeeps == IInv /\ [Next]_vars => IInv'
<1> SUFFICES ASSUME IInv, [Next]_vars PROVE IInv'
  OBVIOUS
<1>1. ASSUME NEW k \in Keys, NEW v \in Values, Put(k, v)
      PROVE  IInv'
  BY <1>1, PutKeeps
<1>2. ASSUME NEW k \in Keys, Del(k)
      PROVE  IInv'
  BY <1>2, DelKeeps
<1>3. ASSUME NEW k \in Keys, DelMissing(k)
      PROVE  IInv'
  BY <1>3, StutterKeeps DEF DelMissing
<1>. QED BY <1>1, <1>2, <1>3, StutterKeeps DEF Next

\* The invariant, for the theorems below and for the servers built on the tree.
THEOREM Invariant == Spec => []IInv
BY InitKeeps, NextKeeps, PTL DEF Spec

\* Types, whatever is put and deleted: a node is reached through its parents, which
\* tree_del's copies of whole nodes could undo, and every pointer leads to an entry.
THEOREM TypeCorrect == Spec => []TypeOK
BY Invariant, InvariantTypes, PTL

\* No node of the tree points to an entry that tree_del has freed, although it makes
\* two nodes share one.
THEOREM NothingDangles == Spec => []NoDangling
<1>1. IInv => NoDangling
  BY DEF IInv
<1>. QED BY <1>1, Invariant, PTL

-----------------------------------------------------------------------------
(* What a put does to the walks. *)

LEMMA EndsMeetNext == NodesArePaths' => \A k, p : Ends(k, p)' => p = End(k)'
<1>1. (NodesArePaths => \A k, p : Ends(k, p) => p = End(k))'
  BY EndsMeet, PTL
<1>. QED BY <1>1

\* A walk that went through entries goes the same way afterwards.
LEMMA WalkStays ==
  ASSUME IInv, NEW k, NEW v, NEW n, NEW id, Stores(k, v, n, id),
         NEW j, NEW p \in Paths, OnWalk(j, p),
         \A i \in 1..Len(p) : SubSeq(p, 1, i - 1) \in DOMAIN tree
  PROVE  OnWalk(j, p)'
<1>1. SUFFICES ASSUME NEW i \in 1..Len(p)
               PROVE  /\ tree'[SubSeq(p, 1, i - 1)] # NULL
                      /\ entries'[tree'[SubSeq(p, 1, i - 1)]].key # j
                      /\ p[i] = SideOf(j, entries'[tree'[SubSeq(p, 1, i - 1)]].key)
  BY DEF OnWalk, HasEntry, EntryAt
<1> DEFINE above == SubSeq(p, 1, i - 1)
<1>2. /\ above \in DOMAIN tree /\ tree[above] # NULL
      /\ entries[tree[above]].key # j
      /\ p[i] = SideOf(j, entries[tree[above]].key)
  BY DEF OnWalk, HasEntry, EntryAt
<1> HIDE DEF above
<1>3. tree[above] \in DOMAIN entries
  BY <1>2 DEF IInv, PointersLead, Pointed
<1>4. tree'[above] = tree[above]
  BY <1>2 DEF Stores, HasEntry
<1>5. entries'[tree[above]] = entries[tree[above]]
  BY <1>3 DEF Stores
<1>. QED BY <1>2, <1>4, <1>5 DEF above

LEMMA ParentsAreNodes ==
  ASSUME NodesArePaths, NEW p \in DOMAIN tree
  PROVE  \A i \in 1..Len(p) : SubSeq(p, 1, i - 1) \in DOMAIN tree
<1>1. p \in Paths /\ Len(p) \in Nat
  BY WholePath DEF NodesArePaths
<1>2. \A i \in 1..Len(p) : i - 1 \in 0..Len(p)
  BY <1>1
<1>. QED BY <1>2 DEF NodesArePaths

LEMMA StoresFinds ==
  ASSUME IInv, NEW k \in Keys, NEW v \in Values, NEW n, NEW id, Stores(k, v, n, id)
  PROVE  n = End(k)' /\ OnWalk(k, n)' /\ Found(k)' /\ Get(k)' = v
<1>1. n \in Paths /\ Len(n) \in Nat /\ OnWalk(k, n)
  BY WholePath DEF Stores
<1>2. ASSUME NEW i \in 1..Len(n)
      PROVE  SubSeq(n, 1, i - 1) \in DOMAIN tree
  <2>1. i - 1 \in 0..Len(n) /\ i - 1 # Len(n)
    BY <1>1
  <2>2. Len(SubSeq(n, 1, i - 1)) = i - 1
    BY <1>1, <2>1, PrefixIsPath
  <2>. QED BY <2>1, <2>2 DEF Stores
<1>3. OnWalk(k, n)'
  BY <1>1, <1>2, WalkStays
<1>4. n \in DOMAIN tree' /\ tree'[n] # NULL /\ entries'[tree'[n]] = NewEntry(k, v)
  BY DEF Stores, EntryIds, NULL
<1>5. entries'[tree'[n]].key = k /\ entries'[tree'[n]].value = v
  BY <1>4 DEF NewEntry
<1>6. Ends(k, n)'
  BY <1>3, <1>4, <1>5 DEF Ends, EntryAt
<1>7. n = End(k)'
  BY <1>6, EndsMeetNext, StoresKeeps DEF IInv
<1>8. Found(k)'
  BY <1>4, <1>5, <1>7 DEF Found, HasEntry, EntryAt
<1>. QED BY <1>3, <1>5, <1>7, <1>8 DEF Get, EntryAt

LEMMA StoresSpares ==
  ASSUME IInv, NEW k \in Keys, NEW v \in Values, NEW n, NEW id, Stores(k, v, n, id),
         NEW j, Found(j)
  PROVE  End(j)' = End(j) /\ Found(j)' /\ Get(j)' = Get(j)
<1>0. PICK p : p = End(j)
  OBVIOUS
<1>1. p \in DOMAIN tree /\ p \in Paths /\ OnWalk(j, p)
  BY <1>0, EndIsNode
<1>2. /\ tree[p] \in DOMAIN entries /\ tree[p] # NULL /\ entries[tree[p]].key = j
  BY <1>0, FoundEntry
<1>3. OnWalk(j, p)'
  BY <1>1, ParentsAreNodes, WalkStays DEF IInv
<1>4. p \in DOMAIN tree' /\ tree'[p] = tree[p] /\ entries'[tree[p]] = entries[tree[p]]
  BY <1>1, <1>2 DEF Stores, HasEntry
<1>5. Ends(j, p)'
  BY <1>2, <1>3, <1>4 DEF Ends, EntryAt
<1>6. p = End(j)'
  BY <1>5, EndsMeetNext, StoresKeeps DEF IInv
<1>7. Found(j)'
  BY <1>2, <1>4, <1>6 DEF Found, HasEntry, EntryAt
<1>8. Get(j)' = entries'[tree'[p]].value
  BY <1>6, <1>7 DEF Get, EntryAt
<1>9. Get(j) = entries[tree[p]].value
  BY <1>0 DEF Get, EntryAt
<1>. QED BY <1>0, <1>4, <1>6, <1>7, <1>8, <1>9

LEMMA RebindsWalks ==
  ASSUME IInv, NEW k, NEW v, NEW id, Rebinds(k, v, id), NEW j
  PROVE  /\ \A p \in DOMAIN tree : HasEntry(p) => EntryAt(p)'.key = EntryAt(p).key
         /\ End(j)' = End(j) /\ Found(j)' = Found(j)
<1>1. tree' = tree
  BY DEF Rebinds
<1>2. \A x \in DOMAIN entries : entries'[x].key = entries[x].key
  BY DEF Rebinds
<1>3. \A p \in DOMAIN tree : HasEntry(p) => EntryAt(p)'.key = EntryAt(p).key
  BY <1>1, <1>2 DEF HasEntry, EntryAt, IInv, PointersLead, Pointed
<1>4. ASSUME NEW p \in DOMAIN tree
      PROVE  OnWalk(j, p)' <=> OnWalk(j, p)
  <2>1. \A i \in 1..Len(p) : SubSeq(p, 1, i - 1) \in DOMAIN tree
    BY ParentsAreNodes DEF IInv
  <2>. QED BY <1>1, <1>3, <2>1 DEF OnWalk, HasEntry
<1>5. End(j)' = End(j)
  BY <1>1, <1>4 DEF End
<1>6. Found(j)' = Found(j)
  BY <1>1, <1>3, <1>5, EndIsNode DEF Found, HasEntry
<1>. QED BY <1>3, <1>5, <1>6

LEMMA RebindsFinds ==
  ASSUME IInv, NEW k \in Keys, NEW v \in Values, PutReplaces(k, v)
  PROVE  /\ Found(k)' /\ Get(k)' = v
         /\ \A j : /\ Found(j)' = Found(j)
                   /\ j # k /\ Found(j) => Get(j)' = Get(j)
<1>1. PICK id : id = tree[End(k)]
  OBVIOUS
<1>2. Rebinds(k, v, id) /\ Found(k)
  BY <1>1, PutReplacesRebinds DEF PutReplaces
<1>3. \A j : End(j)' = End(j) /\ Found(j)' = Found(j)
  BY <1>2, RebindsWalks
<1>4. tree' = tree
  BY <1>2 DEF Rebinds
<1>5. Get(k)' = v
  <2>1. Get(k)' = entries'[tree[End(k)]].value
    BY <1>2, <1>3, <1>4 DEF Get, EntryAt
  <2>2. entries'[id].value = v
    BY <1>2 DEF Rebinds
  <2>. QED BY <1>1, <2>1, <2>2
<1>6. ASSUME NEW j, j # k, Found(j)
      PROVE  Get(j)' = Get(j)
  <2>1. /\ tree[End(j)] \in DOMAIN entries /\ entries[tree[End(j)]].key = j
    BY <1>6, FoundEntry
  <2>2. tree[End(j)] # id
    BY <1>2, <1>6, <2>1 DEF Rebinds
  <2>3. entries'[tree[End(j)]] = entries[tree[End(j)]]
    BY <1>2, <2>1, <2>2 DEF Rebinds
  <2>4. Get(j)' = entries'[tree[End(j)]].value
    BY <1>3, <1>4, <1>6 DEF Get, EntryAt
  <2>5. Get(j) = entries[tree[End(j)]].value
    BY <1>6 DEF Get, EntryAt
  <2>. QED BY <2>3, <2>4, <2>5
<1>. QED BY <1>2, <1>3, <1>5, <1>6

\* What one put does to the queries: it binds its key, and no key that was found is
\* lost or bound to something else.
LEMMA PutFinds ==
  ASSUME IInv, NEW k \in Keys, NEW v \in Values, Put(k, v)
  PROVE  /\ Found(k)' /\ Get(k)' = v
         /\ \A j : j # k /\ Found(j) => Found(j)' /\ Get(j)' = Get(j)
<1>1. CASE PutReplaces(k, v)
  BY <1>1, RebindsFinds
<1>2. CASE PutFills(k, v) \/ PutGrows(k, v)
  <2>1. PICK n, id : Stores(k, v, n, id)
    BY <1>2, PutFillsStores, PutGrowsStores
  <2>. QED BY <2>1, StoresFinds, StoresSpares
<1>. QED BY <1>1, <1>2 DEF Put

\* After tree_put(k, v), whatever was put and deleted before, tree_get(k) returns v and
\* no other key that was found changes its value: the walk of a put passes only nodes
\* that it leaves as they are.
THEOREM PutsBind == Spec => PutBinds
<1>1. IInv /\ [Next]_vars
        => [\A k \in Keys, v \in Values :
              Put(k, v) => /\ Get(k)' = v
                           /\ \A j \in Keys \ {k} : Get(j) # NULL => Get(j)' = Get(j)]_vars
  <2>1. SUFFICES ASSUME IInv, NEW k \in Keys, NEW v \in Values, Put(k, v)
                 PROVE  /\ Get(k)' = v
                        /\ \A j \in Keys \ {k} : Get(j) # NULL => Get(j)' = Get(j)
    OBVIOUS
  <2>2. \A j : Get(j) # NULL => Found(j)
    BY DEF Get
  <2>. QED BY <2>1, <2>2, PutFinds
<1>. QED BY <1>1, Invariant, PTL DEF Spec, PutBinds

-----------------------------------------------------------------------------
(* Histories without deletes. *)

\* Every entry is where the walk for its key leads.
EntriesOnWalk == \A p \in DOMAIN tree : HasEntry(p) => OnWalk(EntryAt(p).key, p)

\* Only the root is ever without an entry, and only until the first put.
EmptyAtFirst == \A p \in DOMAIN tree : ~HasEntry(p) => DOMAIN tree = {<< >>}

OwnEntries == \A p, q \in DOMAIN tree : HasEntry(p) /\ tree[p] = tree[q] => p = q

PutInv == IInv /\ EntriesOnWalk /\ EmptyAtFirst /\ OwnEntries

LEMMA StoresKeepsPuts ==
  ASSUME PutInv, NEW k \in Keys, NEW v \in Values, NEW n, NEW id, Stores(k, v, n, id)
  PROVE  PutInv'
<1>1. IInv /\ IInv'
  BY StoresKeeps DEF PutInv
<1>2. /\ tree'[n] = id /\ id # NULL /\ id \notin DOMAIN entries
      /\ entries'[id].key = k
  BY DEF Stores, EntryIds, NULL, NewEntry
<1>3. \A p \in DOMAIN tree : tree[p] # id
  BY <1>1, <1>2 DEF IInv, PointersLead, Pointed
<1>4. \A p \in DOMAIN tree' : p = n \/ (p # n /\ p \in DOMAIN tree /\ tree'[p] = tree[p])
  BY DEF Stores
<1>5. EntriesOnWalk'
  <2>1. SUFFICES ASSUME NEW p \in DOMAIN tree', tree'[p] # NULL,
                        NEW key, key = entries'[tree'[p]].key
                 PROVE  OnWalk(key, p)'
    BY DEF EntriesOnWalk, HasEntry, EntryAt, OnWalk
  <2>2. CASE p = n
    BY <1>1, <1>2, <2>1, <2>2, StoresFinds
  <2>3. CASE p # n
    <3>1. p \in DOMAIN tree /\ tree'[p] = tree[p] /\ tree[p] # NULL
      BY <1>4, <2>1, <2>3
    <3>2. tree[p] \in DOMAIN entries
      BY <1>1, <3>1 DEF IInv, PointersLead, Pointed
    <3>3. entries'[tree[p]] = entries[tree[p]]
      BY <3>2 DEF Stores
    <3>4. OnWalk(key, p)
      BY <2>1, <3>1, <3>3 DEF PutInv, EntriesOnWalk, HasEntry, EntryAt
    <3>5. p \in Paths /\ \A i \in 1..Len(p) : SubSeq(p, 1, i - 1) \in DOMAIN tree
      BY <1>1, <3>1, ParentsAreNodes DEF IInv, NodesArePaths
    <3>. QED BY <1>1, <3>4, <3>5, WalkStays
  <2>. QED BY <2>2, <2>3
<1>6. EmptyAtFirst'
  <2>1. SUFFICES ASSUME NEW p \in DOMAIN tree', tree'[p] = NULL
                 PROVE  FALSE
    BY DEF EmptyAtFirst, HasEntry
  <2>2. p # n /\ p \in DOMAIN tree /\ ~HasEntry(p)
    BY <1>2, <1>4, <2>1 DEF HasEntry
  <2>3. DOMAIN tree = {<< >>} /\ p = << >>
    BY <2>2 DEF PutInv, EmptyAtFirst
  <2>4. n \in Paths /\ OnWalk(k, n) /\ n # << >>
    BY <2>2, <2>3 DEF Stores
  <2>5. 1 \in 1..Len(n) /\ SubSeq(n, 1, 1 - 1) = << >>
    BY <2>4, EmptySeq, WholePath DEF Paths
  <2>6. HasEntry(<< >>)
    BY <2>4, <2>5 DEF OnWalk
  <2>. QED BY <2>2, <2>3, <2>6
<1>7. OwnEntries'
  <2>1. SUFFICES ASSUME NEW p \in DOMAIN tree', NEW q \in DOMAIN tree',
                        tree'[p] # NULL, tree'[p] = tree'[q]
                 PROVE  p = q
    BY DEF OwnEntries, HasEntry
  <2>2. CASE p = n \/ q = n
    BY <1>2, <1>3, <1>4, <2>1, <2>2
  <2>3. CASE p # n /\ q # n
    BY <1>4, <2>1, <2>3 DEF PutInv, OwnEntries, HasEntry
  <2>. QED BY <2>2, <2>3
<1>. QED BY <1>1, <1>5, <1>6, <1>7 DEF PutInv

LEMMA PutsKeep ==
  ASSUME PutInv, NEW k \in Keys, NEW v \in Values, Put(k, v)
  PROVE  PutInv'
<1>1. IInv
  BY DEF PutInv
<1>2. CASE PutReplaces(k, v)
  <2>1. PICK id : Rebinds(k, v, id)
    BY <1>1, <1>2, PutReplacesRebinds
  <2>2. IInv' /\ tree' = tree
    BY <1>1, <2>1, RebindsKeeps DEF Rebinds
  <2>3. \A p \in DOMAIN tree : HasEntry(p) => EntryAt(p)'.key = EntryAt(p).key
    BY <1>1, <2>1, RebindsWalks
  <2>4. EntriesOnWalk'
    <3>1. SUFFICES ASSUME NEW p \in DOMAIN tree, HasEntry(p)
                   PROVE  \A i \in 1..Len(p) :
                            LET above == SubSeq(p, 1, i - 1)
                            IN  /\ HasEntry(above)
                                /\ EntryAt(above)'.key # EntryAt(p)'.key
                                /\ p[i] = SideOf(EntryAt(p)'.key, EntryAt(above)'.key)
      BY <2>2 DEF EntriesOnWalk, OnWalk, HasEntry
    <3>2. OnWalk(EntryAt(p).key, p)
      BY <3>1 DEF PutInv, EntriesOnWalk
    <3>3. \A i \in 1..Len(p) : SubSeq(p, 1, i - 1) \in DOMAIN tree
      BY <1>1, ParentsAreNodes DEF IInv
    <3>. QED BY <2>3, <3>1, <3>2, <3>3 DEF OnWalk
  <2>5. EmptyAtFirst' /\ OwnEntries'
    BY <2>2 DEF PutInv, EmptyAtFirst, OwnEntries, HasEntry
  <2>. QED BY <2>2, <2>4, <2>5 DEF PutInv
<1>3. CASE PutFills(k, v) \/ PutGrows(k, v)
  <2>1. PICK n, id : Stores(k, v, n, id)
    BY <1>1, <1>3, PutFillsStores, PutGrowsStores
  <2>. QED BY <2>1, StoresKeepsPuts
<1>. QED BY <1>2, <1>3 DEF Put

LEMMA EndIsNodeNext == IInv' => \A k : End(k)' \in DOMAIN tree' /\ OnWalk(k, End(k))'
<1>1. IInv => \A k : End(k) \in DOMAIN tree /\ OnWalk(k, End(k))
  BY EndIsNode
<1>2. (IInv => \A k : End(k) \in DOMAIN tree /\ OnWalk(k, End(k)))'
  BY <1>1, PTL
<1>. QED BY <1>2

\* One more node with another key makes no key found that was not.
LEMMA StoresAddsOne ==
  ASSUME PutInv, NEW k \in Keys, NEW v \in Values, NEW n, NEW id, Stores(k, v, n, id),
         NEW j, j # k, Found(j)'
  PROVE  Found(j)
<1>1. IInv /\ IInv'
  BY StoresKeeps DEF PutInv
<1>2. PICK e : e = End(j)'
  OBVIOUS
<1>3. e \in DOMAIN tree' /\ tree'[e] # NULL /\ entries'[tree'[e]].key = j
  BY <1>1, <1>2, EndIsNodeNext DEF Found, HasEntry, EntryAt
<1>4. e # n
  BY <1>3 DEF Stores, NewEntry
<1>5. e \in DOMAIN tree /\ tree'[e] = tree[e] /\ tree[e] # NULL
  BY <1>3, <1>4 DEF Stores
<1>6. tree[e] \in DOMAIN entries
  BY <1>1, <1>5 DEF IInv, PointersLead, Pointed
<1>7. entries[tree[e]].key = j
  BY <1>3, <1>5, <1>6 DEF Stores
<1>8. OnWalk(j, e)
  BY <1>5, <1>7 DEF PutInv, EntriesOnWalk, HasEntry, EntryAt
<1>9. Ends(j, e)
  BY <1>5, <1>7, <1>8 DEF Ends, EntryAt
<1>10. e = End(j)
  BY <1>1, <1>9, EndIs DEF IInv
<1>. QED BY <1>5, <1>7, <1>10 DEF Found, HasEntry, EntryAt

LEMMA PutAddsOne ==
  ASSUME PutInv, NEW k \in Keys, NEW v \in Values, Put(k, v),
         NEW j, j # k, Found(j)'
  PROVE  Found(j)
<1>1. IInv
  BY DEF PutInv
<1>2. CASE PutReplaces(k, v)
  BY <1>1, <1>2, RebindsFinds
<1>3. CASE PutFills(k, v) \/ PutGrows(k, v)
  <2>1. PICK n, id : Stores(k, v, n, id)
    BY <1>1, <1>3, PutFillsStores, PutGrowsStores
  <2>. QED BY <2>1, StoresAddsOne
<1>. QED BY <1>2, <1>3 DEF Put

LEMMA PutIsMapPut ==
  ASSUME PutInv, NEW k \in Keys, NEW v \in Values, Put(k, v)
  PROVE  Map!Put(k, v)
<1>1. IInv
  BY DEF PutInv
<1>2. /\ Found(k)' /\ Get(k)' = v
      /\ \A j : j # k /\ Found(j) => Found(j)' /\ Get(j)' = Get(j)
  BY <1>1, PutFinds
<1>3. ASSUME NEW j, j # k, Found(j)'
      PROVE  Found(j)
  BY <1>3, PutAddsOne
<1>4. KeysFound' = KeysFound \cup {k}
  BY <1>2, <1>3 DEF KeysFound
<1>5. \A j \in KeysFound' : Get(j)' = IF j = k THEN v ELSE Get(j)
  BY <1>2, <1>4 DEF KeysFound
<1>6. [j \in KeysFound' |-> Get(j)'] =
        [j \in KeysFound \cup {k} |-> IF j = k THEN v ELSE [i \in KeysFound |-> Get(i)][j]]
  BY <1>4, <1>5
<1>. QED BY <1>6 DEF Map!Put

LEMMA InitPuts == Init => PutInv /\ Map!Init
<1> SUFFICES ASSUME Init PROVE PutInv /\ Map!Init
  OBVIOUS
<1>1. IInv
  BY InitKeeps
<1>2. DOMAIN tree = {<< >>} /\ tree[<< >>] = NULL
  BY DEF Init
<1>3. EntriesOnWalk /\ EmptyAtFirst /\ OwnEntries
  BY <1>2 DEF EntriesOnWalk, EmptyAtFirst, OwnEntries, HasEntry
<1>4. KeysFound = {}
  BY <1>1, <1>2, EndIsNode DEF KeysFound, Found, HasEntry
<1>5. Map!Init
  BY <1>4 DEF Map!Init
<1>. QED BY <1>1, <1>3, <1>5 DEF PutInv

LEMMA StutterFinds ==
  ASSUME UNCHANGED vars, NEW k
  PROVE  Found(k)' = Found(k) /\ Get(k)' = Get(k)
<1>1. tree' = tree /\ entries' = entries
  BY DEF vars
<1>2. End(k)' = End(k)
  BY <1>1 DEF End, OnWalk, HasEntry, EntryAt
<1>. QED BY <1>1, <1>2 DEF Found, Get, HasEntry, EntryAt

LEMMA StutterPuts ==
  ASSUME PutInv, UNCHANGED vars
  PROVE  PutInv' /\ UNCHANGED [k \in KeysFound |-> Get(k)]
<1>1. tree' = tree /\ entries' = entries
  BY DEF vars
<1>2. IInv'
  BY StutterKeeps DEF PutInv
<1>3. EntriesOnWalk' /\ EmptyAtFirst' /\ OwnEntries'
  BY <1>1 DEF PutInv, EntriesOnWalk, EmptyAtFirst, OwnEntries, HasEntry, EntryAt, OnWalk
<1>4. \A k : Found(k)' = Found(k) /\ Get(k)' = Get(k)
  BY StutterFinds
<1>5. KeysFound' = KeysFound
  BY <1>4 DEF KeysFound
<1>. QED BY <1>2, <1>3, <1>4, <1>5 DEF PutInv

\* The search order and the entries of the nodes survive every history in which
\* nothing is deleted: tree_put links one new node, or fills or rebinds one entry.
THEOREM PutInvariant == PutSpec => []PutInv
<1>1. Init => PutInv
  BY InitPuts
<1>2. PutInv /\ [\E k \in Keys, v \in Values : Put(k, v)]_vars => PutInv'
  BY PutsKeep, StutterPuts
<1>. QED BY <1>1, <1>2, PTL DEF PutSpec

\* As long as nothing is deleted tree_put and tree_get implement the map of tree.h,
\* although the comparison of keys is no order.
THEOREM PutsImplementMap == PutSpec => PutsMakeMap
<1>1. Init => Map!Init
  BY InitPuts
<1>2. PutInv /\ [\E k \in Keys, v \in Values : Put(k, v)]_vars
        => [Map!Next]_([k \in KeysFound |-> Get(k)])
  <2>1. SUFFICES ASSUME PutInv, [\E k \in Keys, v \in Values : Put(k, v)]_vars
                 PROVE  [Map!Next]_([k \in KeysFound |-> Get(k)])
    OBVIOUS
  <2>2. ASSUME NEW k \in Keys, NEW v \in Values, Put(k, v)
        PROVE  Map!Next
    BY <2>1, <2>2, PutIsMapPut DEF Map!Next
  <2>. QED BY <2>1, <2>2, StutterPuts
<1>. QED BY <1>1, <1>2, PutInvariant, PTL DEF PutSpec, PutsMakeMap, Map!Spec

-----------------------------------------------------------------------------
(* What is counted and listed in such a history. *)

LEMMA AllReached ==
  ASSUME PutInv
  PROVE  /\ Reached = {p \in DOMAIN tree : HasEntry(p)}
         /\ Reached # {} => Reached = DOMAIN tree
<1>1. ASSUME NEW p \in DOMAIN tree, HasEntry(p), NEW q \in DOMAIN tree
      PROVE  HasEntry(q)
  BY <1>1 DEF PutInv, EmptyAtFirst
<1>2. \A p \in Reached : p \in DOMAIN tree /\ HasEntry(p)
  <2>1. SUFFICES ASSUME NEW p \in Reached PROVE p \in DOMAIN tree /\ HasEntry(p)
    OBVIOUS
  <2>2. p \in DOMAIN tree /\ p \in Paths
    BY DEF Reached, PutInv, IInv, NodesArePaths
  <2>3. Len(p) \in 0..Len(p) /\ SubSeq(p, 1, Len(p)) = p
    BY <2>2, WholePath
  <2>. QED BY <2>2, <2>3 DEF Reached
<1>3. ASSUME NEW p \in DOMAIN tree, HasEntry(p)
      PROVE  p \in Reached
  BY <1>1, <1>3 DEF Reached, PutInv, IInv, NodesArePaths
<1>. QED BY <1>1, <1>2, <1>3

LEMMA KeyOfNode ==
  ASSUME PutInv, NEW p \in DOMAIN tree, HasEntry(p)
  PROVE  /\ EntryAt(p).key \in Keys /\ Found(EntryAt(p).key)
         /\ p = End(EntryAt(p).key)
<1> DEFINE k == EntryAt(p).key
<1>1. tree[p] \in DOMAIN entries
  BY DEF HasEntry, PutInv, IInv, PointersLead, Pointed
<1>2. k \in Keys
  BY <1>1 DEF EntryAt, PutInv, IInv, PointersLead
<1>3. Ends(k, p)
  BY DEF Ends, PutInv, EntriesOnWalk
<1>4. p = End(k)
  BY <1>3, EndIs DEF PutInv, IInv
<1>. QED BY <1>2, <1>4 DEF Found

LEMMA PutsCount ==
  ASSUME PutInv
  PROVE  PutsAreCounted
<1> DEFINE f == [p \in Reached |-> EntryAt(p).key]
           n == Cardinality(DOMAIN tree)
<1>1. IInv /\ NodesArePaths /\ IsFiniteSet(DOMAIN tree)
  BY DEF PutInv, IInv, BoundedTree
<1>2. \A p \in Reached : p \in DOMAIN tree /\ HasEntry(p)
  BY AllReached
<1>3. \A k \in KeysFound : End(k) \in Reached /\ EntryAt(End(k)).key = k
  BY <1>1, EndIsNode, AllReached DEF KeysFound, Found
<1>4. KeysReached = KeysFound
  <2>1. KeysReached \subseteq KeysFound
    BY <1>2, KeyOfNode DEF KeysReached, KeysFound
  <2>2. ASSUME NEW k \in KeysFound
        PROVE  k \in KeysReached
    BY <1>3 DEF KeysReached
  <2>. QED BY <2>1, <2>2
<1>5. Size = Cardinality(KeysFound)
  <2>1. f \in Injection(Reached, KeysFound)
    <3>1. f \in [Reached -> KeysFound]
      BY <1>2, KeyOfNode DEF KeysFound
    <3>2. \A p, q \in Reached : f[p] = f[q] => p = q
      BY <1>2, KeyOfNode
    <3>. QED BY <3>1, <3>2 DEF Injection, IsInjective
  <2>2. f \in Surjection(Reached, KeysFound)
    <3>1. \A k \in KeysFound : End(k) \in Reached /\ f[End(k)] = k
      BY <1>3
    <3>2. f \in [Reached -> KeysFound]
      BY <2>1 DEF Injection
    <3>. QED BY <3>1, <3>2 DEF Surjection
  <2>3. ExistsBijection(Reached, KeysFound)
    BY <2>1, <2>2 DEF ExistsBijection, Bijection
  <2>4. IsFiniteSet(Reached)
    BY <1>1, <1>2, FS_Subset
  <2>. QED BY <2>3, <2>4, FS_Bijection DEF Size
<1>6. n \in Nat /\ \A p \in DOMAIN tree : Len(p) \in Nat /\ Len(p) < n
  BY <1>1, Depth, FS_CardinalityType
<1> HIDE DEF n
<1>7. ASSUME Reached # {}
      PROVE  /\ \A p \in Reached : Len(p) < Height
             /\ Height <= Size
  <2> DEFINE lengths == {Len(p) : p \in Reached}
             h == CHOOSE x \in lengths : \A p \in Reached : Len(p) <= x
  <2>1. lengths \subseteq Nat /\ lengths # {} /\ \A x \in lengths : x <= n
    <3>1. \A p \in Reached : Len(p) \in Nat /\ Len(p) <= n
      BY <1>2, <1>6
    <3>2. lengths # {}
      BY <1>7
    <3>. QED BY <3>1, <3>2
  <2>2. \E x \in lengths : \A y \in lengths : y <= x
    BY <1>6, <2>1, Largest
  <2>3. h \in lengths /\ \A p \in Reached : Len(p) <= h
    BY <2>2
  <2>4. Height = 1 + h
    BY <1>7 DEF Height
  <2> HIDE DEF h
  <2>5. PICK p \in Reached : h = Len(p)
    BY <2>3
  <2>6. h \in Nat /\ h < n
    BY <1>2, <1>6, <2>5
  <2>7. Size = n
    BY <1>7, AllReached DEF Size, n
  <2>8. \A q \in Reached : Len(q) < 1 + h
    BY <1>2, <1>6, <2>3, <2>6
  <2>9. 1 + h <= n
    BY <1>6, <2>6
  <2>. QED BY <2>4, <2>7, <2>8, <2>9
<1>8. \A k \in KeysFound : Len(End(k)) < Height
  BY <1>3, <1>7
<1>9. Height <= Size
  <2>1. CASE Reached = {}
    <3>1. Height = 0 /\ Size = 0
      BY <2>1, FS_EmptySet DEF Height, Size
    <3>. QED BY <3>1
  <2>. QED BY <1>7, <2>1
<1>10. ~GetKeysCrashes
  <2>1. SUFFICES ASSUME NEW p \in Reached, NEW side \in Children(p)
                 PROVE  HasEntry(Child(p, side))
    BY DEF GetKeysCrashes
  <2>. QED BY AllReached DEF Children
<1>11. ~DestroysTwice
  BY DEF DestroysTwice, PutInv, OwnEntries
<1>. QED BY <1>4, <1>5, <1>8, <1>9, <1>10, <1>11 DEF PutsAreCounted

\* A tree of size 0 has no keys to list.
LEMMA NoneReached ==
  ASSUME IInv, Size = 0
  PROVE  KeysReached = {}
<1>1. IsFiniteSet(DOMAIN tree) /\ Reached \in SUBSET DOMAIN tree
  BY DEF IInv, BoundedTree, Reached
<1>2. IsFiniteSet(Reached)
  BY <1>1, FS_Subset
<1>3. Reached = {}
  BY <1>2, FS_EmptySet DEF Size
<1>. QED BY <1>3 DEF KeysReached

\* As long as nothing is deleted, size and height agree with what is found, and so does
\* the list of keys if it fits its array; tree_get_keys does not trip over an empty
\* child and tree_destroy frees each entry once.
THEOREM PutsCounted == PutSpec => []PutsAreCounted
BY PutsCount, PutInvariant, PTL

=============================================================================
