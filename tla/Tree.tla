-------------------------------- MODULE Tree --------------------------------
(***************************************************************************)
(* The search tree of phases 2 to 4 (tree.c, entry.c, data.c).  A tree_t   *)
(* is found by the path that leads to it from the root, a sequence of      *)
(* "left" and "right"; what it holds is a pointer to an entry_t, since two *)
(* nodes may come to point to the same entry.  A node whose entry is NULL  *)
(* hides everything below it.                                              *)
(***************************************************************************)
EXTENDS Integers, Sequences, FiniteSets

CONSTANTS
  Keys,       \* set of <<length, rank among the strings of that length>>
  Values,
  MaxNodes,   \* bound: nodes of the tree
  KeyRoom     \* keys for which tree_get_keys makes room: 4, by sizeof(tree_size(tree))

ASSUME TreeAssumption == /\ Keys \subseteq Nat \X Nat
                         /\ MaxNodes \in Nat \ {0} /\ KeyRoom \in Nat

NULL == 0
EntryIds == 1..MaxNodes

VARIABLES
  tree,     \* path of a tree_t -> id of the entry it points to, or NULL
  entries   \* id -> [key, value, live]: the entry_t behind each pointer of the tree

vars == <<tree, entries>>

Child(p, side) == Append(p, side)
Sides == {"left", "right"}
IsUnder(p, q) == Len(p) <= Len(q) /\ SubSeq(q, 1, Len(p)) = p
HasEntry(p) == tree[p] # NULL
EntryAt(p) == entries[tree[p]]

\* The side on which tree_put, tree_get and tree_del go on from a node: the
\* difference of two strlen is unsigned, so any other length is "greater".
SideOf(k, m) == IF k[1] # m[1] \/ k[2] > m[2] THEN "right" ELSE "left"

\* The walk for k goes through p: at every node above p there is an entry, of
\* another key, whose side is the one p takes.
OnWalk(k, p) ==
  \A i \in 1..Len(p) :
    LET above == SubSeq(p, 1, i - 1)
    IN  /\ HasEntry(above)
        /\ EntryAt(above).key # k
        /\ p[i] = SideOf(k, EntryAt(above).key)

\* The last node of the walk for k.
End(k) == CHOOSE p \in DOMAIN tree :
            /\ OnWalk(k, p)
            /\ \A q \in DOMAIN tree : OnWalk(k, q) => Len(q) <= Len(p)

Found(k) == HasEntry(End(k)) /\ EntryAt(End(k)).key = k

Init ==
  /\ tree = [p \in {<< >>} |-> NULL]
  /\ entries = [id \in {} |-> NULL]

NewEntry(k, v) == [key |-> k, value |-> v, live |-> TRUE]

\* malloc: the smallest id that no node points to.
FreeId == CHOOSE id \in EntryIds :
            /\ id \notin DOMAIN entries
            /\ \A other \in EntryIds \ DOMAIN entries : id <= other

\* An entry that no node points to any more, freed or leaked, is forgotten.
Pointed(t) == {t[p] : p \in DOMAIN t} \ {NULL}
Keep(e) == entries' = [id \in Pointed(tree') |-> e[id]]

-----------------------------------------------------------------------------
(* tree_put. *)

\* The node where the walk ends: it holds k already, or holds nothing, or lacks
\* the child where k belongs.

\* Mutant: the entry at the end of the walk is taken for the key's.
PutReplacesAny(k, v) ==
  /\ HasEntry(End(k))
  /\ entries' = [entries EXCEPT ![tree[End(k)]] = NewEntry(k, v)]
  /\ UNCHANGED tree

PutReplaces(k, v) ==
  /\ Found(k)
  /\ entries' = [entries EXCEPT ![tree[End(k)]].value = v]
  /\ UNCHANGED tree

PutFills(k, v) ==
  /\ ~HasEntry(End(k))
  /\ entries' = [id \in DOMAIN entries \cup {FreeId} |->
                   IF id = FreeId THEN NewEntry(k, v) ELSE entries[id]]
  /\ tree' = [tree EXCEPT ![End(k)] = FreeId]

\* Mutant: the child of the root is made without a look at whether there is one.
PutGrowsOverSubtree(k, v) ==
  /\ HasEntry(End(k)) /\ ~Found(k)
  /\ LET new == Child(<< >>, SideOf(k, EntryAt(<< >>).key))
     IN  tree' = [p \in {q \in DOMAIN tree : ~IsUnder(new, q)} \cup {new} |->
                    IF p = new THEN FreeId ELSE tree[p]]
  /\ Keep([id \in DOMAIN entries \cup {FreeId} |->
             IF id = FreeId THEN NewEntry(k, v) ELSE entries[id]])

PutGrows(k, v) ==
  /\ HasEntry(End(k)) /\ ~Found(k)
  /\ Cardinality(DOMAIN tree) < MaxNodes
  /\ entries' = [id \in DOMAIN entries \cup {FreeId} |->
                   IF id = FreeId THEN NewEntry(k, v) ELSE entries[id]]
  /\ LET new == Child(End(k), SideOf(k, EntryAt(End(k)).key))
     IN  tree' = [p \in DOMAIN tree \cup {new} |-> IF p = new THEN FreeId ELSE tree[p]]

Put(k, v) == PutReplaces(k, v) \/ PutFills(k, v) \/ PutGrows(k, v)

-----------------------------------------------------------------------------
(* tree_del. *)

\* entry_destroy: the memory is gone, whoever else points to it.
Destroy(id) == Keep([entries EXCEPT ![id].live = FALSE])

Children(p) == {side \in Sides : Child(p, side) \in DOMAIN tree}

\* The empty tree_t of a leaf stays where it is.
DelLeaf(p) ==
  /\ Children(p) = {}
  /\ tree' = [tree EXCEPT ![p] = NULL]
  /\ Destroy(tree[p])

\* Mutant: the child stays below the node that it was copied to.
DelOnlyChildCopies(p) ==
  \E side \in Children(p) :
    /\ Children(p) = {side}
    /\ tree' = [q \in DOMAIN tree \ {Child(p, side)} |-> IF q = p THEN NULL ELSE tree[q]]
    /\ Destroy(tree[p])

\* The only child is copied over its parent, grandchildren and all; then the
\* node is set to NULL, and with it the entry that came from the child.
DelOnlyChild(p) ==
  \E side \in Children(p) :
    /\ Children(p) = {side}
    /\ LET old(q) == Child(p, side) \o SubSeq(q, Len(p) + 1, Len(q))
           stays == {q \in DOMAIN tree : ~IsUnder(p, q)}
           moved == {p \o SubSeq(q, Len(p) + 2, Len(q)) :
                       q \in {r \in DOMAIN tree : IsUnder(Child(p, side), r)}}
       IN  tree' = [q \in stays \cup moved |->
                      IF q = p THEN NULL ELSE IF q \in stays THEN tree[q] ELSE tree[old(q)]]
    /\ Destroy(tree[p])

\* The leftmost node of the right subtree, entry or not.
Successor(p) ==
  CHOOSE q \in DOMAIN tree :
    /\ IsUnder(Child(p, "right"), q)
    /\ \A i \in (Len(p) + 2)..Len(q) : q[i] = "left"
    /\ Child(q, "left") \notin DOMAIN tree

\* Mutant: the successor's entry is freed after its pointer was copied.
DelTwoChildrenFrees(p) ==
  /\ Children(p) = Sides
  /\ tree' = [tree EXCEPT ![p] = tree[Successor(p)]]
  /\ IF HasEntry(Successor(p)) THEN Destroy(tree[Successor(p)]) ELSE Keep(entries)

\* The node points to the successor's entry from now on; the successor stays
\* where it was and its own entry is neither copied nor freed.
DelTwoChildren(p) ==
  /\ Children(p) = Sides
  /\ tree' = [tree EXCEPT ![p] = tree[Successor(p)]]
  /\ Keep(entries)

Del(k) ==
  /\ Found(k)
  /\ LET p == End(k) IN DelLeaf(p) \/ DelOnlyChild(p) \/ DelTwoChildren(p)

\* "-1 (key not found)".
DelMissing(k) ==
  /\ ~Found(k)
  /\ UNCHANGED vars

Next == \E k \in Keys : \/ \E v \in Values : Put(k, v)
                        \/ Del(k)
                        \/ DelMissing(k)

Spec == Init /\ [][Next]_vars

\* A history without deletes.
PutSpec == Init /\ [][\E k \in Keys, v \in Values : Put(k, v)]_vars

-----------------------------------------------------------------------------
(* The queries of the tree. *)

Get(k) == IF Found(k) THEN EntryAt(End(k)).value ELSE NULL

\* The nodes tree_size, tree_height and tree_get_keys reach: they turn back at
\* the first node without an entry.
Reached == {p \in DOMAIN tree : \A i \in 0..Len(p) : HasEntry(SubSeq(p, 1, i))}
Size == Cardinality(Reached)
Height == IF Reached = {} THEN 0
          ELSE 1 + CHOOSE h \in {Len(p) : p \in Reached} : \A p \in Reached : Len(p) <= h
KeysReached == {EntryAt(p).key : p \in Reached}

\* tree_get_keys reads what it gets for a child without looking whether it is
\* NULL, which it is for a child that holds nothing.
GetKeysCrashes == \E p \in Reached : \E side \in Children(p) : ~HasEntry(Child(p, side))

\* The array has the same room whatever the tree holds: the keys beyond it, and the
\* NULL that ends the list, are written past its end.
GetKeysOverruns == Size > KeyRoom

\* tree_destroy frees the entry of every node.
DestroysTwice == \E p, q \in DOMAIN tree : p # q /\ HasEntry(p) /\ tree[p] = tree[q]

-----------------------------------------------------------------------------
(* Properties. *)

\* Types, and the two things every walk relies on: a node is reached through its
\* parents, and every pointer leads to an entry.
TypeOK ==
  /\ \A p \in DOMAIN tree : /\ \A i \in 1..Len(p) : p[i] \in Sides
                            /\ \A i \in 0..Len(p) : SubSeq(p, 1, i) \in DOMAIN tree
                            /\ tree[p] \in EntryIds \cup {NULL}
  /\ DOMAIN entries = Pointed(tree)
  /\ \A id \in DOMAIN entries : entries[id] \in [key : Keys, value : Values, live : BOOLEAN]

\* No node points to an entry that tree_del has freed, although a delete with two
\* children makes two nodes share one entry and a later delete frees it.
NoDangling == \A p \in DOMAIN tree : HasEntry(p) => EntryAt(p).live

\* After tree_put(k, v), whatever was deleted before, tree_get(k) returns v and
\* every other key that was found is still found with its value.
PutBinds ==
  [][\A k \in Keys, v \in Values :
       Put(k, v) => /\ Get(k)' = v
                    /\ \A j \in Keys \ {k} : Get(j) # NULL => Get(j)' = Get(j)]_vars

KeysFound == {k \in Keys : Found(k)}

Map == INSTANCE KeyValueMap WITH map <- [k \in KeysFound |-> Get(k)]

\* As long as nothing is deleted the tree is the map that tree.h promises, ...
PutsMakeMap == Map!Spec

\* ... and size and height agree with what the walks find, although the order of the
\* keys is not an order: each of two keys of different length is "greater" than the
\* other; getkeys lists just the keys that are found, as long as they fit its array,
\* and does not trip over an empty child; tree_destroy frees each entry once.
PutsAreCounted ==
  /\ Size = Cardinality(KeysFound)
  /\ ~GetKeysOverruns => KeysReached = KeysFound
  /\ \A k \in KeysFound : Len(End(k)) < Height
  /\ Height <= Size
  /\ ~GetKeysCrashes /\ ~DestroysTwice

=============================================================================
