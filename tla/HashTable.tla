----------------------------- MODULE HashTable -----------------------------
(***************************************************************************)
(* The hash table of grupo62_2 (table.c, data.c, entry.c): a fixed array   *)
(* whose entries form chains.  A key that finds its own slot taken goes to *)
(* the highest free slot and to the end of the chain that passes through   *)
(* its own, so that keys of several slots share a chain.                   *)
(*                                                                         *)
(* A table is a record: the slots in use are the domain of "ary", since    *)
(* key and value of an entry are set together and never cleared.           *)
(***************************************************************************)
EXTENDS Integers, FiniteSets

CONSTANTS
  Keys,      \* set of <<sum of the characters that hash adds up, rank>>
  Values

\* A char has a sign: letters with an accent make sums that are below zero.
ASSUME KeysAssumption == Keys \subseteq Int \X Nat

NULL == -1

Slots(t) == 0..(t.size - 1)

\* C's remainder has the sign of the sum.
hash(key, size) == IF key[1] >= 0 THEN key[1] % size ELSE -((-key[1]) % size)

table_create(n) == [size |-> n, ary |-> [i \in {} |-> NULL], numElem |-> 0, numCol |-> 0]

\* entry_initialize, filled in.
Entry(key, value) == [key |-> key, value |-> value, next |-> NULL]

InUse(t) == DOMAIN t.ary

\* The slot after n steps along the chain through slot i; the last one has no next.
Walk(t, i) ==
  LET at[n \in 0..t.size] ==
        IF n = 0 THEN i
        ELSE IF t.ary[at[n - 1]].next = NULL THEN at[n - 1]
        ELSE t.ary[at[n - 1]].next
  IN  at

Chain(t, i) == {Walk(t, i)[n] : n \in 0..t.size}
LastOf(t, i) == Walk(t, i)[t.size]

Home(t, key) == hash(key, t.size)

\* The slot would lie before the array: what is read, and written, is other memory.
Outside(t, key) == Home(t, key) < 0

\* The slot that holds key, if the walk from its own slot comes to it.
Found(t, key) ==
  IF Home(t, key) \in InUse(t)
  THEN {i \in Chain(t, Home(t, key)) : t.ary[i].key = key}
  ELSE {}

\* data_dup of what is found, or NULL: no value is empty.
table_get(t, key) ==
  IF Found(t, key) = {} THEN NULL ELSE t.ary[CHOOSE i \in Found(t, key) : TRUE].value

Accepts(t, key) == t.numElem # t.size /\ Found(t, key) = {}

HighestFree(t) ==
  CHOOSE i \in Slots(t) \ InUse(t) : \A j \in Slots(t) \ InUse(t) : j <= i

AtHome(t, key, value) ==
  [t EXCEPT !.ary = [i \in InUse(t) \cup {Home(t, key)} |->
                       IF i = Home(t, key) THEN Entry(key, value) ELSE t.ary[i]],
            !.numElem = @ + 1]

\* Mutant: the new entry comes right after the home slot; what followed is lost.
CollidingAfterHome(t, key, value) ==
  LET new == HighestFree(t)
  IN  [t EXCEPT !.ary = [i \in InUse(t) \cup {new} |->
                           IF i = new THEN Entry(key, value)
                           ELSE IF i = Home(t, key) THEN [t.ary[i] EXCEPT !.next = new]
                           ELSE t.ary[i]],
                !.numElem = @ + 1,
                !.numCol = @ + 1]

Colliding(t, key, value) ==
  LET new == HighestFree(t)
  IN  [t EXCEPT !.ary = [i \in InUse(t) \cup {new} |->
                           IF i = new THEN Entry(key, value)
                           ELSE IF i = LastOf(t, Home(t, key)) THEN [t.ary[i] EXCEPT !.next = new]
                           ELSE t.ary[i]],
                !.numElem = @ + 1,
                !.numCol = @ + 1]

\* Mutant: the collision is counted before the key is looked for.
PutCountsFirst(t, key, value) ==
  IF ~Accepts(t, key)
  THEN IF Home(t, key) \in InUse(t) THEN [t EXCEPT !.numCol = @ + 1] ELSE t
  ELSE IF Home(t, key) \in InUse(t) THEN Colliding(t, key, value)
  ELSE AtHome(t, key, value)

\* Mutant: the slot is taken for free without a look.
PutOverHome(t, key, value) == IF Accepts(t, key) THEN AtHome(t, key, value) ELSE t

\* table_put refuses a full table before it looks for the slot of the key.
PutGoesAstray(t, key) == t.numElem # t.size /\ Outside(t, key)

\* The table after table_put, which returns 0 if Accepts and -1 if not.
table_put(t, key, value) ==
  IF ~Accepts(t, key) THEN t
  ELSE IF Home(t, key) \in InUse(t) THEN Colliding(t, key, value)
  ELSE AtHome(t, key, value)

\* Mutant: the entry at the start of the chain is the one that is replaced.
UpdateHome(t, key, value) == [t EXCEPT !.ary[Home(t, key)].value = value]

\* The table after table_update of a key that is found.
table_update(t, key, value) ==
  [t EXCEPT !.ary = [i \in InUse(t) |-> IF i \in Found(t, key)
                                        THEN [t.ary[i] EXCEPT !.value = value]
                                        ELSE t.ary[i]]]

\* A chain that does not hold the key is followed to NULL, which is read.
UpdateCrashes(t, key) == Home(t, key) \in InUse(t) /\ Found(t, key) = {}

table_get_keys(t) == {t.ary[i].key : i \in InUse(t)}

-----------------------------------------------------------------------------
(* What the properties of a table are made of. *)

TableType(t, size) ==
  /\ t.size = size
  /\ InUse(t) \subseteq Slots(t)
  /\ \A i \in InUse(t) : t.ary[i] \in [key : Keys, value : Values, next : Slots(t) \cup {NULL}]
  /\ t.numElem \in 0..size
  /\ t.numCol \in 0..size

\* Every chain ends, leads through slots in use, and passes the slots of all keys
\* that belong to its slots; a key is held once; the counters count.
Linked(t) ==
  /\ \A i \in InUse(t) : /\ t.ary[i].next \in InUse(t) \cup {NULL}
                         /\ t.ary[LastOf(t, i)].next = NULL
                         /\ Found(t, t.ary[i].key) = {i}
  /\ t.numElem = Cardinality(InUse(t))
  /\ t.numCol = Cardinality({i \in InUse(t) : Home(t, t.ary[i].key) # i})

\* What is in the slots, however they are linked.
Contents(t) ==
  [k \in table_get_keys(t) |-> t.ary[CHOOSE i \in InUse(t) : t.ary[i].key = k].value]
=============================================================================
