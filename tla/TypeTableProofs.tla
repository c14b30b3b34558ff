-------------------------- MODULE TypeTableProofs --------------------------
(***************************************************************************)
(* The inductive invariant of the type table, for every hierarchy of any   *)
(* size, every choice of slots, every order of registration and every way  *)
(* in which classes share keys, and what follows from it: no entry is ever *)
(* overwritten, and the instance check is exact.  On top of it the         *)
(* invariant of the reflection registry: readers find what was registered, *)
(* and the creator sets every field of the object it creates, once.        *)
(***************************************************************************)
EXTENDS ObjectCreator, FiniteSetTheorems, WellFoundedInduction, TLAPS

\* The slots a class takes when it is given the index t.
Slots(c, t) == t .. t + NumSlots(c) - 1

\* What the three ways to allocate an index have in common: a class with a new
\* key gets the index t, where the table is empty, and a new entry there; one
\* other entry at most grows.
Install(c, t) ==
  /\ Fresh(c) /\ DepthFits(c) /\ c \in Class
  /\ t \in Nat /\ t \notin Types /\ ParentIndex(c) < t
  /\ UNCHANGED <<decl, exited>>
  /\ counter' \in Nat /\ counter <= counter' /\ t + NumSlots(c) <= counter'
  /\ index' = [index EXCEPT ![c] = t]
  /\ key2index' = [key2index EXCEPT ![Key(c)] = t]
  /\ Types' = Types \union {t} /\ table' = [i \in Types' |-> table'[i]]
  /\ table'[t] = NewEntry(c)
  /\ \A i \in Types :
       /\ table'[i] = [table[i] EXCEPT !.allocated = table'[i].allocated]
       /\ table'[i].allocated \in table[i].allocated .. table[i].num_slots
  /\ t < DynBegin => NumSlots(c) = 1

\* The new slots are free, or the next ones an ancestor has reserved.
Placed(c, t) ==
  /\ \A b \in Types :
       \/ Slots(c, t) \intersect Reserved(b) = {}
       \/ /\ b = ParentIndex(c) \/ b \in Ancestors(ParentIndex(c))
          /\ Slots(c, t) \subseteq b + 1 .. b + table'[b].allocated - 1
  /\ \/ ParentEntry(c).overflow
     \/ Slots(c, t) \subseteq
          ParentIndex(c) + 1 .. ParentIndex(c) + table'[ParentIndex(c)].allocated - 1

\* The facts about an entry that the steps below use.
LEMMA EntryFacts ==
  ASSUME TInv, NEW i \in Types
  PROVE  /\ i \in Nat /\ IsEntry(table[i])
         /\ table[i].key \in TypeKey /\ table[i].depth \in Nat
         /\ table[i].num_slots \in Nat /\ table[i].allocated \in Nat
         /\ table[i].allocated >= 1 /\ table[i].allocated <= table[i].num_slots
         /\ table[i].overflow \in BOOLEAN
         /\ table[i].ancestors \in [0 .. table[i].depth - 1 -> Nat]
         /\ i + table[i].num_slots <= counter
         /\ i \in Reserved(i)
<1>1. i \in Nat
  BY DEF TInv, TypeOK
<1>2. IsEntry(table[i])
  BY DEF TInv, TypeOK
<1>3. /\ table[i].key \in TypeKey /\ table[i].depth \in Nat
      /\ table[i].num_slots \in Nat /\ table[i].allocated \in Nat
      /\ table[i].overflow \in BOOLEAN
      /\ table[i].ancestors \in [0 .. table[i].depth - 1 -> Nat]
  BY <1>2 DEF IsEntry
<1>4. /\ table[i].allocated \in 1 .. table[i].num_slots
      /\ i + table[i].num_slots <= counter
  BY DEF TInv, EntriesConsistent
<1>5. table[i].allocated >= 1 /\ table[i].allocated <= table[i].num_slots
  BY <1>3, <1>4
<1>6. i \in Reserved(i)
  BY <1>1, <1>3, <1>5 DEF Reserved
<1> QED BY <1>1, <1>2, <1>3, <1>4, <1>5, <1>6

\* What is declared of a class.
LEMMA DeclFacts ==
  ASSUME TInv, NEW c \in Class
  PROVE  /\ Key(c) \in TypeKey /\ Parent(c) \in Class
         /\ decl[c].depth \in Nat /\ decl[c].slots \in Nat
         /\ NumSlots(c) \in Nat /\ NumSlots(c) >= 1
         /\ decl[c].overflow \in BOOLEAN /\ decl[c].final \in BOOLEAN
         /\ decl[c].static \in Nat \union {Unset}
         /\ decl[Root].depth = 0 /\ decl[Root].slots = 0 /\ ~decl[Root].final
         /\ decl[Root].overflow /\ Parent(Root) = Root
         /\ c # Root =>
              /\ Key(c) # Key(Root) /\ decl[c].depth = decl[Parent(c)].depth + 1
              /\ ~decl[Parent(c)].final
              /\ decl[c].static # Unset =>
                   decl[c].static < DynBegin /\ decl[c].slots = 0 /\ Parent(c) = Root
<1>1. decl[c] \in Declaration /\ WellDeclared(decl)
  BY DEF TInv, TypeOK
<1>2. /\ Key(c) \in TypeKey /\ Parent(c) \in Class
      /\ decl[c].depth \in Nat /\ decl[c].slots \in Nat
      /\ decl[c].overflow \in BOOLEAN /\ decl[c].final \in BOOLEAN
      /\ decl[c].static \in Nat \union {Unset}
  BY <1>1 DEF Declaration, Key, Parent
<1>3. NumSlots(c) \in Nat /\ NumSlots(c) >= 1
  BY <1>2 DEF NumSlots
<1>4. /\ decl[Root].depth = 0 /\ decl[Root].slots = 0 /\ ~decl[Root].final
      /\ decl[Root].overflow /\ Parent(Root) = Root
  BY <1>1 DEF WellDeclared, Parent
<1>5. c # Root =>
        /\ Key(c) # Key(Root) /\ decl[c].depth = decl[Parent(c)].depth + 1
        /\ ~decl[Parent(c)].final
        /\ decl[c].static # Unset =>
             decl[c].static < DynBegin /\ decl[c].slots = 0 /\ Parent(c) = Root
  BY <1>1 DEF WellDeclared, Parent, Key
<1> QED BY <1>2, <1>3, <1>4, <1>5

\* The entry a registered class was answered has its key.
LEMMA ClassFacts ==
  ASSUME TInv, NEW c \in Registered
  PROVE  /\ c \in Class /\ index[c] \in Types /\ index[c] # Unset
         /\ Key(c) \in Keys /\ index[c] = key2index[Key(c)]
         /\ table[index[c]].key = Key(c)
         /\ Parent(c) \in Registered
<1>1. c \in Class /\ index[c] # Unset
  BY DEF Registered
<1>2. Parent(c) \in Registered /\ Key(c) \in Keys /\ index[c] = key2index[Key(c)]
  BY DEF TInv, IndicesConsistent
<1>3. key2index[Key(c)] \in Types /\ table[key2index[Key(c)]].key = Key(c)
  BY <1>2 DEF TInv, IndicesConsistent
<1> QED BY <1>1, <1>2, <1>3

\* A type is the one its key is looked up to.
LEMMA KeyFacts ==
  ASSUME TInv, NEW i \in Types
  PROVE  table[i].key \in Keys /\ key2index[table[i].key] = i
BY DEF TInv, IndicesConsistent

\* The ancestors of a type, each in its place.
LEMMA AncestorFacts ==
  ASSUME TInv, NEW i \in Types, NEW j \in 0 .. table[i].depth - 1
  PROVE  LET a == table[i].ancestors[j] IN
         /\ a \in Types /\ a \in Ancestors(i)
         /\ table[a].depth = j /\ a < i
         /\ table[i].overflow => table[a].overflow
         /\ ~table[a].overflow => Nested(i, a)
         /\ \A k \in 0 .. j - 1 : table[a].ancestors[k] = table[i].ancestors[k]
  BY DEF TInv, AncestorsConsistent, AncestorsChained, Ancestors

\* The parent of a class is registered before it.
LEMMA ParentFacts ==
  ASSUME TInv, NEW c \in Class, Fresh(c)
  PROVE  /\ c \notin Registered /\ c # Root
         /\ Key(c) \in TypeKey /\ Key(c) \notin Keys
         /\ Parent(c) \in Registered /\ ParentIndex(c) \in Types
<1>1. c \notin Registered /\ Parent(c) \in Registered /\ Key(c) \notin Keys
  BY DEF Fresh, Asks
<1>2. index[Root] = RootIndex /\ Root \in Class
  BY TypeTableAssumption DEF TInv, IndicesConsistent
<1>3. Root \in Registered
  BY <1>2, TypeTableAssumption DEF Registered
<1>4. ParentIndex(c) \in Types
  BY <1>1, ClassFacts DEF ParentIndex
<1> QED BY <1>1, <1>3, <1>4, DeclFacts

-----------------------------------------------------------------------------
(* What an installed class looks like afterwards.                          *)

LEMMA InstallIndices ==
  ASSUME TInv, NEW c, NEW t, Install(c, t)
  PROVE  /\ Registered' = Registered \union {c} /\ c \notin Registered
         /\ index'[c] = t /\ \A b \in Registered : index'[b] = index[b]
         /\ Keys' = Keys \union {Key(c)} /\ Key(c) \notin Keys
         /\ key2index'[Key(c)] = t /\ \A k \in Keys : key2index'[k] = key2index[k]
         /\ \A b : (Key(b))' = Key(b) /\ (Parent(b))' = Parent(b)
                   /\ (NumSlots(b))' = NumSlots(b)
<1>1. /\ index \in [Class -> Nat \union {Unset}] /\ c \in Class /\ t \in Nat
      /\ key2index \in [TypeKey -> Nat \union {Unset}]
  BY DEF TInv, TypeOK, Install
<1>2. /\ index' = [index EXCEPT ![c] = t] /\ key2index' = [key2index EXCEPT ![Key(c)] = t]
      /\ decl' = decl
  BY DEF Install
<1>3. t # Unset
  BY <1>1, TypeTableAssumption
<1>4. c \notin Registered /\ Key(c) \notin Keys /\ Key(c) \in TypeKey
  BY <1>1, ParentFacts DEF Install
<1>5. index'[c] = t /\ \A b \in Class \ {c} : index'[b] = index[b]
  BY <1>1, <1>2
<1>6. key2index'[Key(c)] = t /\ \A k \in TypeKey \ {Key(c)} : key2index'[k] = key2index[k]
  BY <1>1, <1>2, <1>4
<1>7. Registered' = Registered \union {c}
  BY <1>1, <1>3, <1>5 DEF Registered
<1>8. Keys' = Keys \union {Key(c)}
  BY <1>3, <1>4, <1>6 DEF Keys
<1>9. \A k \in Keys : key2index'[k] = key2index[k]
  BY <1>4, <1>6 DEF Keys
<1>10. \A b \in Registered : index'[b] = index[b]
  BY <1>4, <1>5 DEF Registered
<1>11. \A b : (Key(b))' = Key(b) /\ (Parent(b))' = Parent(b)
              /\ (NumSlots(b))' = NumSlots(b)
  BY <1>2 DEF Key, Parent, NumSlots
<1> QED BY <1>4, <1>5, <1>6, <1>7, <1>8, <1>9, <1>10, <1>11

LEMMA InstallOld ==
  ASSUME TInv, NEW c, NEW t, Install(c, t), NEW b \in Types
  PROVE  /\ table'[b].key = table[b].key
         /\ table'[b].depth = table[b].depth
         /\ table'[b].num_slots = table[b].num_slots
         /\ table'[b].overflow = table[b].overflow
         /\ table'[b].ancestors = table[b].ancestors
         /\ table'[b].allocated \in Nat
         /\ table[b].allocated <= table'[b].allocated
         /\ table'[b].allocated \in 1 .. table[b].num_slots
         /\ IsEntry(table'[b])
         /\ (Reserved(b))' = Reserved(b)
         /\ (Ancestors(b))' = Ancestors(b)
<1>1. table'[b] = [table[b] EXCEPT !.allocated = table'[b].allocated]
  BY DEF Install
<1>2. table'[b].allocated \in table[b].allocated .. table[b].num_slots
  BY DEF Install
<1>3. IsEntry(table[b]) /\ table[b].allocated \in Nat /\ table[b].allocated >= 1
      /\ table[b].num_slots \in Nat
  BY EntryFacts
<1>4. /\ table'[b].allocated \in Nat
      /\ table[b].allocated <= table'[b].allocated
      /\ table'[b].allocated \in 1 .. table[b].num_slots
  BY <1>2, <1>3
<1>5. \A v : LET r == [table[b] EXCEPT !.allocated = v] IN
        /\ r.key = table[b].key
        /\ r.depth = table[b].depth /\ r.num_slots = table[b].num_slots
        /\ r.overflow = table[b].overflow /\ r.ancestors = table[b].ancestors
        /\ v \in Nat => IsEntry(r)
  BY <1>3 DEF IsEntry
<1>6. /\ table'[b].key = table[b].key
      /\ table'[b].depth = table[b].depth
      /\ table'[b].num_slots = table[b].num_slots
      /\ table'[b].overflow = table[b].overflow
      /\ table'[b].ancestors = table[b].ancestors
      /\ IsEntry(table'[b])
  BY <1>1, <1>4, <1>5
<1>7. (Reserved(b))' = Reserved(b) /\ (Ancestors(b))' = Ancestors(b)
  BY <1>6 DEF Reserved, Ancestors
<1> QED BY <1>4, <1>6, <1>7

LEMMA InstallNew ==
  ASSUME TInv, NEW c, NEW t, Install(c, t), NEW p, p = ParentIndex(c)
  PROVE  /\ IsEntry(table'[t])
         /\ table'[t].key = Key(c)
         /\ table'[t].depth = table[p].depth + 1
         /\ table'[t].depth = decl[c].depth
         /\ table'[t].num_slots = NumSlots(c)
         /\ table'[t].allocated = 1
         /\ table'[t].overflow = (decl[c].overflow /\ table[p].overflow)
         /\ \A i \in 0 .. table[p].depth - 1 :
              table'[t].ancestors[i] = table[p].ancestors[i]
         /\ table'[t].ancestors[table[p].depth] = p
         /\ (Reserved(t))' = Slots(c, t)
         /\ (Ancestors(t))' = Ancestors(p) \union {p}
<1> DEFINE d == table[p].depth
           anc == [i \in 0 .. d |-> IF i < d THEN table[p].ancestors[i] ELSE p]
<1>1. c \in Class /\ Fresh(c) /\ decl[c].depth = d + 1
  BY DEF Install, DepthFits, ParentEntry
<1>2. /\ p \in Types /\ Key(c) \in TypeKey /\ NumSlots(c) \in Nat
      /\ decl[c].overflow \in BOOLEAN
  BY <1>1, ParentFacts, DeclFacts
<1>3. p \in Nat /\ d \in Nat /\ table[p].overflow \in BOOLEAN
      /\ table[p].ancestors \in [0 .. d - 1 -> Nat]
  BY <1>2, EntryFacts
<1>4. table'[t] = [key |-> Key(c), depth |-> decl[c].depth, num_slots |-> NumSlots(c),
                   allocated |-> 1, overflow |-> decl[c].overflow /\ table[p].overflow,
                   ancestors |-> anc]
  BY DEF Install, NewEntry, ParentEntry
<1>5. anc \in [0 .. (d + 1) - 1 -> Nat]
  BY <1>3
<1>6. /\ table'[t].key = Key(c) /\ table'[t].depth = d + 1
      /\ table'[t].num_slots = NumSlots(c)
      /\ table'[t].allocated = 1
      /\ table'[t].overflow = (decl[c].overflow /\ table[p].overflow)
      /\ table'[t].ancestors = anc
  <2> HIDE DEF anc, d
  <2> QED BY <1>1, <1>4
<1>7. IsEntry(table'[t])
  <2>1. (decl[c].overflow /\ table[p].overflow) \in BOOLEAN
    OBVIOUS
  <2>2. d + 1 \in Nat
    BY <1>3
  <2> HIDE DEF anc, d
  <2> QED BY <1>1, <1>2, <1>4, <1>5, <1>6, <2>1, <2>2 DEF IsEntry
<1>8. /\ \A i \in 0 .. d - 1 : table'[t].ancestors[i] = table[p].ancestors[i]
      /\ table'[t].ancestors[d] = p
  BY <1>3, <1>6
<1>9. (Reserved(t))' = Slots(c, t)
  BY <1>6 DEF Reserved, Slots
<1>10. (Ancestors(t))' = Ancestors(p) \union {p}
  <2>1. (Ancestors(t))' = {table'[t].ancestors[i] : i \in 0 .. (d + 1) - 1}
    BY <1>6 DEF Ancestors
  <2>2. 0 .. (d + 1) - 1 = (0 .. d - 1) \union {d}
    BY <1>3
  <2> DEFINE f == table'[t].ancestors
             g == table[p].ancestors
             S == 0 .. d - 1
  <2>3. {f[i] : i \in S \union {d}} = {f[i] : i \in S} \union {f[d]}
    <3> HIDE DEF f, S, d
    <3> QED OBVIOUS
  <2>4. (\A i \in S : f[i] = g[i]) => {f[i] : i \in S} = {g[i] : i \in S}
    <3> HIDE DEF f, g, S
    <3> QED OBVIOUS
  <2>5. (Ancestors(t))' = {g[i] : i \in S} \union {p}
    <3>1. (\A i \in S : f[i] = g[i]) /\ f[d] = p
      BY <1>8
    <3>2. (Ancestors(t))' = {f[i] : i \in S \union {d}}
      BY <2>1, <2>2
    <3> HIDE DEF f, g, S, d
    <3> QED BY <2>3, <2>4, <3>1, <3>2
  <2> QED BY <2>5 DEF Ancestors
<1> QED BY <1>1, <1>6, <1>7, <1>8, <1>9, <1>10

-----------------------------------------------------------------------------
(* Installing a class that is well placed preserves the invariant.         *)

LEMMA InstallTypeOK ==
  ASSUME TInv, NEW c, NEW t, Install(c, t)
  PROVE  TypeOK'
<1>1. decl' = decl /\ exited' = exited /\ counter' \in Nat /\ c \in Class /\ t \in Nat
  BY DEF Install
<1>2. decl' \in [Class -> Declaration] /\ (WellDeclared(decl))'
  BY <1>1 DEF TInv, TypeOK, WellDeclared
<1>3. index' \in [Class -> Nat \union {Unset}] /\ key2index' \in [TypeKey -> Nat \union {Unset}]
  BY DEF TInv, TypeOK, Install
<1>4. Types' = Types \union {t} /\ table' = [i \in Types' |-> table'[i]]
  BY DEF Install
<1>5. ASSUME NEW i \in Types'
      PROVE  IsEntry(table'[i])
  <2>1. i \in Types \/ i = t
    BY <1>4
  <2>2. IsEntry(table'[t])
    <3>1. PICK p : p = ParentIndex(c)
      OBVIOUS
    <3> QED BY <3>1, InstallNew
  <2>3. ASSUME NEW b \in Types PROVE IsEntry(table'[b])
    BY InstallOld
  <2> QED BY <2>1, <2>2, <2>3
<1>6. \A i \in Types' : (IsEntry(table[i]))'
  BY <1>5 DEF IsEntry
<1>7. exited' \in BOOLEAN
  BY <1>1 DEF TInv, TypeOK
<1>8. Types' \subseteq 0 .. counter' - 1
  <2>1. PICK l, m, n : l = counter /\ m = counter' /\ n = NumSlots(c)
    OBVIOUS
  <2>2. /\ l \in Nat /\ m \in Nat /\ n \in Nat /\ n >= 1
        /\ l <= m /\ t + n <= m /\ Types \subseteq 0 .. l - 1
    BY <1>1, <2>1, DeclFacts DEF Install, TInv, TypeOK
  <2>3. Types \union {t} \subseteq 0 .. m - 1
    <3>1. ASSUME NEW i \in Types PROVE i \in 0 .. m - 1
      BY <2>2
    <3>2. t \in 0 .. m - 1
      BY <1>1, <2>2
    <3> QED BY <3>1, <3>2
  <2> QED BY <1>4, <2>1, <2>3
<1> QED BY <1>1, <1>2, <1>3, <1>4, <1>6, <1>7, <1>8 DEF TypeOK

LEMMA InstallEntries ==
  ASSUME TInv, NEW c, NEW t, Install(c, t)
  PROVE  EntriesConsistent'
<1>p. PICK p : p = ParentIndex(c)
  OBVIOUS
<1>1. /\ c \in Class /\ Fresh(c) /\ decl' = decl /\ counter <= counter'
      /\ counter' \in Nat /\ t \in Nat /\ t + NumSlots(c) <= counter'
      /\ t < DynBegin => NumSlots(c) = 1
      /\ Types' = Types \union {t}
  BY DEF Install
<1>2. /\ Registered' = Registered \union {c} /\ c \notin Registered
      /\ index'[c] = t /\ \A b \in Registered : index'[b] = index[b]
      /\ \A b : (Key(b))' = Key(b) /\ (Parent(b))' = Parent(b)
                /\ (NumSlots(b))' = NumSlots(b)
  BY InstallIndices
<1>3. /\ RootIndex \in Types /\ table[RootIndex].key = Key(Root)
      /\ table[RootIndex].overflow /\ DynBegin <= counter
      /\ counter \in Nat
  BY DEF TInv, EntriesConsistent, TypeOK
<1>4. /\ RootIndex \in Types' /\ table'[RootIndex].key = (Key(Root))'
      /\ table'[RootIndex].overflow
  BY <1>1, <1>2, <1>3, InstallOld
<1>5. DynBegin <= counter'
  BY <1>1, <1>3, TypeTableAssumption
<1>6. ASSUME NEW i \in Types
      PROVE  /\ table'[i].allocated \in 1 .. table'[i].num_slots
             /\ i + table'[i].num_slots <= counter'
             /\ i < DynBegin => table'[i].num_slots = 1
             /\ \E b \in Registered' : (MadeFor(i, b))'
  <2>1. /\ i + table[i].num_slots <= counter
        /\ i < DynBegin => table[i].num_slots = 1
    BY DEF TInv, EntriesConsistent
  <2>2. /\ table'[i].key = table[i].key
        /\ table'[i].depth = table[i].depth
        /\ table'[i].num_slots = table[i].num_slots
        /\ table'[i].overflow = table[i].overflow
        /\ table'[i].ancestors = table[i].ancestors
        /\ table'[i].allocated \in 1 .. table[i].num_slots
    BY InstallOld
  <2>3. i + table[i].num_slots <= counter'
    <3>1. i \in Nat /\ table[i].num_slots \in Nat
      BY EntryFacts
    <3> QED BY <1>1, <1>3, <2>1, <3>1
  <2>4. PICK b \in Registered : MadeFor(i, b)
    BY DEF TInv, EntriesConsistent
  <2>5. Parent(b) \in Registered
    BY ClassFacts
  <2>6. index'[b] = index[b] /\ (ParentIndex(b))' = ParentIndex(b)
    BY <1>2, <2>5 DEF ParentIndex
  <2>7. (MadeFor(i, b))'
    BY <1>1, <1>2, <2>2, <2>4, <2>6 DEF MadeFor
  <2> QED BY <1>2, <2>1, <2>2, <2>3, <2>7
<1>7. /\ table'[t].allocated \in 1 .. table'[t].num_slots
      /\ t + table'[t].num_slots <= counter'
      /\ t < DynBegin => table'[t].num_slots = 1
      /\ (MadeFor(t, c))'
  <2>1. p \in Types /\ NumSlots(c) \in Nat /\ NumSlots(c) >= 1
        /\ Parent(c) \in Registered
    BY <1>1, <1>p, ParentFacts, DeclFacts
  <2>2. table[p].depth \in Nat
    BY <2>1, EntryFacts
  <2>3. /\ table'[t].key = Key(c)
        /\ table'[t].depth = table[p].depth + 1
        /\ table'[t].depth = decl[c].depth
        /\ table'[t].num_slots = NumSlots(c)
        /\ table'[t].allocated = 1
        /\ table'[t].overflow = (decl[c].overflow /\ table[p].overflow)
        /\ table'[t].ancestors[table[p].depth] = p
    BY <1>p, InstallNew
  <2>4. table'[t].overflow => decl[c].overflow
    BY <2>3
  <2>5. table'[t].ancestors[table'[t].depth - 1] = p
    <3>1. table'[t].depth - 1 = table[p].depth
      BY <2>2, <2>3
    <3> QED BY <2>3, <3>1
  <2>6. (ParentIndex(c))' = p
    BY <1>2, <1>p, <2>1 DEF ParentIndex
  <2>7. (MadeFor(t, c))'
    BY <1>1, <1>2, <2>3, <2>4, <2>5, <2>6 DEF MadeFor
  <2> QED BY <1>1, <2>1, <2>3, <2>7
<1>8. \A i \in Types' :
        /\ table'[i].allocated \in 1 .. table'[i].num_slots
        /\ i + table'[i].num_slots <= counter'
        /\ i < DynBegin => table'[i].num_slots = 1
        /\ \E b \in Registered' : (MadeFor(i, b))'
  BY <1>1, <1>2, <1>6, <1>7
<1> QED BY <1>4, <1>5, <1>8 DEF EntriesConsistent

LEMMA InstallConsistentIndices ==
  ASSUME TInv, NEW c, NEW t, Install(c, t)
  PROVE  IndicesConsistent'
<1>1. /\ Registered' = Registered \union {c} /\ c \notin Registered
      /\ index'[c] = t /\ \A b \in Registered : index'[b] = index[b]
      /\ Keys' = Keys \union {Key(c)} /\ Key(c) \notin Keys
      /\ key2index'[Key(c)] = t /\ \A k \in Keys : key2index'[k] = key2index[k]
      /\ \A b : (Key(b))' = Key(b) /\ (Parent(b))' = Parent(b)
  BY InstallIndices
<1>2. c \in Class /\ Fresh(c) /\ Types' = Types \union {t}
  BY DEF Install
<1>3. Root \in Registered /\ index[Root] = RootIndex
  BY TypeTableAssumption DEF TInv, IndicesConsistent, Registered
<1>4. table'[t].key = Key(c) /\ \A i \in Types : table'[i].key = table[i].key
  <2>1. table'[t].key = Key(c)
    <3>1. PICK p : p = ParentIndex(c)
      OBVIOUS
    <3> QED BY <3>1, InstallNew
  <2> QED BY <2>1, InstallOld
<1>5. \A k \in Keys' : key2index'[k] \in Types' /\ table'[key2index'[k]].key = k
  <2>1. \A k \in Keys : key2index[k] \in Types /\ table[key2index[k]].key = k
    BY DEF TInv, IndicesConsistent
  <2> QED BY <1>1, <1>2, <1>4, <2>1
<1>6. \A i \in Types' : table'[i].key \in Keys' /\ key2index'[table'[i].key] = i
  BY <1>1, <1>2, <1>4, KeyFacts
<1>7. \A b \in Registered' :
        /\ Parent(b) \in Registered' /\ Key(b) \in Keys'
        /\ index'[b] = key2index'[Key(b)]
  <2>1. Parent(c) \in Registered
    BY <1>2, ParentFacts
  <2>2. \A b \in Registered :
          Parent(b) \in Registered /\ Key(b) \in Keys /\ index[b] = key2index[Key(b)]
    BY DEF TInv, IndicesConsistent
  <2> QED BY <1>1, <2>1, <2>2
<1> QED BY <1>1, <1>3, <1>5, <1>6, <1>7 DEF IndicesConsistent

\* Slots below an ancestor stay below it.
LEMMA NestedStays ==
  ASSUME TInv, NEW c, NEW t, Install(c, t),
         NEW a \in Types, NEW b \in Types, Nested(b, a)
  PROVE  (Nested(b, a))'
<1>1. /\ (Reserved(b))' = Reserved(b) /\ (Ancestors(b))' = Ancestors(b)
      /\ table'[a].allocated \in Nat /\ table[a].allocated <= table'[a].allocated
  BY InstallOld
<1>2. a \in Nat /\ table[a].allocated \in Nat
  BY EntryFacts
<1>3. a + 1 .. a + table[a].allocated - 1 \subseteq a + 1 .. a + table'[a].allocated - 1
  BY <1>1, <1>2
<1> QED BY <1>1, <1>3 DEF Nested

LEMMA InstallAncestors ==
  ASSUME TInv, NEW c, NEW t, Install(c, t), Placed(c, t)
  PROVE  AncestorsConsistent'
<1>p. PICK p : p = ParentIndex(c)
  OBVIOUS
<1> DEFINE Good(b, i) ==
             \E a \in Types' :
             /\ a = table'[b].ancestors[i]
             /\ table'[a].depth = i /\ a < b
             /\ table'[b].overflow => table'[a].overflow
             /\ ~table'[a].overflow => (Nested(b, a))'
<1>1. c \in Class /\ Fresh(c) /\ t \in Nat /\ p < t /\ Types' = Types \union {t}
  BY <1>p DEF Install
<1>3. ASSUME NEW b \in Types, NEW i \in 0 .. table'[b].depth - 1
      PROVE  Good(b, i)
  <2>1. /\ table'[b].depth = table[b].depth
        /\ table'[b].overflow = table[b].overflow
        /\ table'[b].ancestors = table[b].ancestors
    BY InstallOld
  <2>2. PICK a \in Types :
        /\ a = table[b].ancestors[i]
        /\ table[a].depth = i /\ a < b
        /\ table[b].overflow => table[a].overflow
        /\ ~table[a].overflow => Nested(b, a)
    BY <2>1, AncestorFacts
  <2>3. table'[a].depth = table[a].depth /\ table'[a].overflow = table[a].overflow
    BY <2>2, InstallOld
  <2>4. ~table[a].overflow => (Nested(b, a))'
    BY <2>2, NestedStays
  <2> QED BY <1>1, <2>1, <2>2, <2>3, <2>4
<1>4. p \in Types
  BY <1>1, <1>p, ParentFacts
<1>5. /\ table'[t].depth = table[p].depth + 1
      /\ table'[t].overflow = (decl[c].overflow /\ table[p].overflow)
      /\ \A i \in 0 .. table[p].depth - 1 :
           table'[t].ancestors[i] = table[p].ancestors[i]
      /\ table'[t].ancestors[table[p].depth] = p
      /\ (Reserved(t))' = Slots(c, t)
      /\ (Ancestors(t))' = Ancestors(p) \union {p}
  BY <1>p, InstallNew
<1>6. table[p].depth \in Nat /\ p \in Nat
  BY <1>4, EntryFacts
<1>7. /\ table'[p].depth = table[p].depth /\ table'[p].overflow = table[p].overflow
      /\ table'[p].allocated \in 1 .. table[p].num_slots
  BY <1>4, InstallOld
<1>8. ~table[p].overflow => Slots(c, t) \subseteq p + 1 .. p + table'[p].allocated - 1
  BY <1>p DEF Placed, ParentEntry
<1>9. ASSUME NEW i \in 0 .. table[p].depth - 1
      PROVE  Good(t, i)
  <2>1. PICK a \in Types :
        /\ a = table[p].ancestors[i]
        /\ table[a].depth = i /\ a < p
        /\ a \in Ancestors(p)
        /\ table[p].overflow => table[a].overflow
        /\ ~table[a].overflow => Nested(p, a)
    BY <1>4, AncestorFacts
  <2>2. table'[t].ancestors[i] = a
    BY <1>5, <2>1
  <2>3. table'[a].depth = table[a].depth /\ table'[a].overflow = table[a].overflow
    BY <2>1, InstallOld
  <2>4. a < t
    <3>1. a \in Nat
      BY <2>1, EntryFacts
    <3> QED BY <1>1, <1>6, <2>1, <3>1
  <2>5. ASSUME ~table[a].overflow
        PROVE  (Nested(t, a))'
    <3>1. ~table[p].overflow /\ Nested(p, a)
      BY <2>1, <2>5
    <3>2. (Nested(p, a))'
      BY <1>4, <2>1, <3>1, NestedStays
    <3>3. Slots(c, t) \subseteq Reserved(p)
      <4>1. table[p].num_slots \in Nat
        BY <1>4, EntryFacts
      <4>2. p + 1 .. p + table'[p].allocated - 1 \subseteq Reserved(p)
        BY <1>6, <1>7, <4>1 DEF Reserved
      <4> QED BY <1>8, <3>1, <4>2
    <3>4. Slots(c, t) \subseteq a + 1 .. a + table'[a].allocated - 1
      <4>1. (Reserved(p))' = Reserved(p)
        BY <1>4, InstallOld
      <4> QED BY <3>2, <3>3, <4>1 DEF Nested
    <3> QED BY <1>5, <2>1, <3>4 DEF Nested
  <2> QED BY <1>1, <1>5, <2>1, <2>2, <2>3, <2>4, <2>5
<1>10. Good(t, table[p].depth)
  <2>1. ~table[p].overflow => (Nested(t, p))'
    BY <1>4, <1>5, <1>8 DEF Nested
  <2> QED BY <1>1, <1>4, <1>5, <1>7, <2>1
<1>11. \A i \in 0 .. table'[t].depth - 1 : Good(t, i)
  <2>1. \A i \in 0 .. table'[t].depth - 1 :
          i \in 0 .. table[p].depth - 1 \/ i = table[p].depth
    BY <1>5, <1>6
  <2> QED BY <1>9, <1>10, <2>1
<1>12. \A b \in Types' : \A i \in 0 .. table'[b].depth - 1 : Good(b, i)
  BY <1>1, <1>3, <1>11
<1> QED BY <1>12 DEF AncestorsConsistent

LEMMA InstallSlots ==
  ASSUME TInv, NEW c, NEW t, Install(c, t), Placed(c, t)
  PROVE  SlotsLaminar'
<1>1. Types' = Types \union {t} /\ t \notin Types
  BY DEF Install
<1>2. ASSUME NEW a \in Types, NEW b \in Types, a # b
      PROVE  \/ (Reserved(a))' \intersect (Reserved(b))' = {}
             \/ (Nested(a, b))' \/ (Nested(b, a))'
  <2>1. Reserved(a) \intersect Reserved(b) = {} \/ Nested(a, b) \/ Nested(b, a)
    BY <1>2 DEF TInv, SlotsLaminar
  <2>2. (Reserved(a))' = Reserved(a) /\ (Reserved(b))' = Reserved(b)
    BY InstallOld
  <2> QED BY <2>1, <2>2, NestedStays
<1>p. PICK p : p = ParentIndex(c)
  OBVIOUS
<1>3. (Reserved(t))' = Slots(c, t) /\ (Ancestors(t))' = Ancestors(p) \union {p}
  BY <1>p, InstallNew
<1>4. ASSUME NEW b \in Types
      PROVE  (Reserved(t))' \intersect (Reserved(b))' = {} \/ (Nested(t, b))'
  <2>1. (Reserved(b))' = Reserved(b)
    BY InstallOld
  <2>2. \/ Slots(c, t) \intersect Reserved(b) = {}
        \/ /\ b = p \/ b \in Ancestors(p)
           /\ Slots(c, t) \subseteq b + 1 .. b + table'[b].allocated - 1
    BY <1>p DEF Placed
  <2> QED BY <1>3, <2>1, <2>2 DEF Nested
<1>5. \A a, b \in Types' : a # b =>
        \/ (Reserved(a))' \intersect (Reserved(b))' = {}
        \/ (Nested(a, b))' \/ (Nested(b, a))'
  BY <1>1, <1>2, <1>4
<1> QED BY <1>5 DEF SlotsLaminar

LEMMA InstallChained ==
  ASSUME TInv, NEW c, NEW t, Install(c, t)
  PROVE  AncestorsChained'
<1>p. PICK p : p = ParentIndex(c)
  OBVIOUS
<1>1. Types' = Types \union {t} /\ p \in Types
  BY <1>p, ParentFacts DEF Install
<1>2. /\ table'[t].depth = table[p].depth + 1
      /\ \A i \in 0 .. table[p].depth - 1 :
           table'[t].ancestors[i] = table[p].ancestors[i]
      /\ table'[t].ancestors[table[p].depth] = p
  BY <1>p, InstallNew
<1>3. table[p].depth \in Nat
  BY <1>1, EntryFacts
<1>4. \A b \in Types : table'[b].ancestors = table[b].ancestors
                       /\ table'[b].depth = table[b].depth
  BY InstallOld
<1>5. ASSUME NEW b \in Types, NEW j \in 0 .. table'[b].depth - 1, NEW k \in 0 .. j - 1
      PROVE  table'[table'[b].ancestors[j]].ancestors[k] = table'[b].ancestors[k]
  <2>1. j \in 0 .. table[b].depth - 1 /\ table'[b].ancestors = table[b].ancestors
    BY <1>4, <1>5
  <2>2. PICK a \in Types : a = table[b].ancestors[j]
                           /\ table[a].ancestors[k] = table[b].ancestors[k]
    BY <2>1, AncestorFacts
  <2> QED BY <1>4, <2>1, <2>2
<1>6. ASSUME NEW j \in 0 .. table'[t].depth - 1, NEW k \in 0 .. j - 1
      PROVE  table'[table'[t].ancestors[j]].ancestors[k] = table'[t].ancestors[k]
  <2>1. k \in 0 .. table[p].depth - 1
    BY <1>2, <1>3
  <2>2. table'[t].ancestors[k] = table[p].ancestors[k]
    BY <1>2, <2>1
  <2>3. CASE j = table[p].depth
    BY <1>1, <1>2, <1>4, <2>2, <2>3
  <2>4. CASE j \in 0 .. table[p].depth - 1
    <3>1. PICK a \in Types : a = table[p].ancestors[j]
                             /\ table[a].ancestors[k] = table[p].ancestors[k]
      BY <1>1, <2>4, AncestorFacts
    <3> QED BY <1>2, <1>4, <2>2, <2>4, <3>1
  <2>5. j = table[p].depth \/ j \in 0 .. table[p].depth - 1
    BY <1>2, <1>3
  <2> QED BY <2>3, <2>4, <2>5
<1>7. \A b \in Types' : \A j \in 0 .. table'[b].depth - 1 : \A k \in 0 .. j - 1 :
        table'[table'[b].ancestors[j]].ancestors[k] = table'[b].ancestors[k]
  BY <1>1, <1>5, <1>6
<1> QED BY <1>7 DEF AncestorsChained

LEMMA InstallTInv ==
  ASSUME TInv, NEW c, NEW t, Install(c, t), Placed(c, t)
  PROVE  TInv'
BY InstallTypeOK, InstallEntries, InstallConsistentIndices, InstallAncestors,
   InstallChained, InstallSlots DEF TInv

-----------------------------------------------------------------------------
(* The three ways GetOrAllocTypeIndex finds an index.                      *)

\* The table with one more entry.
LEMMA PutFacts ==
  ASSUME TInv, NEW t, t \notin Types, NEW e
  PROVE  /\ DOMAIN Put(t, e) = Types \union {t}
         /\ Put(t, e) = [i \in DOMAIN Put(t, e) |-> Put(t, e)[i]]
         /\ Put(t, e)[t] = e
         /\ \A i \in Types : Put(t, e)[i] = table[i]
BY DEF Put

\* An entry written back unchanged.
LEMMA EntryKept ==
  ASSUME TInv, NEW i \in Types
  PROVE  /\ table[i] = [table[i] EXCEPT !.allocated = table[i].allocated]
         /\ table[i].allocated \in table[i].allocated .. table[i].num_slots
<1>1. IsEntry(table[i]) /\ table[i].allocated \in Nat /\ table[i].num_slots \in Nat
      /\ table[i].allocated <= table[i].num_slots
  BY EntryFacts
<1>2. table[i].allocated \in table[i].allocated .. table[i].num_slots
  BY <1>1
<1> QED BY <1>1, <1>2 DEF IsEntry

\* Installing an entry without reserved slots of the parent changes no other.
LEMMA PutInstalls ==
  ASSUME TInv, NEW c \in Class, NEW t \in Nat, t \notin Types,
         Fresh(c), DepthFits(c), ParentIndex(c) < t,
         table' = Put(t, NewEntry(c)), Answer(c, t),
         counter' \in Nat, counter <= counter', t + NumSlots(c) <= counter',
         t < DynBegin => NumSlots(c) = 1
  PROVE  Install(c, t) /\ \A i \in Types : table'[i] = table[i]
<1>1. /\ Types' = Types \union {t} /\ table' = [i \in Types' |-> table'[i]]
      /\ table'[t] = NewEntry(c) /\ \A i \in Types : table'[i] = table[i]
  BY PutFacts DEF Types
<1>2. \A i \in Types :
        /\ table'[i] = [table[i] EXCEPT !.allocated = table'[i].allocated]
        /\ table'[i].allocated \in table[i].allocated .. table[i].num_slots
  BY <1>1, EntryKept
<1> QED BY <1>1, <1>2 DEF Install, Answer

LEMMA StaticInstall ==
  ASSUME TInv, NEW c \in Class, AllocStatic(c)
  PROVE  \E t \in Nat : Install(c, t) /\ Placed(c, t)
<1>t. PICK t : t = decl[c].static
  OBVIOUS
<1>1. /\ Fresh(c) /\ DepthFits(c) /\ t # Unset /\ t < counter
      /\ t \notin Types /\ t > ParentIndex(c)
      /\ table' = Put(t, NewEntry(c)) /\ Answer(c, t) /\ counter' = counter
  BY <1>t DEF AllocStatic, StaticFree
<1>2. c # Root /\ NumSlots(c) \in Nat /\ counter \in Nat /\ t \in Nat
  BY <1>1, <1>t, ParentFacts, DeclFacts DEF TInv, TypeOK
<1>3. t < DynBegin /\ decl[c].slots = 0 /\ Parent(c) = Root
  BY <1>1, <1>2, <1>t, DeclFacts
<1>4. NumSlots(c) = 1
  BY <1>3 DEF NumSlots
<1>5. ParentIndex(c) < t /\ counter <= counter' /\ t + NumSlots(c) <= counter'
      /\ counter' \in Nat
  <2>1. ParentIndex(c) \in Nat
    BY <1>1, ParentFacts, EntryFacts
  <2> QED BY <1>1, <1>2, <1>4, <2>1
<1>6. Install(c, t) /\ \A i \in Types : table'[i] = table[i]
  BY <1>1, <1>2, <1>4, <1>5, PutInstalls
<1>7. ASSUME NEW b \in Types
      PROVE  Slots(c, t) \intersect Reserved(b) = {}
  <2>1. Slots(c, t) = {t}
    BY <1>2, <1>4 DEF Slots
  <2>2. b \in Nat /\ table[b].num_slots \in Nat
    BY EntryFacts
  <2>3. CASE b >= DynBegin
    <3>1. t < b
      BY <1>2, <1>3, <2>2, <2>3, TypeTableAssumption
    <3> QED BY <1>2, <2>1, <2>2, <3>1 DEF Reserved
  <2>4. CASE ~(b >= DynBegin)
    <3>1. table[b].num_slots = 1
      BY <2>2, <2>4, TypeTableAssumption DEF TInv, EntriesConsistent
    <3>2. Reserved(b) = {b}
      BY <2>2, <3>1 DEF Reserved
    <3> QED BY <1>1, <2>1, <3>2
  <2> QED BY <2>3, <2>4
<1>8. ParentEntry(c).overflow
  BY <1>3 DEF TInv, EntriesConsistent, IndicesConsistent, ParentEntry, ParentIndex
<1> QED BY <1>2, <1>6, <1>7, <1>8 DEF Placed

LEMMA OverflowInstall ==
  ASSUME TInv, NEW c \in Class, AllocOverflow(c)
  PROVE  \E t \in Nat : Install(c, t) /\ Placed(c, t)
<1>t. PICK t : t = counter
  OBVIOUS
<1>n. PICK n : n = NumSlots(c)
  OBVIOUS
<1>1. /\ Fresh(c) /\ DepthFits(c) /\ ParentEntry(c).overflow
      /\ table' = Put(t, NewEntry(c)) /\ Answer(c, t)
      /\ counter' = t + n
  BY <1>t, <1>n DEF AllocOverflow
<1>2. n \in Nat /\ n >= 1 /\ ParentIndex(c) \in Types
  BY <1>1, <1>n, ParentFacts, DeclFacts
<1>3. t \in Nat /\ DynBegin <= t
  BY <1>t DEF TInv, TypeOK, EntriesConsistent
<1>4. ASSUME NEW b \in Types
      PROVE  /\ b \in Nat /\ table[b].num_slots \in Nat /\ b < t
             /\ b + table[b].num_slots <= t
  <2>1. /\ b \in Nat /\ table[b].num_slots \in Nat
        /\ b + table[b].num_slots <= t
        /\ table[b].allocated \in Nat /\ table[b].allocated >= 1
        /\ table[b].allocated <= table[b].num_slots
    BY <1>t, EntryFacts
  <2> QED BY <1>3, <2>1
<1>5. t \notin Types
  BY <1>3, <1>4
<1>6. /\ counter' \in Nat /\ t <= counter' /\ t + n <= counter'
      /\ t < DynBegin => n = 1
  BY <1>1, <1>2, <1>3, TypeTableAssumption
<1>7. Install(c, t)
  BY <1>1, <1>2, <1>3, <1>4, <1>5, <1>6, <1>t, <1>n, PutInstalls
<1>8. ASSUME NEW b \in Types
      PROVE  Slots(c, t) \intersect Reserved(b) = {}
  BY <1>2, <1>3, <1>4, <1>n DEF Slots, Reserved
<1> QED BY <1>1, <1>3, <1>7, <1>8 DEF Placed

LEMMA ReservedInstall ==
  ASSUME TInv, NEW c \in Class, AllocReserved(c)
  PROVE  \E t \in Nat : Install(c, t) /\ Placed(c, t)
<1>p. PICK p : p = ParentIndex(c)
  OBVIOUS
<1>a. PICK alloc : alloc = table[p].allocated
  OBVIOUS
<1>t. PICK t : t = p + alloc
  OBVIOUS
<1>n. PICK n : n = NumSlots(c)
  OBVIOUS
<1>e. PICK put : put = Put(t, NewEntry(c))
  OBVIOUS
<1>1. /\ Fresh(c) /\ DepthFits(c)
      /\ alloc + n <= table[p].num_slots
      /\ table' = [put EXCEPT ![p].allocated = @ + n]
      /\ Answer(c, t) /\ counter' = counter
  BY <1>p, <1>a, <1>t, <1>n, <1>e DEF AllocReserved, FitsReserved, ParentEntry
<1>2. p \in Types /\ n \in Nat /\ n >= 1
  BY <1>1, <1>p, <1>n, ParentFacts, DeclFacts
<1>3. /\ p \in Nat /\ IsEntry(table[p]) /\ table[p].num_slots \in Nat
      /\ alloc \in Nat /\ alloc >= 1
      /\ p + table[p].num_slots <= counter /\ p \in Reserved(p)
  BY <1>2, <1>a, EntryFacts
<1>4. counter \in Nat
  BY DEF TInv, TypeOK
<1>5. t \in Nat /\ p < t /\ t + n <= counter
  BY <1>1, <1>2, <1>3, <1>4, <1>t
<1>6. t < DynBegin => n = 1
  <2>1. table[p].num_slots # 1
    BY <1>1, <1>2, <1>3
  <2>2. p >= DynBegin
    BY <1>2, <1>3, <2>1, TypeTableAssumption DEF TInv, EntriesConsistent
  <2> QED BY <1>3, <1>5, <2>2, TypeTableAssumption
<1>7. Slots(c, t) \subseteq Reserved(p) /\ t \in Reserved(p)
      /\ \A i \in Slots(c, t) : i >= p + alloc
  BY <1>1, <1>2, <1>3, <1>5, <1>t, <1>n DEF Slots, Reserved
<1>8. ASSUME NEW b \in Types, b # p, ~(Reserved(p) \intersect Reserved(b) = {})
      PROVE  \/ Nested(p, b)
             \/ Nested(b, p) /\ \A i \in Reserved(b) : i < p + alloc /\ i \in Int
  <2>1. Nested(p, b) \/ Nested(b, p)
    BY <1>2, <1>8 DEF TInv, SlotsLaminar
  <2>2. CASE Nested(b, p)
    <3>1. Reserved(b) \subseteq p + 1 .. p + alloc - 1
      BY <1>a, <2>2 DEF Nested
    <3> QED BY <1>3, <2>2, <3>1
  <2> QED BY <2>1, <2>2
<1>9. t \notin Types
  <2> SUFFICES ASSUME t \in Types PROVE FALSE
    OBVIOUS
  <2>1. t # p /\ t \in Reserved(t) /\ table[t].allocated \in Nat
    BY <1>3, <1>5, EntryFacts
  <2>2. Nested(p, t) \/ \A i \in Reserved(t) : i < p + alloc
    BY <1>7, <1>8, <2>1
  <2>3. ~Nested(p, t)
    BY <1>3, <1>5 DEF Nested
  <2> QED BY <1>3, <1>5, <1>t, <2>1, <2>2, <2>3
<1>10. /\ DOMAIN put = Types \union {t} /\ put = [i \in Types \union {t} |-> put[i]]
       /\ put[t] = NewEntry(c) /\ \A i \in Types : put[i] = table[i]
  <2>1. DOMAIN put = Types \union {t} /\ put = [i \in Types \union {t} |-> put[i]]
    BY <1>e DEF Put
  <2>2. put[t] = NewEntry(c) /\ \A i \in Types : put[i] = table[i]
    BY <1>9, <1>e DEF Put
  <2> QED BY <2>1, <2>2
<1>11. p # t
  BY <1>3, <1>5
<1>12. /\ Types' = Types \union {t} /\ table' = [i \in Types' |-> table'[i]]
       /\ table'[t] = NewEntry(c)
       /\ \A i \in Types \ {p} : table'[i] = table[i]
       /\ table'[p] = [table[p] EXCEPT !.allocated = alloc + n]
  <2>1. DOMAIN table' = Types \union {t}
    BY <1>1, <1>10
  <2>2. table' = [i \in Types \union {t} |-> table'[i]]
    BY <1>1, <1>10
  <2>3. \A i \in Types \union {t} : table'[i] =
          IF i = p THEN [put[p] EXCEPT !.allocated = put[p].allocated + n] ELSE put[i]
    BY <1>1, <1>2, <1>10
  <2> QED BY <1>2, <1>10, <1>11, <1>a, <2>1, <2>2, <2>3 DEF Types
<1>13. table'[p].allocated = alloc + n
  BY <1>3, <1>12 DEF IsEntry
<1>14. \A b \in Types :
        /\ table'[b] = [table[b] EXCEPT !.allocated = table'[b].allocated]
        /\ table'[b].allocated \in table[b].allocated .. table[b].num_slots
  <2>1. alloc + n \in alloc .. table[p].num_slots
    BY <1>1, <1>2, <1>3
  <2> QED BY <1>12, <1>13, <1>a, <2>1, EntryKept
<1>15. Install(c, t)
  <2>1. /\ counter' \in Nat /\ counter <= counter' /\ t + NumSlots(c) <= counter'
        /\ t < DynBegin => NumSlots(c) = 1
    BY <1>1, <1>4, <1>5, <1>6, <1>n
  <2>2. /\ UNCHANGED <<decl, exited>> /\ index' = [index EXCEPT ![c] = t]
        /\ key2index' = [key2index EXCEPT ![Key(c)] = t]
    BY <1>1 DEF Answer
  <2>3. Fresh(c) /\ DepthFits(c) /\ ParentIndex(c) < t
    BY <1>1, <1>5, <1>p
  <2> QED BY <1>5, <1>9, <1>12, <1>14, <2>1, <2>2, <2>3 DEF Install
<1>16. Slots(c, t) \subseteq p + 1 .. p + table'[p].allocated - 1
  <2>1. Slots(c, t) = p + alloc .. p + alloc + n - 1
    BY <1>t, <1>n DEF Slots
  <2> QED BY <1>2, <1>3, <1>13, <2>1
<1>17. ASSUME NEW b \in Types
       PROVE  \/ Slots(c, t) \intersect Reserved(b) = {}
              \/ /\ b = p \/ b \in Ancestors(p)
                 /\ Slots(c, t) \subseteq b + 1 .. b + table'[b].allocated - 1
  <2>1. CASE b = p
    BY <1>16, <2>1
  <2>2. CASE b # p /\ Reserved(p) \intersect Reserved(b) = {}
    BY <1>7, <2>2
  <2>3. CASE b # p /\ Nested(p, b)
    BY <1>7, <1>12, <2>3 DEF Nested
  <2>4. CASE b # p /\ \A i \in Reserved(b) : i < p + alloc /\ i \in Int
    <3>1. \A i \in Slots(c, t) : i \in Int
      BY DEF Slots
    <3> QED BY <1>3, <1>7, <2>4, <3>1
  <2> QED BY <1>8, <2>1, <2>2, <2>3, <2>4
<1> QED BY <1>5, <1>15, <1>16, <1>17, <1>p DEF Placed

-----------------------------------------------------------------------------
(* The theorems.                                                           *)

LEMMA InitTInv == Init => TInv
<1> SUFFICES ASSUME Init PROVE TInv
  OBVIOUS
<1> USE TypeTableAssumption
<1> DEFINE e == [key |-> Key(Root), depth |-> 0, num_slots |-> 1, allocated |-> 1,
                 overflow |-> TRUE, ancestors |-> [j \in 0 .. -1 |-> 0]]
<1>1. RootIndex # Unset /\ RootIndex \in Nat
  OBVIOUS
<1>2. /\ index = [c \in Class |-> IF c = Root THEN RootIndex ELSE Unset]
      /\ key2index = [k \in TypeKey |-> IF k = Key(Root) THEN RootIndex ELSE Unset]
      /\ table = [i \in {RootIndex} |-> e]
      /\ counter = DynBegin /\ exited = FALSE
      /\ decl \in [Class -> Declaration] /\ WellDeclared(decl)
  BY DEF Init
<1>3. /\ Key(Root) \in TypeKey /\ Parent(Root) = Root
      /\ decl[Root].depth = 0 /\ decl[Root].slots = 0 /\ decl[Root].overflow
  BY <1>2 DEF WellDeclared, Declaration, Key, Parent
<1>4. Registered = {Root} /\ index[Root] = RootIndex
  BY <1>1, <1>2 DEF Registered
<1>5. Keys = {Key(Root)} /\ key2index[Key(Root)] = RootIndex
  BY <1>1, <1>2, <1>3 DEF Keys
<1>6. Types = {RootIndex} /\ table[RootIndex] = e /\ table = [i \in Types |-> table[i]]
  <2> HIDE DEF e
  <2> QED BY <1>2 DEF Types
<1>7. e.key = Key(Root) /\ e.depth = 0 /\ e.num_slots = 1 /\ e.allocated = 1 /\ e.overflow
  OBVIOUS
<1>8. IsEntry(e)
  BY <1>3 DEF IsEntry
<1> HIDE DEF e
<1>9. TypeOK
  <2>1. index \in [Class -> Nat \union {Unset}] /\ key2index \in [TypeKey -> Nat \union {Unset}]
    BY <1>2
  <2>2. Types \subseteq 0 .. counter - 1
    BY <1>2, <1>6
  <2>3. \A i \in Types : IsEntry(table[i])
    BY <1>6, <1>8
  <2> QED BY <1>2, <1>6, <2>1, <2>2, <2>3 DEF TypeOK
<1>10. EntriesConsistent
  <2>1. NumSlots(Root) = 1
    BY <1>3 DEF NumSlots
  <2>2. MadeFor(RootIndex, Root)
    BY <1>3, <1>4, <1>6, <1>7, <2>1 DEF MadeFor
  <2>3. /\ table[RootIndex].allocated \in 1 .. table[RootIndex].num_slots
        /\ RootIndex + table[RootIndex].num_slots <= counter
    BY <1>2, <1>6, <1>7
  <2> QED BY <1>2, <1>4, <1>6, <1>7, <2>2, <2>3 DEF EntriesConsistent
<1>11. IndicesConsistent
  BY <1>3, <1>4, <1>5, <1>6, <1>7 DEF IndicesConsistent
<1>12. AncestorsConsistent /\ AncestorsChained
  BY <1>6, <1>7 DEF AncestorsConsistent, AncestorsChained
<1>13. SlotsLaminar
  BY <1>6 DEF SlotsLaminar
<1> QED BY <1>9, <1>10, <1>11, <1>12, <1>13 DEF TInv

\* A class that is answered the index of its key, and nothing else.
LEMMA IndexTInv ==
  ASSUME TInv, UNCHANGED <<decl, key2index, table, counter>>, exited' \in BOOLEAN,
         index' \in [Class -> Nat \union {Unset}], Registered \subseteq Registered',
         \A c \in Registered : index'[c] = index[c],
         \A c \in Registered' : /\ Parent(c) \in Registered' /\ Key(c) \in Keys
                               /\ index'[c] = key2index[Key(c)]
  PROVE  TInv'
<1>1. Types' = Types /\ Keys' = Keys
  BY DEF Types, Keys
<1>2. \A c : /\ (Reserved(c))' = Reserved(c) /\ (Ancestors(c))' = Ancestors(c)
             /\ (NumSlots(c))' = NumSlots(c) /\ (Parent(c))' = Parent(c)
             /\ (Key(c))' = Key(c)
  BY DEF Reserved, Ancestors, NumSlots, Parent, Key
<1>3. \A a, b : (Nested(b, a))' = Nested(b, a)
  BY <1>2 DEF Nested
<1>4. TypeOK'
  BY <1>1 DEF TInv, TypeOK, WellDeclared, IsEntry
<1>5. EntriesConsistent'
  <2>1. ASSUME NEW i \in Types PROVE \E c \in Registered' : (MadeFor(i, c))'
    <3>1. PICK c \in Registered : MadeFor(i, c)
      BY DEF TInv, EntriesConsistent
    <3>2. Parent(c) \in Registered
      BY ClassFacts
    <3>3. (ParentIndex(c))' = ParentIndex(c)
      BY <1>2, <3>2 DEF ParentIndex
    <3>4. (MadeFor(i, c))'
      BY <1>2, <3>1, <3>3 DEF MadeFor
    <3> QED BY <3>4
  <2> QED BY <1>1, <1>2, <2>1 DEF TInv, EntriesConsistent
<1>6. IndicesConsistent'
  <2>1. Root \in Registered
    BY TypeTableAssumption DEF TInv, IndicesConsistent, Registered
  <2> QED BY <1>1, <1>2, <2>1 DEF TInv, IndicesConsistent
<1>7. AncestorsConsistent'
  BY <1>1, <1>3 DEF TInv, AncestorsConsistent
<1>8. SlotsLaminar'
  BY <1>1, <1>2, <1>3 DEF TInv, SlotsLaminar
<1>9. AncestorsChained'
  BY <1>1 DEF TInv, AncestorsChained
<1> QED BY <1>4, <1>5, <1>6, <1>7, <1>8, <1>9 DEF TInv

LEMMA StutterTInv ==
  ASSUME TInv, UNCHANGED <<decl, index, key2index, table, counter>>, exited' \in BOOLEAN
  PROVE  TInv'
<1>1. Registered' = Registered /\ index' \in [Class -> Nat \union {Unset}]
  BY DEF Registered, TInv, TypeOK
<1>2. \A c \in Registered :
        Parent(c) \in Registered /\ Key(c) \in Keys /\ index[c] = key2index[Key(c)]
  BY DEF TInv, IndicesConsistent
<1> QED BY <1>1, <1>2, IndexTInv

LEMMA KnownKeyTInv ==
  ASSUME TInv, NEW c \in Class, KnownKey(c)
  PROVE  TInv'
<1>1. /\ Parent(c) \in Registered /\ Key(c) \in Keys /\ c \notin Registered
      /\ index' = [index EXCEPT ![c] = key2index[Key(c)]]
      /\ UNCHANGED <<decl, key2index, table, counter, exited>>
  BY DEF KnownKey, Asks
<1>2. index \in [Class -> Nat \union {Unset}] /\ exited' \in BOOLEAN
  BY <1>1 DEF TInv, TypeOK
<1>3. key2index[Key(c)] \in Nat
  BY <1>1, EntryFacts DEF TInv, IndicesConsistent
<1>4. index'[c] = key2index[Key(c)] /\ \A b \in Class \ {c} : index'[b] = index[b]
  BY <1>1, <1>2
<1>5. /\ Registered' = Registered \union {c} /\ index' \in [Class -> Nat \union {Unset}]
      /\ \A b \in Registered : index'[b] = index[b]
  BY <1>1, <1>2, <1>3, <1>4, TypeTableAssumption DEF Registered
<1>6. \A b \in Registered :
        Parent(b) \in Registered /\ Key(b) \in Keys /\ index[b] = key2index[Key(b)]
  BY DEF TInv, IndicesConsistent
<1> QED BY <1>1, <1>2, <1>4, <1>5, <1>6, IndexTInv

LEMMA NextTInv == TInv /\ [Next]_vars => TInv'
<1> SUFFICES ASSUME TInv, [Next]_vars PROVE TInv'
  OBVIOUS
<1>1. ASSUME NEW c \in Class, AllocStatic(c) PROVE TInv'
  BY <1>1, StaticInstall, InstallTInv
<1>2. ASSUME NEW c \in Class, AllocReserved(c) PROVE TInv'
  BY <1>2, ReservedInstall, InstallTInv
<1>3. ASSUME NEW c \in Class, AllocOverflow(c) PROVE TInv'
  BY <1>3, OverflowInstall, InstallTInv
<1>4. ASSUME NEW c \in Class, Fail(c) PROVE TInv'
  BY <1>4, StutterTInv DEF Fail
<1>5. ASSUME NEW c \in Class, KnownKey(c) PROVE TInv'
  BY <1>5, KnownKeyTInv
<1>6. CASE UNCHANGED vars
  BY <1>6, StutterTInv DEF vars, TInv, TypeOK
<1> QED BY <1>1, <1>2, <1>3, <1>4, <1>5, <1>6 DEF Next

\* The table stays consistent with the declared classes in whatever order
\* GetOrAllocTypeIndex is called, parents first, and whichever classes share a key.
THEOREM TableInvariance == Spec => []TInv
<1>1. Init => TInv
  BY InitTInv
<1>2. TInv /\ [Next]_vars => TInv'
  BY NextTInv
<1> QED BY <1>1, <1>2, PTL DEF Spec

\* Entries, indices and ancestors of the registered classes have their types.
THEOREM TableTypeCorrect == Spec => []TypeOK
<1>1. TInv => TypeOK
  BY DEF TInv
<1> QED BY <1>1, TableInvariance, PTL

\* The ancestors of a type have smaller indices, which lets IsObjectInstance
\* answer without a look-up.
THEOREM ParentsComeFirst == Spec => []ParentIndexSmaller
<1>1. TInv => ParentIndexSmaller
  BY AncestorFacts DEF ParentIndexSmaller, Ancestors
<1> QED BY <1>1, TableInvariance, PTL

\* A step of the table leaves a key its index and the entry there as it is,
\* apart from the slots that children take.
LEMMA StaysStep ==
  ASSUME TInv, [Next]_vars, NEW k \in Keys
  PROVE  LET i == key2index[k] IN
         /\ key2index'[k] = i
         /\ table'[i] = [table[i] EXCEPT !.allocated = table'[i].allocated]
<1>i. PICK i : i = key2index[k]
  OBVIOUS
<1> DEFINE Stays == /\ key2index'[k] = i
                    /\ table'[i] = [table[i] EXCEPT !.allocated = table'[i].allocated]
<1>0. i \in Types
  BY <1>i DEF TInv, IndicesConsistent
<1>1. ASSUME NEW d, NEW t, Install(d, t) PROVE Stays
  <2>1. key2index'[k] = i
    BY <1>1, <1>i, InstallIndices
  <2>2. table'[i] = [table[i] EXCEPT !.allocated = table'[i].allocated]
    BY <1>0, <1>1 DEF Install
  <2> QED BY <2>1, <2>2
<1>2. ASSUME UNCHANGED <<key2index, table>> PROVE Stays
  BY <1>0, <1>2, <1>i, EntryKept
<1>3. ASSUME NEW d \in Class, AllocStatic(d) PROVE Stays
  BY <1>1, <1>3, StaticInstall
<1>4. ASSUME NEW d \in Class, AllocReserved(d) PROVE Stays
  BY <1>1, <1>4, ReservedInstall
<1>5. ASSUME NEW d \in Class, AllocOverflow(d) PROVE Stays
  BY <1>1, <1>5, OverflowInstall
<1>6. ASSUME NEW d \in Class, Fail(d) PROVE Stays
  BY <1>2, <1>6 DEF Fail
<1>7. ASSUME NEW d \in Class, KnownKey(d) PROVE Stays
  BY <1>2, <1>7 DEF KnownKey
<1>8. ASSUME UNCHANGED vars PROVE Stays
  BY <1>2, <1>8 DEF vars
<1> HIDE DEF Stays
<1>9. Stays
  BY <1>3, <1>4, <1>5, <1>6, <1>7, <1>8 DEF Next
<1> QED BY <1>9, <1>i DEF Stays

\* Whatever registers later, a key keeps its index and no entry is overwritten,
\* although a reserved slot is taken without a look at what is there.
THEOREM EntriesAreFinal == Spec => EntriesStay
<1> DEFINE Stay == \A k \in Keys : LET i == key2index[k] IN
             /\ key2index'[k] = i
             /\ table'[i] = [table[i] EXCEPT !.allocated = table'[i].allocated]
<1>1. TInv /\ [Next]_vars => [Stay]_vars
  <2> SUFFICES ASSUME TInv, [Next]_vars PROVE Stay
    OBVIOUS
  <2> QED BY StaysStep, Zenon
<1>2. Spec => [][Stay]_vars
  BY <1>1, TableInvariance, PTL DEF Spec
<1> QED BY <1>2 DEF EntriesStay

-----------------------------------------------------------------------------
(* The instance check.  Predicates on numbers are sets of numbers, and a    *)
(* set of numbers that is not empty has a least one.                        *)

\* A set that holds a number when it holds all smaller ones holds them all.
LEMMA AllNumbers ==
  ASSUME NEW P, \A n \in Nat : (\A k \in Nat : k < n => k \in P) => n \in P
  PROVE  \A n \in Nat : n \in P
<1> SUFFICES ASSUME NEW j \in Nat, j \notin P PROVE FALSE
  OBVIOUS
<1> DEFINE T == {n \in Nat : n \notin P}
           R == {p \in Nat \X Nat : p[1] < p[2]}
<1>1. IsWellFoundedOn(R, Nat)
  BY NatLessThanWellFounded DEF OpToRel
<1>2. T \subseteq Nat /\ T # {}
  OBVIOUS
<1>3. PICK m \in T : \A n \in T : ~(<<n, m>> \in R)
  <2> HIDE DEF R, T
  <2> QED BY <1>1, <1>2, WFMin
<1>4. \A k \in Nat : k < m => k \in P
  <2> SUFFICES ASSUME NEW k \in Nat, k < m, k \notin P PROVE FALSE
    OBVIOUS
  <2>1. <<k, m>> \in Nat \X Nat /\ <<k, m>>[1] = k /\ <<k, m>>[2] = m
    OBVIOUS
  <2>2. <<k, m>> \in R
    BY <2>1
  <2> QED BY <1>3, <2>2
<1> QED BY <1>3, <1>4

\* The same as an induction from a number to the next.
LEMMA NextNumber ==
  ASSUME NEW P, 0 \in P, \A n \in Nat : n \in P => n + 1 \in P
  PROVE  \A n \in Nat : n \in P
<1>1. ASSUME NEW n \in Nat, \A k \in Nat : k < n => k \in P
      PROVE  n \in P
  <2>1. CASE n = 0
    BY <2>1
  <2>2. CASE n # 0
    <3>1. n - 1 \in Nat /\ n - 1 < n /\ (n - 1) + 1 = n
      BY <2>2
    <3>2. n - 1 \in P
      BY <1>1, <3>1
    <3> QED BY <3>1, <3>2
  <2> QED BY <2>1, <2>2
<1> QED BY <1>1, AllNumbers

\* A type without ancestors is the root of all.
LEMMA TopIsRoot ==
  ASSUME TInv, NEW i \in Types
  PROVE  IF table[i].depth = 0 THEN i = RootIndex ELSE table[i].ancestors[0] = RootIndex
<1>1. ASSUME NEW a \in Types, table[a].depth = 0 PROVE a = RootIndex
  <2>1. PICK c \in Registered : MadeFor(a, c)
    BY DEF TInv, EntriesConsistent
  <2>2. c \in Class /\ Parent(c) \in Class /\ decl[c].depth = 0 /\ index[c] = a
    BY <1>1, <2>1, ClassFacts, DeclFacts DEF MadeFor
  <2>3. c # Root => decl[c].depth = decl[Parent(c)].depth + 1
    BY <2>2, DeclFacts
  <2>4. decl[Parent(c)].depth \in Nat
    BY <2>2, DeclFacts
  <2>5. c = Root
    BY <2>2, <2>3, <2>4
  <2> QED BY <2>2, <2>5 DEF TInv, IndicesConsistent
<1>2. ASSUME table[i].depth # 0 PROVE table[i].ancestors[0] = RootIndex
  <2>1. 0 \in 0 .. table[i].depth - 1
    BY <1>2, EntryFacts
  <2>2. table[i].ancestors[0] \in Types /\ table[table[i].ancestors[0]].depth = 0
    BY <2>1, AncestorFacts
  <2> QED BY <1>1, <2>2
<1> QED BY <1>1, <1>2

LEMMA LineageLeast ==
  ASSUME NEW c, NEW S \in SUBSET Class, c \in S, \A b \in S : Parent(b) \in S
  PROVE  Lineage(c) \subseteq S
BY DEF Lineage

LEMMA LineageClosed ==
  ASSUME TInv, NEW c \in Registered
  PROVE  /\ c \in Lineage(c) /\ Lineage(c) \subseteq Registered
         /\ \A b \in Lineage(c) : Parent(b) \in Lineage(c)
<1>1. c \in Lineage(c)
  BY ClassFacts DEF Lineage
<1>2. Lineage(c) \subseteq Registered
  <2>1. Registered \in SUBSET Class /\ \A b \in Registered : Parent(b) \in Registered
    BY ClassFacts DEF Registered
  <2> QED BY <2>1, LineageLeast
<1>3. ASSUME NEW b \in Lineage(c) PROVE Parent(b) \in Lineage(c)
  <2>1. Parent(b) \in Class
    BY <1>2, ClassFacts
  <2> QED BY <2>1 DEF Lineage
<1> QED BY <1>1, <1>2, <1>3

\* The entry that a class shares with others fits it, when it is sound.
LEMMA Aligned ==
  ASSUME TInv, NEW c \in Sound, NEW b \in Lineage(c)
  PROVE  LET i == index[b] IN
         /\ b \in Registered /\ i \in Types
         /\ table[i].key = Key(b) /\ table[i].depth = decl[b].depth
         /\ table[i].num_slots = NumSlots(b)
         /\ table[i].overflow => decl[b].overflow
         /\ b # Root => table[i].ancestors[table[i].depth - 1] = index[Parent(b)]
<1>i. PICK i : i = index[b]
  OBVIOUS
<1>1. c \in Registered /\ \A a \in Lineage(c), d \in Registered : Key(a) = Key(d) => Alike(a, d)
  BY DEF Sound
<1>2. b \in Registered
  BY <1>1, LineageClosed
<1>3. i \in Types /\ table[i].key = Key(b) /\ b \in Class /\ Parent(b) \in Registered
  BY <1>2, <1>i, ClassFacts
<1>4. PICK d \in Registered : MadeFor(i, d)
  BY <1>3 DEF TInv, EntriesConsistent
<1>5. Key(b) = Key(d)
  BY <1>3, <1>4 DEF MadeFor
<1>6. Alike(b, d)
  BY <1>1, <1>5
<1>7. /\ table[i].depth = decl[b].depth /\ table[i].num_slots = NumSlots(b)
      /\ table[i].overflow => decl[b].overflow
  BY <1>4, <1>6 DEF MadeFor, Alike, NumSlots
<1>8. ASSUME b # Root
      PROVE  table[i].ancestors[table[i].depth - 1] = index[Parent(b)]
  <2>1. d # Root
    BY <1>3, <1>5, <1>8, DeclFacts
  <2>2. table[i].ancestors[table[i].depth - 1] = index[Parent(d)] /\ Parent(d) \in Registered
    BY <1>4, <2>1, ClassFacts DEF MadeFor, ParentIndex
  <2>3. Key(Parent(b)) = Key(Parent(d))
    BY <1>6 DEF Alike
  <2>4. index[Parent(b)] = index[Parent(d)]
    BY <1>3, <2>2, <2>3, ClassFacts
  <2> QED BY <2>2, <2>4
<1> QED BY <1>2, <1>3, <1>7, <1>8, <1>i

\* The type at a place in the chain of a type that ends with the type itself.
At(i, j) == IF j = table[i].depth THEN i ELSE table[i].ancestors[j]

LEMMA AtFacts ==
  ASSUME TInv, NEW i \in Types, NEW j \in 0 .. table[i].depth
  PROVE  /\ At(i, j) \in Types /\ table[At(i, j)].depth = j
         /\ At(i, j) \in Ancestors(i) \union {i}
         /\ j # 0 => j - 1 \in 0 .. table[i].depth - 1
                     /\ table[At(i, j)].ancestors[j - 1] = At(i, j - 1)
<1>1. table[i].depth \in Nat
  BY EntryFacts
<1>2. CASE j = table[i].depth
  <2>1. At(i, j) = i
    BY <1>2 DEF At
  <2>2. j # 0 => j - 1 \in 0 .. table[i].depth - 1 /\ j - 1 # table[i].depth
    BY <1>1, <1>2
  <2> QED BY <1>2, <2>1, <2>2 DEF At
<1>3. CASE j # table[i].depth
  <2>1. j \in 0 .. table[i].depth - 1 /\ At(i, j) = table[i].ancestors[j]
    BY <1>1, <1>3 DEF At
  <2>2. /\ At(i, j) \in Types /\ table[At(i, j)].depth = j /\ At(i, j) \in Ancestors(i)
        /\ \A k \in 0 .. j - 1 : table[At(i, j)].ancestors[k] = table[i].ancestors[k]
    BY <2>1, AncestorFacts
  <2>3. j # 0 => /\ j - 1 \in 0 .. j - 1 /\ j - 1 \in 0 .. table[i].depth - 1
                 /\ j - 1 # table[i].depth
    BY <1>1, <2>1
  <2>4. At(i, j - 1) = IF j - 1 = table[i].depth THEN i ELSE table[i].ancestors[j - 1]
    BY DEF At
  <2> QED BY <2>2, <2>3, <2>4
<1> QED BY <1>2, <1>3

\* What is in the chain has its place there.
LEMMA AtPlaces ==
  ASSUME TInv, NEW i \in Types, NEW a \in Ancestors(i) \union {i}
  PROVE  table[a].depth \in 0 .. table[i].depth /\ a = At(i, table[a].depth)
<1>1. table[i].depth \in Nat
  BY EntryFacts
<1>2. CASE a = i
  BY <1>1, <1>2 DEF At
<1>3. CASE a # i
  <2>1. PICK j \in 0 .. table[i].depth - 1 : a = table[i].ancestors[j]
    BY <1>3 DEF Ancestors
  <2>2. table[a].depth = j
    BY <2>1, AncestorFacts
  <2>3. j \in 0 .. table[i].depth /\ j # table[i].depth
    BY <1>1
  <2> QED BY <2>1, <2>2, <2>3 DEF At
<1> QED BY <1>2, <1>3

\* The classes above a class, as they are declared, are those of the types above
\* its type: a class leads to each type, and each class to one.
LEMMA LineageUp ==
  ASSUME TInv, NEW c \in Sound, NEW b \in Lineage(c)
  PROVE  index[b] \in Ancestors(index[c]) \union {index[c]}
<1> DEFINE i == index[c]
           A == Ancestors(i) \union {i}
           S == {a \in Lineage(c) : index[a] \in A}
<1>1. c \in Registered
  BY DEF Sound
<1>2. i \in Types
  BY <1>1, ClassFacts
<1>3. /\ c \in Lineage(c) /\ Lineage(c) \subseteq Registered
      /\ \A a \in Lineage(c) : Parent(a) \in Lineage(c)
  BY <1>1, LineageClosed
<1>4. S \in SUBSET Class /\ c \in S
  BY <1>3 DEF Registered
<1>5. ASSUME NEW a \in S PROVE Parent(a) \in S
  <2>1. Parent(a) \in Lineage(c)
    BY <1>3
  <2>2. CASE a = Root
    <3>1. Parent(Root) = Root
      BY <1>4, DeclFacts
    <3> QED BY <2>2, <3>1
  <2>3. CASE a # Root
    <3>1. PICK t : t = index[a]
      OBVIOUS
    <3>2. t \in A
      BY <3>1
    <3>3. a \in Lineage(c)
      OBVIOUS
    <3>4. /\ a \in Registered /\ t \in Types /\ table[t].depth = decl[a].depth
          /\ table[t].ancestors[table[t].depth - 1] = index[Parent(a)]
      BY <2>3, <3>1, <3>3, Aligned
    <3>5. table[t].depth # 0
      <4>1. a \in Class /\ Parent(a) \in Class
        BY <3>4, ClassFacts DEF Registered
      <4>2. decl[a].depth = decl[Parent(a)].depth + 1 /\ decl[Parent(a)].depth \in Nat
        BY <2>3, <4>1, DeclFacts
      <4> QED BY <3>4, <4>2
    <3>6. PICK j : j = table[t].depth
      OBVIOUS
    <3>7. j \in 0 .. table[i].depth /\ t = At(i, j)
      BY <1>2, <3>2, <3>6, AtPlaces
    <3>8. j - 1 \in 0 .. table[i].depth - 1 /\ index[Parent(a)] = At(i, j - 1)
      BY <1>2, <3>4, <3>5, <3>6, <3>7, AtFacts
    <3>9. j - 1 \in 0 .. table[i].depth
      <4>1. table[i].depth \in Nat
        BY <1>2, EntryFacts
      <4> QED BY <3>8, <4>1
    <3>10. At(i, j - 1) \in A
      BY <1>2, <3>9, AtFacts
    <3> QED BY <2>1, <3>8, <3>10
  <2> QED BY <2>2, <2>3
<1>6. Lineage(c) \subseteq S
  <2> HIDE DEF S
  <2> QED BY <1>4, <1>5, LineageLeast
<1> QED BY <1>6

LEMMA LineageDown ==
  ASSUME TInv, NEW c \in Sound, NEW a \in Ancestors(index[c]) \union {index[c]}
  PROVE  \E b \in Lineage(c) : index[b] = a
<1> DEFINE i == index[c]
           d == table[i].depth
           P == {n \in Nat : n <= d => \E b \in Lineage(c) : index[b] = At(i, d - n)}
<1>1. c \in Registered
  BY DEF Sound
<1>2. i \in Types /\ d \in Nat
  BY <1>1, ClassFacts, EntryFacts
<1>3. /\ c \in Lineage(c) /\ \A b \in Lineage(c) : Parent(b) \in Lineage(c)
  BY <1>1, LineageClosed
<1>4. 0 \in P
  <2>1. At(i, d - 0) = i
    BY <1>2 DEF At
  <2> QED BY <1>3, <2>1
<1>5. ASSUME NEW n \in Nat, n \in P PROVE n + 1 \in P
  <2> SUFFICES ASSUME n + 1 <= d PROVE \E b \in Lineage(c) : index[b] = At(i, d - (n + 1))
    OBVIOUS
  <2>1. PICK j : j = d - n
    OBVIOUS
  <2>2. j \in 0 .. d /\ j # 0 /\ d - (n + 1) = j - 1 /\ n <= d
    BY <1>2, <2>1
  <2>3. PICK b \in Lineage(c) : index[b] = At(i, j)
    BY <1>5, <2>1, <2>2
  <2>4. table[index[b]].depth = j /\ table[index[b]].ancestors[j - 1] = At(i, j - 1)
    BY <1>2, <2>2, <2>3, AtFacts
  <2>5. table[index[b]].depth = decl[b].depth
    BY Aligned
  <2>6. b # Root
    <3>1. Root \in Class
      BY TypeTableAssumption
    <3>2. decl[Root].depth = 0
      BY <3>1, DeclFacts
    <3> QED BY <2>2, <2>4, <2>5, <3>2
  <2>7. table[index[b]].ancestors[table[index[b]].depth - 1] = index[Parent(b)]
    BY <2>6, Aligned
  <2>8. index[Parent(b)] = At(i, j - 1)
    BY <2>4, <2>7
  <2> QED BY <1>3, <2>2, <2>8
<1>6. \A n \in Nat : n \in P
  <2> HIDE DEF P
  <2> QED BY <1>4, <1>5, NextNumber
<1>7. PICK j : j = table[a].depth
  OBVIOUS
<1>8. j \in 0 .. d /\ a = At(i, j)
  BY <1>2, <1>7, AtPlaces
<1>9. d - j \in Nat /\ d - j <= d /\ d - (d - j) = j
  BY <1>2, <1>8
<1> QED BY <1>6, <1>8, <1>9

LEMMA LineageFacts ==
  ASSUME TInv, NEW c \in Sound
  PROVE  LineageKeys(c) = {table[a].key : a \in Ancestors(index[c]) \union {index[c]}}
<1> DEFINE A == Ancestors(index[c]) \union {index[c]}
<1>1. \A b \in Lineage(c) : index[b] \in A /\ table[index[b]].key = Key(b)
  BY LineageUp, Aligned
<1>2. \A a \in A : \E b \in Lineage(c) : index[b] = a
  BY LineageDown
<1> HIDE DEF A
<1> QED BY <1>1, <1>2 DEF LineageKeys, A

\* What has a class above it is not final.
LEMMA AboveNotFinal ==
  ASSUME TInv, NEW c \in Sound, NEW b \in Lineage(c), b # c
  PROVE  ~decl[b].final
<1> DEFINE S == {c} \union {Parent(a) : a \in Lineage(c)}
<1>1. c \in Registered /\ c \in Class
  BY DEF Sound, Registered
<1>2. /\ c \in Lineage(c) /\ Lineage(c) \subseteq Registered
      /\ \A a \in Lineage(c) : Parent(a) \in Lineage(c)
  BY <1>1, LineageClosed
<1>3. S \in SUBSET Class /\ c \in S /\ S \subseteq Lineage(c)
  BY <1>1, <1>2 DEF Registered
<1>4. \A a \in S : Parent(a) \in S
  BY <1>3
<1>5. b \in S
  <2> HIDE DEF S
  <2> QED BY <1>3, <1>4, LineageLeast
<1>6. PICK a \in Lineage(c) : b = Parent(a)
  BY <1>5
<1>7. a \in Class
  BY <1>2 DEF Registered
<1> QED BY <1>6, <1>7, DeclFacts

LEMMA ExactFromTInv == TInv => InstanceCheckExact
<1> SUFFICES ASSUME TInv, NEW T \in Sound, NEW c \in Sound
             PROVE  IsObjectInstance(T, index[c]) <=> Key(T) \in LineageKeys(c)
  BY DEF InstanceCheckExact
<1>i. PICK i, t : i = index[c] /\ t = index[T]
  OBVIOUS
<1>1. T \in Registered /\ c \in Registered /\ T \in Class /\ c \in Class
  BY DEF Sound, Registered
<1>2. i \in Types /\ t \in Types /\ t \in Nat /\ i \in Nat /\ table[t].key = Key(T)
  BY <1>1, <1>i, ClassFacts, EntryFacts
<1>3. /\ table[t].depth = decl[T].depth /\ table[t].num_slots = NumSlots(T)
      /\ table[t].overflow => decl[T].overflow
  BY <1>1, <1>i, LineageClosed, Aligned
<1>4. /\ decl[T].slots \in Nat /\ table[t].num_slots = decl[T].slots + 1
      /\ table[t].allocated \in Nat /\ table[t].allocated <= table[t].num_slots
      /\ i \in Reserved(i) /\ t \in Reserved(t)
      /\ table[i].depth \in Nat /\ table[t].depth \in Nat
      /\ table[i].allocated \in Nat
  BY <1>1, <1>2, <1>3, EntryFacts, DeclFacts DEF NumSlots
<1>5. Key(T) \in LineageKeys(c) <=> t \in Ancestors(i) \union {i}
  <2>1. \A a \in Ancestors(i) \union {i} : a \in Types
    BY <1>2, AncestorFacts DEF Ancestors
  <2>2. \A a \in Types : table[a].key = table[t].key => a = t
    BY <1>2, KeyFacts
  <2>3. LineageKeys(c) = {table[a].key : a \in Ancestors(i) \union {i}}
    BY <1>i, LineageFacts
  <2>4. PICK A : A = Ancestors(i) \union {i}
    OBVIOUS
  <2>5. LineageKeys(c) = {table[a].key : a \in A} /\ A \subseteq Types
    BY <2>1, <2>3, <2>4
  <2>6. table[t].key \in LineageKeys(c) <=> t \in A
    BY <1>2, <2>2, <2>5
  <2> QED BY <1>2, <2>4, <2>6
<1>6. ASSUME t \in Ancestors(i)
      PROVE  /\ ~decl[T].final /\ t < i
             /\ table[t].depth \in 0 .. table[i].depth - 1
             /\ table[i].ancestors[table[t].depth] = t
             /\ ~table[t].overflow => Nested(i, t)
  <2>1. PICK j \in 0 .. table[i].depth - 1 : t = table[i].ancestors[j]
    BY <1>6 DEF Ancestors
  <2>3. t < i
    BY <1>2, <2>1, AncestorFacts
  <2>4. table[t].depth = j
    BY <1>2, <2>1, AncestorFacts
  <2>5. PICK b \in Lineage(c) : index[b] = t
    BY <1>6, <1>i, LineageDown
  <2>6. ~decl[b].final
    <3>1. b # c
      BY <1>2, <1>i, <2>3, <2>5
    <3> QED BY <3>1, AboveNotFinal
  <2>7. Alike(b, T)
    <3>1. Key(b) = Key(T)
      BY <1>2, <2>5, Aligned
    <3> QED BY <1>1, <3>1 DEF Sound
  <2>8. ~decl[T].final
    BY <2>6, <2>7 DEF Alike
  <2>9. ~table[t].overflow => Nested(i, t)
    BY <1>2, <2>1, AncestorFacts
  <2> QED BY <2>1, <2>3, <2>4, <2>8, <2>9
<1>7. InReservedRange(T, i) <=> i \in Reserved(t)
  <2>1. t + table[t].num_slots - 1 = t + decl[T].slots
    BY <1>2, <1>4
  <2> QED BY <1>i, <2>1 DEF InReservedRange, Reserved
<1>8. ASSUME i \in Reserved(t), t # i
      PROVE  t \in Ancestors(i)
  <2>1. ~Nested(t, i)
    <3>1. i \notin i + 1 .. i + table[i].allocated - 1
      BY <1>2, <1>4
    <3> QED BY <1>8, <3>1 DEF Nested
  <2>2. Nested(i, t)
    BY <1>2, <1>4, <1>8, <2>1 DEF TInv, SlotsLaminar
  <2> QED BY <2>2 DEF Nested
<1>9. LookUp(T, i) => t \in Ancestors(i)
  <2> SUFFICES ASSUME LookUp(T, i) PROVE t \in Ancestors(i)
    OBVIOUS
  <2>1. table[t].depth \in 0 .. table[i].depth - 1 /\ table[i].ancestors[table[t].depth] = t
    BY <1>3, <1>4, <1>i DEF LookUp
  <2> QED BY <2>1 DEF Ancestors
<1>10. ASSUME t \in Ancestors(i)
       PROVE  InReservedRange(T, i) \/ (decl[T].overflow /\ LookUp(T, i))
  <2>1. CASE table[t].overflow
    <3>1. LookUp(T, i)
      BY <1>2, <1>3, <1>4, <1>6, <1>10, <1>i DEF LookUp
    <3> QED BY <1>3, <2>1, <3>1
  <2>2. CASE ~table[t].overflow
    <3>1. Reserved(i) \subseteq t + 1 .. t + table[t].allocated - 1
      BY <1>6, <1>10, <2>2 DEF Nested
    <3>2. i \in t + 1 .. t + table[t].allocated - 1
      BY <1>4, <3>1
    <3>3. i \in Reserved(t)
      BY <1>2, <1>4, <3>2 DEF Reserved
    <3> QED BY <1>7, <3>3
  <2> QED BY <2>1, <2>2
<1>11. CASE T = Root
  <2>1. t = RootIndex
    BY <1>11, <1>i DEF TInv, IndicesConsistent
  <2>2. t \in Ancestors(i) \union {i}
    <3>1. CASE table[i].depth = 0
      BY <1>2, <2>1, <3>1, TopIsRoot
    <3>2. CASE table[i].depth # 0
      <4>1. table[i].ancestors[0] = RootIndex /\ 0 \in 0 .. table[i].depth - 1
        BY <1>2, <1>4, <3>2, TopIsRoot
      <4> QED BY <2>1, <4>1 DEF Ancestors
    <3> QED BY <3>1, <3>2
  <2> QED BY <1>5, <1>11, <2>2 DEF IsObjectInstance
<1>12. CASE T # Root /\ decl[T].final
  BY <1>5, <1>6, <1>12, <1>i DEF IsObjectInstance
<1>13. CASE T # Root /\ ~decl[T].final
  <2>1. IsObjectInstance(T, i) <=> InReservedRange(T, i) \/ (decl[T].overflow /\ LookUp(T, i))
    BY <1>13 DEF IsObjectInstance
  <2>2. t = i => InReservedRange(T, i)
    BY <1>4, <1>7
  <2> QED BY <1>5, <1>7, <1>8, <1>9, <1>10, <1>i, <2>1, <2>2
<1> QED BY <1>11, <1>12, <1>13

\* IsObjectInstance agrees with the class hierarchy for every pair of
\* registered classes, of whichever library, although it looks at one range of
\* indices and one ancestor only.
THEOREM InstanceCheckIsExact == Spec => []InstanceCheckExact
BY TableInvariance, ExactFromTInv, PTL

-----------------------------------------------------------------------------
(* The reflection registry.  The table goes its own way below it, so that  *)
(* TInv holds of it at every state.                                        *)

LEMMA SpecOfTable == ReflectionSpec => Spec
<1>1. [ReflectionNext]_<<vars, reflection>> => [Next]_vars
  BY DEF ReflectionNext
<1> QED BY <1>1, PTL DEF ReflectionSpec, Spec

\* What a vector holds after a push, when it held the beginning of s.
LEMMA PushFacts ==
  ASSUME NEW S, NEW s \in Seq(S), NEW vec \in [items : Seq(S), block : Nat],
         Begins(vec.items, s), Len(vec.items) < Len(s)
  PROVE  LET pushed == PushBack(vec, s[Len(vec.items) + 1]) IN
         /\ pushed \in [items : Seq(S), block : Nat]
         /\ Len(pushed.items) = Len(vec.items) + 1
         /\ Begins(pushed.items, s)
<1> DEFINE n == Len(vec.items)
           pushed == PushBack(vec, s[n + 1])
<1>1. vec.items \in Seq(S) /\ vec.block \in Nat /\ n \in Nat
  OBVIOUS
<1>2. s[n + 1] \in S
  BY <1>1
<1>3. Append(vec.items, s[n + 1]) \in Seq(S)
  BY <1>1, <1>2
<1>4. Len(Append(vec.items, s[n + 1])) = n + 1
  BY <1>1, <1>2
<1>5. /\ Append(SubSeq(s, 1, n), s[n + 1]) = SubSeq(s, 1, n + 1)
      /\ vec.items = SubSeq(s, 1, n) /\ n + 1 <= Len(s)
  BY <1>1 DEF Begins
<1>6. pushed.items = Append(vec.items, s[n + 1])
  BY DEF PushBack
<1>7. pushed.block \in Nat
  BY <1>1 DEF PushBack
<1>8. pushed = [items |-> pushed.items, block |-> pushed.block]
  BY DEF PushBack
<1>9. pushed \in [items : Seq(S), block : Nat]
  BY <1>3, <1>6, <1>7, <1>8
<1>10. pushed.items = SubSeq(s, 1, n + 1)
  BY <1>5, <1>6
<1>11. Len(pushed.items) = n + 1
  BY <1>4, <1>6
<1>12. Begins(pushed.items, s)
  <2> HIDE DEF pushed
  <2> QED BY <1>5, <1>10, <1>11 DEF Begins
<1> QED BY <1>9, <1>11, <1>12

\* A reader of what was published last finds all items.
LEMMA ReadPublished ==
  ASSUME NEW S, NEW vec \in [items : Seq(S), block : Nat]
  PROVE  Read(vec, Publish(vec)) = vec.items /\ Publish(vec) \in Published
<1>1. vec.items \in Seq(S) /\ vec.block \in Nat /\ Len(vec.items) \in Nat
  OBVIOUS
<1>2. SubSeq(vec.items, 1, Len(vec.items)) = vec.items
  BY <1>1
<1> QED BY <1>1, <1>2 DEF Read, Publish, Published

LEMMA NoItemsFacts ==
  ASSUME NEW S, NEW s \in Seq(S)
  PROVE  /\ NoItems \in [items : Seq(S), block : Nat]
         /\ Begins(NoItems.items, s)
         /\ Publish(NoItems) \in Published
<1>1. <<>> \in Seq(S) /\ SubSeq(s, 1, 0) = <<>> /\ Len(<<>>) = 0
  OBVIOUS
<1>2. NoItems \in [items : Seq(S), block : Nat]
  BY <1>1 DEF NoItems
<1>3. Begins(NoItems.items, s)
  BY <1>1 DEF NoItems, Begins
<1> QED BY <1>2, <1>3, ReadPublished

\* The column of an attribute, with a cell for the index i.
LEMMA GrownFacts ==
  ASSUME NEW column \in AttrColumn, NEW i \in Nat,
         column.data = column.block, column.size = Len(column.cells)
  PROVE  LET grown == Grown(column, i) IN
         /\ grown \in AttrColumn
         /\ grown.data = grown.block /\ grown.size = Len(grown.cells)
         /\ i < grown.size /\ column.size <= grown.size
         /\ \A j \in 1 .. column.size : grown.cells[j] = column.cells[j]
         /\ \A j \in 1 .. grown.size : j > column.size => grown.cells[j] = None
<1>1. /\ column.cells \in Seq(AttrValue) /\ Len(column.cells) \in Nat
      /\ column.block \in Nat /\ column.data \in Nat /\ column.size \in Nat
  BY DEF AttrColumn
<1>2. CASE Len(column.cells) > i
  BY <1>1, <1>2 DEF Grown
<1>3. CASE ~(Len(column.cells) > i)
  <2> DEFINE cells == [j \in 1 .. i + 1 |->
                         IF j <= Len(column.cells) THEN column.cells[j] ELSE None]
             grown == Grown(column, i)
  <2>1. Len(column.cells) <= i
    BY <1>1, <1>3
  <2>2. None \in AttrValue
    BY DEF AttrValue
  <2>3. \A j \in 1 .. i + 1 : cells[j] \in AttrValue
    BY <1>1, <2>2
  <2>4. cells \in Seq(AttrValue) /\ Len(cells) = i + 1
    BY <2>3
  <2>5. grown = [cells |-> cells, block |-> column.block + 1,
                 data |-> column.block + 1, size |-> i + 1]
    BY <1>3 DEF Grown
  <2>6. grown \in AttrColumn
    <3> HIDE DEF cells
    <3> QED BY <1>1, <2>4, <2>5 DEF AttrColumn
  <2>7. /\ grown.data = grown.block /\ grown.size = i + 1
        /\ grown.cells = cells
    BY <2>5
  <2>8. /\ \A j \in 1 .. column.size : cells[j] = column.cells[j]
        /\ \A j \in 1 .. i + 1 : j > column.size => cells[j] = None
    BY <1>1, <2>1
  <2> HIDE DEF cells, grown
  <2>9. /\ i < grown.size /\ column.size <= grown.size
        /\ grown.size = Len(grown.cells)
    BY <1>1, <2>1, <2>4, <2>7
  <2> QED BY <2>6, <2>7, <2>8, <2>9 DEF grown
<1> QED BY <1>2, <1>3

LEMMA NewColumnFacts ==
  /\ NewColumn \in AttrColumn
  /\ NewColumn.data = NewColumn.block /\ NewColumn.size = Len(NewColumn.cells)
  /\ NewColumn.size = 0
<1>1. <<>> \in Seq(AttrValue) /\ Len(<<>>) = 0
  OBVIOUS
<1> QED BY <1>1 DEF NewColumn, AttrColumn

-----------------------------------------------------------------------------

\* No step changes what the classes declare, nor takes a registration back.
LEMMA DeclKept ==
  ASSUME TInv, [Next]_vars
  PROVE  decl' = decl /\ Registered \subseteq Registered'
<1>1. ASSUME NEW c \in Class, NEW t, t \in Nat, index' = [index EXCEPT ![c] = t]
      PROVE  Registered \subseteq Registered'
  <2>1. index \in [Class -> Nat \union {Unset}]
    BY DEF TInv, TypeOK
  <2> QED BY <1>1, <2>1, TypeTableAssumption DEF Registered
<1>2. ASSUME NEW c \in Class, NEW t, Install(c, t)
      PROVE  decl' = decl /\ Registered \subseteq Registered'
  BY <1>2, <1>1 DEF Install
<1>3. ASSUME NEW c \in Class, AllocStatic(c) \/ AllocReserved(c) \/ AllocOverflow(c)
      PROVE  decl' = decl /\ Registered \subseteq Registered'
  BY <1>2, <1>3, StaticInstall, ReservedInstall, OverflowInstall
<1>4. ASSUME NEW c \in Class, KnownKey(c)
      PROVE  decl' = decl /\ Registered \subseteq Registered'
  <2>1. key2index[Key(c)] \in Types
    BY <1>4 DEF KnownKey, TInv, IndicesConsistent
  <2>2. key2index[Key(c)] \in Nat
    BY <2>1, EntryFacts
  <2> QED BY <1>1, <1>4, <2>2 DEF KnownKey
<1>5. ASSUME NEW c \in Class, Fail(c)
      PROVE  decl' = decl /\ Registered \subseteq Registered'
  BY <1>5 DEF Fail, Registered
<1>6. CASE UNCHANGED vars
  BY <1>6 DEF vars, Registered
<1> QED BY <1>3, <1>4, <1>5, <1>6 DEF Next

\* Only keys that are known have attributes.
LEMMA DefinedKeys ==
  ASSUME RegistryInv, NEW k \in TypeKey, defined[k] # {}
  PROVE  k \in Keys
<1>1. metadata[k] \in Registered /\ Key(metadata[k]) = k
  BY DEF RegistryInv, MetadataConsistent
<1> QED BY <1>1, ClassFacts DEF RegistryInv

LEMMA RegistryInit == Init /\ ReflectionInit => RegistryInv
<1> SUFFICES ASSUME Init, ReflectionInit PROVE RegistryInv
  OBVIOUS
<1>1. TInv
  BY InitTInv
<1>2. FieldsOf[Root] \in Seq(FieldInfo) /\ MethodsOf[Root] \in Seq(MethodInfo)
  BY RegistryAssumption, TypeTableAssumption
<1>3. ASSUME NEW k \in TypeKey
      PROVE  /\ fields[k] = NoItems /\ methods[k] = NoItems
             /\ info[k] = [fields |-> Publish(NoItems), methods |-> Publish(NoItems)]
             /\ metadata[k] = IF k = Key(Root) THEN Root ELSE Unset
             /\ defined[k] = {}
  BY DEF ReflectionInit
<1>4. \A c \in Class : FieldsOf[c] \in Seq(FieldInfo) /\ MethodsOf[c] \in Seq(MethodInfo)
  BY RegistryAssumption
<1>5. Root \in Registered /\ Root \in Class
  BY <1>1, TypeTableAssumption DEF TInv, IndicesConsistent, Registered
<1>6. /\ NoItems \in [items : Seq(FieldInfo), block : Nat]
      /\ NoItems \in [items : Seq(MethodInfo), block : Nat]
      /\ Publish(NoItems) \in Published
  BY <1>2, NoItemsFacts
<1>7. VectorsPublished
  <2> SUFFICES ASSUME NEW k \in TypeKey
               PROVE  /\ info[k] = [fields |-> Publish(fields[k]), methods |-> Publish(methods[k])]
                      /\ metadata[k] # Unset =>
                           /\ Begins(fields[k].items, FieldsOf[metadata[k]])
                           /\ Begins(methods[k].items, MethodsOf[metadata[k]])
    BY DEF VectorsPublished
  <2>1. metadata[k] # Unset => metadata[k] = Root
    BY <1>3
  <2>2. Begins(NoItems.items, FieldsOf[Root]) /\ Begins(NoItems.items, MethodsOf[Root])
    BY <1>2, NoItemsFacts
  <2> QED BY <1>3, <2>1, <2>2
<1>8. RegistryTypeOK
  <2>1. /\ fields \in [TypeKey -> [items : Seq(FieldInfo), block : Nat]]
        /\ methods \in [TypeKey -> [items : Seq(MethodInfo), block : Nat]]
    BY <1>6 DEF ReflectionInit
  <2>2. info \in [TypeKey -> [fields : Published, methods : Published]]
    BY <1>6 DEF ReflectionInit
  <2>3. /\ metadata \in [TypeKey -> {Unset} \union Class]
        /\ columns \in [Attr -> {Unset} \union AttrColumn]
        /\ defined \in [TypeKey -> SUBSET Attr]
    BY <1>5 DEF ReflectionInit
  <2> QED BY <2>1, <2>2, <2>3 DEF RegistryTypeOK
<1>9. MetadataConsistent
  <2>1. Root # Unset
    BY <1>5, RegistryAssumption
  <2> QED BY <1>3, <1>5, <2>1 DEF MetadataConsistent
<1>10. ColumnsConsistent
  BY DEF ColumnsConsistent, ReflectionInit
<1> QED BY <1>1, <1>7, <1>8, <1>9, <1>10 DEF RegistryInv

\* New entries in the table touch nothing that was registered: the indices that
\* the cells belong to stay, and a new key has defined nothing yet.
LEMMA RegistryTable ==
  ASSUME RegistryInv, [Next]_vars, UNCHANGED reflection
  PROVE  RegistryInv'
<1>0. TInv
  BY DEF RegistryInv
<1>1. TInv'
  BY <1>0, NextTInv
<1>2. /\ UNCHANGED fields /\ UNCHANGED methods /\ UNCHANGED info
      /\ UNCHANGED metadata /\ UNCHANGED columns /\ UNCHANGED defined
  BY DEF reflection
<1>3. \A k \in Keys : key2index'[k] = key2index[k]
  BY <1>0, StaysStep
<1>4. \A k \in Keys : k \in Keys'
  BY <1>3 DEF Keys
<1>5. decl' = decl /\ Registered \subseteq Registered'
  BY <1>0, DeclKept
<1>6. RegistryTypeOK' /\ VectorsPublished'
  BY <1>2 DEF RegistryInv, RegistryTypeOK, VectorsPublished
<1>7. MetadataConsistent'
  BY <1>2, <1>5 DEF RegistryInv, MetadataConsistent, Key
<1>8. \A k \in TypeKey, a \in Attr : a \in defined[k] => k \in Keys
  BY DefinedKeys
<1>9. ASSUME NEW a \in Attr, columns[a] # Unset
      PROVE  (ColumnConsistent(a))'
  <2>1. ColumnConsistent(a)
    BY <1>9 DEF RegistryInv, ColumnsConsistent
  <2>2. \A k \in Keys' : a \in defined[k] => k \in Keys
    BY <1>8 DEF Keys
  <2>3. \A k \in Keys' :
          a \in defined[k] =>
            /\ key2index'[k] < columns[a].size
            /\ columns[a].cells[key2index'[k] + 1] = AttrsOf[metadata[k]][a]
    BY <1>3, <2>1, <2>2 DEF ColumnConsistent
  <2>4. ASSUME NEW i \in 1 .. columns[a].size, columns[a].cells[i] # None
        PROVE  \E k \in Keys' : key2index'[k] = i - 1 /\ a \in defined[k]
    <3>1. PICK k \in Keys : key2index[k] = i - 1 /\ a \in defined[k]
      BY <2>1, <2>4 DEF ColumnConsistent
    <3> QED BY <1>3, <1>4, <3>1
  <2> QED BY <1>2, <2>1, <2>3, <2>4 DEF ColumnConsistent
<1>10. ColumnsConsistent'
  BY <1>2, <1>9 DEF RegistryInv, ColumnsConsistent
<1> QED BY <1>1, <1>6, <1>7, <1>10 DEF RegistryInv

\* The table is as it was when something is registered.
LEMMA TableKept ==
  ASSUME TInv, UNCHANGED vars
  PROVE  /\ TInv' /\ Registered' = Registered /\ UNCHANGED index
         /\ Keys' = Keys /\ UNCHANGED key2index /\ UNCHANGED decl
<1>1. TInv'
  BY NextTInv
<1> QED BY <1>1 DEF vars, Registered, Keys

LEMMA ColumnsKept ==
  ASSUME RegistryInv, UNCHANGED vars, UNCHANGED columns, UNCHANGED defined,
         \A k \in TypeKey : metadata[k] # Unset => metadata'[k] = metadata[k]
  PROVE  ColumnsConsistent'
<1>1. Keys' = Keys /\ UNCHANGED key2index
  BY TableKept DEF RegistryInv
<1>2. \A k \in Keys, a \in Attr : a \in defined[k] => metadata'[k] = metadata[k]
  BY DEF Keys, RegistryInv, MetadataConsistent
<1> QED BY <1>1, <1>2 DEF RegistryInv, ColumnsConsistent, ColumnConsistent

LEMMA MetadataKept ==
  ASSUME RegistryInv, UNCHANGED vars, UNCHANGED metadata,
         \A k \in TypeKey : metadata[k] = Unset =>
           fields'[k] = fields[k] /\ methods'[k] = methods[k] /\ defined'[k] = defined[k]
  PROVE  MetadataConsistent'
<1>1. Registered' = Registered /\ UNCHANGED decl
  BY TableKept DEF RegistryInv
<1> QED BY <1>1 DEF RegistryInv, MetadataConsistent, Key

\* What a class needs to add to its entry.
LEMMA DefinesFacts ==
  ASSUME RegistryInv, NEW c \in Class, Defines(c)
  PROVE  /\ c \in Registered /\ Key(c) \in TypeKey /\ Key(c) \in Keys
         /\ metadata[Key(c)] = c /\ c # Unset /\ index[c] = key2index[Key(c)]
<1>1. c \in Registered /\ metadata[Key(c)] = c /\ TInv
  BY DEF Defines, HasEntry, RegistryInv
<1> QED BY <1>1, ClassFacts, DeclFacts, RegistryAssumption

LEMMA RegistryMetadata ==
  ASSUME RegistryInv, UNCHANGED vars, NEW c \in Class, RegisterTypeMetadata(c)
  PROVE  RegistryInv'
<1> DEFINE h == Key(c)
<1>1. /\ UNCHANGED fields /\ UNCHANGED methods /\ UNCHANGED info
      /\ UNCHANGED columns /\ UNCHANGED defined
      /\ c \in Registered /\ metadata[h] = Unset
      /\ metadata' = [metadata EXCEPT ![h] = c]
  BY DEF RegisterTypeMetadata, HasEntry
<1>2. TInv /\ TInv' /\ Registered' = Registered /\ UNCHANGED decl
  BY TableKept DEF RegistryInv
<1>3. h \in TypeKey /\ c # Unset
  BY <1>2, DeclFacts, RegistryAssumption
<1>4. metadata \in [TypeKey -> {Unset} \union Class]
  BY DEF RegistryInv, RegistryTypeOK
<1>5. /\ metadata' \in [TypeKey -> {Unset} \union Class]
      /\ metadata'[h] = c /\ \A k \in TypeKey \ {h} : metadata'[k] = metadata[k]
  BY <1>1, <1>3, <1>4
<1>6. ColumnsConsistent'
  BY <1>1, <1>5, ColumnsKept
<1>7. fields[h] = NoItems /\ methods[h] = NoItems
  BY <1>1, <1>3 DEF RegistryInv, MetadataConsistent
<1>8. Begins(NoItems.items, FieldsOf[c]) /\ Begins(NoItems.items, MethodsOf[c])
  <2>1. FieldsOf[c] \in Seq(FieldInfo) /\ MethodsOf[c] \in Seq(MethodInfo)
    BY RegistryAssumption
  <2> QED BY <2>1, NoItemsFacts
<1>9. VectorsPublished'
  <2> SUFFICES ASSUME NEW k \in TypeKey
               PROVE  /\ info[k] = [fields |-> Publish(fields[k]), methods |-> Publish(methods[k])]
                      /\ metadata'[k] # Unset =>
                           /\ Begins(fields[k].items, FieldsOf[metadata'[k]])
                           /\ Begins(methods[k].items, MethodsOf[metadata'[k]])
    BY <1>1 DEF VectorsPublished, Publish
  <2>1. /\ info[k] = [fields |-> Publish(fields[k]), methods |-> Publish(methods[k])]
        /\ metadata[k] # Unset =>
             /\ Begins(fields[k].items, FieldsOf[metadata[k]])
             /\ Begins(methods[k].items, MethodsOf[metadata[k]])
    BY DEF RegistryInv, VectorsPublished
  <2> QED BY <1>5, <1>7, <1>8, <2>1
<1>10. MetadataConsistent'
  <2>1. \A k \in TypeKey :
          IF metadata[k] = Unset
            THEN fields[k] = NoItems /\ methods[k] = NoItems /\ defined[k] = {}
            ELSE metadata[k] \in Registered /\ Key(metadata[k]) = k
    BY DEF RegistryInv, MetadataConsistent
  <2>2. \A k \in TypeKey :
          IF metadata'[k] = Unset
            THEN fields[k] = NoItems /\ methods[k] = NoItems /\ defined[k] = {}
            ELSE metadata'[k] \in Registered /\ Key(metadata'[k]) = k
    BY <1>1, <1>3, <1>5, <2>1
  <2>3. \A d : (Key(d))' = Key(d)
    BY <1>2 DEF Key
  <2> HIDE DEF h
  <2> QED BY <1>1, <1>2, <2>2, <2>3 DEF MetadataConsistent, Key
<1>11. RegistryTypeOK'
  BY <1>1, <1>5 DEF RegistryInv, RegistryTypeOK
<1> QED BY <1>2, <1>6, <1>9, <1>10, <1>11 DEF RegistryInv

\* The vector is the next beginning of what the class registers, and it is
\* published.
LEMMA RegistryField ==
  ASSUME RegistryInv, UNCHANGED vars, NEW c \in Class, RegisterTypeField(c)
  PROVE  RegistryInv'
<1> DEFINE h == Key(c)
           n == Len(fields[h].items)
           vec == PushBack(fields[h], FieldsOf[c][n + 1])
<1>1. /\ UNCHANGED methods /\ UNCHANGED metadata
      /\ UNCHANGED columns /\ UNCHANGED defined
      /\ n < Len(FieldsOf[c]) /\ Defines(c)
      /\ fields' = [fields EXCEPT ![h] = vec]
      /\ info' = [info EXCEPT ![h].fields = Publish(vec)]
  BY DEF RegisterTypeField
<1>2. TInv'
  BY TableKept DEF RegistryInv
<1>3. ColumnsConsistent'
  BY <1>1, ColumnsKept
<1>0. h \in TypeKey /\ metadata[h] = c /\ c # Unset
  BY <1>1, DefinesFacts
<1>4. /\ FieldsOf[c] \in Seq(FieldInfo)
      /\ fields[h] \in [items : Seq(FieldInfo), block : Nat]
      /\ Begins(fields[h].items, FieldsOf[c])
      /\ info[h] = [fields |-> Publish(fields[h]), methods |-> Publish(methods[h])]
      /\ fields \in [TypeKey -> [items : Seq(FieldInfo), block : Nat]]
      /\ info \in [TypeKey -> [fields : Published, methods : Published]]
  BY <1>0, RegistryAssumption DEF RegistryInv, RegistryTypeOK, VectorsPublished
<1>5. /\ vec \in [items : Seq(FieldInfo), block : Nat]
      /\ Begins(vec.items, FieldsOf[c])
  <2>1. \A s \in Seq(FieldInfo), v \in [items : Seq(FieldInfo), block : Nat] :
          Begins(v.items, s) /\ Len(v.items) < Len(s) =>
            /\ PushBack(v, s[Len(v.items) + 1]) \in [items : Seq(FieldInfo), block : Nat]
            /\ Begins(PushBack(v, s[Len(v.items) + 1]).items, s)
    BY PushFacts, Zenon
  <2>2. /\ FieldsOf[c] \in Seq(FieldInfo) /\ fields[h] \in [items : Seq(FieldInfo), block : Nat]
        /\ Begins(fields[h].items, FieldsOf[c])
        /\ Len(fields[h].items) < Len(FieldsOf[c])
    BY <1>1, <1>4
  <2> QED BY <2>1, <2>2, Zenon
<1> HIDE DEF vec
<1>6. Publish(vec) \in Published
  BY <1>5, ReadPublished
<1>7. /\ fields' \in [TypeKey -> [items : Seq(FieldInfo), block : Nat]]
      /\ fields'[h] = vec
      /\ \A k \in TypeKey \ {h} : fields'[k] = fields[k]
  BY <1>0, <1>1, <1>4, <1>5
<1>8. /\ info' \in [TypeKey -> [fields : Published, methods : Published]]
      /\ info'[h] = [fields |-> Publish(vec), methods |-> Publish(methods[h])]
      /\ \A k \in TypeKey \ {h} : info'[k] = info[k]
  <2>1. info'[h] = [info[h] EXCEPT !.fields = Publish(vec)]
    BY <1>0, <1>1, <1>4
  <2>2. info'[h] = [fields |-> Publish(vec), methods |-> Publish(methods[h])]
    BY <1>4, <2>1
  <2>3. Publish(methods[h]) \in Published
    BY <1>0, <1>4
  <2> HIDE DEF h
  <2> QED BY <1>0, <1>1, <1>4, <1>6, <2>2, <2>3
<1>9. VectorsPublished'
  <2> SUFFICES ASSUME NEW k \in TypeKey
               PROVE  /\ info'[k] = [fields |-> Publish(fields'[k]),
                                     methods |-> Publish(methods[k])]
                      /\ metadata[k] # Unset =>
                           /\ Begins(fields'[k].items, FieldsOf[metadata[k]])
                           /\ Begins(methods[k].items, MethodsOf[metadata[k]])
    BY <1>1 DEF VectorsPublished, Publish
  <2>1. /\ info[k] = [fields |-> Publish(fields[k]), methods |-> Publish(methods[k])]
        /\ metadata[k] # Unset =>
             /\ Begins(fields[k].items, FieldsOf[metadata[k]])
             /\ Begins(methods[k].items, MethodsOf[metadata[k]])
    BY DEF RegistryInv, VectorsPublished
  <2> HIDE DEF h
  <2>2. CASE k = h
    BY <1>0, <1>5, <1>7, <1>8, <2>1, <2>2
  <2>3. CASE k # h
    BY <1>7, <1>8, <2>1, <2>3
  <2> QED BY <2>2, <2>3
<1>10. RegistryTypeOK'
  BY <1>1, <1>7, <1>8 DEF RegistryInv, RegistryTypeOK
<1>11. MetadataConsistent'
  BY <1>0, <1>1, <1>7, MetadataKept
<1> QED BY <1>2, <1>3, <1>9, <1>10, <1>11 DEF RegistryInv

LEMMA RegistryMethod ==
  ASSUME RegistryInv, UNCHANGED vars, NEW c \in Class, RegisterTypeMethod(c)
  PROVE  RegistryInv'
<1> DEFINE h == Key(c)
           n == Len(methods[h].items)
           vec == PushBack(methods[h], MethodsOf[c][n + 1])
<1>1. /\ UNCHANGED fields /\ UNCHANGED metadata
      /\ UNCHANGED columns /\ UNCHANGED defined
      /\ n < Len(MethodsOf[c]) /\ Defines(c)
      /\ methods' = [methods EXCEPT ![h] = vec]
      /\ info' = [info EXCEPT ![h].methods = Publish(vec)]
  BY DEF RegisterTypeMethod
<1>2. TInv'
  BY TableKept DEF RegistryInv
<1>3. ColumnsConsistent'
  BY <1>1, ColumnsKept
<1>0. h \in TypeKey /\ metadata[h] = c /\ c # Unset
  BY <1>1, DefinesFacts
<1>4. /\ MethodsOf[c] \in Seq(MethodInfo)
      /\ methods[h] \in [items : Seq(MethodInfo), block : Nat]
      /\ Begins(methods[h].items, MethodsOf[c])
      /\ info[h] = [fields |-> Publish(fields[h]), methods |-> Publish(methods[h])]
      /\ methods \in [TypeKey -> [items : Seq(MethodInfo), block : Nat]]
      /\ info \in [TypeKey -> [fields : Published, methods : Published]]
  BY <1>0, RegistryAssumption DEF RegistryInv, RegistryTypeOK, VectorsPublished
<1>5. /\ vec \in [items : Seq(MethodInfo), block : Nat]
      /\ Begins(vec.items, MethodsOf[c])
  <2>1. \A s \in Seq(MethodInfo), v \in [items : Seq(MethodInfo), block : Nat] :
          Begins(v.items, s) /\ Len(v.items) < Len(s) =>
            /\ PushBack(v, s[Len(v.items) + 1]) \in [items : Seq(MethodInfo), block : Nat]
            /\ Begins(PushBack(v, s[Len(v.items) + 1]).items, s)
    BY PushFacts, Zenon
  <2>2. /\ MethodsOf[c] \in Seq(MethodInfo) /\ methods[h] \in [items : Seq(MethodInfo), block : Nat]
        /\ Begins(methods[h].items, MethodsOf[c])
        /\ Len(methods[h].items) < Len(MethodsOf[c])
    BY <1>1, <1>4
  <2> QED BY <2>1, <2>2, Zenon
<1> HIDE DEF vec
<1>6. Publish(vec) \in Published
  BY <1>5, ReadPublished
<1>7. /\ methods' \in [TypeKey -> [items : Seq(MethodInfo), block : Nat]]
      /\ methods'[h] = vec
      /\ \A k \in TypeKey \ {h} : methods'[k] = methods[k]
  BY <1>0, <1>1, <1>4, <1>5
<1>8. /\ info' \in [TypeKey -> [fields : Published, methods : Published]]
      /\ info'[h] = [fields |-> Publish(fields[h]), methods |-> Publish(vec)]
      /\ \A k \in TypeKey \ {h} : info'[k] = info[k]
  <2>1. info'[h] = [info[h] EXCEPT !.methods = Publish(vec)]
    BY <1>0, <1>1, <1>4
  <2>2. info'[h] = [fields |-> Publish(fields[h]), methods |-> Publish(vec)]
    BY <1>4, <2>1
  <2>3. Publish(fields[h]) \in Published
    BY <1>0, <1>4
  <2> HIDE DEF h
  <2> QED BY <1>0, <1>1, <1>4, <1>6, <2>2, <2>3
<1>9. VectorsPublished'
  <2> SUFFICES ASSUME NEW k \in TypeKey
               PROVE  /\ info'[k] = [fields |-> Publish(fields[k]),
                                     methods |-> Publish(methods'[k])]
                      /\ metadata[k] # Unset =>
                           /\ Begins(methods'[k].items, MethodsOf[metadata[k]])
                           /\ Begins(fields[k].items, FieldsOf[metadata[k]])
    BY <1>1 DEF VectorsPublished, Publish
  <2>1. /\ info[k] = [fields |-> Publish(fields[k]), methods |-> Publish(methods[k])]
        /\ metadata[k] # Unset =>
             /\ Begins(fields[k].items, FieldsOf[metadata[k]])
             /\ Begins(methods[k].items, MethodsOf[metadata[k]])
    BY DEF RegistryInv, VectorsPublished
  <2> HIDE DEF h
  <2>2. CASE k = h
    BY <1>0, <1>5, <1>7, <1>8, <2>1, <2>2
  <2>3. CASE k # h
    BY <1>7, <1>8, <2>1, <2>3
  <2> QED BY <2>2, <2>3
<1>10. RegistryTypeOK'
  BY <1>1, <1>7, <1>8 DEF RegistryInv, RegistryTypeOK
<1>11. MetadataConsistent'
  BY <1>0, <1>1, <1>7, MetadataKept
<1> QED BY <1>2, <1>3, <1>9, <1>10, <1>11 DEF RegistryInv

\* The column of an attribute, also when it does not exist yet.
LEMMA ColumnFacts ==
  ASSUME RegistryInv, NEW a \in Attr
  PROVE  LET column == Column(a) IN
         /\ column \in AttrColumn
         /\ column.data = column.block /\ column.size = Len(column.cells)
         /\ column.size \in Nat
         /\ \A k \in Keys :
              a \in defined[k] =>
                /\ key2index[k] < column.size
                /\ column.cells[key2index[k] + 1] = AttrsOf[metadata[k]][a]
         /\ \A i \in 1 .. column.size :
              column.cells[i] # None =>
                \E k \in Keys : key2index[k] = i - 1 /\ a \in defined[k]
<1>1. CASE columns[a] = Unset
  <2>1. Column(a) = NewColumn
    BY <1>1 DEF Column
  <2>2. \A k \in Keys : a \notin defined[k]
    BY <1>1 DEF RegistryInv, ColumnsConsistent, Keys
  <2>3. NewColumn.size = 0 /\ \A i \in 1 .. NewColumn.size : FALSE
    BY NewColumnFacts
  <2> QED BY <2>1, <2>2, <2>3, NewColumnFacts
<1>2. CASE columns[a] # Unset
  <2>1. Column(a) = columns[a]
    BY <1>2 DEF Column
  <2>2. columns[a] \in AttrColumn
    BY <1>2 DEF RegistryInv, RegistryTypeOK
  <2>3. ColumnConsistent(a)
    BY <1>2 DEF RegistryInv, ColumnsConsistent
  <2>4. columns[a].size \in Nat
    BY <2>2 DEF AttrColumn
  <2> QED BY <2>1, <2>2, <2>3, <2>4 DEF ColumnConsistent
<1> QED BY <1>1, <1>2

\* The index of a key is its own.
LEMMA KeyIndices ==
  ASSUME TInv, NEW k \in Keys
  PROVE  /\ k \in TypeKey /\ key2index[k] \in Nat
         /\ \A l \in Keys : key2index[l] = key2index[k] => l = k
<1>1. \A l \in Keys : key2index[l] \in Types /\ table[key2index[l]].key = l
  BY DEF TInv, IndicesConsistent
<1>2. key2index[k] \in Nat
  BY <1>1, EntryFacts
<1> QED BY <1>1, <1>2 DEF Keys

\* The value goes to a cell that no other key's index leads to.
LEMMA RegistryAttr ==
  ASSUME RegistryInv, UNCHANGED vars, NEW c \in Class, NEW a \in Attr,
         RegisterTypeAttr(c, a)
  PROVE  RegistryInv'
<1>h. PICK h, t : h = Key(c) /\ t = index[c]
  OBVIOUS
<1> DEFINE column == Grown(Column(a), t)
           set == [column EXCEPT !.cells[t + 1] = AttrsOf[c][a]]
<1>1. /\ UNCHANGED fields /\ UNCHANGED methods /\ UNCHANGED info /\ UNCHANGED metadata
      /\ Defines(c) /\ a \in DOMAIN AttrsOf[c] /\ a \notin defined[h]
      /\ columns' = [columns EXCEPT ![a] = set]
      /\ defined' = [defined EXCEPT ![h] = @ \union {a}]
  BY <1>h DEF RegisterTypeAttr, Complete
<1>2. TInv' /\ TInv /\ Keys' = Keys /\ UNCHANGED key2index
  BY TableKept DEF RegistryInv
<1>0. /\ h \in TypeKey /\ h \in Keys /\ metadata[h] = c /\ c # Unset
      /\ t = key2index[h]
  BY <1>1, <1>h, DefinesFacts
<1>3. VectorsPublished'
  BY <1>1 DEF RegistryInv, VectorsPublished
<1>4. /\ columns \in [Attr -> {Unset} \union AttrColumn]
      /\ defined \in [TypeKey -> SUBSET Attr]
  BY DEF RegistryInv, RegistryTypeOK
<1>5. t \in Nat
  BY <1>0, <1>2, KeyIndices
<1>6. /\ column \in AttrColumn
      /\ column.data = column.block /\ column.size = Len(column.cells)
      /\ t < column.size
      /\ Column(a).size \in Nat /\ Column(a).size <= column.size
      /\ \A j \in 1 .. Column(a).size : column.cells[j] = Column(a).cells[j]
      /\ \A j \in 1 .. column.size : j > Column(a).size => column.cells[j] = None
  BY <1>5, ColumnFacts, GrownFacts
<1>7. /\ \A k \in Keys :
           a \in defined[k] =>
             /\ key2index[k] < Column(a).size
             /\ Column(a).cells[key2index[k] + 1] = AttrsOf[metadata[k]][a]
      /\ \A i \in 1 .. Column(a).size :
           Column(a).cells[i] # None =>
             \E k \in Keys : key2index[k] = i - 1 /\ a \in defined[k]
  BY ColumnFacts
<1> HIDE DEF column
<1>8. /\ column.cells \in Seq(AttrValue) /\ column.size \in Nat
      /\ column.block \in Nat /\ column.data \in Nat
      /\ column = [cells |-> column.cells, block |-> column.block,
                   data |-> column.data, size |-> column.size]
  BY <1>6 DEF AttrColumn
<1>9. AttrsOf[c][a] \in AttrValue
  BY <1>1 DEF AttrValue
<1> DEFINE cells == [column.cells EXCEPT ![t + 1] = AttrsOf[c][a]]
<1>10. /\ cells \in Seq(AttrValue) /\ Len(cells) = column.size
       /\ cells[t + 1] = AttrsOf[c][a]
       /\ \A j \in 1 .. column.size : j # t + 1 => cells[j] = column.cells[j]
  BY <1>5, <1>6, <1>8, <1>9
<1>11. set = [cells |-> cells, block |-> column.block,
              data |-> column.data, size |-> column.size]
  <2>1. set = [column EXCEPT !.cells = cells]
    OBVIOUS
  <2> HIDE DEF cells, set
  <2> QED BY <1>8, <2>1
<1> HIDE DEF cells, set
<1>12. /\ set \in AttrColumn /\ set.cells = cells
       /\ set.data = set.block /\ set.size = column.size
  BY <1>6, <1>8, <1>10, <1>11 DEF AttrColumn
<1>13. /\ columns' \in [Attr -> {Unset} \union AttrColumn]
       /\ columns'[a] = set
       /\ \A b \in Attr \ {a} : columns'[b] = columns[b]
  BY <1>1, <1>4, <1>12
<1>14. /\ defined' \in [TypeKey -> SUBSET Attr]
       /\ defined'[h] = defined[h] \union {a}
       /\ \A k \in TypeKey \ {h} : defined'[k] = defined[k]
  BY <1>0, <1>1, <1>4
<1>15. RegistryTypeOK'
  BY <1>1, <1>13, <1>14 DEF RegistryInv, RegistryTypeOK
<1>16. (ColumnConsistent(a))'
  <2>1. ASSUME NEW k \in Keys, a \in defined'[k]
        PROVE  /\ key2index[k] < set.size
               /\ set.cells[key2index[k] + 1] = AttrsOf[metadata[k]][a]
    <3>1. CASE k = h
      BY <1>0, <1>6, <1>10, <1>12, <3>1
    <3>2. CASE k # h
      <4>1. a \in defined[k]
        BY <1>14, <2>1, <3>2 DEF Keys
      <4>2. /\ key2index[k] < Column(a).size
            /\ Column(a).cells[key2index[k] + 1] = AttrsOf[metadata[k]][a]
        BY <1>7, <4>1
      <4>3. key2index[k] \in Nat /\ key2index[k] # t
        BY <1>0, <1>2, <3>2, KeyIndices
      <4>4. PICK m : m = key2index[k]
        OBVIOUS
      <4>5. /\ m + 1 \in 1 .. Column(a).size /\ m + 1 \in 1 .. column.size
            /\ m + 1 # t + 1 /\ m < column.size
        BY <1>5, <1>6, <1>8, <4>2, <4>3, <4>4
      <4> QED BY <1>6, <1>10, <1>12, <4>2, <4>4, <4>5
    <3> QED BY <3>1, <3>2
  <2>2. ASSUME NEW i \in 1 .. set.size, set.cells[i] # None
        PROVE  \E k \in Keys : key2index[k] = i - 1 /\ a \in defined'[k]
    <3>1. CASE i = t + 1
      <4>1. key2index[h] = i - 1 /\ a \in defined'[h]
        BY <1>0, <1>5, <1>14, <3>1
      <4> QED BY <1>0, <4>1
    <3>2. CASE i # t + 1
      <4>1. i \in 1 .. column.size /\ column.cells[i] # None
        BY <1>10, <1>12, <2>2, <3>2
      <4>2. i \in 1 .. Column(a).size /\ Column(a).cells[i] # None
        BY <1>6, <1>8, <4>1
      <4>3. PICK k \in Keys : key2index[k] = i - 1 /\ a \in defined[k]
        BY <1>7, <4>2
      <4>4. a \in defined'[k]
        BY <1>14, <4>3 DEF Keys
      <4> QED BY <4>3, <4>4
    <3> QED BY <3>1, <3>2
  <2>3. set.data = set.block /\ set.size = Len(set.cells)
    BY <1>10, <1>12
  <2> QED BY <1>1, <1>2, <1>13, <2>1, <2>2, <2>3 DEF ColumnConsistent
<1>17. ASSUME NEW b \in Attr \ {a}, columns[b] # Unset
       PROVE  (ColumnConsistent(b))'
  <2>1. ColumnConsistent(b)
    BY <1>17 DEF RegistryInv, ColumnsConsistent
  <2>2. \A k \in Keys : b \in defined'[k] <=> b \in defined[k]
    BY <1>14, <1>17 DEF Keys
  <2> QED BY <1>1, <1>2, <1>13, <1>17, <2>1, <2>2 DEF ColumnConsistent
<1>18. ColumnsConsistent'
  <2>1. ASSUME NEW b \in Attr, columns'[b] = Unset, NEW k \in TypeKey
        PROVE  b \notin defined'[k]
    <3>1. b # a
      BY <1>12, <1>13, <2>1, RegistryAssumption
    <3>2. b \notin defined[k]
      BY <1>13, <2>1, <3>1 DEF RegistryInv, ColumnsConsistent
    <3> QED BY <1>14, <3>1, <3>2
  <2>2. ASSUME NEW b \in Attr, columns'[b] # Unset
        PROVE  (ColumnConsistent(b))'
    <3>1. CASE b = a
      BY <1>16, <3>1
    <3>2. CASE b # a
      BY <1>13, <1>17, <2>2, <3>2
    <3> QED BY <3>1, <3>2
  <2> QED BY <2>1, <2>2 DEF ColumnsConsistent
<1>19. MetadataConsistent'
  BY <1>0, <1>1, <1>14, MetadataKept
<1> QED BY <1>2, <1>3, <1>15, <1>18, <1>19 DEF RegistryInv

LEMMA RegistryEnsure ==
  ASSUME RegistryInv, UNCHANGED vars, NEW a \in Attr, EnsureTypeAttrColumn(a)
  PROVE  RegistryInv'
<1> DEFINE column == Grown(NewColumn, 0)
<1>1. /\ UNCHANGED fields /\ UNCHANGED methods /\ UNCHANGED info /\ UNCHANGED metadata
      /\ UNCHANGED defined /\ columns[a] = Unset
      /\ columns' = [columns EXCEPT ![a] = column]
  BY DEF EnsureTypeAttrColumn
<1>2. TInv' /\ Keys' = Keys /\ UNCHANGED key2index
  BY TableKept DEF RegistryInv
<1>3. VectorsPublished'
  BY <1>1 DEF RegistryInv, VectorsPublished
<1>4. /\ column \in AttrColumn
      /\ column.data = column.block /\ column.size = Len(column.cells)
      /\ \A j \in 1 .. column.size : column.cells[j] = None
  <2>1. /\ column \in AttrColumn
        /\ column.data = column.block /\ column.size = Len(column.cells)
        /\ \A j \in 1 .. column.size : j > NewColumn.size => column.cells[j] = None
    <3>1. 0 \in Nat
      OBVIOUS
    <3> QED BY <3>1, NewColumnFacts, GrownFacts, Zenon
  <2>2. \A j \in 1 .. column.size : j > NewColumn.size
    BY NewColumnFacts
  <2> QED BY <2>1, <2>2
<1> HIDE DEF column
<1>5. columns \in [Attr -> {Unset} \union AttrColumn]
  BY DEF RegistryInv, RegistryTypeOK
<1>6. /\ columns' \in [Attr -> {Unset} \union AttrColumn]
      /\ columns'[a] = column
      /\ \A b \in Attr \ {a} : columns'[b] = columns[b]
  BY <1>1, <1>4, <1>5
<1>7. RegistryTypeOK'
  BY <1>1, <1>6 DEF RegistryInv, RegistryTypeOK
<1>8. \A k \in TypeKey : a \notin defined[k]
  BY <1>1 DEF RegistryInv, ColumnsConsistent
<1>9. (ColumnConsistent(a))'
  BY <1>1, <1>2, <1>4, <1>6, <1>8 DEF ColumnConsistent, Keys
<1>10. ASSUME NEW b \in Attr \ {a}, columns[b] # Unset
       PROVE  (ColumnConsistent(b))'
  <2>1. ColumnConsistent(b)
    BY <1>10 DEF RegistryInv, ColumnsConsistent
  <2> QED BY <1>1, <1>2, <1>6, <1>10, <2>1 DEF ColumnConsistent
<1>11. ColumnsConsistent'
  <2>1. ASSUME NEW b \in Attr, columns'[b] = Unset, NEW k \in TypeKey
        PROVE  b \notin defined'[k]
    BY <1>1, <1>6, <1>8, <2>1 DEF RegistryInv, ColumnsConsistent
  <2>2. ASSUME NEW b \in Attr, columns'[b] # Unset
        PROVE  (ColumnConsistent(b))'
    <3>1. CASE b = a
      BY <1>9, <3>1
    <3>2. CASE b # a
      BY <1>6, <1>10, <2>2, <3>2
    <3> QED BY <3>1, <3>2
  <2> QED BY <2>1, <2>2 DEF ColumnsConsistent
<1>12. MetadataConsistent'
  BY <1>1, MetadataKept
<1> QED BY <1>2, <1>3, <1>7, <1>11, <1>12 DEF RegistryInv

\* Whatever is registered, by whichever class, in whatever order, between the
\* registrations of other classes: the pointers are those of the vectors, and
\* every cell belongs to the class whose index it has.
THEOREM RegistryInvariance == ReflectionSpec => []RegistryInv
<1>1. RegistryInv /\ [ReflectionNext]_<<vars, reflection>> => RegistryInv'
  <2> SUFFICES ASSUME RegistryInv, [ReflectionNext]_<<vars, reflection>>
               PROVE  RegistryInv'
    OBVIOUS
  <2>1. CASE Next /\ UNCHANGED reflection
    BY <2>1, RegistryTable
  <2>2. CASE UNCHANGED <<vars, reflection>>
    BY <2>2, RegistryTable
  <2>3. CASE Register /\ UNCHANGED vars
    <3>1. ASSUME NEW c \in Class, RegisterTypeMetadata(c) PROVE RegistryInv'
      BY <2>3, <3>1, RegistryMetadata
    <3>2. ASSUME NEW c \in Class, RegisterTypeField(c) PROVE RegistryInv'
      BY <2>3, <3>2, RegistryField
    <3>3. ASSUME NEW c \in Class, RegisterTypeMethod(c) PROVE RegistryInv'
      BY <2>3, <3>3, RegistryMethod
    <3>4. ASSUME NEW c \in Class, NEW a \in Attr, RegisterTypeAttr(c, a) PROVE RegistryInv'
      BY <2>3, <3>4, RegistryAttr
    <3>5. ASSUME NEW a \in Attr, EnsureTypeAttrColumn(a) PROVE RegistryInv'
      BY <2>3, <3>5, RegistryEnsure
    <3> QED BY <2>3, <3>1, <3>2, <3>3, <3>4, <3>5 DEF Register
  <2> QED BY <2>1, <2>2, <2>3 DEF ReflectionNext
<1> QED BY <1>1, RegistryInit, PTL DEF ReflectionSpec

\* The first of the items whose name matches is the item itself, unless the
\* name is hidden.
LEMMA FirstMatchFinds ==
  ASSUME NEW infos, NEW S, infos \in Seq(S),
         \A x \in S : NameMatches(x.name, x.name),
         NEW i \in DOMAIN infos, ~Hidden(infos, i)
  PROVE  FirstMatch(infos, infos[i].name) = Value(infos[i])
<1> DEFINE hits == {k \in DOMAIN infos : NameMatches(infos[k].name, infos[i].name)}
<1>1. DOMAIN infos = 1 .. Len(infos) /\ Len(infos) \in Nat /\ infos[i] \in S
  OBVIOUS
<1>2. i \in hits
  BY <1>1
<1>3. \A j \in hits : i <= j
  <2> SUFFICES ASSUME NEW j \in hits, ~(i <= j) PROVE FALSE
    OBVIOUS
  <2>1. j \in 1 .. i - 1
    BY <1>1
  <2> QED BY <2>1 DEF Hidden
<1>4. \A k \in hits : (\A j \in hits : k <= j) => k = i
  BY <1>1, <1>2, <1>3
<1>5. (CHOOSE k \in hits : \A j \in hits : k <= j) = i
  <2> HIDE DEF hits
  <2> QED BY <1>2, <1>3, <1>4
<1>6. FirstMatch(infos, infos[i].name) =
        IF hits = {} THEN Throws ELSE Value(infos[CHOOSE k \in hits : \A j \in hits : k <= j])
  BY DEF FirstMatch
<1> HIDE DEF hits
<1> QED BY <1>2, <1>5, <1>6

LEMMA ReadsBackFromInv == RegistryInv => ReflectionReadsBack
<1> SUFFICES ASSUME RegistryInv, NEW k \in Keys
             PROVE  /\ \A i \in DOMAIN fields[k].items :
                         ~Hidden(fields[k].items, i) =>
                           GetFieldInfo(k, fields[k].items[i].name) =
                             Value(fields[k].items[i])
                    /\ \A i \in DOMAIN methods[k].items :
                         ~Hidden(methods[k].items, i) =>
                           GetMethodInfo(k, methods[k].items[i].name) =
                             Value(methods[k].items[i])
                    /\ \A a \in Attr :
                         columns[a] # Unset =>
                           TypeAttr(a, key2index[k]) =
                             Value(IF a \in defined[k] THEN AttrsOf[metadata[k]][a] ELSE None)
  BY DEF ReflectionReadsBack, Finds
<1>1. k \in TypeKey /\ key2index[k] \in Nat
  BY KeyIndices DEF RegistryInv
<1>2. /\ fields[k] \in [items : Seq(FieldInfo), block : Nat]
      /\ methods[k] \in [items : Seq(MethodInfo), block : Nat]
      /\ info[k].fields = Publish(fields[k]) /\ info[k].methods = Publish(methods[k])
  BY <1>1 DEF RegistryInv, RegistryTypeOK, VectorsPublished
<1>3. FieldInfos(k) = fields[k].items /\ MethodInfos(k) = methods[k].items
  BY <1>2, ReadPublished DEF FieldInfos, MethodInfos
<1>4. /\ \A x \in FieldInfo : NameMatches(x.name, x.name)
      /\ \A x \in MethodInfo : NameMatches(x.name, x.name)
  BY RegistryAssumption
<1>5. fields[k].items \in Seq(FieldInfo) /\ methods[k].items \in Seq(MethodInfo)
  BY <1>2
<1>6. ASSUME NEW i \in DOMAIN fields[k].items, ~Hidden(fields[k].items, i)
      PROVE  GetFieldInfo(k, fields[k].items[i].name) = Value(fields[k].items[i])
  BY <1>3, <1>4, <1>5, <1>6, FirstMatchFinds DEF GetFieldInfo
<1>7. ASSUME NEW i \in DOMAIN methods[k].items, ~Hidden(methods[k].items, i)
      PROVE  GetMethodInfo(k, methods[k].items[i].name) = Value(methods[k].items[i])
  BY <1>3, <1>4, <1>5, <1>7, FirstMatchFinds DEF GetMethodInfo
<1>8. ASSUME NEW a \in Attr, columns[a] # Unset
      PROVE  TypeAttr(a, key2index[k]) =
               Value(IF a \in defined[k] THEN AttrsOf[metadata[k]][a] ELSE None)
  <2>0. PICK t : t = key2index[k]
    OBVIOUS
  <2>1. ColumnConsistent(a) /\ columns[a].size \in Nat
    BY <1>8 DEF RegistryInv, RegistryTypeOK, ColumnsConsistent, AttrColumn
  <2>2. CASE a \in defined[k]
    <3>1. /\ columns[a].data = columns[a].block /\ t < columns[a].size
          /\ columns[a].cells[t + 1] = AttrsOf[metadata[k]][a]
      BY <2>0, <2>1, <2>2 DEF ColumnConsistent
    <3>2. ~(t >= columns[a].size)
      BY <1>1, <2>0, <2>1, <3>1
    <3> QED BY <1>8, <2>0, <2>2, <3>1, <3>2 DEF TypeAttr
  <2>3. CASE a \notin defined[k] /\ t >= columns[a].size
    BY <1>8, <2>0, <2>3 DEF TypeAttr
  <2>4. CASE a \notin defined[k] /\ ~(t >= columns[a].size)
    <3>1. t + 1 \in 1 .. columns[a].size
      BY <1>1, <2>0, <2>1, <2>4
    <3>2. columns[a].cells[t + 1] = None
      <4> SUFFICES ASSUME columns[a].cells[t + 1] # None PROVE FALSE
        OBVIOUS
      <4>1. PICK l \in Keys : key2index[l] = (t + 1) - 1 /\ a \in defined[l]
        BY <2>1, <3>1 DEF ColumnConsistent
      <4>2. key2index[l] = key2index[k]
        BY <1>1, <2>0, <4>1
      <4>3. l = k
        BY <4>2, KeyIndices DEF RegistryInv
      <4> QED BY <2>4, <4>1, <4>3
    <3>3. columns[a].data = columns[a].block
      BY <2>1 DEF ColumnConsistent
    <3> QED BY <1>8, <2>0, <2>4, <3>2, <3>3 DEF TypeAttr
  <2> QED BY <2>2, <2>3, <2>4
<1> QED BY <1>6, <1>7, <1>8

\* A reader finds every field and every method of a type that no earlier name
\* hides, and at the index of the type the attribute it has defined, however the
\* vectors moved and whatever other classes registered since.
THEOREM ReadersFindWhatWasRegistered == ReflectionSpec => []ReflectionReadsBack
BY RegistryInvariance, ReadsBackFromInv, PTL

-----------------------------------------------------------------------------
(* The creator of objects: ForEachFieldInfo finds every field of a class    *)
(* and of the classes above, each once, and the creator sets them.          *)

\* The type of a key: how many types are above it, and their keys.
DepthOf(k) == table[key2index[k]].depth
KeyAbove(k, i) == table[table[key2index[k]].ancestors[i]].key

\* The recursive function of ForEachFieldInfo exists, as far as one likes.
IsCollection(above, k, n) ==
  above = [i \in 0 .. n |->
             IF i <= 1 THEN <<>> ELSE above[i - 1] \o FieldInfos(KeyAbove(k, i - 1))]

LEMMA CollectionExists ==
  ASSUME NEW k
  PROVE  \A n \in Nat : \E above : IsCollection(above, k, n)
<1> DEFINE Next1(i, before) == before \o FieldInfos(KeyAbove(k, i - 1))
           Is(above, n) ==
             above = [i \in 0 .. n |-> IF i <= 1 THEN <<>> ELSE Next1(i, above[i - 1])]
           P == {n \in Nat : \E above : Is(above, n)}
<1>1. 0 \in P
  <2> HIDE DEF Next1
  <2> DEFINE f == [i \in 0 .. 0 |-> <<>>]
  <2>1. f = [i \in 0 .. 0 |-> IF i <= 1 THEN <<>> ELSE Next1(i, f[i - 1])]
    OBVIOUS
  <2> QED BY <2>1
<1>2. ASSUME NEW n \in Nat, n \in P PROVE n + 1 \in P
  <2> HIDE DEF Next1
  <2>1. PICK g : Is(g, n)
    BY <1>2
  <2> DEFINE f == [i \in 0 .. n + 1 |->
                     IF i <= n THEN g[i] ELSE IF i <= 1 THEN <<>> ELSE Next1(i, g[n])]
  <2>2. \A i \in 0 .. n : f[i] = g[i]
    OBVIOUS
  <2>3. \A i \in 0 .. n + 1 : f[i] = IF i <= 1 THEN <<>> ELSE Next1(i, f[i - 1])
    <3> TAKE i \in 0 .. n + 1
    <3>1. CASE i = n + 1
      <4>1. i - 1 = n /\ n \in 0 .. n /\ ~(i <= n)
        BY <3>1
      <4> QED BY <2>2, <4>1
    <3>2. CASE i # n + 1 /\ i <= 1
      BY <2>1, <2>2, <3>2
    <3>3. CASE i # n + 1 /\ ~(i <= 1)
      <4>1. i \in 0 .. n /\ i - 1 \in 0 .. n
        BY <3>3
      <4>2. g[i] = Next1(i, g[i - 1])
        BY <2>1, <3>3, <4>1
      <4> QED BY <2>2, <3>3, <4>1, <4>2
    <3> QED BY <3>1, <3>2, <3>3
  <2>4. Is(f, n + 1)
    BY <2>3
  <2>5. \E above : Is(above, n + 1)
    BY <2>4
  <2> QED BY <2>5
<1>3. \A n \in Nat : n \in P
  <2> HIDE DEF P
  <2> QED BY <1>1, <1>2, NextNumber
<1> QED BY <1>3 DEF IsCollection

Above(k) == CHOOSE above : IsCollection(above, k, DepthOf(k))

LEMMA AboveSteps ==
  ASSUME NEW k, DepthOf(k) \in Nat
  PROVE  /\ ForEachFieldInfo(k) = Above(k)[DepthOf(k)] \o FieldInfos(k)
         /\ \A i \in 0 .. DepthOf(k) :
              Above(k)[i] = IF i <= 1 THEN <<>>
                            ELSE Above(k)[i - 1] \o FieldInfos(KeyAbove(k, i - 1))
<1>1. ForEachFieldInfo(k) = Above(k)[DepthOf(k)] \o FieldInfos(k)
  BY DEF ForEachFieldInfo, Above, IsCollection, KeyAbove, DepthOf
<1>2. IsCollection(Above(k), k, DepthOf(k))
  <2>1. \E above : IsCollection(above, k, DepthOf(k))
    BY CollectionExists
  <2> QED BY <2>1 DEF Above
<1> HIDE DEF Above
<1> DEFINE ab == Above(k)
<1>3. ab = [i \in 0 .. DepthOf(k) |->
              IF i <= 1 THEN <<>> ELSE ab[i - 1] \o FieldInfos(KeyAbove(k, i - 1))]
  BY <1>2 DEF IsCollection
<1> HIDE DEF ab
<1>4. ASSUME NEW i \in 0 .. DepthOf(k)
      PROVE  ab[i] = IF i <= 1 THEN <<>>
                     ELSE ab[i - 1] \o FieldInfos(KeyAbove(k, i - 1))
  BY <1>3
<1> QED BY <1>1, <1>4 DEF ab

\* A sequence of the fields of some types, each at one place.
Items(k) == fields[k].items

SeparateNames(C) ==
  \A k \in C, l \in C : \A i \in DOMAIN Items(k), j \in DOMAIN Items(l) :
    Items(k)[i].name = Items(l)[j].name => k = l /\ i = j

NoNameTwice(s) == \A i \in DOMAIN s, j \in DOMAIN s : s[i].name = s[j].name => i = j

Collects(s, C) ==
  /\ s \in Seq(FieldInfo)
  /\ \A i \in DOMAIN s : \E k \in C : \E j \in DOMAIN Items(k) : s[i] = Items(k)[j]
  /\ \A k \in C : \A j \in DOMAIN Items(k) : \E i \in DOMAIN s : s[i] = Items(k)[j]
  /\ SeparateNames(C) => NoNameTwice(s)

LEMMA CollectsNothing == Collects(<<>>, {})
<1>1. <<>> \in Seq(FieldInfo) /\ DOMAIN <<>> = {}
  OBVIOUS
<1> QED BY <1>1 DEF Collects, NoNameTwice

LEMMA CollectsMore ==
  ASSUME NEW s, NEW C, NEW k, k \notin C, Collects(s, C), Items(k) \in Seq(FieldInfo)
  PROVE  Collects(s \o Items(k), C \union {k})
<1> DEFINE t == Items(k)
           r == s \o t
           D == C \union {k}
<1>1. s \in Seq(FieldInfo) /\ t \in Seq(FieldInfo)
  BY DEF Collects
<1> HIDE DEF t
<1>2. /\ Len(s) \in Nat /\ DOMAIN s = 1 .. Len(s) /\ Len(t) \in Nat /\ DOMAIN t = 1 .. Len(t)
      /\ r \in Seq(FieldInfo) /\ DOMAIN r = 1 .. Len(s) + Len(t)
      /\ \A i \in 1 .. Len(s) : r[i] = s[i]
      /\ \A i \in Len(s) + 1 .. Len(s) + Len(t) : r[i] = t[i - Len(s)]
      /\ \A i \in 1 .. Len(t) : r[Len(s) + i] = t[i]
  BY <1>1
<1> HIDE DEF r
<1>3. ASSUME NEW i \in DOMAIN r
      PROVE  \E l \in D : \E j \in DOMAIN Items(l) : r[i] = Items(l)[j]
  <2>1. CASE i \in 1 .. Len(s)
    <3>1. \E l \in C : \E j \in DOMAIN Items(l) : s[i] = Items(l)[j]
      BY <1>2, <2>1 DEF Collects
    <3> QED BY <1>2, <2>1, <3>1
  <2>2. CASE i \notin 1 .. Len(s)
    <3>1. i \in Len(s) + 1 .. Len(s) + Len(t) /\ i - Len(s) \in DOMAIN t
      BY <1>2, <2>2
    <3> QED BY <1>2, <3>1 DEF t
  <2> QED BY <2>1, <2>2
<1>4. ASSUME NEW l \in D, NEW j \in DOMAIN Items(l)
      PROVE  \E i \in DOMAIN r : r[i] = Items(l)[j]
  <2>1. CASE l \in C
    <3>1. PICK i \in DOMAIN s : s[i] = Items(l)[j]
      BY <2>1 DEF Collects
    <3> QED BY <1>2, <3>1
  <2>2. CASE l \notin C
    <3>1. l = k /\ j \in 1 .. Len(t)
      BY <1>2, <2>2 DEF t
    <3>2. Len(s) + j \in DOMAIN r /\ r[Len(s) + j] = t[j]
      BY <1>2, <3>1
    <3> QED BY <3>1, <3>2 DEF t
  <2> QED BY <2>1, <2>2
<1>5. ASSUME SeparateNames(D) PROVE NoNameTwice(r)
  <2>1. SeparateNames(C)
    BY <1>5 DEF SeparateNames
  <2>2. NoNameTwice(s)
    BY <2>1 DEF Collects
  <2>3. ASSUME NEW i \in 1 .. Len(s), NEW j \in Len(s) + 1 .. Len(s) + Len(t)
        PROVE  r[i].name # r[j].name
    <3>1. r[i] = s[i] /\ r[j] = t[j - Len(s)] /\ j - Len(s) \in DOMAIN t /\ i \in DOMAIN s
      BY <1>2
    <3>2. PICK l \in C : \E m \in DOMAIN Items(l) : s[i] = Items(l)[m]
      BY <3>1 DEF Collects
    <3>3. PICK m \in DOMAIN Items(l) : s[i] = Items(l)[m]
      BY <3>2
    <3>4. l \in D /\ k \in D /\ l # k
      OBVIOUS
    <3> QED BY <1>5, <3>1, <3>3, <3>4 DEF SeparateNames, t
  <2>4. ASSUME NEW i \in Len(s) + 1 .. Len(s) + Len(t), NEW j \in Len(s) + 1 .. Len(s) + Len(t),
               r[i].name = r[j].name
        PROVE  i = j
    <3>1. /\ r[i] = t[i - Len(s)] /\ i - Len(s) \in DOMAIN t
          /\ r[j] = t[j - Len(s)] /\ j - Len(s) \in DOMAIN t
      BY <1>2
    <3>2. i - Len(s) = j - Len(s)
      BY <1>5, <2>4, <3>1 DEF SeparateNames, t
    <3> QED BY <1>2, <3>2
  <2>5. ASSUME NEW i \in 1 .. Len(s), NEW j \in 1 .. Len(s), r[i].name = r[j].name
        PROVE  i = j
    <3>1. r[i] = s[i] /\ r[j] = s[j] /\ i \in DOMAIN s /\ j \in DOMAIN s
      BY <1>2
    <3> QED BY <2>2, <2>5, <3>1 DEF NoNameTwice
  <2>6. ASSUME NEW i \in DOMAIN r, NEW j \in DOMAIN r, r[i].name = r[j].name
        PROVE  i = j
    <3>1. /\ i \in 1 .. Len(s) \/ i \in Len(s) + 1 .. Len(s) + Len(t)
          /\ j \in 1 .. Len(s) \/ j \in Len(s) + 1 .. Len(s) + Len(t)
      BY <1>2
    <3> QED BY <2>3, <2>4, <2>5, <2>6, <3>1
  <2> QED BY <2>6 DEF NoNameTwice
<1> QED BY <1>2, <1>3, <1>4, <1>5 DEF Collects, r, t

LEMMA ItemsFacts ==
  ASSUME RegistryInv, NEW k \in TypeKey
  PROVE  Items(k) \in Seq(FieldInfo) /\ FieldInfos(k) = Items(k)
<1>1. fields[k] \in [items : Seq(FieldInfo), block : Nat] /\ info[k].fields = Publish(fields[k])
  BY DEF RegistryInv, RegistryTypeOK, VectorsPublished
<1> QED BY <1>1, ReadPublished DEF FieldInfos, Items

LEMMA RootHasNoFields ==
  ASSUME RegistryInv
  PROVE  DOMAIN Items(Key(Root)) = {}
<1> DEFINE h == Key(Root)
<1>1. Root \in Class /\ h \in TypeKey /\ TInv
  BY TypeTableAssumption, DeclFacts DEF RegistryInv
<1>2. CASE metadata[h] = Unset
  <2>1. Items(h) = <<>>
    BY <1>1, <1>2 DEF RegistryInv, MetadataConsistent, Items, NoItems
  <2> QED BY <2>1
<1>3. CASE metadata[h] # Unset
  <2>1. metadata[h] \in Registered /\ Key(metadata[h]) = h
    BY <1>1, <1>3 DEF RegistryInv, MetadataConsistent
  <2>2. metadata[h] = Root
    BY <1>1, <2>1, DeclFacts DEF Registered
  <2>3. Begins(fields[h].items, FieldsOf[metadata[h]])
    BY <1>1, <1>3 DEF RegistryInv, VectorsPublished
  <2>4. Len(Items(h)) <= Len(<<>>)
    BY <2>2, <2>3, CreatorAssumption DEF Begins, Items
  <2>5. Items(h) \in Seq(FieldInfo)
    BY <1>1, ItemsFacts
  <2>6. PICK s : s = Items(h)
    OBVIOUS
  <2>7. s \in Seq(FieldInfo) /\ Len(s) <= 0
    BY <2>4, <2>5, <2>6
  <2>8. DOMAIN s = {}
    BY <2>7
  <2> QED BY <2>6, <2>8
<1> QED BY <1>2, <1>3

\* The keys above a type, each with its own place.
LEMMA KeyAboveFacts ==
  ASSUME TInv, NEW k \in Keys
  PROVE  /\ DepthOf(k) \in Nat
         /\ \A i \in 0 .. DepthOf(k) - 1 :
              KeyAbove(k, i) \in Keys /\ DepthOf(KeyAbove(k, i)) = i
         /\ DepthOf(k) # 0 => KeyAbove(k, 0) = Key(Root)
<1>i. PICK t : t = key2index[k]
  OBVIOUS
<1>1. t \in Types /\ DepthOf(k) = table[t].depth
  BY <1>i DEF TInv, IndicesConsistent, DepthOf
<1>2. DepthOf(k) \in Nat
  BY <1>1, EntryFacts
<1>3. ASSUME NEW i \in 0 .. DepthOf(k) - 1
      PROVE  KeyAbove(k, i) \in Keys /\ DepthOf(KeyAbove(k, i)) = i
  <2>1. PICK a : a = table[t].ancestors[i]
    OBVIOUS
  <2>2. a \in Types /\ table[a].depth = i
    BY <1>1, <2>1, AncestorFacts
  <2>3. KeyAbove(k, i) = table[a].key
    BY <1>i, <2>1 DEF KeyAbove
  <2> QED BY <2>2, <2>3, KeyFacts DEF DepthOf
<1>4. ASSUME DepthOf(k) # 0 PROVE KeyAbove(k, 0) = Key(Root)
  <2>1. table[t].ancestors[0] = RootIndex
    BY <1>1, <1>4, TopIsRoot
  <2> QED BY <1>i, <2>1 DEF KeyAbove, TInv, EntriesConsistent
<1> QED BY <1>2, <1>3, <1>4

\* The keys of the lineage of a class are those above its type, and its own.
LEMMA LineageAbove ==
  ASSUME TInv, NEW c \in Sound, NEW k, k = Key(c)
  PROVE  /\ k \in Keys
         /\ LineageKeys(c) = {KeyAbove(k, i) : i \in 0 .. DepthOf(k) - 1} \union {k}
<1>i. PICK t : t = index[c]
  OBVIOUS
<1>1. k \in Keys /\ t = key2index[k] /\ table[t].key = k
  BY <1>i, ClassFacts DEF Sound
<1>2. LineageKeys(c) = {table[a].key : a \in Ancestors(t) \union {t}}
  BY <1>i, LineageFacts
<1> DEFINE I == 0 .. table[t].depth - 1
           anc == table[t].ancestors
<1>3. {table[a].key : a \in {anc[j] : j \in I} \union {t}} =
        {table[anc[j]].key : j \in I} \union {table[t].key}
  <2> HIDE DEF I, anc
  <2> QED OBVIOUS
<1>4. {table[anc[j]].key : j \in I} = {KeyAbove(k, i) : i \in 0 .. DepthOf(k) - 1}
  BY <1>1 DEF KeyAbove, DepthOf
<1>5. Ancestors(t) = {anc[j] : j \in I}
  BY DEF Ancestors
<1> HIDE DEF I, anc
<1> QED BY <1>1, <1>2, <1>3, <1>4, <1>5

Uppermost(k, i) == {KeyAbove(k, j) : j \in 1 .. i - 1}

LEMMA FieldsOfLineage ==
  ASSUME RegistryInv, NEW c \in Sound, NEW k, k = Key(c)
  PROVE  \E C \in SUBSET LineageKeys(c) :
           LineageKeys(c) \subseteq C \union {Key(Root)} /\ Collects(ForEachFieldInfo(k), C)
<1> DEFINE d == DepthOf(k)
           anc(i) == KeyAbove(k, i)
           ab == Above(k)
           P == {i \in Nat : i <= d => Collects(ab[i], Uppermost(k, i))}
<1>0. TInv /\ c \in Registered
  BY DEF RegistryInv, Sound
<1>1. /\ k \in Keys /\ k \in TypeKey
      /\ LineageKeys(c) = {anc(i) : i \in 0 .. d - 1} \union {k}
  BY <1>0, LineageAbove DEF Keys
<1>2. d \in Nat /\ (d # 0 => anc(0) = Key(Root))
  BY <1>0, <1>1, KeyAboveFacts
<1>3. /\ ForEachFieldInfo(k) = ab[d] \o FieldInfos(k)
      /\ \A i \in 0 .. d : ab[i] = IF i <= 1 THEN <<>> ELSE ab[i - 1] \o FieldInfos(anc(i - 1))
  BY <1>2, AboveSteps
<1> HIDE DEF ab
<1>4. ASSUME NEW i \in 0 .. d - 1
      PROVE  anc(i) \in TypeKey /\ DepthOf(anc(i)) = i
  BY <1>0, <1>1, KeyAboveFacts DEF Keys
<1> HIDE DEF d
<1>5. 0 \in P
  <2>1. ab[0] = <<>> /\ Uppermost(k, 0) = {}
    BY <1>2, <1>3 DEF Uppermost
  <2> QED BY <2>1, CollectsNothing
<1>6. ASSUME NEW i \in Nat, i \in P PROVE i + 1 \in P
  <2> SUFFICES ASSUME i + 1 <= d PROVE Collects(ab[i + 1], Uppermost(k, i + 1))
    OBVIOUS
  <2>1. CASE i = 0
    <3>1. ab[1] = <<>> /\ Uppermost(k, 1) = {}
      BY <1>2, <1>3, <2>1 DEF Uppermost
    <3>2. i + 1 = 1
      BY <2>1
    <3> QED BY <3>1, <3>2, CollectsNothing
  <2>2. CASE i # 0
    <3>1. i \in 0 .. d - 1 /\ i + 1 \in 0 .. d /\ ~(i + 1 <= 1) /\ (i + 1) - 1 = i
      BY <1>2, <2>2
    <3>2. ab[i + 1] = ab[i] \o FieldInfos(anc(i))
      BY <1>3, <3>1
    <3>3. Uppermost(k, i + 1) = Uppermost(k, i) \union {anc(i)}
      <4>1. 1 .. (i + 1) - 1 = (1 .. i - 1) \union {i}
        BY <2>2
      <4>2. {anc(j) : j \in (1 .. i - 1) \union {i}} = {anc(j) : j \in 1 .. i - 1} \union {anc(i)}
        OBVIOUS
      <4> QED BY <4>1, <4>2 DEF Uppermost
    <3>4. anc(i) \notin Uppermost(k, i)
      <4> SUFFICES ASSUME NEW j \in 1 .. i - 1, anc(j) = anc(i) PROVE FALSE
        BY DEF Uppermost
      <4>1. j \in 0 .. d - 1 /\ j # i
        BY <1>2, <3>1
      <4> QED BY <1>4, <3>1, <4>1
    <3>5. Collects(ab[i], Uppermost(k, i))
      BY <1>2, <1>6, <3>1
    <3>6. Items(anc(i)) \in Seq(FieldInfo) /\ FieldInfos(anc(i)) = Items(anc(i))
      BY <1>4, <3>1, ItemsFacts
    <3> QED BY <3>2, <3>3, <3>4, <3>5, <3>6, CollectsMore
  <2> QED BY <2>1, <2>2
<1>7. Collects(ab[d], Uppermost(k, d))
  <2>1. \A i \in Nat : i \in P
    <3> HIDE DEF P
    <3> QED BY <1>5, <1>6, NextNumber
  <2> QED BY <1>2, <2>1
<1>8. k \notin Uppermost(k, d)
  <2> SUFFICES ASSUME NEW j \in 1 .. d - 1, anc(j) = k PROVE FALSE
    BY DEF Uppermost
  <2>1. j \in 0 .. d - 1 /\ j # d
    BY <1>2
  <2>2. DepthOf(k) = j
    BY <1>4, <2>1
  <2> QED BY <2>1, <2>2 DEF d
<1>9. Items(k) \in Seq(FieldInfo) /\ FieldInfos(k) = Items(k)
  BY <1>1, ItemsFacts
<1>10. Collects(ForEachFieldInfo(k), Uppermost(k, d) \union {k})
  BY <1>3, <1>7, <1>8, <1>9, CollectsMore
<1>11. Uppermost(k, d) \subseteq {anc(i) : i \in 0 .. d - 1}
  BY <1>2 DEF Uppermost
<1>12. {anc(i) : i \in 0 .. d - 1} \subseteq Uppermost(k, d) \union {Key(Root)}
  <2> SUFFICES ASSUME NEW i \in 0 .. d - 1, anc(i) # Key(Root) PROVE i \in 1 .. d - 1
    BY DEF Uppermost
  <2> QED BY <1>2
<1> QED BY <1>1, <1>10, <1>11, <1>12

\* Every field of the lineage is visited, and none twice.
LEMMA EachField ==
  ASSUME RegistryInv, NEW c \in Sound, NEW h, h = Key(c)
  PROVE  /\ ForEachFieldInfo(h) \in Seq(FieldInfo)
         /\ {FieldAt(p) : p \in Places(c)} =
              {ForEachFieldInfo(h)[i] : i \in DOMAIN ForEachFieldInfo(h)}
         /\ NamesDiffer(c) => NoNameTwice(ForEachFieldInfo(h))
<1>1. PICK C \in SUBSET LineageKeys(c) :
        LineageKeys(c) \subseteq C \union {Key(Root)} /\ Collects(ForEachFieldInfo(h), C)
  BY FieldsOfLineage
<1>2. DOMAIN Items(Key(Root)) = {}
  BY RootHasNoFields
<1> DEFINE s == ForEachFieldInfo(h)
<1> HIDE DEF s
<1>3. Collects(s, C)
  BY <1>1 DEF s
<1>4. ASSUME NEW p \in Places(c)
      PROVE  /\ p[1] \in C /\ p[2] \in DOMAIN Items(p[1]) /\ FieldAt(p) = Items(p[1])[p[2]]
  <2>1. PICK k \in LineageKeys(c) : p \in {k} \X DOMAIN fields[k].items
    BY DEF Places
  <2>2. p[1] = k /\ p[2] \in DOMAIN Items(k) /\ FieldAt(p) = Items(k)[p[2]]
    BY <2>1 DEF Items, FieldAt
  <2>3. k # Key(Root)
    BY <1>2, <2>2
  <2> QED BY <1>1, <2>2, <2>3
<1>5. ASSUME NEW k \in C, NEW j \in DOMAIN Items(k)
      PROVE  /\ <<k, j>> \in Places(c) /\ FieldAt(<<k, j>>) = Items(k)[j]
             /\ <<k, j>>[1] = k /\ <<k, j>>[2] = j
  <2>1. k \in LineageKeys(c)
    BY <1>1
  <2>2. <<k, j>> \in {k} \X DOMAIN fields[k].items
    BY DEF Items
  <2> QED BY <2>1, <2>2 DEF Places, Items, FieldAt
<1>6. {FieldAt(p) : p \in Places(c)} \subseteq {s[i] : i \in DOMAIN s}
  <2> SUFFICES ASSUME NEW p \in Places(c) PROVE \E i \in DOMAIN s : s[i] = FieldAt(p)
    OBVIOUS
  <2> QED BY <1>3, <1>4 DEF Collects
<1>7. {s[i] : i \in DOMAIN s} \subseteq {FieldAt(p) : p \in Places(c)}
  <2> SUFFICES ASSUME NEW i \in DOMAIN s PROVE \E p \in Places(c) : s[i] = FieldAt(p)
    OBVIOUS
  <2>1. PICK k \in C : \E j \in DOMAIN Items(k) : s[i] = Items(k)[j]
    BY <1>3 DEF Collects
  <2>2. PICK j \in DOMAIN Items(k) : s[i] = Items(k)[j]
    BY <2>1
  <2>3. <<k, j>> \in Places(c) /\ FieldAt(<<k, j>>) = s[i]
    BY <1>5, <2>2
  <2> QED BY <2>3
<1>8. ASSUME NamesDiffer(c) PROVE NoNameTwice(s)
  <2>1. SeparateNames(C)
    <3> SUFFICES ASSUME NEW k \in C, NEW l \in C,
                        NEW i \in DOMAIN Items(k), NEW j \in DOMAIN Items(l),
                        Items(k)[i].name = Items(l)[j].name
                 PROVE  k = l /\ i = j
      BY DEF SeparateNames
    <3>1. /\ <<k, i>> \in Places(c) /\ FieldAt(<<k, i>>) = Items(k)[i]
          /\ <<l, j>> \in Places(c) /\ FieldAt(<<l, j>>) = Items(l)[j]
      BY <1>5
    <3>2. <<k, i>> = <<l, j>>
      BY <1>8, <3>1 DEF NamesDiffer
    <3> QED BY <3>2
  <2> QED BY <1>3, <2>1 DEF Collects
<1>9. s \in Seq(FieldInfo)
  BY <1>3 DEF Collects
<1> QED BY <1>6, <1>7, <1>8, <1>9 DEF s

-----------------------------------------------------------------------------
(* The object that the setters fill.                                        *)

IsFilling(object, infos, given, n) ==
  object = [i \in 0 .. n |->
              IF i = 0 THEN Created(infos)
              ELSE Assigned(object[i - 1], infos[i], Source(infos[i], given))]

LEMMA FillingExists ==
  ASSUME NEW infos, NEW given
  PROVE  \A n \in Nat : \E object : IsFilling(object, infos, given, n)
<1> DEFINE Next1(i, before) == Assigned(before, infos[i], Source(infos[i], given))
           Is(object, n) ==
             object = [i \in 0 .. n |-> IF i = 0 THEN Created(infos) ELSE Next1(i, object[i - 1])]
           P == {n \in Nat : \E object : Is(object, n)}
<1>1. 0 \in P
  <2> HIDE DEF Next1
  <2> DEFINE f == [i \in 0 .. 0 |-> Created(infos)]
  <2>1. f = [i \in 0 .. 0 |-> IF i = 0 THEN Created(infos) ELSE Next1(i, f[i - 1])]
    OBVIOUS
  <2> QED BY <2>1
<1>2. ASSUME NEW n \in Nat, n \in P PROVE n + 1 \in P
  <2> HIDE DEF Next1
  <2>1. PICK g : Is(g, n)
    BY <1>2
  <2> DEFINE f == [i \in 0 .. n + 1 |-> IF i <= n THEN g[i] ELSE Next1(i, g[n])]
  <2>2. \A i \in 0 .. n : f[i] = g[i]
    OBVIOUS
  <2>3. \A i \in 0 .. n + 1 : f[i] = IF i = 0 THEN Created(infos) ELSE Next1(i, f[i - 1])
    <3> TAKE i \in 0 .. n + 1
    <3>1. CASE i = n + 1
      <4>1. i - 1 = n /\ n \in 0 .. n /\ ~(i <= n) /\ i # 0
        BY <3>1
      <4> QED BY <2>2, <4>1
    <3>2. CASE i # n + 1 /\ i = 0
      BY <2>1, <2>2, <3>2
    <3>3. CASE i # n + 1 /\ i # 0
      <4>1. i \in 0 .. n /\ i - 1 \in 0 .. n
        BY <3>3
      <4>2. g[i] = Next1(i, g[i - 1])
        BY <2>1, <3>3, <4>1
      <4> QED BY <2>2, <3>3, <4>1, <4>2
    <3> QED BY <3>1, <3>2, <3>3
  <2>4. Is(f, n + 1)
    BY <2>3
  <2>5. \E object : Is(object, n + 1)
    BY <2>4
  <2> QED BY <2>5
<1>3. \A n \in Nat : n \in P
  <2> HIDE DEF P
  <2> QED BY <1>1, <1>2, NextNumber
<1> QED BY <1>3 DEF IsFilling

Filling(infos, given) == CHOOSE object : IsFilling(object, infos, given, Len(infos))

LEMMA FillingSteps ==
  ASSUME NEW infos, NEW given, Len(infos) \in Nat
  PROVE  /\ Filled(infos, given) = Filling(infos, given)[Len(infos)]
         /\ Filling(infos, given)[0] = Created(infos)
         /\ \A i \in 1 .. Len(infos) :
              Filling(infos, given)[i] =
                Assigned(Filling(infos, given)[i - 1], infos[i], Source(infos[i], given))
<1>1. Filled(infos, given) = Filling(infos, given)[Len(infos)]
  BY DEF Filled, Filling, IsFilling
<1>2. IsFilling(Filling(infos, given), infos, given, Len(infos))
  <2>1. \E object : IsFilling(object, infos, given, Len(infos))
    BY FillingExists
  <2> QED BY <2>1 DEF Filling
<1> HIDE DEF Filling
<1> DEFINE o == Filling(infos, given)
<1>3. o = [i \in 0 .. Len(infos) |->
             IF i = 0 THEN Created(infos)
             ELSE Assigned(o[i - 1], infos[i], Source(infos[i], given))]
  BY <1>2 DEF IsFilling
<1> HIDE DEF o
<1>4. o[0] = Created(infos)
  BY <1>3
<1>5. ASSUME NEW i \in 1 .. Len(infos)
      PROVE  o[i] = Assigned(o[i - 1], infos[i], Source(infos[i], given))
  BY <1>3
<1> QED BY <1>1, <1>4, <1>5 DEF o

Names(infos) == {infos[i].name : i \in DOMAIN infos}

\* The first i fields are set, the others as the constructor made them.
SetSoFar(object, infos, given, i) ==
  /\ object = [n \in Names(infos) |-> object[n]]
  /\ \A j \in DOMAIN infos :
       object[infos[j].name] =
         IF j <= i THEN Stored(infos[j], given) ELSE infos[j].init

LEMMA NothingSet ==
  ASSUME NEW infos \in Seq(FieldInfo), NoNameTwice(infos), NEW given
  PROVE  SetSoFar(Created(infos), infos, given, 0)
<1>1. DOMAIN infos \subseteq Nat /\ \A j \in DOMAIN infos : ~(j <= 0)
  OBVIOUS
<1>2. Created(infos) =
        [n \in Names(infos) |-> infos[CHOOSE i \in DOMAIN infos : infos[i].name = n].init]
  BY DEF Created, Names
<1>3. Created(infos) = [n \in Names(infos) |-> Created(infos)[n]]
  BY <1>2
<1>4. ASSUME NEW j \in DOMAIN infos PROVE Created(infos)[infos[j].name] = infos[j].init
  <2>1. infos[j].name \in Names(infos)
    BY DEF Names
  <2>2. (CHOOSE i \in DOMAIN infos : infos[i].name = infos[j].name) = j
    BY DEF NoNameTwice
  <2> QED BY <1>2, <2>1, <2>2
<1> QED BY <1>1, <1>3, <1>4 DEF SetSoFar

LEMMA OneMoreSet ==
  ASSUME NEW infos \in Seq(FieldInfo), NoNameTwice(infos), NEW given, NEW object,
         NEW i \in DOMAIN infos, SetSoFar(object, infos, given, i - 1)
  PROVE  SetSoFar(Assigned(object, infos[i], Source(infos[i], given)), infos, given, i)
<1> DEFINE f == infos[i]
           set == setter[f][Source(f, given)]
           after == Assigned(object, f, Source(f, given))
<1>0. i \in Nat /\ DOMAIN infos \subseteq Nat
  OBVIOUS
<1>1. object = [n \in Names(infos) |-> object[n]] /\ f.name \in Names(infos)
  BY DEF SetSoFar, Names
<1>2. after = IF Ok(set) THEN [object EXCEPT ![f.name] = set.value] ELSE object
  BY DEF Assigned
<1>3. Stored(f, given) = IF Ok(set) THEN set.value ELSE f.init
  BY DEF Stored
<1>4. object[f.name] = f.init
  BY <1>0 DEF SetSoFar
<1> HIDE DEF set
<1>5. /\ after = [n \in Names(infos) |-> after[n]]
      /\ after[f.name] = Stored(f, given)
      /\ \A n \in Names(infos) : n # f.name => after[n] = object[n]
  <2>1. CASE Ok(set)
    <3>1. after = [object EXCEPT ![f.name] = set.value]
      BY <1>2, <2>1
    <3>2. DOMAIN object = Names(infos)
      BY <1>1
    <3> HIDE DEF after
    <3>3. after[f.name] = set.value
      BY <1>1, <3>1, <3>2
    <3>4. \A n \in Names(infos) : n # f.name => after[n] = object[n]
      BY <3>1, <3>2
    <3>5. after = [n \in Names(infos) |-> after[n]]
      BY <3>1, <3>2
    <3> QED BY <1>3, <2>1, <3>3, <3>4, <3>5
  <2>2. CASE ~Ok(set)
    <3>1. after = object
      BY <1>2, <2>2
    <3> HIDE DEF after
    <3> QED BY <1>1, <1>3, <1>4, <2>2, <3>1
  <2> QED BY <2>1, <2>2
<1> HIDE DEF after
<1>6. ASSUME NEW j \in DOMAIN infos
      PROVE  after[infos[j].name] = IF j <= i THEN Stored(infos[j], given) ELSE infos[j].init
  <2>1. CASE j = i
    BY <1>0, <1>5, <2>1
  <2>2. CASE j # i
    <3>1. infos[j].name # f.name /\ infos[j].name \in Names(infos)
      BY <2>2 DEF NoNameTwice, Names
    <3>2. object[infos[j].name] =
            IF j <= i - 1 THEN Stored(infos[j], given) ELSE infos[j].init
      BY DEF SetSoFar
    <3>3. j <= i - 1 <=> j <= i
      BY <1>0, <2>2
    <3> QED BY <1>5, <3>1, <3>2, <3>3
  <2> QED BY <2>1, <2>2
<1>7. SetSoFar(after, infos, given, i)
  BY <1>5, <1>6 DEF SetSoFar
<1> QED BY <1>7 DEF after

LEMMA FilledFacts ==
  ASSUME NEW infos \in Seq(FieldInfo), NoNameTwice(infos), NEW given
  PROVE  SetSoFar(Filled(infos, given), infos, given, Len(infos))
<1> DEFINE o == Filling(infos, given)
           P == {i \in Nat : i <= Len(infos) => SetSoFar(o[i], infos, given, i)}
<1>0. Len(infos) \in Nat /\ DOMAIN infos = 1 .. Len(infos)
  OBVIOUS
<1>1. /\ Filled(infos, given) = o[Len(infos)] /\ o[0] = Created(infos)
      /\ \A i \in 1 .. Len(infos) :
           o[i] = Assigned(o[i - 1], infos[i], Source(infos[i], given))
  BY <1>0, FillingSteps
<1> HIDE DEF o
<1>2. 0 \in P
  BY <1>1, NothingSet
<1>3. ASSUME NEW i \in Nat, i \in P PROVE i + 1 \in P
  <2> SUFFICES ASSUME i + 1 <= Len(infos) PROVE SetSoFar(o[i + 1], infos, given, i + 1)
    OBVIOUS
  <2>1. i + 1 \in 1 .. Len(infos) /\ (i + 1) - 1 = i
    BY <1>0
  <2>2. SetSoFar(o[(i + 1) - 1], infos, given, (i + 1) - 1)
    BY <1>0, <1>3, <2>1
  <2>3. o[i + 1] = Assigned(o[(i + 1) - 1], infos[i + 1], Source(infos[i + 1], given))
    BY <1>1, <2>1
  <2>4. i + 1 \in DOMAIN infos
    BY <1>0, <2>1
  <2>5. SetSoFar(Assigned(o[(i + 1) - 1], infos[i + 1], Source(infos[i + 1], given)),
                 infos, given, i + 1)
    BY <2>2, <2>4, OneMoreSet
  <2> QED BY <2>3, <2>5
<1>4. \A i \in Nat : i \in P
  <2> HIDE DEF P
  <2> QED BY <1>2, <1>3, NextNumber
<1> QED BY <1>0, <1>1, <1>4

\* The creator counts the fields that are given: they are all the names that are
\* given exactly when every one of these is the name of a field.
LEMMA MatchedFacts ==
  ASSUME NEW infos \in Seq(FieldInfo), NoNameTwice(infos), NEW given,
         IsFiniteSet(DOMAIN given)
  PROVE  Cardinality({i \in DOMAIN infos : infos[i].name \in DOMAIN given}) =
           Cardinality(DOMAIN given)
         <=> DOMAIN given \subseteq Names(infos)
<1> DEFINE M == {i \in DOMAIN infos : infos[i].name \in DOMAIN given}
           D == DOMAIN given
           f == [i \in M |-> infos[i].name]
<1>1. f \in [M -> D]
  OBVIOUS
<1>2. \A i, j \in M : f[i] = f[j] => i = j
  BY DEF NoNameTwice
<1>3. f \in Injection(M, D)
  BY <1>1, <1>2 DEF Injection, IsInjective
<1>4. Cardinality(M) = Cardinality(D) <=> f \in Surjection(M, D)
  <2> HIDE DEF M, D, f
  <2>1. IsFiniteSet(D)
    BY DEF D
  <2> QED BY <1>3, <2>1, FS_Injection
<1>5. f \in Surjection(M, D) <=> \A n \in D : \E i \in M : f[i] = n
  <2> HIDE DEF M, D, f
  <2> QED BY <1>1 DEF Surjection
<1>6. (\A n \in D : \E i \in M : f[i] = n) <=> D \subseteq Names(infos)
  <2>1. ASSUME \A n \in D : \E i \in M : f[i] = n, NEW n \in D PROVE n \in Names(infos)
    BY <2>1 DEF Names
  <2>2. ASSUME D \subseteq Names(infos), NEW n \in D PROVE \E i \in M : f[i] = n
    <3>1. PICK i \in DOMAIN infos : infos[i].name = n
      BY <2>2 DEF Names
    <3>2. i \in M /\ f[i] = n
      BY <3>1
    <3> QED BY <3>2
  <2> QED BY <2>1, <2>2
<1> QED BY <1>4, <1>5, <1>6

\* What the creator answers, for the fields it visits.
LEMMA CreateFacts ==
  ASSUME NEW k, NEW given, metadata[k] \in Creatable,
         NEW infos, infos = ForEachFieldInfo(k), infos \in Seq(FieldInfo),
         NoNameTwice(infos), IsFiniteSet(DOMAIN given)
  PROVE  CreateObject(k, given) =
           IF \E i \in DOMAIN infos : Required(infos[i], given) THEN Error("required")
           ELSE IF DOMAIN given \subseteq Names(infos) THEN [object |-> Filled(infos, given)]
           ELSE Error("unknown")
<1>1. Cardinality({i \in DOMAIN infos : infos[i].name \in DOMAIN given}) =
        Cardinality(DOMAIN given)
      <=> DOMAIN given \subseteq Names(infos)
  BY MatchedFacts
<1>2. ~(DOMAIN given \subseteq Names(infos)) =>
        \E n \in DOMAIN given : \A i \in DOMAIN infos : infos[i].name # n
  BY DEF Names
<1> DEFINE matched == Cardinality({i \in DOMAIN infos : infos[i].name \in DOMAIN given})
<1>3. metadata[k] # Unset
  BY RegistryAssumption
<1>4. CreateObject(k, given) =
        IF \E i \in DOMAIN infos : Required(infos[i], given) THEN Error("required")
        ELSE IF matched = Cardinality(DOMAIN given) THEN [object |-> Filled(infos, given)]
        ELSE IF \E n \in DOMAIN given : \A i \in DOMAIN infos : infos[i].name # n
          THEN Error("unknown")
        ELSE Error("unreachable")
  BY <1>3, Zenon DEF CreateObject
<1> QED BY <1>1, <1>2, <1>4

LEMMA CreatesFromInv == RegistryInv => CreatesWhatWasGiven
<1> SUFFICES ASSUME RegistryInv, NEW c \in Sound, metadata[Key(c)] \in Creatable,
                    NamesDiffer(c), NEW given \in Given
             PROVE  LET fs == {FieldAt(p) : p \in Places(c)}
                        names == {f.name : f \in fs}
                        result == CreateObject(Key(c), given)
                        complete == \A f \in fs : ~Required(f, given)
                    IN IF complete /\ DOMAIN given \subseteq names
                         THEN /\ "object" \in DOMAIN result
                              /\ DOMAIN result.object = names
                              /\ \A f \in fs : result.object[f.name] = Stored(f, given)
                         ELSE \E why \in {"required", "unknown"} : result = Error(why)
  BY DEF CreatesWhatWasGiven
<1> DEFINE k == Key(c)
           infos == ForEachFieldInfo(k)
           fs == {FieldAt(p) : p \in Places(c)}
           names == {f.name : f \in fs}
           result == CreateObject(k, given)
           complete == \A f \in fs : ~Required(f, given)
<1>1. infos \in Seq(FieldInfo) /\ fs = {infos[i] : i \in DOMAIN infos} /\ NoNameTwice(infos)
  BY EachField
<1>2. IsFiniteSet(DOMAIN given)
  BY CreatorAssumption
<1>3. result = IF \E i \in DOMAIN infos : Required(infos[i], given) THEN Error("required")
               ELSE IF DOMAIN given \subseteq Names(infos) THEN [object |-> Filled(infos, given)]
               ELSE Error("unknown")
  <2> HIDE DEF infos
  <2>1. infos = ForEachFieldInfo(k) /\ metadata[k] \in Creatable
    BY DEF infos
  <2> HIDE DEF k
  <2> QED BY <1>1, <1>2, <2>1, CreateFacts
<1>4. SetSoFar(Filled(infos, given), infos, given, Len(infos))
  <2> HIDE DEF infos
  <2> QED BY <1>1, FilledFacts
<1> HIDE DEF infos, fs, result
<1>5. names = Names(infos)
  BY <1>1 DEF Names
<1>6. complete <=> ~\E i \in DOMAIN infos : Required(infos[i], given)
  BY <1>1
<1>7. CASE complete /\ DOMAIN given \subseteq names
  <2>1. result = [object |-> Filled(infos, given)]
    BY <1>3, <1>5, <1>6, <1>7
  <2>2. "object" \in DOMAIN result /\ result.object = Filled(infos, given)
    BY <2>1
  <2>3. DOMAIN result.object = names
    BY <1>4, <1>5, <2>2 DEF SetSoFar
  <2>4. ASSUME NEW f \in fs PROVE result.object[f.name] = Stored(f, given)
    <3>1. PICK i \in DOMAIN infos : f = infos[i]
      BY <1>1
    <3>2. i <= Len(infos)
      BY <1>1
    <3> QED BY <1>4, <2>2, <3>1, <3>2 DEF SetSoFar
  <2> QED BY <1>7, <2>2, <2>3, <2>4 DEF fs, result
<1>8. CASE ~(complete /\ DOMAIN given \subseteq names)
  <2>1. result = Error("required") \/ result = Error("unknown")
    BY <1>3, <1>5, <1>6, <1>8
  <2> QED BY <1>8, <2>1 DEF fs, result
<1> QED BY <1>7, <1>8

\* Whatever classes registered in whatever order, an object created from a map
\* of its fields has what was given and the defaults of the others, or is
\* refused for a missing or an unknown field: the search for the wrong name,
\* once the numbers differ, always finds it.
THEOREM CreatorSetsEveryField == ReflectionSpec => []CreatesWhatWasGiven
BY RegistryInvariance, CreatesFromInv, PTL
=============================================================================
