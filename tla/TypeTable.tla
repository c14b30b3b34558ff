----------------------------- MODULE TypeTable -----------------------------
(***************************************************************************)
(* The runtime type table: how GetOrAllocTypeIndex (src/ffi/object.cpp)    *)
(* gives every type key an index and an entry, and how IsObjectInstance    *)
(* (include/ffi/object.h) answers "is this index a subclass of T" from the *)
(* index ranges that were reserved.                                        *)
(*                                                                         *)
(* Classes register in any order that has the parent first, because the    *)
(* macro that registers a class evaluates the registration of its parent   *)
(* to pass its index.  Several classes may have one type key: a class that *)
(* two libraries define, or two classes that were given the same key by    *)
(* mistake.  The table has no lock: its callers serialise.                 *)
(***************************************************************************)
EXTENDS Integers, FiniteSets

CONSTANTS
  Class,       \* the C++ classes, one for each library that defines it
  TypeKey,     \* _type_key
  Root,        \* Object
  RootIndex,   \* kTVMFFIObject
  DynBegin,    \* kTVMFFIDynObjectBegin
  Unset        \* a class without static index, an index not known yet

ASSUME TypeTableAssumption ==
  /\ Root \in Class
  /\ RootIndex \in Nat /\ DynBegin \in Nat /\ RootIndex < DynBegin
  /\ Unset \notin Nat

VARIABLES
  decl,       \* what the C++ source declares of each class; never changes
  index,      \* tindex of each class: what the table answered it, or Unset
  key2index,  \* type_key2index_: the index of each type key, or Unset
  table,      \* type_table_: the entries by index, where there is one
  counter,    \* type_counter_, which is also the size of type_table_
  exited      \* an ICHECK failed: TVM_FFI_LOG_EXCEPTION_CALL_END ended the process

vars == <<decl, index, key2index, table, counter, exited>>

\* _type_key, _type_depth, _type_index, _type_child_slots,
\* _type_child_slots_can_overflow, _type_final and the parent of a class, as the
\* TVM_FFI_DECLARE_OBJECT_INFO macros take them.
Declaration ==
  [key : TypeKey, parent : Class, depth : Nat, static : Nat \union {Unset},
   slots : Nat, overflow : BOOLEAN, final : BOOLEAN]

\* The static_asserts of the macros, and the shape of the built-in classes: a
\* class with a static index is a child of Object and reserves no slots, and its
\* key is used with that index only (the table does not check, see the README).
WellDeclared(d) ==
  /\ d[Root] = [key |-> d[Root].key, parent |-> Root, depth |-> 0,
                static |-> RootIndex, slots |-> 0, overflow |-> TRUE, final |-> FALSE]
  /\ \A c \in Class \ {Root} :
       /\ d[c].key # d[Root].key
       /\ d[c].depth = d[d[c].parent].depth + 1
       /\ ~d[d[c].parent].final
       /\ d[c].final => d[c].slots = 0
       /\ \/ d[c].slots = 0 \/ d[d[c].parent].slots = 0
          \/ d[c].slots < d[d[c].parent].slots
       /\ d[c].static # Unset =>
            d[c].static < DynBegin /\ d[c].slots = 0 /\ d[c].parent = Root
       /\ \A b \in Class : d[b].key = d[c].key => d[b].static = d[c].static

IsEntry(e) ==
  e \in [key : TypeKey, depth : Nat, num_slots : Nat, allocated : Nat,
         overflow : BOOLEAN, ancestors : [0 .. e.depth - 1 -> Nat]]

Registered == {c \in Class : index[c] # Unset}
Keys == {k \in TypeKey : key2index[k] # Unset}

\* The slots of the table that hold an entry.
Types == DOMAIN table

TypeOK ==
  /\ decl \in [Class -> Declaration]
  /\ WellDeclared(decl)
  /\ index \in [Class -> Nat \union {Unset}]
  /\ key2index \in [TypeKey -> Nat \union {Unset}]
  /\ table = [i \in Types |-> table[i]]
  /\ \A i \in Types : IsEntry(table[i])
  /\ counter \in Nat
  /\ Types \subseteq 0 .. counter - 1
  /\ exited \in BOOLEAN

-----------------------------------------------------------------------------
(* GetOrAllocTypeIndex.                                                    *)

Key(c) == decl[c].key
Parent(c) == decl[c].parent
NumSlots(c) == decl[c].slots + 1   \* the type itself and its reserved children

\* parent_type_index, and the entry it leads to
ParentIndex(c) == index[Parent(c)]
ParentEntry(c) == table[ParentIndex(c)]

\* Fault: a class that may overflow below one that may not.
NewEntryOverflowing(c) ==
  LET p == ParentEntry(c) IN
  [key |-> Key(c), depth |-> decl[c].depth, num_slots |-> NumSlots(c),
   allocated |-> 1, overflow |-> decl[c].overflow,
   ancestors |-> [i \in 0 .. p.depth |->
                    IF i < p.depth THEN p.ancestors[i] ELSE ParentIndex(c)]]

\* The Entry constructor.  An overflow the parent forbids is forbidden below.
\* An ancestor is the index in the TypeInfo that type_ancestors points to.
NewEntry(c) ==
  LET p == ParentEntry(c) IN
  [key |-> Key(c), depth |-> decl[c].depth, num_slots |-> NumSlots(c),
   allocated |-> 1, overflow |-> decl[c].overflow /\ p.overflow,
   ancestors |-> [i \in 0 .. p.depth |->
                    IF i < p.depth THEN p.ancestors[i] ELSE ParentIndex(c)]]

\* type_table_[t] = e, whatever is there.
Put(t, e) == [i \in Types \union {t} |-> IF i = t THEN e ELSE table[i]]

\* The table constructor registers Object before anything else.
Init ==
  /\ decl \in [Class -> Declaration] /\ WellDeclared(decl)
  /\ index = [c \in Class |-> IF c = Root THEN RootIndex ELSE Unset]
  /\ key2index = [k \in TypeKey |-> IF k = Key(Root) THEN RootIndex ELSE Unset]
  /\ table = [i \in {RootIndex} |->
                [key |-> Key(Root), depth |-> 0, num_slots |-> 1, allocated |-> 1,
                 overflow |-> TRUE, ancestors |-> [j \in 0 .. -1 |-> 0]]]
  /\ counter = DynBegin
  /\ exited = FALSE

\* A class asks for its index once, when its parent has got one.
Asks(c) == ~exited /\ c \in Class \ Registered /\ Parent(c) \in Registered

\* The key is known: its index is returned and the other arguments are not
\* looked at.
KnownKey(c) ==
  /\ Asks(c)
  /\ Key(c) \in Keys
  /\ index' = [index EXCEPT ![c] = key2index[Key(c)]]
  /\ UNCHANGED <<decl, key2index, table, counter, exited>>

Fresh(c) == Asks(c) /\ Key(c) \notin Keys

\* The depth a class was compiled with is checked against the parent's entry.
DepthFits(c) == decl[c].depth = ParentEntry(c).depth + 1

FitsReserved(c) ==
  ParentEntry(c).allocated + NumSlots(c) <= ParentEntry(c).num_slots

StaticFree(c) ==
  /\ decl[c].static < counter
  /\ decl[c].static \notin Types
  /\ decl[c].static > ParentIndex(c)

\* The class and its key have the index t from now on.
Answer(c, t) ==
  /\ index' = [index EXCEPT ![c] = t]
  /\ key2index' = [key2index EXCEPT ![Key(c)] = t]
  /\ UNCHANGED <<decl, exited>>

\* Step 0: the index is given.
AllocStatic(c) ==
  /\ Fresh(c) /\ DepthFits(c)
  /\ decl[c].static # Unset
  /\ StaticFree(c)
  /\ table' = Put(decl[c].static, NewEntry(c))
  /\ Answer(c, decl[c].static)
  /\ UNCHANGED counter

\* Fault: the parent counts a child as one slot, whatever it reserves.
AllocReservedOne(c) ==
  LET p == ParentIndex(c)
      t == p + table[p].allocated
  IN /\ Fresh(c) /\ DepthFits(c)
     /\ decl[c].static = Unset
     /\ FitsReserved(c)
     /\ table' = [Put(t, NewEntry(c)) EXCEPT ![p].allocated = @ + 1]
     /\ Answer(c, t)
     /\ UNCHANGED counter

\* Fault: the parent's own slot is not counted.
AllocReservedFromZero(c) ==
  LET p == ParentIndex(c)
      t == p + table[p].allocated - 1
  IN /\ Fresh(c) /\ DepthFits(c)
     /\ decl[c].static = Unset
     /\ FitsReserved(c)
     /\ table' = [Put(t, NewEntry(c)) EXCEPT ![p].allocated = @ + NumSlots(c)]
     /\ Answer(c, t)
     /\ UNCHANGED counter

\* Step 1: the next slots the parent has reserved.
AllocReserved(c) ==
  LET p == ParentIndex(c)
      t == p + table[p].allocated
  IN /\ Fresh(c) /\ DepthFits(c)
     /\ decl[c].static = Unset
     /\ FitsReserved(c)
     /\ table' = [Put(t, NewEntry(c)) EXCEPT ![p].allocated = @ + NumSlots(c)]
     /\ Answer(c, t)
     /\ UNCHANGED counter

\* Step 2: new slots at the end of the table.
AllocOverflow(c) ==
  /\ Fresh(c) /\ DepthFits(c)
  /\ decl[c].static = Unset
  /\ ~FitsReserved(c)
  /\ ParentEntry(c).overflow
  /\ table' = Put(counter, NewEntry(c))
  /\ Answer(c, counter)
  /\ counter' = counter + NumSlots(c)

\* A check fails: a static index taken or not above the parent, a parent that is
\* full and cannot overflow, or one whose entry has another depth.
Fail(c) ==
  /\ Fresh(c)
  /\ \/ ~DepthFits(c)
     \/ decl[c].static # Unset /\ ~StaticFree(c)
     \/ decl[c].static = Unset /\ ~FitsReserved(c) /\ ~ParentEntry(c).overflow
  /\ exited' = TRUE
  /\ UNCHANGED <<decl, index, key2index, table, counter>>

Next ==
  \E c \in Class :
    KnownKey(c) \/ AllocStatic(c) \/ AllocReserved(c) \/ AllocOverflow(c) \/ Fail(c)

Spec == Init /\ [][Next]_vars

-----------------------------------------------------------------------------
(* IsObjectInstance<T> on an object with the type index i: what the compiled *)
(* check knows of T is its declaration, the rest it reads from the table.   *)

InReservedRange(T, i) == i \in index[T] .. index[T] + decl[T].slots

LookUp(T, i) ==
  /\ i >= index[T]
  /\ table[i].depth > decl[T].depth
  /\ table[i].ancestors[decl[T].depth] = index[T]

IsObjectInstance(T, i) ==
  \/ T = Root
  \/ decl[T].final /\ i = index[T]
  \/ ~decl[T].final /\ (InReservedRange(T, i) \/ (decl[T].overflow /\ LookUp(T, i)))

Ancestors(i) == {table[i].ancestors[j] : j \in 0 .. table[i].depth - 1}

-----------------------------------------------------------------------------
(* Properties.                                                             *)

\* A class and the classes above it, as they are declared, and their keys.
Lineage(c) ==
  {a \in Class :
     \A S \in SUBSET Class : c \in S /\ (\A b \in S : Parent(b) \in S) => a \in S}
LineageKeys(c) == {Key(a) : a \in Lineage(c)}

\* Two classes with one key are the same class in two libraries.
Alike(a, b) ==
  /\ decl[a].depth = decl[b].depth /\ Key(Parent(a)) = Key(Parent(b))
  /\ decl[a].slots = decl[b].slots
  /\ decl[a].overflow = decl[b].overflow /\ decl[a].final = decl[b].final

\* The registered classes of whose lineage this holds.
Sound ==
  {c \in Registered :
     \A a \in Lineage(c), b \in Registered : Key(a) = Key(b) => Alike(a, b)}

\* The instance check agrees with the declared hierarchy, for every pair of
\* classes, in whichever library, whatever the order of registration and
\* wherever the indices ended up (IsObjectInstance relies on the reserved ranges
\* alone).  Of a key that stands for different classes nothing is promised.
InstanceCheckExact ==
  LET sound == Sound IN
  \A c \in sound : LET above == LineageKeys(c) IN
    \A T \in sound : IsObjectInstance(T, index[c]) <=> Key(T) \in above

\* "Invariance: parent index is always smaller than the child" (object.h).
ParentIndexSmaller ==
  \A i \in Types : \A a \in Ancestors(i) : a \in Types /\ a < i

\* Whatever is registered later, by whichever class, a key keeps its index and
\* the slot at that index its entry, to which others hold pointers (TypeInfo of
\* a class, type_ancestors of the classes below it), although a reserved slot is
\* written without looking at what is there.
EntriesStay ==
  [][\A k \in Keys : LET i == key2index[k] IN
       /\ key2index'[k] = i
       /\ table'[i] = [table[i] EXCEPT !.allocated = table'[i].allocated]]_vars

-----------------------------------------------------------------------------
(* The inductive invariant behind the instance check.                      *)

Reserved(i) == i .. i + table[i].num_slots - 1

\* b's range lies in the slots that a has handed out to its descendants.
Nested(b, a) ==
  /\ a \in Ancestors(b)
  /\ Reserved(b) \subseteq a + 1 .. a + table[a].allocated - 1

\* The entry at i was made for class c.
MadeFor(i, c) ==
  /\ index[c] = i /\ table[i].key = Key(c)
  /\ table[i].depth = decl[c].depth /\ table[i].num_slots = NumSlots(c)
  /\ table[i].overflow => decl[c].overflow
  /\ c # Root => table[i].ancestors[table[i].depth - 1] = ParentIndex(c)

EntriesConsistent ==
  /\ RootIndex \in Types /\ table[RootIndex].key = Key(Root)
  /\ table[RootIndex].overflow
  /\ DynBegin <= counter
  /\ \A i \in Types :
       /\ table[i].allocated \in 1 .. table[i].num_slots
       /\ i + table[i].num_slots <= counter
       /\ i < DynBegin => table[i].num_slots = 1
       /\ \E c \in Registered : MadeFor(i, c)

\* Keys, classes and entries name the same indices.
IndicesConsistent ==
  /\ index[Root] = RootIndex
  /\ \A k \in Keys : key2index[k] \in Types /\ table[key2index[k]].key = k
  /\ \A i \in Types : table[i].key \in Keys /\ key2index[table[i].key] = i
  /\ \A c \in Registered :
       Parent(c) \in Registered /\ Key(c) \in Keys /\ index[c] = key2index[Key(c)]

\* The ancestors of a type, in their places; a type outside the slots of one of
\* them exists only where that one lets its children overflow.
AncestorsConsistent ==
  \A i \in Types : \A j \in 0 .. table[i].depth - 1 :
    \E a \in Types :
      /\ a = table[i].ancestors[j]
      /\ table[a].depth = j /\ a < i
      /\ table[i].overflow => table[a].overflow
      /\ ~table[a].overflow => Nested(i, a)

\* The ancestors of an ancestor are the ones before it.
AncestorsChained ==
  \A i \in Types : \A j \in 0 .. table[i].depth - 1 : \A k \in 0 .. j - 1 :
    table[table[i].ancestors[j]].ancestors[k] = table[i].ancestors[k]

\* Reserved ranges are nested along the hierarchy or disjoint: no allocation
\* hands out a slot that another type holds or has reserved, although a
\* reserved slot is taken without looking at what the table holds there.
SlotsLaminar ==
  \A a, b \in Types :
    a # b => Reserved(a) \intersect Reserved(b) = {} \/ Nested(a, b) \/ Nested(b, a)

\* What GetOrAllocTypeIndex preserves: entries that agree with the declared
\* classes, and slots that nest along the hierarchy.
TInv ==
  /\ TypeOK /\ EntriesConsistent /\ IndicesConsistent
  /\ AncestorsConsistent /\ AncestorsChained /\ SlotsLaminar
=============================================================================
