------------------------- MODULE ReflectionRegistry -------------------------
(***************************************************************************)
(* The reflection registry: what ObjectDef and TypeAttrDef                 *)
(* (include/ffi/reflection/registry.h) add to the entries of the type      *)
(* table through the C API, the pointers the table publishes to it, and    *)
(* what a reader finds there (accessor.h): a field or a method by name, an *)
(* attribute of a type.                                                    *)
(*                                                                         *)
(* All of it is kept with the entry, so classes with one key have it in    *)
(* common: the first of them to register its metadata registers the rest.  *)
(*                                                                         *)
(* Fields and methods are kept in vectors that move when they grow.  A     *)
(* reader sees the pair of pointer and number that was published last, so  *)
(* a pointer to a block that has moved on reads nothing of use.            *)
(***************************************************************************)
EXTENDS TypeTable, Outcome, Sequences

CONSTANTS
  FieldsOf,    \* the fields each class registers, in order
  MethodsOf,   \* its methods
  AttrsOf,     \* its type attributes: a function from names to values
  Creatable    \* the classes with a default or an UnsafeInit constructor

\* The name of an attribute is a column of the table.
Attr == UNION {DOMAIN AttrsOf[c] : c \in Class}

FieldInfo == UNION {{FieldsOf[c][i] : i \in DOMAIN FieldsOf[c]} : c \in Class}
MethodInfo == UNION {{MethodsOf[c][i] : i \in DOMAIN MethodsOf[c]} : c \in Class}
AttrValue == {None} \union UNION {{AttrsOf[c][a] : a \in DOMAIN AttrsOf[c]} : c \in Class}

\* strncmp over the length of the registered name.
NameMatches(registered, name) ==
  Len(registered) <= Len(name) /\ SubSeq(name, 1, Len(registered)) = registered

\* A column of the table: its cells, the block they are in, and the pointer and
\* the size that readers are given.
AttrColumn == [cells : Seq(AttrValue), block : Nat, data : Nat, size : Nat]

ASSUME RegistryAssumption ==
  /\ Creatable \subseteq Class \ {Root} /\ Unset \notin Class
  /\ FieldsOf \in [Class -> Seq(FieldInfo)] /\ MethodsOf \in [Class -> Seq(MethodInfo)]
  /\ \A x \in FieldInfo \union MethodInfo : NameMatches(x.name, x.name)
  /\ Unset \notin AttrColumn

VARIABLES
  fields,     \* type_fields_data of each entry, by its key
  methods,    \* type_methods_data
  info,       \* what its TVMFFITypeInfo publishes: fields, num_fields, ...
  metadata,   \* the class whose metadata it has, or Unset
  columns,    \* type_attr_columns_: the column of each attribute, or Unset
  defined     \* the attributes defined for each key so far

reflection == <<fields, methods, info, metadata, columns, defined>>

\* A std::vector: its items, and which block of memory they are in.
NoItems == [items |-> <<>>, block |-> 0]
Full(n) == n = 0 \/ \E k \in 0 .. n : n = 2 ^ k
PushBack(vec, x) ==
  [items |-> Append(vec.items, x),
   block |-> vec.block + IF Full(Len(vec.items)) THEN 1 ELSE 0]

\* The pointer and the number a reader is given, and what it finds there.
Publish(vec) == [data |-> vec.block, num |-> Len(vec.items)]
Read(vec, published) ==
  IF published.data = vec.block THEN SubSeq(vec.items, 1, published.num) ELSE <<>>

\* The table constructor registers the metadata of Object, without a creator.
ReflectionInit ==
  /\ fields = [k \in TypeKey |-> NoItems]
  /\ methods = [k \in TypeKey |-> NoItems]
  /\ info = [k \in TypeKey |-> [fields |-> Publish(NoItems), methods |-> Publish(NoItems)]]
  /\ metadata = [k \in TypeKey |-> IF k = Key(Root) THEN Root ELSE Unset]
  /\ columns = [a \in Attr |-> Unset]
  /\ defined = [k \in TypeKey |-> {}]

-----------------------------------------------------------------------------
(* Registration.                                                           *)

\* GetTypeEntry finds the entry.
HasEntry(c) == ~exited /\ c \in Registered

\* ObjectDef<C>(): the metadata of a type is registered once, so the ObjectDef of
\* another class with the key is refused and registers nothing.
RegisterTypeMetadata(c) ==
  /\ HasEntry(c)
  /\ metadata[Key(c)] = Unset
  /\ metadata' = [metadata EXCEPT ![Key(c)] = c]
  /\ UNCHANGED <<fields, methods, info, columns, defined>>

Defines(c) == HasEntry(c) /\ metadata[Key(c)] = c

\* Fault: the number is refreshed, the pointer only for the first field.
RegisterTypeFieldKeepsPointer(c) ==
  LET k == Key(c)
      n == Len(fields[k].items)
      vec == PushBack(fields[k], FieldsOf[c][n + 1])
  IN /\ Defines(c)
     /\ n < Len(FieldsOf[c])
     /\ fields' = [fields EXCEPT ![k] = vec]
     /\ info' = [info EXCEPT ![k].fields =
                   [data |-> IF n = 0 THEN vec.block ELSE @.data, num |-> n + 1]]
     /\ UNCHANGED <<methods, metadata, columns, defined>>

\* def_ro, def_rw: "refresh ptr as the data can change".
RegisterTypeField(c) ==
  LET k == Key(c)
      n == Len(fields[k].items)
      vec == PushBack(fields[k], FieldsOf[c][n + 1])
  IN /\ Defines(c)
     /\ n < Len(FieldsOf[c])
     /\ fields' = [fields EXCEPT ![k] = vec]
     /\ info' = [info EXCEPT ![k].fields = Publish(vec)]
     /\ UNCHANGED <<methods, metadata, columns, defined>>

\* def, def_static: after the fields.
RegisterTypeMethod(c) ==
  LET k == Key(c)
      n == Len(methods[k].items)
      vec == PushBack(methods[k], MethodsOf[c][n + 1])
  IN /\ Defines(c)
     /\ Len(fields[k].items) = Len(FieldsOf[c])
     /\ n < Len(MethodsOf[c])
     /\ methods' = [methods EXCEPT ![k] = vec]
     /\ info' = [info EXCEPT ![k].methods = Publish(vec)]
     /\ UNCHANGED <<fields, metadata, columns, defined>>

\* A column with a cell for the index: its data moves when it grows.
NewColumn == [cells |-> <<>>, block |-> 0, data |-> 0, size |-> 0]
Column(a) == IF columns[a] = Unset THEN NewColumn ELSE columns[a]

Grown(column, i) ==
  IF Len(column.cells) > i THEN column
  ELSE [cells |-> [j \in 1 .. i + 1 |->
                     IF j <= Len(column.cells) THEN column.cells[j] ELSE None],
        block |-> column.block + 1, data |-> column.block + 1, size |-> i + 1]

\* A class defines its attributes after its fields and methods.
Complete(c) ==
  /\ Defines(c)
  /\ Len(fields[Key(c)].items) = Len(FieldsOf[c])
  /\ Len(methods[Key(c)].items) = Len(MethodsOf[c])

\* TypeAttrDef<C>: the value goes to the cell of the type's index.  A cell that
\* holds a value already is refused.
RegisterTypeAttr(c, a) ==
  LET column == Grown(Column(a), index[c])
  IN /\ Complete(c)
     /\ a \in DOMAIN AttrsOf[c] \ defined[Key(c)]
     /\ column.cells[index[c] + 1] = None
     /\ columns' = [columns EXCEPT ![a] =
                      [column EXCEPT !.cells[index[c] + 1] = AttrsOf[c][a]]]
     /\ defined' = [defined EXCEPT ![Key(c)] = @ \union {a}]
     /\ UNCHANGED <<fields, methods, info, metadata>>

\* The column exists, with the cell of None, which is never set.
EnsureTypeAttrColumn(a) ==
  /\ ~exited
  /\ columns[a] = Unset
  /\ columns' = [columns EXCEPT ![a] = Grown(NewColumn, 0)]
  /\ UNCHANGED <<fields, methods, info, metadata, defined>>

Register ==
  \/ \E c \in Class :
       \/ RegisterTypeMetadata(c) \/ RegisterTypeField(c) \/ RegisterTypeMethod(c)
       \/ \E a \in Attr : RegisterTypeAttr(c, a)
  \/ \E a \in Attr : EnsureTypeAttrColumn(a)

\* Classes get their entries in between, in any order.
ReflectionNext ==
  \/ Next /\ UNCHANGED reflection
  \/ Register /\ UNCHANGED vars

ReflectionSpec ==
  Init /\ ReflectionInit /\ [][ReflectionNext]_<<vars, reflection>>

-----------------------------------------------------------------------------
(* Readers.                                                                *)

FieldInfos(k) == Read(fields[k], info[k].fields)
MethodInfos(k) == Read(methods[k], info[k].methods)

FirstMatch(infos, name) ==
  LET hits == {i \in DOMAIN infos : NameMatches(infos[i].name, name)}
  IN IF hits = {} THEN Throws
     ELSE Value(infos[CHOOSE i \in hits : \A j \in hits : i <= j])

GetFieldInfo(k, name) == FirstMatch(FieldInfos(k), name)
GetMethodInfo(k, name) == FirstMatch(MethodInfos(k), name)

\* TypeAttrColumn(a)[i]
TypeAttr(a, i) ==
  IF columns[a] = Unset THEN Throws
  ELSE IF i >= columns[a].size THEN Value(None)
  ELSE IF columns[a].data = columns[a].block THEN Value(columns[a].cells[i + 1])
  ELSE Fails

-----------------------------------------------------------------------------
(* Properties.                                                             *)

\* A name hides a longer one that starts with it and is registered later.
Hidden(infos, i) == \E j \in 1 .. i - 1 : NameMatches(infos[j].name, infos[i].name)

Finds(infos, Get(_)) ==
  \A i \in DOMAIN infos : ~Hidden(infos, i) => Get(infos[i].name) = Value(infos[i])

\* What was registered is what readers find, whatever was registered since and
\* in whatever order the classes came: fields and methods by name through the
\* published pointers, attributes at the index of their type (and nothing at
\* the index of a type for which none was defined).
ReflectionReadsBack ==
  \A k \in Keys :
    /\ LET Get(n) == GetFieldInfo(k, n) IN Finds(fields[k].items, Get)
    /\ LET Get(n) == GetMethodInfo(k, n) IN Finds(methods[k].items, Get)
    /\ \A a \in Attr :
         columns[a] # Unset =>
           TypeAttr(a, key2index[k]) =
             Value(IF a \in defined[k] THEN AttrsOf[metadata[k]][a] ELSE None)

-----------------------------------------------------------------------------
(* The inductive invariant behind what readers find.                       *)

Published == [data : Nat, num : Nat]

RegistryTypeOK ==
  /\ fields \in [TypeKey -> [items : Seq(FieldInfo), block : Nat]]
  /\ methods \in [TypeKey -> [items : Seq(MethodInfo), block : Nat]]
  /\ info \in [TypeKey -> [fields : Published, methods : Published]]
  /\ metadata \in [TypeKey -> {Unset} \union Class]
  /\ columns \in [Attr -> {Unset} \union AttrColumn]
  /\ defined \in [TypeKey -> SUBSET Attr]

\* Metadata is that of a class with the key; without it nothing was registered.
MetadataConsistent ==
  \A k \in TypeKey :
    IF metadata[k] = Unset
      THEN fields[k] = NoItems /\ methods[k] = NoItems /\ defined[k] = {}
      ELSE metadata[k] \in Registered /\ Key(metadata[k]) = k

Begins(items, s) == Len(items) <= Len(s) /\ items = SubSeq(s, 1, Len(items))

\* Every entry publishes where its vectors are now and all they hold, which is
\* the beginning of what its class registers.
VectorsPublished ==
  \A k \in TypeKey :
    /\ info[k] = [fields |-> Publish(fields[k]), methods |-> Publish(methods[k])]
    /\ metadata[k] # Unset =>
         /\ Begins(fields[k].items, FieldsOf[metadata[k]])
         /\ Begins(methods[k].items, MethodsOf[metadata[k]])

\* A column publishes where its cells are now and how many there are; a cell
\* holds what was defined for the key with its index, and nothing else.
ColumnConsistent(a) ==
  LET column == columns[a] IN
  /\ column.data = column.block /\ column.size = Len(column.cells)
  /\ \A k \in Keys :
       a \in defined[k] =>
         /\ key2index[k] < column.size
         /\ column.cells[key2index[k] + 1] = AttrsOf[metadata[k]][a]
  /\ \A i \in 1 .. column.size :
       column.cells[i] # None => \E k \in Keys : key2index[k] = i - 1 /\ a \in defined[k]

ColumnsConsistent ==
  \A a \in Attr :
    IF columns[a] = Unset THEN \A k \in TypeKey : a \notin defined[k]
    ELSE ColumnConsistent(a)

\* What registration preserves, on top of the invariant of the table.
RegistryInv ==
  /\ TInv /\ RegistryTypeOK /\ MetadataConsistent
  /\ VectorsPublished /\ ColumnsConsistent
=============================================================================
