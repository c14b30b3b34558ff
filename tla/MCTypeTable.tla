---------------------------- MODULE MCTypeTable ----------------------------
(***************************************************************************)
(* Classes are numbers and a parent is smaller than its children, so that  *)
(* every hierarchy of this many classes occurs up to renaming.  The last   *)
(* class, a leaf, is the one that is not sealed in any of them.  On the    *)
(* hierarchies of Reflected the classes also register their reflection,    *)
(* each when it likes.                                                     *)
(***************************************************************************)
EXTENDS Reflection

CONSTANTS
  NumClasses,    \* classes below Object
  MaxSlots,      \* reserved child slots a class may ask for
  StaticIndices  \* the static indices a class may ask for

MCClass == 0 .. NumClasses

Depth(parent, c) ==
  LET depth[b \in MCClass] == IF b = 0 THEN 0 ELSE depth[parent[b]] + 1
  IN depth[c]

Leaf(parent, c) == \A k \in 1 .. NumClasses : parent[k] # c

Declarations(keys, statics, sealable) ==
  {[c \in MCClass |->
      IF c = 0 THEN [key |-> 0, parent |-> 0, depth |-> 0, static |-> RootIndex,
                     slots |-> 0, overflow |-> TRUE, final |-> FALSE]
      ELSE [key |-> key[c], parent |-> parent[c], depth |-> Depth(parent, c),
            static |-> IF c \in DOMAIN static THEN static[c] ELSE Unset,
            slots |-> slots[c], overflow |-> c \notin sealed,
            final |-> c \in sealed /\ slots[c] = 0 /\ Leaf(parent, c)]] :
    key \in keys,
    parent \in {f \in [1 .. NumClasses -> 0 .. NumClasses - 1] :
                  \A c \in 1 .. NumClasses : f[c] < c},
    slots \in {f \in [1 .. NumClasses -> 0 .. MaxSlots] : f[NumClasses] = 0},
    sealed \in SUBSET sealable,
    static \in [{1, 2} -> statics]}

\* Each class has a key of its own, or one of the last two has that of a class
\* declared before it.
OwnKeys == {[c \in MCClass |-> c]}
Shared ==
  {[c \in MCClass |-> IF c = b THEN k ELSE c] :
     b \in {NumClasses - 1, NumClasses}, k \in 2 .. NumClasses - 1} \ OwnKeys

-----------------------------------------------------------------------------
(* Reflection: a chain of classes and a fork, whose indices need not be in  *)
(* the order of the hierarchy, and one whose fork has one key on both sides.*)

Hierarchy(parent, key) ==
  [c \in MCClass |->
     [key |-> IF c = 0 THEN 0 ELSE key[c], parent |-> IF c = 0 THEN 0 ELSE parent[c],
      depth |-> Depth(parent, c), slots |-> IF c = 1 THEN 1 ELSE 0,
      static |-> IF c = 0 THEN RootIndex ELSE Unset, overflow |-> TRUE, final |-> FALSE]]
Reflected == {Hierarchy(<<0, 1, 2, 1>>, <<1, 2, 3, 4>>),
              Hierarchy(<<0, 1, 2, 1>>, <<1, 2, 3, 2>>)}

Bool == [is |-> "Bool"]
Int8 == [is |-> "Int", bits |-> 8]
Int64 == [is |-> "Int", bits |-> 64]
Float == [is |-> "Float"]
Ref(C) == [is |-> "Ref", class |-> C, nullable |-> TRUE]
ArrayOf(T) == [is |-> "Array", of |-> T]
Type(name) == [is |-> name]

Field(name, type, default, init) ==
  [name |-> name, type |-> type, default |-> default, init |-> init]

MCFieldsOf ==
  [c \in MCClass |->
    CASE c = 1 -> <<Field("n", Int8, <<>>, [int |-> 0]),
                    Field("list", [is |-> "Optional", of |-> ArrayOf(Float)],
                          <<None>>, None)>>
      [] c = 2 -> <<Field("self", Ref(2), <<>>, None),
                    Field("text", Type("String"), <<[int |-> 1]>>, [str |-> ""])>>
      [] c = 3 -> <<Field("pair", [is |-> "Tuple",
                                   types |-> <<Float, [is |-> "Variant",
                                                       types |-> <<Bool, ArrayOf(Float)>>]>>],
                          <<None>>, [array |-> <<[float |-> 0], [bool |-> FALSE]>>]),
                    Field("map", [is |-> "Map", key |-> Int64, of |-> Type("DataType")],
                          <<None>>, [map |-> <<>>])>>
      [] OTHER -> <<>>]

Method(name, params) == [name |-> name, params |-> params]

MCMethodsOf ==
  [c \in MCClass |->
    CASE c = 1 -> <<Method("view", <<Type("TensorView"), Type("DLTensor"), Type("CStr"),
                                     Type("ByteArray"), Type("StdString"), Type("Device"),
                                     Type("TypedFunction")>>)>>
      [] c = 2 -> <<Method("take", <<[is |-> "RValueRef", of |-> ArrayOf(Float)],
                                     [is |-> "RValueRef", of |-> Ref(2)],
                                     [is |-> "ObjectPtr", class |-> 1],
                                     Type("Shape"), Type("Bytes"), Type("OpaquePtr"),
                                     [is |-> "Enum", bits |-> 8], Type("Any"),
                                     Type("StrictBool"), Type("Null"), Ref(0)>>)>>
      [] OTHER -> <<>>]

\* One attribute, of classes on both sides of the fork.
MCAttrsOf ==
  [c \in MCClass |->
    CASE c \in {1, 3} -> [a \in {"eq"} |-> [fn |-> "eq"]]
      [] c = 4 -> [a \in {"eq"} |-> [int |-> 4]]
      [] OTHER -> <<>>]

Scalars ==
  {None, [bool |-> TRUE], [int |-> 0], [int |-> 300], [float |-> 2], [ptr |-> 7],
   [dtype |-> "int32"], [device |-> "cpu"], [dltensor |-> 1], [rawstr |-> "int32"],
   [rawstr |-> "a longer text"], [bytearray |-> "b"], [str |-> "t"],
   [str |-> "a longer text"], [bytes |-> "some bytes"], [shape |-> <<1>>],
   [tensor |-> 1], [fn |-> "f"]}
Objects == {[obj |-> c] : c \in MCClass \ {0}}
Arrays ==
  {[array |-> s] :
     s \in {<<>>, <<[int |-> 1], [float |-> 2]>>, <<[float |-> 1], [bool |-> TRUE]>>,
            <<[int |-> 1], [array |-> <<[int |-> 2]>>]>>, <<[str |-> "t"], [int |-> 1]>>}}
Maps ==
  {[map |-> s] :
     s \in {<<>>, <<<<[int |-> 1], [dtype |-> "int32"]>>>>,
            <<<<[int |-> 1], [str |-> "int32"]>>, <<[bool |-> TRUE], [dtype |-> "int64"]>>>>,
            <<<<[str |-> "k"], [str |-> "none"]>>>>}}
MCValues ==
  Scalars \union Objects \union Arrays \union Maps
    \union {[rvalue |-> v] : v \in Objects \union Arrays}

\* What may be given for some of the fields, and for one that is no field.
Offers ==
  [n |-> {[int |-> 300], [str |-> "t"]}, list |-> {[array |-> <<[int |-> 1]>>]},
   text |-> {[str |-> "u"]}, self |-> {[obj |-> 3], None}, absent |-> {None}]
MCGiven ==
  UNION {{g \in [names -> UNION {Offers[n] : n \in names}] :
            \A n \in names : g[n] \in Offers[n]} : names \in SUBSET DOMAIN Offers}

-----------------------------------------------------------------------------

\* Which class an object is an instance of is up to the type table, so what the
\* setters do changes with it.
Bound == IF decl \in Reflected THEN Setters ELSE <<>>

MCInit ==
  /\ \/ decl \in Declarations(OwnKeys, StaticIndices \union {Unset}, 1 .. NumClasses - 1)
     \/ decl \in Declarations(Shared, {Unset}, {2})
     \/ decl \in Reflected
  /\ Init /\ ReflectionInit /\ setter = Bound

MCNext ==
  /\ \/ Next /\ UNCHANGED reflection
     \/ decl \in Reflected /\ Register /\ UNCHANGED vars
  /\ setter' = Bound'

MCSpec == MCInit /\ [][MCNext]_<<vars, reflection, setter>>
=============================================================================
