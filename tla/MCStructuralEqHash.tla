------------------------- MODULE MCStructuralEqHash -------------------------
(***************************************************************************)
(* Heaps of six objects: two leaves, two containers of leaves, and the two *)
(* values compared, each of a leaf and a container.  Leaves and containers *)
(* may be shared between the two values or be different objects with the   *)
(* same content.                                                           *)
(***************************************************************************)
EXTENDS StructuralEqHash

MCNode == 1 .. 6

\* The kinds of TVMFFISEqHashKind, and a function with a definition region, a
\* body and a comment that is ignored (TFunc of tests/cpp/testing_object.h).
MCTypes ==
  [Array  |-> [code |-> 1, kind |-> "Builtin", flags |-> <<>>],
   Map    |-> [code |-> 2, kind |-> "Builtin", flags |-> <<>>],
   Tensor |-> [code |-> 3, kind |-> "Builtin", flags |-> <<>>],
   Func   |-> [code |-> 4, kind |-> "TreeNode", flags |-> <<"def", "plain", "ignore">>],
   Var    |-> [code |-> 5, kind |-> "FreeVar", flags |-> <<"ignore">>],
   Tree   |-> [code |-> 6, kind |-> "TreeNode", flags |-> <<"plain">>],
   Dag    |-> [code |-> 7, kind |-> "DAGNode", flags |-> <<"plain">>],
   Const  |-> [code |-> 8, kind |-> "ConstTreeNode", flags |-> <<"plain">>],
   Unique |-> [code |-> 9, kind |-> "UniqueInstance", flags |-> <<"plain">>],
   Opaque |-> [code |-> 10, kind |-> "Unsupported", flags |-> <<>>]]

Object(type, content) == [type |-> type, content |-> content]

\* The bytes a are also an object.
a == 101
b == 102
heap_a == 103

MCHeapBytes == [v \in {heap_a} |-> a]

Leaves ==
  {<<Object(t, <<a>>), Object(t, <<x>>)>> : t \in {"Var", "Tree", "Dag", "Unique"}, x \in {a, b}}
    \union {<<Object("Tree", <<heap_a>>), Object("Tree", <<x>>)>> : x \in {a, heap_a}}
    \union {<<Object("Tensor", <<a, a>>), Object("Tensor", s)>> : s \in {<<a>>, <<a, b>>, <<b>>}}
    \union {<<Object("Tensor", <<a>>), Object("Tensor", <<a>>)>>,
            <<Object("Var", <<a>>), Object("Dag", <<a>>)>>,
            <<Object("Tree", <<a>>), Object("Opaque", <<>>)>>}

Containers(type) ==
  CASE type \in {"Tree", "Dag", "Const", "Unique"} -> {Object(type, <<c>>) : c \in 1 .. 2}
    [] type = "Func" -> {Object(type, <<c, d, a>>) : c \in 1 .. 2, d \in 1 .. 2}
    [] type = "Array" -> {Object(type, s) : s \in SeqOf(1 .. 2, 2)}
    [] type = "Map" -> {Object(type, <<<<a, c>>>>) : c \in 1 .. 2}
         \union {Object(type, <<<<a, c>>, <<b, d>>>>) : c \in 1 .. 2, d \in 1 .. 2}
         \union {Object(type, <<<<b, d>>, <<a, c>>>>) : c \in 1 .. 2, d \in 1 .. 2}
         \union {Object(type, <<<<c, a>>>>) : c \in 1 .. 2}
         \union {Object(type, <<<<b, c>>, <<heap_a, c>>>>) : c \in 1 .. 2}

\* Two functions, two arrays, or two maps with the same keys in some order.
Values(leaf, container, comment, k) ==
  LET entries == <<<<k, container>>, <<IF k = a THEN b ELSE a, leaf>>>> IN
  {<<Object("Func", <<leaf, container, comment>>)>>, <<Object("Array", <<container, leaf>>)>>,
   <<Object("Map", entries)>>, <<Object("Map", <<entries[2], entries[1]>>)>>}

\* kTVMFFISEqHashKindConstTreeNode: no free variable below a constant node.
WellFormed(heap) ==
  \A n \in MCNode : heap[n].type = "Const" => heap[heap[n].content[1]].type # "Var"

MCInputs ==
  {i \in UNION {[heap : {leaves \o <<c, d>> \o l \o r : l \in Values(1, 3, a, k),
                                 r \in Values(x, y, b, k)},
                 lhs : {5}, rhs : {6}, free : BOOLEAN, skip : BOOLEAN] :
       leaves \in Leaves, x \in 1 .. 2, y \in 3 .. 4, k \in {a, b},
       <<c, d>> \in UNION {Containers(t) \X Containers(t) :
                 t \in {"Tree", "Dag", "Const", "Unique", "Func", "Array", "Map"}}} :
     /\ i.heap[5].type = i.heap[6].type
     /\ i.free => "Var" \in {i.heap[1].type, i.heap[2].type}
     /\ i.skip => i.heap[1].type = "Tensor"
     /\ WellFormed(i.heap)}
=============================================================================
