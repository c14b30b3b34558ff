--------------------------- MODULE StructuralEqual ---------------------------
(***************************************************************************)
(* StructEqualHandler (src/ffi/extra/structural_equal.cpp): the recursive  *)
(* comparison of two values that share one heap of objects.  The handler's *)
(* state, the objects of one side that were found equal to objects of the  *)
(* other, is threaded through the recursion: a comparison is a function    *)
(* from the state it starts in to its result.                              *)
(***************************************************************************)
EXTENDS Integers, Sequences, FiniteSets

CONSTANTS
  Node,       \* the objects of the heap, numbered in the order they were created
  Types,      \* per type key: how the type is compared, and the flags of its fields
  HeapBytes   \* of the plain data that are Bytes objects: the small value of the same bytes

\* A value is an object or plain data; plain data is any other number.  A string
\* is plain data, in one form: its hash does not depend on its form.
IsObject(v) == v \in Node

Unmapped == 0

\* TVMFFISEqHashKind and the flags of a field that the walks look at.
ASSUME StructuralAssumption ==
  /\ IsFiniteSet(Node) /\ Node = 1 .. Cardinality(Node)
  /\ {"Array", "Map", "Tensor"} \subseteq DOMAIN Types
  /\ \A t \in DOMAIN Types :
       /\ Types[t].kind \in {"Builtin", "Unsupported", "TreeNode", "FreeVar", "DAGNode",
                             "ConstTreeNode", "UniqueInstance"}
       /\ Types[t].flags \in Seq({"plain", "def", "ignore"})
  /\ \A v \in DOMAIN HeapBytes :
       /\ v \in Int \ Node
       /\ HeapBytes[v] \in Int \ (Node \union DOMAIN HeapBytes)
       /\ \A w \in DOMAIN HeapBytes : HeapBytes[v] = HeapBytes[w] => v = w

\* What plain data are compared by, in AnyEqual too.
Content(v) == IF v \in DOMAIN HeapBytes THEN HeapBytes[v] ELSE v

\* heap[n]: the type of object n and its content: the elements of an Array, the
\* <<key, value>> pairs of a Map, shape and data of a Tensor, or its shape alone
\* when it is on a device or not contiguous, else the fields.
Kind(heap, n) == Types[heap[n].type].kind
Flags(heap, n) == Types[heap[n].type].flags

Parts(heap, n) ==
  LET content == heap[n].content IN
  IF heap[n].type = "Map" THEN {content[i][j] : i \in DOMAIN content, j \in {1, 2}}
  ELSE {content[i] : i \in DOMAIN content}

\* An object is created after those it refers to, which are immutable; a Map has
\* an entry per key, an object its fields.
IsHeap(heap) ==
  /\ DOMAIN heap = Node
  /\ \A n \in Node :
       LET content == heap[n].content IN
       /\ heap[n].type \in DOMAIN Types
       /\ IF heap[n].type = "Map"
            THEN /\ content \in Seq(Int \X Int)
                 /\ \A i, j \in DOMAIN content :
                      Content(content[i][1]) = Content(content[j][1]) => i = j
            ELSE content \in Seq(Int) /\ Len(content) >= Len(Flags(heap, n))
       /\ heap[n].type = "Tensor" => Len(content) \in {1, 2}
       /\ \A v \in Parts(heap, n) : IsObject(v) => v < n

KeyAt(heap, n, k) ==
  LET at == {i \in DOMAIN heap[n].content : Content(heap[n].content[i][1]) = Content(k)}
  IN IF at = {} THEN 0 ELSE CHOOSE i \in at : \A j \in at : i <= j
HasKey(heap, n, k) == KeyAt(heap, n, k) # 0

-----------------------------------------------------------------------------
(* Results, and comparisons of what has no parts.                          *)

\* equal_map_lhs_ and equal_map_rhs_.
Mapping == LET To == [Node -> Node \union {Unmapped}] IN [lhs : To, rhs : To]

Record(m, l, r) == [lhs |-> [m.lhs EXCEPT ![l] = r], rhs |-> [m.rhs EXCEPT ![r] = l]]

MapLhsToRhs(m, v) == IF IsObject(v) /\ m.lhs[v] # Unmapped THEN m.lhs[v] ELSE v
MapRhsToLhs(m, v) == IF IsObject(v) /\ m.rhs[v] # Unmapped THEN m.rhs[v] ELSE v

\* AccessStep: where a comparison stopped, one step per side and level.
Step(kind, l, r) == <<[kind |-> kind, lhs |-> l, rhs |-> r]>>
Missing == 0   \* ArrayItemMissing, MapItemMissing

Result(outcome, mapping, path) ==
  [outcome |-> outcome, mapping |-> mapping, path |-> path]

\* The caller adds its step to the path of a mismatch.
Under(step, res) ==
  IF res.outcome = "different" THEN [res EXCEPT !.path = step \o @] ELSE res

Verdict(b) == IF b THEN "equal" ELSE "different"
Ends(outcome) == [m \in Mapping |-> Result(outcome, m, <<>>)]
Answer(b) == Ends(Verdict(b))
At(step, comparison) == [m \in Mapping |-> Under(step, comparison[m])]

\* Comparisons one after the other, up to the first that does not answer equal.
InOrder(comparisons) ==
  [m \in Mapping |->
     LET after[i \in 0 .. Len(comparisons)] ==
           IF i = 0 THEN Result("equal", m, <<>>)
           ELSE LET before == after[i - 1]
                IN IF before.outcome = "equal" THEN comparisons[i][before.mapping] ELSE before
     IN after[Len(comparisons)]]

Readable(heap, n) == Len(heap[n].content) = 2

\* Data is looked at, or refused, once the shapes agree.
CompareNDArray(heap, opt, l, r) ==
  LET same_shape == heap[l].content[1] = heap[r].content[1]
      by_data == l # r /\ same_shape /\ ~opt.skip
  IN CASE ~by_data -> Answer(l = r \/ same_shape)
       [] by_data /\ ~(Readable(heap, l) /\ Readable(heap, r)) -> Ends("throw")
       [] OTHER -> Answer(heap[l].content[2] = heap[r].content[2])

-----------------------------------------------------------------------------
(* Comparisons of what has parts.  equal[l][free][r] compares two objects   *)
(* of which l is older than the one at hand.  opt: skip_ndarray_content_,   *)
(* and whether mismatches are traced; free: map_free_vars_.                 *)

CompareAny(equal, free, l, r) ==
  IF IsObject(l) /\ IsObject(r) THEN equal[l][free][r]
  ELSE Answer(Content(l) = Content(r))

Least(i, j) == IF i <= j THEN i ELSE j

CompareItems(heap, equal, free, l, r) ==
  InOrder([i \in 1 .. Least(Len(heap[l].content), Len(heap[r].content)) |->
             At(Step("item", i, i),
                CompareAny(equal, free, heap[l].content[i], heap[r].content[i]))])

\* Fault: with tracing, arrays of different sizes are equal on a common prefix.
CompareArrayPrefix(heap, opt, equal, free, l, r) ==
  IF Len(heap[l].content) # Len(heap[r].content) /\ ~opt.trace THEN Answer(FALSE)
  ELSE CompareItems(heap, equal, free, l, r)

CompareArray(heap, opt, equal, free, l, r) ==
  LET ll == Len(heap[l].content)
      lr == Len(heap[r].content)
      step == IF ll > lr THEN Step("item", lr + 1, Missing) ELSE Step("item", Missing, ll + 1)
  IN IF ll # lr /\ ~opt.trace THEN Answer(FALSE)
     ELSE [m \in Mapping |->
             LET res == CompareItems(heap, equal, free, l, r)[m]
             IN IF res.outcome # "equal" \/ ll = lr THEN res
                ELSE Result("different", res.mapping, step)]

\* A key is looked up under its image.
CompareEntry(heap, equal, free, l, r, i) ==
  [m \in Mapping |->
     LET key == heap[l].content[i][1]
         image == MapLhsToRhs(m, key)
         at == KeyAt(heap, r, image)
     IN IF at = 0 THEN Result("different", m, Step("key", key, Missing))
        ELSE Under(Step("key", key, image),
                   CompareAny(equal, free, heap[l].content[i][2], heap[r].content[at][2])[m])]

\* In the iteration order of the left map.
CompareEntries(heap, equal, free, l, r) ==
  InOrder([i \in 1 .. Len(heap[l].content) |-> CompareEntry(heap, equal, free, l, r, i)])

\* A key of the right map that the left one does not have.
ExtraKey(heap, m, l, r) ==
  LET content == heap[r].content
      extra == {i \in DOMAIN content : ~HasKey(heap, l, MapRhsToLhs(m, content[i][1]))}
  IN IF extra = {} THEN <<>>
     ELSE Step("key", Missing, content[CHOOSE i \in extra : \A j \in extra : i <= j][1])

CompareMap(heap, opt, equal, free, l, r) ==
  LET ll == Len(heap[l].content)
      lr == Len(heap[r].content)
  IN IF ll # lr /\ ~opt.trace THEN Answer(FALSE)
     ELSE [m \in Mapping |->
             LET res == CompareEntries(heap, equal, free, l, r)[m]
             IN IF res.outcome # "equal" \/ ll = lr THEN res
                ELSE Result("different", res.mapping, ExtraKey(heap, res.mapping, l, r))]

CompareFields(heap, equal, free, l, r) ==
  LET Field(i) ==
        LET flag == Flags(heap, l)[i]
        IN IF flag = "ignore" THEN Answer(TRUE)
           ELSE At(Step("attr", i, i),
                   CompareAny(equal, free \/ flag = "def",
                              heap[l].content[i], heap[r].content[i]))
  IN InOrder([i \in 1 .. Len(Flags(heap, l)) |-> Field(i)])

Recorded(heap, n) == Kind(heap, n) \in {"DAGNode", "FreeVar"}

\* Fault: the image of the right object is not checked.
KnownOutcomeLeftOnly(heap, m, l, r) ==
  LET kind == Kind(heap, l)
  IN CASE kind = "Unsupported" -> "throw"
       [] kind = "UniqueInstance" -> Verdict(l = r)
       [] kind = "ConstTreeNode" /\ l = r -> "equal"
       [] Recorded(heap, l) /\ m.lhs[l] # Unmapped -> Verdict(m.lhs[l] = r)
       [] OTHER -> "unknown"

\* What is known before the fields are looked at.
KnownOutcome(heap, m, l, r) ==
  LET kind == Kind(heap, l)
  IN CASE kind = "Unsupported" -> "throw"
       [] kind = "UniqueInstance" -> Verdict(l = r)
       [] kind = "ConstTreeNode" /\ l = r -> "equal"
       [] Recorded(heap, l) /\ m.lhs[l] # Unmapped -> Verdict(m.lhs[l] = r)
       [] Recorded(heap, l) /\ m.lhs[l] = Unmapped /\ m.rhs[r] # Unmapped -> "different"
       [] OTHER -> "unknown"

CompareObject(heap, equal, free, l, r) ==
  [m \in Mapping |->
     LET known == KnownOutcome(heap, m, l, r)
         res == CompareFields(heap, equal, free, l, r)[m]
     IN IF known # "unknown" THEN Result(known, m, <<>>)
        ELSE IF res.outcome # "equal" \/ ~Recorded(heap, l) THEN res
        ELSE IF Kind(heap, l) = "FreeVar" /\ ~(l = r \/ free)
          THEN Result("different", res.mapping, <<>>)
        ELSE Result("equal", Record(res.mapping, l, r), <<>>)]

\* CompareAny of two objects.
CompareObjects(heap, opt, equal, free, l, r) ==
  IF heap[l].type # heap[r].type THEN Answer(FALSE)
  ELSE CASE heap[l].type = "Array" -> CompareArray(heap, opt, equal, free, l, r)
         [] heap[l].type = "Map" -> CompareMap(heap, opt, equal, free, l, r)
         [] heap[l].type = "Tensor" -> CompareNDArray(heap, opt, l, r)
         [] OTHER -> CompareObject(heap, equal, free, l, r)

Comparisons(heap, opt) ==
  LET equal[l \in Node] ==
        [free \in BOOLEAN |-> [r \in Node |-> CompareObjects(heap, opt, equal, free, l, r)]]
  IN equal

NothingMapped == [lhs |-> [n \in Node |-> Unmapped], rhs |-> [n \in Node |-> Unmapped]]

\* StructuralEqual::Equal and GetFirstMismatch: a handler of its own per call.
Equal(heap, l, r, free, skip) ==
  CompareAny(Comparisons(heap, [skip |-> skip, trace |-> FALSE]), free, l, r)
    [NothingMapped].outcome
FirstMismatch(heap, l, r, free, skip) ==
  CompareAny(Comparisons(heap, [skip |-> skip, trace |-> TRUE]), free, l, r)[NothingMapped]
=============================================================================
