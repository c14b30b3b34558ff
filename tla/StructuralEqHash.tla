-------------------------- MODULE StructuralEqHash --------------------------
(***************************************************************************)
(* A caller of StructuralEqual and StructuralHash: it has two values in    *)
(* one heap and asks whether they are equal, the same the other way round, *)
(* where they first differ, and for their hash values.                     *)
(***************************************************************************)
EXTENDS StructuralHash

CONSTANT Inputs   \* the [heap, lhs, rhs, free, skip] the caller may pass: a heap, two
                  \* values in it, map_free_vars and skip_ndarray_content

ASSUME InputsAssumption ==
  \A i \in Inputs :
    /\ IsHeap(i.heap)
    /\ i.lhs \in Int /\ i.rhs \in Int
    /\ i.free \in BOOLEAN /\ i.skip \in BOOLEAN

VARIABLES
  input,
  answer    \* what the calls answered, or NoAnswer

vars == <<input, answer>>

NoAnswer == [asked |-> FALSE]

Init ==
  /\ input \in Inputs
  /\ answer = NoAnswer

Ask ==
  /\ answer = NoAnswer
  /\ LET h == input.heap
         l == input.lhs
         r == input.rhs
     IN answer' = [asked |-> TRUE,
                   equal |-> Equal(h, l, r, input.free, input.skip),
                   swapped |-> Equal(h, r, l, input.free, input.skip),
                   mismatch |-> FirstMismatch(h, l, r, input.free, input.skip),
                   lhs_hash |-> Hash(h, l, input.free, input.skip),
                   rhs_hash |-> Hash(h, r, input.free, input.skip)]
  /\ UNCHANGED input

Next == Ask

Spec == Init /\ [][Next]_vars

-----------------------------------------------------------------------------
(* Properties. *)

\* The objects that an object holds, directly or through others.
Below(n) ==
  {v \in Node :
     \A S \in SUBSET Node :
       (\A k \in S \union {n} : Parts(input.heap, k) \cap Node \subseteq S) => v \in S}

OfKind(k) == {n \in Node : Kind(input.heap, n) = k}
\* An object at which the walks throw.
SomeRefused ==
  \/ OfKind("Unsupported") # {}
  \/ ~input.skip /\ \E n \in Node : input.heap[n].type = "Tensor" /\ ~Readable(input.heap, n)

Maps == {n \in Node : input.heap[n].type = "Map"}
Entries(n) == DOMAIN input.heap[n].content

\* A Map has keys that are objects.
ObjectKeys ==
  \E n \in Maps : \E i \in Entries(n) : IsObject(input.heap[n].content[i][1])

\* A Map of several entries holds a definition of variables: what an entry
\* compares to, and hashes to, depends on the entries before it.
BindsInMap ==
  /\ ~input.free
  /\ \E n \in Maps : \E d \in Below(n), i \in Entries(n), j \in Entries(n) :
       i # j /\ \E f \in DOMAIN Flags(input.heap, d) : Flags(input.heap, d)[f] = "def"

\* A node that is compared by its address holds objects that the hash counts.
StopsAtPointer ==
  \E n \in OfKind("ConstTreeNode") \union OfKind("UniqueInstance") :
    \E v \in Below(n) : Recorded(input.heap, v)

\* The same bytes occur as a small value and as a Bytes object, which are equal
\* and hash differently.
BytesInBothForms ==
  LET values == {input.lhs, input.rhs} \union UNION {Parts(input.heap, n) : n \in Node}
  IN \E v \in values \intersect DOMAIN HeapBytes : HeapBytes[v] \in values

\* Values that compare equal hash the same, or refuse to be hashed, however the
\* two graphs share objects and wherever free variables are mapped, as a hash
\* table needs and the tests assert pair by pair.  The code does not keep this in
\* the four cases that are excepted, see the README.
EqualImpliesSameHash ==
  answer # NoAnswer /\ answer.equal = "equal" =>
    \/ answer.lhs_hash = answer.rhs_hash
    \/ ObjectKeys \/ BindsInMap \/ StopsAtPointer \/ BytesInBothForms

\* The other way: the hash forgets nothing but the identity of unique instances
\* and entries under object keys, so graphs that differ in what they share, or
\* in which variable is bound where, are told apart by it.
SameHashImpliesEqual ==
  answer # NoAnswer /\ answer.lhs_hash = answer.rhs_hash /\ ~Throws(answer.lhs_hash) =>
    \/ answer.equal = "equal"
    \/ ObjectKeys \/ BindsInMap \/ OfKind("UniqueInstance") # {}

\* Tracing the mismatch does not change the verdict, although the early returns
\* on a size mismatch are taken only without tracing: values are equal for both,
\* and what is different for one is different for the other unless the trace
\* meets an object that cannot be compared, or a tensor whose data cannot be
\* read, before it gets to the difference.
MismatchAgreesWithEqual ==
  answer # NoAnswer =>
    \/ answer.mismatch.outcome = answer.equal
    \/ /\ answer.equal = "different" /\ answer.mismatch.outcome = "throw"
       /\ SomeRefused

\* Equal(a, b) and Equal(b, a) agree, although the comparison walks the left
\* value and looks keys up in the right one; only which of several differences,
\* or objects that cannot be compared, is met first depends on the side.
EqualIsSymmetric ==
  answer # NoAnswer =>
    \/ answer.equal = answer.swapped
    \/ {answer.equal, answer.swapped} = {"different", "throw"} /\ SomeRefused
    \/ ObjectKeys \/ BindsInMap

\* "if rhs is mapped but lhs is not, it means lhs is a free var, return false"
\* (structural_equal.cpp, CompareObject): then no verdict depends on the side
\* an object is on, map keys included.
EqualIsSymmetricForEveryMap ==
  answer # NoAnswer => (answer.equal = "equal" <=> answer.swapped = "equal")
=============================================================================
