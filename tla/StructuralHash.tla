--------------------------- MODULE StructuralHash ---------------------------
(***************************************************************************)
(* StructuralHashHandler (src/ffi/extra/structural_hash.cpp).  A hash value *)
(* is the sequence of what was combined into it, so that two hash values   *)
(* are equal only when the code combines equal things: what remains are    *)
(* the collisions the algorithm itself makes.                              *)
(***************************************************************************)
EXTENDS StructuralEqual, SequencesExt

\* StableHashCombine.
Combine(h, g) == <<-1>> \o h \o g \o <<-2>>
TypeKeyHash(heap, n) == <<-3, Types[heap[n].type].code>>
PointerHash(n) == <<-4, n>>
\* The type index of plain data counts: a Bytes object does not hash like the
\* small value of the same bytes.
DataHash(v) == <<-5, v>>
\* An exception ends the walk: it is in every hash value that would be computed
\* from here on.
Thrown == -6

\* The handler: the memo of the objects hashed, and the two counters.
NothingHashed == [memo |-> [n \in Node |-> <<>>], free_var |-> 0, graph_node |-> 0]
HashState == [memo : [Node -> Seq(Int)], free_var : Nat, graph_node : Nat]

\* A hash value and the state after it; another value that is combined into it.
Hashed(st, h) == [state |-> st, hash |-> h]
Into(run, next) == Hashed(next.state, Combine(run.hash, next.hash))

\* FindOrderIndependentHash: none for an object that was not hashed before.
KeyHash(st, k) == IF IsObject(k) THEN st.memo[k] ELSE DataHash(k)

\* An order of hash values that is the same on every call.
Before(g, h) ==
  \/ Len(g) < Len(h)
  \/ /\ Len(g) = Len(h)
     /\ \E i \in DOMAIN g : g[i] < h[i] /\ \A j \in 1 .. i - 1 : g[j] = h[j]

-----------------------------------------------------------------------------
(* hash[n][free] is the function from the handler's state to the hash of an *)
(* object n that is older than the one at hand.                             *)

HashAny(hash, free, st, v) ==
  IF IsObject(v) THEN hash[v][free][st] ELSE Hashed(st, DataHash(v))

HashArray(heap, hash, free, st, n) ==
  FoldLeft(LAMBDA run, v : Into(run, HashAny(hash, free, run.state, v)),
           Hashed(st, Combine(TypeKeyHash(heap, n), <<Len(heap[n].content)>>)),
           heap[n].content)

\* The entries in the order they are given; of neighbours whose keys tie only the
\* key's hash counts, once.
HashEntries(heap, hash, free, run, items) ==
  LET Tie(i, j) == j \in DOMAIN items /\ items[i][1] = items[j][1]
      Entry(before, i) ==
        LET key == Hashed(before.state, Combine(before.hash, items[i][1]))
        IN IF Tie(i, i - 1) THEN before
           ELSE IF Tie(i, i + 1) THEN key
           ELSE Into(key, HashAny(hash, free, key.state, items[i][2]))
  IN FoldLeft(Entry, run, [i \in DOMAIN items |-> i])

\* The entries whose key has a hash.
Hashable(heap, st, n) ==
  LET content == heap[n].content
  IN SelectSeq([i \in DOMAIN content |-> <<KeyHash(st, content[i][1]), content[i][2]>>],
               LAMBDA p : p[1] # <<>>)

\* Fault: the entries are hashed in the map's iteration order.
HashMapUnsorted(heap, hash, free, st, n) ==
  HashEntries(heap, hash, free,
              Hashed(st, Combine(TypeKeyHash(heap, n), <<Len(heap[n].content)>>)),
              Hashable(heap, st, n))

HashMap(heap, hash, free, st, n) ==
  HashEntries(heap, hash, free,
              Hashed(st, Combine(TypeKeyHash(heap, n), <<Len(heap[n].content)>>)),
              SortSeq(Hashable(heap, st, n), LAMBDA p, q : Before(p[1], q[1])))

HashNDArray(heap, skip, st, n) ==
  LET shaped == Combine(TypeKeyHash(heap, n), DataHash(heap[n].content[1]))
  IN Hashed(st, CASE skip -> shaped
                  [] ~skip /\ Readable(heap, n) -> Combine(shaped, DataHash(heap[n].content[2]))
                  [] OTHER -> <<Thrown>>)

HashFields(heap, hash, free, st, n) ==
  LET Field(run, i) ==
        LET flag == Flags(heap, n)[i]
        IN IF flag = "ignore" THEN run
           ELSE Into(run, HashAny(hash, free \/ flag = "def", run.state, heap[n].content[i]))
  IN FoldLeft(Field, Hashed(st, TypeKeyHash(heap, n)), [i \in DOMAIN Flags(heap, n) |-> i])

\* Fault: the order in which graph nodes are met does not enter their hash.
HashObjectAsTree(heap, hash, free, st, n) ==
  LET fields == HashFields(heap, hash, free, st, n)
      var == Kind(heap, n) = "FreeVar"
      value == CASE var /\ free -> Combine(fields.hash, <<fields.state.free_var>>)
                 [] var /\ ~free -> PointerHash(n)
                 [] OTHER -> fields.hash
  IN IF Kind(heap, n) = "Unsupported" THEN Hashed(st, <<Thrown>>)
     ELSE IF st.memo[n] # <<>> THEN Hashed(st, st.memo[n])
     ELSE Hashed([fields.state EXCEPT !.memo[n] = value,
                                      !.free_var = @ + (IF var /\ free THEN 1 ELSE 0)], value)

HashObject(heap, hash, free, st, n) ==
  LET kind == Kind(heap, n)
      fields == HashFields(heap, hash, free, st, n)
      s == fields.state
      value == CASE kind = "FreeVar" /\ free -> Combine(fields.hash, <<s.free_var>>)
                 [] kind = "FreeVar" /\ ~free -> PointerHash(n)
                 [] kind = "DAGNode" -> Combine(fields.hash, <<s.graph_node>>)
                 [] OTHER -> fields.hash
      counted == CASE kind = "FreeVar" /\ free -> [s EXCEPT !.free_var = @ + 1]
                   [] kind = "DAGNode" -> [s EXCEPT !.graph_node = @ + 1]
                   [] OTHER -> s
  IN IF kind = "Unsupported" THEN Hashed(st, <<Thrown>>)
     ELSE IF st.memo[n] # <<>> THEN Hashed(st, st.memo[n])
     ELSE Hashed([counted EXCEPT !.memo[n] = value], value)

Hashes(heap, skip) ==
  LET hash[n \in Node] ==
        [free \in BOOLEAN |->
           [st \in HashState |->
              CASE heap[n].type = "Array" -> HashArray(heap, hash, free, st, n)
                [] heap[n].type = "Map" -> HashMap(heap, hash, free, st, n)
                [] heap[n].type = "Tensor" -> HashNDArray(heap, skip, st, n)
                [] OTHER -> HashObject(heap, hash, free, st, n)]]
  IN hash

Throws(h) == \E i \in DOMAIN h : h[i] = Thrown

\* StructuralHash::Hash
Hash(heap, v, free, skip) ==
  LET h == HashAny(Hashes(heap, skip), free, NothingHashed, v).hash
  IN IF Throws(h) THEN <<Thrown>> ELSE h
=============================================================================
