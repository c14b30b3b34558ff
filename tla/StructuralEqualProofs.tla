----------------------- MODULE StructuralEqualProofs -----------------------
(***************************************************************************)
(* Structural equality on every heap, of any number of objects: tracing    *)
(* does not change the verdict, nor does the order of the two values.      *)
(*                                                                         *)
(* Induction over the walk: predicates are sets of numbers, and a set of   *)
(* numbers that is not empty has a least one (WFMin of the library).       *)
(***************************************************************************)
EXTENDS StructuralEqHash, FiniteSetTheorems, WellFoundedInduction, TLAPS

(***************************************************************************)
(* Induction.                                                              *)
(***************************************************************************)

LEMMA LeastNumber ==
  ASSUME NEW T, T \subseteq Nat, T # {}
  PROVE  \E m \in T : \A n \in T : m <= n
<1> DEFINE R == {p \in Nat \X Nat : p[1] < p[2]}
<1>1. IsWellFoundedOn(R, Nat)
  BY NatLessThanWellFounded DEF OpToRel
<1>2. PICK m \in T : \A n \in T : ~(<<n, m>> \in R)
  <2> HIDE DEF R
  <2> QED BY <1>1, WFMin
<1>3. ASSUME NEW n \in T PROVE m <= n
  <2>1. n \in Nat /\ m \in Nat
    OBVIOUS
  <2>2. <<n, m>> \in Nat \X Nat /\ <<n, m>>[1] = n /\ <<n, m>>[2] = m
    BY <2>1
  <2>3. ~(n < m)
    BY <1>2, <2>2
  <2> QED BY <2>1, <2>3
<1> QED BY <1>3

\* A set that holds a number when it holds all smaller ones holds them all.
LEMMA AllNumbers ==
  ASSUME NEW P, \A n \in Nat : (\A k \in Nat : k < n => k \in P) => n \in P
  PROVE  \A n \in Nat : n \in P
<1> SUFFICES ASSUME NEW j \in Nat, j \notin P PROVE FALSE
  OBVIOUS
<1> DEFINE T == {n \in Nat : n \notin P}
<1>1. PICK m \in T : \A n \in T : m <= n
  <2>1. T \subseteq Nat /\ T # {}
    OBVIOUS
  <2> HIDE DEF T
  <2> QED BY <2>1, LeastNumber
<1>2. \A k \in Nat : k < m => k \in P
  BY <1>1
<1> QED BY <1>1, <1>2

LEMMA Objects == Cardinality(Node) \in Nat /\ Node = 1 .. Cardinality(Node)
BY StructuralAssumption, FS_CardinalityType

-----------------------------------------------------------------------------
(* Comparisons one after the other.                                        *)

IsRun(after, comparisons, m, n) ==
  after = [i \in 0 .. n |->
             IF i = 0 THEN Result("equal", m, <<>>)
             ELSE IF after[i - 1].outcome = "equal"
                    THEN comparisons[i][after[i - 1].mapping] ELSE after[i - 1]]

After(comparisons, m) == CHOOSE after : IsRun(after, comparisons, m, Len(comparisons))

LEMMA RunExists ==
  ASSUME NEW cs, NEW m
  PROVE  \A n \in Nat : \E after : IsRun(after, cs, m, n)
<1> DEFINE Following(i, before) ==
             IF before.outcome = "equal" THEN cs[i][before.mapping] ELSE before
           Runs(after, n) ==
             after = [i \in 0 .. n |-> IF i = 0 THEN Result("equal", m, <<>>)
                                       ELSE Following(i, after[i - 1])]
           P == {n \in Nat : \E after : Runs(after, n)}
<1>1. ASSUME NEW n \in Nat, \A k \in Nat : k < n => k \in P
      PROVE  n \in P
  <2> HIDE DEF Following
  <2>1. CASE n = 0
    <3> DEFINE f == [i \in 0 .. 0 |-> Result("equal", m, <<>>)]
    <3>1. f = [i \in 0 .. 0 |-> IF i = 0 THEN Result("equal", m, <<>>)
                                ELSE Following(i, f[i - 1])]
      OBVIOUS
    <3> QED BY <2>1, <3>1
  <2>2. CASE n # 0
    <3>1. n - 1 \in P
      BY <1>1, <2>2
    <3>2. PICK g : Runs(g, n - 1)
      BY <3>1
    <3> DEFINE f == [i \in 0 .. n |-> IF i = n THEN Following(n, g[n - 1]) ELSE g[i]]
    <3>3. \A i \in 0 .. n - 1 : f[i] = g[i]
      OBVIOUS
    <3>4. \A i \in 0 .. n : f[i] = IF i = 0 THEN Result("equal", m, <<>>)
                                   ELSE Following(i, f[i - 1])
      <4> TAKE i \in 0 .. n
      <4>1. CASE i = n
        BY <4>1, <3>3, <2>2
      <4>2. CASE i # n /\ i = 0
        BY <4>2, <3>2, <2>2
      <4>3. CASE i # n /\ i # 0
        <5>1. i \in 0 .. n - 1 /\ i - 1 \in 0 .. n - 1
          BY <4>3
        <5>2. g[i] = Following(i, g[i - 1])
          BY <3>2, <4>3, <5>1
        <5> QED BY <5>1, <5>2, <3>3, <4>3
      <4> QED BY <4>1, <4>2, <4>3
    <3>5. Runs(f, n)
      <4> HIDE DEF Following
      <4> QED BY <3>4
    <3> QED BY <3>5
  <2> QED BY <2>1, <2>2
<1>2. \A n \in Nat : n \in P
  <2> HIDE DEF P
  <2> QED BY <1>1, AllNumbers
<1> QED BY <1>2 DEF IsRun

LEMMA AfterSteps ==
  ASSUME NEW cs, Len(cs) \in Nat, NEW m \in Mapping
  PROVE  /\ InOrder(cs)[m] = After(cs, m)[Len(cs)]
         /\ After(cs, m)[0] = Result("equal", m, <<>>)
         /\ \A i \in 1 .. Len(cs) :
              After(cs, m)[i] =
                IF After(cs, m)[i - 1].outcome = "equal"
                  THEN cs[i][After(cs, m)[i - 1].mapping] ELSE After(cs, m)[i - 1]
<1>1. InOrder(cs)[m] = After(cs, m)[Len(cs)]
  BY DEF InOrder, After, IsRun
<1>2. After(cs, m) =
        [i \in 0 .. Len(cs) |->
           IF i = 0 THEN Result("equal", m, <<>>)
           ELSE IF After(cs, m)[i - 1].outcome = "equal"
                  THEN cs[i][After(cs, m)[i - 1].mapping]
                ELSE After(cs, m)[i - 1]]
  <2>1. \E after : IsRun(after, cs, m, Len(cs))
    BY RunExists
  <2>2. IsRun(After(cs, m), cs, m, Len(cs))
    BY <2>1 DEF After
  <2> QED BY <2>2 DEF IsRun
<1> HIDE DEF After
<1> DEFINE af == After(cs, m)
<1>3. af = [i \in 0 .. Len(cs) |->
              IF i = 0 THEN Result("equal", m, <<>>)
              ELSE IF af[i - 1].outcome = "equal" THEN cs[i][af[i - 1].mapping] ELSE af[i - 1]]
  BY <1>2
<1> HIDE DEF af
<1>4. af[0] = Result("equal", m, <<>>)
  BY <1>3
<1>5. ASSUME NEW i \in 1 .. Len(cs)
      PROVE  af[i] = IF af[i - 1].outcome = "equal" THEN cs[i][af[i - 1].mapping] ELSE af[i - 1]
  BY <1>3
<1> QED BY <1>1, <1>4, <1>5 DEF af

-----------------------------------------------------------------------------
(* The walk.                                                               *)

\* What an object refers to.
LEMMA HeapFacts ==
  ASSUME NEW heap, IsHeap(heap), NEW n \in Node
  PROVE  /\ heap[n].type \in DOMAIN Types
         /\ heap[n].type = "Map" =>
              /\ heap[n].content \in Seq(Int \X Int)
              /\ \A i \in 1 .. Len(heap[n].content) :
                   \A j \in {1, 2} :
                     IsObject(heap[n].content[i][j]) => heap[n].content[i][j] < n
         /\ heap[n].type # "Map" =>
              /\ heap[n].content \in Seq(Int)
              /\ Len(Flags(heap, n)) \in Nat /\ Len(Flags(heap, n)) <= Len(heap[n].content)
              /\ \A i \in 1 .. Len(heap[n].content) :
                   IsObject(heap[n].content[i]) => heap[n].content[i] < n
<1> DEFINE content == heap[n].content
<1>1. /\ heap[n].type \in DOMAIN Types
      /\ IF heap[n].type = "Map"
           THEN content \in Seq(Int \X Int)
           ELSE content \in Seq(Int) /\ Len(content) >= Len(Flags(heap, n))
      /\ \A v \in Parts(heap, n) : IsObject(v) => v < n
  BY DEF IsHeap
<1>2. ASSUME heap[n].type = "Map", NEW i \in 1 .. Len(content), NEW j \in {1, 2}
      PROVE  IsObject(content[i][j]) => content[i][j] < n
  <2>1. i \in DOMAIN content
    BY <1>1, <1>2
  <2>2. content[i][j] \in Parts(heap, n)
    BY <2>1, <1>2 DEF Parts
  <2> QED BY <1>1, <2>2
<1>3. ASSUME heap[n].type # "Map", NEW i \in 1 .. Len(content)
      PROVE  IsObject(content[i]) => content[i] < n
  <2>1. i \in DOMAIN content
    BY <1>1, <1>3
  <2>2. content[i] \in Parts(heap, n)
    BY <2>1, <1>3 DEF Parts
  <2> QED BY <1>1, <2>2
<1>4. Len(Flags(heap, n)) \in Nat
  BY <1>1, StructuralAssumption DEF Flags
<1>5. heap[n].type # "Map" => Len(Flags(heap, n)) <= Len(content) /\ content \in Seq(Int)
  <2>1. heap[n].type # "Map" => content \in Seq(Int) /\ Len(content) >= Len(Flags(heap, n))
    BY <1>1
  <2>2. ASSUME content \in Seq(Int) PROVE Len(content) \in Nat
    BY <2>2
  <2> QED BY <2>1, <2>2, <1>4
<1> QED BY <1>1, <1>2, <1>3, <1>4, <1>5

\* Comparisons that agree on the objects older than l.
AgreeBelow(f, g, l) == \A c \in Node : c < l => f[c] = g[c]

LEMMA SameAny ==
  ASSUME NEW l, NEW f, NEW g, AgreeBelow(f, g, l), NEW x, IsObject(x) => x < l
  PROVE  \A free, r : CompareAny(f, free, x, r) = CompareAny(g, free, x, r)
BY DEF AgreeBelow, CompareAny, IsObject

\* What an object compares to depends on comparisons of older objects only.
LEMMA SameObjects ==
  ASSUME NEW heap, IsHeap(heap), NEW opt, NEW l \in Node, NEW r \in Node, NEW free,
         NEW f, NEW g, AgreeBelow(f, g, l)
  PROVE  CompareObjects(heap, opt, f, free, l, r) = CompareObjects(heap, opt, g, free, l, r)
<1> DEFINE content == heap[l].content
<1>1. CASE heap[l].type = "Map"
  <2>1. ASSUME NEW i \in 1 .. Len(content)
        PROVE  CompareEntry(heap, f, free, l, r, i) = CompareEntry(heap, g, free, l, r, i)
    <3>1. IsObject(content[i][2]) => content[i][2] < l
      BY <1>1, HeapFacts
    <3>2. \A y : CompareAny(f, free, content[i][2], y) = CompareAny(g, free, content[i][2], y)
      BY <3>1, SameAny
    <3> QED BY <3>2, Zenon DEF CompareEntry
  <2>2. [i \in 1 .. Len(content) |-> CompareEntry(heap, f, free, l, r, i)]
          = [i \in 1 .. Len(content) |-> CompareEntry(heap, g, free, l, r, i)]
    BY <2>1
  <2>4. CompareEntries(heap, f, free, l, r) = CompareEntries(heap, g, free, l, r)
    BY <2>2, Zenon DEF CompareEntries
  <2>3. CompareMap(heap, opt, f, free, l, r) = CompareMap(heap, opt, g, free, l, r)
    BY <2>4, Zenon DEF CompareMap
  <2> QED BY <1>1, <2>3 DEF CompareObjects
<1>2. CASE heap[l].type # "Map"
  <2>0. \A i \in 1 .. Len(content) : IsObject(content[i]) => content[i] < l
    BY <1>2, HeapFacts
  <2>1. ASSUME NEW i \in 1 .. Len(content), NEW fr, NEW y
        PROVE  CompareAny(f, fr, content[i], y) = CompareAny(g, fr, content[i], y)
    BY <2>0, SameAny
  <2>2. CASE heap[l].type = "Array" /\ heap[r].type = "Array"
    <3>1. heap[r].content \in Seq(Int) /\ content \in Seq(Int)
      BY <2>2, HeapFacts
    <3>2. \A i \in 1 .. Least(Len(content), Len(heap[r].content)) : i \in 1 .. Len(content)
      BY <3>1 DEF Least
    <3>3. [i \in 1 .. Least(Len(content), Len(heap[r].content)) |->
             At(Step("item", i, i), CompareAny(f, free, content[i], heap[r].content[i]))]
        = [i \in 1 .. Least(Len(content), Len(heap[r].content)) |->
             At(Step("item", i, i), CompareAny(g, free, content[i], heap[r].content[i]))]
      BY <2>1, <3>2
    <3>4. CompareItems(heap, f, free, l, r) = CompareItems(heap, g, free, l, r)
      BY <3>3, Zenon DEF CompareItems
    <3>5. CompareArray(heap, opt, f, free, l, r) = CompareArray(heap, opt, g, free, l, r)
      BY <3>4, Zenon DEF CompareArray
    <3> QED BY <2>2, <3>5 DEF CompareObjects
  <2>3. CASE heap[l].type # "Array"
    <3> DEFINE Field(h, i) ==
                 IF Flags(heap, l)[i] = "ignore" THEN Answer(TRUE)
                 ELSE At(Step("attr", i, i),
                         CompareAny(h, free \/ Flags(heap, l)[i] = "def",
                                    content[i], heap[r].content[i]))
    <3>1. \A i \in 1 .. Len(Flags(heap, l)) : i \in 1 .. Len(content)
      BY <1>2, HeapFacts
    <3>2. \A i \in 1 .. Len(Flags(heap, l)) : Field(f, i) = Field(g, i)
      BY <2>1, <3>1
    <3> HIDE DEF Field
    <3>3. [i \in 1 .. Len(Flags(heap, l)) |-> Field(f, i)]
            = [i \in 1 .. Len(Flags(heap, l)) |-> Field(g, i)]
      BY <3>2
    <3> USE DEF Field
    <3>4. CompareFields(heap, f, free, l, r) = CompareFields(heap, g, free, l, r)
      BY <3>3, Zenon DEF CompareFields
    <3>5. CompareObject(heap, f, free, l, r) = CompareObject(heap, g, free, l, r)
      BY <3>4, Zenon DEF CompareObject
    <3> QED BY <1>2, <2>3, <3>5 DEF CompareObjects
  <2> QED BY <1>2, <2>2, <2>3 DEF CompareObjects
<1> QED BY <1>1, <1>2

IsWalk(equal, heap, opt, n) ==
  equal = [l \in 1 .. n |->
             [free \in BOOLEAN |->
                [r \in Node |-> CompareObjects(heap, opt, equal, free, l, r)]]]

LEMMA WalkExists ==
  ASSUME NEW heap, IsHeap(heap), NEW opt
  PROVE  \E equal : IsWalk(equal, heap, opt, Cardinality(Node))
<1> DEFINE N == Cardinality(Node)
           P == {n \in Nat : n <= N => \E equal : IsWalk(equal, heap, opt, n)}
<1>0. N \in Nat /\ Node = 1 .. N
  BY Objects
<1>1. ASSUME NEW n \in Nat, \A k \in Nat : k < n => k \in P
      PROVE  n \in P
  <2>1. CASE n = 0
    <3> DEFINE f == [l \in 1 .. 0 |-> 0]
    <3>1. IsWalk(f, heap, opt, 0)
      BY DEF IsWalk
    <3> QED BY <2>1, <3>1
  <2>2. CASE n # 0 /\ n <= N
    <3>1. n - 1 \in P /\ n - 1 \in Nat /\ n - 1 <= N
      BY <1>0, <1>1, <2>2
    <3>2. PICK g : IsWalk(g, heap, opt, n - 1)
      BY <3>1
    <3> DEFINE new == [free \in BOOLEAN |-> [r \in Node |-> CompareObjects(heap, opt, g, free, n, r)]]
               f == [l \in 1 .. n |-> IF l = n THEN new ELSE g[l]]
    <3>3. \A l \in 1 .. n - 1 : f[l] = g[l] /\ l \in Node /\ l < n
      BY <1>0, <2>2
    <3>4. n \in Node /\ \A c \in Node : c < n => c \in 1 .. n - 1
      BY <1>0, <2>2
    <3>5. f[n] = new
      BY <3>4, <2>2
    <3> HIDE DEF f
    <3>6. \A l \in 1 .. n : AgreeBelow(f, g, l)
      BY <1>0, <2>2, <3>3 DEF AgreeBelow
    <3>7. \A l \in 1 .. n, free \in BOOLEAN, r \in Node :
            CompareObjects(heap, opt, f, free, l, r) = CompareObjects(heap, opt, g, free, l, r)
      BY <3>3, <3>4, <3>6, SameObjects
    <3>8. ASSUME NEW l \in 1 .. n
          PROVE  f[l] = [free \in BOOLEAN |->
                           [r \in Node |-> CompareObjects(heap, opt, f, free, l, r)]]
      <4>1. [free \in BOOLEAN |-> [r \in Node |-> CompareObjects(heap, opt, f, free, l, r)]]
            = [free \in BOOLEAN |-> [r \in Node |-> CompareObjects(heap, opt, g, free, l, r)]]
        BY <3>7
      <4>2. CASE l = n
        BY <3>5, <4>1, <4>2
      <4>3. CASE l # n
        <5>1. l \in 1 .. n - 1
          BY <4>3
        <5>2. g[l] = [free \in BOOLEAN |->
                        [r \in Node |-> CompareObjects(heap, opt, g, free, l, r)]]
          BY <3>2, <5>1 DEF IsWalk
        <5> QED BY <3>3, <4>1, <5>1, <5>2
      <4> QED BY <4>2, <4>3
    <3>9. f = [l \in 1 .. n |-> f[l]]
      BY DEF f
    <3>10. IsWalk(f, heap, opt, n)
      <4> HIDE DEF new
      <4> QED BY <3>8, <3>9, Zenon DEF IsWalk
    <3> QED BY <3>10
  <2>3. CASE ~(n <= N)
    BY <2>3
  <2> QED BY <2>1, <2>2, <2>3
<1>2. \A n \in Nat : n \in P
  <2> HIDE DEF P
  <2> QED BY <1>1, AllNumbers
<1> QED BY <1>0, <1>2

\* The recursive function, unfolded.
LEMMA Walk ==
  ASSUME NEW heap, IsHeap(heap), NEW opt
  PROVE  \A l \in Node, r \in Node, free \in BOOLEAN :
           Comparisons(heap, opt)[l][free][r] =
             CompareObjects(heap, opt, Comparisons(heap, opt), free, l, r)
<1> DEFINE C == Comparisons(heap, opt)
<1>1. Cardinality(Node) \in Nat /\ Node = 1 .. Cardinality(Node)
  BY Objects
<1>2. C = CHOOSE equal : IsWalk(equal, heap, opt, Cardinality(Node))
  BY <1>1, Zenon DEF Comparisons, IsWalk
<1>3. IsWalk(C, heap, opt, Cardinality(Node))
  <2> HIDE DEF C
  <2> QED BY <1>2, WalkExists
<1> HIDE DEF C
<1>4. C = [l \in Node |->
             [free \in BOOLEAN |->
                [r \in Node |-> CompareObjects(heap, opt, C, free, l, r)]]]
  BY <1>1, <1>3, Zenon DEF IsWalk
<1>5. ASSUME NEW l \in Node, NEW r \in Node, NEW free \in BOOLEAN
      PROVE  C[l][free][r] = CompareObjects(heap, opt, C, free, l, r)
  <2>1. C[l] = [fr \in BOOLEAN |->
                  [q \in Node |-> CompareObjects(heap, opt, C, fr, l, q)]]
    BY <1>4
  <2> QED BY <2>1
<1> QED BY <1>5 DEF C

-----------------------------------------------------------------------------
(* Results.                                                                *)

IsResult(res) ==
  /\ res = Result(res.outcome, res.mapping, res.path)
  /\ res.outcome \in {"equal", "different", "throw"}
  /\ res.mapping \in Mapping

LEMMA ResultFacts ==
  ASSUME NEW outcome \in {"equal", "different", "throw"}, NEW m \in Mapping, NEW path
  PROVE  LET res == Result(outcome, m, path)
         IN IsResult(res) /\ res.outcome = outcome /\ res.mapping = m /\ res.path = path
BY DEF IsResult, Result

LEMMA EndsFacts ==
  ASSUME NEW outcome, NEW m \in Mapping
  PROVE  Ends(outcome)[m] = Result(outcome, m, <<>>)
BY DEF Ends

LEMMA AnswerFacts ==
  ASSUME NEW b, NEW m \in Mapping
  PROVE  Answer(b)[m] = Result(IF b THEN "equal" ELSE "different", m, <<>>)
BY EndsFacts DEF Answer, Verdict

LEMMA UnderFacts ==
  ASSUME NEW res, IsResult(res), NEW step
  PROVE  /\ IsResult(Under(step, res))
         /\ Under(step, res).outcome = res.outcome /\ Under(step, res).mapping = res.mapping
BY DEF IsResult, Result, Under

LEMMA AtFacts ==
  ASSUME NEW comparison, NEW m \in Mapping, NEW step
  PROVE  At(step, comparison)[m] = Under(step, comparison[m])
BY DEF At

LEMMA RecordFacts ==
  ASSUME NEW m \in Mapping, NEW l \in Node, NEW r \in Node
  PROVE  Record(m, l, r) \in Mapping
BY DEF Record, Mapping

-----------------------------------------------------------------------------
(* Tracing.                                                                *)

\* A result with tracing and one without; an exception needs an object that
\* cannot be compared.
Agrees(t, f, canThrow) ==
  /\ IsResult(t) /\ IsResult(f)
  /\ f.outcome = "equal" => t.outcome = "equal" /\ t.mapping = f.mapping
  /\ f.outcome = "throw" => t.outcome = "throw"
  /\ f.outcome = "different" => t.outcome # "equal"
  /\ t.outcome = "throw" => canThrow

AllAgree(c, d, canThrow) == \A m \in Mapping : Agrees(c[m], d[m], canThrow)

LEMMA AnswersAgree ==
  ASSUME NEW b, NEW canThrow
  PROVE  AllAgree(Answer(b), Answer(b), canThrow)
<1> SUFFICES ASSUME NEW m \in Mapping
             PROVE  Agrees(Answer(b)[m], Answer(b)[m], canThrow)
  BY DEF AllAgree
<1> DEFINE outcome == IF b THEN "equal" ELSE "different"
           res == Answer(b)[m]
<1>1. res = Result(outcome, m, <<>>)
  BY AnswerFacts
<1>2. outcome \in {"equal", "different", "throw"} /\ outcome # "throw"
  OBVIOUS
<1> HIDE DEF outcome, res
<1>3. IsResult(res) /\ res.outcome = outcome
  BY <1>1, <1>2, ResultFacts
<1>4. Agrees(res, res, canThrow)
  BY <1>2, <1>3 DEF Agrees
<1> QED BY <1>4 DEF res

LEMMA AtAgrees ==
  ASSUME NEW c, NEW d, NEW canThrow, AllAgree(c, d, canThrow), NEW step
  PROVE  AllAgree(At(step, c), At(step, d), canThrow)
<1> SUFFICES ASSUME NEW m \in Mapping
             PROVE  Agrees(At(step, c)[m], At(step, d)[m], canThrow)
  BY DEF AllAgree
<1>1. Agrees(c[m], d[m], canThrow)
  BY DEF AllAgree
<1>2. At(step, c)[m] = Under(step, c[m]) /\ At(step, d)[m] = Under(step, d[m])
  BY AtFacts
<1> QED BY <1>1, <1>2, UnderFacts DEF Agrees

LEMMA InOrderAgrees ==
  ASSUME NEW cs, NEW ds, Len(cs) \in Nat, Len(ds) = Len(cs), NEW canThrow,
         \A i \in 1 .. Len(cs) : AllAgree(cs[i], ds[i], canThrow)
  PROVE  AllAgree(InOrder(cs), InOrder(ds), canThrow)
<1> SUFFICES ASSUME NEW m \in Mapping
             PROVE  Agrees(InOrder(cs)[m], InOrder(ds)[m], canThrow)
  BY DEF AllAgree
<1> DEFINE t == After(cs, m)
           f == After(ds, m)
           P == {n \in Nat : n <= Len(cs) => Agrees(t[n], f[n], canThrow)}
<1>1. /\ InOrder(cs)[m] = t[Len(cs)] /\ t[0] = Result("equal", m, <<>>)
      /\ \A i \in 1 .. Len(cs) :
           t[i] = IF t[i - 1].outcome = "equal" THEN cs[i][t[i - 1].mapping] ELSE t[i - 1]
  BY AfterSteps
<1>2. /\ InOrder(ds)[m] = f[Len(cs)] /\ f[0] = Result("equal", m, <<>>)
      /\ \A i \in 1 .. Len(cs) :
           f[i] = IF f[i - 1].outcome = "equal" THEN ds[i][f[i - 1].mapping] ELSE f[i - 1]
  BY AfterSteps
<1> HIDE DEF t, f
<1>3. ASSUME NEW n \in Nat, \A k \in Nat : k < n => k \in P
      PROVE  n \in P
  <2>1. CASE n = 0
    BY <1>1, <1>2, <2>1, ResultFacts DEF Agrees
  <2>2. CASE n # 0 /\ n <= Len(cs)
    <3>1. n - 1 \in P /\ n - 1 <= Len(cs) /\ n \in 1 .. Len(cs)
      BY <1>3, <2>2
    <3>2. Agrees(t[n - 1], f[n - 1], canThrow)
      BY <3>1
    <3>3. /\ t[n] = IF t[n - 1].outcome = "equal" THEN cs[n][t[n - 1].mapping] ELSE t[n - 1]
          /\ f[n] = IF f[n - 1].outcome = "equal" THEN ds[n][f[n - 1].mapping] ELSE f[n - 1]
      BY <1>1, <1>2, <3>1
    <3>4. CASE f[n - 1].outcome = "equal"
      <4>1. t[n - 1].outcome = "equal" /\ t[n - 1].mapping = f[n - 1].mapping
            /\ f[n - 1].mapping \in Mapping
        BY <3>2, <3>4 DEF Agrees, IsResult
      <4>2. Agrees(cs[n][f[n - 1].mapping], ds[n][f[n - 1].mapping], canThrow)
        BY <3>1, <4>1 DEF AllAgree
      <4> QED BY <2>2, <3>3, <3>4, <4>1, <4>2
    <3>5. CASE f[n - 1].outcome # "equal"
      <4>1. t[n - 1].outcome # "equal"
        BY <3>2, <3>5 DEF Agrees, IsResult
      <4> QED BY <2>2, <3>2, <3>3, <3>5, <4>1
    <3> QED BY <3>4, <3>5
  <2>3. CASE ~(n <= Len(cs))
    BY <2>3
  <2> QED BY <2>1, <2>2, <2>3
<1>4. \A n \in Nat : n \in P
  <2> HIDE DEF P
  <2> QED BY <1>3, AllNumbers
<1> QED BY <1>1, <1>2, <1>4

CanThrow(heap, skip) ==
  \/ \E n \in Node : Kind(heap, n) = "Unsupported"
  \/ ~skip /\ \E n \in Node : heap[n].type = "Tensor" /\ ~Readable(heap, n)

\* What the walks answer for objects older than l.
AgreeOlder(heap, skip, t, f, l) ==
  \A c \in Node, free \in BOOLEAN, r \in Node :
    c < l => AllAgree(t[c][free][r], f[c][free][r], CanThrow(heap, skip))

LEMMA AnyAgrees ==
  ASSUME NEW heap, NEW skip, NEW t, NEW f, NEW l, AgreeOlder(heap, skip, t, f, l),
         NEW free \in BOOLEAN, NEW x, IsObject(x) => x < l, NEW y
  PROVE  AllAgree(CompareAny(t, free, x, y), CompareAny(f, free, x, y), CanThrow(heap, skip))
<1>1. CASE IsObject(x) /\ IsObject(y)
  BY <1>1 DEF AgreeOlder, CompareAny, IsObject
<1>2. CASE ~(IsObject(x) /\ IsObject(y))
  BY <1>2, AnswersAgree DEF CompareAny
<1> QED BY <1>1, <1>2

LEMMA ArraysAgree ==
  ASSUME NEW heap, IsHeap(heap), NEW skip, NEW l \in Node, NEW r \in Node,
         NEW free \in BOOLEAN,
         heap[l].type = "Array", heap[r].type = "Array",
         NEW t, NEW f, AgreeOlder(heap, skip, t, f, l)
  PROVE  AllAgree(CompareArray(heap, [skip |-> skip, trace |-> TRUE], t, free, l, r),
                  CompareArray(heap, [skip |-> skip, trace |-> FALSE], f, free, l, r),
                  CanThrow(heap, skip))
<1> DEFINE ll == Len(heap[l].content)
           lr == Len(heap[r].content)
           Item(e, i) == At(Step("item", i, i),
                            CompareAny(e, free, heap[l].content[i], heap[r].content[i]))
           Items(e) == [i \in 1 .. Least(ll, lr) |-> Item(e, i)]
<1>1. /\ ll \in Nat /\ lr \in Nat
      /\ \A i \in 1 .. ll : IsObject(heap[l].content[i]) => heap[l].content[i] < l
  BY HeapFacts
<1>2. Least(ll, lr) \in Nat /\ Least(ll, lr) <= ll
  BY <1>1 DEF Least
<1>3. AllAgree(CompareItems(heap, t, free, l, r), CompareItems(heap, f, free, l, r),
               CanThrow(heap, skip))
  <2>1. ASSUME NEW i \in 1 .. Least(ll, lr)
        PROVE  AllAgree(Item(t, i), Item(f, i), CanThrow(heap, skip))
    <3>1. IsObject(heap[l].content[i]) => heap[l].content[i] < l
      BY <1>1, <1>2
    <3> QED BY <3>1, AnyAgrees, AtAgrees
  <2> HIDE DEF Item
  <2>2. /\ Len(Items(t)) = Least(ll, lr) /\ Len(Items(f)) = Least(ll, lr)
        /\ \A i \in 1 .. Least(ll, lr) : Items(t)[i] = Item(t, i) /\ Items(f)[i] = Item(f, i)
    BY <1>2
  <2>3. AllAgree(InOrder(Items(t)), InOrder(Items(f)), CanThrow(heap, skip))
    <3> HIDE DEF Items
    <3> QED BY <1>2, <2>1, <2>2, InOrderAgrees
  <2> QED BY <2>3 DEF CompareItems, Item
<1> SUFFICES ASSUME NEW m \in Mapping
             PROVE  Agrees(CompareArray(heap, [skip |-> skip, trace |-> TRUE], t, free, l, r)[m],
                           CompareArray(heap, [skip |-> skip, trace |-> FALSE], f, free, l, r)[m],
                           CanThrow(heap, skip))
  BY DEF AllAgree
<1> DEFINE x == CompareItems(heap, t, free, l, r)[m]
           y == CompareItems(heap, f, free, l, r)[m]
<1>4. Agrees(x, y, CanThrow(heap, skip))
  BY <1>3 DEF AllAgree
<1>5. CASE ll = lr
  <2>1. /\ CompareArray(heap, [skip |-> skip, trace |-> TRUE], t, free, l, r)[m] = x
        /\ CompareArray(heap, [skip |-> skip, trace |-> FALSE], f, free, l, r)[m] = y
    BY <1>5 DEF CompareArray
  <2> QED BY <1>4, <2>1
<1>6. CASE ll # lr
  <2>1. PICK step :
          CompareArray(heap, [skip |-> skip, trace |-> TRUE], t, free, l, r)[m]
            = IF x.outcome # "equal" THEN x ELSE Result("different", x.mapping, step)
    BY <1>6 DEF CompareArray
  <2>2. CompareArray(heap, [skip |-> skip, trace |-> FALSE], f, free, l, r)[m]
          = Result("different", m, <<>>)
    BY <1>6, AnswerFacts DEF CompareArray
  <2> HIDE DEF x, y
  <2>3. x.mapping \in Mapping /\ IsResult(x) /\ (x.outcome = "throw" => CanThrow(heap, skip))
    BY <1>4 DEF Agrees, IsResult
  <2>4. Agrees(IF x.outcome # "equal" THEN x ELSE Result("different", x.mapping, step),
               Result("different", m, <<>>), CanThrow(heap, skip))
    BY <2>3, ResultFacts DEF Agrees
  <2> QED BY <2>1, <2>2, <2>4
<1> QED BY <1>5, <1>6

LEMMA MapsAgree ==
  ASSUME NEW heap, IsHeap(heap), NEW skip, NEW l \in Node, NEW r \in Node,
         NEW free \in BOOLEAN,
         heap[l].type = "Map",
         NEW t, NEW f, AgreeOlder(heap, skip, t, f, l)
  PROVE  AllAgree(CompareMap(heap, [skip |-> skip, trace |-> TRUE], t, free, l, r),
                  CompareMap(heap, [skip |-> skip, trace |-> FALSE], f, free, l, r),
                  CanThrow(heap, skip))
<1> DEFINE ll == Len(heap[l].content)
           lr == Len(heap[r].content)
           Entry(e, i) == CompareEntry(heap, e, free, l, r, i)
           Items(e) == [i \in 1 .. ll |-> Entry(e, i)]
<1>1. /\ ll \in Nat
      /\ \A i \in 1 .. ll : IsObject(heap[l].content[i][2]) => heap[l].content[i][2] < l
  BY HeapFacts
<1>3. AllAgree(CompareEntries(heap, t, free, l, r), CompareEntries(heap, f, free, l, r),
               CanThrow(heap, skip))
  <2>1. ASSUME NEW i \in 1 .. ll
        PROVE  AllAgree(Entry(t, i), Entry(f, i), CanThrow(heap, skip))
    <3> SUFFICES ASSUME NEW m \in Mapping
                 PROVE  Agrees(Entry(t, i)[m], Entry(f, i)[m], CanThrow(heap, skip))
      BY DEF AllAgree
    <3> DEFINE key == heap[l].content[i][1]
               image == MapLhsToRhs(m, key)
               at == KeyAt(heap, r, image)
               x == CompareAny(t, free, heap[l].content[i][2], heap[r].content[at][2])[m]
               y == CompareAny(f, free, heap[l].content[i][2], heap[r].content[at][2])[m]
    <3>1. /\ Entry(t, i)[m] = IF at = 0 THEN Result("different", m, Step("key", key, Missing))
                              ELSE Under(Step("key", key, image), x)
          /\ Entry(f, i)[m] = IF at = 0 THEN Result("different", m, Step("key", key, Missing))
                              ELSE Under(Step("key", key, image), y)
      BY DEF CompareEntry
    <3>2. Agrees(x, y, CanThrow(heap, skip))
      <4>1. AllAgree(CompareAny(t, free, heap[l].content[i][2], heap[r].content[at][2]),
                     CompareAny(f, free, heap[l].content[i][2], heap[r].content[at][2]),
                     CanThrow(heap, skip))
        BY <1>1, AnyAgrees
      <4> QED BY <4>1 DEF AllAgree
    <3> HIDE DEF Entry, at, image, x, y
    <3>3. CASE at = 0
      BY <3>1, <3>3, ResultFacts DEF Agrees
    <3>4. CASE at # 0
      BY <3>1, <3>2, <3>4, UnderFacts DEF Agrees
    <3> QED BY <3>3, <3>4
  <2> HIDE DEF Entry
  <2>2. /\ Len(Items(t)) = ll /\ Len(Items(f)) = ll
        /\ \A i \in 1 .. ll : Items(t)[i] = Entry(t, i) /\ Items(f)[i] = Entry(f, i)
    BY <1>1
  <2>3. AllAgree(InOrder(Items(t)), InOrder(Items(f)), CanThrow(heap, skip))
    <3> HIDE DEF Items
    <3> QED BY <1>1, <2>1, <2>2, InOrderAgrees
  <2> QED BY <2>3 DEF CompareEntries, Entry
<1> SUFFICES ASSUME NEW m \in Mapping
             PROVE  Agrees(CompareMap(heap, [skip |-> skip, trace |-> TRUE], t, free, l, r)[m],
                           CompareMap(heap, [skip |-> skip, trace |-> FALSE], f, free, l, r)[m],
                           CanThrow(heap, skip))
  BY DEF AllAgree
<1> DEFINE x == CompareEntries(heap, t, free, l, r)[m]
           y == CompareEntries(heap, f, free, l, r)[m]
<1>4. Agrees(x, y, CanThrow(heap, skip))
  BY <1>3 DEF AllAgree
<1>5. CASE ll = lr
  <2>1. /\ CompareMap(heap, [skip |-> skip, trace |-> TRUE], t, free, l, r)[m] = x
        /\ CompareMap(heap, [skip |-> skip, trace |-> FALSE], f, free, l, r)[m] = y
    BY <1>5 DEF CompareMap
  <2> QED BY <1>4, <2>1
<1>6. CASE ll # lr
  <2>1. PICK step :
          CompareMap(heap, [skip |-> skip, trace |-> TRUE], t, free, l, r)[m]
            = IF x.outcome # "equal" THEN x ELSE Result("different", x.mapping, step)
    BY <1>6 DEF CompareMap
  <2>2. CompareMap(heap, [skip |-> skip, trace |-> FALSE], f, free, l, r)[m]
          = Result("different", m, <<>>)
    BY <1>6, AnswerFacts DEF CompareMap
  <2> HIDE DEF x, y
  <2>3. x.mapping \in Mapping /\ IsResult(x) /\ (x.outcome = "throw" => CanThrow(heap, skip))
    BY <1>4 DEF Agrees, IsResult
  <2>4. Agrees(IF x.outcome # "equal" THEN x ELSE Result("different", x.mapping, step),
               Result("different", m, <<>>), CanThrow(heap, skip))
    BY <2>3, ResultFacts DEF Agrees
  <2> QED BY <2>1, <2>2, <2>4
<1> QED BY <1>5, <1>6

LEMMA FieldsAgree ==
  ASSUME NEW heap, IsHeap(heap), NEW skip, NEW l \in Node, NEW r \in Node,
         NEW free \in BOOLEAN,
         heap[l].type # "Map",
         NEW t, NEW f, AgreeOlder(heap, skip, t, f, l)
  PROVE  AllAgree(CompareFields(heap, t, free, l, r), CompareFields(heap, f, free, l, r),
                  CanThrow(heap, skip))
<1> DEFINE n == Len(Flags(heap, l))
           Field(e, i) ==
             IF Flags(heap, l)[i] = "ignore" THEN Answer(TRUE)
             ELSE At(Step("attr", i, i),
                     CompareAny(e, free \/ Flags(heap, l)[i] = "def",
                                heap[l].content[i], heap[r].content[i]))
           Fields(e) == [i \in 1 .. n |-> Field(e, i)]
<1>1. /\ n \in Nat
      /\ \A i \in 1 .. n : IsObject(heap[l].content[i]) => heap[l].content[i] < l
  <2>1. /\ heap[l].content \in Seq(Int) /\ n \in Nat /\ n <= Len(heap[l].content)
        /\ \A i \in 1 .. Len(heap[l].content) :
             IsObject(heap[l].content[i]) => heap[l].content[i] < l
    BY HeapFacts
  <2>2. \A i \in 1 .. n : i \in 1 .. Len(heap[l].content)
    BY <2>1
  <2> QED BY <2>1, <2>2
<1>2. ASSUME NEW i \in 1 .. n
      PROVE  AllAgree(Field(t, i), Field(f, i), CanThrow(heap, skip))
  <2>1. CASE Flags(heap, l)[i] = "ignore"
    BY <2>1, AnswersAgree
  <2>2. CASE Flags(heap, l)[i] # "ignore"
    <3>1. (free \/ Flags(heap, l)[i] = "def") \in BOOLEAN
      OBVIOUS
    <3>2. AllAgree(CompareAny(t, free \/ Flags(heap, l)[i] = "def",
                              heap[l].content[i], heap[r].content[i]),
                   CompareAny(f, free \/ Flags(heap, l)[i] = "def",
                              heap[l].content[i], heap[r].content[i]),
                   CanThrow(heap, skip))
      BY <1>1, <3>1, AnyAgrees
    <3> QED BY <2>2, <3>2, AtAgrees
  <2> QED BY <2>1, <2>2
<1> HIDE DEF Field
<1>3. /\ Len(Fields(t)) = n /\ Len(Fields(f)) = n
      /\ \A i \in 1 .. n : Fields(t)[i] = Field(t, i) /\ Fields(f)[i] = Field(f, i)
  BY <1>1
<1>4. AllAgree(InOrder(Fields(t)), InOrder(Fields(f)), CanThrow(heap, skip))
  <2> HIDE DEF Fields
  <2> QED BY <1>1, <1>2, <1>3, InOrderAgrees
<1> QED BY <1>4 DEF CompareFields, Field

\* What is known of two objects before their fields are looked at.
LEMMA KnownFacts ==
  ASSUME NEW heap, IsHeap(heap), NEW l \in Node, NEW m, NEW r
  PROVE  /\ KnownOutcome(heap, m, l, r) \in {"equal", "different", "throw", "unknown"}
         /\ KnownOutcome(heap, m, l, r) = "throw" <=> Kind(heap, l) = "Unsupported"
<1>1. Kind(heap, l) \in {"Builtin", "Unsupported", "TreeNode", "FreeVar", "DAGNode",
                         "ConstTreeNode", "UniqueInstance"}
  BY HeapFacts, StructuralAssumption DEF Kind
<1> QED BY <1>1 DEF KnownOutcome, Recorded, Verdict

LEMMA ObjectsAgree ==
  ASSUME NEW heap, IsHeap(heap), NEW skip, NEW l \in Node, NEW r \in Node,
         NEW free \in BOOLEAN,
         heap[l].type # "Map",
         NEW t, NEW f, AgreeOlder(heap, skip, t, f, l)
  PROVE  AllAgree(CompareObject(heap, t, free, l, r), CompareObject(heap, f, free, l, r),
                  CanThrow(heap, skip))
<1> SUFFICES ASSUME NEW m \in Mapping
             PROVE  Agrees(CompareObject(heap, t, free, l, r)[m],
                           CompareObject(heap, f, free, l, r)[m], CanThrow(heap, skip))
  BY DEF AllAgree
<1> DEFINE known == KnownOutcome(heap, m, l, r)
           x == CompareFields(heap, t, free, l, r)[m]
           y == CompareFields(heap, f, free, l, r)[m]
           Then(res) ==
             IF known # "unknown" THEN Result(known, m, <<>>)
             ELSE IF res.outcome # "equal" \/ ~Recorded(heap, l) THEN res
             ELSE IF Kind(heap, l) = "FreeVar" /\ ~(l = r \/ free)
               THEN Result("different", res.mapping, <<>>)
             ELSE Result("equal", Record(res.mapping, l, r), <<>>)
<1>1. /\ CompareObject(heap, t, free, l, r)[m] = Then(x)
      /\ CompareObject(heap, f, free, l, r)[m] = Then(y)
  BY DEF CompareObject
<1>2. Agrees(x, y, CanThrow(heap, skip))
  BY FieldsAgree DEF AllAgree
<1>3. /\ known \in {"equal", "different", "throw", "unknown"}
      /\ known = "throw" => CanThrow(heap, skip)
  BY KnownFacts DEF CanThrow
<1> HIDE DEF known, x, y
<1>4. CASE known # "unknown"
  <2>1. known \in {"equal", "different", "throw"}
    BY <1>3, <1>4
  <2> QED BY <1>1, <1>3, <1>4, <2>1, ResultFacts DEF Agrees
<1>5. CASE known = "unknown"
  <2>1. CASE x.outcome # "equal"
    BY <1>1, <1>2, <1>5, <2>1 DEF Agrees, IsResult
  <2>2. CASE x.outcome = "equal"
    <3>1. y.outcome = "equal" /\ x.mapping = y.mapping /\ y.mapping \in Mapping
      BY <1>2, <2>2 DEF Agrees, IsResult
    <3>2. CASE ~Recorded(heap, l)
      BY <1>1, <1>2, <1>5, <3>2
    <3>3. CASE Recorded(heap, l)
      <4>1. PICK mm \in Mapping, outcome \in {"equal", "different"} :
              Then(x) = Result(outcome, mm, <<>>) /\ Then(y) = Result(outcome, mm, <<>>)
        BY <1>5, <2>2, <3>1, <3>3, RecordFacts
      <4> QED BY <1>1, <4>1, ResultFacts DEF Agrees
    <3> QED BY <3>2, <3>3
  <2> QED BY <2>1, <2>2
<1> QED BY <1>4, <1>5

\* Tensors: the data that cannot be read are those of l or of r.
LEMMA TensorsAgree ==
  ASSUME NEW heap, NEW opt, NEW l \in Node, NEW r \in Node,
         heap[l].type = "Tensor", heap[r].type = "Tensor"
  PROVE  AllAgree(CompareNDArray(heap, opt, l, r), CompareNDArray(heap, opt, l, r),
                  CanThrow(heap, opt.skip))
<1> DEFINE same_shape == heap[l].content[1] = heap[r].content[1]
           by_data == l # r /\ same_shape /\ ~opt.skip
<1>1. CASE ~by_data
  BY <1>1, AnswersAgree DEF CompareNDArray
<1>2. CASE by_data /\ ~(Readable(heap, l) /\ Readable(heap, r))
  <2>1. CanThrow(heap, opt.skip)
    BY <1>2 DEF CanThrow
  <2>2. CompareNDArray(heap, opt, l, r) = Ends("throw")
    BY <1>2 DEF CompareNDArray
  <2>3. AllAgree(Ends("throw"), Ends("throw"), CanThrow(heap, opt.skip))
    <3> SUFFICES ASSUME NEW m \in Mapping
                 PROVE  Agrees(Ends("throw")[m], Ends("throw")[m], CanThrow(heap, opt.skip))
      BY DEF AllAgree
    <3> DEFINE res == Ends("throw")[m]
    <3>1. IsResult(res) /\ res.outcome = "throw"
      BY EndsFacts, ResultFacts
    <3> HIDE DEF res
    <3>2. Agrees(res, res, CanThrow(heap, opt.skip))
      BY <2>1, <3>1 DEF Agrees
    <3> QED BY <3>2 DEF res
  <2> QED BY <2>2, <2>3
<1>3. CASE by_data /\ Readable(heap, l) /\ Readable(heap, r)
  BY <1>3, AnswersAgree DEF CompareNDArray
<1> QED BY <1>1, <1>2, <1>3

\* One level of the walk.
LEMMA LevelAgrees ==
  ASSUME NEW heap, IsHeap(heap), NEW skip, NEW l \in Node, NEW r \in Node,
         NEW free \in BOOLEAN,
         NEW t, NEW f, AgreeOlder(heap, skip, t, f, l)
  PROVE  AllAgree(CompareObjects(heap, [skip |-> skip, trace |-> TRUE], t, free, l, r),
                  CompareObjects(heap, [skip |-> skip, trace |-> FALSE], f, free, l, r),
                  CanThrow(heap, skip))
<1> DEFINE traced == [skip |-> skip, trace |-> TRUE]
           silent == [skip |-> skip, trace |-> FALSE]
<1>1. CASE heap[l].type # heap[r].type
  BY <1>1, AnswersAgree DEF CompareObjects
<1>2. CASE heap[l].type = heap[r].type /\ heap[l].type = "Array"
  BY <1>2, ArraysAgree DEF CompareObjects
<1>3. CASE heap[l].type = heap[r].type /\ heap[l].type = "Map"
  BY <1>3, MapsAgree DEF CompareObjects
<1>4. CASE heap[l].type = heap[r].type /\ heap[l].type = "Tensor"
  <2>1. CompareNDArray(heap, traced, l, r) = CompareNDArray(heap, silent, l, r)
    BY DEF CompareNDArray
  <2>2. AllAgree(CompareNDArray(heap, silent, l, r), CompareNDArray(heap, silent, l, r),
                 CanThrow(heap, skip))
    <3>1. silent.skip = skip
      OBVIOUS
    <3> HIDE DEF silent
    <3>2. AllAgree(CompareNDArray(heap, silent, l, r), CompareNDArray(heap, silent, l, r),
                   CanThrow(heap, silent.skip))
      BY <1>4, TensorsAgree
    <3> QED BY <3>1, <3>2
  <2> QED BY <1>4, <2>1, <2>2 DEF CompareObjects
<1>5. CASE /\ heap[l].type = heap[r].type
           /\ heap[l].type \notin {"Array", "Map", "Tensor"}
  BY <1>5, ObjectsAgree DEF CompareObjects
<1> QED BY <1>1, <1>2, <1>3, <1>4, <1>5

LEMMA WalksAgree ==
  ASSUME NEW heap, IsHeap(heap), NEW skip
  PROVE  \A l \in Node, r \in Node, free \in BOOLEAN :
           AllAgree(Comparisons(heap, [skip |-> skip, trace |-> TRUE])[l][free][r],
                    Comparisons(heap, [skip |-> skip, trace |-> FALSE])[l][free][r],
                    CanThrow(heap, skip))
<1> DEFINE t == Comparisons(heap, [skip |-> skip, trace |-> TRUE])
           f == Comparisons(heap, [skip |-> skip, trace |-> FALSE])
           Good(l) == \A r \in Node, free \in BOOLEAN :
                        AllAgree(t[l][free][r], f[l][free][r], CanThrow(heap, skip))
           P == {l \in Nat : l \in Node => Good(l)}
<1>1. ASSUME NEW l \in Nat, \A k \in Nat : k < l => k \in P
      PROVE  l \in P
  <2> SUFFICES ASSUME l \in Node, NEW r \in Node, NEW free \in BOOLEAN
               PROVE  AllAgree(t[l][free][r], f[l][free][r], CanThrow(heap, skip))
    OBVIOUS
  <2>1. Node \subseteq Nat
    BY Objects
  <2>2. \A c \in Node : c < l => Good(c)
    BY <1>1, <2>1
  <2>3. AgreeOlder(heap, skip, t, f, l)
    BY <2>2 DEF AgreeOlder
  <2>4. /\ t[l][free][r]
             = CompareObjects(heap, [skip |-> skip, trace |-> TRUE], t, free, l, r)
        /\ f[l][free][r]
             = CompareObjects(heap, [skip |-> skip, trace |-> FALSE], f, free, l, r)
    BY Walk
  <2> HIDE DEF t, f
  <2> QED BY <2>3, <2>4, LevelAgrees
<1>2. \A l \in Nat : l \in P
  <2> HIDE DEF P
  <2> QED BY <1>1, AllNumbers
<1>3. \A l \in Node : Good(l)
  <2> HIDE DEF Good
  <2> QED BY <1>2, Objects
<1> QED BY <1>3, Zenon

LEMMA MismatchAgrees ==
  ASSUME NEW heap, IsHeap(heap), NEW l, NEW r, NEW free \in BOOLEAN, NEW skip
  PROVE  Agrees(FirstMismatch(heap, l, r, free, skip),
                CompareAny(Comparisons(heap, [skip |-> skip, trace |-> FALSE]), free, l, r)
                  [NothingMapped], CanThrow(heap, skip))
<1> DEFINE t == Comparisons(heap, [skip |-> skip, trace |-> TRUE])
           f == Comparisons(heap, [skip |-> skip, trace |-> FALSE])
<1>1. NothingMapped \in Mapping
  BY DEF NothingMapped, Mapping
<1>2. AllAgree(CompareAny(t, free, l, r), CompareAny(f, free, l, r), CanThrow(heap, skip))
  <2>1. CASE IsObject(l) /\ IsObject(r)
    BY <2>1, WalksAgree DEF CompareAny, IsObject
  <2>2. CASE ~(IsObject(l) /\ IsObject(r))
    BY <2>2, AnswersAgree DEF CompareAny
  <2> QED BY <2>1, <2>2
<1> QED BY <1>1, <1>2 DEF AllAgree, FirstMismatch

\* What the caller has asked for.
Asked ==
  /\ input \in Inputs
  /\ answer # NoAnswer =>
       /\ answer.equal = Equal(input.heap, input.lhs, input.rhs, input.free, input.skip)
       /\ answer.swapped = Equal(input.heap, input.rhs, input.lhs, input.free, input.skip)
       /\ answer.mismatch =
            FirstMismatch(input.heap, input.lhs, input.rhs, input.free, input.skip)

LEMMA AskedHolds == Spec => []Asked
<1>1. Init => Asked
  BY DEF Init, Asked
<1>2. Asked /\ [Next]_vars => Asked'
  <2>1. ASSUME Asked, Ask PROVE Asked'
    BY <2>1 DEF Asked, Ask
  <2>2. ASSUME Asked, UNCHANGED vars PROVE Asked'
    BY <2>2 DEF Asked, vars
  <2> QED BY <2>1, <2>2 DEF Next
<1> QED BY <1>1, <1>2, PTL DEF Spec

\* StructuralEqual::Equal and GetFirstMismatch agree on every two values of every
\* heap: the early returns on a size mismatch, taken only without tracing, never
\* change a verdict.
THEOREM TracingKeepsTheVerdict == Spec => []MismatchAgreesWithEqual
<1>1. Asked => MismatchAgreesWithEqual
  <2> SUFFICES ASSUME Asked, answer # NoAnswer
               PROVE  MismatchAgreesWithEqual
    BY DEF MismatchAgreesWithEqual
  <2> DEFINE t == FirstMismatch(input.heap, input.lhs, input.rhs, input.free, input.skip)
             f == CompareAny(Comparisons(input.heap, [skip |-> input.skip, trace |-> FALSE]),
                             input.free, input.lhs, input.rhs)[NothingMapped]
  <2>1. IsHeap(input.heap) /\ input.free \in BOOLEAN
    BY InputsAssumption DEF Asked
  <2>2. Agrees(t, f, CanThrow(input.heap, input.skip))
    BY <2>1, MismatchAgrees
  <2>3. answer.mismatch = t /\ answer.equal = f.outcome
    BY DEF Asked, Equal
  <2> HIDE DEF t, f
  <2>4. CanThrow(input.heap, input.skip) => SomeRefused
    BY DEF CanThrow, OfKind, SomeRefused
  <2> QED BY <2>2, <2>3, <2>4 DEF Agrees, IsResult, MismatchAgreesWithEqual
<1> QED BY <1>1, AskedHolds, PTL

-----------------------------------------------------------------------------
(* Equality as a relation.  A comparison that answers equal takes a        *)
(* mapping to another one, and two objects are equal when the pairs of     *)
(* their parts are, one after the other.                                   *)

\* The same as an induction from a number to the next.
LEMMA NextNumber ==
  ASSUME NEW P, 0 \in P, \A n \in Nat : n \in P => n + 1 \in P
  PROVE  \A n \in Nat : n \in P
<1>1. ASSUME NEW n \in Nat, \A k \in Nat : k < n => k \in P
      PROVE  n \in P
  <2>1. CASE n = 0
    BY <2>1
  <2>2. CASE n # 0
    <3>1. n - 1 \in Nat /\ n - 1 < n /\ (n - 1) + 1 = n
      BY <2>2
    <3>2. n - 1 \in P
      BY <1>1, <3>1
    <3> QED BY <3>1, <3>2
  <2> QED BY <2>1, <2>2
<1> QED BY <1>1, AllNumbers

\* A comparison answers equal and leaves the mapping n.
Takes(comparison, m, n) == comparison[m].outcome = "equal" /\ comparison[m].mapping = n

\* The comparisons of Equal, which does not trace.
Silent(heap, skip) == Comparisons(heap, [skip |-> skip, trace |-> FALSE])

\* Value x is equal to y when m is recorded, and n is recorded then.
Eq(heap, skip, free, x, y, m, n) == Takes(CompareAny(Silent(heap, skip), free, x, y), m, n)

\* Every comparison has one of the three outcomes and a mapping.
LEMMA AnyIsResult ==
  ASSUME NEW heap, IsHeap(heap), NEW skip, NEW free \in BOOLEAN, NEW x, NEW y,
         NEW m \in Mapping
  PROVE  IsResult(CompareAny(Silent(heap, skip), free, x, y)[m])
<1> DEFINE t == Comparisons(heap, [skip |-> skip, trace |-> TRUE])
           f == Comparisons(heap, [skip |-> skip, trace |-> FALSE])
<1>1. AllAgree(CompareAny(t, free, x, y), CompareAny(f, free, x, y), CanThrow(heap, skip))
  <2>1. CASE IsObject(x) /\ IsObject(y)
    BY <2>1, WalksAgree DEF CompareAny, IsObject
  <2>2. CASE ~(IsObject(x) /\ IsObject(y))
    BY <2>2, AnswersAgree DEF CompareAny
  <2> QED BY <2>1, <2>2
<1> QED BY <1>1 DEF AllAgree, Agrees, Silent

\* Equality is a partial function from mappings to mappings.
LEMMA EqFacts ==
  ASSUME NEW heap, IsHeap(heap), NEW skip, NEW free \in BOOLEAN, NEW x, NEW y,
         NEW m \in Mapping, NEW n, Eq(heap, skip, free, x, y, m, n)
  PROVE  /\ n \in Mapping
         /\ \A k : Eq(heap, skip, free, x, y, m, k) => k = n
BY AnyIsResult DEF Eq, Takes, IsResult

\* What is no object is equal to what has the same content.
LEMMA EqData ==
  ASSUME NEW heap, NEW skip, NEW free, NEW x, NEW y, ~(IsObject(x) /\ IsObject(y)),
         NEW m \in Mapping, NEW n
  PROVE  Eq(heap, skip, free, x, y, m, n) <=> Content(x) = Content(y) /\ n = m
<1>1. CompareAny(Silent(heap, skip), free, x, y)[m]
        = Result(IF Content(x) = Content(y) THEN "equal" ELSE "different", m, <<>>)
  BY AnswerFacts DEF CompareAny
<1> QED BY <1>1 DEF Eq, Takes, Result

\* Pairs of parts, one after the other.
Chain(heap, skip, free, ks, k, m, ms) ==
  /\ ms \in [0 .. k -> Mapping] /\ ms[0] = m
  /\ \A i \in 1 .. k :
       Eq(heap, skip, free \/ ks[i].def, ks[i].lhs, ks[i].rhs, ms[i - 1], ms[i])

\* The comparisons answer results.
AllResults(cs, k) == \A i \in 1 .. k : \A p \in Mapping : IsResult(cs[i][p])

\* The comparisons are equal one after the other.
Runs(cs, k, m, n) ==
  \E ms \in [0 .. k -> Mapping] :
    /\ ms[0] = m /\ ms[k] = n
    /\ \A i \in 1 .. k : Takes(cs[i], ms[i - 1], ms[i])

\* InOrder answers equal when each comparison does in its turn.
LEMMA InOrderTakes ==
  ASSUME NEW cs, NEW k \in Nat, Len(cs) = k, NEW m \in Mapping, NEW n,
         AllResults(cs, k)
  PROVE  Takes(InOrder(cs), m, n) <=> Runs(cs, k, m, n)
<1> DEFINE af == After(cs, m)
<1>1. /\ InOrder(cs)[m] = af[k] /\ af[0] = Result("equal", m, <<>>)
      /\ \A i \in 1 .. k :
           af[i] = IF af[i - 1].outcome = "equal" THEN cs[i][af[i - 1].mapping] ELSE af[i - 1]
  BY AfterSteps
<1> HIDE DEF af
<1>2. \A i \in 0 .. k : IsResult(af[i])
  <2> DEFINE P == {i \in Nat : i <= k => IsResult(af[i])}
  <2>1. 0 \in P
    BY <1>1, ResultFacts
  <2>2. ASSUME NEW i \in Nat, i \in P PROVE i + 1 \in P
    <3> SUFFICES ASSUME i + 1 <= k PROVE IsResult(af[i + 1])
      OBVIOUS
    <3>1. i + 1 \in 1 .. k /\ (i + 1) - 1 = i /\ IsResult(af[i])
      BY <2>2
    <3>2. af[i + 1] = IF af[i].outcome = "equal" THEN cs[i + 1][af[i].mapping] ELSE af[i]
      BY <1>1, <3>1
    <3>3. af[i].mapping \in Mapping
      BY <3>1 DEF IsResult
    <3> QED BY <3>1, <3>2, <3>3 DEF AllResults
  <2>3. \A i \in Nat : i \in P
    <3> HIDE DEF P
    <3> QED BY <2>1, <2>2, NextNumber
  <2> QED BY <2>3
<1>3. ASSUME Takes(InOrder(cs), m, n)
      PROVE  Runs(cs, k, m, n)
  <2>1. \A i \in 0 .. k : af[i].outcome = "equal"
    <3> DEFINE P == {j \in Nat : j <= k => af[k - j].outcome = "equal"}
    <3>1. 0 \in P
      <4>1. k - 0 = k
        OBVIOUS
      <4> QED BY <1>1, <1>3, <4>1 DEF Takes
    <3>2. ASSUME NEW j \in Nat, j \in P PROVE j + 1 \in P
      <4> SUFFICES ASSUME j + 1 <= k PROVE af[k - (j + 1)].outcome = "equal"
        OBVIOUS
      <4>1. k - j \in 1 .. k /\ (k - j) - 1 = k - (j + 1) /\ af[k - j].outcome = "equal"
        BY <3>2
      <4> QED BY <1>1, <4>1
    <3>3. \A j \in Nat : j \in P
      <4> HIDE DEF P
      <4> QED BY <3>1, <3>2, NextNumber
    <3> TAKE i \in 0 .. k
    <3>4. k - i \in Nat /\ k - i <= k /\ k - (k - i) = i
      OBVIOUS
    <3> QED BY <3>3, <3>4
  <2> DEFINE ms == [i \in 0 .. k |-> af[i].mapping]
  <2>2. ms \in [0 .. k -> Mapping]
    BY <1>2 DEF IsResult
  <2>3. ms[0] = m /\ ms[k] = n
    BY <1>1, <1>3 DEF Takes, Result
  <2>4. ASSUME NEW i \in 1 .. k PROVE Takes(cs[i], ms[i - 1], ms[i])
    <3>1. i - 1 \in 0 .. k /\ i \in 0 .. k
      OBVIOUS
    <3>2. af[i] = cs[i][af[i - 1].mapping] /\ af[i].outcome = "equal"
      BY <1>1, <2>1, <3>1
    <3> QED BY <3>1, <3>2 DEF Takes
  <2> HIDE DEF ms
  <2> QED BY <2>2, <2>3, <2>4 DEF Runs
<1>4. ASSUME NEW ms \in [0 .. k -> Mapping], ms[0] = m, ms[k] = n,
             \A i \in 1 .. k : Takes(cs[i], ms[i - 1], ms[i])
      PROVE  Takes(InOrder(cs), m, n)
  <2> DEFINE P == {i \in Nat : i <= k => af[i].outcome = "equal" /\ af[i].mapping = ms[i]}
  <2>1. 0 \in P
    BY <1>1, <1>4 DEF Result
  <2>2. ASSUME NEW i \in Nat, i \in P PROVE i + 1 \in P
    <3> SUFFICES ASSUME i + 1 <= k
                 PROVE  af[i + 1].outcome = "equal" /\ af[i + 1].mapping = ms[i + 1]
      OBVIOUS
    <3>1. /\ i + 1 \in 1 .. k /\ (i + 1) - 1 = i
          /\ af[i].outcome = "equal" /\ af[i].mapping = ms[i]
      BY <2>2
    <3>2. af[i + 1] = cs[i + 1][ms[i]] /\ Takes(cs[i + 1], ms[i], ms[i + 1])
      BY <1>1, <1>4, <3>1
    <3> QED BY <3>2 DEF Takes
  <2>3. \A i \in Nat : i \in P
    <3> HIDE DEF P
    <3> QED BY <2>1, <2>2, NextNumber
  <2>4. af[k].outcome = "equal" /\ af[k].mapping = ms[k]
    BY <2>3
  <2> QED BY <1>1, <1>4, <2>4 DEF Takes
<1> QED BY <1>3, <1>4 DEF Runs

\* The same for comparisons of pairs.
LEMMA InOrderIsChain ==
  ASSUME NEW heap, NEW skip, NEW free, NEW ks,
         NEW cs, NEW k \in Nat, Len(cs) = k, NEW m \in Mapping, NEW n,
         AllResults(cs, k),
         \A i \in 1 .. k : \A p \in Mapping, q \in Mapping :
           Takes(cs[i], p, q) <=>
             Eq(heap, skip, free \/ ks[i].def, ks[i].lhs, ks[i].rhs, p, q)
  PROVE  Takes(InOrder(cs), m, n) <=>
           \E ms : Chain(heap, skip, free, ks, k, m, ms) /\ ms[k] = n
<1>1. ASSUME NEW ms \in [0 .. k -> Mapping]
      PROVE  (\A i \in 1 .. k : Takes(cs[i], ms[i - 1], ms[i])) <=>
             \A i \in 1 .. k :
               Eq(heap, skip, free \/ ks[i].def, ks[i].lhs, ks[i].rhs, ms[i - 1], ms[i])
  <2>1. \A i \in 1 .. k : ms[i - 1] \in Mapping /\ ms[i] \in Mapping
    OBVIOUS
  <2> QED BY <2>1
<1>2. Takes(InOrder(cs), m, n) <=>
        \E ms \in [0 .. k -> Mapping] :
          /\ ms[0] = m /\ ms[k] = n
          /\ \A i \in 1 .. k : Takes(cs[i], ms[i - 1], ms[i])
  <2>1. Takes(InOrder(cs), m, n) <=> Runs(cs, k, m, n)
    BY InOrderTakes
  <2> QED BY <2>1 DEF Runs
<1>3. ASSUME NEW ms
      PROVE  Chain(heap, skip, free, ks, k, m, ms) /\ ms[k] = n <=>
               /\ ms \in [0 .. k -> Mapping] /\ ms[0] = m /\ ms[k] = n
               /\ \A i \in 1 .. k : Takes(cs[i], ms[i - 1], ms[i])
  <2>1. CASE ms \in [0 .. k -> Mapping]
    <3>1. (\A i \in 1 .. k : Takes(cs[i], ms[i - 1], ms[i])) <=>
          \A i \in 1 .. k :
            Eq(heap, skip, free \/ ks[i].def, ks[i].lhs, ks[i].rhs, ms[i - 1], ms[i])
      BY <1>1, <2>1
    <3> QED BY <2>1, <3>1, Zenon DEF Chain
  <2>2. CASE ms \notin [0 .. k -> Mapping]
    BY <2>2 DEF Chain
  <2> QED BY <2>1, <2>2
<1> QED BY <1>2, <1>3

-----------------------------------------------------------------------------
(* The pairs of parts that two objects are compared by.                    *)

\* What is compared element by element, and what field by field.
HasItems(heap, l) == heap[l].type \in {"Array", "Map"}
HasFields(heap, l) == heap[l].type \notin {"Array", "Map", "Tensor"}

\* How many pairs of parts there are.
KidCount(heap, l) == IF HasItems(heap, l) THEN Len(heap[l].content) ELSE Len(Flags(heap, l))

Pair(x, y, def) == [lhs |-> x, rhs |-> y, def |-> def]

\* What is ignored is as good as two numbers that are the same.
Kid(heap, l, r, i) ==
  CASE heap[l].type = "Array" -> Pair(heap[l].content[i], heap[r].content[i], FALSE)
    [] heap[l].type = "Map" ->
         Pair(heap[l].content[i][2],
              heap[r].content[KeyAt(heap, r, heap[l].content[i][1])][2], FALSE)
    [] OTHER ->
         IF Flags(heap, l)[i] = "ignore" THEN Pair(0, 0, FALSE)
         ELSE Pair(heap[l].content[i], heap[r].content[i], Flags(heap, l)[i] = "def")

\* All the pairs, and what it is for them to be equal one after the other.
Kids(heap, l, r) == [i \in 1 .. KidCount(heap, l) |-> Kid(heap, l, r, i)]

ChainOf(heap, skip, free, l, r, m, ms) ==
  Chain(heap, skip, free, Kids(heap, l, r), KidCount(heap, l), m, ms)

ChainTo(heap, skip, free, l, r, m, n) ==
  \E ms : ChainOf(heap, skip, free, l, r, m, ms) /\ ms[KidCount(heap, l)] = n

\* The pairs are of elements that are there.
LEMMA KidCountFacts ==
  ASSUME NEW heap, IsHeap(heap), NEW l \in Node
  PROVE  /\ KidCount(heap, l) \in Nat
         /\ heap[l].type # "Tensor" => KidCount(heap, l) <= Len(heap[l].content)
<1>1. CASE heap[l].type = "Map"
  BY <1>1, HeapFacts DEF KidCount, HasItems
<1>2. CASE heap[l].type # "Map"
  <2>1. Len(heap[l].content) \in Nat
    BY <1>2, HeapFacts
  <2> QED BY <1>2, <2>1, HeapFacts DEF KidCount, HasItems
<1> QED BY <1>1, <1>2

\* A step in the path of a mismatch does not change what is equal.
LEMMA UnderTakes ==
  ASSUME NEW heap, IsHeap(heap), NEW skip, NEW free \in BOOLEAN, NEW x, NEW y,
         NEW m \in Mapping, NEW n, NEW step
  PROVE  LET c == CompareAny(Silent(heap, skip), free, x, y) IN
         /\ IsResult(Under(step, c[m]))
         /\ Under(step, c[m]).outcome = "equal" /\ Under(step, c[m]).mapping = n
              <=> Eq(heap, skip, free, x, y, m, n)
<1> DEFINE c == CompareAny(Silent(heap, skip), free, x, y)
<1>1. IsResult(c[m])
  BY AnyIsResult
<1>2. /\ IsResult(Under(step, c[m]))
      /\ Under(step, c[m]).outcome = c[m].outcome /\ Under(step, c[m]).mapping = c[m].mapping
  BY <1>1, UnderFacts
<1> QED BY <1>2 DEF Eq, Takes

SilentOpt(skip) == [skip |-> skip, trace |-> FALSE]

\* Arrays are equal when they have one length and equal elements.
LEMMA EqArray ==
  ASSUME NEW heap, IsHeap(heap), NEW skip, NEW free \in BOOLEAN,
         NEW l \in Node, NEW r \in Node, heap[l].type = "Array", heap[r].type = "Array",
         NEW m \in Mapping, NEW n
  PROVE  Takes(CompareArray(heap, SilentOpt(skip), Silent(heap, skip), free, l, r), m, n) <=>
           /\ Len(heap[l].content) = Len(heap[r].content)
           /\ ChainTo(heap, skip, free, l, r, m, n)
<1> DEFINE C == Silent(heap, skip)
           cl == heap[l].content
           cr == heap[r].content
           k == Len(cl)
           ks == Kids(heap, l, r)
           cs == [i \in 1 .. k |-> At(Step("item", i, i), CompareAny(C, free, cl[i], cr[i]))]
           whole == CompareArray(heap, SilentOpt(skip), C, free, l, r)
<1>1. k \in Nat /\ Len(cr) \in Nat /\ KidCount(heap, l) = k
  BY HeapFacts DEF KidCount, HasItems
<1> HIDE DEF C
<1>2. CASE k # Len(cr)
  <2>1. whole[m] = Result("different", m, <<>>)
    BY <1>2, AnswerFacts DEF CompareArray, SilentOpt
  <2>2. ~Takes(whole, m, n)
    <3> HIDE DEF whole
    <3> QED BY <2>1 DEF Takes, Result
  <2> QED BY <1>2, <2>2 DEF C
<1>3. CASE k = Len(cr)
  <2>1. Least(k, Len(cr)) = k
    BY <1>1, <1>3 DEF Least
  <2>2. CompareItems(heap, C, free, l, r) = InOrder(cs)
    BY <2>1 DEF CompareItems
  <2>3. whole[m] = CompareItems(heap, C, free, l, r)[m]
    BY <1>3 DEF CompareArray, SilentOpt
  <2>4. Takes(whole, m, n) <=> Takes(InOrder(cs), m, n)
    <3> HIDE DEF whole, cs
    <3> QED BY <2>2, <2>3 DEF Takes
  <2>5. ASSUME NEW i \in 1 .. k
        PROVE  /\ ks[i].lhs = cl[i] /\ ks[i].rhs = cr[i] /\ ks[i].def = FALSE
               /\ \A p \in Mapping :
                    cs[i][p] = Under(Step("item", i, i), CompareAny(C, free, cl[i], cr[i])[p])
    <3>1. ks[i] = Pair(cl[i], cr[i], FALSE)
      BY <1>1 DEF Kids, Kid
    <3>2. \A p \in Mapping :
            cs[i][p] = Under(Step("item", i, i), CompareAny(C, free, cl[i], cr[i])[p])
      BY AtFacts
    <3> QED BY <3>1, <3>2 DEF Pair
  <2>6. Len(cs) = k
    BY <1>1
  <2> HIDE DEF cs, ks
  <2>7. AllResults(cs, k)
    <3> SUFFICES ASSUME NEW i \in 1 .. k, NEW p \in Mapping PROVE IsResult(cs[i][p])
      BY DEF AllResults
    <3>1. cs[i][p] = Under(Step("item", i, i), CompareAny(C, free, cl[i], cr[i])[p])
      BY <2>5
    <3>2. IsResult(Under(Step("item", i, i), CompareAny(C, free, cl[i], cr[i])[p]))
      BY UnderTakes DEF C
    <3> QED BY <3>1, <3>2
  <2>8. \A i \in 1 .. k : \A p \in Mapping, q \in Mapping :
          Takes(cs[i], p, q) <=>
            Eq(heap, skip, free \/ ks[i].def, ks[i].lhs, ks[i].rhs, p, q)
    <3> TAKE i \in 1 .. k
    <3> TAKE p \in Mapping, q \in Mapping
    <3>1. Takes(cs[i], p, q) <=> Eq(heap, skip, free, cl[i], cr[i], p, q)
      <4> DEFINE c == CompareAny(C, free, cl[i], cr[i])
      <4>1. cs[i][p] = Under(Step("item", i, i), c[p])
        BY <2>5
      <4>2. Under(Step("item", i, i), c[p]).outcome = "equal"
              /\ Under(Step("item", i, i), c[p]).mapping = q
            <=> Eq(heap, skip, free, cl[i], cr[i], p, q)
        BY UnderTakes DEF C
      <4> QED BY <4>1, <4>2 DEF Takes
    <3>2. (free \/ ks[i].def) = free
      BY <2>5
    <3>3. Eq(heap, skip, free \/ ks[i].def, ks[i].lhs, ks[i].rhs, p, q)
            <=> Eq(heap, skip, free, cl[i], cr[i], p, q)
      BY <2>5, <3>2, Zenon
    <3> QED BY <3>1, <3>3
  <2>9. Takes(InOrder(cs), m, n) <=>
          \E ms : Chain(heap, skip, free, ks, k, m, ms) /\ ms[k] = n
    BY <1>1, <2>6, <2>7, <2>8, InOrderIsChain
  <2> QED BY <1>1, <1>3, <2>4, <2>9 DEF ChainTo, ChainOf, ks, C
<1> QED BY <1>2, <1>3

\* Where a key is found.
LEMMA KeyFacts ==
  ASSUME NEW heap, IsHeap(heap), NEW n \in Node, heap[n].type = "Map", NEW key
  PROVE  LET content == heap[n].content
             at == KeyAt(heap, n, key)
         IN /\ at # 0 => at \in 1 .. Len(content) /\ Content(content[at][1]) = Content(key)
            /\ \A i \in 1 .. Len(content) : Content(content[i][1]) = Content(key) => at = i
<1> DEFINE content == heap[n].content
           hits == {i \in DOMAIN content : Content(content[i][1]) = Content(key)}
<1>1. DOMAIN content = 1 .. Len(content) /\ Len(content) \in Nat
  BY HeapFacts
<1>2. \A i, j \in DOMAIN content : Content(content[i][1]) = Content(content[j][1]) => i = j
  BY DEF IsHeap
<1>3. \A i, j \in hits : i = j
  BY <1>2
<1>4. KeyAt(heap, n, key) = IF hits = {} THEN 0 ELSE CHOOSE i \in hits : \A j \in hits : i <= j
  BY DEF KeyAt
<1>5. hits \subseteq 1 .. Len(content)
  BY <1>1
<1>6. CASE hits = {}
  <2>1. \A i \in 1 .. Len(content) : Content(content[i][1]) # Content(key)
    BY <1>1, <1>6
  <2>2. KeyAt(heap, n, key) = 0
    BY <1>4, <1>6
  <2>3. \A i \in 1 .. Len(content) :
          Content(content[i][1]) = Content(key) => KeyAt(heap, n, key) = i
    BY <2>1
  <2> HIDE DEF content
  <2> QED BY <2>2, <2>3 DEF content
<1>7. CASE hits # {}
  <2>1. PICK k \in hits : TRUE
    BY <1>7
  <2>2. k \in Nat /\ \A j \in hits : k <= j
    BY <1>3, <1>5, <2>1
  <2>3. (CHOOSE i \in hits : \A j \in hits : i <= j) = k
    <3> HIDE DEF hits
    <3> QED BY <1>3, <2>1, <2>2
  <2>4. KeyAt(heap, n, key) = k
    BY <1>4, <1>7, <2>3
  <2>5. k \in 1 .. Len(content) /\ Content(content[k][1]) = Content(key)
    BY <1>5, <2>1
  <2>6. \A i \in 1 .. Len(content) : Content(content[i][1]) = Content(key) => k = i
    BY <1>1, <1>3, <2>1
  <2> HIDE DEF hits
  <2> QED BY <2>4, <2>5, <2>6
<1> QED BY <1>6, <1>7

\* The keys of maps are data: they are looked up as they are.
NoObjectKeys(heap) ==
  \A n \in Node : heap[n].type = "Map" =>
    \A i \in DOMAIN heap[n].content : ~IsObject(heap[n].content[i][1])

\* Every key of l is one of r.
KeysIn(heap, l, r) ==
  \A i \in 1 .. Len(heap[l].content) : KeyAt(heap, r, heap[l].content[i][1]) # 0

\* An entry is equal to the one that the other map has under its key.
LEMMA EqEntry ==
  ASSUME NEW heap, IsHeap(heap), NoObjectKeys(heap), NEW skip, NEW free \in BOOLEAN,
         NEW l \in Node, NEW r \in Node, heap[l].type = "Map",
         NEW i \in 1 .. Len(heap[l].content), NEW m \in Mapping, NEW n
  PROVE  LET c == CompareEntry(heap, Silent(heap, skip), free, l, r, i)
             at == KeyAt(heap, r, heap[l].content[i][1])
         IN /\ IsResult(c[m])
            /\ Takes(c, m, n) <=>
                 /\ at # 0
                 /\ Eq(heap, skip, free, heap[l].content[i][2], heap[r].content[at][2], m, n)
<1> DEFINE C == Silent(heap, skip)
           c == CompareEntry(heap, C, free, l, r, i)
           key == heap[l].content[i][1]
           at == KeyAt(heap, r, key)
           a == CompareAny(C, free, heap[l].content[i][2], heap[r].content[at][2])
<1> HIDE DEF C
<1>1. i \in DOMAIN heap[l].content
  BY HeapFacts
<1>2. ~IsObject(key)
  BY <1>1 DEF NoObjectKeys
<1>3. MapLhsToRhs(m, key) = key
  BY <1>2 DEF MapLhsToRhs
<1>4. c[m] = IF at = 0 THEN Result("different", m, Step("key", key, Missing))
             ELSE Under(Step("key", key, key), a[m])
  BY <1>3 DEF CompareEntry
<1> HIDE DEF c, key, at
<1>5. CASE at = 0
  <2>1. IsResult(c[m]) /\ c[m].outcome = "different"
    BY <1>4, <1>5, ResultFacts
  <2> QED BY <1>5, <2>1 DEF Takes, c, at, key, C
<1>6. CASE at # 0
  <2> DEFINE step == Step("key", key, key)
  <2> HIDE DEF step
  <2>0. IsResult(Under(step, a[m]))
    BY UnderTakes DEF C
  <2>1. Under(step, a[m]).outcome = "equal" /\ Under(step, a[m]).mapping = n
          <=> Eq(heap, skip, free, heap[l].content[i][2], heap[r].content[at][2], m, n)
    BY UnderTakes DEF C
  <2>2. c[m] = Under(step, a[m])
    BY <1>4, <1>6 DEF step
  <2> HIDE DEF a
  <2>3. /\ IsResult(c[m])
        /\ Takes(c, m, n)
             <=> Eq(heap, skip, free, heap[l].content[i][2], heap[r].content[at][2], m, n)
    BY <2>0, <2>1, <2>2 DEF Takes
  <2> QED BY <1>6, <2>3 DEF c, at, key, C
<1> QED BY <1>5, <1>6

\* Maps are equal when they have one size, the same keys and equal values.
LEMMA EqMap ==
  ASSUME NEW heap, IsHeap(heap), NoObjectKeys(heap), NEW skip, NEW free \in BOOLEAN,
         NEW l \in Node, NEW r \in Node, heap[l].type = "Map", heap[r].type = "Map",
         NEW m \in Mapping, NEW n
  PROVE  Takes(CompareMap(heap, SilentOpt(skip), Silent(heap, skip), free, l, r), m, n) <=>
           /\ Len(heap[l].content) = Len(heap[r].content) /\ KeysIn(heap, l, r)
           /\ ChainTo(heap, skip, free, l, r, m, n)
<1> DEFINE C == Silent(heap, skip)
           cl == heap[l].content
           cr == heap[r].content
           k == Len(cl)
           at(i) == KeyAt(heap, r, cl[i][1])
           ks == Kids(heap, l, r)
           cs == [i \in 1 .. k |-> CompareEntry(heap, C, free, l, r, i)]
           whole == CompareMap(heap, SilentOpt(skip), C, free, l, r)
<1>1. k \in Nat /\ Len(cr) \in Nat /\ KidCount(heap, l) = k
  BY HeapFacts DEF KidCount, HasItems
<1> HIDE DEF C
<1>2. CASE k # Len(cr)
  <2>1. whole[m] = Result("different", m, <<>>)
    BY <1>2, AnswerFacts DEF CompareMap, SilentOpt
  <2>2. ~Takes(whole, m, n)
    <3> HIDE DEF whole
    <3> QED BY <2>1 DEF Takes, Result
  <2> QED BY <1>2, <2>2 DEF C
<1>3. CASE k = Len(cr)
  <2>1. CompareEntries(heap, C, free, l, r) = InOrder(cs)
    BY DEF CompareEntries
  <2>2. whole[m] = CompareEntries(heap, C, free, l, r)[m]
    BY <1>3 DEF CompareMap, SilentOpt
  <2>3. Takes(whole, m, n) <=> Takes(InOrder(cs), m, n)
    <3> HIDE DEF whole, cs
    <3> QED BY <2>1, <2>2 DEF Takes
  <2>4. ASSUME NEW i \in 1 .. k
        PROVE  /\ ks[i].lhs = cl[i][2] /\ ks[i].rhs = cr[at(i)][2] /\ ks[i].def = FALSE
               /\ cs[i] = CompareEntry(heap, C, free, l, r, i)
    <3>1. ks[i] = Pair(cl[i][2], cr[at(i)][2], FALSE)
      BY <1>1 DEF Kids, Kid
    <3> QED BY <3>1 DEF Pair
  <2>5. Len(cs) = k
    BY <1>1
  <2> HIDE DEF cs, ks
  <2>6. ASSUME NEW i \in 1 .. k, NEW p \in Mapping, NEW q
        PROVE  /\ IsResult(cs[i][p])
               /\ Takes(cs[i], p, q) <=>
                    at(i) # 0 /\ Eq(heap, skip, free, cl[i][2], cr[at(i)][2], p, q)
    <3>1. LET c == CompareEntry(heap, C, free, l, r, i) IN
          /\ IsResult(c[p])
          /\ Takes(c, p, q) <=>
               at(i) # 0 /\ Eq(heap, skip, free, cl[i][2], cr[at(i)][2], p, q)
      BY EqEntry DEF C
    <3> QED BY <2>4, <3>1
  <2>7. AllResults(cs, k)
    BY <2>6 DEF AllResults
  <2>8. CASE KeysIn(heap, l, r)
    <3>1. \A i \in 1 .. k : \A p \in Mapping, q \in Mapping :
            Takes(cs[i], p, q) <=>
              Eq(heap, skip, free \/ ks[i].def, ks[i].lhs, ks[i].rhs, p, q)
      <4> TAKE i \in 1 .. k
      <4> TAKE p \in Mapping, q \in Mapping
      <4>1. (free \/ ks[i].def) = free
        BY <2>4
      <4>2. at(i) # 0
        BY <2>8 DEF KeysIn
      <4>3. Takes(cs[i], p, q) <=> Eq(heap, skip, free, cl[i][2], cr[at(i)][2], p, q)
        BY <2>6, <4>2
      <4>4. Eq(heap, skip, free \/ ks[i].def, ks[i].lhs, ks[i].rhs, p, q)
              <=> Eq(heap, skip, free, cl[i][2], cr[at(i)][2], p, q)
        BY <2>4, <4>1, Zenon
      <4> QED BY <4>3, <4>4
    <3>2. Takes(InOrder(cs), m, n) <=>
            \E ms : Chain(heap, skip, free, ks, k, m, ms) /\ ms[k] = n
      BY <1>1, <2>5, <2>7, <3>1, InOrderIsChain
    <3> QED BY <1>1, <1>3, <2>3, <2>8, <3>2 DEF ChainTo, ChainOf, ks, C
  <2>9. CASE ~KeysIn(heap, l, r)
    <3>1. PICK i \in 1 .. k : at(i) = 0
      BY <2>9 DEF KeysIn
    <3>2. ~Takes(InOrder(cs), m, n)
      <4> SUFFICES ASSUME Takes(InOrder(cs), m, n) PROVE FALSE
        OBVIOUS
      <4>1. Runs(cs, k, m, n)
        BY <1>1, <2>5, <2>7, InOrderTakes
      <4>2. PICK ms \in [0 .. k -> Mapping] : Takes(cs[i], ms[i - 1], ms[i])
        BY <4>1 DEF Runs
      <4>3. ms[i - 1] \in Mapping
        BY <1>1
      <4> QED BY <2>6, <3>1, <4>2, <4>3
    <3> QED BY <2>3, <2>9, <3>2 DEF C
  <2> QED BY <2>8, <2>9
<1> QED BY <1>2, <1>3

\* The comparison of a field, by its flag.
FieldComparison(heap, C, free, l, r, i) ==
  IF Flags(heap, l)[i] = "ignore" THEN Answer(TRUE)
  ELSE At(Step("attr", i, i),
          CompareAny(C, free \/ Flags(heap, l)[i] = "def",
                     heap[l].content[i], heap[r].content[i]))

\* An ignored field is equal, another one when its pair is.
LEMMA EqField ==
  ASSUME NEW heap, IsHeap(heap), NEW skip, NEW free \in BOOLEAN,
         NEW l \in Node, NEW r \in Node, HasFields(heap, l), NEW i, NEW m \in Mapping, NEW n
  PROVE  LET c == FieldComparison(heap, Silent(heap, skip), free, l, r, i)
             kid == Kid(heap, l, r, i)
         IN /\ IsResult(c[m])
            /\ Takes(c, m, n) <=> Eq(heap, skip, free \/ kid.def, kid.lhs, kid.rhs, m, n)
<1> DEFINE C == Silent(heap, skip)
           c == FieldComparison(heap, C, free, l, r, i)
           kid == Kid(heap, l, r, i)
           flag == Flags(heap, l)[i]
           x == heap[l].content[i]
           y == heap[r].content[i]
<1>1. kid = IF flag = "ignore" THEN Pair(0, 0, FALSE) ELSE Pair(x, y, flag = "def")
  BY DEF Kid, HasFields
<1> HIDE DEF kid, C
<1>2. CASE flag = "ignore"
  <2>1. c[m] = Result("equal", m, <<>>)
    BY <1>2, AnswerFacts DEF FieldComparison
  <2>2. kid.lhs = 0 /\ kid.rhs = 0 /\ kid.def = FALSE
    BY <1>1, <1>2 DEF Pair
  <2>3. ~IsObject(0)
    BY Objects DEF IsObject
  <2>4. Eq(heap, skip, free \/ kid.def, kid.lhs, kid.rhs, m, n) <=> n = m
    BY <2>2, <2>3, EqData
  <2> HIDE DEF c
  <2>5. IsResult(c[m]) /\ c[m].outcome = "equal" /\ c[m].mapping = m
    BY <2>1, ResultFacts
  <2>6. Takes(c, m, n) <=> n = m
    BY <2>5 DEF Takes
  <2> QED BY <2>4, <2>5, <2>6 DEF c, kid, C
<1>3. CASE flag # "ignore"
  <2> DEFINE f == free \/ flag = "def"
             step == Step("attr", i, i)
             a == CompareAny(C, f, x, y)
  <2>1. kid.lhs = x /\ kid.rhs = y /\ kid.def = (flag = "def")
    BY <1>1, <1>3 DEF Pair
  <2>2. c = At(step, a)
    BY <1>3 DEF FieldComparison
  <2>3. f \in BOOLEAN /\ (free \/ kid.def) = f
    BY <2>1
  <2> HIDE DEF c, f, step
  <2>4. c[m] = Under(step, a[m])
    BY <2>2, AtFacts
  <2>5. IsResult(Under(step, a[m]))
    BY <2>3, UnderTakes DEF C
  <2>6. Under(step, a[m]).outcome = "equal" /\ Under(step, a[m]).mapping = n
          <=> Eq(heap, skip, f, x, y, m, n)
    BY <2>3, UnderTakes DEF C
  <2>7. IsResult(c[m]) /\ (Takes(c, m, n) <=> Eq(heap, skip, f, x, y, m, n))
    <3> HIDE DEF a, x, y
    <3> QED BY <2>4, <2>5, <2>6 DEF Takes
  <2>8. Eq(heap, skip, free \/ kid.def, kid.lhs, kid.rhs, m, n) <=> Eq(heap, skip, f, x, y, m, n)
    BY <2>1, <2>3, Zenon
  <2> QED BY <2>7, <2>8 DEF c, kid, C
<1> QED BY <1>2, <1>3

\* An ignored field is equal, another one when its pair is.
\* Fields are equal when their pairs are.
LEMMA EqFields ==
  ASSUME NEW heap, IsHeap(heap), NEW skip, NEW free \in BOOLEAN,
         NEW l \in Node, NEW r \in Node, HasFields(heap, l), NEW m \in Mapping, NEW n
  PROVE  Takes(CompareFields(heap, Silent(heap, skip), free, l, r), m, n)
           <=> ChainTo(heap, skip, free, l, r, m, n)
<1> DEFINE C == Silent(heap, skip)
           k == KidCount(heap, l)
           ks == Kids(heap, l, r)
           cs == [i \in 1 .. k |-> FieldComparison(heap, C, free, l, r, i)]
<1>1. k \in Nat /\ k = Len(Flags(heap, l))
  BY KidCountFacts DEF KidCount, HasItems, HasFields
<1> HIDE DEF C, k
<1>2. CompareFields(heap, C, free, l, r) = InOrder(cs)
  BY <1>1 DEF CompareFields, FieldComparison
<1>3. ASSUME NEW i \in 1 .. k
      PROVE  ks[i] = Kid(heap, l, r, i) /\ cs[i] = FieldComparison(heap, C, free, l, r, i)
  BY DEF Kids, k
<1>4. Len(cs) = k
  BY <1>1
<1> HIDE DEF cs, ks
<1>5. ASSUME NEW i \in 1 .. k, NEW p \in Mapping, NEW q
      PROVE  /\ IsResult(cs[i][p])
             /\ Takes(cs[i], p, q) <=>
                  Eq(heap, skip, free \/ ks[i].def, ks[i].lhs, ks[i].rhs, p, q)
  <2>1. LET c == FieldComparison(heap, C, free, l, r, i)
            kid == Kid(heap, l, r, i)
        IN /\ IsResult(c[p])
           /\ Takes(c, p, q) <=> Eq(heap, skip, free \/ kid.def, kid.lhs, kid.rhs, p, q)
    BY EqField DEF C
  <2> QED BY <1>3, <2>1
<1>6. AllResults(cs, k)
  BY <1>5 DEF AllResults
<1>7. \A i \in 1 .. k : \A p \in Mapping, q \in Mapping :
        Takes(cs[i], p, q) <=>
          Eq(heap, skip, free \/ ks[i].def, ks[i].lhs, ks[i].rhs, p, q)
  <2> TAKE i \in 1 .. k
  <2> TAKE p \in Mapping, q \in Mapping
  <2> QED BY <1>5
<1>8. Takes(InOrder(cs), m, n) <=> \E ms : Chain(heap, skip, free, ks, k, m, ms) /\ ms[k] = n
  BY <1>1, <1>4, <1>6, <1>7, InOrderIsChain
<1> QED BY <1>2, <1>8 DEF ChainTo, ChainOf, ks, C, k

-----------------------------------------------------------------------------
(* When two objects are equal: at once, or when their parts are.           *)

\* What two containers have in common before their elements are compared.
SameShape(heap, l, r) ==
  /\ Len(heap[l].content) = Len(heap[r].content)
  /\ heap[l].type = "Map" => KeysIn(heap, l, r)

\* Tensors are equal when their shapes, and unless skipped their data, are; data
\* that cannot be read are equal to nothing.
SameTensor(heap, skip, l, r) ==
  \/ l = r
  \/ /\ heap[l].content[1] = heap[r].content[1]
     /\ \/ skip
        \/ /\ Readable(heap, l) /\ Readable(heap, r)
           /\ heap[l].content[2] = heap[r].content[2]

\* A comparison of this object that is equal is recorded.
IsRecorded(heap, l) == HasFields(heap, l) /\ Recorded(heap, l)

\* Equal without a look at the parts.
AtOnce(heap, skip, l, r, m) ==
  \/ heap[l].type = "Tensor" /\ SameTensor(heap, skip, l, r)
  \/ HasFields(heap, l) /\ KnownOutcome(heap, m, l, r) = "equal"

\* What must hold beside equal parts.
ByParts(heap, free, l, r, m) ==
  \/ HasItems(heap, l) /\ SameShape(heap, l, r)
  \/ /\ HasFields(heap, l) /\ KnownOutcome(heap, m, l, r) = "unknown"
     /\ Kind(heap, l) = "FreeVar" => l = r \/ free

\* The mapping a comparison by parts leaves, when its parts left m.
Leaves(heap, l, r, m) == IF IsRecorded(heap, l) THEN Record(m, l, r) ELSE m

\* Equal by parts.
Parted(heap, skip, free, l, r, m, n) ==
  /\ ByParts(heap, free, l, r, m)
  /\ \E p : ChainTo(heap, skip, free, l, r, m, p) /\ n = Leaves(heap, l, r, p)

LEMMA TensorTakes ==
  ASSUME NEW heap, NEW skip, NEW l \in Node, NEW r \in Node, NEW m \in Mapping, NEW n
  PROVE  Takes(CompareNDArray(heap, SilentOpt(skip), l, r), m, n)
           <=> SameTensor(heap, skip, l, r) /\ n = m
<1> DEFINE tensors == CompareNDArray(heap, SilentOpt(skip), l, r)
           same_shape == heap[l].content[1] = heap[r].content[1]
           by_data == l # r /\ same_shape /\ ~skip
<1>1. CASE ~by_data
  <2>1. tensors = Answer(l = r \/ same_shape)
    BY <1>1 DEF CompareNDArray, SilentOpt
  <2>2. SameTensor(heap, skip, l, r) <=> l = r \/ same_shape
    BY <1>1 DEF SameTensor
  <2>3. tensors[m] = Result(IF SameTensor(heap, skip, l, r) THEN "equal" ELSE "different", m, <<>>)
    BY <2>1, <2>2, AnswerFacts
  <2> HIDE DEF tensors
  <2>4. Takes(tensors, m, n) <=> SameTensor(heap, skip, l, r) /\ n = m
    BY <2>3 DEF Takes, Result
  <2> QED BY <2>4 DEF tensors
<1>2. CASE by_data /\ ~(Readable(heap, l) /\ Readable(heap, r))
  <2>1. tensors = Ends("throw")
    BY <1>2 DEF CompareNDArray, SilentOpt
  <2>2. ~SameTensor(heap, skip, l, r)
    BY <1>2 DEF SameTensor
  <2>3. tensors[m] = Result("throw", m, <<>>)
    BY <2>1, EndsFacts
  <2> HIDE DEF tensors
  <2>4. ~Takes(tensors, m, n)
    BY <2>3 DEF Takes, Result
  <2> QED BY <2>2, <2>4 DEF tensors
<1>3. CASE by_data /\ Readable(heap, l) /\ Readable(heap, r)
  <2>1. tensors = Answer(heap[l].content[2] = heap[r].content[2])
    BY <1>3 DEF CompareNDArray, SilentOpt
  <2>2. SameTensor(heap, skip, l, r) <=> heap[l].content[2] = heap[r].content[2]
    BY <1>3 DEF SameTensor
  <2>3. tensors[m] = Result(IF SameTensor(heap, skip, l, r) THEN "equal" ELSE "different", m, <<>>)
    BY <2>1, <2>2, AnswerFacts
  <2> HIDE DEF tensors
  <2>4. Takes(tensors, m, n) <=> SameTensor(heap, skip, l, r) /\ n = m
    BY <2>3 DEF Takes, Result
  <2> QED BY <2>4 DEF tensors
<1> QED BY <1>1, <1>2, <1>3

\* Two objects are equal at once, or by parts.
LEMMA EqStep ==
  ASSUME NEW heap, IsHeap(heap), NoObjectKeys(heap), NEW skip, NEW free \in BOOLEAN,
         NEW l \in Node, NEW r \in Node, NEW m \in Mapping, NEW n
  PROVE  Eq(heap, skip, free, l, r, m, n) <=>
           /\ heap[l].type = heap[r].type
           /\ \/ AtOnce(heap, skip, l, r, m) /\ n = m
              \/ Parted(heap, skip, free, l, r, m, n)
<1> DEFINE C == Silent(heap, skip)
           whole == CompareObjects(heap, SilentOpt(skip), C, free, l, r)
           e == Eq(heap, skip, free, l, r, m, n)
<1>1. e <=> Takes(whole, m, n)
  <2>1. CompareAny(C, free, l, r) = C[l][free][r]
    BY DEF CompareAny, IsObject
  <2>2. C[l][free][r] = whole
    BY Walk DEF Silent, SilentOpt
  <2> QED BY <2>1, <2>2 DEF Eq
<1> HIDE DEF C, e
<1>2. CASE heap[l].type # heap[r].type
  <2>1. whole[m] = Result("different", m, <<>>)
    BY <1>2, AnswerFacts DEF CompareObjects
  <2>2. ~Takes(whole, m, n)
    <3> HIDE DEF whole
    <3> QED BY <2>1 DEF Takes, Result
  <2> QED BY <1>1, <1>2, <2>2 DEF e
<1>3. CASE heap[l].type = heap[r].type /\ heap[l].type = "Array"
  <2>1. whole = CompareArray(heap, SilentOpt(skip), C, free, l, r)
    BY <1>3 DEF CompareObjects
  <2>2. e <=> Len(heap[l].content) = Len(heap[r].content) /\ ChainTo(heap, skip, free, l, r, m, n)
    BY <1>1, <1>3, <2>1, EqArray DEF C
  <2>3. Leaves(heap, l, r, n) = n /\ \A p : Leaves(heap, l, r, p) = p
    BY <1>3 DEF Leaves, IsRecorded, HasFields
  <2>4. /\ ByParts(heap, free, l, r, m) <=> Len(heap[l].content) = Len(heap[r].content)
        /\ ~AtOnce(heap, skip, l, r, m)
    BY <1>3 DEF ByParts, AtOnce, HasItems, HasFields, SameShape
  <2> QED BY <1>3, <2>2, <2>3, <2>4 DEF e, Parted
<1>4. CASE heap[l].type = heap[r].type /\ heap[l].type = "Map"
  <2>1. whole = CompareMap(heap, SilentOpt(skip), C, free, l, r)
    BY <1>4 DEF CompareObjects
  <2>2. e <=> SameShape(heap, l, r) /\ ChainTo(heap, skip, free, l, r, m, n)
    <3> DEFINE map == CompareMap(heap, SilentOpt(skip), C, free, l, r)
    <3>1. Takes(map, m, n) <=>
            /\ Len(heap[l].content) = Len(heap[r].content) /\ KeysIn(heap, l, r)
            /\ ChainTo(heap, skip, free, l, r, m, n)
      BY <1>4, EqMap DEF C
    <3> HIDE DEF whole, map
    <3>2. e <=> Takes(map, m, n)
      BY <1>1, <2>1, Zenon DEF map
    <3> QED BY <1>4, <3>1, <3>2 DEF SameShape
  <2>3. Leaves(heap, l, r, n) = n /\ \A p : Leaves(heap, l, r, p) = p
    BY <1>4 DEF Leaves, IsRecorded, HasFields
  <2>4. /\ ByParts(heap, free, l, r, m) <=> SameShape(heap, l, r)
        /\ ~AtOnce(heap, skip, l, r, m)
    BY <1>4 DEF ByParts, AtOnce, HasItems, HasFields
  <2> QED BY <1>4, <2>2, <2>3, <2>4 DEF e, Parted
<1>5. CASE heap[l].type = heap[r].type /\ heap[l].type = "Tensor"
  <2>1. whole = CompareNDArray(heap, SilentOpt(skip), l, r)
    BY <1>5 DEF CompareObjects
  <2>2. Takes(CompareNDArray(heap, SilentOpt(skip), l, r), m, n)
          <=> SameTensor(heap, skip, l, r) /\ n = m
    BY TensorTakes
  <2>3. e <=> SameTensor(heap, skip, l, r) /\ n = m
    <3> HIDE DEF whole
    <3> QED BY <1>1, <2>1, <2>2
  <2>4. /\ ~ByParts(heap, free, l, r, m)
        /\ AtOnce(heap, skip, l, r, m) <=> SameTensor(heap, skip, l, r)
    BY <1>5 DEF ByParts, AtOnce, HasItems, HasFields
  <2> QED BY <1>5, <2>3, <2>4 DEF e, Parted
<1>6. CASE heap[l].type = heap[r].type /\ HasFields(heap, l)
  <2> DEFINE known == KnownOutcome(heap, m, l, r)
             res == CompareFields(heap, C, free, l, r)[m]
  <2>1. whole = CompareObject(heap, C, free, l, r)
    BY <1>6 DEF CompareObjects, HasFields
  <2>2. whole[m] = IF known # "unknown" THEN Result(known, m, <<>>)
                   ELSE IF res.outcome # "equal" \/ ~Recorded(heap, l) THEN res
                   ELSE IF Kind(heap, l) = "FreeVar" /\ ~(l = r \/ free)
                     THEN Result("different", res.mapping, <<>>)
                   ELSE Result("equal", Record(res.mapping, l, r), <<>>)
    BY <2>1 DEF CompareObject
  <2>3. \A p : res.outcome = "equal" /\ res.mapping = p <=> ChainTo(heap, skip, free, l, r, m, p)
    BY <1>6, EqFields DEF C, Takes
  <2>4. /\ AtOnce(heap, skip, l, r, m) <=> known = "equal"
        /\ ByParts(heap, free, l, r, m) <=>
             known = "unknown" /\ (Kind(heap, l) = "FreeVar" => l = r \/ free)
        /\ \A p : Leaves(heap, l, r, p) = IF Recorded(heap, l) THEN Record(p, l, r) ELSE p
    BY <1>6 DEF AtOnce, ByParts, Leaves, IsRecorded, HasFields, HasItems
  <2>5. Kind(heap, l) = "FreeVar" => Recorded(heap, l)
    BY DEF Recorded
  <2>6. known = "equal" => known # "unknown"
    OBVIOUS
  <2> HIDE DEF whole, known, res
  <2>7. Takes(whole, m, n) <=>
          \/ known = "equal" /\ n = m
          \/ /\ known = "unknown" /\ res.outcome = "equal"
             /\ Kind(heap, l) = "FreeVar" => l = r \/ free
             /\ n = IF Recorded(heap, l) THEN Record(res.mapping, l, r) ELSE res.mapping
    BY <2>2, <2>5, <2>6 DEF Takes, Result
  <2> QED BY <1>1, <1>6, <2>3, <2>4, <2>7 DEF e, Parted
<1> QED BY <1>2, <1>3, <1>4, <1>5, <1>6 DEF HasFields

-----------------------------------------------------------------------------
(* What is recorded.                                                       *)

\* The two maps of a handler are inverse to each other.
Inverses(m) == m \in Mapping /\ \A a, b \in Node : m.lhs[a] = b <=> m.rhs[b] = a

\* What is recorded in m is recorded in n.
Within(m, n) == \A a \in Node : m.lhs[a] # Unmapped => n.lhs[a] = m.lhs[a]

\* Unmapped is no object.
LEMMA UnmappedIsNoObject == Unmapped \notin Node /\ ~IsObject(0) /\ Node \subseteq Nat
BY Objects DEF Unmapped, IsObject

\* The two sides of a mapping.
LEMMA MappingFacts ==
  ASSUME NEW m \in Mapping
  PROVE  /\ m = [lhs |-> m.lhs, rhs |-> m.rhs]
         /\ m.lhs \in [Node -> Node \union {Unmapped}]
         /\ m.rhs \in [Node -> Node \union {Unmapped}]
BY DEF Mapping

LEMMA WithinWithin ==
  ASSUME NEW m, NEW n, NEW k, Within(m, n), Within(n, k)
  PROVE  Within(m, k)
BY DEF Within

LEMMA WithinItself == ASSUME NEW m PROVE Within(m, m)
BY DEF Within

\* A mapping is determined by what is recorded in it.
LEMMA WithinEachOther ==
  ASSUME NEW m, NEW n, Inverses(m), Inverses(n), Within(m, n), Within(n, m)
  PROVE  m = n
<1>1. ASSUME NEW a \in Node PROVE m.lhs[a] = n.lhs[a]
  <2>1. m.lhs[a] \in Node \union {Unmapped} /\ n.lhs[a] \in Node \union {Unmapped}
    BY MappingFacts DEF Inverses
  <2> QED BY <2>1 DEF Within
<1>2. ASSUME NEW b \in Node PROVE m.rhs[b] = n.rhs[b]
  <2>1. m.rhs[b] \in Node \union {Unmapped} /\ n.rhs[b] \in Node \union {Unmapped}
    BY MappingFacts DEF Inverses
  <2>2. \A a \in Node : m.rhs[b] = a <=> n.rhs[b] = a
    BY <1>1 DEF Inverses
  <2> QED BY <2>1, <2>2
<1>3. m.lhs = n.lhs /\ m.rhs = n.rhs
  <2>1. /\ m.lhs \in [Node -> Node \union {Unmapped}] /\ n.lhs \in [Node -> Node \union {Unmapped}]
        /\ m.rhs \in [Node -> Node \union {Unmapped}] /\ n.rhs \in [Node -> Node \union {Unmapped}]
    BY MappingFacts DEF Inverses
  <2> QED BY <1>1, <1>2, <2>1
<1> QED BY <1>3, MappingFacts DEF Inverses

\* A pair of objects that have no image is added to a mapping.
LEMMA RecordKeeps ==
  ASSUME NEW m, Inverses(m), NEW l \in Node, NEW r \in Node,
         m.lhs[l] = Unmapped, m.rhs[r] = Unmapped
  PROVE  LET n == Record(m, l, r) IN
         /\ Inverses(n) /\ Within(m, n)
         /\ n.lhs[l] = r /\ \A a \in Node : a # l => n.lhs[a] = m.lhs[a]
         /\ n.rhs[r] = l /\ \A b \in Node : b # r => n.rhs[b] = m.rhs[b]
<1> DEFINE n == Record(m, l, r)
<1>1. /\ m.lhs \in [Node -> Node \union {Unmapped}]
      /\ m.rhs \in [Node -> Node \union {Unmapped}]
      /\ m \in Mapping
  BY MappingFacts DEF Inverses
<1>2. n.lhs = [m.lhs EXCEPT ![l] = r] /\ n.rhs = [m.rhs EXCEPT ![r] = l]
  BY DEF Record
<1>3. n \in Mapping
  BY <1>1, RecordFacts
<1> HIDE DEF n
<1>4. n.lhs[l] = r /\ \A a \in Node : a # l => n.lhs[a] = m.lhs[a]
  BY <1>1, <1>2
<1>5. n.rhs[r] = l /\ \A b \in Node : b # r => n.rhs[b] = m.rhs[b]
  BY <1>1, <1>2
<1>6. ASSUME NEW a \in Node, NEW b \in Node PROVE n.lhs[a] = b <=> n.rhs[b] = a
  <2>1. m.lhs[a] = b <=> m.rhs[b] = a
    BY DEF Inverses
  <2>2. Unmapped \notin Node
    BY UnmappedIsNoObject
  <2>3. m.lhs[a] = r <=> m.rhs[r] = a
    BY DEF Inverses
  <2>4. m.lhs[l] = b <=> m.rhs[b] = l
    BY DEF Inverses
  <2> QED BY <1>4, <1>5, <2>1, <2>2, <2>3, <2>4
<1>7. Within(m, n)
  BY <1>4 DEF Within
<1> QED BY <1>3, <1>4, <1>5, <1>6, <1>7 DEF Inverses, n

-----------------------------------------------------------------------------
(* The parts of two objects that are compared.                             *)

\* Parts are older than what they are parts of.
LEMMA KidFacts ==
  ASSUME NEW heap, IsHeap(heap), NEW free, NEW m, NEW l \in Node, NEW r \in Node,
         heap[l].type = heap[r].type, ByParts(heap, free, l, r, m),
         NEW i \in 1 .. KidCount(heap, l)
  PROVE  LET kid == Kids(heap, l, r)[i] IN
         /\ kid = Kid(heap, l, r, i)
         /\ kid.def \in BOOLEAN
         /\ kid.def => \E f \in DOMAIN Flags(heap, l) : Flags(heap, l)[f] = "def"
         /\ IsObject(kid.lhs) => kid.lhs \in Parts(heap, l) /\ kid.lhs < l
         /\ IsObject(kid.rhs) => kid.rhs \in Parts(heap, r) /\ kid.rhs < r
<1> DEFINE kid == Kids(heap, l, r)[i]
<1>1. kid = Kid(heap, l, r, i)
  BY DEF Kids
<1> HIDE DEF kid
<1>2. CASE heap[l].type = "Map"
  <2> DEFINE at == KeyAt(heap, r, heap[l].content[i][1])
             x == heap[l].content[i][2]
             y == heap[r].content[at][2]
  <2>1. kid = Pair(x, y, FALSE)
    BY <1>1, <1>2 DEF Kid
  <2>2. i \in 1 .. Len(heap[l].content)
    BY <1>2 DEF KidCount, HasItems
  <2>3. at # 0
    BY <1>2, <2>2 DEF ByParts, HasItems, HasFields, SameShape, KeysIn
  <2>4. at \in 1 .. Len(heap[r].content)
    BY <1>2, <2>3, KeyFacts
  <2>5. (IsObject(x) => x < l) /\ (IsObject(y) => y < r)
    BY <1>2, <2>2, <2>4, HeapFacts
  <2>6. i \in DOMAIN heap[l].content /\ at \in DOMAIN heap[r].content
    BY <1>2, <2>2, <2>4, HeapFacts
  <2>7. x \in Parts(heap, l) /\ y \in Parts(heap, r)
    BY <1>2, <2>6 DEF Parts
  <2>8. kid.lhs = x /\ kid.rhs = y /\ kid.def = FALSE
    BY <2>1 DEF Pair
  <2> QED BY <1>1, <2>5, <2>7, <2>8 DEF kid
<1>3. CASE heap[l].type # "Map"
  <2> DEFINE x == heap[l].content[i]
             y == heap[r].content[i]
             ignored == HasFields(heap, l) /\ Flags(heap, l)[i] = "ignore"
             def == HasFields(heap, l) /\ Flags(heap, l)[i] = "def"
  <2>1. kid = IF ignored THEN Pair(0, 0, FALSE) ELSE Pair(x, y, def)
    BY <1>1, <1>3 DEF Kid, HasFields, ByParts, HasItems
  <2>2. i \in 1 .. Len(heap[l].content) /\ i \in 1 .. Len(heap[r].content)
    <3>1. CASE HasItems(heap, l)
      <4>1. Len(heap[l].content) = Len(heap[r].content)
        BY <3>1 DEF ByParts, HasItems, HasFields, SameShape
      <4> QED BY <3>1, <4>1 DEF KidCount
    <3>2. CASE ~HasItems(heap, l)
      <4>1. /\ Len(Flags(heap, l)) <= Len(heap[l].content)
            /\ Len(Flags(heap, r)) <= Len(heap[r].content)
            /\ Flags(heap, l) = Flags(heap, r)
            /\ Len(heap[l].content) \in Nat /\ Len(heap[r].content) \in Nat
            /\ Len(Flags(heap, l)) \in Nat
        BY <1>3, HeapFacts DEF Flags
      <4> QED BY <3>2, <4>1 DEF KidCount
    <3> QED BY <3>1, <3>2
  <2>3. (IsObject(x) => x < l) /\ (IsObject(y) => y < r)
    BY <1>3, <2>2, HeapFacts
  <2>4. i \in DOMAIN heap[l].content /\ i \in DOMAIN heap[r].content
    BY <1>3, <2>2, HeapFacts
  <2>5. x \in Parts(heap, l) /\ y \in Parts(heap, r)
    BY <1>3, <2>4 DEF Parts
  <2>6. def => \E f \in DOMAIN Flags(heap, l) : Flags(heap, l)[f] = "def"
    <3> SUFFICES ASSUME def PROVE i \in DOMAIN Flags(heap, l)
      OBVIOUS
    <3>1. i \in 1 .. Len(Flags(heap, l))
      BY DEF KidCount, HasItems, HasFields
    <3>2. Flags(heap, l) \in Seq({"plain", "def", "ignore"})
      BY HeapFacts, StructuralAssumption DEF Flags
    <3> QED BY <3>1, <3>2
  <2>7. CASE ignored
    <3>1. kid.lhs = 0 /\ kid.rhs = 0 /\ kid.def = FALSE
      BY <2>1, <2>7 DEF Pair
    <3> QED BY <1>1, <3>1, UnmappedIsNoObject DEF kid
  <2>8. CASE ~ignored
    <3>1. kid.lhs = x /\ kid.rhs = y /\ kid.def = def
      BY <2>1, <2>8 DEF Pair
    <3>2. def \in BOOLEAN
      OBVIOUS
    <3> HIDE DEF def, x, y
    <3> QED BY <1>1, <2>3, <2>5, <2>6, <3>1, <3>2 DEF kid, def
  <2> QED BY <2>7, <2>8
<1> QED BY <1>2, <1>3

-----------------------------------------------------------------------------
(* A comparison records objects no younger than the two it compares.       *)

\* From m to n nothing was lost, and nothing recorded for l, r or what is younger.
Fixed(m, n, l, r) ==
  /\ Inverses(n) /\ Within(m, n)
  /\ \A a \in Node : a >= l => n.lhs[a] = m.lhs[a]
  /\ \A b \in Node : b >= r => n.rhs[b] = m.rhs[b]

LEMMA FixedFixed ==
  ASSUME NEW l, NEW r, NEW m, NEW n, NEW k, Fixed(m, n, l, r), Fixed(n, k, l, r)
  PROVE  Fixed(m, k, l, r)
BY WithinWithin DEF Fixed

LEMMA FixedItself ==
  ASSUME NEW l, NEW r, NEW m, Inverses(m)
  PROVE  Fixed(m, m, l, r)
BY WithinItself DEF Fixed

\* What is fixed from an older object on is fixed from a younger one on.
LEMMA FixedAbove ==
  ASSUME NEW x \in Nat, NEW y \in Nat, NEW l \in Nat, NEW r \in Nat, x <= l, y <= r,
         NEW m, NEW n, Fixed(m, n, x, y)
  PROVE  Fixed(m, n, l, r)
<1>1. \A a \in Node : a \in Nat
  BY UnmappedIsNoObject
<1>2. \A a \in Node : (a >= l => a >= x) /\ (a >= r => a >= y)
  BY <1>1
<1> QED BY <1>2 DEF Fixed

\* Each of k pairs fixes what is not younger than l and r.
EachFixed(heap, skip, free, ks, k, l, r) ==
  \A i \in 1 .. k : \A p, q :
    Inverses(p) /\ Eq(heap, skip, free \/ ks[i].def, ks[i].lhs, ks[i].rhs, p, q)
      => Fixed(p, q, l, r)

\* Pairs one after the other fix what each of them does.
LEMMA ChainFixed ==
  ASSUME NEW heap, NEW skip, NEW free, NEW ks, NEW k \in Nat, NEW l, NEW r,
         EachFixed(heap, skip, free, ks, k, l, r),
         NEW m, NEW ms, Inverses(m), Chain(heap, skip, free, ks, k, m, ms)
  PROVE  \A i \in 0 .. k : Fixed(m, ms[i], l, r) /\ Within(ms[i], ms[k])
<1>1. /\ ms[0] = m
      /\ \A i \in 1 .. k :
           Eq(heap, skip, free \/ ks[i].def, ks[i].lhs, ks[i].rhs, ms[i - 1], ms[i])
  BY DEF Chain
<1>2. \A i \in 0 .. k : Fixed(m, ms[i], l, r)
  <2> DEFINE P == {i \in Nat : i <= k => Fixed(m, ms[i], l, r)}
  <2>1. 0 \in P
    BY <1>1, FixedItself
  <2>2. ASSUME NEW i \in Nat, i \in P PROVE i + 1 \in P
    <3> SUFFICES ASSUME i + 1 <= k PROVE Fixed(m, ms[i + 1], l, r)
      OBVIOUS
    <3>1. i + 1 \in 1 .. k /\ (i + 1) - 1 = i /\ Fixed(m, ms[i], l, r)
      BY <2>2
    <3>2. Eq(heap, skip, free \/ ks[i + 1].def, ks[i + 1].lhs, ks[i + 1].rhs, ms[i], ms[i + 1])
      BY <1>1, <3>1
    <3>3. Inverses(ms[i])
      BY <3>1 DEF Fixed
    <3>4. Fixed(ms[i], ms[i + 1], l, r)
      BY <3>1, <3>2, <3>3 DEF EachFixed
    <3> QED BY <3>1, <3>4, FixedFixed
  <2>3. \A i \in Nat : i \in P
    <3> HIDE DEF P
    <3> QED BY <2>1, <2>2, NextNumber
  <2> QED BY <2>3
<1>3. ASSUME NEW i \in 1 .. k PROVE Within(ms[i - 1], ms[i])
  <2>1. i - 1 \in 0 .. k
    OBVIOUS
  <2>2. Inverses(ms[i - 1])
    BY <1>2, <2>1 DEF Fixed
  <2>3. Fixed(ms[i - 1], ms[i], l, r)
    BY <1>1, <2>2 DEF EachFixed
  <2> QED BY <2>3 DEF Fixed
<1>4. \A i \in 0 .. k : Within(ms[i], ms[k])
  <2> DEFINE P == {j \in Nat : j <= k => Within(ms[k - j], ms[k])}
  <2>1. 0 \in P
    BY WithinItself
  <2>2. ASSUME NEW j \in Nat, j \in P PROVE j + 1 \in P
    <3> SUFFICES ASSUME j + 1 <= k PROVE Within(ms[k - (j + 1)], ms[k])
      OBVIOUS
    <3>1. k - j \in 1 .. k /\ (k - j) - 1 = k - (j + 1) /\ Within(ms[k - j], ms[k])
      BY <2>2
    <3>2. Within(ms[k - (j + 1)], ms[k - j])
      BY <1>3, <3>1
    <3> QED BY <3>1, <3>2, WithinWithin
  <2>3. \A j \in Nat : j \in P
    <3> HIDE DEF P
    <3> QED BY <2>1, <2>2, NextNumber
  <2> TAKE i \in 0 .. k
  <2>4. k - i \in Nat /\ k - i <= k /\ k - (k - i) = i
    OBVIOUS
  <2> QED BY <2>3, <2>4
<1> QED BY <1>2, <1>4

\* The comparison of l with another object records none younger than the two.
FrameAt(heap, skip, l) ==
  \A free \in BOOLEAN, r \in Node : \A m, n :
    Inverses(m) /\ Eq(heap, skip, free, l, r, m, n) => Fixed(m, n, l + 1, r + 1)

\* The same for two values.
LEMMA FrameAny ==
  ASSUME NEW heap, IsHeap(heap), NEW skip, NEW free \in BOOLEAN, NEW x, NEW y,
         NEW l \in Nat, NEW r \in Nat,
         IsObject(x) => x < l /\ FrameAt(heap, skip, x), IsObject(y) => y < r,
         NEW m, NEW n, Inverses(m), Eq(heap, skip, free, x, y, m, n)
  PROVE  Fixed(m, n, l, r)
<1>1. CASE IsObject(x) /\ IsObject(y)
  <2>1. x \in Nat /\ y \in Nat /\ x + 1 <= l /\ y + 1 <= r
    BY <1>1, UnmappedIsNoObject DEF IsObject
  <2>2. Fixed(m, n, x + 1, y + 1)
    BY <1>1 DEF FrameAt, IsObject
  <2> QED BY <2>1, <2>2, FixedAbove
<1>2. CASE ~(IsObject(x) /\ IsObject(y))
  <2>1. n = m
    BY <1>2, EqData DEF Inverses
  <2> QED BY <2>1, FixedItself
<1> QED BY <1>1, <1>2

\* The parts of two objects record nothing for the two.
LEMMA KidsFixed ==
  ASSUME NEW heap, IsHeap(heap), NEW skip, NEW free \in BOOLEAN,
         NEW l \in Node, NEW r \in Node, NEW m,
         heap[l].type = heap[r].type, ByParts(heap, free, l, r, m),
         \A c \in Node : c < l => FrameAt(heap, skip, c)
  PROVE  EachFixed(heap, skip, free, Kids(heap, l, r), KidCount(heap, l), l, r)
<1> SUFFICES ASSUME NEW i \in 1 .. KidCount(heap, l), NEW p, NEW q,
                    Inverses(p),
                    Eq(heap, skip, free \/ Kids(heap, l, r)[i].def,
                       Kids(heap, l, r)[i].lhs, Kids(heap, l, r)[i].rhs, p, q)
             PROVE  Fixed(p, q, l, r)
  BY DEF EachFixed
<1> DEFINE kid == Kids(heap, l, r)[i]
<1>1. /\ kid.def \in BOOLEAN
      /\ IsObject(kid.lhs) => kid.lhs < l
      /\ IsObject(kid.rhs) => kid.rhs < r
  BY KidFacts
<1> HIDE DEF kid
<1>2. IsObject(kid.lhs) => FrameAt(heap, skip, kid.lhs)
  BY <1>1 DEF IsObject
<1>3. (free \/ kid.def) \in BOOLEAN /\ l \in Nat /\ r \in Nat
  BY <1>1, UnmappedIsNoObject
<1>4. Eq(heap, skip, free \/ kid.def, kid.lhs, kid.rhs, p, q)
  BY DEF kid
<1> QED BY <1>1, <1>2, <1>3, <1>4, FrameAny

\* Nothing is recorded yet of two objects that are compared by their parts and
\* then recorded.
LEMMA NothingRecorded ==
  ASSUME NEW heap, NEW free, NEW l, NEW r, NEW m,
         ByParts(heap, free, l, r, m), IsRecorded(heap, l)
  PROVE  m.lhs[l] = Unmapped /\ m.rhs[r] = Unmapped
<1>1. HasFields(heap, l) /\ KnownOutcome(heap, m, l, r) = "unknown" /\ Recorded(heap, l)
  BY DEF ByParts, IsRecorded, HasFields, HasItems
<1> QED BY <1>1 DEF KnownOutcome, Verdict, Recorded

\* By induction on the age of l.
LEMMA Frame ==
  ASSUME NEW heap, IsHeap(heap), NoObjectKeys(heap), NEW skip
  PROVE  \A l \in Node : FrameAt(heap, skip, l)
<1> DEFINE P == {l \in Nat : l \in Node => FrameAt(heap, skip, l)}
<1>1. ASSUME NEW l \in Nat, \A c \in Nat : c < l => c \in P
      PROVE  l \in P
  <2> SUFFICES ASSUME l \in Node, NEW free \in BOOLEAN, NEW r \in Node, NEW m, NEW n,
                      Inverses(m), Eq(heap, skip, free, l, r, m, n)
               PROVE  Fixed(m, n, l + 1, r + 1)
    BY DEF FrameAt
  <2>0. m \in Mapping /\ r \in Nat
    BY UnmappedIsNoObject DEF Inverses
  <2>1. /\ heap[l].type = heap[r].type
        /\ \/ n = m
           \/ Parted(heap, skip, free, l, r, m, n)
    BY <2>0, EqStep
  <2>2. CASE n = m
    BY <2>2, FixedItself
  <2>3. ASSUME ByParts(heap, free, l, r, m),
               NEW p, ChainTo(heap, skip, free, l, r, m, p), n = Leaves(heap, l, r, p)
        PROVE  Fixed(m, n, l + 1, r + 1)
    <3>1. \A c \in Node : c < l => FrameAt(heap, skip, c)
      BY <1>1, UnmappedIsNoObject
    <3>2. EachFixed(heap, skip, free, Kids(heap, l, r), KidCount(heap, l), l, r)
      BY <2>1, <2>3, <3>1, KidsFixed
    <3>3. PICK ms : /\ Chain(heap, skip, free, Kids(heap, l, r), KidCount(heap, l), m, ms)
                    /\ ms[KidCount(heap, l)] = p
      BY <2>3 DEF ChainTo, ChainOf
    <3>4. KidCount(heap, l) \in Nat
      BY KidCountFacts
    <3>5. Fixed(m, p, l, r)
      BY <3>2, <3>3, <3>4, ChainFixed
    <3>6. CASE ~IsRecorded(heap, l)
      <4>1. n = p
        BY <2>3, <3>6 DEF Leaves
      <4> QED BY <2>0, <3>5, <4>1, FixedAbove
    <3>7. CASE IsRecorded(heap, l)
      <4>1. m.lhs[l] = Unmapped /\ m.rhs[r] = Unmapped
        BY <2>3, <3>7, NothingRecorded
      <4>2. p.lhs[l] = Unmapped /\ p.rhs[r] = Unmapped /\ Inverses(p)
        BY <2>0, <3>5, <4>1 DEF Fixed
      <4>3. n = Record(p, l, r)
        BY <2>3, <3>7 DEF Leaves
      <4>4. /\ Inverses(n) /\ Within(p, n)
            /\ \A a \in Node : a # l => n.lhs[a] = p.lhs[a]
            /\ \A b \in Node : b # r => n.rhs[b] = p.rhs[b]
        BY <4>2, <4>3, RecordKeeps
      <4>5. Within(m, n)
        BY <3>5, <4>4, WithinWithin DEF Fixed
      <4>6. ASSUME NEW a \in Node, a >= l + 1 PROVE n.lhs[a] = m.lhs[a]
        <5>1. a \in Nat /\ a # l /\ a >= l
          BY <4>6, UnmappedIsNoObject
        <5> QED BY <3>5, <4>4, <5>1 DEF Fixed
      <4>7. ASSUME NEW b \in Node, b >= r + 1 PROVE n.rhs[b] = m.rhs[b]
        <5>1. b \in Nat /\ b # r /\ b >= r
          BY <2>0, <4>7, UnmappedIsNoObject
        <5> QED BY <3>5, <4>4, <5>1 DEF Fixed
      <4> QED BY <4>4, <4>5, <4>6, <4>7 DEF Fixed
    <3> QED BY <3>6, <3>7
  <2> QED BY <2>1, <2>2, <2>3 DEF Parted
<1>2. \A l \in Nat : l \in P
  <2> HIDE DEF P
  <2> QED BY <1>1, AllNumbers
<1> QED BY <1>2, UnmappedIsNoObject

\* Pairs of values, each with or without the definition flag.
ArePairs(ks, k) == k \in Nat /\ \A i \in 1 .. k : ks[i].def \in BOOLEAN

\* A comparison loses nothing that is recorded.
LEMMA EqKeeps ==
  ASSUME NEW heap, IsHeap(heap), NoObjectKeys(heap), NEW skip, NEW free \in BOOLEAN,
         NEW x, NEW y, NEW m, NEW n, Inverses(m), Eq(heap, skip, free, x, y, m, n)
  PROVE  Inverses(n) /\ Within(m, n)
<1> DEFINE top == Cardinality(Node) + 1
<1>1. top \in Nat /\ \A c \in Node : c < top
  BY Objects
<1>2. /\ IsObject(x) => x < top /\ FrameAt(heap, skip, x)
      /\ IsObject(y) => y < top
  BY <1>1, Frame DEF IsObject
<1> HIDE DEF top
<1>3. Fixed(m, n, top, top)
  BY <1>1, <1>2, FrameAny
<1> QED BY <1>3 DEF Fixed

\* Nor do comparisons one after the other.
LEMMA ChainKeeps ==
  ASSUME NEW heap, IsHeap(heap), NoObjectKeys(heap), NEW skip, NEW free \in BOOLEAN,
         NEW ks, NEW k, ArePairs(ks, k), NEW m, NEW ms, Inverses(m),
         Chain(heap, skip, free, ks, k, m, ms)
  PROVE  \A i \in 0 .. k : Inverses(ms[i]) /\ Within(m, ms[i]) /\ Within(ms[i], ms[k])
<1> DEFINE top == Cardinality(Node) + 1
<1>1. ASSUME NEW i \in 1 .. k, NEW p, NEW q, Inverses(p),
             Eq(heap, skip, free \/ ks[i].def, ks[i].lhs, ks[i].rhs, p, q)
      PROVE  Fixed(p, q, top, top)
  <2>1. (free \/ ks[i].def) \in BOOLEAN
    BY DEF ArePairs
  <2>2. Inverses(q) /\ Within(p, q)
    BY <1>1, <2>1, EqKeeps
  <2>3. \A c \in Node : ~(c >= top)
    BY Objects
  <2> QED BY <2>2, <2>3 DEF Fixed
<1> HIDE DEF top
<1>2. EachFixed(heap, skip, free, ks, k, top, top)
  BY <1>1 DEF EachFixed
<1>3. \A i \in 0 .. k : Fixed(m, ms[i], top, top) /\ Within(ms[i], ms[k])
  BY <1>2, ChainFixed DEF ArePairs
<1> QED BY <1>3 DEF Fixed

-----------------------------------------------------------------------------
(* What was equal is equal at once, or by its parts, when asked again      *)
(* later.                                                                  *)

\* What l was equal to it is equal to again, whatever was recorded in between, and
\* nothing more is recorded.
AgainAt(heap, skip, l) ==
  \A free \in BOOLEAN, other \in BOOLEAN, r \in Node : \A m, n, late :
    Inverses(m) /\ Eq(heap, skip, free, l, r, m, n) /\ Inverses(late) /\ Within(n, late)
      => Eq(heap, skip, other, l, r, late, late)

\* The same for two values.
LEMMA AgainAny ==
  ASSUME NEW heap, IsHeap(heap), NEW skip, NEW free \in BOOLEAN, NEW other \in BOOLEAN,
         NEW x, NEW y, IsObject(x) => AgainAt(heap, skip, x),
         NEW m, NEW n, NEW late, Inverses(m), Eq(heap, skip, free, x, y, m, n),
         Inverses(late), Within(n, late)
  PROVE  Eq(heap, skip, other, x, y, late, late)
<1>1. CASE IsObject(x) /\ IsObject(y)
  BY <1>1 DEF AgainAt, IsObject
<1>2. CASE ~(IsObject(x) /\ IsObject(y))
  <2>1. Content(x) = Content(y)
    BY <1>2, EqData DEF Inverses
  <2> QED BY <1>2, <2>1, EqData DEF Inverses
<1> QED BY <1>1, <1>2

\* Each of the pairs is equal when late is recorded, and records nothing more.
EachEqual(heap, skip, free, ks, k, late) ==
  \A i \in 1 .. k : Eq(heap, skip, free \/ ks[i].def, ks[i].lhs, ks[i].rhs, late, late)

\* What was equal one after the other is equal later, pair by pair.
LEMMA ChainAgain ==
  ASSUME NEW heap, IsHeap(heap), NoObjectKeys(heap), NEW skip, NEW free \in BOOLEAN,
         NEW ks, NEW k, ArePairs(ks, k), NEW m, NEW ms, Inverses(m),
         Chain(heap, skip, free, ks, k, m, ms),
         \A i \in 1 .. k : IsObject(ks[i].lhs) => AgainAt(heap, skip, ks[i].lhs),
         NEW other \in BOOLEAN, NEW late, Inverses(late), Within(ms[k], late)
  PROVE  EachEqual(heap, skip, other, ks, k, late)
<1> SUFFICES ASSUME NEW i \in 1 .. k
             PROVE  Eq(heap, skip, other \/ ks[i].def, ks[i].lhs, ks[i].rhs, late, late)
  BY DEF EachEqual
<1>1. i - 1 \in 0 .. k /\ i \in 0 .. k
  BY DEF ArePairs
<1>2. Inverses(ms[i - 1]) /\ Within(ms[i], late)
  BY <1>1, ChainKeeps, WithinWithin
<1>3. Eq(heap, skip, free \/ ks[i].def, ks[i].lhs, ks[i].rhs, ms[i - 1], ms[i])
  BY DEF Chain
<1>4. (free \/ ks[i].def) \in BOOLEAN /\ (other \/ ks[i].def) \in BOOLEAN
  BY DEF ArePairs
<1> QED BY <1>2, <1>3, <1>4, AgainAny

\* Pairs that are each equal and record nothing are so one after the other.
LEMMA ChainStays ==
  ASSUME NEW heap, NEW skip, NEW free, NEW ks, NEW k \in Nat, NEW late \in Mapping,
         EachEqual(heap, skip, free, ks, k, late)
  PROVE  \E ms : Chain(heap, skip, free, ks, k, late, ms) /\ ms[k] = late
<1> DEFINE ms == [i \in 0 .. k |-> late]
<1>1. ms \in [0 .. k -> Mapping] /\ ms[0] = late /\ ms[k] = late
  OBVIOUS
<1>2. \A i \in 1 .. k : ms[i - 1] = late /\ ms[i] = late
  OBVIOUS
<1> HIDE DEF ms
<1>3. Chain(heap, skip, free, ks, k, late, ms)
  BY <1>1, <1>2 DEF Chain, EachEqual
<1> QED BY <1>1, <1>3

\* Kids are pairs.
LEMMA KidsArePairs ==
  ASSUME NEW heap, IsHeap(heap), NEW free, NEW m, NEW l \in Node, NEW r \in Node,
         heap[l].type = heap[r].type, ByParts(heap, free, l, r, m)
  PROVE  ArePairs(Kids(heap, l, r), KidCount(heap, l))
BY KidFacts, KidCountFacts DEF ArePairs

\* What is at once equal stays so.
LEMMA AtOnceAgain ==
  ASSUME NEW heap, NEW skip, NEW l \in Node, NEW r \in Node, NEW m, NEW late, Within(m, late),
         AtOnce(heap, skip, l, r, m)
  PROVE  AtOnce(heap, skip, l, r, late)
<1>1. CASE heap[l].type = "Tensor"
  BY <1>1 DEF AtOnce, HasFields
<1>2. CASE HasFields(heap, l) /\ KnownOutcome(heap, m, l, r) = "equal"
  <2>1. m.lhs[l] # Unmapped => late.lhs[l] = m.lhs[l]
    BY DEF Within
  <2>2. KnownOutcome(heap, late, l, r) = "equal"
    <3>1. CASE Recorded(heap, l)
      <4>1. Kind(heap, l) \in {"DAGNode", "FreeVar"}
        BY <3>1 DEF Recorded
      <4>2. m.lhs[l] # Unmapped /\ m.lhs[l] = r
        BY <1>2, <3>1, <4>1 DEF KnownOutcome, Verdict
      <4> QED BY <2>1, <3>1, <4>1, <4>2 DEF KnownOutcome, Verdict
    <3>2. CASE ~Recorded(heap, l)
      BY <1>2, <3>2 DEF KnownOutcome, Verdict
    <3> QED BY <3>1, <3>2
  <2> QED BY <1>2, <2>2 DEF AtOnce
<1> QED BY <1>1, <1>2 DEF AtOnce

\* Two objects that were recorded are equal at once.
LEMMA RecordedAtOnce ==
  ASSUME NEW heap, NEW skip, NEW free, NEW l \in Node, NEW r \in Node, NEW m, NEW late,
         IsRecorded(heap, l), ByParts(heap, free, l, r, m), late.lhs[l] = r
  PROVE  AtOnce(heap, skip, l, r, late)
<1>1. HasFields(heap, l) /\ Recorded(heap, l) /\ KnownOutcome(heap, m, l, r) = "unknown"
  BY DEF IsRecorded, ByParts, HasItems, HasFields
<1>2. r # Unmapped
  BY UnmappedIsNoObject
<1>3. KnownOutcome(heap, late, l, r) = "equal"
  BY <1>1, <1>2 DEF KnownOutcome, Verdict, Recorded
<1> QED BY <1>1, <1>3 DEF AtOnce

\* What is not recorded is compared by its parts whatever is recorded.
LEMMA ByPartsAgain ==
  ASSUME NEW heap, NEW free, NEW l \in Node, NEW r \in Node, NEW m, NEW other, NEW late,
         ~IsRecorded(heap, l), ByParts(heap, free, l, r, m)
  PROVE  ByParts(heap, other, l, r, late)
<1>1. CASE HasItems(heap, l)
  BY <1>1 DEF ByParts, HasItems, HasFields
<1>2. CASE HasFields(heap, l)
  <2>1. ~Recorded(heap, l) /\ KnownOutcome(heap, m, l, r) = "unknown"
    BY <1>2 DEF ByParts, IsRecorded, HasItems, HasFields
  <2>2. Kind(heap, l) # "FreeVar" /\ KnownOutcome(heap, late, l, r) = "unknown"
    BY <2>1 DEF KnownOutcome, Verdict, Recorded
  <2> QED BY <1>2, <2>2 DEF ByParts
<1> QED BY <1>1, <1>2 DEF ByParts

\* By induction on the age of l.
LEMMA Again ==
  ASSUME NEW heap, IsHeap(heap), NoObjectKeys(heap), NEW skip
  PROVE  \A l \in Node : AgainAt(heap, skip, l)
<1> DEFINE P == {l \in Nat : l \in Node => AgainAt(heap, skip, l)}
<1>1. ASSUME NEW l \in Nat, \A c \in Nat : c < l => c \in P
      PROVE  l \in P
  <2> SUFFICES ASSUME l \in Node, NEW free \in BOOLEAN, NEW other \in BOOLEAN, NEW r \in Node,
                      NEW m, NEW n, NEW late,
                      Inverses(m), Eq(heap, skip, free, l, r, m, n),
                      Inverses(late), Within(n, late)
               PROVE  Eq(heap, skip, other, l, r, late, late)
    BY DEF AgainAt
  <2>0. m \in Mapping /\ late \in Mapping
    BY DEF Inverses
  <2>1. /\ heap[l].type = heap[r].type
        /\ \/ AtOnce(heap, skip, l, r, m) /\ n = m
           \/ Parted(heap, skip, free, l, r, m, n)
    BY <2>0, EqStep
  <2>2. ASSUME AtOnce(heap, skip, l, r, late) PROVE Eq(heap, skip, other, l, r, late, late)
    BY <2>0, <2>1, <2>2, EqStep
  <2>3. CASE AtOnce(heap, skip, l, r, m) /\ n = m
    BY <2>2, <2>3, AtOnceAgain
  <2>4. ASSUME ByParts(heap, free, l, r, m),
               NEW p, ChainTo(heap, skip, free, l, r, m, p), n = Leaves(heap, l, r, p)
        PROVE  Eq(heap, skip, other, l, r, late, late)
    <3> DEFINE ks == Kids(heap, l, r)
               k == KidCount(heap, l)
    <3>1. ArePairs(ks, k)
      BY <2>1, <2>4, KidsArePairs
    <3>2. PICK ms : Chain(heap, skip, free, ks, k, m, ms) /\ ms[k] = p
      BY <2>4 DEF ChainTo, ChainOf
    <3>3. Inverses(p)
      <4>1. k \in 0 .. k
        BY <3>1 DEF ArePairs
      <4> HIDE DEF ks, k
      <4> QED BY <3>1, <3>2, <4>1, ChainKeeps
    <3>4. CASE IsRecorded(heap, l)
      <4>1. m.lhs[l] = Unmapped /\ m.rhs[r] = Unmapped
        BY <2>4, <3>4, NothingRecorded
      <4>2. n = Record(p, l, r)
        BY <2>4, <3>4 DEF Leaves
      <4>3. n.lhs[l] = r
        BY <3>3, <4>2, MappingFacts DEF Record, Inverses
      <4>4. late.lhs[l] = r
        BY <4>3, UnmappedIsNoObject DEF Within
      <4> QED BY <2>2, <2>4, <3>4, <4>4, RecordedAtOnce
    <3>5. CASE ~IsRecorded(heap, l)
      <4>1. n = p
        BY <2>4, <3>5 DEF Leaves
      <4>2. \A i \in 1 .. k : IsObject(ks[i].lhs) => AgainAt(heap, skip, ks[i].lhs)
        <5> TAKE i \in 1 .. k
        <5> HAVE IsObject(ks[i].lhs)
        <5>1. ks[i].lhs < l
          BY <2>1, <2>4, KidFacts
        <5> HIDE DEF ks
        <5> QED BY <1>1, <5>1, UnmappedIsNoObject DEF IsObject
      <4>3. EachEqual(heap, skip, other, ks, k, late)
        <5> HIDE DEF ks, k
        <5> QED BY <3>1, <3>2, <4>1, <4>2, ChainAgain
      <4>4. \E ms2 : Chain(heap, skip, other, ks, k, late, ms2) /\ ms2[k] = late
        <5>1. k \in Nat
          BY <3>1 DEF ArePairs
        <5> HIDE DEF ks, k
        <5> QED BY <2>0, <4>3, <5>1, ChainStays
      <4>5. ChainTo(heap, skip, other, l, r, late, late)
        BY <4>4 DEF ChainTo, ChainOf
      <4>6. late = Leaves(heap, l, r, late)
        BY <3>5 DEF Leaves
      <4>7. ByParts(heap, other, l, r, late)
        BY <2>4, <3>5, ByPartsAgain
      <4>8. Parted(heap, skip, other, l, r, late, late)
        BY <4>5, <4>6, <4>7 DEF Parted
      <4> QED BY <2>0, <2>1, <4>8, EqStep
    <3> QED BY <3>4, <3>5
  <2> QED BY <2>1, <2>3, <2>4 DEF Parted
<1>2. \A l \in Nat : l \in P
  <2> HIDE DEF P
  <2> QED BY <1>1, AllNumbers
<1> QED BY <1>2, UnmappedIsNoObject

\* Two objects are recorded last.
LEMMA RecordedLast ==
  ASSUME NEW heap, IsHeap(heap), NoObjectKeys(heap), NEW skip, NEW free \in BOOLEAN,
         NEW l \in Node, NEW r \in Node, NEW m, Inverses(m),
         heap[l].type = heap[r].type, ByParts(heap, free, l, r, m), IsRecorded(heap, l),
         NEW p, ChainTo(heap, skip, free, l, r, m, p)
  PROVE  Inverses(p) /\ p.lhs[l] = Unmapped /\ p.rhs[r] = Unmapped
<1>1. EachFixed(heap, skip, free, Kids(heap, l, r), KidCount(heap, l), l, r)
  BY Frame, KidsFixed
<1>2. PICK ms : /\ Chain(heap, skip, free, Kids(heap, l, r), KidCount(heap, l), m, ms)
                /\ ms[KidCount(heap, l)] = p
  BY DEF ChainTo, ChainOf
<1>3. KidCount(heap, l) \in Nat
  BY KidCountFacts
<1>4. Fixed(m, p, l, r)
  BY <1>1, <1>2, <1>3, ChainFixed
<1>5. m.lhs[l] = Unmapped /\ m.rhs[r] = Unmapped
  BY NothingRecorded
<1> QED BY <1>4, <1>5, UnmappedIsNoObject DEF Fixed

-----------------------------------------------------------------------------
(* Where the setting of free variables does not change on the way down,    *)
(* what a comparison recorded is equal by its parts, now and later.        *)

\* A set of objects with all they refer to, in which no definition turns the
\* setting on.
Steady(heap, free, S) ==
  /\ S \subseteq Node
  /\ \A n \in S :
       /\ \A v \in Parts(heap, n) : IsObject(v) => v \in S
       /\ free \/ \A f \in DOMAIN Flags(heap, n) : Flags(heap, n)[f] # "def"

\* Pairs of such objects, none of them a definition.
SteadyPairs(free, S, ks, k) ==
  \A i \in 1 .. k : (IsObject(ks[i].lhs) => ks[i].lhs \in S) /\ (ks[i].def => free)

\* The parts of a steady object are steady.
LEMMA KidsSteady ==
  ASSUME NEW heap, IsHeap(heap), NEW free, NEW m, NEW l \in Node, NEW r \in Node,
         heap[l].type = heap[r].type, ByParts(heap, free, l, r, m),
         NEW given, NEW S, Steady(heap, given, S), l \in S
  PROVE  SteadyPairs(given, S, Kids(heap, l, r), KidCount(heap, l))
<1> SUFFICES ASSUME NEW i \in 1 .. KidCount(heap, l)
             PROVE  LET kid == Kids(heap, l, r)[i] IN
                    (IsObject(kid.lhs) => kid.lhs \in S) /\ (kid.def => given)
  BY DEF SteadyPairs
<1> DEFINE kid == Kids(heap, l, r)[i]
<1>1. /\ kid.def => \E f \in DOMAIN Flags(heap, l) : Flags(heap, l)[f] = "def"
      /\ IsObject(kid.lhs) => kid.lhs \in Parts(heap, l)
  BY KidFacts
<1> HIDE DEF kid
<1>2. IsObject(kid.lhs) => kid.lhs \in S
  BY <1>1 DEF Steady
<1>3. kid.def => given
  BY <1>1 DEF Steady
<1> QED BY <1>2, <1>3 DEF kid

\* Why two objects may be recorded.
Justified(heap, skip, free, late, a, b) ==
  /\ heap[a].type = heap[b].type
  /\ IsRecorded(heap, a)
  /\ Kind(heap, a) = "FreeVar" => a = b \/ free
  /\ EachEqual(heap, skip, free, Kids(heap, a, b), KidCount(heap, a), late)

\* What n records beyond m is justified in every later mapping.
Explained(heap, skip, free, m, n) ==
  \A a \in Node : n.lhs[a] # m.lhs[a] =>
    \A late : Inverses(late) /\ Within(n, late) => Justified(heap, skip, free, late, a, n.lhs[a])

LEMMA ExplainedItself ==
  ASSUME NEW heap, NEW skip, NEW free, NEW m
  PROVE  Explained(heap, skip, free, m, m)
BY DEF Explained

\* What is explained in two steps is explained.
LEMMA ExplainedExplained ==
  ASSUME NEW heap, NEW skip, NEW free, NEW m, NEW n, NEW k,
         Explained(heap, skip, free, m, n), Explained(heap, skip, free, n, k), Within(n, k)
  PROVE  Explained(heap, skip, free, m, k)
<1> SUFFICES ASSUME NEW a \in Node, k.lhs[a] # m.lhs[a], NEW late,
                    Inverses(late), Within(k, late)
             PROVE  Justified(heap, skip, free, late, a, k.lhs[a])
  BY DEF Explained
<1>1. CASE k.lhs[a] # n.lhs[a]
  BY <1>1 DEF Explained
<1>2. CASE k.lhs[a] = n.lhs[a]
  <2>1. Within(n, late)
    BY WithinWithin
  <2>2. n.lhs[a] # m.lhs[a]
    BY <1>2
  <2>3. Justified(heap, skip, free, late, a, n.lhs[a])
    BY <2>1, <2>2 DEF Explained
  <2> QED BY <1>2, <2>3
<1> QED BY <1>1, <1>2

\* The comparison of l with another object records what is explained.
ExplainedAt(heap, skip, free, l) ==
  \A r \in Node : \A m, n :
    Inverses(m) /\ Eq(heap, skip, free, l, r, m, n) => Explained(heap, skip, free, m, n)

\* The same for two values.
LEMMA ExplainedAny ==
  ASSUME NEW heap, IsHeap(heap), NEW skip, NEW free \in BOOLEAN,
         NEW x, NEW y, IsObject(x) => ExplainedAt(heap, skip, free, x),
         NEW m, NEW n, Inverses(m), Eq(heap, skip, free, x, y, m, n)
  PROVE  Explained(heap, skip, free, m, n)
<1>1. CASE IsObject(x) /\ IsObject(y)
  BY <1>1 DEF ExplainedAt, IsObject
<1>2. CASE ~(IsObject(x) /\ IsObject(y))
  <2>1. n = m
    BY <1>2, EqData DEF Inverses
  <2> QED BY <2>1, ExplainedItself
<1> QED BY <1>1, <1>2

\* Pairs one after the other record what is explained.
LEMMA ChainExplained ==
  ASSUME NEW heap, IsHeap(heap), NoObjectKeys(heap), NEW skip, NEW free \in BOOLEAN,
         NEW S, NEW ks, NEW k, ArePairs(ks, k), SteadyPairs(free, S, ks, k),
         \A i \in 1 .. k : IsObject(ks[i].lhs) => ExplainedAt(heap, skip, free, ks[i].lhs),
         NEW m, NEW ms, Inverses(m), Chain(heap, skip, free, ks, k, m, ms)
  PROVE  Explained(heap, skip, free, m, ms[k])
<1>1. k \in Nat
  BY DEF ArePairs
<1>2. \A i \in 0 .. k : Inverses(ms[i])
  BY ChainKeeps
<1>3. ASSUME NEW i \in 1 .. k
      PROVE  Explained(heap, skip, free, ms[i - 1], ms[i]) /\ Within(ms[i - 1], ms[i])
  <2>1. i - 1 \in 0 .. k
    BY <1>1
  <2>2. (free \/ ks[i].def) = free
    BY DEF ArePairs, SteadyPairs
  <2>3. Eq(heap, skip, free \/ ks[i].def, ks[i].lhs, ks[i].rhs, ms[i - 1], ms[i])
    BY DEF Chain
  <2>4. Eq(heap, skip, free, ks[i].lhs, ks[i].rhs, ms[i - 1], ms[i])
    BY <2>2, <2>3, Zenon
  <2>5. Inverses(ms[i - 1])
    BY <1>2, <2>1
  <2>6. Explained(heap, skip, free, ms[i - 1], ms[i])
    BY <2>4, <2>5, ExplainedAny
  <2> QED BY <2>4, <2>5, <2>6, EqKeeps
<1> DEFINE P == {i \in Nat : i <= k => Explained(heap, skip, free, m, ms[i])}
<1>4. 0 \in P
  BY ExplainedItself DEF Chain
<1>5. ASSUME NEW i \in Nat, i \in P PROVE i + 1 \in P
  <2> SUFFICES ASSUME i + 1 <= k PROVE Explained(heap, skip, free, m, ms[i + 1])
    OBVIOUS
  <2>1. i + 1 \in 1 .. k /\ (i + 1) - 1 = i /\ Explained(heap, skip, free, m, ms[i])
    BY <1>1, <1>5
  <2>2. Explained(heap, skip, free, ms[i], ms[i + 1]) /\ Within(ms[i], ms[i + 1])
    BY <1>3, <2>1
  <2> QED BY <2>1, <2>2, ExplainedExplained
<1>6. \A i \in Nat : i \in P
  <2> HIDE DEF P
  <2> QED BY <1>4, <1>5, NextNumber
<1> QED BY <1>1, <1>6

\* By induction on the age of l.
LEMMA Explains ==
  ASSUME NEW heap, IsHeap(heap), NoObjectKeys(heap), NEW skip, NEW free \in BOOLEAN,
         NEW S, Steady(heap, free, S)
  PROVE  \A l \in S : ExplainedAt(heap, skip, free, l)
<1> DEFINE P == {l \in Nat : l \in S => ExplainedAt(heap, skip, free, l)}
<1>0. S \subseteq Node /\ S \subseteq Nat
  BY UnmappedIsNoObject DEF Steady
<1>1. ASSUME NEW l \in Nat, \A c \in Nat : c < l => c \in P
      PROVE  l \in P
  <2> SUFFICES ASSUME l \in S, NEW r \in Node, NEW m, NEW n,
                      Inverses(m), Eq(heap, skip, free, l, r, m, n)
               PROVE  Explained(heap, skip, free, m, n)
    BY DEF ExplainedAt
  <2>0. m \in Mapping /\ l \in Node
    BY <1>0 DEF Inverses
  <2>1. /\ heap[l].type = heap[r].type
        /\ \/ AtOnce(heap, skip, l, r, m) /\ n = m
           \/ Parted(heap, skip, free, l, r, m, n)
    BY <2>0, EqStep
  <2>2. CASE n = m
    BY <2>2, ExplainedItself
  <2>3. ASSUME ByParts(heap, free, l, r, m),
               NEW p, ChainTo(heap, skip, free, l, r, m, p), n = Leaves(heap, l, r, p)
        PROVE  Explained(heap, skip, free, m, n)
    <3> DEFINE ks == Kids(heap, l, r)
               k == KidCount(heap, l)
    <3>1. ArePairs(ks, k) /\ SteadyPairs(free, S, ks, k)
      BY <2>0, <2>1, <2>3, KidsArePairs, KidsSteady
    <3>2. PICK ms : Chain(heap, skip, free, ks, k, m, ms) /\ ms[k] = p
      BY <2>3 DEF ChainTo, ChainOf
    <3>3. \A i \in 1 .. k : IsObject(ks[i].lhs) => ExplainedAt(heap, skip, free, ks[i].lhs)
      <4> TAKE i \in 1 .. k
      <4> HAVE IsObject(ks[i].lhs)
      <4>1. ks[i].lhs < l
        BY <2>0, <2>1, <2>3, KidFacts
      <4>2. ks[i].lhs \in S
        BY <3>1 DEF SteadyPairs
      <4> HIDE DEF ks
      <4> QED BY <1>0, <1>1, <4>1, <4>2
    <3>4. Explained(heap, skip, free, m, p)
      <4> HIDE DEF ks, k
      <4> QED BY <3>1, <3>2, <3>3, ChainExplained
    <3>5. CASE ~IsRecorded(heap, l)
      BY <2>3, <3>4, <3>5 DEF Leaves
    <3>6. CASE IsRecorded(heap, l)
      <4>1. Inverses(p) /\ p.lhs[l] = Unmapped /\ p.rhs[r] = Unmapped
        BY <2>0, <2>1, <2>3, <3>6, RecordedLast
      <4>2. n = Record(p, l, r)
        BY <2>3, <3>6 DEF Leaves
      <4>3. /\ Within(p, n) /\ n.lhs[l] = r
            /\ \A a \in Node : a # l => n.lhs[a] = p.lhs[a]
        <5> HIDE DEF ks, k
        <5>1. /\ Within(p, Record(p, l, r)) /\ Record(p, l, r).lhs[l] = r
              /\ \A a \in Node : a # l => Record(p, l, r).lhs[a] = p.lhs[a]
          BY <2>0, <4>1, RecordKeeps
        <5> QED BY <4>2, <5>1
      <4>4. ASSUME NEW late, Inverses(late), Within(n, late)
            PROVE  Justified(heap, skip, free, late, l, r)
        <5>1. Within(p, late)
          BY <4>3, <4>4, WithinWithin
        <5>2. \A i \in 1 .. k : IsObject(ks[i].lhs) => AgainAt(heap, skip, ks[i].lhs)
          BY Again DEF IsObject
        <5>3. EachEqual(heap, skip, free, ks, k, late)
          <6> HIDE DEF ks, k
          <6> QED BY <3>1, <3>2, <4>4, <5>1, <5>2, ChainAgain
        <5>4. Kind(heap, l) = "FreeVar" => l = r \/ free
          BY <2>3, <3>6 DEF ByParts, IsRecorded, HasItems, HasFields
        <5> QED BY <2>1, <3>6, <5>3, <5>4 DEF Justified
      <4>5. Explained(heap, skip, free, p, n)
        BY <4>3, <4>4 DEF Explained
      <4> QED BY <3>4, <4>3, <4>5, ExplainedExplained
    <3> QED BY <3>5, <3>6
  <2> QED BY <2>1, <2>2, <2>3 DEF Parted
<1>2. \A l \in Nat : l \in P
  <2> HIDE DEF P
  <2> QED BY <1>1, AllNumbers
<1> QED BY <1>0, <1>2

-----------------------------------------------------------------------------
(* A comparison that is equal when all is recorded finds its way also when *)
(* less is, and records nothing else.                                      *)

\* What is recorded late, but not yet.
Pending(heap, skip, free, n, late) ==
  \A a \in Node : late.lhs[a] # n.lhs[a] =>
    Justified(heap, skip, free, late, a, late.lhs[a])

\* What is pending stays so while no more than late is recorded.
LEMMA PendingLater ==
  ASSUME NEW heap, NEW skip, NEW free, NEW n, NEW p, NEW late,
         Pending(heap, skip, free, n, late), Within(n, p), Within(p, late)
  PROVE  Pending(heap, skip, free, p, late)
BY DEF Pending, Within

\* What was explained is pending before it is recorded.
LEMMA PendingExplained ==
  ASSUME NEW heap, NEW skip, NEW free, NEW m, NEW n,
         Explained(heap, skip, free, m, n), Inverses(n)
  PROVE  Pending(heap, skip, free, m, n)
BY WithinItself DEF Explained, Pending

\* With less recorded than late, x is still equal to y, and records part of late.
Follows(heap, skip, free, late, x, y) ==
  \A n : Inverses(n) /\ Within(n, late) /\ Pending(heap, skip, free, n, late) =>
    \E p : Eq(heap, skip, free, x, y, n, p) /\ Within(p, late)

\* So does the object l with each object it is equal to.
FollowsAt(heap, skip, free, late, l) ==
  \A r \in Node :
    Eq(heap, skip, free, l, r, late, late) => Follows(heap, skip, free, late, l, r)

\* The same for two values.
LEMMA FollowsAny ==
  ASSUME NEW heap, IsHeap(heap), NEW skip, NEW free \in BOOLEAN, NEW late,
         Inverses(late),
         NEW x, NEW y, IsObject(x) => FollowsAt(heap, skip, free, late, x),
         Eq(heap, skip, free, x, y, late, late)
  PROVE  Follows(heap, skip, free, late, x, y)
<1>1. CASE IsObject(x) /\ IsObject(y)
  BY <1>1 DEF FollowsAt, IsObject
<1>2. CASE ~(IsObject(x) /\ IsObject(y))
  <2>1. Content(x) = Content(y)
    BY <1>2, EqData DEF Inverses
  <2>2. ASSUME NEW n, Inverses(n) PROVE Eq(heap, skip, free, x, y, n, n)
    BY <1>2, <2>1, <2>2, EqData DEF Inverses
  <2> QED BY <2>2 DEF Follows
<1> QED BY <1>1, <1>2

\* Pairs that are equal when late is recorded follow one after the other.
LEMMA ChainFollows ==
  ASSUME NEW heap, IsHeap(heap), NoObjectKeys(heap), NEW skip, NEW free \in BOOLEAN,
         NEW late, Inverses(late),
         NEW S, NEW ks, NEW k, ArePairs(ks, k), SteadyPairs(free, S, ks, k),
         \A i \in 1 .. k : IsObject(ks[i].lhs) => FollowsAt(heap, skip, free, late, ks[i].lhs),
         EachEqual(heap, skip, free, ks, k, late),
         NEW n, Inverses(n), Within(n, late), Pending(heap, skip, free, n, late)
  PROVE  \E ms : Chain(heap, skip, free, ks, k, n, ms) /\ Within(ms[k], late)
<1>0. k \in Nat
  BY DEF ArePairs
<1> DEFINE P == {j \in Nat : j <= k =>
                   \E ms : Chain(heap, skip, free, ks, j, n, ms) /\ Within(ms[j], late)}
<1>1. 0 \in P
  <2> DEFINE ms == [i \in 0 .. 0 |-> n]
  <2>1. ms \in [0 .. 0 -> Mapping] /\ ms[0] = n
    BY DEF Inverses
  <2> HIDE DEF ms
  <2>2. Chain(heap, skip, free, ks, 0, n, ms)
    BY <2>1 DEF Chain
  <2> QED BY <2>1, <2>2
<1>2. ASSUME NEW j \in Nat, j \in P PROVE j + 1 \in P
  <2> SUFFICES ASSUME j + 1 <= k
               PROVE  \E ms : Chain(heap, skip, free, ks, j + 1, n, ms) /\ Within(ms[j + 1], late)
    OBVIOUS
  <2>1. j + 1 \in 1 .. k /\ j <= k /\ j \in 0 .. j
    BY <1>0
  <2>2. PICK ms : Chain(heap, skip, free, ks, j, n, ms) /\ Within(ms[j], late)
    BY <1>2, <2>1
  <2>3. ArePairs(ks, j)
    <3>1. \A i \in 1 .. j : i \in 1 .. k
      BY <1>0, <2>1
    <3> QED BY <3>1 DEF ArePairs
  <2>4. Inverses(ms[j]) /\ Within(n, ms[j])
    BY <2>1, <2>2, <2>3, ChainKeeps
  <2>5. Pending(heap, skip, free, ms[j], late)
    BY <2>2, <2>4, PendingLater
  <2> DEFINE kid == ks[j + 1]
  <2>6. (free \/ kid.def) = free
    BY <2>1 DEF ArePairs, SteadyPairs
  <2>7. Eq(heap, skip, free \/ kid.def, kid.lhs, kid.rhs, late, late)
    BY <2>1 DEF EachEqual
  <2>8. Eq(heap, skip, free, kid.lhs, kid.rhs, late, late)
    BY <2>6, <2>7, Zenon
  <2>9. IsObject(kid.lhs) => FollowsAt(heap, skip, free, late, kid.lhs)
    BY <2>1
  <2> HIDE DEF kid
  <2>10. Follows(heap, skip, free, late, kid.lhs, kid.rhs)
    BY <2>8, <2>9, FollowsAny
  <2>11. PICK p : Eq(heap, skip, free, kid.lhs, kid.rhs, ms[j], p) /\ Within(p, late)
    BY <2>2, <2>4, <2>5, <2>10 DEF Follows
  <2>12. Eq(heap, skip, free \/ kid.def, kid.lhs, kid.rhs, ms[j], p)
    BY <2>6, <2>11, Zenon
  <2>13. p \in Mapping
    <3>1. Inverses(p)
      BY <2>4, <2>11, EqKeeps
    <3> QED BY <3>1 DEF Inverses
  <2> DEFINE new == [i \in 0 .. j + 1 |-> IF i = j + 1 THEN p ELSE ms[i]]
  <2>14. ms \in [0 .. j -> Mapping] /\ ms[0] = n
    BY <2>2 DEF Chain
  <2>15. /\ new \in [0 .. j + 1 -> Mapping]
         /\ new[j + 1] = p /\ \A i \in 0 .. j : new[i] = ms[i]
    <3>1. \A i \in 0 .. j + 1 : i = j + 1 \/ i \in 0 .. j
      OBVIOUS
    <3>2. \A i \in 0 .. j : i \in 0 .. j + 1 /\ i # j + 1
      OBVIOUS
    <3> QED BY <2>13, <2>14, <3>1, <3>2
  <2> HIDE DEF new
  <2>16. new[0] = n
    BY <2>14, <2>15
  <2>17. ASSUME NEW i \in 1 .. j + 1
         PROVE  Eq(heap, skip, free \/ ks[i].def, ks[i].lhs, ks[i].rhs, new[i - 1], new[i])
    <3>1. CASE i = j + 1
      <4>1. i - 1 = j /\ new[i - 1] = ms[j] /\ new[i] = p /\ ks[i] = kid
        BY <2>15, <3>1 DEF kid
      <4> QED BY <2>12, <4>1, Zenon
    <3>2. CASE i # j + 1
      <4>1. i \in 1 .. j /\ i - 1 \in 0 .. j /\ i \in 0 .. j
        BY <3>2
      <4>2. Eq(heap, skip, free \/ ks[i].def, ks[i].lhs, ks[i].rhs, ms[i - 1], ms[i])
        BY <2>2, <4>1 DEF Chain
      <4>3. new[i - 1] = ms[i - 1] /\ new[i] = ms[i]
        BY <2>15, <4>1
      <4> QED BY <4>2, <4>3, Zenon
    <3> QED BY <3>1, <3>2
  <2>18. Chain(heap, skip, free, ks, j + 1, n, new)
    BY <2>15, <2>16, <2>17 DEF Chain
  <2> QED BY <2>11, <2>15, <2>18
<1>3. \A j \in Nat : j \in P
  <2> HIDE DEF P
  <2> QED BY <1>1, <1>2, NextNumber
<1> QED BY <1>0, <1>3

\* Two objects that are recorded later, but not yet, are compared by their parts.
LEMMA NotYetRecorded ==
  ASSUME NEW heap, NEW skip, NEW free, NEW l \in Node, NEW r \in Node,
         NEW n, NEW late, Inverses(n), Inverses(late), Within(n, late),
         IsRecorded(heap, l), late.lhs[l] = r, n.lhs[l] = Unmapped,
         Kind(heap, l) = "FreeVar" => l = r \/ free
  PROVE  ByParts(heap, free, l, r, n)
<1>1. HasFields(heap, l) /\ Kind(heap, l) \in {"DAGNode", "FreeVar"} /\ Recorded(heap, l)
  BY DEF IsRecorded, Recorded
<1>2. n.rhs[r] = Unmapped
  <2> SUFFICES ASSUME n.rhs[r] # Unmapped PROVE FALSE
    OBVIOUS
  <2>1. n.rhs[r] \in Node
    BY MappingFacts DEF Inverses
  <2>2. n.lhs[n.rhs[r]] = r
    BY <2>1 DEF Inverses
  <2>3. late.lhs[n.rhs[r]] = r
    BY <2>1, <2>2, UnmappedIsNoObject DEF Within
  <2>4. late.rhs[r] = n.rhs[r] /\ late.rhs[r] = l
    BY <2>1, <2>3 DEF Inverses
  <2> QED BY <2>2, <2>4, UnmappedIsNoObject
<1>3. KnownOutcome(heap, n, l, r) = "unknown"
  BY <1>1, <1>2 DEF KnownOutcome
<1> QED BY <1>1, <1>3 DEF ByParts

\* What is equal at once only later is recorded in between.
LEMMA RecordedBetween ==
  ASSUME NEW heap, NEW skip, NEW l \in Node, NEW r \in Node,
         NEW n, NEW late, Inverses(n), Inverses(late), Within(n, late),
         AtOnce(heap, skip, l, r, late), ~AtOnce(heap, skip, l, r, n)
  PROVE  IsRecorded(heap, l) /\ late.lhs[l] = r /\ n.lhs[l] = Unmapped
<1>1. HasFields(heap, l) /\ KnownOutcome(heap, late, l, r) = "equal"
  BY DEF AtOnce
<1>2. KnownOutcome(heap, n, l, r) # "equal"
  BY <1>1 DEF AtOnce
<1>3. Recorded(heap, l)
  <2> SUFFICES ASSUME ~Recorded(heap, l) PROVE FALSE
    OBVIOUS
  <2> QED BY <1>1, <1>2 DEF KnownOutcome
<1>4. Kind(heap, l) \in {"DAGNode", "FreeVar"}
  BY <1>3 DEF Recorded
<1>5. late.lhs[l] # Unmapped /\ late.lhs[l] = r
  BY <1>1, <1>3, <1>4 DEF KnownOutcome, Verdict
<1>6. n.lhs[l] = Unmapped
  <2> SUFFICES ASSUME n.lhs[l] # Unmapped PROVE FALSE
    OBVIOUS
  <2>1. n.lhs[l] = r
    BY <1>5 DEF Within
  <2> QED BY <1>2, <1>3, <1>4, <2>1 DEF KnownOutcome, Verdict
<1> QED BY <1>1, <1>3, <1>5, <1>6 DEF IsRecorded

\* By induction on the age of l.
LEMMA Follow ==
  ASSUME NEW heap, IsHeap(heap), NoObjectKeys(heap), NEW skip, NEW free \in BOOLEAN,
         NEW S, Steady(heap, free, S), NEW late, Inverses(late)
  PROVE  \A l \in S : FollowsAt(heap, skip, free, late, l)
<1> DEFINE P == {l \in Nat : l \in S => FollowsAt(heap, skip, free, late, l)}
<1>0. S \subseteq Node /\ S \subseteq Nat
  BY UnmappedIsNoObject DEF Steady
<1>1. ASSUME NEW l \in Nat, \A c \in Nat : c < l => c \in P
      PROVE  l \in P
  <2> SUFFICES ASSUME l \in S, NEW r \in Node, Eq(heap, skip, free, l, r, late, late),
                      NEW n, Inverses(n), Within(n, late), Pending(heap, skip, free, n, late)
               PROVE  \E p : Eq(heap, skip, free, l, r, n, p) /\ Within(p, late)
    BY DEF FollowsAt, Follows
  <2>0. late \in Mapping /\ n \in Mapping /\ l \in Node
    BY <1>0 DEF Inverses
  <2> DEFINE ks == Kids(heap, l, r)
             k == KidCount(heap, l)
  <2>1. /\ heap[l].type = heap[r].type
        /\ \/ AtOnce(heap, skip, l, r, late)
           \/ Parted(heap, skip, free, l, r, late, late)
    BY <2>0, EqStep
  <2>2. ASSUME ByParts(heap, free, l, r, n), EachEqual(heap, skip, free, ks, k, late)
        PROVE  \E q : ChainTo(heap, skip, free, l, r, n, q) /\ Within(q, late)
    <3>1. ArePairs(ks, k) /\ SteadyPairs(free, S, ks, k)
      BY <2>0, <2>1, <2>2, KidsArePairs, KidsSteady
    <3>2. \A i \in 1 .. k : IsObject(ks[i].lhs) => FollowsAt(heap, skip, free, late, ks[i].lhs)
      <4> TAKE i \in 1 .. k
      <4> HAVE IsObject(ks[i].lhs)
      <4>1. ks[i].lhs < l
        BY <2>0, <2>1, <2>2, KidFacts
      <4>2. ks[i].lhs \in S
        BY <3>1 DEF SteadyPairs
      <4> HIDE DEF ks
      <4> QED BY <1>0, <1>1, <4>1, <4>2
    <3>3. \E ms : Chain(heap, skip, free, ks, k, n, ms) /\ Within(ms[k], late)
      <4> HIDE DEF ks, k
      <4> QED BY <2>2, <3>1, <3>2, ChainFollows
    <3> QED BY <3>3 DEF ChainTo, ChainOf
  <2>3. CASE AtOnce(heap, skip, l, r, n)
    <3>1. Eq(heap, skip, free, l, r, n, n)
      BY <2>0, <2>1, <2>3, EqStep
    <3> QED BY <3>1
  <2>4. CASE AtOnce(heap, skip, l, r, late) /\ ~AtOnce(heap, skip, l, r, n)
    <3>1. IsRecorded(heap, l) /\ late.lhs[l] = r /\ n.lhs[l] = Unmapped
      BY <2>0, <2>4, RecordedBetween
    <3>2. late.lhs[l] # n.lhs[l]
      BY <3>1, UnmappedIsNoObject
    <3>3. Justified(heap, skip, free, late, l, r)
      BY <2>0, <3>1, <3>2 DEF Pending
    <3>4. ByParts(heap, free, l, r, n)
      BY <2>0, <3>1, <3>3, NotYetRecorded DEF Justified
    <3>5. PICK q : ChainTo(heap, skip, free, l, r, n, q) /\ Within(q, late)
      BY <2>2, <3>3, <3>4 DEF Justified
    <3>6. Inverses(q) /\ q.lhs[l] = Unmapped /\ q.rhs[r] = Unmapped
      <4>1. heap[l].type = heap[r].type /\ ChainTo(heap, skip, free, l, r, n, q)
        BY <2>1, <3>5
      <4> QED BY <2>0, <3>1, <3>4, <4>1, RecordedLast
    <3> DEFINE p == Record(q, l, r)
    <3>7. p.lhs[l] = r /\ \A a \in Node : a # l => p.lhs[a] = q.lhs[a]
      <4> HIDE DEF ks, k
      <4>1. LET new == Record(q, l, r) IN
            /\ Inverses(new) /\ Within(q, new)
            /\ new.lhs[l] = r /\ \A a \in Node : a # l => new.lhs[a] = q.lhs[a]
            /\ new.rhs[r] = l /\ \A b \in Node : b # r => new.rhs[b] = q.rhs[b]
        BY <2>0, <3>6, RecordKeeps
      <4> QED BY <4>1
    <3>8. p = Leaves(heap, l, r, q)
      BY <3>1 DEF Leaves
    <3> HIDE DEF p
    <3>9. Within(p, late)
      BY <3>1, <3>5, <3>7 DEF Within
    <3>10. Parted(heap, skip, free, l, r, n, p)
      BY <3>4, <3>5, <3>8 DEF Parted
    <3>11. Eq(heap, skip, free, l, r, n, p)
      BY <2>0, <2>1, <3>10, EqStep
    <3> QED BY <3>9, <3>11
  <2>5. ASSUME ByParts(heap, free, l, r, late),
               NEW q, ChainTo(heap, skip, free, l, r, late, q), late = Leaves(heap, l, r, q)
        PROVE  \E p : Eq(heap, skip, free, l, r, n, p) /\ Within(p, late)
    <3>1. ~IsRecorded(heap, l)
      <4> SUFFICES ASSUME IsRecorded(heap, l) PROVE FALSE
        OBVIOUS
      <4>1. Inverses(q) /\ q.lhs[l] = Unmapped /\ q.rhs[r] = Unmapped
        BY <2>0, <2>1, <2>5, RecordedLast
      <4>2. late = Record(q, l, r)
        BY <2>5 DEF Leaves
      <4>3. late.lhs[l] = r
        BY <2>0, <4>1, <4>2, RecordKeeps
      <4>4. late.lhs[l] = Unmapped
        BY <2>5, NothingRecorded
      <4> QED BY <4>3, <4>4, UnmappedIsNoObject
    <3>2. late = q
      BY <2>5, <3>1 DEF Leaves
    <3>3. PICK ms : Chain(heap, skip, free, ks, k, late, ms) /\ ms[k] = late
      BY <2>5, <3>2 DEF ChainTo, ChainOf
    <3>4. ArePairs(ks, k)
      BY <2>0, <2>1, <2>5, KidsArePairs
    <3>5. \A i \in 1 .. k : IsObject(ks[i].lhs) => AgainAt(heap, skip, ks[i].lhs)
      BY Again DEF IsObject
    <3>6. EachEqual(heap, skip, free, ks, k, late)
      <4>1. Within(late, late)
        BY WithinItself
      <4> HIDE DEF ks, k
      <4> QED BY <3>3, <3>4, <3>5, <4>1, ChainAgain
    <3>7. ByParts(heap, free, l, r, n)
      BY <2>0, <2>5, <3>1, ByPartsAgain
    <3>8. PICK p : ChainTo(heap, skip, free, l, r, n, p) /\ Within(p, late)
      BY <2>2, <3>6, <3>7
    <3>9. p = Leaves(heap, l, r, p)
      BY <3>1 DEF Leaves
    <3>10. Parted(heap, skip, free, l, r, n, p)
      BY <3>7, <3>8, <3>9 DEF Parted
    <3>11. Eq(heap, skip, free, l, r, n, p)
      BY <2>0, <2>1, <3>10, EqStep
    <3> QED BY <3>8, <3>11
  <2> QED BY <2>1, <2>3, <2>4, <2>5 DEF Parted
<1>2. \A l \in Nat : l \in P
  <2> HIDE DEF P
  <2> QED BY <1>1, AllNumbers
<1> QED BY <1>0, <1>2

-----------------------------------------------------------------------------
(* Pairs in another order.                                                 *)

\* Where pairs that were equal one after the other end: each of them is equal there.
LEMMA ChainDone ==
  ASSUME NEW heap, IsHeap(heap), NoObjectKeys(heap), NEW skip, NEW free \in BOOLEAN,
         NEW S, Steady(heap, free, S),
         NEW ks, NEW k, ArePairs(ks, k), SteadyPairs(free, S, ks, k),
         NEW m, NEW ms, Inverses(m), Chain(heap, skip, free, ks, k, m, ms)
  PROVE  /\ Inverses(ms[k]) /\ Within(m, ms[k])
         /\ Pending(heap, skip, free, m, ms[k])
         /\ EachEqual(heap, skip, free, ks, k, ms[k])
<1>1. k \in 0 .. k
  BY DEF ArePairs
<1>2. Inverses(ms[k]) /\ Within(m, ms[k])
  BY <1>1, ChainKeeps
<1>3. \A i \in 1 .. k : IsObject(ks[i].lhs) => ExplainedAt(heap, skip, free, ks[i].lhs)
  BY Explains DEF SteadyPairs
<1>4. Explained(heap, skip, free, m, ms[k])
  BY <1>3, ChainExplained
<1>5. \A i \in 1 .. k : IsObject(ks[i].lhs) => AgainAt(heap, skip, ks[i].lhs)
  BY Again DEF IsObject
<1>6. Within(ms[k], ms[k])
  BY WithinItself
<1>7. EachEqual(heap, skip, free, ks, k, ms[k])
  BY <1>2, <1>5, <1>6, ChainAgain
<1> QED BY <1>2, <1>4, <1>7, PendingExplained

\* Pairs that are equal when late is recorded, one after the other from less recorded.
LEMMA ChainBelow ==
  ASSUME NEW heap, IsHeap(heap), NoObjectKeys(heap), NEW skip, NEW free \in BOOLEAN,
         NEW S, Steady(heap, free, S),
         NEW ks, NEW k, ArePairs(ks, k), SteadyPairs(free, S, ks, k),
         NEW m, Inverses(m), NEW late, Inverses(late), Within(m, late),
         Pending(heap, skip, free, m, late), EachEqual(heap, skip, free, ks, k, late)
  PROVE  \E ms : Chain(heap, skip, free, ks, k, m, ms) /\ Within(ms[k], late)
<1>1. \A i \in 1 .. k : IsObject(ks[i].lhs) => FollowsAt(heap, skip, free, late, ks[i].lhs)
  BY Follow DEF SteadyPairs
<1> QED BY <1>1, ChainFollows

\* A run through pairs is determined by where it starts.
LEMMA ChainEndsOnce ==
  ASSUME NEW heap, IsHeap(heap), NEW skip, NEW free \in BOOLEAN,
         NEW ks, NEW k, ArePairs(ks, k), NEW m,
         NEW ms, Chain(heap, skip, free, ks, k, m, ms),
         NEW ns, Chain(heap, skip, free, ks, k, m, ns)
  PROVE  ms[k] = ns[k]
<1>0. k \in Nat
  BY DEF ArePairs
<1> DEFINE P == {i \in Nat : i <= k => ms[i] = ns[i]}
<1>1. 0 \in P
  BY DEF Chain
<1>2. ASSUME NEW i \in Nat, i \in P PROVE i + 1 \in P
  <2> SUFFICES ASSUME i + 1 <= k PROVE ms[i + 1] = ns[i + 1]
    OBVIOUS
  <2>1. i + 1 \in 1 .. k /\ (i + 1) - 1 = i /\ ms[i] = ns[i] /\ i \in 0 .. k
    BY <1>0, <1>2
  <2> DEFINE kid == ks[i + 1]
  <2>2. /\ Eq(heap, skip, free \/ kid.def, kid.lhs, kid.rhs, ms[i], ms[i + 1])
        /\ Eq(heap, skip, free \/ kid.def, kid.lhs, kid.rhs, ns[i], ns[i + 1])
    BY <2>1 DEF Chain
  <2>3. ms[i] \in Mapping /\ (free \/ kid.def) \in BOOLEAN
    BY <2>1 DEF Chain, ArePairs
  <2>4. Eq(heap, skip, free \/ kid.def, kid.lhs, kid.rhs, ms[i], ns[i + 1])
    BY <2>1, <2>2, Zenon
  <2>5. PICK f \in BOOLEAN : f = (free \/ kid.def)
    BY <2>3
  <2>6. /\ Eq(heap, skip, f, kid.lhs, kid.rhs, ms[i], ms[i + 1])
        /\ Eq(heap, skip, f, kid.lhs, kid.rhs, ms[i], ns[i + 1])
    BY <2>2, <2>4, <2>5, Zenon
  <2> HIDE DEF kid
  <2>7. \A q : Eq(heap, skip, f, kid.lhs, kid.rhs, ms[i], q) => q = ms[i + 1]
    BY <2>3, <2>6, EqFacts
  <2> QED BY <2>6, <2>7
<1>3. \A i \in Nat : i \in P
  <2> HIDE DEF P
  <2> QED BY <1>1, <1>2, NextNumber
<1> QED BY <1>0, <1>3

\* All of js are in ks.
Among(js, j, ks, k) == \A e \in 1 .. j : \E i \in 1 .. k : js[e] = ks[i]

\* Among pairs that are equal, each is.
LEMMA EqualAmong ==
  ASSUME NEW heap, NEW skip, NEW free, NEW ks, NEW k, NEW js, NEW j, NEW late,
         EachEqual(heap, skip, free, ks, k, late), Among(js, j, ks, k)
  PROVE  EachEqual(heap, skip, free, js, j, late)
<1> SUFFICES ASSUME NEW e \in 1 .. j
             PROVE  Eq(heap, skip, free \/ js[e].def, js[e].lhs, js[e].rhs, late, late)
  BY DEF EachEqual
<1>1. PICK i \in 1 .. k : js[e] = ks[i]
  BY DEF Among
<1>2. Eq(heap, skip, free \/ ks[i].def, ks[i].lhs, ks[i].rhs, late, late)
  BY DEF EachEqual
<1> QED BY <1>1, <1>2, Zenon

\* Among steady pairs, each is steady.
LEMMA SteadyAmong ==
  ASSUME NEW free, NEW S, NEW ks, NEW k, NEW js, NEW j \in Nat,
         ArePairs(ks, k), SteadyPairs(free, S, ks, k), Among(js, j, ks, k)
  PROVE  ArePairs(js, j) /\ SteadyPairs(free, S, js, j)
BY DEF ArePairs, SteadyPairs, Among

\* Where the setting does not change, the order of the pairs does not matter.
LEMMA Reorder ==
  ASSUME NEW heap, IsHeap(heap), NoObjectKeys(heap), NEW skip, NEW free \in BOOLEAN,
         NEW S, Steady(heap, free, S),
         NEW ks, NEW k, ArePairs(ks, k), SteadyPairs(free, S, ks, k),
         NEW js, NEW j \in Nat, Among(js, j, ks, k), Among(ks, k, js, j),
         NEW m, NEW ms, Inverses(m), Chain(heap, skip, free, ks, k, m, ms)
  PROVE  \E ns : Chain(heap, skip, free, js, j, m, ns) /\ ns[j] = ms[k]
<1>1. ArePairs(js, j) /\ SteadyPairs(free, S, js, j)
  BY SteadyAmong
<1>2. /\ Inverses(ms[k]) /\ Within(m, ms[k])
      /\ Pending(heap, skip, free, m, ms[k])
      /\ EachEqual(heap, skip, free, ks, k, ms[k])
  BY ChainDone
<1>3. EachEqual(heap, skip, free, js, j, ms[k])
  BY <1>2, EqualAmong
<1>4. PICK ns : Chain(heap, skip, free, js, j, m, ns) /\ Within(ns[j], ms[k])
  BY <1>1, <1>2, <1>3, ChainBelow
<1>5. /\ Inverses(ns[j]) /\ Within(m, ns[j])
      /\ Pending(heap, skip, free, m, ns[j])
      /\ EachEqual(heap, skip, free, js, j, ns[j])
  BY <1>1, <1>4, ChainDone
<1>6. EachEqual(heap, skip, free, ks, k, ns[j])
  BY <1>5, EqualAmong
<1>7. PICK ls : Chain(heap, skip, free, ks, k, m, ls) /\ Within(ls[k], ns[j])
  BY <1>5, <1>6, ChainBelow
<1>8. ls[k] = ms[k]
  BY <1>7, ChainEndsOnce
<1>9. ns[j] = ms[k]
  BY <1>2, <1>4, <1>5, <1>7, <1>8, WithinEachOther
<1> QED BY <1>4, <1>9

-----------------------------------------------------------------------------
(* The keys of two maps of the same size.                                  *)

\* Maps of one size, the keys of one among those of the other, have the same keys.
LEMMA KeysMatch ==
  ASSUME NEW heap, IsHeap(heap), NEW l \in Node, NEW r \in Node,
         heap[l].type = "Map", heap[r].type = "Map",
         Len(heap[l].content) = Len(heap[r].content), KeysIn(heap, l, r)
  PROVE  LET k == Len(heap[l].content) IN
         /\ k \in Nat
         /\ \A i \in 1 .. k :
              LET e == KeyAt(heap, r, heap[l].content[i][1])
              IN e \in 1 .. k /\ KeyAt(heap, l, heap[r].content[e][1]) = i
         /\ \A e \in 1 .. k :
              LET i == KeyAt(heap, l, heap[r].content[e][1])
              IN i \in 1 .. k /\ KeyAt(heap, r, heap[l].content[i][1]) = e
<1> DEFINE k == Len(heap[l].content)
           f == [i \in 1 .. k |-> KeyAt(heap, r, heap[l].content[i][1])]
           key(n, i) == heap[n].content[i][1]
<1>1. k \in Nat
  BY HeapFacts
<1>2. \A i \in 1 .. k : f[i] \in 1 .. k /\ Content(key(r, f[i])) = Content(key(l, i))
  <2> TAKE i \in 1 .. k
  <2>1. KeyAt(heap, r, heap[l].content[i][1]) # 0
    BY DEF KeysIn
  <2> QED BY <2>1, KeyFacts
<1>3. \A i \in 1 .. k : KeyAt(heap, l, key(r, f[i])) = i
  <2> TAKE i \in 1 .. k
  <2>1. KeyAt(heap, l, key(l, i)) = i
    <3> HIDE DEF f
    <3>1. \A j \in 1 .. Len(heap[l].content) :
            Content(heap[l].content[j][1]) = Content(key(l, i)) => KeyAt(heap, l, key(l, i)) = j
      BY KeyFacts
    <3> QED BY <3>1
  <2>2. Content(key(r, f[i])) = Content(key(l, i))
    BY <1>2
  <2> HIDE DEF f
  <2>3. KeyAt(heap, l, key(r, f[i])) = KeyAt(heap, l, key(l, i))
    BY <2>2 DEF KeyAt
  <2> QED BY <2>1, <2>3
<1>4. f \in Injection(1 .. k, 1 .. k)
  <2>1. f \in [1 .. k -> 1 .. k]
    BY <1>2
  <2>2. \A i, j \in 1 .. k : f[i] = f[j] => i = j
    <3> HIDE DEF f
    <3> QED BY <1>3
  <2> HIDE DEF f
  <2> QED BY <2>1, <2>2 DEF Injection, IsInjective
<1>5. f \in Surjection(1 .. k, 1 .. k)
  <2> HIDE DEF f
  <2>1. IsFiniteSet(1 .. k)
    BY <1>1, FS_Interval
  <2> QED BY <1>4, <2>1, FS_Injection
<1>6. \A e \in 1 .. k : \E i \in 1 .. k : f[i] = e
  <2> HIDE DEF f
  <2> QED BY <1>5 DEF Surjection
<1>7. ASSUME NEW e \in 1 .. k
      PROVE  LET i == KeyAt(heap, l, key(r, e))
             IN i \in 1 .. k /\ KeyAt(heap, r, key(l, i)) = e
  <2>1. PICK i \in 1 .. k : f[i] = e
    BY <1>6
  <2>2. KeyAt(heap, l, key(r, e)) = i
    BY <1>3, <2>1
  <2> QED BY <2>1, <2>2
<1> QED BY <1>1, <1>2, <1>3, <1>7

-----------------------------------------------------------------------------
(* The comparison the other way round.                                     *)

\* The mapping with its sides exchanged.
Swapped(m) == [lhs |-> m.rhs, rhs |-> m.lhs]

\* It is a mapping, with inverse sides.
LEMMA SwappedFacts ==
  ASSUME NEW m, Inverses(m)
  PROVE  /\ Swapped(m) \in Mapping /\ Inverses(Swapped(m))
         /\ Swapped(m).lhs = m.rhs /\ Swapped(m).rhs = m.lhs
<1>1. /\ m.lhs \in [Node -> Node \union {Unmapped}]
      /\ m.rhs \in [Node -> Node \union {Unmapped}]
  BY MappingFacts DEF Inverses
<1>2. Swapped(m) \in Mapping
  BY <1>1 DEF Swapped, Mapping
<1>3. Swapped(m).lhs = m.rhs /\ Swapped(m).rhs = m.lhs
  BY DEF Swapped
<1>4. ASSUME NEW a \in Node, NEW b \in Node
      PROVE  Swapped(m).lhs[a] = b <=> Swapped(m).rhs[b] = a
  BY <1>3 DEF Inverses
<1> QED BY <1>2, <1>3, <1>4 DEF Inverses

LEMMA RecordSwapped ==
  ASSUME NEW m, NEW l, NEW r
  PROVE  Swapped(Record(m, l, r)) = Record(Swapped(m), r, l)
BY DEF Swapped, Record

\* What is known before the fields are looked at does not depend on the side.
LEMMA KnownSwapped ==
  ASSUME NEW heap, NEW l \in Node, NEW r \in Node, heap[l].type = heap[r].type,
         NEW m, Inverses(m)
  PROVE  KnownOutcome(heap, Swapped(m), r, l) = KnownOutcome(heap, m, l, r)
<1>1. Kind(heap, l) = Kind(heap, r) /\ (Recorded(heap, l) <=> Recorded(heap, r))
  BY DEF Kind, Recorded
<1>2. Swapped(m).lhs[r] = m.rhs[r] /\ Swapped(m).rhs[l] = m.lhs[l]
  BY SwappedFacts
<1>3. m.lhs[l] = r <=> m.rhs[r] = l
  BY DEF Inverses
<1>4. l # Unmapped /\ r # Unmapped
  BY UnmappedIsNoObject
<1>5. CASE ~Recorded(heap, l)
  BY <1>1, <1>5 DEF KnownOutcome, Verdict
<1>6. CASE Recorded(heap, l)
  <2>1. Kind(heap, l) \in {"DAGNode", "FreeVar"} /\ Kind(heap, r) \in {"DAGNode", "FreeVar"}
    BY <1>1, <1>6 DEF Recorded
  <2>2. KnownOutcome(heap, m, l, r) =
          IF m.lhs[l] # Unmapped THEN Verdict(m.lhs[l] = r)
          ELSE IF m.rhs[r] # Unmapped THEN "different" ELSE "unknown"
    BY <1>6, <2>1 DEF KnownOutcome
  <2>3. KnownOutcome(heap, Swapped(m), r, l) =
          IF m.rhs[r] # Unmapped THEN Verdict(m.rhs[r] = l)
          ELSE IF m.lhs[l] # Unmapped THEN "different" ELSE "unknown"
    BY <1>1, <1>2, <1>6, <2>1 DEF KnownOutcome
  <2> QED BY <1>3, <1>4, <2>2, <2>3 DEF Verdict
<1> QED BY <1>5, <1>6

\* Nor does what is equal at once, what holds beside equal parts, what is recorded.
LEMMA AtOnceSwapped ==
  ASSUME NEW heap, NEW skip, NEW l \in Node, NEW r \in Node, heap[l].type = heap[r].type,
         NEW m, Inverses(m), AtOnce(heap, skip, l, r, m)
  PROVE  AtOnce(heap, skip, r, l, Swapped(m))
<1>1. KnownOutcome(heap, Swapped(m), r, l) = KnownOutcome(heap, m, l, r)
  BY KnownSwapped
<1>2. HasFields(heap, l) <=> HasFields(heap, r)
  BY DEF HasFields
<1>3. SameTensor(heap, skip, l, r) <=> SameTensor(heap, skip, r, l)
  BY DEF SameTensor
<1> QED BY <1>1, <1>2, <1>3 DEF AtOnce

LEMMA ByPartsSwapped ==
  ASSUME NEW heap, IsHeap(heap), NEW free, NEW l \in Node, NEW r \in Node,
         heap[l].type = heap[r].type,
         NEW m, Inverses(m), ByParts(heap, free, l, r, m)
  PROVE  ByParts(heap, free, r, l, Swapped(m))
<1>1. CASE HasItems(heap, l)
  <2>1. SameShape(heap, l, r)
    BY <1>1 DEF ByParts, HasItems, HasFields
  <2>2. SameShape(heap, r, l)
    <3>1. CASE heap[l].type = "Map"
      <4>1. Len(heap[l].content) = Len(heap[r].content) /\ KeysIn(heap, l, r)
        BY <2>1, <3>1 DEF SameShape
      <4>2. \A e \in 1 .. Len(heap[r].content) :
              KeyAt(heap, l, heap[r].content[e][1]) \in 1 .. Len(heap[l].content)
        BY <3>1, <4>1, KeysMatch
      <4>3. KeysIn(heap, r, l)
        BY <3>1, <4>2, HeapFacts DEF KeysIn
      <4> QED BY <4>1, <4>3 DEF SameShape
    <3>2. CASE heap[l].type # "Map"
      BY <2>1, <3>2 DEF SameShape
    <3> QED BY <3>1, <3>2
  <2> QED BY <1>1, <2>2 DEF ByParts, HasItems
<1>2. CASE HasFields(heap, l)
  <2>1. KnownOutcome(heap, Swapped(m), r, l) = KnownOutcome(heap, m, l, r)
    BY KnownSwapped
  <2>2. Kind(heap, l) = Kind(heap, r) /\ HasFields(heap, r)
    BY <1>2 DEF Kind, HasFields
  <2>3. /\ KnownOutcome(heap, m, l, r) = "unknown"
        /\ Kind(heap, l) = "FreeVar" => l = r \/ free
    BY <1>2 DEF ByParts, HasItems, HasFields
  <2> QED BY <2>1, <2>2, <2>3 DEF ByParts
<1> QED BY <1>1, <1>2 DEF ByParts

LEMMA LeavesSwapped ==
  ASSUME NEW heap, NEW l \in Node, NEW r \in Node, heap[l].type = heap[r].type, NEW p
  PROVE  Swapped(Leaves(heap, l, r, p)) = Leaves(heap, r, l, Swapped(p))
<1>1. IsRecorded(heap, l) <=> IsRecorded(heap, r)
  BY DEF IsRecorded, HasFields, Recorded, Kind
<1> QED BY <1>1, RecordSwapped DEF Leaves

\* No definition of variables lies below a Map of several entries.
Tame(heap, free) ==
  \/ free
  \/ \A n \in Node :
       heap[n].type = "Map" /\ Len(heap[n].content) > 1 =>
         \E S : /\ Steady(heap, FALSE, S)
                /\ \A v \in Parts(heap, n) : IsObject(v) => v \in S

\* What l is equal to is equal to l, with the sides of what is recorded exchanged.
SwapsAt(heap, skip, l) ==
  \A free \in BOOLEAN, r \in Node : \A m, n :
    Tame(heap, free) /\ Inverses(m) /\ Eq(heap, skip, free, l, r, m, n)
      => Eq(heap, skip, free, r, l, Swapped(m), Swapped(n))

\* The same for two values.
LEMMA SwapsAny ==
  ASSUME NEW heap, IsHeap(heap), NEW skip, NEW free \in BOOLEAN, Tame(heap, free),
         NEW x, NEW y, IsObject(x) => SwapsAt(heap, skip, x),
         NEW m, NEW n, Inverses(m), Eq(heap, skip, free, x, y, m, n)
  PROVE  Eq(heap, skip, free, y, x, Swapped(m), Swapped(n))
<1>1. CASE IsObject(x) /\ IsObject(y)
  BY <1>1 DEF SwapsAt, IsObject
<1>2. CASE ~(IsObject(x) /\ IsObject(y))
  <2>1. Content(x) = Content(y) /\ n = m
    BY <1>2, EqData DEF Inverses
  <2>2. Swapped(m) \in Mapping
    BY SwappedFacts
  <2> QED BY <1>2, <2>1, <2>2, EqData
<1> QED BY <1>1, <1>2

\* The pairs js are the pairs ks the other way round.
SwappedPairs(ks, js, k) ==
  \A i \in 1 .. k : js[i].lhs = ks[i].rhs /\ js[i].rhs = ks[i].lhs /\ js[i].def = ks[i].def

\* Pairs one after the other, the other way round.
LEMMA ChainSwapped ==
  ASSUME NEW heap, IsHeap(heap), NoObjectKeys(heap), NEW skip, NEW free \in BOOLEAN,
         Tame(heap, free), NEW ks, NEW js, NEW k, ArePairs(ks, k), SwappedPairs(ks, js, k),
         \A i \in 1 .. k : IsObject(ks[i].lhs) => SwapsAt(heap, skip, ks[i].lhs),
         NEW m, NEW ms, Inverses(m), Chain(heap, skip, free, ks, k, m, ms)
  PROVE  \E ns : /\ Chain(heap, skip, free, js, k, Swapped(m), ns)
                 /\ ns[k] = Swapped(ms[k])
<1> DEFINE ns == [i \in 0 .. k |-> Swapped(ms[i])]
<1>0. k \in Nat /\ ms[0] = m
  BY DEF ArePairs, Chain
<1>1. \A i \in 0 .. k : Inverses(ms[i])
  BY ChainKeeps
<1>2. \A i \in 0 .. k : Swapped(ms[i]) \in Mapping
  BY <1>1, SwappedFacts
<1>3. ns \in [0 .. k -> Mapping] /\ \A i \in 0 .. k : ns[i] = Swapped(ms[i])
  BY <1>2
<1> HIDE DEF ns
<1>4. ASSUME NEW i \in 1 .. k
      PROVE  Eq(heap, skip, free \/ js[i].def, js[i].lhs, js[i].rhs, ns[i - 1], ns[i])
  <2> DEFINE f == free \/ ks[i].def
  <2>1. i - 1 \in 0 .. k /\ i \in 0 .. k
    BY <1>0
  <2>2. f \in BOOLEAN /\ Tame(heap, f)
    BY DEF ArePairs, Tame
  <2>3. Eq(heap, skip, f, ks[i].lhs, ks[i].rhs, ms[i - 1], ms[i])
    BY DEF Chain
  <2> HIDE DEF f
  <2>4. Inverses(ms[i - 1])
    BY <1>1, <2>1
  <2>5. Eq(heap, skip, f, ks[i].rhs, ks[i].lhs, Swapped(ms[i - 1]), Swapped(ms[i]))
    BY <2>2, <2>3, <2>4, SwapsAny
  <2>6. ns[i - 1] = Swapped(ms[i - 1]) /\ ns[i] = Swapped(ms[i])
    BY <1>3, <2>1
  <2>7. js[i].lhs = ks[i].rhs /\ js[i].rhs = ks[i].lhs /\ (free \/ js[i].def) = f
    BY DEF SwappedPairs, f
  <2> QED BY <2>5, <2>6, <2>7, Zenon
<1>5. ns[0] = Swapped(m) /\ ns[k] = Swapped(ms[k])
  BY <1>0, <1>3
<1>6. Chain(heap, skip, free, js, k, Swapped(m), ns)
  BY <1>3, <1>4, <1>5 DEF Chain
<1> QED BY <1>5, <1>6

\* The pairs of two maps in the order of the right one.
RightOrder(heap, l, r) ==
  [e \in 1 .. KidCount(heap, l) |->
     Kids(heap, l, r)[KeyAt(heap, l, heap[r].content[e][1])]]

\* In two maps that agree so far, the position a key has in the one and the
\* position it has in the other determine each other.
LEMMA KeysPaired ==
  ASSUME NEW heap, IsHeap(heap), NEW free, NEW l \in Node, NEW r \in Node,
         heap[l].type = "Map", heap[r].type = "Map", NEW m, ByParts(heap, free, l, r, m)
  PROVE  /\ KidCount(heap, l) \in Nat
         /\ \A i \in 1 .. KidCount(heap, l) :
              /\ KeyAt(heap, r, heap[l].content[i][1]) \in 1 .. KidCount(heap, l)
              /\ KeyAt(heap, l, heap[r].content[KeyAt(heap, r, heap[l].content[i][1])][1]) = i
         /\ \A e \in 1 .. KidCount(heap, l) :
              /\ KeyAt(heap, l, heap[r].content[e][1]) \in 1 .. KidCount(heap, l)
              /\ KeyAt(heap, r, heap[l].content[KeyAt(heap, l, heap[r].content[e][1])][1]) = e
<1>1. KidCount(heap, l) = Len(heap[l].content)
  BY DEF KidCount, HasItems
<1>2. Len(heap[l].content) = Len(heap[r].content) /\ KeysIn(heap, l, r)
  BY DEF ByParts, HasFields, SameShape
<1>3. LET k == Len(heap[l].content) IN
      /\ k \in Nat
      /\ \A i \in 1 .. k :
           LET e == KeyAt(heap, r, heap[l].content[i][1])
           IN e \in 1 .. k /\ KeyAt(heap, l, heap[r].content[e][1]) = i
      /\ \A e \in 1 .. k :
           LET i == KeyAt(heap, l, heap[r].content[e][1])
           IN i \in 1 .. k /\ KeyAt(heap, r, heap[l].content[i][1]) = e
  BY <1>2, KeysMatch
<1> QED BY <1>1, <1>3

\* Maps that are equal in the order of the left one are so in that of the right one.
LEMMA MapReordered ==
  ASSUME NEW heap, IsHeap(heap), NoObjectKeys(heap), NEW skip, NEW free \in BOOLEAN,
         Tame(heap, free), NEW l \in Node, NEW r \in Node,
         heap[l].type = "Map", heap[r].type = "Map",
         NEW m, Inverses(m), ByParts(heap, free, l, r, m),
         NEW p, ChainTo(heap, skip, free, l, r, m, p)
  PROVE  \E ns : /\ Chain(heap, skip, free, RightOrder(heap, l, r), KidCount(heap, l), m, ns)
                 /\ ns[KidCount(heap, l)] = p
<1> DEFINE ks == Kids(heap, l, r)
           k == KidCount(heap, l)
           js == RightOrder(heap, l, r)
           at(e) == KeyAt(heap, l, heap[r].content[e][1])
<1>1. Len(heap[l].content) = k
  BY DEF KidCount, HasItems
<1>2. /\ k \in Nat
      /\ \A i \in 1 .. k :
           LET e == KeyAt(heap, r, heap[l].content[i][1])
           IN e \in 1 .. k /\ at(e) = i
      /\ \A e \in 1 .. k : at(e) \in 1 .. k
  BY KeysPaired
<1>3. \A e \in 1 .. k : js[e] = ks[at(e)]
  BY DEF RightOrder
<1>4. PICK ms : Chain(heap, skip, free, ks, k, m, ms) /\ ms[k] = p
  BY DEF ChainTo, ChainOf
<1>5. ArePairs(ks, k)
  <2>1. heap[l].type = heap[r].type
    OBVIOUS
  <2> QED BY <2>1, KidsArePairs
<1>6. CASE k <= 1
  <2>1. ASSUME NEW i \in 1 .. k PROVE js[i] = ks[i]
    <3>1. at(i) = i
      BY <1>2, <1>6
    <3> QED BY <1>3, <3>1
  <2> HIDE DEF ks, k, js
  <2>2. Chain(heap, skip, free, js, k, m, ms)
    <3> SUFFICES ASSUME NEW i \in 1 .. k
                 PROVE  Eq(heap, skip, free \/ js[i].def, js[i].lhs, js[i].rhs, ms[i - 1], ms[i])
      BY <1>4 DEF Chain
    <3>1. Eq(heap, skip, free \/ ks[i].def, ks[i].lhs, ks[i].rhs, ms[i - 1], ms[i])
      BY <1>4 DEF Chain
    <3> QED BY <2>1, <3>1, Zenon
  <2> QED BY <1>4, <2>2 DEF js, k
<1>7. CASE k > 1
  <2>1. PICK S : Steady(heap, free, S) /\ \A v \in Parts(heap, l) : IsObject(v) => v \in S
    <3>1. CASE free
      <4>1. Steady(heap, free, Node)
        BY <3>1 DEF Steady, IsObject
      <4> QED BY <4>1 DEF IsObject
    <3>2. CASE ~free
      <4>1. \E S : Steady(heap, FALSE, S) /\ \A v \in Parts(heap, l) : IsObject(v) => v \in S
        BY <1>1, <1>7, <3>2 DEF Tame
      <4>2. free = FALSE
        BY <3>2
      <4> QED BY <4>1, <4>2
    <3> QED BY <3>1, <3>2
  <2>2. SteadyPairs(free, S, ks, k)
    <3> SUFFICES ASSUME NEW i \in 1 .. k
                 PROVE  (IsObject(ks[i].lhs) => ks[i].lhs \in S) /\ (ks[i].def => free)
      BY DEF SteadyPairs
    <3>1. IsObject(ks[i].lhs) => ks[i].lhs \in Parts(heap, l)
      BY KidFacts
    <3>2. ks[i] = Kid(heap, l, r, i)
      BY DEF Kids
    <3>3. ks[i].def = FALSE
      BY <3>2 DEF Kid, Pair
    <3> QED BY <2>1, <3>1, <3>3
  <2>3. Among(js, k, ks, k)
    BY <1>2, <1>3 DEF Among
  <2>4. Among(ks, k, js, k)
    <3> SUFFICES ASSUME NEW i \in 1 .. k PROVE \E e \in 1 .. k : ks[i] = js[e]
      BY DEF Among
    <3>1. PICK e \in 1 .. k : at(e) = i
      BY <1>2
    <3> QED BY <1>3, <3>1
  <2> HIDE DEF ks, k, js
  <2>5. \E ns : Chain(heap, skip, free, js, k, m, ns) /\ ns[k] = ms[k]
    BY <1>2, <1>4, <1>5, <2>1, <2>2, <2>3, <2>4, Reorder
  <2> QED BY <1>4, <2>5 DEF js, k
<1> QED BY <1>2, <1>6, <1>7

\* The parts of two objects, the other way round.
LEMMA PartsSwapped ==
  ASSUME NEW heap, IsHeap(heap), NoObjectKeys(heap), NEW skip, NEW free \in BOOLEAN,
         Tame(heap, free), NEW l \in Node, NEW r \in Node, heap[l].type = heap[r].type,
         \A c \in Node : c < l => SwapsAt(heap, skip, c),
         NEW m, Inverses(m), ByParts(heap, free, l, r, m),
         NEW p, ChainTo(heap, skip, free, l, r, m, p)
  PROVE  ChainTo(heap, skip, free, r, l, Swapped(m), Swapped(p))
<1> DEFINE ks == Kids(heap, l, r)
           k == KidCount(heap, l)
           js == Kids(heap, r, l)
<1>1. ArePairs(ks, k)
  BY KidsArePairs
<1>2. KidCount(heap, r) = k
  <2>1. HasItems(heap, l) <=> HasItems(heap, r)
    BY DEF HasItems
  <2>2. HasItems(heap, l) => Len(heap[l].content) = Len(heap[r].content)
    BY DEF ByParts, HasItems, HasFields, SameShape
  <2>3. Flags(heap, l) = Flags(heap, r)
    BY DEF Flags
  <2> QED BY <2>1, <2>2, <2>3 DEF KidCount
<1>3. ASSUME NEW i \in 1 .. k, IsObject(ks[i].lhs) PROVE SwapsAt(heap, skip, ks[i].lhs)
  <2>1. ks[i].lhs < l
    BY <1>3, KidFacts
  <2> HIDE DEF ks
  <2> QED BY <1>3, <2>1 DEF IsObject
<1>4. ASSUME NEW i \in 1 .. k PROVE ks[i] = Kid(heap, l, r, i) /\ js[i] = Kid(heap, r, l, i)
  BY <1>2 DEF Kids
<1>5. ASSUME NEW qs, NEW ms,
             ArePairs(qs, k), SwappedPairs(qs, js, k),
             \A i \in 1 .. k : IsObject(qs[i].lhs) => SwapsAt(heap, skip, qs[i].lhs),
             Chain(heap, skip, free, qs, k, m, ms), ms[k] = p
      PROVE  ChainTo(heap, skip, free, r, l, Swapped(m), Swapped(p))
  <2>1. \E ns : Chain(heap, skip, free, js, k, Swapped(m), ns) /\ ns[k] = Swapped(p)
    <3> HIDE DEF js, k
    <3>1. \E ns : Chain(heap, skip, free, js, k, Swapped(m), ns) /\ ns[k] = Swapped(ms[k])
      BY <1>5, ChainSwapped
    <3> QED BY <1>5, <3>1
  <2> HIDE DEF k
  <2> QED BY <1>2, <2>1 DEF ChainTo, ChainOf
<1>6. CASE heap[l].type # "Map"
  <2>1. SwappedPairs(ks, js, k)
    <3> SUFFICES ASSUME NEW i \in 1 .. k
                 PROVE  /\ js[i].lhs = ks[i].rhs /\ js[i].rhs = ks[i].lhs
                        /\ js[i].def = ks[i].def
      BY DEF SwappedPairs
    <3>1. Flags(heap, l) = Flags(heap, r)
      BY DEF Flags
    <3>2. \E u, v, d : ks[i] = Pair(u, v, d) /\ js[i] = Pair(v, u, d)
      <4>1. CASE heap[l].type = "Array"
        BY <1>4, <4>1 DEF Kid
      <4>2. CASE heap[l].type # "Array"
        <5> DEFINE flag == Flags(heap, l)[i]
                   x == heap[l].content[i]
                   y == heap[r].content[i]
        <5>1. /\ ks[i] = IF flag = "ignore" THEN Pair(0, 0, FALSE) ELSE Pair(x, y, flag = "def")
              /\ js[i] = IF flag = "ignore" THEN Pair(0, 0, FALSE) ELSE Pair(y, x, flag = "def")
          <6>1. Kid(heap, l, r, i) = IF flag = "ignore" THEN Pair(0, 0, FALSE)
                                     ELSE Pair(x, y, flag = "def")
            BY <1>6, <4>2 DEF Kid
          <6>2. Kid(heap, r, l, i) = IF flag = "ignore" THEN Pair(0, 0, FALSE)
                                     ELSE Pair(y, x, flag = "def")
            BY <1>6, <3>1, <4>2 DEF Kid
          <6> QED BY <1>4, <6>1, <6>2
        <5> HIDE DEF flag, x, y, ks, js
        <5>2. CASE flag = "ignore"
          <6>1. ks[i] = Pair(0, 0, FALSE) /\ js[i] = Pair(0, 0, FALSE)
            BY <5>1, <5>2
          <6> QED BY <6>1
        <5>3. CASE flag # "ignore"
          <6>1. ks[i] = Pair(x, y, flag = "def") /\ js[i] = Pair(y, x, flag = "def")
            BY <5>1, <5>3
          <6> QED BY <6>1
        <5> QED BY <5>2, <5>3
      <4> QED BY <4>1, <4>2
    <3> QED BY <3>2 DEF Pair
  <2>2. PICK ms : Chain(heap, skip, free, ks, k, m, ms) /\ ms[k] = p
    BY DEF ChainTo, ChainOf
  <2> HIDE DEF ks, k, js
  <2> QED BY <1>1, <1>3, <1>5, <2>1, <2>2
<1>7. CASE heap[l].type = "Map"
  <2> DEFINE qs == RightOrder(heap, l, r)
             at(e) == KeyAt(heap, l, heap[r].content[e][1])
  <2>0. heap[l].type = "Map" /\ heap[r].type = "Map"
    BY <1>7
  <2>1. PICK ns : Chain(heap, skip, free, qs, k, m, ns) /\ ns[k] = p
    BY <2>0, MapReordered
  <2>3. \A e \in 1 .. k :
          at(e) \in 1 .. k /\ KeyAt(heap, r, heap[l].content[at(e)][1]) = e
    BY <2>0, KeysPaired
  <2>4. \A e \in 1 .. k : qs[e] = ks[at(e)]
    BY DEF RightOrder
  <2>5. ArePairs(qs, k)
    BY <1>1, <2>3, <2>4 DEF ArePairs
  <2>6. \A e \in 1 .. k : IsObject(qs[e].lhs) => SwapsAt(heap, skip, qs[e].lhs)
    BY <1>3, <2>3, <2>4
  <2>7. SwappedPairs(qs, js, k)
    <3> SUFFICES ASSUME NEW e \in 1 .. k
                 PROVE  /\ js[e].lhs = qs[e].rhs /\ js[e].rhs = qs[e].lhs
                        /\ js[e].def = qs[e].def
      BY DEF SwappedPairs
    <3> DEFINE x == heap[l].content[at(e)][2]
               y == heap[r].content[e][2]
    <3>1. js[e] = Pair(y, x, FALSE)
      BY <1>4, <1>7 DEF Kid
    <3>2. ks[at(e)] = Pair(x, heap[r].content[KeyAt(heap, r, heap[l].content[at(e)][1])][2], FALSE)
      BY <1>4, <1>7, <2>3 DEF Kid
    <3>3. qs[e] = Pair(x, y, FALSE)
      BY <2>3, <2>4, <3>2
    <3> HIDE DEF x, y
    <3> QED BY <3>1, <3>3 DEF Pair
  <2> HIDE DEF qs, js, k
  <2> QED BY <1>5, <2>1, <2>5, <2>6, <2>7
<1> QED BY <1>6, <1>7

\* By induction on the age of l.
LEMMA Swaps ==
  ASSUME NEW heap, IsHeap(heap), NoObjectKeys(heap), NEW skip
  PROVE  \A l \in Node : SwapsAt(heap, skip, l)
<1> DEFINE P == {l \in Nat : l \in Node => SwapsAt(heap, skip, l)}
<1>1. ASSUME NEW l \in Nat, \A c \in Nat : c < l => c \in P
      PROVE  l \in P
  <2> SUFFICES ASSUME l \in Node, NEW free \in BOOLEAN, NEW r \in Node, NEW m, NEW n,
                      Tame(heap, free), Inverses(m), Eq(heap, skip, free, l, r, m, n)
               PROVE  Eq(heap, skip, free, r, l, Swapped(m), Swapped(n))
    BY DEF SwapsAt
  <2>0. m \in Mapping /\ Swapped(m) \in Mapping
    BY SwappedFacts DEF Inverses
  <2>1. /\ heap[l].type = heap[r].type
        /\ \/ AtOnce(heap, skip, l, r, m) /\ n = m
           \/ Parted(heap, skip, free, l, r, m, n)
    BY <2>0, EqStep
  <2>2. CASE AtOnce(heap, skip, l, r, m) /\ n = m
    <3>1. AtOnce(heap, skip, r, l, Swapped(m))
      BY <2>1, <2>2, AtOnceSwapped
    <3> QED BY <2>0, <2>1, <2>2, <3>1, EqStep
  <2>3. ASSUME ByParts(heap, free, l, r, m),
               NEW p, ChainTo(heap, skip, free, l, r, m, p), n = Leaves(heap, l, r, p)
        PROVE  Eq(heap, skip, free, r, l, Swapped(m), Swapped(n))
    <3>0. heap[l].type = heap[r].type
      BY <2>1
    <3>1. \A c \in Node : c < l => SwapsAt(heap, skip, c)
      BY <1>1, UnmappedIsNoObject
    <3>2. ChainTo(heap, skip, free, r, l, Swapped(m), Swapped(p))
      BY <2>3, <3>0, <3>1, PartsSwapped
    <3>3. ByParts(heap, free, r, l, Swapped(m))
      BY <2>3, <3>0, ByPartsSwapped
    <3>4. Swapped(n) = Leaves(heap, r, l, Swapped(p))
      BY <2>3, <3>0, LeavesSwapped
    <3>5. Parted(heap, skip, free, r, l, Swapped(m), Swapped(n))
      BY <3>2, <3>3, <3>4 DEF Parted
    <3> QED BY <2>0, <3>0, <3>5, EqStep
  <2> QED BY <2>1, <2>2, <2>3 DEF Parted
<1>2. \A l \in Nat : l \in P
  <2> HIDE DEF P
  <2> QED BY <1>1, AllNumbers
<1> QED BY <1>2, UnmappedIsNoObject

\* A call starts with nothing recorded on either side.
LEMMA NothingMappedSwapped ==
  /\ NothingMapped \in Mapping /\ Inverses(NothingMapped)
  /\ Swapped(NothingMapped) = NothingMapped
<1>1. NothingMapped \in Mapping
  BY DEF NothingMapped, Mapping
<1>2. \A a \in Node : NothingMapped.lhs[a] = Unmapped /\ NothingMapped.rhs[a] = Unmapped
  BY DEF NothingMapped
<1>3. Inverses(NothingMapped)
  BY <1>1, <1>2, UnmappedIsNoObject DEF Inverses
<1>4. Swapped(NothingMapped) = NothingMapped
  BY DEF Swapped, NothingMapped
<1> QED BY <1>1, <1>3, <1>4

\* What is equal is equal the other way round.
LEMMA EqualSwaps ==
  ASSUME NEW heap, IsHeap(heap), NoObjectKeys(heap), NEW skip, NEW free \in BOOLEAN,
         Tame(heap, free), NEW l, NEW r, Equal(heap, l, r, free, skip) = "equal"
  PROVE  Equal(heap, r, l, free, skip) = "equal"
<1> DEFINE n == CompareAny(Silent(heap, skip), free, l, r)[NothingMapped].mapping
<1>1. Eq(heap, skip, free, l, r, NothingMapped, n)
  BY DEF Eq, Takes, Silent, Equal
<1>2. IsObject(l) => SwapsAt(heap, skip, l)
  BY Swaps DEF IsObject
<1> HIDE DEF n
<1>3. Eq(heap, skip, free, r, l, Swapped(NothingMapped), Swapped(n))
  BY <1>1, <1>2, NothingMappedSwapped, SwapsAny
<1>4. Eq(heap, skip, free, r, l, NothingMapped, Swapped(n))
  BY <1>3, NothingMappedSwapped
<1> QED BY <1>4 DEF Eq, Takes, Silent, Equal

\* The outcomes of a call; an exception needs an object that cannot be compared.
LEMMA EqualOutcome ==
  ASSUME NEW heap, IsHeap(heap), NEW skip, NEW free \in BOOLEAN, NEW l, NEW r
  PROVE  /\ Equal(heap, l, r, free, skip) \in {"equal", "different", "throw"}
         /\ Equal(heap, l, r, free, skip) = "throw" => CanThrow(heap, skip)
<1> DEFINE f == CompareAny(Comparisons(heap, [skip |-> skip, trace |-> FALSE]), free, l, r)
                  [NothingMapped]
<1>1. Agrees(FirstMismatch(heap, l, r, free, skip), f, CanThrow(heap, skip))
  BY MismatchAgrees
<1>2. Equal(heap, l, r, free, skip) = f.outcome
  BY DEF Equal
<1> HIDE DEF f
<1> QED BY <1>1, <1>2 DEF Agrees, IsResult

\* The two answers of the walks.
LEMMA EqualBothWays ==
  ASSUME NEW heap, IsHeap(heap), NoObjectKeys(heap), NEW skip, NEW free \in BOOLEAN,
         Tame(heap, free), NEW l, NEW r
  PROVE  \/ Equal(heap, l, r, free, skip) = Equal(heap, r, l, free, skip)
         \/ /\ {Equal(heap, l, r, free, skip), Equal(heap, r, l, free, skip)}
                 = {"different", "throw"}
            /\ CanThrow(heap, skip)
<1> DEFINE a == Equal(heap, l, r, free, skip)
           b == Equal(heap, r, l, free, skip)
<1>1. a = "equal" <=> b = "equal"
  BY EqualSwaps
<1>2. /\ a \in {"equal", "different", "throw"} /\ b \in {"equal", "different", "throw"}
      /\ (a = "throw" \/ b = "throw" => CanThrow(heap, skip))
  BY EqualOutcome
<1> HIDE DEF a, b
<1>3. a = b \/ ({a, b} = {"different", "throw"} /\ CanThrow(heap, skip))
  BY <1>1, <1>2
<1> QED BY <1>3 DEF a, b

\* Below(n) is closed: what an object below n holds is below n.
LEMMA BelowIsClosed ==
  ASSUME NEW n \in Node
  PROVE  /\ Below(n) \subseteq Node
         /\ \A v \in Parts(input.heap, n) : IsObject(v) => v \in Below(n)
         /\ \A d \in Below(n) : \A v \in Parts(input.heap, d) : IsObject(v) => v \in Below(n)
<1>1. Below(n) \subseteq Node
  BY DEF Below
<1>2. ASSUME NEW d \in Below(n) \union {n}, NEW v \in Parts(input.heap, d), IsObject(v)
      PROVE  v \in Below(n)
  <2> SUFFICES ASSUME NEW S \in SUBSET Node,
                      \A k \in S \union {n} : Parts(input.heap, k) \cap Node \subseteq S
               PROVE  v \in S
    BY <1>2 DEF Below, IsObject
  <2>1. d \in S \union {n}
    BY <1>2 DEF Below
  <2> QED BY <1>2, <2>1 DEF IsObject
<1> QED BY <1>1, <1>2

\* No definition lies below a Map of several entries unless BindsInMap says so.
LEMMA TameUnlessBinds ==
  ASSUME IsHeap(input.heap), input.free \in BOOLEAN, ~BindsInMap
  PROVE  Tame(input.heap, input.free)
<1> SUFFICES ASSUME ~input.free, NEW n \in Node, input.heap[n].type = "Map",
                    Len(input.heap[n].content) > 1
             PROVE  \E S : /\ Steady(input.heap, FALSE, S)
                           /\ \A v \in Parts(input.heap, n) : IsObject(v) => v \in S
  BY DEF Tame
<1>1. n \in Maps
  BY DEF Maps
<1>2. 1 \in Entries(n) /\ 2 \in Entries(n)
  <2>1. input.heap[n].content \in Seq(Int \X Int)
    BY HeapFacts
  <2>2. DOMAIN input.heap[n].content = 1 .. Len(input.heap[n].content)
    BY <2>1
  <2>3. Len(input.heap[n].content) \in Nat
    BY <2>1
  <2> QED BY <2>2, <2>3 DEF Entries
<1>3. ASSUME NEW d \in Below(n), NEW f \in DOMAIN Flags(input.heap, d)
      PROVE  Flags(input.heap, d)[f] # "def"
  <2>1. SUFFICES ASSUME Flags(input.heap, d)[f] = "def" PROVE FALSE
    OBVIOUS
  <2>2. 1 # 2
    OBVIOUS
  <2>3. \E i \in Entries(n), j \in Entries(n) :
          i # j /\ \E e \in DOMAIN Flags(input.heap, d) : Flags(input.heap, d)[e] = "def"
    BY <1>2, <2>1, <2>2
  <2> QED BY <1>1, <2>3 DEF BindsInMap
<1>4. Steady(input.heap, FALSE, Below(n))
  BY <1>3, BelowIsClosed DEF Steady
<1> QED BY <1>4, BelowIsClosed

\* StructuralEqual::Equal answers the same for two values in either order, on
\* every heap without keys that are objects and definitions within a Map, however
\* objects are shared and wherever variables are bound: the comparison walks one
\* side, records pairs in both directions and looks keys up in the other side.
THEOREM EqualityIsSymmetric == Spec => []EqualIsSymmetric
<1>1. Asked => EqualIsSymmetric
  <2> SUFFICES ASSUME Asked, answer # NoAnswer, ~ObjectKeys, ~BindsInMap
               PROVE  \/ answer.equal = answer.swapped
                      \/ /\ {answer.equal, answer.swapped} = {"different", "throw"}
                         /\ SomeRefused
    BY DEF EqualIsSymmetric
  <2>1. IsHeap(input.heap) /\ input.free \in BOOLEAN
    BY InputsAssumption DEF Asked
  <2>2. Tame(input.heap, input.free)
    BY <2>1, TameUnlessBinds
  <2>3. NoObjectKeys(input.heap)
    BY DEF NoObjectKeys, ObjectKeys, Maps, Entries
  <2>4. /\ answer.equal = Equal(input.heap, input.lhs, input.rhs, input.free, input.skip)
        /\ answer.swapped = Equal(input.heap, input.rhs, input.lhs, input.free, input.skip)
    BY DEF Asked
  <2>5. CanThrow(input.heap, input.skip) => SomeRefused
    BY DEF CanThrow, OfKind, SomeRefused
  <2> QED BY <2>1, <2>2, <2>3, <2>4, <2>5, EqualBothWays
<1> QED BY <1>1, AskedHolds, PTL
=============================================================================
