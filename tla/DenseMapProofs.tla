---- MODULE DenseMapProofs ----
EXTENDS DenseMap, FiniteSetTheorems, WellFoundedInduction, TLAPS

(***************************************************************************)
(* Facts about the natural numbers and about iterating a function.          *)
(***************************************************************************)

\* A set of numbers has a least one.
LEMMA Least ==
  ASSUME NEW S, S \subseteq Nat, S # {}
  PROVE  \E m \in S : \A n \in S : m <= n
<1> DEFINE R == OpToRel(<, Nat)
<1>1. IsWellFoundedOn(R, Nat)
  BY NatLessThanWellFounded
<1>2. \A x, y \in Nat : x < y => <<x, y>> \in R
  BY DEF OpToRel
<1> HIDE DEF R
<1>3. PICK x \in S : \A y \in S : ~ (<<y, x>> \in R)
  BY <1>1, WFMin
<1>4. \A y \in S : ~ (y < x)
  BY <1>2, <1>3
<1>5. \A y \in S : y \in Nat /\ x \in Nat
  BY <1>3
<1> QED
  BY <1>3, <1>4, <1>5

\* Induction over the numbers for a set: the library's theorem takes an operator.
LEMMA NatInd ==
  ASSUME NEW S, 0 \in S, \A n \in Nat : n \in S => n + 1 \in S
  PROVE  Nat \subseteq S
<1> SUFFICES ASSUME NEW k \in Nat, k \notin S PROVE FALSE
  OBVIOUS
<1> DEFINE B == Nat \ S
<1>1. PICK m \in B : \A n \in B : m <= n
  BY Least
<1>2. m # 0
  OBVIOUS
<1>3. m - 1 \in Nat /\ ~(m <= m - 1)
  BY <1>2
<1>4. m - 1 \in S
  BY <1>1, <1>3
<1> QED
  BY <1>3, <1>4

\* Min returns the least element (EmptyJumps, CalcTableSize).
LEMMA MinIsLeast ==
  ASSUME NEW S, S \subseteq Nat, S # {}
  PROVE  Min(S) \in S /\ \A n \in S : Min(S) <= n
  BY Least DEF Min

\* w lists what a, f[a], f[f[a]] and so on are.
Iteration(w, S, a, f) ==
  w \in [Nat -> S] /\ w[0] = a /\ \A n \in Nat : w[n + 1] = f[w[n]]

\* A recursive function of the form w[n + 1] = f[w[n]] exists.
LEMMA IterationExists ==
  ASSUME NEW S, NEW a \in S, NEW f \in [S -> S]
  PROVE  \E w : Iteration(w, S, a, f)
<1> DEFINE Starts(v, n) == /\ v \in [0 .. n -> S] /\ v[0] = a
                             /\ \A m \in Nat : m < n => v[m + 1] = f[v[m]]
<1>1. \A n \in Nat : \E v : Starts(v, n)
  <2> DEFINE P == {n \in Nat : \E v : Starts(v, n)}
  <2>1. 0 \in P
    <3> DEFINE v == [m \in 0 .. 0 |-> a]
    <3>1. Starts(v, 0)
      OBVIOUS
    <3> HIDE DEF v
    <3> QED BY <3>1
  <2>2. \A n \in Nat : n \in P => n + 1 \in P
    <3> SUFFICES ASSUME NEW n \in Nat, n \in P PROVE n + 1 \in P
      OBVIOUS
    <3>1. PICK v : Starts(v, n)
      OBVIOUS
    <3> DEFINE u == [m \in 0 .. n + 1 |-> IF m = n + 1 THEN f[v[n]] ELSE v[m]]
    <3>2. u \in [0 .. n + 1 -> S] /\ u[0] = a
      BY <3>1
    <3>3. \A m \in Nat : m < n + 1 => u[m + 1] = f[u[m]]
      BY <3>1
    <3>4. Starts(u, n + 1)
      BY <3>2, <3>3
    <3> HIDE DEF u
    <3> QED BY <3>4
  <2> HIDE DEF P
  <2>3. Nat \subseteq P
    BY <2>1, <2>2, NatInd
  <2> QED BY <2>3 DEF P
<1>2. ASSUME NEW n1 \in Nat, NEW n2 \in Nat, NEW v1, NEW v2,
             Starts(v1, n1), Starts(v2, n2)
      PROVE  \A k \in Nat : k <= n1 /\ k <= n2 => v1[k] = v2[k]
  <2> DEFINE P == {k \in Nat : k <= n1 /\ k <= n2 => v1[k] = v2[k]}
  <2>1. 0 \in P
    BY <1>2
  <2>2. \A n \in Nat : n \in P => n + 1 \in P
    BY <1>2
  <2> HIDE DEF P
  <2>3. Nat \subseteq P
    BY <2>1, <2>2, NatInd
  <2> QED BY <2>3 DEF P
<1> DEFINE V(n) == CHOOSE v : Starts(v, n)
           w == [n \in Nat |-> V(n)[n]]
<1>3. \A n \in Nat : Starts(V(n), n)
  BY <1>1
<1> HIDE DEF V
<1>4. w \in [Nat -> S] /\ w[0] = a
  BY <1>3
<1>5. ASSUME NEW n \in Nat PROVE w[n + 1] = f[w[n]]
  <2>1. V(n + 1)[n + 1] = f[V(n + 1)[n]]
    BY <1>3
  <2>2. Starts(V(n), n) /\ Starts(V(n + 1), n + 1)
    BY <1>3
  <2> HIDE DEF Starts
  <2>3. V(n + 1)[n] = V(n)[n]
    BY <1>2, <2>2
  <2> QED BY <2>1, <2>3
<1> HIDE DEF w
<1> QED BY <1>4, <1>5 DEF Iteration

(***************************************************************************)
(* What a table is, and the two writes the iteration list is built from.    *)
(***************************************************************************)

\* A slot of a table of n slots, or kInvalidIndex.
SlotOrNone(n) == (0 .. n - 1) \cup {NoSlot}
\* The byte of metadata of a slot.
Meta == [kind : {"empty", "protected", "head", "body"}, jump : {0} \cup DOMAIN Probe]
\* The ListNode in a slot of a table of n slots.
Item(n) == [key : Key \cup {NoSlot}, val : Value \cup {NoValue},
            prev : SlotOrNone(n), next : SlotOrNone(n)]
\* The dense tables of n slots, consistent or not.
Tables(n) ==
  [layout : {"dense"}, slots : {n}, size : Nat, head : SlotOrNone(n), tail : SlotOrNone(n),
   meta : [0 .. n - 1 -> Meta], item : [0 .. n - 1 -> Item(n)]]

\* Nothing but links and the two ends of the list differs.
SameMeta(d, e) == e.slots = d.slots /\ e.size = d.size /\ e.meta = d.meta
\* Slot j has the same key and value.
SameData(d, e, j) == e.item[j].key = d.item[j].key /\ e.item[j].val = d.item[j].val

\* e is d after the node before a place was told that slot i follows it.
PrevLinked(d, e, n, i, prev) ==
  /\ e \in Tables(n) /\ SameMeta(d, e) /\ e.tail = d.tail
  /\ e.head = IF prev = NoSlot THEN i ELSE d.head
  /\ \A j \in 0 .. n - 1 :
       /\ SameData(d, e, j) /\ e.item[j].prev = d.item[j].prev
       /\ e.item[j].next = IF j = prev THEN i ELSE d.item[j].next
\* e is d after the node behind a place was told that slot i precedes it.
NextLinked(d, e, n, i, next) ==
  /\ e \in Tables(n) /\ SameMeta(d, e) /\ e.head = d.head
  /\ e.tail = IF next = NoSlot THEN i ELSE d.tail
  /\ \A j \in 0 .. n - 1 :
       /\ SameData(d, e, j) /\ e.item[j].next = d.item[j].next
       /\ e.item[j].prev = IF j = next THEN i ELSE d.item[j].prev

\* The fields of a table.
LEMMA TableFields ==
  ASSUME NEW n \in Nat \ {0}, NEW d \in Tables(n)
  PROVE  /\ d.slots = n /\ d.size \in Nat /\ d.layout = "dense"
         /\ d.head \in SlotOrNone(n) /\ d.tail \in SlotOrNone(n)
         /\ d.meta \in [0 .. n - 1 -> Meta] /\ d.item \in [0 .. n - 1 -> Item(n)]
         /\ Slots(d) = 0 .. n - 1 /\ NoSlot \notin 0 .. n - 1
  BY DenseMapAssumption DEF Tables, Slots

\* Setting a link leaves a node a node.
LEMMA SetLink ==
  ASSUME NEW n \in Nat \ {0}, NEW x \in Item(n), NEW i \in SlotOrNone(n)
  PROVE  [x EXCEPT !.next = i] \in Item(n) /\ [x EXCEPT !.prev = i] \in Item(n)
  BY DEF Item

\* A record with these fields is a table.
LEMMA IsTable ==
  ASSUME NEW n \in Nat \ {0}, NEW z \in Nat, NEW h \in SlotOrNone(n), NEW t \in SlotOrNone(n),
         NEW meta \in [0 .. n - 1 -> Meta], NEW item \in [0 .. n - 1 -> Item(n)]
  PROVE  [layout |-> "dense", slots |-> n, size |-> z, head |-> h, tail |-> t,
          meta |-> meta, item |-> item] \in Tables(n)
  BY DEF Tables

\* LinkPrev changes one next link, or the head of the list.
LEMMA LinkPrevFacts ==
  ASSUME NEW n \in Nat \ {0}, NEW d \in Tables(n),
         NEW i \in SlotOrNone(n), NEW prev \in SlotOrNone(n)
  PROVE  PrevLinked(d, LinkPrev(d, i, prev), n, i, prev)
<1> DEFINE e == LinkPrev(d, i, prev)
<1>1. CASE prev = NoSlot
  BY <1>1, TableFields DEF LinkPrev, PrevLinked, Tables, SameMeta, SameData
<1>2. CASE prev # NoSlot
  <2>1. prev \in 0 .. n - 1 /\ d.item \in [0 .. n - 1 -> Item(n)]
    BY <1>2, TableFields DEF SlotOrNone
  <2>2. e.item = [d.item EXCEPT ![prev].next = i]
    BY <1>2 DEF LinkPrev, Tables
  <2>3. e = [layout |-> d.layout, slots |-> d.slots, size |-> d.size, head |-> d.head,
             tail |-> d.tail, meta |-> d.meta, item |-> e.item]
    BY <1>2 DEF LinkPrev, Tables
  <2> HIDE DEF e
  <2>4. e.item \in [0 .. n - 1 -> Item(n)]
    BY <2>1, <2>2 DEF Item
  <2>5. \A j \in 0 .. n - 1 : e.item[j] = IF j = prev THEN [d.item[j] EXCEPT !.next = i] ELSE d.item[j]
    BY <2>1, <2>2
  <2>6. \A j \in 0 .. n - 1 :
          /\ SameData(d, e, j) /\ e.item[j].prev = d.item[j].prev
          /\ e.item[j].next = IF j = prev THEN i ELSE d.item[j].next
    BY <2>1, <2>5 DEF Item, SameData
  <2>7. SameMeta(d, e) /\ e.head = d.head /\ e.tail = d.tail
    BY <2>3 DEF SameMeta
  <2>8. e \in Tables(n)
    BY <2>3, <2>4, TableFields DEF Tables
  <2> QED BY <1>2, <2>6, <2>7, <2>8 DEF e, PrevLinked
<1> QED BY <1>1, <1>2

\* LinkNext changes one prev link, or the tail of the list.
LEMMA LinkNextFacts ==
  ASSUME NEW n \in Nat \ {0}, NEW d \in Tables(n),
         NEW i \in SlotOrNone(n), NEW next \in SlotOrNone(n)
  PROVE  NextLinked(d, LinkNext(d, i, next), n, i, next)
<1> DEFINE e == LinkNext(d, i, next)
<1>1. CASE next = NoSlot
  BY <1>1, TableFields DEF LinkNext, NextLinked, Tables, SameMeta, SameData
<1>2. CASE next # NoSlot
  <2>1. next \in 0 .. n - 1 /\ d.item \in [0 .. n - 1 -> Item(n)]
    BY <1>2, TableFields DEF SlotOrNone
  <2>2. e.item = [d.item EXCEPT ![next].prev = i]
    BY <1>2 DEF LinkNext, Tables
  <2>3. e = [layout |-> d.layout, slots |-> d.slots, size |-> d.size, head |-> d.head,
             tail |-> d.tail, meta |-> d.meta, item |-> e.item]
    BY <1>2 DEF LinkNext, Tables
  <2> HIDE DEF e
  <2>4. e.item \in [0 .. n - 1 -> Item(n)]
    BY <2>1, <2>2 DEF Item
  <2>5. \A j \in 0 .. n - 1 : e.item[j] = IF j = next THEN [d.item[j] EXCEPT !.prev = i] ELSE d.item[j]
    BY <2>1, <2>2
  <2>6. \A j \in 0 .. n - 1 :
          /\ SameData(d, e, j) /\ e.item[j].next = d.item[j].next
          /\ e.item[j].prev = IF j = next THEN i ELSE d.item[j].prev
    BY <2>1, <2>5 DEF Item, SameData
  <2>7. SameMeta(d, e) /\ e.head = d.head /\ e.tail = d.tail
    BY <2>3 DEF SameMeta
  <2>8. e \in Tables(n)
    BY <2>3, <2>4, TableFields DEF Tables
  <2> QED BY <1>2, <2>6, <2>7, <2>8 DEF e, NextLinked
<1> QED BY <1>1, <1>2

(***************************************************************************)
(* The iteration list as a sequence: s, of length m, names the occupied slots in*)
(* iteration order, and the list of table d threads s.  Unlinking a slot takes it*)
(* out of s.                                                                *)
(***************************************************************************)

\* s, of length m, without its p-th element.
Cut(s, m, p) == [j \in 1 .. m - 1 |-> IF j < p THEN s[j] ELSE s[j + 1]]
\* s, of length m, with x at its end.
Add(s, m, x) == [j \in 1 .. m + 1 |-> IF j = m + 1 THEN x ELSE s[j]]
\* The slot before the j-th of s, and the one after it.
Before(s, j) == IF j = 1 THEN NoSlot ELSE s[j - 1]
\* The slot after the j-th of s, of length m.
After(s, m, j) == IF j = m THEN NoSlot ELSE s[j + 1]
\* No slot occurs twice in s.
Injective(s, m) == \A j, l \in 1 .. m : s[j] = s[l] => j = l
\* The links of the slots of s run along s both ways.
Threaded(d, m, s) ==
  \A j \in 1 .. m : d.item[s[j]].prev = Before(s, j) /\ d.item[s[j]].next = After(s, m, j)
\* The list of d starts and ends where s does.
Ends(d, m, s) ==
  /\ d.head = IF m = 0 THEN NoSlot ELSE s[1]
  /\ d.tail = IF m = 0 THEN NoSlot ELSE s[m]
\* The iteration list of d is s.
Listed(d, m, s) ==
  /\ m \in Nat /\ s \in [1 .. m -> Slots(d)] /\ Injective(s, m)
  /\ Ends(d, m, s) /\ Threaded(d, m, s)
\* Slot j is not in s.
Outside(m, s, j) == \A l \in 1 .. m : s[l] # j

\* t is s without its p-th element.
CutOf(S, m, p, s, t) ==
  /\ m - 1 \in Nat /\ t \in [1 .. m - 1 -> S]
  /\ \A j \in 1 .. m - 1 : t[j] = IF j < p THEN s[j] ELSE s[j + 1]
  /\ Injective(s, m) => Injective(t, m - 1)

\* A node is its four fields.
LEMMA SameItem ==
  ASSUME NEW n \in Nat, NEW x \in Item(n), NEW y \in Item(n),
         x.key = y.key, x.val = y.val, x.prev = y.prev, x.next = y.next
  PROVE  x = y
  BY DEF Item

\* What Cut returns.
LEMMA CutFacts ==
  ASSUME NEW S, NEW m \in Nat, NEW s \in [1 .. m -> S], NEW p \in 1 .. m
  PROVE  CutOf(S, m, p, s, Cut(s, m, p))
<1>1. m - 1 \in Nat OBVIOUS
<1>2. \A j \in 1 .. m - 1 : Cut(s, m, p)[j] = IF j < p THEN s[j] ELSE s[j + 1]
  BY DEF Cut
<1>3. Cut(s, m, p) \in [1 .. m - 1 -> S]
  BY DEF Cut
<1>4. ASSUME Injective(s, m), NEW j \in 1 .. m - 1, NEW l \in 1 .. m - 1, Cut(s, m, p)[j] = Cut(s, m, p)[l]
  PROVE j = l
  <2>1. j \in 1 .. m /\ j + 1 \in 1 .. m /\ l \in 1 .. m /\ l + 1 \in 1 .. m OBVIOUS
  <2>2. CASE j < p /\ l < p BY <1>2, <1>4, <2>1, <2>2 DEF Injective
  <2>3. CASE j < p /\ ~(l < p) BY <1>2, <1>4, <2>1, <2>3 DEF Injective
  <2>4. CASE ~(j < p) /\ l < p BY <1>2, <1>4, <2>1, <2>4 DEF Injective
  <2>5. CASE ~(j < p) /\ ~(l < p) BY <1>2, <1>4, <2>1, <2>5 DEF Injective
  <2> QED BY <2>2, <2>3, <2>4, <2>5
<1> QED BY <1>1, <1>2, <1>3, <1>4 DEF CutOf, Injective

\* What IterListUnlink changes: the links of the two neighbours of slot i, or the
\* ends of the list.
LEMMA UnlinkFields ==
  ASSUME NEW n \in Nat \ {0}, NEW d \in Tables(n), NEW i \in 0 .. n - 1
  PROVE  LET e == IterListUnlink(d, i)
             prev == d.item[i].prev
             next == d.item[i].next
         IN /\ prev \in SlotOrNone(n) /\ next \in SlotOrNone(n)
            /\ e \in Tables(n) /\ SameMeta(d, e)
            /\ e.head = IF prev = NoSlot THEN next ELSE d.head
            /\ e.tail = IF next = NoSlot THEN prev ELSE d.tail
            /\ \A j \in 0 .. n - 1 :
                 /\ SameData(d, e, j)
                 /\ e.item[j].prev = IF j = next THEN prev ELSE d.item[j].prev
                 /\ e.item[j].next = IF j = prev THEN next ELSE d.item[j].next
<1> DEFINE prev == d.item[i].prev
           next == d.item[i].next
           c == LinkPrev(d, next, prev)
           e == LinkNext(c, prev, next)
<1>1. prev \in SlotOrNone(n) /\ next \in SlotOrNone(n)
  BY TableFields DEF Item
<1> HIDE DEF prev, next
<1>2. PrevLinked(d, c, n, next, prev)
  BY <1>1, LinkPrevFacts
<1>3. c \in Tables(n)
  BY <1>2 DEF PrevLinked
<1> HIDE DEF c
<1>4. NextLinked(c, e, n, prev, next)
  BY <1>1, <1>3, LinkNextFacts
<1> HIDE DEF e
<1>5. /\ e \in Tables(n) /\ SameMeta(d, e)
      /\ e.head = IF prev = NoSlot THEN next ELSE d.head
      /\ e.tail = IF next = NoSlot THEN prev ELSE d.tail
  BY <1>2, <1>4 DEF PrevLinked, NextLinked, SameMeta
<1>6. \A j \in 0 .. n - 1 :
        /\ SameData(d, e, j)
        /\ e.item[j].prev = IF j = next THEN prev ELSE d.item[j].prev
        /\ e.item[j].next = IF j = prev THEN next ELSE d.item[j].next
  BY <1>2, <1>4 DEF PrevLinked, NextLinked, SameData
<1> QED BY <1>1, <1>5, <1>6 DEF IterListUnlink, c, e, prev, next

\* e is d with the p-th slot of s out of its list.
Unlinked(d, e, n, m, s, p) ==
  /\ e \in Tables(n) /\ SameMeta(d, e)
  /\ \A j \in 0 .. n - 1 : SameData(d, e, j)
  /\ \A j \in 0 .. n - 1 : Outside(m, s, j) => e.item[j] = d.item[j]
  /\ Listed(e, m - 1, Cut(s, m, p))

\* IterListUnlink takes a slot of the list out of it and keeps the order of the rest.
LEMMA UnlinkFacts ==
  ASSUME NEW n \in Nat \ {0}, NEW d \in Tables(n), NEW m \in Nat,
         NEW s \in [1 .. m -> 0 .. n - 1], NEW p \in 1 .. m, Listed(d, m, s)
  PROVE  Unlinked(d, IterListUnlink(d, s[p]), n, m, s, p)
<1> DEFINE prev == d.item[s[p]].prev
           next == d.item[s[p]].next
           e == IterListUnlink(d, s[p])
           t == Cut(s, m, p)
<1>1. s[p] \in 0 .. n - 1
  OBVIOUS
<1>2. prev = Before(s, p) /\ next = After(s, m, p)
  BY DEF Listed, Threaded
<1>3. /\ e \in Tables(n) /\ SameMeta(d, e)
      /\ e.head = IF prev = NoSlot THEN next ELSE d.head
      /\ e.tail = IF next = NoSlot THEN prev ELSE d.tail
      /\ \A j \in 0 .. n - 1 :
           /\ SameData(d, e, j)
           /\ e.item[j].prev = IF j = next THEN prev ELSE d.item[j].prev
           /\ e.item[j].next = IF j = prev THEN next ELSE d.item[j].next
  BY <1>1, UnlinkFields
<1> HIDE DEF prev, next, e
<1>4. NoSlot \notin 0 .. n - 1 /\ Slots(e) = 0 .. n - 1
  BY <1>3, TableFields
<1>5. ASSUME NEW j \in 0 .. n - 1, Outside(m, s, j) PROVE e.item[j] = d.item[j]
  <2>1. j # next /\ j # prev
    BY <1>2, <1>4, <1>5 DEF Outside, Before, After
  <2>2. e.item[j] \in Item(n) /\ d.item[j] \in Item(n)
    BY <1>3, TableFields
  <2> QED BY <1>3, <2>1, <2>2, SameItem DEF SameData
<1>6. /\ m - 1 \in Nat /\ t \in [1 .. m - 1 -> 0 .. n - 1]
      /\ \A j \in 1 .. m - 1 : t[j] = IF j < p THEN s[j] ELSE s[j + 1]
      /\ Injective(t, m - 1)
  <2>1. Injective(s, m) BY DEF Listed
  <2>2. CutOf(0 .. n - 1, m, p, s, t)
    BY CutFacts
  <2> QED BY <2>1, <2>2 DEF CutOf
<1> HIDE DEF t
<1>7. Ends(e, m - 1, t)
  <2>1. d.head = s[1] /\ d.tail = s[m]
    BY DEF Listed, Ends
  <2>2. e.head = IF p = 1 THEN next ELSE s[1]
    BY <1>2, <1>3, <1>4, <2>1 DEF Before
  <2>3. e.tail = IF p = m THEN prev ELSE s[m]
    BY <1>2, <1>3, <1>4, <2>1 DEF After
  <2>4. e.head = IF m - 1 = 0 THEN NoSlot ELSE t[1]
    <3>1. CASE p = 1
      BY <1>2, <1>6, <2>2, <3>1 DEF After
    <3>2. CASE p # 1
      BY <1>6, <2>2, <3>2
    <3> QED BY <3>1, <3>2
  <2>5. e.tail = IF m - 1 = 0 THEN NoSlot ELSE t[m - 1]
    <3>1. CASE p = m
      BY <1>2, <1>6, <2>3, <3>1 DEF Before
    <3>2. CASE p # m
      BY <1>6, <2>3, <3>2
    <3> QED BY <3>1, <3>2
  <2> QED BY <2>4, <2>5 DEF Ends
<1>8. \A j \in 1 .. m : /\ s[j] = prev <=> j = p - 1
                        /\ s[j] = next <=> j = p + 1
  <2>1. Injective(s, m) BY DEF Listed
  <2>2. \A j \in 1 .. m : s[j] = prev <=> j = p - 1
    <3>1. CASE p = 1 BY <1>2, <1>4, <3>1 DEF Before
    <3>2. CASE p # 1
      <4>1. prev = s[p - 1] /\ p - 1 \in 1 .. m BY <1>2, <3>2 DEF Before
      <4> QED BY <2>1, <4>1 DEF Injective
    <3> QED BY <3>1, <3>2
  <2>3. \A j \in 1 .. m : s[j] = next <=> j = p + 1
    <3>1. CASE p = m BY <1>2, <1>4, <3>1 DEF After
    <3>2. CASE p # m
      <4>1. next = s[p + 1] /\ p + 1 \in 1 .. m BY <1>2, <3>2 DEF After
      <4> QED BY <2>1, <4>1 DEF Injective
    <3> QED BY <3>1, <3>2
  <2> QED BY <2>2, <2>3
<1>9. ASSUME NEW j \in 1 .. m - 1
      PROVE  e.item[t[j]].prev = Before(t, j) /\ e.item[t[j]].next = After(t, m - 1, j)
  <2>1. /\ \A l \in 1 .. m : e.item[s[l]].prev = IF l = p + 1 THEN prev ELSE Before(s, l)
        /\ \A l \in 1 .. m : e.item[s[l]].next = IF l = p - 1 THEN next ELSE After(s, m, l)
    BY <1>3, <1>8 DEF Listed, Threaded
  <2>2. j \in 1 .. m /\ j + 1 \in 1 .. m
    OBVIOUS
  <2>3. CASE j < p
    <3>1. t[j] = s[j]
      BY <1>6, <2>3
    <3>2. e.item[t[j]].prev = Before(t, j)
      <4>1. e.item[s[j]].prev = Before(s, j)
        BY <2>1, <2>2, <2>3
      <4>2. j # 1 => t[j - 1] = s[j - 1]
        BY <1>6, <2>3
      <4> QED BY <3>1, <4>1, <4>2 DEF Before
    <3>3. e.item[t[j]].next = After(t, m - 1, j)
      <4>1. CASE j = p - 1
        <5>1. e.item[s[j]].next = next
          BY <2>1, <2>2, <4>1
        <5>2. j # m - 1 => t[j + 1] = s[p + 1]
          BY <1>6, <4>1
        <5> QED BY <1>2, <3>1, <4>1, <5>1, <5>2 DEF After
      <4>2. CASE j # p - 1
        <5>1. e.item[s[j]].next = After(s, m, j)
          BY <2>1, <2>2, <4>2
        <5>2. j # m /\ j # m - 1 /\ t[j + 1] = s[j + 1]
          BY <1>6, <2>3, <4>2
        <5> QED BY <3>1, <5>1, <5>2 DEF After
      <4> QED BY <4>1, <4>2
    <3> QED BY <3>2, <3>3
  <2>4. CASE ~ (j < p)
    <3>1. t[j] = s[j + 1]
      BY <1>6, <2>4
    <3>2. e.item[t[j]].next = After(t, m - 1, j)
      <4>1. e.item[s[j + 1]].next = After(s, m, j + 1)
        BY <2>1, <2>2, <2>4
      <4>2. j # m - 1 => t[j + 1] = s[j + 2] /\ j + 1 # m
        BY <1>6, <2>4
      <4> QED BY <3>1, <4>1, <4>2 DEF After
    <3>3. e.item[t[j]].prev = Before(t, j)
      <4>1. CASE j = p
        <5>1. e.item[s[j + 1]].prev = prev
          BY <2>1, <2>2, <4>1
        <5>2. j # 1 => t[j - 1] = s[p - 1]
          BY <1>6, <4>1
        <5> QED BY <1>2, <3>1, <4>1, <5>1, <5>2 DEF Before
      <4>2. CASE j # p
        <5>1. e.item[s[j + 1]].prev = Before(s, j + 1)
          BY <2>1, <2>2, <4>2
        <5>2. j # 1 /\ t[j - 1] = s[j] /\ j + 1 # 1
          BY <1>6, <2>4, <4>2
        <5> QED BY <3>1, <5>1, <5>2 DEF Before
      <4> QED BY <4>1, <4>2
    <3> QED BY <3>2, <3>3
  <2> QED BY <2>3, <2>4
<1>10. Listed(e, m - 1, t)
  BY <1>4, <1>6, <1>7, <1>9 DEF Listed, Threaded
<1> QED
  BY <1>3, <1>5, <1>10 DEF Unlinked, e, t

(***************************************************************************)
(* Pushing a slot to the back of the list appends it to s.                  *)
(***************************************************************************)

\* t is s with x at its end.
AddOf(S, m, x, s, t) ==
  t \in [1 .. m + 1 -> S] /\ (\A j \in 1 .. m : t[j] = s[j]) /\ t[m + 1] = x

\* What Add returns.
LEMMA AddFacts ==
  ASSUME NEW S, NEW m \in Nat, NEW s \in [1 .. m -> S], NEW x \in S
  PROVE  AddOf(S, m, x, s, Add(s, m, x))
  BY DEF Add, AddOf

\* e is d after slot i was linked behind the tail.
PushedBack(d, e, n, i) ==
  /\ e \in Tables(n) /\ SameMeta(d, e)
  /\ e.head = (IF d.head = NoSlot THEN i ELSE d.head) /\ e.tail = i
  /\ \A j \in 0 .. n - 1 :
       /\ SameData(d, e, j)
       /\ e.item[j].prev = IF j = i THEN d.tail ELSE d.item[j].prev
       /\ e.item[j].next = IF j = d.tail THEN i ELSE IF j = i THEN NoSlot ELSE d.item[j].next

\* What IterListPushBack changes: the links of slot i and of the old tail, and the
\* ends of the list.
LEMMA PushBackFields ==
  ASSUME NEW n \in Nat \ {0}, NEW d \in Tables(n), NEW i \in 0 .. n - 1, d.tail # i
  PROVE  PushedBack(d, IterListPushBack(d, i), n, i)
<1> DEFINE f == [d EXCEPT !.item[i].prev = d.tail, !.item[i].next = NoSlot,
                          !.head = IF @ = NoSlot THEN i ELSE @, !.tail = i]
           e == IterListPushBack(d, i)
<1>0. f = [d EXCEPT !.item[i].prev = d.tail, !.item[i].next = NoSlot,
                    !.head = IF @ = NoSlot THEN i ELSE @, !.tail = i]
  OBVIOUS
<1> HIDE DEF f
<1>1. /\ f = [layout |-> d.layout, slots |-> d.slots, size |-> d.size, head |-> f.head,
               tail |-> f.tail, meta |-> d.meta, item |-> f.item]
      /\ f.head = IF d.head = NoSlot THEN i ELSE d.head
      /\ f.tail = i
      /\ f.item = [[d.item EXCEPT ![i].prev = d.tail] EXCEPT ![i].next = NoSlot]
  <2>1. f = [layout |-> d.layout, slots |-> d.slots, size |-> d.size, head |-> f.head,
             tail |-> f.tail, meta |-> d.meta, item |-> f.item]
    BY <1>0 DEF Tables
  <2>2. f.head = IF d.head = NoSlot THEN i ELSE d.head
    BY <1>0 DEF Tables
  <2>3. f.tail = i
    BY <1>0 DEF Tables
  <2>4. f.item = [[d.item EXCEPT ![i].prev = d.tail] EXCEPT ![i].next = NoSlot]
    BY <1>0 DEF Tables
  <2> QED BY <2>1, <2>2, <2>3, <2>4
<1>2. e = IF d.tail = NoSlot THEN f ELSE [f EXCEPT !.item[d.tail].next = i]
  BY <1>0 DEF IterListPushBack
<1> HIDE DEF e
<1>3. /\ d.head \in SlotOrNone(n) /\ d.tail \in SlotOrNone(n) /\ d.item \in [0 .. n - 1 -> Item(n)]
      /\ NoSlot \notin 0 .. n - 1 /\ i \in SlotOrNone(n) /\ NoSlot \in SlotOrNone(n)
  BY TableFields DEF SlotOrNone
<1>4. \A j \in 0 .. n - 1 :
        f.item[j] = IF j = i THEN [key |-> d.item[i].key, val |-> d.item[i].val,
                                   prev |-> d.tail, next |-> NoSlot]
                    ELSE d.item[j]
  <2>1. f.item[i] = [[d.item[i] EXCEPT !.prev = d.tail] EXCEPT !.next = NoSlot]
    BY <1>1, <1>3
  <2>2. \A j \in 0 .. n - 1 : j # i => f.item[j] = d.item[j]
    BY <1>1, <1>3
  <2>3. d.item[i] \in Item(n)
    BY <1>3
  <2>4. f.item[i] = [key |-> d.item[i].key, val |-> d.item[i].val, prev |-> d.tail, next |-> NoSlot]
    BY <2>1, <2>3 DEF Item
  <2> QED BY <2>2, <2>4
<1>5. f.item \in [0 .. n - 1 -> Item(n)]
  <2>1. DOMAIN f.item = 0 .. n - 1 /\ f.item = [j \in DOMAIN f.item |-> f.item[j]]
    BY <1>1, <1>3
  <2>2. \A j \in 0 .. n - 1 : f.item[j] \in Item(n)
    BY <1>3, <1>4 DEF Item
  <2> QED BY <2>1, <2>2
<1>6. \A j \in 0 .. n - 1 :
        /\ SameData(d, f, j)
        /\ f.item[j].prev = IF j = i THEN d.tail ELSE d.item[j].prev
        /\ f.item[j].next = IF j = i THEN NoSlot ELSE d.item[j].next
  BY <1>4 DEF SameData
<1>7. /\ SameMeta(d, f) /\ f.head = (IF d.head = NoSlot THEN i ELSE d.head) /\ f.tail = i
  BY <1>1 DEF SameMeta
<1>8. f \in Tables(n)
  <2>1. f.head \in SlotOrNone(n) /\ f.tail \in SlotOrNone(n)
    BY <1>1, <1>3
  <2>2. d.layout = "dense" /\ d.slots = n /\ d.size \in Nat /\ d.meta \in [0 .. n - 1 -> Meta]
    BY TableFields
  <2>3. f = [layout |-> "dense", slots |-> n, size |-> d.size, head |-> f.head,
             tail |-> f.tail, meta |-> d.meta, item |-> f.item]
    BY <1>1, <2>2
  <2> QED BY <1>5, <2>1, <2>2, <2>3, IsTable
<1>9. CASE d.tail = NoSlot
  <2>1. \A j \in 0 .. n - 1 : j # d.tail
    BY <1>3, <1>9
  <2> QED BY <1>2, <1>6, <1>7, <1>8, <1>9, <2>1 DEF PushedBack, e
<1>10. CASE d.tail # NoSlot
  <2>1. d.tail \in 0 .. n - 1
    BY <1>3, <1>10 DEF SlotOrNone
  <2>2. e.item = [f.item EXCEPT ![d.tail].next = i]
    BY <1>2, <1>8, <1>10 DEF Tables
  <2>3. e = [layout |-> f.layout, slots |-> f.slots, size |-> f.size, head |-> f.head,
             tail |-> f.tail, meta |-> f.meta, item |-> e.item]
    BY <1>2, <1>8, <1>10 DEF Tables
  <2>4. \A j \in 0 .. n - 1 : e.item[j] = IF j = d.tail THEN [f.item[j] EXCEPT !.next = i]
                                          ELSE f.item[j]
    BY <1>5, <2>1, <2>2
  <2>5. e.item \in [0 .. n - 1 -> Item(n)]
    <3>1. DOMAIN e.item = 0 .. n - 1 /\ e.item = [j \in DOMAIN e.item |-> e.item[j]]
      BY <1>5, <2>1, <2>2
    <3>2. \A j \in 0 .. n - 1 : e.item[j] \in Item(n)
      <4>1. \A j \in 0 .. n - 1 : f.item[j] \in Item(n) /\ [f.item[j] EXCEPT !.next = i] \in Item(n)
        BY <1>3, <1>5, SetLink
      <4> QED BY <2>4, <4>1
    <3> QED BY <3>1, <3>2
  <2>6. \A j \in 0 .. n - 1 :
          /\ SameData(f, e, j) /\ e.item[j].prev = f.item[j].prev
          /\ e.item[j].next = IF j = d.tail THEN i ELSE f.item[j].next
    BY <1>5, <2>1, <2>4 DEF Item, SameData
  <2>7. SameMeta(f, e) /\ e.head = f.head /\ e.tail = f.tail
    BY <2>3 DEF SameMeta
  <2>8. e \in Tables(n)
    BY <1>8, <2>3, <2>5, TableFields DEF Tables
  <2>9. \A j \in 0 .. n - 1 :
          /\ SameData(d, e, j)
          /\ e.item[j].prev = IF j = i THEN d.tail ELSE d.item[j].prev
          /\ e.item[j].next = IF j = d.tail THEN i ELSE IF j = i THEN NoSlot ELSE d.item[j].next
    BY <1>6, <2>6 DEF SameData
  <2> QED BY <1>7, <2>7, <2>8, <2>9 DEF PushedBack, SameMeta, e
<1> QED BY <1>9, <1>10 DEF e

\* e is d with slot i at the end of its list.
PushedTo(d, e, n, m, s, i) ==
  /\ e \in Tables(n) /\ SameMeta(d, e)
  /\ \A j \in 0 .. n - 1 : SameData(d, e, j)
  /\ \A j \in 0 .. n - 1 : Outside(m, s, j) /\ j # i => e.item[j] = d.item[j]
  /\ Listed(e, m + 1, Add(s, m, i))

\* IterListPushBack puts a slot that is not in the list at its end.
LEMMA PushBackFacts ==
  ASSUME NEW n \in Nat \ {0}, NEW d \in Tables(n), NEW m \in Nat,
         NEW s \in [1 .. m -> 0 .. n - 1], NEW i \in 0 .. n - 1, Listed(d, m, s), Outside(m, s, i)
  PROVE  PushedTo(d, IterListPushBack(d, i), n, m, s, i)
<1> DEFINE e == IterListPushBack(d, i)
           t == Add(s, m, i)
<1>1. d.tail = (IF m = 0 THEN NoSlot ELSE s[m]) /\ d.head = (IF m = 0 THEN NoSlot ELSE s[1])
  BY DEF Listed, Ends
<1>2. d.tail # i
  BY <1>1, TableFields DEF Outside
<1>3. PushedBack(d, e, n, i)
  BY <1>2, PushBackFields
<1> HIDE DEF e
<1>4. e \in Tables(n) /\ SameMeta(d, e) /\ NoSlot \notin 0 .. n - 1 /\ Slots(e) = 0 .. n - 1
  BY <1>3, TableFields DEF PushedBack
<1>5. ASSUME NEW j \in 0 .. n - 1, Outside(m, s, j), j # i PROVE e.item[j] = d.item[j]
  <2>1. j # d.tail
    BY <1>1, <1>4, <1>5 DEF Outside
  <2>2. e.item[j] \in Item(n) /\ d.item[j] \in Item(n)
    <3>1. e.item \in [0 .. n - 1 -> Item(n)] /\ d.item \in [0 .. n - 1 -> Item(n)]
      BY <1>4, TableFields
    <3> QED BY <3>1
  <2> QED BY <1>3, <1>5, <2>1, <2>2, SameItem DEF SameData, PushedBack
<1>6. t \in [1 .. m + 1 -> 0 .. n - 1] /\ (\A j \in 1 .. m : t[j] = s[j]) /\ t[m + 1] = i
  <2>1. AddOf(0 .. n - 1, m, i, s, t)
    BY AddFacts
  <2> QED BY <2>1 DEF AddOf
<1> HIDE DEF t
<1>7. Injective(t, m + 1)
  <2> SUFFICES ASSUME NEW j \in 1 .. m + 1, NEW l \in 1 .. m + 1, t[j] = t[l] PROVE j = l
    BY DEF Injective
  <2>1. Injective(s, m) BY DEF Listed
  <2>2. CASE j = m + 1 /\ l # m + 1
    BY <1>6, <2>2 DEF Outside
  <2>3. CASE j # m + 1 /\ l = m + 1
    BY <1>6, <2>3 DEF Outside
  <2>4. CASE j # m + 1 /\ l # m + 1
    <3>1. j \in 1 .. m /\ l \in 1 .. m BY <2>4
    <3> QED BY <1>6, <2>1, <3>1 DEF Injective
  <2> QED BY <2>2, <2>3, <2>4
<1>8. Ends(e, m + 1, t)
  <2>1. e.tail = t[m + 1]
    BY <1>3, <1>6 DEF PushedBack
  <2>2. e.head = t[1]
    <3>1. CASE m = 0
      BY <1>1, <1>3, <1>6, <3>1 DEF PushedBack
    <3>2. CASE m # 0
      <4>1. 1 \in 1 .. m /\ d.head = s[1] /\ s[1] \in 0 .. n - 1 BY <1>1, <3>2
      <4> QED BY <1>3, <1>4, <1>6, <4>1 DEF PushedBack
    <3> QED BY <3>1, <3>2
  <2> QED BY <2>1, <2>2 DEF Ends
<1>9. ASSUME NEW j \in 1 .. m + 1
      PROVE  e.item[t[j]].prev = Before(t, j) /\ e.item[t[j]].next = After(t, m + 1, j)
  <2>1. CASE j = m + 1
    <3>1. e.item[i].prev = d.tail /\ e.item[i].next = NoSlot
      BY <1>2, <1>3 DEF PushedBack
    <3>2. d.tail = Before(t, m + 1)
      BY <1>1, <1>6 DEF Before
    <3> QED BY <1>6, <2>1, <3>1, <3>2 DEF After
  <2>2. CASE j # m + 1
    <3>1. j \in 1 .. m /\ t[j] = s[j] /\ s[j] \in 0 .. n - 1
      BY <1>6, <2>2
    <3>2. s[j] # i
      BY <3>1 DEF Outside
    <3>3. d.item[s[j]].prev = Before(s, j) /\ d.item[s[j]].next = After(s, m, j)
      BY <3>1 DEF Listed, Threaded
    <3>4. e.item[t[j]].prev = Before(t, j)
      <4>1. e.item[s[j]].prev = Before(s, j)
        BY <1>3, <3>1, <3>2, <3>3 DEF PushedBack
      <4>2. j # 1 => t[j - 1] = s[j - 1]
        BY <1>6, <3>1
      <4> QED BY <3>1, <4>1, <4>2 DEF Before
    <3>5. e.item[t[j]].next = After(t, m + 1, j)
      <4>1. CASE j = m
        <5>1. s[j] = d.tail
          BY <1>1, <4>1
        <5>2. e.item[s[j]].next = i
          BY <1>3, <3>1, <5>1 DEF PushedBack
        <5> QED BY <1>6, <3>1, <4>1, <5>2 DEF After
      <4>2. CASE j # m
        <5>1. s[j] # s[m] /\ m # 0 /\ m \in 1 .. m
          BY <3>1, <4>2 DEF Listed, Injective
        <5>2. e.item[s[j]].next = s[j + 1]
          BY <1>1, <1>3, <3>1, <3>2, <3>3, <4>2, <5>1 DEF PushedBack, After
        <5>3. j + 1 \in 1 .. m
          BY <3>1, <4>2
        <5> QED BY <1>6, <3>1, <5>2, <5>3 DEF After
      <4> QED BY <4>1, <4>2
    <3> QED BY <3>4, <3>5
  <2> QED BY <2>1, <2>2
<1>10. Listed(e, m + 1, t)
  BY <1>4, <1>6, <1>7, <1>8, <1>9 DEF Listed, Threaded
<1> QED
  BY <1>3, <1>4, <1>5, <1>10 DEF PushedTo, PushedBack, e, t

(***************************************************************************)
(* Moving a node puts its new slot where the old one stood in s.            *)
(***************************************************************************)

\* A destroyed node is a node.
LEMMA NoItemIsItem ==
  ASSUME NEW n \in Nat \ {0}
  PROVE  NoItem \in Item(n)
  BY DEF Item, NoItem, SlotOrNone

\* dst has taken over the item of src and its place in the iteration list.
NodeMoved(d, e, n, src, dst) ==
  /\ e \in Tables(n) /\ SameMeta(d, e)
  /\ e.head = IF d.item[src].prev = NoSlot THEN dst ELSE d.head
  /\ e.tail = IF d.item[src].next = NoSlot THEN dst ELSE d.tail
  /\ e.item[src] = NoItem
  /\ e.item[dst] = d.item[src]
  /\ \A j \in 0 .. n - 1 : j # src /\ j # dst =>
       /\ SameData(d, e, j)
       /\ e.item[j].prev = IF j = d.item[src].next THEN dst ELSE d.item[j].prev
       /\ e.item[j].next = IF j = d.item[src].prev THEN dst ELSE d.item[j].next

\* What MoveNode (IterListReplaceNodeBy) changes: the two slots, and the links of
\* their neighbours.
LEMMA MoveNodeFields ==
  ASSUME NEW n \in Nat \ {0}, NEW d \in Tables(n), NEW src \in 0 .. n - 1, NEW dst \in 0 .. n - 1,
         src # dst, d.item[src].prev \notin {src, dst}, d.item[src].next \notin {src, dst}
  PROVE  NodeMoved(d, MoveNode(d, src, dst), n, src, dst)
<1> DEFINE prev == d.item[src].prev
           next == d.item[src].next
           f == [d EXCEPT !.item[dst] = d.item[src], !.item[src] = NoItem]
           c == LinkPrev(f, dst, prev)
           e == LinkNext(c, dst, next)
<1>1. d.item \in [0 .. n - 1 -> Item(n)] /\ NoSlot \notin 0 .. n - 1
  BY TableFields
<1>2. prev \in SlotOrNone(n) /\ next \in SlotOrNone(n) /\ dst \in SlotOrNone(n)
  BY <1>1 DEF Item, SlotOrNone
<1>3. prev # src /\ prev # dst /\ next # src /\ next # dst
  OBVIOUS
<1>4. f = [d EXCEPT !.item[dst] = d.item[src], !.item[src] = NoItem]
  OBVIOUS
<1>5. prev = d.item[src].prev /\ next = d.item[src].next
  OBVIOUS
<1> HIDE DEF f, prev, next
<1>6. f.item = [[d.item EXCEPT ![dst] = d.item[src]] EXCEPT ![src] = NoItem]
  BY <1>4 DEF Tables
<1>7. f = [layout |-> d.layout, slots |-> d.slots, size |-> d.size, head |-> d.head,
           tail |-> d.tail, meta |-> d.meta, item |-> f.item]
  BY <1>4 DEF Tables
<1>8. /\ f.item[src] = NoItem /\ f.item[dst] = d.item[src]
      /\ \A j \in 0 .. n - 1 : j # src /\ j # dst => f.item[j] = d.item[j]
  BY <1>1, <1>6
<1>9. f.item \in [0 .. n - 1 -> Item(n)]
  BY <1>1, <1>6, NoItemIsItem
<1>10. f \in Tables(n)
  <2>1. d.layout = "dense" /\ d.slots = n /\ d.size \in Nat /\ d.meta \in [0 .. n - 1 -> Meta]
        /\ d.head \in SlotOrNone(n) /\ d.tail \in SlotOrNone(n)
    BY TableFields
  <2>2. f = [layout |-> "dense", slots |-> n, size |-> d.size, head |-> d.head,
             tail |-> d.tail, meta |-> d.meta, item |-> f.item]
    BY <1>7, <2>1
  <2> QED BY <1>9, <2>1, <2>2, IsTable
<1>11. SameMeta(d, f) /\ f.head = d.head /\ f.tail = d.tail
  BY <1>7 DEF SameMeta
<1>12. PrevLinked(f, c, n, dst, prev)
  BY <1>2, <1>10, LinkPrevFacts
<1>13. c \in Tables(n)
  BY <1>12 DEF PrevLinked
<1> HIDE DEF c
<1>14. NextLinked(c, e, n, dst, next)
  BY <1>2, <1>13, LinkNextFacts
<1> HIDE DEF e
<1>15. /\ e \in Tables(n) /\ SameMeta(d, e)
       /\ e.head = IF prev = NoSlot THEN dst ELSE d.head
       /\ e.tail = IF next = NoSlot THEN dst ELSE d.tail
  BY <1>11, <1>12, <1>14 DEF PrevLinked, NextLinked, SameMeta
<1>16. \A j \in 0 .. n - 1 :
         /\ SameData(f, e, j)
         /\ e.item[j].prev = IF j = next THEN dst ELSE f.item[j].prev
         /\ e.item[j].next = IF j = prev THEN dst ELSE f.item[j].next
  BY <1>12, <1>14 DEF PrevLinked, NextLinked, SameData
<1>17. e.item \in [0 .. n - 1 -> Item(n)]
  BY <1>15, TableFields
<1>18. e.item[src] = NoItem
  <2>1. e.item[src] \in Item(n) /\ f.item[src] \in Item(n)
    BY <1>9, <1>17
  <2>2. SameData(f, e, src) /\ e.item[src].prev = f.item[src].prev /\ e.item[src].next = f.item[src].next
    BY <1>3, <1>16
  <2> QED BY <1>8, <2>1, <2>2, SameItem DEF SameData
<1>19. e.item[dst] = d.item[src]
  <2>1. e.item[dst] \in Item(n) /\ f.item[dst] \in Item(n)
    BY <1>9, <1>17
  <2>2. SameData(f, e, dst) /\ e.item[dst].prev = f.item[dst].prev /\ e.item[dst].next = f.item[dst].next
    BY <1>3, <1>16
  <2> QED BY <1>8, <2>1, <2>2, SameItem DEF SameData
<1>20. \A j \in 0 .. n - 1 : j # src /\ j # dst =>
         /\ SameData(d, e, j)
         /\ e.item[j].prev = IF j = next THEN dst ELSE d.item[j].prev
         /\ e.item[j].next = IF j = prev THEN dst ELSE d.item[j].next
  BY <1>8, <1>16 DEF SameData
<1> QED
  BY <1>15, <1>18, <1>19, <1>20 DEF NodeMoved, MoveNode, e, c, f, prev, next

\* s, of length m, with x in place of its p-th element.
Swap(s, m, p, x) == [j \in 1 .. m |-> IF j = p THEN x ELSE s[j]]

\* e is d with the p-th node of its list moved to slot dst.
MovedTo(d, e, n, m, s, p, dst) ==
  /\ e \in Tables(n) /\ SameMeta(d, e)
  /\ e.item[s[p]] = NoItem
  /\ e.item[dst].key = d.item[s[p]].key /\ e.item[dst].val = d.item[s[p]].val
  /\ \A j \in 0 .. n - 1 : j # s[p] /\ j # dst => SameData(d, e, j)
  /\ \A j \in 0 .. n - 1 : Outside(m, s, j) /\ j # dst => e.item[j] = d.item[j]
  /\ Listed(e, m, Swap(s, m, p, dst))

\* MoveNode to a slot outside the list leaves the node where it was in the list.
LEMMA MoveNodeFacts ==
  ASSUME NEW n \in Nat \ {0}, NEW d \in Tables(n), NEW m \in Nat,
         NEW s \in [1 .. m -> 0 .. n - 1], NEW p \in 1 .. m, NEW dst \in 0 .. n - 1,
         Listed(d, m, s), Outside(m, s, dst)
  PROVE  MovedTo(d, MoveNode(d, s[p], dst), n, m, s, p, dst)
<1> DEFINE src == s[p]
           prev == d.item[src].prev
           next == d.item[src].next
           e == MoveNode(d, src, dst)
           t == Swap(s, m, p, dst)
<1>1. Injective(s, m) /\ Ends(d, m, s) /\ Threaded(d, m, s)
  BY DEF Listed
<1>2. prev = Before(s, p) /\ next = After(s, m, p)
  BY <1>1 DEF Threaded
<1>3. src \in 0 .. n - 1 /\ src # dst
  BY DEF Outside
<1>4. src = s[p]
  OBVIOUS
<1> HIDE DEF src
<1>5. NoSlot \notin 0 .. n - 1 /\ m # 0
  BY TableFields
<1>6. \A j \in 1 .. m : /\ s[j] = prev <=> j = p - 1
                        /\ s[j] = next <=> j = p + 1
  <2>1. \A j \in 1 .. m : s[j] = prev <=> j = p - 1
    <3>1. CASE p = 1 BY <1>2, <1>5, <3>1 DEF Before
    <3>2. CASE p # 1
      <4>1. prev = s[p - 1] /\ p - 1 \in 1 .. m BY <1>2, <3>2 DEF Before
      <4> QED BY <1>1, <4>1 DEF Injective
    <3> QED BY <3>1, <3>2
  <2>2. \A j \in 1 .. m : s[j] = next <=> j = p + 1
    <3>1. CASE p = m BY <1>2, <1>5, <3>1 DEF After
    <3>2. CASE p # m
      <4>1. next = s[p + 1] /\ p + 1 \in 1 .. m BY <1>2, <3>2 DEF After
      <4> QED BY <1>1, <4>1 DEF Injective
    <3> QED BY <3>1, <3>2
  <2> QED BY <2>1, <2>2
<1>7. prev \notin {src, dst} /\ next \notin {src, dst}
  <2>1. p \in 1 .. m /\ p # p - 1 /\ p # p + 1
    OBVIOUS
  <2>2. prev # src /\ next # src
    BY <1>4, <1>6, <2>1
  <2>3. prev # dst /\ next # dst
    BY <1>2, <1>5 DEF Before, After, Outside
  <2> QED BY <2>2, <2>3
<1>8. NodeMoved(d, e, n, src, dst)
  BY <1>3, <1>7, MoveNodeFields
<1> HIDE DEF e
<1>9. e \in Tables(n) /\ SameMeta(d, e) /\ Slots(e) = 0 .. n - 1
  BY <1>8, TableFields DEF NodeMoved
<1>10. /\ e.item[src] = NoItem /\ e.item[dst] = d.item[src]
       /\ \A j \in 0 .. n - 1 : j # src /\ j # dst =>
            /\ SameData(d, e, j)
            /\ e.item[j].prev = IF j = next THEN dst ELSE d.item[j].prev
            /\ e.item[j].next = IF j = prev THEN dst ELSE d.item[j].next
       /\ e.head = IF prev = NoSlot THEN dst ELSE d.head
       /\ e.tail = IF next = NoSlot THEN dst ELSE d.tail
  BY <1>8 DEF NodeMoved
<1> HIDE DEF prev, next
<1>11. ASSUME NEW j \in 0 .. n - 1, Outside(m, s, j), j # dst PROVE e.item[j] = d.item[j]
  <2>1. j # next /\ j # prev /\ j # src
    BY <1>2, <1>4, <1>5, <1>11 DEF Outside, Before, After
  <2>2. e.item \in [0 .. n - 1 -> Item(n)] /\ d.item \in [0 .. n - 1 -> Item(n)]
    BY <1>9, TableFields
  <2>3. e.item[j] \in Item(n) /\ d.item[j] \in Item(n)
    BY <2>2
  <2>4. SameData(d, e, j) /\ e.item[j].prev = d.item[j].prev /\ e.item[j].next = d.item[j].next
    BY <1>10, <1>11, <2>1
  <2> QED BY <2>3, <2>4, SameItem DEF SameData
<1>12. /\ t \in [1 .. m -> 0 .. n - 1] /\ t[p] = dst
       /\ \A j \in 1 .. m : j # p => t[j] = s[j]
  BY DEF Swap
<1> HIDE DEF t
<1>13. Injective(t, m)
  BY <1>1, <1>12 DEF Injective, Outside
<1>14. Ends(e, m, t)
  <2>1. d.head = s[1] /\ d.tail = s[m]
    BY <1>1, <1>5 DEF Ends
  <2>2. e.head = t[1]
    <3>1. CASE p = 1
      BY <1>2, <1>10, <1>12, <3>1 DEF Before
    <3>2. CASE p # 1
      <4>1. prev = s[p - 1] /\ p - 1 \in 1 .. m /\ 1 \in 1 .. m BY <1>2, <3>2 DEF Before
      <4> QED BY <1>5, <1>10, <1>12, <2>1, <3>2, <4>1
    <3> QED BY <3>1, <3>2
  <2>3. e.tail = t[m]
    <3>1. CASE p = m
      BY <1>2, <1>10, <1>12, <3>1 DEF After
    <3>2. CASE p # m
      <4>1. next = s[p + 1] /\ p + 1 \in 1 .. m /\ m \in 1 .. m BY <1>2, <3>2 DEF After
      <4> QED BY <1>5, <1>10, <1>12, <2>1, <3>2, <4>1
    <3> QED BY <3>1, <3>2
  <2> QED BY <1>5, <2>2, <2>3 DEF Ends
<1>15. ASSUME NEW j \in 1 .. m
       PROVE  e.item[t[j]].prev = Before(t, j) /\ e.item[t[j]].next = After(t, m, j)
  <2>1. CASE j = p
    <3>1. e.item[t[j]].prev = Before(s, p) /\ e.item[t[j]].next = After(s, m, p)
      BY <1>2, <1>10, <1>12, <2>1 DEF prev, next
    <3>2. Before(s, p) = Before(t, p)
      BY <1>12 DEF Before
    <3>3. After(s, m, p) = After(t, m, p)
      BY <1>12 DEF After
    <3> QED BY <2>1, <3>1, <3>2, <3>3
  <2>2. CASE j # p
    <3>1. t[j] = s[j] /\ s[j] \in 0 .. n - 1 /\ s[j] # src /\ s[j] # dst
      BY <1>1, <1>4, <1>12, <2>2 DEF Injective, Outside
    <3>2. d.item[s[j]].prev = Before(s, j) /\ d.item[s[j]].next = After(s, m, j)
      BY <1>1 DEF Threaded
    <3>3. /\ e.item[s[j]].prev = IF j = p + 1 THEN dst ELSE Before(s, j)
          /\ e.item[s[j]].next = IF j = p - 1 THEN dst ELSE After(s, m, j)
      BY <1>6, <1>10, <3>1, <3>2
    <3>4. e.item[t[j]].prev = Before(t, j)
      <4>1. CASE j = p + 1
        BY <1>12, <3>1, <3>3, <4>1 DEF Before
      <4>2. CASE j # p + 1
        <5>1. j # 1 => j - 1 \in 1 .. m /\ j - 1 # p
          BY <4>2
        <5>2. Before(s, j) = Before(t, j)
          BY <1>12, <5>1 DEF Before
        <5> QED BY <3>1, <3>3, <4>2, <5>2
      <4> QED BY <4>1, <4>2
    <3>5. e.item[t[j]].next = After(t, m, j)
      <4>1. CASE j = p - 1
        <5>1. After(t, m, j) = dst
          BY <1>12, <4>1 DEF After
        <5> QED BY <3>1, <3>3, <4>1, <5>1
      <4>2. CASE j # p - 1
        <5>1. j # m => j + 1 \in 1 .. m /\ j + 1 # p
          BY <4>2
        <5>2. After(s, m, j) = After(t, m, j)
          BY <1>12, <5>1 DEF After
        <5> QED BY <3>1, <3>3, <4>2, <5>2
      <4> QED BY <4>1, <4>2
    <3> QED BY <3>4, <3>5
  <2> QED BY <2>1, <2>2
<1>16. Listed(e, m, t)
  BY <1>9, <1>12, <1>13, <1>14, <1>15 DEF Listed, Threaded
<1>17. \A j \in 0 .. n - 1 : j # src /\ j # dst => SameData(d, e, j)
  BY <1>10
<1>18. e.item[dst].key = d.item[src].key /\ e.item[dst].val = d.item[src].val
  BY <1>10
<1> QED
  BY <1>9, <1>10, <1>11, <1>16, <1>17, <1>18 DEF MovedTo, e, t, src

(***************************************************************************)
(* The chains, without the table: O are the occupied slots, H the heads, home and*)
(* next say where a slot's chain starts and goes on, and rank counts the slots*)
(* from the head on.  The slot loose, if there is one, has lost the slot before*)
(* it: TrySpareListHead cuts a chain in two while it moves the second part. *)
(***************************************************************************)

\* Each slot is on the chain of its home, the heads are the slots of rank 1, a slot
\* leads to the one of the next rank, no rank occurs twice on a chain, and each
\* slot that is not a head, save for the loose one, has a slot leading to it.
Linked(O, H, home, next, rank, loose) ==
  /\ H \subseteq O
  /\ \A i \in O : rank[i] \in Nat /\ rank[i] >= 1 /\ (i \in H <=> rank[i] = 1)
  /\ \A i \in O : home[i] \in H /\ (i \in H => home[i] = i)
  /\ \A i \in O : next[i] # NoSlot =>
       next[i] \in O /\ home[next[i]] = home[i] /\ rank[next[i]] = rank[i] + 1
  /\ \A i \in O : i \notin H /\ i # loose => \E j \in O : next[j] = i
  /\ \A i, j \in O : home[i] = home[j] /\ rank[i] = rank[j] => i = j

\* A slot that is not a head has a slot before it on its chain.
LEMMA LinkedPrev ==
  ASSUME NEW O, NEW H, NEW home, NEW next, NEW rank, NEW loose,
         Linked(O, H, home, next, rank, loose), NoSlot \notin O,
         NEW i \in O, i # loose, rank[i] # 1
  PROVE  \E j \in O : next[j] = i /\ home[j] = home[i] /\ rank[i] = rank[j] + 1
  BY DEF Linked

\* No two slots lead to the same one.
LEMMA LinkedUnique ==
  ASSUME NEW O, NEW H, NEW home, NEW next, NEW rank, NEW loose,
         Linked(O, H, home, next, rank, loose), NoSlot \notin O,
         NEW i \in O, NEW j \in O, next[i] = next[j], next[i] # NoSlot
  PROVE  i = j
<1>1. rank[i] \in Nat /\ rank[j] \in Nat /\ rank[i] + 1 = rank[j] + 1 /\ home[i] = home[j]
  BY DEF Linked
<1>2. rank[i] = rank[j]
  BY <1>1
<1> QED BY <1>1, <1>2 DEF Linked

\* The slot of a chain that leads nowhere has the highest rank.
LEMMA TailIsLast ==
  ASSUME NEW O, NEW H, NEW home, NEW next, NEW rank,
         Linked(O, H, home, next, rank, NoSlot), NoSlot \notin O,
         NEW i \in O, next[i] = NoSlot, NEW j \in O, home[i] = home[j]
  PROVE  rank[j] <= rank[i]
<1> DEFINE P == {p \in Nat : \A l \in O : home[i] = home[l] => rank[l] # rank[i] + 1 + p}
<1>1. rank[i] \in Nat /\ \A l \in O : rank[l] \in Nat
  BY DEF Linked
<1>2. 0 \in P
  <2> SUFFICES ASSUME NEW l \in O, home[i] = home[l], rank[l] = rank[i] + 1 PROVE FALSE
    BY <1>1
  <2>1. rank[l] # 1 BY <1>1 DEF Linked
  <2>2. PICK k \in O : next[k] = l /\ home[k] = home[l] /\ rank[l] = rank[k] + 1
    BY <2>1, LinkedPrev
  <2>3. rank[k] = rank[i]
    BY <1>1, <2>2
  <2>4. k = i
    BY <2>2, <2>3 DEF Linked
  <2> QED BY <2>2, <2>4
<1>3. \A p \in Nat : p \in P => p + 1 \in P
  <2> SUFFICES ASSUME NEW p \in Nat, p \in P, NEW l \in O, home[i] = home[l],
                      rank[l] = rank[i] + 1 + (p + 1)
               PROVE FALSE
    OBVIOUS
  <2>1. rank[l] # 1 BY <1>1 DEF Linked
  <2>2. PICK k \in O : next[k] = l /\ home[k] = home[l] /\ rank[l] = rank[k] + 1
    BY <2>1, LinkedPrev
  <2>3. rank[k] = rank[i] + 1 + p
    BY <1>1, <2>2
  <2> QED BY <2>2, <2>3
<1>4. Nat \subseteq P
  <2> HIDE DEF P
  <2> QED BY <1>2, <1>3, NatInd
<1>5. ASSUME ~ (rank[j] <= rank[i]) PROVE FALSE
  <2>1. rank[j] - rank[i] - 1 \in Nat /\ rank[j] = rank[i] + 1 + (rank[j] - rank[i] - 1)
    BY <1>1, <1>5
  <2> QED BY <1>4, <2>1
<1> QED BY <1>5

\* A new chain of one slot.
LEMMA LinkHead ==
  ASSUME NEW O, NEW H, NEW home, NEW next, NEW rank, NEW i, i \notin O, NoSlot \notin O,
         Linked(O, H, home, next, rank, NoSlot),
         NEW home2, NEW next2, NEW rank2,
         \A j \in O : home2[j] = home[j] /\ next2[j] = next[j] /\ rank2[j] = rank[j],
         home2[i] = i, next2[i] = NoSlot, rank2[i] = 1
  PROVE  Linked(O \cup {i}, H \cup {i}, home2, next2, rank2, NoSlot)
<1>1. \A j \in O \cup {i} : rank2[j] \in Nat /\ rank2[j] >= 1 /\ (j \in H \cup {i} <=> rank2[j] = 1)
  BY DEF Linked
<1>2. \A j \in O \cup {i} : home2[j] \in H \cup {i} /\ (j \in H \cup {i} => home2[j] = j)
  BY DEF Linked
<1>3. \A j \in O \cup {i} : next2[j] # NoSlot =>
        next2[j] \in O \cup {i} /\ home2[next2[j]] = home2[j] /\ rank2[next2[j]] = rank2[j] + 1
  BY DEF Linked
<1>4. \A j \in O \cup {i} : j \notin H \cup {i} /\ j # NoSlot => \E l \in O \cup {i} : next2[l] = j
  BY DEF Linked
<1>5. \A j, l \in O \cup {i} : home2[j] = home2[l] /\ rank2[j] = rank2[l] => j = l
  BY DEF Linked
<1> QED BY <1>1, <1>2, <1>3, <1>4, <1>5 DEF Linked

\* A slot is added behind the last one of a chain.
LEMMA LinkTail ==
  ASSUME NEW O, NEW H, NEW home, NEW next, NEW rank, NEW w \in O, NEW i, i \notin O, NoSlot \notin O,
         i # NoSlot, next[w] = NoSlot,
         Linked(O, H, home, next, rank, NoSlot),
         NEW home2, NEW next2, NEW rank2,
         \A j \in O : home2[j] = home[j] /\ rank2[j] = rank[j],
         \A j \in O : j # w => next2[j] = next[j],
         home2[i] = home[w], next2[w] = i, next2[i] = NoSlot, rank2[i] = rank[w] + 1
  PROVE  Linked(O \cup {i}, H, home2, next2, rank2, NoSlot)
<1>0. \A j \in O : rank[j] \in Nat /\ (home[j] = home[w] => rank[j] <= rank[w])
  <2>1. \A j \in O : rank[j] \in Nat
    BY DEF Linked
  <2>2. ASSUME NEW j \in O, home[w] = home[j] PROVE rank[j] <= rank[w]
    BY <2>2, TailIsLast
  <2> QED BY <2>1, <2>2
<1>1. \A j \in O \cup {i} : rank2[j] \in Nat /\ rank2[j] >= 1 /\ (j \in H <=> rank2[j] = 1)
  BY DEF Linked
<1>2. \A j \in O \cup {i} : home2[j] \in H /\ (j \in H => home2[j] = j)
  BY DEF Linked
<1>3. \A j \in O \cup {i} : next2[j] # NoSlot =>
        next2[j] \in O \cup {i} /\ home2[next2[j]] = home2[j] /\ rank2[next2[j]] = rank2[j] + 1
  BY DEF Linked
<1>4. \A j \in O \cup {i} : j \notin H /\ j # NoSlot => \E l \in O \cup {i} : next2[l] = j
  BY DEF Linked
<1>5. \A j, l \in O \cup {i} : home2[j] = home2[l] /\ rank2[j] = rank2[l] => j = l
  BY <1>0 DEF Linked
<1> QED BY <1>1, <1>2, <1>3, <1>4, <1>5 DEF Linked

\* The last slot of a chain goes.
LEMMA UnlinkLast ==
  ASSUME NEW O, NEW H, NEW home, NEW next, NEW rank, NEW i \in O, NoSlot \notin O,
         next[i] = NoSlot, Linked(O, H, home, next, rank, NoSlot),
         NEW home2, NEW next2,
         \A j \in O \ {i} : home2[j] = home[j],
         \A j \in O \ {i} : next2[j] = IF next[j] = i THEN NoSlot ELSE next[j]
  PROVE  Linked(O \ {i}, H \ {i}, home2, next2, rank, NoSlot)
<1>1. \A j \in O \ {i} : rank[j] \in Nat /\ rank[j] >= 1 /\ (j \in H \ {i} <=> rank[j] = 1)
  BY DEF Linked
<1>2. ASSUME NEW j \in O \ {i} PROVE home2[j] \in H \ {i} /\ (j \in H \ {i} => home2[j] = j)
  <2>1. ASSUME home[j] = i PROVE FALSE
    <3>1. i \in H /\ rank[i] = 1 /\ home[i] = i
      BY <2>1 DEF Linked
    <3>2. rank[j] <= rank[i]
      BY <2>1, <3>1, TailIsLast
    <3>3. rank[j] = rank[i]
      BY <3>1, <3>2 DEF Linked
    <3> QED BY <2>1, <3>1, <3>3 DEF Linked
  <2> QED BY <2>1 DEF Linked
<1>3. \A j \in O \ {i} : next2[j] # NoSlot =>
        next2[j] \in O \ {i} /\ home2[next2[j]] = home2[j] /\ rank[next2[j]] = rank[j] + 1
  BY DEF Linked
<1>4. \A j \in O \ {i} : j \notin H \ {i} /\ j # NoSlot => \E l \in O \ {i} : next2[l] = j
  BY DEF Linked
<1>5. \A j, l \in O \ {i} : home2[j] = home2[l] /\ rank[j] = rank[l] => j = l
  BY DEF Linked
<1> QED BY <1>1, <1>2, <1>3, <1>4, <1>5 DEF Linked

\* The node in r, behind w, moves to the free slot t, and w leads there.
LEMMA Relink ==
  ASSUME NEW O, NEW H, NEW home, NEW next, NEW rank, NEW w \in O, NEW r \in O, NEW t,
         t \notin O, NoSlot \notin O, t # NoSlot, NEW loose, loose \in {r, NoSlot},
         Linked(O, H, home, next, rank, loose), r \notin H,
         home[w] = home[r], rank[r] = rank[w] + 1,
         NEW home2, NEW next2, NEW rank2,
         \A j \in O \ {r} : home2[j] = home[j] /\ rank2[j] = rank[j],
         \A j \in O \ {r} : j # w => next2[j] = next[j],
         home2[t] = home[r], next2[w] = t, next2[t] = NoSlot, rank2[t] = rank[r]
  PROVE  Linked((O \ {r}) \cup {t}, H, home2, next2, rank2, next[r])
<1> DEFINE U == (O \ {r}) \cup {t}
<1>0. w # r /\ \A j \in O : next[j] = r => j = w
  <2>1. rank[w] \in Nat /\ w # r
    BY DEF Linked
  <2>2. ASSUME NEW j \in O, next[j] = r PROVE j = w
    <3>1. rank[j] \in Nat /\ rank[r] = rank[j] + 1 /\ home[j] = home[r]
      BY <2>2 DEF Linked
    <3>2. rank[j] = rank[w]
      BY <2>1, <3>1
    <3> QED BY <3>1, <3>2 DEF Linked
  <2> QED BY <2>1, <2>2
<1>1. \A j \in U : rank2[j] \in Nat /\ rank2[j] >= 1 /\ (j \in H <=> rank2[j] = 1)
  BY DEF Linked
<1>2. \A j \in U : home2[j] \in H /\ (j \in H => home2[j] = j)
  BY DEF Linked
<1>3. \A j \in U : next2[j] # NoSlot =>
        next2[j] \in U /\ home2[next2[j]] = home2[j] /\ rank2[next2[j]] = rank2[j] + 1
  BY <1>0 DEF Linked
<1>4. ASSUME NEW j \in U, j \notin H, j # next[r] PROVE \E l \in U : next2[l] = j
  <2>1. CASE j = t BY <1>0, <2>1
  <2>2. CASE j # t
    <3>1. PICK l \in O : next[l] = j
      BY <1>4, <2>2 DEF Linked
    <3>2. l # r BY <1>4, <3>1
    <3>3. l # w
      <4>1. ASSUME l = w PROVE FALSE
        <5>1. rank[j] = rank[w] + 1 /\ home[j] = home[w] /\ j \in O
          BY <3>1, <4>1, <2>2 DEF Linked
        <5>2. j = r
          BY <5>1 DEF Linked
        <5> QED BY <5>2, <1>4, <2>2
      <4> QED BY <4>1
    <3> QED BY <3>1, <3>2, <3>3
  <2> QED BY <2>1, <2>2
<1>5. \A j, l \in U : home2[j] = home2[l] /\ rank2[j] = rank2[l] => j = l
  BY DEF Linked
<1>6. H \subseteq U
  BY DEF Linked
<1> HIDE DEF U
<1>7. Linked(U, H, home2, next2, rank2, next[r])
  BY <1>1, <1>2, <1>3, <1>4, <1>5, <1>6 DEF Linked
<1> QED BY <1>7 DEF U

(***************************************************************************)
(* The walks along a chain and along the iteration list.                    *)
(***************************************************************************)

\* A jump leads to a slot of the table.
LEMMA AtIsSlot ==
  ASSUME NEW n \in Nat \ {0}, NEW d \in Tables(n), NEW i \in 0 .. n - 1, NEW j \in DOMAIN Probe
  PROVE  At(d, i, j) \in 0 .. n - 1
<1>1. Probe[j] \in Nat
  BY DenseMapAssumption
<1>2. d.slots = n
  BY TableFields
<1> DEFINE p == Probe[j]
<1> HIDE DEF p
<1>3. p \in Nat
  BY <1>1 DEF p
<1>4. (i + p) % n \in 0 .. n - 1
  BY <1>3
<1> QED BY <1>2, <1>4 DEF At, p

\* Both lists lead to slots of the table, or nowhere.
LEMMA NextIsSlot ==
  ASSUME NEW n \in Nat \ {0}, NEW d \in Tables(n), NEW i \in SlotOrNone(n)
  PROVE  MoveToNext(d, i) \in SlotOrNone(n) /\ IncItr(d, i) \in SlotOrNone(n)
<1>1. CASE i = NoSlot
  BY <1>1 DEF MoveToNext, IncItr, SlotOrNone
<1>2. CASE i # NoSlot
  <2>1. i \in 0 .. n - 1 /\ d.meta \in [0 .. n - 1 -> Meta] /\ d.item \in [0 .. n - 1 -> Item(n)]
    BY <1>2, TableFields DEF SlotOrNone
  <2>2. d.meta[i].jump # 0 => d.meta[i].jump \in DOMAIN Probe
    BY <2>1 DEF Meta
  <2>3. MoveToNext(d, i) \in SlotOrNone(n)
    BY <2>1, <2>2, AtIsSlot DEF MoveToNext, HasNext, SlotOrNone
  <2>4. IncItr(d, i) \in SlotOrNone(n)
    BY <1>2, <2>1 DEF IncItr, Item
  <2> QED BY <2>3, <2>4
<1> QED BY <1>1, <1>2

\* The recursive function ChainWalk, unfolded.
LEMMA ChainWalkFacts ==
  ASSUME NEW n \in Nat \ {0}, NEW d \in Tables(n), NEW i \in SlotOrNone(n)
  PROVE  LET w == ChainWalk(d, i)
         IN w[0] = i /\ \A m \in Nat : w[m + 1] = MoveToNext(d, w[m])
<1> DEFINE f == [x \in SlotOrNone(n) |-> MoveToNext(d, x)]
           IsWalk(w) == w = [m \in Nat |-> IF m = 0 THEN i ELSE MoveToNext(d, w[m - 1])]
<1>1. f \in [SlotOrNone(n) -> SlotOrNone(n)]
  BY NextIsSlot
<1>0. \A x \in SlotOrNone(n) : f[x] = MoveToNext(d, x)
  OBVIOUS
<1> HIDE DEF f
<1>2. PICK w : Iteration(w, SlotOrNone(n), i, f)
  BY <1>1, IterationExists
<1>3. IsWalk(w)
  <2>1. \A m \in Nat : w[m + 1] = MoveToNext(d, w[m])
    BY <1>0, <1>2 DEF Iteration
  <2>2. \A m \in Nat : w[m] = IF m = 0 THEN i ELSE MoveToNext(d, w[m - 1])
    <3> TAKE m \in Nat
    <3>1. CASE m = 0 BY <1>2, <3>1 DEF Iteration
    <3>2. CASE m # 0
      <4>1. m - 1 \in Nat /\ (m - 1) + 1 = m BY <3>2
      <4> QED BY <2>1, <3>2, <4>1
    <3> QED BY <3>1, <3>2
  <2>3. w \in [Nat -> SlotOrNone(n)]
    BY <1>2 DEF Iteration
  <2> QED BY <2>2, <2>3
<1>4. IsWalk(ChainWalk(d, i))
  <2>1. ChainWalk(d, i) = CHOOSE v : IsWalk(v)
    BY DEF ChainWalk
  <2> HIDE DEF IsWalk
  <2> QED BY <1>3, <2>1
<1> DEFINE u == ChainWalk(d, i)
<1>5. u = [m \in Nat |-> IF m = 0 THEN i ELSE MoveToNext(d, u[m - 1])]
  BY <1>4
<1> HIDE DEF u
<1>6. u[0] = i
  BY <1>5
<1>7. ASSUME NEW m \in Nat PROVE u[m + 1] = MoveToNext(d, u[m])
  <2>1. m + 1 \in Nat /\ m + 1 # 0 /\ (m + 1) - 1 = m
    OBVIOUS
  <2>2. u[m + 1] = MoveToNext(d, u[(m + 1) - 1])
    BY <1>5, <2>1
  <2> QED BY <2>1, <2>2
<1> QED BY <1>6, <1>7 DEF u
\* The recursive function IterWalk, unfolded.
LEMMA IterWalkFacts ==
  ASSUME NEW n \in Nat \ {0}, NEW d \in Tables(n), NEW i \in SlotOrNone(n)
  PROVE  LET w == IterWalk(d, i)
         IN w[0] = i /\ \A m \in Nat : w[m + 1] = IncItr(d, w[m])
<1> DEFINE f == [x \in SlotOrNone(n) |-> IncItr(d, x)]
           IsWalk(w) == w = [m \in Nat |-> IF m = 0 THEN i ELSE IncItr(d, w[m - 1])]
<1>1. f \in [SlotOrNone(n) -> SlotOrNone(n)]
  BY NextIsSlot
<1>0. \A x \in SlotOrNone(n) : f[x] = IncItr(d, x)
  OBVIOUS
<1> HIDE DEF f
<1>2. PICK w : Iteration(w, SlotOrNone(n), i, f)
  BY <1>1, IterationExists
<1>3. IsWalk(w)
  <2>1. \A m \in Nat : w[m + 1] = IncItr(d, w[m])
    BY <1>0, <1>2 DEF Iteration
  <2>2. \A m \in Nat : w[m] = IF m = 0 THEN i ELSE IncItr(d, w[m - 1])
    <3> TAKE m \in Nat
    <3>1. CASE m = 0 BY <1>2, <3>1 DEF Iteration
    <3>2. CASE m # 0
      <4>1. m - 1 \in Nat /\ (m - 1) + 1 = m BY <3>2
      <4> QED BY <2>1, <3>2, <4>1
    <3> QED BY <3>1, <3>2
  <2>3. w \in [Nat -> SlotOrNone(n)]
    BY <1>2 DEF Iteration
  <2> QED BY <2>2, <2>3
<1>4. IsWalk(IterWalk(d, i))
  <2>1. IterWalk(d, i) = CHOOSE v : IsWalk(v)
    BY DEF IterWalk
  <2> HIDE DEF IsWalk
  <2> QED BY <1>3, <2>1
<1> DEFINE u == IterWalk(d, i)
<1>5. u = [m \in Nat |-> IF m = 0 THEN i ELSE IncItr(d, u[m - 1])]
  BY <1>4
<1> HIDE DEF u
<1>6. u[0] = i
  BY <1>5
<1>7. ASSUME NEW m \in Nat PROVE u[m + 1] = IncItr(d, u[m])
  <2>1. m + 1 \in Nat /\ m + 1 # 0 /\ (m + 1) - 1 = m
    OBVIOUS
  <2>2. u[m + 1] = IncItr(d, u[(m + 1) - 1])
    BY <1>5, <2>1
  <2> QED BY <2>1, <2>2
<1> QED BY <1>6, <1>7 DEF u

(***************************************************************************)
(* The chains of a table, and what Chain returns.  A walk ends because ranks rise*)
(* and no two slots of a chain have the same one.                           *)
(***************************************************************************)

\* The slot the key in a slot hashes to.
HomeOf(d) == [i \in Slots(d) |-> Home(d, d.item[i].key)]
\* The slot behind a slot on its chain.
NextOf(d) == [i \in Slots(d) |-> MoveToNext(d, i)]
\* The slots where a chain starts.
Heads(d) == {i \in Occupied(d) : d.meta[i].kind = "head"}
\* The chains of d are in order, but for the slot loose.
Chained(d, rank, loose) ==
  Linked(Occupied(d), Heads(d), HomeOf(d), NextOf(d), rank, loose)

\* Visited returns the first len slots of the walk w.
VisitedIs(d, w, len) ==
  /\ Visited(d, w) = [k \in 1 .. len |-> w[k - 1]]

\* A walk that ends after len slots, within the table, has visited them.
LEMMA VisitedFacts ==
  ASSUME NEW n \in Nat \ {0}, NEW d \in Tables(n), NEW w, NEW len \in 0 .. n,
         w[len] = NoSlot, \A m \in 0 .. len - 1 : w[m] # NoSlot
  PROVE  VisitedIs(d, w, len)
<1> DEFINE Fits(l) == /\ w[l] = NoSlot \/ l = n
                      /\ \A m \in 0 .. l - 1 : w[m] # NoSlot
           len2 == CHOOSE l \in 0 .. n : Fits(l)
<1>1. d.slots = n
  BY TableFields
<1>2. ASSUME NEW l \in 0 .. n, Fits(l) PROVE l = len
  <2>1. ~ (l < len)
    BY <1>2
  <2>2. ~ (len < l)
    BY <1>2
  <2> QED BY <2>1, <2>2
<1>3. Fits(len)
  OBVIOUS
<1>4. len2 = len
  <2> HIDE DEF Fits
  <2> QED BY <1>2, <1>3
<1>5. Visited(d, w) = [k \in 1 .. len2 |-> w[k - 1]]
  BY <1>1 DEF Visited
<1> HIDE DEF len2
<1> QED BY <1>4, <1>5 DEF VisitedIs

\* c, of length len, is the chain from slot i on: each slot leads to the next, all
\* have the home of i, and no slot with that home and a rank from that of i on is
\* missing.
IsChain(d, rank, i, c, len) ==
  /\ len \in Nat \ {0} /\ c \in [1 .. len -> Slots(d)] /\ c[1] = i
  /\ \A j \in 1 .. len : MoveToNext(d, c[j]) = After(c, len, j)
  /\ \A j \in 1 .. len : /\ c[j] \in Occupied(d) /\ HomeOf(d)[c[j]] = HomeOf(d)[i]
                         /\ rank[c[j]] = rank[i] + j - 1
  /\ \A x \in Occupied(d) : HomeOf(d)[x] = HomeOf(d)[i] /\ rank[x] >= rank[i] =>
       \E j \in 1 .. len : c[j] = x

\* Chain returns the chain from slot i on: the walk ends.
LEMMA ChainFacts ==
  ASSUME NEW n \in Nat \ {0}, NEW d \in Tables(n), NEW rank, Chained(d, rank, NoSlot),
         NEW i \in Occupied(d)
  PROVE  \E len : IsChain(d, rank, i, Chain(d, i), len)
<1> DEFINE w == ChainWalk(d, i)
           O == Occupied(d)
           home == HomeOf(d)
<1>0. /\ O \subseteq 0 .. n - 1 /\ NoSlot \notin 0 .. n - 1 /\ i \in SlotOrNone(n)
      /\ i \in O /\ Slots(d) = 0 .. n - 1
  BY TableFields DEF Occupied, SlotOrNone
<1>1. w[0] = i /\ \A m \in Nat : w[m + 1] = MoveToNext(d, w[m])
  BY <1>0, ChainWalkFacts
<1> HIDE DEF w
<1>2. /\ \A x \in O : rank[x] \in Nat /\ rank[x] >= 1
      /\ \A x \in O : MoveToNext(d, x) # NoSlot =>
           /\ MoveToNext(d, x) \in O /\ home[MoveToNext(d, x)] = home[x]
           /\ rank[MoveToNext(d, x)] = rank[x] + 1
      /\ \A x, y \in O : home[x] = home[y] /\ rank[x] = rank[y] => x = y
  <2>1. \A x \in O : NextOf(d)[x] = MoveToNext(d, x)
    BY <1>0 DEF NextOf
  <2> QED BY <2>1 DEF Chained, Linked
<1> HIDE DEF O, home
<1> DEFINE On(m) == w[m] \in O /\ home[w[m]] = home[i] /\ rank[w[m]] = rank[i] + m
           S == {m \in Nat : w[m] = NoSlot \/ On(m)}
<1>3. Nat \subseteq S
  <2>1. On(0)
    <3>1. rank[i] \in Nat
      BY <1>0, <1>2
    <3>2. w[0] = i
      BY <1>1
    <3> QED BY <1>0, <3>1, <3>2
  <2>0. 0 \in S
    BY <2>1
  <2>2. \A m \in Nat : m \in S => m + 1 \in S
    <3> SUFFICES ASSUME NEW m \in Nat, m \in S, w[m + 1] # NoSlot PROVE On(m + 1)
      OBVIOUS
    <3>1. w[m] # NoSlot
      BY <1>1 DEF MoveToNext
    <3>2. On(m)
      BY <3>1
    <3>3. w[m + 1] = MoveToNext(d, w[m])
      BY <1>1
    <3>4. /\ w[m + 1] \in O /\ home[w[m + 1]] = home[w[m]]
          /\ rank[w[m + 1]] = rank[w[m]] + 1
      BY <1>2, <3>2, <3>3
    <3>5. rank[i] \in Nat
      BY <1>0, <1>2
    <3> QED BY <3>2, <3>4, <3>5
  <2> HIDE DEF S
  <2> QED BY <2>0, <2>2, NatInd
<1>4. \A m \in Nat : w[m] = NoSlot \/ On(m)
  BY <1>3
<1> HIDE DEF S
<1>5. \E m \in 0 .. n : w[m] = NoSlot
  <2> SUFFICES ASSUME \A m \in 0 .. n : w[m] # NoSlot PROVE FALSE
    OBVIOUS
  <2> DEFINE f == [m \in 0 .. n |-> w[m]]
  <2>1. f \in [0 .. n -> 0 .. n - 1]
    <3>1. \A m \in 0 .. n : w[m] \in 0 .. n - 1
      <4> TAKE m \in 0 .. n
      <4>1. On(m)
        BY <1>4
      <4> QED BY <1>0, <4>1
    <3> QED BY <3>1
  <2>2. IsFiniteSet(0 .. n) /\ Cardinality(0 .. n) = n + 1
    BY FS_Interval
  <2>3. IsFiniteSet(0 .. n - 1) /\ Cardinality(0 .. n - 1) = n
    BY FS_Interval
  <2>4. \E x, y \in 0 .. n : x # y /\ f[x] = f[y]
    <3> HIDE DEF f
    <3> DEFINE A == 0 .. n
               B == 0 .. n - 1
    <3>1. IsFiniteSet(A) /\ IsFiniteSet(B) /\ Cardinality(B) < Cardinality(A) /\ f \in [A -> B]
      BY <2>1, <2>2, <2>3
    <3> HIDE DEF A, B
    <3>2. \E x, y \in A : x # y /\ f[x] = f[y]
      BY <3>1, FS_PigeonHole
    <3> QED BY <3>2 DEF A
  <2>5. PICK x \in 0 .. n, y \in 0 .. n : x # y /\ w[x] = w[y]
    BY <2>4
  <2>6. rank[i] + x = rank[i] + y
    BY <1>4, <2>5
  <2> QED BY <1>0, <1>2, <2>5, <2>6
<1>6. PICK len \in {m \in 0 .. n : w[m] = NoSlot} : \A m \in {l \in 0 .. n : w[l] = NoSlot} : len <= m
  <2> DEFINE T == {m \in 0 .. n : w[m] = NoSlot}
  <2>1. T \subseteq Nat /\ T # {}
    BY <1>5
  <2> HIDE DEF T
  <2>2. \E m \in T : \A l \in T : m <= l
    BY <2>1, Least
  <2> QED BY <2>2 DEF T
<1>7. /\ len \in Nat \ {0} /\ len <= n /\ w[len] = NoSlot
      /\ \A m \in 0 .. len - 1 : w[m] # NoSlot
  <2>1. w[0] # NoSlot BY <1>0, <1>1
  <2> QED BY <1>6, <2>1
<1> DEFINE c == [k \in 1 .. len |-> w[k - 1]]
<1>8. Chain(d, i) = c
  <2>1. VisitedIs(d, w, len)
    BY <1>7, VisitedFacts
  <2> QED BY <2>1 DEF VisitedIs, Chain, w
<1>9. c[1] = i /\ \A j \in 1 .. len : c[j] = w[j - 1] /\ On(j - 1)
  <2>1. c[1] = i
    BY <1>1, <1>7
  <2>2. ASSUME NEW j \in 1 .. len PROVE c[j] = w[j - 1] /\ On(j - 1)
    <3>1. j - 1 \in Nat /\ j - 1 \in 0 .. len - 1 /\ c[j] = w[j - 1]
      BY <1>7
    <3> HIDE DEF c
    <3> QED BY <1>4, <1>7, <3>1
  <2> QED BY <2>1, <2>2
<1>10. c \in [1 .. len -> Slots(d)]
  BY <1>0, <1>9
<1>11. \A j \in 1 .. len : MoveToNext(d, c[j]) = After(c, len, j)
  <2> TAKE j \in 1 .. len
  <2>1. MoveToNext(d, c[j]) = w[j]
    BY <1>1, <1>9
  <2>2. CASE j = len BY <2>1, <2>2, <1>7 DEF After
  <2>3. CASE j # len
    <3>1. c[j + 1] = w[j]
      BY <2>3
    <3> QED BY <2>1, <2>3, <3>1 DEF After
  <2> QED BY <2>2, <2>3
<1>12. ASSUME NEW x \in O, home[x] = home[i], rank[x] >= rank[i]
       PROVE  \E j \in 1 .. len : c[j] = x
  <2>1. c[len] \in O /\ home[c[len]] = home[i] /\ rank[c[len]] = rank[i] + len - 1 /\ MoveToNext(d, c[len]) = NoSlot
    BY <1>7, <1>9, <1>11 DEF After
  <2>2. rank[x] <= rank[c[len]]
    <3>1. NextOf(d)[c[len]] = NoSlot
      BY <1>0, <2>1 DEF NextOf
    <3>2. NoSlot \notin O BY <1>0
    <3> QED BY <1>12, <2>1, <3>1, <3>2, TailIsLast DEF Chained, O, home
  <2> DEFINE j == rank[x] - rank[i] + 1
  <2>3. j \in 1 .. len
    BY <1>2, <1>0, <1>7, <1>12, <2>1, <2>2
  <2>4. rank[c[j]] = rank[x] /\ home[c[j]] = home[x] /\ c[j] \in O
    BY <1>2, <1>0, <1>9, <1>12, <2>3
  <2>5. c[j] = x
    BY <1>2, <1>12, <2>4
  <2> QED BY <2>3, <2>5
<1> HIDE DEF c
<1>13. \A j \in 1 .. len : c[j] \in O /\ home[c[j]] = home[i] /\ rank[c[j]] = rank[i] + j - 1
  BY <1>2, <1>0, <1>9
<1>14. IsChain(d, rank, i, c, len)
  BY <1>7, <1>9, <1>10, <1>11, <1>12, <1>13 DEF IsChain, O, home
<1> QED BY <1>8, <1>14

(***************************************************************************)
(* What iterating, searching and FindPrev return.                           *)
(***************************************************************************)

\* A function on 1 .. len is a sequence of that length.
LEMMA LenIs ==
  ASSUME NEW S, NEW len \in Nat, NEW c \in [1 .. len -> S]
  PROVE  c \in Seq(S) /\ Len(c) = len /\ DOMAIN c = 1 .. len
  OBVIOUS

\* The pairs in the slots of s.
Along(d, m, s) == [j \in 1 .. m |-> <<d.item[s[j]].key, d.item[s[j]].val>>]
\* Iterating d visits s and yields the pairs there.
ItemsAre(d, m, s) == IterFrom(d, d.head) = s /\ Items(d) = Along(d, m, s)

\* No list is longer than the table.
LEMMA ListFits ==
  ASSUME NEW n \in Nat \ {0}, NEW m \in Nat, NEW s \in [1 .. m -> 0 .. n - 1], Injective(s, m)
  PROVE  m <= n
<1> DEFINE A == 1 .. m
           B == 0 .. n - 1
<1>1. IsFiniteSet(A) /\ IsFiniteSet(B) /\ Cardinality(A) = m /\ Cardinality(B) = n
  <2>1. IsFiniteSet(A) /\ Cardinality(A) = m
    BY FS_Interval
  <2>2. IsFiniteSet(B) /\ Cardinality(B) = n
    BY FS_Interval
  <2> QED BY <2>1, <2>2
<1>2. \A x, y \in A : s[x] = s[y] => x = y
  BY DEF Injective
<1>3. s \in [A -> B]
  OBVIOUS
<1>4. Cardinality(A) \in Nat /\ Cardinality(B) \in Nat
  BY <1>1
<1> HIDE DEF A, B
<1>5. ~ (Cardinality(B) < Cardinality(A))
  BY <1>1, <1>2, <1>3, FS_PigeonHole
<1> QED BY <1>1, <1>5

\* Iterating a table from begin() to end() visits its list.
LEMMA ItemsFacts ==
  ASSUME NEW n \in Nat \ {0}, NEW d \in Tables(n), NEW m \in Nat,
         NEW s \in [1 .. m -> 0 .. n - 1], Listed(d, m, s)
  PROVE  ItemsAre(d, m, s)
<1> DEFINE w == IterWalk(d, d.head)
<1>0. m <= n /\ NoSlot \notin 0 .. n - 1 /\ d.head \in SlotOrNone(n)
  BY ListFits, TableFields DEF Listed
<1>1. w[0] = d.head /\ \A q \in Nat : w[q + 1] = IncItr(d, w[q])
  BY <1>0, IterWalkFacts
<1> HIDE DEF w
<1>2. /\ d.head = IF m = 0 THEN NoSlot ELSE s[1]
      /\ \A j \in 1 .. m : d.item[s[j]].next = After(s, m, j)
  BY DEF Listed, Ends, Threaded
<1> DEFINE S == {q \in Nat : q <= m => w[q] = IF q = m THEN NoSlot ELSE s[q + 1]}
<1>3. 0 \in S
  BY <1>1, <1>2
<1>4. \A q \in Nat : q \in S => q + 1 \in S
  <2> SUFFICES ASSUME NEW q \in Nat, q \in S PROVE q + 1 \in S
    OBVIOUS
  <2>0. q <= m => w[q] = IF q = m THEN NoSlot ELSE s[q + 1]
    OBVIOUS
  <2> SUFFICES ASSUME q + 1 <= m
               PROVE  w[q + 1] = IF q + 1 = m THEN NoSlot ELSE s[(q + 1) + 1]
    OBVIOUS
  <2>1. w[q] = s[q + 1] /\ q + 1 \in 1 .. m
    OBVIOUS
  <2>2. s[q + 1] # NoSlot
    BY <1>0, <2>1
  <2>3. w[q + 1] = After(s, m, q + 1)
    BY <1>1, <1>2, <2>1, <2>2 DEF IncItr
  <2> QED BY <2>3 DEF After
<1>5. Nat \subseteq S
  <2> HIDE DEF S
  <2> QED BY <1>3, <1>4, NatInd
<1>6. \A q \in 0 .. m : w[q] = IF q = m THEN NoSlot ELSE s[q + 1]
  BY <1>5
<1> HIDE DEF S
<1>7. m \in 0 .. n /\ w[m] = NoSlot /\ \A q \in 0 .. m - 1 : w[q] # NoSlot
  <2>1. w[m] = NoSlot
    BY <1>6
  <2>2. ASSUME NEW q \in 0 .. m - 1 PROVE w[q] # NoSlot
    BY <1>0, <1>6
  <2> QED BY <1>0, <2>1, <2>2
<1>8. VisitedIs(d, w, m)
  BY <1>7, VisitedFacts
<1>9. [k \in 1 .. m |-> w[k - 1]] = s
  <2>1. \A k \in 1 .. m : k - 1 \in 0 .. m /\ k - 1 # m /\ (k - 1) + 1 = k
    OBVIOUS
  <2> QED BY <1>6, <2>1
<1>10. IterFrom(d, d.head) = s
  BY <1>8, <1>9 DEF VisitedIs, IterFrom, w
<1>11. Items(d) = Along(d, m, s)
  <2>1. DOMAIN s = 1 .. m
    OBVIOUS
  <2> QED BY <1>10, <2>1 DEF Items, Along
<1> QED BY <1>10, <1>11 DEF ItemsAre

\* A key hashes to a slot of the table.
LEMMA HomeIsSlot ==
  ASSUME NEW n \in Nat \ {0}, NEW d \in Tables(n), NEW k \in Key
  PROVE  Home(d, k) \in 0 .. n - 1
<1>1. Hash[k] \in 0 .. HashSpan - 1 /\ HashSpan \in Nat \ {0} /\ d.slots = n
  BY DenseMapAssumption, TableFields
<1> DEFINE h == Hash[k]
<1> HIDE DEF h
<1>2. h \in 0 .. HashSpan - 1
  BY <1>1 DEF h
<1>3. (h * n) \div HashSpan \in 0 .. n - 1
  BY <1>1, <1>2
<1> QED BY <1>1, <1>3 DEF Home, h

\* No key is in two slots.
DistinctKeys(d) ==
  \A i, j \in Occupied(d) : d.item[i].key = d.item[j].key => i = j

\* i is what a search for k should return.
Found(d, k, i) ==
  IF i = NoSlot THEN \A j \in Occupied(d) : d.item[j].key # k
  ELSE i \in Occupied(d) /\ d.item[i].key = k

\* Search finds a key if and only if some slot has it.
LEMMA SearchFacts ==
  ASSUME NEW n \in Nat \ {0}, NEW d \in Tables(n), NEW rank, Chained(d, rank, NoSlot),
         d.size = 0 => Occupied(d) = {}, NEW k \in Key
  PROVE  Found(d, k, Search(d, k))
<1> DEFINE h == Home(d, k)
           found == IF d.size = 0 \/ ~IsHead(d, h) THEN {}
                    ELSE {i \in Range(Chain(d, h)) : d.item[i].key = k}
<1>1. h \in 0 .. n - 1 /\ Slots(d) = 0 .. n - 1 /\ NoSlot \notin 0 .. n - 1
  BY HomeIsSlot, TableFields
<1>2. ASSUME NEW i \in found PROVE i \in Occupied(d) /\ d.item[i].key = k
  <2>1. IsHead(d, h) /\ i \in Range(Chain(d, h)) /\ d.item[i].key = k
    BY <1>2
  <2>2. h \in Occupied(d)
    BY <1>1, <2>1 DEF Occupied, IsHead
  <2>3. PICK len : IsChain(d, rank, h, Chain(d, h), len)
    BY <2>2, ChainFacts
  <2>4. PICK j \in DOMAIN Chain(d, h) : Chain(d, h)[j] = i
    BY <2>1 DEF Range
  <2>5. i \in Occupied(d)
    BY <2>3, <2>4 DEF IsChain
  <2> QED BY <2>1, <2>5
<1>3. ASSUME NEW i \in Occupied(d), d.item[i].key = k PROVE i \in found
  <2>1. i \in Slots(d) /\ HomeOf(d)[i] = h /\ d.size # 0
    BY <1>3 DEF HomeOf, Occupied
  <2>2. h \in Heads(d) /\ rank[h] = 1 /\ rank[i] >= 1 /\ HomeOf(d)[h] = h
    BY <2>1 DEF Chained, Linked
  <2>3. h \in Occupied(d) /\ IsHead(d, h)
    BY <2>2 DEF Heads, IsHead
  <2>4. PICK len : IsChain(d, rank, h, Chain(d, h), len)
    BY <2>3, ChainFacts
  <2>5. \E j \in 1 .. len : Chain(d, h)[j] = i
    BY <2>1, <2>2, <2>4 DEF IsChain
  <2>6. i \in Range(Chain(d, h))
    BY <2>4, <2>5 DEF IsChain, Range
  <2> QED BY <1>3, <2>1, <2>3, <2>6
<1>4. Search(d, k) = IF found = {} THEN NoSlot ELSE CHOOSE i \in found : TRUE
  BY DEF Search
<1> HIDE DEF found
<1>5. CASE found = {}
  BY <1>3, <1>4, <1>5 DEF Found
<1>6. CASE found # {}
  <2>1. Search(d, k) \in found
    BY <1>4, <1>6
  <2>2. Search(d, k) # NoSlot
    BY <1>1, <1>2, <2>1 DEF Occupied
  <2> QED BY <1>2, <2>1, <2>2 DEF Found
<1> QED BY <1>5, <1>6

\* Slot p leads to slot i, one rank further on the same chain.
Leads(d, rank, p, i) ==
  p \in Occupied(d) /\ NextOf(d)[p] = i /\ HomeOf(d)[p] = HomeOf(d)[i] /\ rank[i] = rank[p] + 1

\* FindPrev of a slot that is not a head returns the slot that leads to it.
LEMMA FindPrevFacts ==
  ASSUME NEW n \in Nat \ {0}, NEW d \in Tables(n), NEW rank, Chained(d, rank, NoSlot),
         NEW i \in Occupied(d), i \notin Heads(d)
  PROVE  Leads(d, rank, FindPrev(d, i), i)
<1> DEFINE h == Home(d, d.item[i].key)
           c == Chain(d, h)
<1>1. i \in Slots(d) /\ HomeOf(d)[i] = h
  BY DEF HomeOf, Occupied
<1>2. h \in Heads(d) /\ rank[h] = 1 /\ rank[i] \in Nat /\ rank[i] >= 1 /\ HomeOf(d)[h] = h
  BY <1>1 DEF Chained, Linked
<1>3. h \in Occupied(d)
  BY <1>2 DEF Heads
<1>4. PICK len : IsChain(d, rank, h, c, len)
  BY <1>3, ChainFacts
<1>5. PICK q \in 1 .. len : c[q] = i
  BY <1>1, <1>2, <1>4 DEF IsChain
<1>6. FindPrev(d, i) = c[(CHOOSE j \in DOMAIN c : c[j] = i) - 1]
  BY DEF FindPrev
<1> HIDE DEF c, h
<1>7. /\ len \in Nat \ {0} /\ DOMAIN c = 1 .. len /\ c[1] = h
      /\ \A j \in 1 .. len : MoveToNext(d, c[j]) = After(c, len, j)
      /\ \A j \in 1 .. len : /\ c[j] \in Occupied(d) /\ HomeOf(d)[c[j]] = h
                             /\ rank[c[j]] = 1 + j - 1
  BY <1>2, <1>4 DEF IsChain
<1>8. ASSUME NEW j \in 1 .. len, c[j] = i PROVE j = q
  BY <1>5, <1>7, <1>8
<1>9. (CHOOSE j \in DOMAIN c : c[j] = i) = q
  BY <1>5, <1>7, <1>8
<1>10. q # 1
  BY <1>2, <1>5, <1>7
<1> DEFINE p == c[q - 1]
<1>11. q - 1 \in 1 .. len /\ q - 1 # len
  BY <1>7, <1>10
<1>12. p \in Occupied(d) /\ MoveToNext(d, p) = i /\ HomeOf(d)[p] = h /\ rank[i] = rank[p] + 1
  BY <1>5, <1>7, <1>11 DEF After
<1>13. NextOf(d)[p] = i
  BY <1>12 DEF NextOf, Occupied
<1> QED BY <1>1, <1>6, <1>9, <1>12, <1>13 DEF Leads

(***************************************************************************)
(* What each write to a slot changes and leaves alone.                      *)
(***************************************************************************)

\* The table has as many slots, and its list the same ends.
SameEnds(d, e) == e.slots = d.slots /\ e.head = d.head /\ e.tail = d.tail

\* Slot i holds a fresh node.
NodeAdded(d, e, n, i, k, kind) ==
  /\ e \in Tables(n) /\ SameEnds(d, e) /\ e.size = d.size + 1
  /\ e.meta[i] = [kind |-> kind, jump |-> 0]
  /\ e.item[i].key = k /\ e.item[i].val = NoValue
  /\ \A j \in 0 .. n - 1 : j # i => e.meta[j] = d.meta[j] /\ e.item[j] = d.item[j]

\* NewNode changes one slot and the size.
LEMMA NewNodeFacts ==
  ASSUME NEW n \in Nat \ {0}, NEW d \in Tables(n), NEW i \in 0 .. n - 1, NEW k \in Key,
         NEW kind \in {"head", "body"}
  PROVE  NodeAdded(d, NewNode(d, i, k, kind), n, i, k, kind)
<1> DEFINE x == [NoItem EXCEPT !.key = k]
           y == [kind |-> kind, jump |-> 0]
           item == [d.item EXCEPT ![i] = x]
           meta == [d.meta EXCEPT ![i] = y]
           e == [layout |-> "dense", slots |-> n, size |-> d.size + 1, head |-> d.head,
                 tail |-> d.tail, meta |-> meta, item |-> item]
<1>1. x \in Item(n) /\ x.key = k /\ x.val = NoValue
  BY DEF NoItem, Item, SlotOrNone
<1>2. y \in Meta
  BY DEF Meta
<1>3. NewNode(d, i, k, kind) = [d EXCEPT !.meta[i] = y, !.item[i] = x, !.size = @ + 1]
  BY DEF NewNode
<1> HIDE DEF x, y
<1>4. NewNode(d, i, k, kind) = e
  BY <1>3 DEF Tables
<1>5. d.item \in [0 .. n - 1 -> Item(n)] /\ d.meta \in [0 .. n - 1 -> Meta] /\ d.slots = n
      /\ d.head \in SlotOrNone(n) /\ d.tail \in SlotOrNone(n) /\ d.size + 1 \in Nat
  BY TableFields
<1>6. item \in [0 .. n - 1 -> Item(n)] /\ meta \in [0 .. n - 1 -> Meta]
  BY <1>1, <1>2, <1>5
<1>7. item[i] = x /\ meta[i] = y
      /\ \A j \in 0 .. n - 1 : j # i => item[j] = d.item[j] /\ meta[j] = d.meta[j]
  BY <1>5
<1> HIDE DEF item, meta
<1>8. e \in Tables(n)
  BY <1>5, <1>6, IsTable
<1>9. NodeAdded(d, e, n, i, k, kind)
  <2>1. e.size = d.size + 1 /\ SameEnds(d, e) /\ e.meta = meta /\ e.item = item
    BY <1>5 DEF SameEnds
  <2> HIDE DEF e
  <2> QED BY <1>1, <1>7, <1>8, <2>1 DEF NodeAdded, y
<1> QED BY <1>4, <1>9

\* e is d with another jump in slot i.
JumpSet(d, e, n, i, jump) ==
  /\ e \in Tables(n) /\ SameEnds(d, e) /\ e.size = d.size /\ e.item = d.item
  /\ e.meta[i] = [kind |-> d.meta[i].kind, jump |-> jump]
  /\ \A j \in 0 .. n - 1 : j # i => e.meta[j] = d.meta[j]

\* SetJump changes the jump of one slot.
LEMMA SetJumpFacts ==
  ASSUME NEW n \in Nat \ {0}, NEW d \in Tables(n), NEW i \in 0 .. n - 1,
         NEW jump \in {0} \cup DOMAIN Probe
  PROVE  JumpSet(d, SetJump(d, i, jump), n, i, jump)
<1> DEFINE meta == [d.meta EXCEPT ![i].jump = jump]
           e == [layout |-> "dense", slots |-> n, size |-> d.size, head |-> d.head,
                 tail |-> d.tail, meta |-> meta, item |-> d.item]
<1>1. d.item \in [0 .. n - 1 -> Item(n)] /\ d.meta \in [0 .. n - 1 -> Meta] /\ d.slots = n
      /\ d.head \in SlotOrNone(n) /\ d.tail \in SlotOrNone(n) /\ d.size \in Nat
  BY TableFields
<1>2. SetJump(d, i, jump) = e
  <2> DEFINE f == [d EXCEPT !.meta[i].jump = jump]
  <2>0. f = [d EXCEPT !.meta[i].jump = jump]
    OBVIOUS
  <2> HIDE DEF f
  <2>1. f = [layout |-> d.layout, slots |-> d.slots, size |-> f.size, head |-> d.head,
             tail |-> d.tail, meta |-> f.meta, item |-> f.item]
    BY <2>0 DEF Tables
  <2>2. f.size = d.size
    BY <2>0 DEF Tables
  <2>3. f.meta = meta
    BY <2>0 DEF Tables
  <2>4. f.item = d.item
    BY <2>0 DEF Tables
  <2>5. d.layout = "dense" /\ d.slots = n
    BY DEF Tables
  <2> QED BY <2>0, <2>1, <2>2, <2>3, <2>4, <2>5 DEF SetJump
<1>3. meta[i] = [kind |-> d.meta[i].kind, jump |-> jump]
  <2>1. meta[i] = [d.meta[i] EXCEPT !.jump = jump]
    BY <1>1
  <2>2. d.meta[i] \in Meta
    BY <1>1
  <2> QED BY <2>1, <2>2 DEF Meta
<1>4. meta \in [0 .. n - 1 -> Meta]
  <2>1. [d.meta[i] EXCEPT !.jump = jump] \in Meta
    BY <1>1 DEF Meta
  <2> QED BY <1>1, <2>1
<1>5. \A j \in 0 .. n - 1 : j # i => meta[j] = d.meta[j]
  BY <1>1
<1> HIDE DEF meta
<1>6. e \in Tables(n)
  BY <1>1, <1>4, IsTable
<1>7. e.size = d.size /\ SameEnds(d, e) /\ e.meta = meta /\ e.item = d.item
  BY <1>1 DEF SameEnds
<1> HIDE DEF e
<1> QED BY <1>2, <1>3, <1>5, <1>6, <1>7 DEF JumpSet

\* e is d with slot i empty.
Freed(d, e, n, i) ==
  /\ e \in Tables(n) /\ SameEnds(d, e) /\ e.size = d.size
  /\ e.meta[i] = Empty /\ e.item[i] = NoItem
  /\ \A j \in 0 .. n - 1 : j # i => e.meta[j] = d.meta[j] /\ e.item[j] = d.item[j]

\* The two tags of a slot without a node.
LEMMA EmptyIsMeta == Empty \in Meta /\ Protected \in Meta
  BY DEF Empty, Protected, Meta

\* Freeing a slot changes that slot.
LEMMA FreeFacts ==
  ASSUME NEW n \in Nat \ {0}, NEW d \in Tables(n), NEW i \in 0 .. n - 1
  PROVE  Freed(d, [d EXCEPT !.meta[i] = Empty, !.item[i] = NoItem], n, i)
<1> DEFINE item == [d.item EXCEPT ![i] = NoItem]
           meta == [d.meta EXCEPT ![i] = Empty]
           e == [layout |-> "dense", slots |-> n, size |-> d.size, head |-> d.head,
                 tail |-> d.tail, meta |-> meta, item |-> item]
<1>4. [d EXCEPT !.meta[i] = Empty, !.item[i] = NoItem] = e
  <2> DEFINE f == [d EXCEPT !.meta[i] = Empty, !.item[i] = NoItem]
  <2>0. f = [d EXCEPT !.meta[i] = Empty, !.item[i] = NoItem]
    OBVIOUS
  <2> HIDE DEF f
  <2>1. f = [layout |-> d.layout, slots |-> d.slots, size |-> f.size, head |-> d.head,
             tail |-> d.tail, meta |-> f.meta, item |-> f.item]
    BY <2>0 DEF Tables
  <2>2. f.size = d.size
    BY <2>0 DEF Tables
  <2>3. f.meta = meta
    BY <2>0 DEF Tables
  <2>4. f.item = item
    BY <2>0 DEF Tables
  <2>5. d.layout = "dense" /\ d.slots = n
    BY DEF Tables
  <2> QED BY <2>0, <2>1, <2>2, <2>3, <2>4, <2>5
<1>5. d.item \in [0 .. n - 1 -> Item(n)] /\ d.meta \in [0 .. n - 1 -> Meta] /\ d.slots = n
      /\ d.head \in SlotOrNone(n) /\ d.tail \in SlotOrNone(n) /\ d.size \in Nat
  BY TableFields
<1>6. item \in [0 .. n - 1 -> Item(n)] /\ meta \in [0 .. n - 1 -> Meta]
  BY NoItemIsItem, EmptyIsMeta, <1>5
<1>7. item[i] = NoItem /\ meta[i] = Empty
      /\ \A j \in 0 .. n - 1 : j # i => item[j] = d.item[j] /\ meta[j] = d.meta[j]
  BY <1>5
<1> HIDE DEF item, meta
<1>8. e \in Tables(n)
  BY <1>5, <1>6, IsTable
<1>9. e.size = d.size /\ SameEnds(d, e) /\ e.meta = meta /\ e.item = item
  BY <1>5 DEF SameEnds
<1> HIDE DEF e
<1> QED BY <1>4, <1>7, <1>8, <1>9 DEF Freed

\* e is d with another size.
Resized(d, e, n, z) ==
  /\ e \in Tables(n) /\ SameEnds(d, e) /\ e.size = z /\ e.meta = d.meta /\ e.item = d.item

\* Decrementing the size changes nothing else.
LEMMA ResizeFacts ==
  ASSUME NEW n \in Nat \ {0}, NEW d \in Tables(n), d.size # 0
  PROVE  Resized(d, [d EXCEPT !.size = @ - 1], n, d.size - 1)
  BY TableFields DEF Tables, Resized, SameEnds

\* e is d with the value v in slot i.
ValSet(d, e, n, i, v) ==
  /\ e \in Tables(n) /\ SameEnds(d, e) /\ SameMeta(d, e)
  /\ \A j \in 0 .. n - 1 : /\ e.item[j].prev = d.item[j].prev /\ e.item[j].next = d.item[j].next
                           /\ e.item[j].key = d.item[j].key
                           /\ e.item[j].val = IF j = i THEN v ELSE d.item[j].val

\* Setting the value of a node changes nothing else.
LEMMA SetValFacts ==
  ASSUME NEW n \in Nat \ {0}, NEW d \in Tables(n), NEW i \in 0 .. n - 1, NEW v \in Value
  PROVE  ValSet(d, [d EXCEPT !.item[i].val = v], n, i, v)
<1> DEFINE item == [d.item EXCEPT ![i].val = v]
           e == [layout |-> "dense", slots |-> n, size |-> d.size, head |-> d.head,
                 tail |-> d.tail, meta |-> d.meta, item |-> item]
<1>1. d.item \in [0 .. n - 1 -> Item(n)] /\ d.meta \in [0 .. n - 1 -> Meta] /\ d.slots = n
      /\ d.head \in SlotOrNone(n) /\ d.tail \in SlotOrNone(n) /\ d.size \in Nat
  BY TableFields
<1>2. [d EXCEPT !.item[i].val = v] = e
  <2> DEFINE f == [d EXCEPT !.item[i].val = v]
  <2>0. f = [d EXCEPT !.item[i].val = v]
    OBVIOUS
  <2> HIDE DEF f
  <2>1. f = [layout |-> d.layout, slots |-> d.slots, size |-> f.size, head |-> d.head,
             tail |-> d.tail, meta |-> f.meta, item |-> f.item]
    BY <2>0 DEF Tables
  <2>2. f.size = d.size
    BY <2>0 DEF Tables
  <2>3. f.meta = d.meta
    BY <2>0 DEF Tables
  <2>4. f.item = item
    BY <2>0 DEF Tables
  <2>5. d.layout = "dense" /\ d.slots = n
    BY DEF Tables
  <2> QED BY <2>0, <2>1, <2>2, <2>3, <2>4, <2>5
<1>3. item \in [0 .. n - 1 -> Item(n)]
  BY <1>1 DEF Item
<1>4. \A j \in 0 .. n - 1 : item[j] = IF j = i THEN [d.item[j] EXCEPT !.val = v] ELSE d.item[j]
  BY <1>1
<1> HIDE DEF item
<1>5. \A j \in 0 .. n - 1 : /\ item[j].prev = d.item[j].prev /\ item[j].next = d.item[j].next
                            /\ item[j].key = d.item[j].key
                            /\ item[j].val = IF j = i THEN v ELSE d.item[j].val
  <2> TAKE j \in 0 .. n - 1
  <2>1. d.item[j] \in Item(n)
    BY <1>1
  <2>2. CASE j = i
    BY <1>4, <2>1, <2>2 DEF Item
  <2>3. CASE j # i
    BY <1>4, <2>3
  <2> QED BY <2>2, <2>3
<1>6. e \in Tables(n)
  BY <1>1, <1>3, IsTable
<1>7. e.size = d.size /\ SameEnds(d, e) /\ e.meta = d.meta /\ e.item = item
  BY <1>1 DEF SameEnds
<1> HIDE DEF e
<1> QED BY <1>1, <1>2, <1>5, <1>6, <1>7 DEF ValSet, SameMeta, SameEnds

\* The slots at the two ends of a move are retagged, and slot w leads to the new one.
Retagged(d, e, n, r, to, w, jump, left) ==
  /\ e \in Tables(n) /\ SameEnds(d, e) /\ e.size = d.size /\ e.item = d.item
  /\ e.meta[to] = [kind |-> "body", jump |-> 0] /\ e.meta[r] = left
  /\ e.meta[w] = [kind |-> d.meta[w].kind, jump |-> jump]
  /\ \A j \in 0 .. n - 1 : j \notin {to, r, w} => e.meta[j] = d.meta[j]

\* The metadata that a turn of TrySpareListHead writes.
Retag(d, r, to, w, jump, left) ==
  [d EXCEPT !.meta[to] = [kind |-> "body", jump |-> 0], !.meta[r] = left, !.meta[w].jump = jump]

\* Retagging changes the metadata of three slots.
LEMMA RetagFacts ==
  ASSUME NEW n \in Nat \ {0}, NEW d \in Tables(n), NEW r \in 0 .. n - 1, NEW to \in 0 .. n - 1,
         NEW w \in 0 .. n - 1, r # to, r # w, to # w, NEW left \in Meta,
         NEW jump \in {0} \cup DOMAIN Probe
  PROVE  Retagged(d, Retag(d, r, to, w, jump, left), n, r, to, w, jump, left)
<1> DEFINE y == [kind |-> "body", jump |-> 0]
           m1 == [d.meta EXCEPT ![to] = y]
           m2 == [m1 EXCEPT ![r] = left]
           meta == [m2 EXCEPT ![w].jump = jump]
           e == [layout |-> "dense", slots |-> n, size |-> d.size, head |-> d.head,
                 tail |-> d.tail, meta |-> meta, item |-> d.item]
<1>0. y \in Meta
  BY DEF Meta
<1>2. [d EXCEPT !.meta[to] = y, !.meta[r] = left, !.meta[w].jump = jump] = e
  <2> HIDE DEF y
  <2> DEFINE f == [d EXCEPT !.meta[to] = y, !.meta[r] = left, !.meta[w].jump = jump]
  <2>0. f = [d EXCEPT !.meta[to] = y, !.meta[r] = left, !.meta[w].jump = jump]
    OBVIOUS
  <2> HIDE DEF f
  <2>1. f = [layout |-> d.layout, slots |-> d.slots, size |-> f.size, head |-> d.head,
             tail |-> d.tail, meta |-> f.meta, item |-> f.item]
    BY <2>0 DEF Tables
  <2>2. f.size = d.size
    BY <2>0 DEF Tables
  <2>3. f.meta = meta
    BY <2>0 DEF Tables
  <2>4. f.item = d.item
    BY <2>0 DEF Tables
  <2>5. d.layout = "dense" /\ d.slots = n
    BY DEF Tables
  <2> QED BY <2>0, <2>1, <2>2, <2>3, <2>4, <2>5
<1>1. d.item \in [0 .. n - 1 -> Item(n)] /\ d.meta \in [0 .. n - 1 -> Meta] /\ d.slots = n
      /\ d.head \in SlotOrNone(n) /\ d.tail \in SlotOrNone(n) /\ d.size \in Nat
  BY TableFields
<1>3. m1 \in [0 .. n - 1 -> Meta] /\ \A j \in 0 .. n - 1 : m1[j] = IF j = to THEN y ELSE d.meta[j]
  <2> HIDE DEF y
  <2> QED BY <1>0, <1>1
<1>4. m2 \in [0 .. n - 1 -> Meta] /\ \A j \in 0 .. n - 1 : m2[j] = IF j = r THEN left ELSE m1[j]
  <2> HIDE DEF y, m1
  <2> QED BY <1>3
<1>5. \A j \in 0 .. n - 1 : meta[j] = IF j = w THEN [m2[w] EXCEPT !.jump = jump] ELSE m2[j]
  <2> HIDE DEF y, m1, m2
  <2> QED BY <1>4
<1>6. m2[w] = d.meta[w] /\ m2[w] \in Meta
  <2> HIDE DEF y, m1, m2
  <2> QED BY <1>3, <1>4
<1>7. meta \in [0 .. n - 1 -> Meta]
  <2>1. [m2[w] EXCEPT !.jump = jump] \in Meta
    <3> HIDE DEF y, m1, m2
    <3> QED BY <1>6 DEF Meta
  <2> HIDE DEF y, m1, m2
  <2> QED BY <1>4, <2>1
<1>8. [m2[w] EXCEPT !.jump = jump] = [kind |-> d.meta[w].kind, jump |-> jump]
  <2> HIDE DEF y, m1, m2
  <2> QED BY <1>6 DEF Meta
<1> HIDE DEF y, m1, m2, meta
<1>9. /\ meta[to] = y /\ meta[r] = left
      /\ meta[w] = [kind |-> d.meta[w].kind, jump |-> jump]
      /\ \A j \in 0 .. n - 1 : j \notin {to, r, w} => meta[j] = d.meta[j]
  BY <1>3, <1>4, <1>5, <1>8
<1>10. e \in Tables(n)
  BY <1>1, <1>7, IsTable
<1>11. e.size = d.size /\ SameEnds(d, e) /\ e.meta = meta /\ e.item = d.item
  BY <1>1 DEF SameEnds
<1> HIDE DEF e
<1> QED BY <1>2, <1>9, <1>10, <1>11 DEF Retagged, Retag, y

(***************************************************************************)
(* The invariant of a table.  Sound is what holds between two operations; Half*)
(* holds when TryInsert has made room for a key whose value is not set; Shape is*)
(* their common part and allows for what TrySpareListHead breaks on the way.*)
(***************************************************************************)

\* The slots of s.
InList(m, s) == {s[j] : j \in 1 .. m}

\* An occupied slot has a key, another one has no node and is empty, or protected
\* if it is slot t.
Body(d, n, t) ==
  \A j \in 0 .. n - 1 :
    IF j \in Occupied(d) THEN d.item[j].key \in Key
    ELSE d.item[j] = NoItem /\ d.meta[j] = IF j = t THEN Protected ELSE Empty

\* A table whose list s leaves out the slots of X, whose chains are whole but for
\* the slot loose, and in which slot t is protected.
Shape(n, d, m, s, rank, loose, t, X) ==
  /\ n \in Nat \ {0} /\ d \in Tables(n) /\ m \in Nat /\ s \in [1 .. m -> 0 .. n - 1]
  /\ Listed(d, m, s) /\ Occupied(d) = InList(m, s) \cup X /\ X \cap InList(m, s) = {}
  /\ Chained(d, rank, loose) /\ DistinctKeys(d) /\ Body(d, n, t)
  /\ \A j \in 1 .. m : d.item[s[j]].val \in Value

\* Table d, of n slots, is consistent and its list is s.
Sound(n, d, m, s, rank) == Shape(n, d, m, s, rank, NoSlot, NoSlot, {}) /\ d.size = m

\* Table d is consistent but for slot i, which holds key k and is not in the list.
Half(n, d, m, s, rank, i, k) ==
  /\ Shape(n, d, m, s, rank, NoSlot, NoSlot, {i}) /\ d.size = m + 1
  /\ i \in 0 .. n - 1 /\ d.item[i].key = k

\* The same key in the same slot has the same home.
LEMMA HomeSame ==
  ASSUME NEW n \in Nat \ {0}, NEW d \in Tables(n), NEW e \in Tables(n), NEW j \in 0 .. n - 1,
         e.item[j].key = d.item[j].key
  PROVE  HomeOf(e)[j] = HomeOf(d)[j]
  BY TableFields DEF HomeOf, Home

\* The home of a slot is where its key hashes to, in tables of the same size.
LEMMA HomeIs ==
  ASSUME NEW n \in Nat \ {0}, NEW d \in Tables(n), NEW e \in Tables(n), NEW j \in 0 .. n - 1
  PROVE  HomeOf(e)[j] = Home(d, e.item[j].key)
  BY TableFields DEF HomeOf, Home

\* The same jump leads to the same slot.
LEMMA NextSame ==
  ASSUME NEW n \in Nat \ {0}, NEW d \in Tables(n), NEW e \in Tables(n), NEW j \in 0 .. n - 1,
         e.meta[j].jump = d.meta[j].jump
  PROVE  NextOf(e)[j] = NextOf(d)[j]
  BY TableFields DEF NextOf, MoveToNext, HasNext, At

\* Jump 0 ends a chain.
LEMMA NextEnds ==
  ASSUME NEW n \in Nat \ {0}, NEW e \in Tables(n), NEW j \in 0 .. n - 1, e.meta[j].jump = 0
  PROVE  NextOf(e)[j] = NoSlot
  BY TableFields DEF NextOf, MoveToNext, HasNext

\* Another jump leads on.
LEMMA NextJumps ==
  ASSUME NEW n \in Nat \ {0}, NEW d \in Tables(n), NEW e \in Tables(n), NEW j \in 0 .. n - 1,
         NEW jump \in DOMAIN Probe, e.meta[j].jump = jump
  PROVE  NextOf(e)[j] = At(d, j, jump)
<1>1. jump # 0
  BY DenseMapAssumption
<1> QED BY <1>1, TableFields DEF NextOf, MoveToNext, HasNext, At

\* The kind of a slot says whether it is occupied, and whether a head.
LEMMA TagSame ==
  ASSUME NEW n \in Nat \ {0}, NEW d \in Tables(n), NEW e \in Tables(n), NEW j \in 0 .. n - 1,
         e.meta[j].kind = d.meta[j].kind
  PROVE  (j \in Occupied(e) <=> j \in Occupied(d)) /\ (j \in Heads(e) <=> j \in Heads(d))
  BY TableFields DEF Occupied, Heads

\* What each kind of a slot means.
LEMMA TagIs ==
  ASSUME NEW n \in Nat \ {0}, NEW e \in Tables(n), NEW j \in 0 .. n - 1
  PROVE  /\ e.meta[j] = Empty \/ e.meta[j] = Protected => j \notin Occupied(e)
         /\ e.meta[j].kind = "head" => j \in Heads(e) /\ j \in Occupied(e)
         /\ e.meta[j].kind = "body" => j \notin Heads(e) /\ j \in Occupied(e)
  BY TableFields DEF Occupied, Heads, Empty, Protected

\* Occupied slots are slots, and heads are occupied.
LEMMA InTable ==
  ASSUME NEW n \in Nat \ {0}, NEW d \in Tables(n)
  PROVE  Occupied(d) \subseteq 0 .. n - 1 /\ Heads(d) \subseteq Occupied(d)
  BY TableFields DEF Occupied, Heads

\* What stays as it was, when nothing changes but the list.
LEMMA ChainsSame ==
  ASSUME NEW n \in Nat \ {0}, NEW d \in Tables(n), NEW e \in Tables(n), e.meta = d.meta,
         \A j \in 0 .. n - 1 : e.item[j].key = d.item[j].key
  PROVE  /\ Occupied(e) = Occupied(d) /\ Heads(e) = Heads(d)
         /\ HomeOf(e) = HomeOf(d) /\ NextOf(e) = NextOf(d)
<1>1. Occupied(e) = Occupied(d) /\ Heads(e) = Heads(d)
  BY TableFields DEF Occupied, Heads
<1>2. HomeOf(e) = HomeOf(d)
  BY TableFields DEF HomeOf, Home
<1>3. NextOf(e) = NextOf(d)
  BY TableFields DEF NextOf, MoveToNext, HasNext, At
<1> QED BY <1>1, <1>2, <1>3

\* The list does not notice what happens outside it.
LEMMA ListSame ==
  ASSUME NEW n \in Nat \ {0}, NEW d \in Tables(n), NEW e \in Tables(n), NEW m \in Nat,
         NEW s \in [1 .. m -> 0 .. n - 1], Listed(d, m, s),
         e.head = d.head, e.tail = d.tail,
         \A j \in 1 .. m : e.item[s[j]].prev = d.item[s[j]].prev /\ e.item[s[j]].next = d.item[s[j]].next
  PROVE  Listed(e, m, s)
  BY TableFields DEF Listed, Ends, Threaded

\* Outside and InList are opposites.
LEMMA OutsideIs ==
  ASSUME NEW m \in Nat, NEW s, NEW i
  PROVE  Outside(m, s, i) <=> i \notin InList(m, s)
  BY DEF Outside, InList

(***************************************************************************)
(* A fresh node, at the head of a chain or behind its last slot.            *)
(***************************************************************************)

\* The chains with home2, next2 and rank2 have one more, of slot i alone.
HeadAdded(O, i, home, next, rank, home2, next2, rank2) ==
  /\ i \notin O /\ NoSlot \notin O
  /\ \A j \in O : home2[j] = home[j] /\ next2[j] = next[j] /\ rank2[j] = rank[j]
  /\ home2[i] = i /\ next2[i] = NoSlot /\ rank2[i] = 1

\* LinkHead, in the form in which the tables give its hypotheses.
LEMMA HeadAddedLinked ==
  ASSUME NEW O, NEW H, NEW i, NEW home, NEW next, NEW rank, NEW home2, NEW next2, NEW rank2,
         Linked(O, H, home, next, rank, NoSlot),
         HeadAdded(O, i, home, next, rank, home2, next2, rank2)
  PROVE  Linked(O \cup {i}, H \cup {i}, home2, next2, rank2, NoSlot)
<1>1. /\ i \notin O /\ NoSlot \notin O
      /\ \A j \in O : home2[j] = home[j] /\ next2[j] = next[j] /\ rank2[j] = rank[j]
      /\ home2[i] = i /\ next2[i] = NoSlot /\ rank2[i] = 1
  BY DEF HeadAdded
<1> QED BY <1>1, LinkHead

\* The chain of w, its last slot, goes on to slot i.
TailAdded(O, i, w, home, next, rank, home2, next2, rank2) ==
  /\ w \in O /\ i \notin O /\ NoSlot \notin O /\ i # NoSlot /\ next[w] = NoSlot
  /\ \A j \in O : home2[j] = home[j] /\ rank2[j] = rank[j]
  /\ \A j \in O : j # w => next2[j] = next[j]
  /\ home2[i] = home[w] /\ next2[w] = i /\ next2[i] = NoSlot /\ rank2[i] = rank[w] + 1

\* LinkTail, in the form in which the tables give its hypotheses.
LEMMA TailAddedLinked ==
  ASSUME NEW O, NEW H, NEW i, NEW w, NEW home, NEW next, NEW rank, NEW home2, NEW next2, NEW rank2,
         Linked(O, H, home, next, rank, NoSlot),
         TailAdded(O, i, w, home, next, rank, home2, next2, rank2)
  PROVE  Linked(O \cup {i}, H, home2, next2, rank2, NoSlot)
<1>1. /\ w \in O /\ i \notin O /\ NoSlot \notin O /\ i # NoSlot /\ next[w] = NoSlot
      /\ \A j \in O : home2[j] = home[j] /\ rank2[j] = rank[j]
      /\ \A j \in O : j # w => next2[j] = next[j]
      /\ home2[i] = home[w] /\ next2[w] = i /\ next2[i] = NoSlot /\ rank2[i] = rank[w] + 1
  BY DEF TailAdded
<1> QED BY <1>1, LinkTail

\* Slot i of e holds a node with key k that is not in the list yet.
Added(d, e, n, m, s, i, k) ==
  (\E rank : Half(n, e, m, s, rank, i, k)) /\ Along(e, m, s) = Along(d, m, s)

\* A key whose home is free gets a node there, the head of a new chain.
LEMMA AddHead ==
  ASSUME NEW n, NEW d, NEW m, NEW s, NEW rank, NEW t, Shape(n, d, m, s, rank, NoSlot, t, {}),
         d.size = m, NEW i \in 0 .. n - 1, t \in {NoSlot, i}, i \notin Occupied(d),
         NEW k \in Key, Home(d, k) = i, \A j \in Occupied(d) : d.item[j].key # k
  PROVE  Added(d, NewNode(d, i, k, "head"), n, m, s, i, k)
<1> DEFINE e == NewNode(d, i, k, "head")
           rank2 == [j \in 0 .. n - 1 |-> IF j = i THEN 1 ELSE rank[j]]
           O == Occupied(d)
<1>1. /\ n \in Nat \ {0} /\ d \in Tables(n) /\ m \in Nat /\ s \in [1 .. m -> 0 .. n - 1]
      /\ Listed(d, m, s) /\ O = InList(m, s)
      /\ Chained(d, rank, NoSlot) /\ DistinctKeys(d) /\ Body(d, n, t)
      /\ \A j \in 1 .. m : d.item[s[j]].val \in Value
  BY DEF Shape
<1>2. NodeAdded(d, e, n, i, k, "head")
  BY <1>1, NewNodeFacts
<1> HIDE DEF e
<1>3. /\ e \in Tables(n) /\ SameEnds(d, e) /\ e.size = m + 1
      /\ e.meta[i].kind = "head" /\ e.meta[i].jump = 0 /\ e.item[i].key = k
      /\ \A j \in 0 .. n - 1 : j # i => e.meta[j] = d.meta[j] /\ e.item[j] = d.item[j]
  BY <1>2 DEF NodeAdded
<1>4. O \subseteq 0 .. n - 1 /\ Heads(d) \subseteq O /\ NoSlot \notin 0 .. n - 1 /\ i \notin O
      /\ Occupied(e) \subseteq 0 .. n - 1 /\ Heads(e) \subseteq Occupied(e)
  BY <1>1, <1>3, InTable, TableFields
<1>5. ASSUME NEW j \in O
      PROVE  HomeOf(e)[j] = HomeOf(d)[j] /\ NextOf(e)[j] = NextOf(d)[j] /\ rank2[j] = rank[j]
  <2>1. j \in 0 .. n - 1 /\ j # i
    BY <1>4
  <2>2. e.meta[j] = d.meta[j] /\ e.item[j] = d.item[j]
    BY <1>3, <2>1
  <2>3. HomeOf(e)[j] = HomeOf(d)[j]
    BY <1>1, <1>3, <2>1, <2>2, HomeSame
  <2>4. NextOf(e)[j] = NextOf(d)[j]
    BY <1>1, <1>3, <2>1, <2>2, NextSame
  <2> QED BY <2>1, <2>3, <2>4
<1>6. HomeOf(e)[i] = i /\ NextOf(e)[i] = NoSlot /\ rank2[i] = 1
  <2>1. HomeOf(e)[i] = i
    BY <1>1, <1>3, HomeIs
  <2>2. NextOf(e)[i] = NoSlot
    BY <1>1, <1>3, NextEnds
  <2> QED BY <2>1, <2>2
<1>7. Occupied(e) = O \cup {i} /\ Heads(e) = Heads(d) \cup {i}
  <2>1. i \in Occupied(e) /\ i \in Heads(e)
    BY <1>1, <1>3, TagIs
  <2>2. ASSUME NEW j \in 0 .. n - 1, j # i
        PROVE  (j \in Occupied(e) <=> j \in O) /\ (j \in Heads(e) <=> j \in Heads(d))
    <3>1. e.meta[j].kind = d.meta[j].kind
      BY <1>3, <2>2
    <3> QED BY <1>1, <1>3, <3>1, TagSame
  <2> HIDE DEF O
  <2> QED BY <1>4, <2>1, <2>2
<1>8. Chained(e, rank2, NoSlot)
  <2>1. Linked(O, Heads(d), HomeOf(d), NextOf(d), rank, NoSlot)
    BY <1>1 DEF Chained
  <2> HIDE DEF O, rank2
  <2>3. \A j \in O : HomeOf(e)[j] = HomeOf(d)[j] /\ NextOf(e)[j] = NextOf(d)[j] /\ rank2[j] = rank[j]
    BY <1>5
  <2>4. i \notin O /\ NoSlot \notin O
    BY <1>4
  <2>2. Linked(O \cup {i}, Heads(d) \cup {i}, HomeOf(e), NextOf(e), rank2, NoSlot)
    <3>1. HeadAdded(O, i, HomeOf(d), NextOf(d), rank, HomeOf(e), NextOf(e), rank2)
      BY <1>6, <2>3, <2>4 DEF HeadAdded
    <3> QED BY <2>1, <3>1, HeadAddedLinked
  <2> QED BY <1>7, <2>2 DEF Chained, O
<1>9. DistinctKeys(e)
  <2>1. \A j \in O : e.item[j].key = d.item[j].key /\ e.item[j].key # k
    BY <1>3, <1>4
  <2> QED BY <1>1, <1>3, <1>7, <2>1 DEF DistinctKeys
<1>10. Body(e, n, NoSlot)
  <2> SUFFICES ASSUME NEW j \in 0 .. n - 1
               PROVE  IF j \in Occupied(e) THEN e.item[j].key \in Key
                      ELSE e.item[j] = NoItem /\ e.meta[j] = Empty
    BY <1>4 DEF Body
  <2>1. CASE j = i
    BY <1>3, <1>7, <2>1
  <2>2. CASE j # i
    <3>1. j # t
      BY <1>4, <2>2
    <3> QED BY <1>1, <1>3, <1>7, <2>2, <3>1 DEF Body
  <2> QED BY <2>1, <2>2
<1>11. \A j \in 1 .. m : s[j] # i /\ e.item[s[j]] = d.item[s[j]] /\ s[j] \in 0 .. n - 1
  <2> TAKE j \in 1 .. m
  <2>1. s[j] \in O
    BY <1>1 DEF InList
  <2> QED BY <1>3, <1>4, <2>1
<1>12. Listed(e, m, s)
  BY <1>1, <1>3, <1>11, ListSame DEF SameEnds
<1>13. Along(e, m, s) = Along(d, m, s)
  BY <1>11 DEF Along
<1>14. Shape(n, e, m, s, rank2, NoSlot, NoSlot, {i})
  <2>1. Occupied(e) = InList(m, s) \cup {i} /\ {i} \cap InList(m, s) = {}
    BY <1>1, <1>4, <1>7
  <2> HIDE DEF rank2
  <2> QED BY <1>1, <1>3, <1>8, <1>9, <1>10, <1>11, <1>12, <2>1 DEF Shape
<1>15. Half(n, e, m, s, rank2, i, k)
  BY <1>3, <1>14 DEF Half
<1> QED BY <1>13, <1>15 DEF Added, e

\* The last slot w of the chain of k leads to the new node in to.
LEMMA AddTail ==
  ASSUME NEW n, NEW d, NEW m, NEW s, NEW rank, Sound(n, d, m, s, rank),
         NEW k \in Key, \A j \in Occupied(d) : d.item[j].key # k,
         NEW w \in Occupied(d), NextOf(d)[w] = NoSlot, HomeOf(d)[w] = Home(d, k),
         NEW jump \in DOMAIN Probe, d.meta[At(d, w, jump)] = Empty
  PROVE  LET to == At(d, w, jump)
         IN Added(d, SetJump(NewNode(d, to, k, "body"), w, jump), n, m, s, to, k)
<1> DEFINE i == At(d, w, jump)
           c == NewNode(d, i, k, "body")
           e == SetJump(c, w, jump)
           rank2 == [j \in 0 .. n - 1 |-> IF j = i THEN rank[w] + 1 ELSE rank[j]]
           O == Occupied(d)
<1>1. /\ n \in Nat \ {0} /\ d \in Tables(n) /\ m \in Nat /\ s \in [1 .. m -> 0 .. n - 1]
      /\ Listed(d, m, s) /\ O = InList(m, s) /\ d.size = m
      /\ Chained(d, rank, NoSlot) /\ DistinctKeys(d) /\ Body(d, n, NoSlot)
      /\ \A j \in 1 .. m : d.item[s[j]].val \in Value
  BY DEF Shape, Sound
<1>0. /\ O \subseteq 0 .. n - 1 /\ Heads(d) \subseteq O /\ NoSlot \notin 0 .. n - 1
      /\ w \in 0 .. n - 1 /\ w \in O /\ i \in 0 .. n - 1 /\ i \notin O /\ w # i
      /\ jump \in {0} \cup DOMAIN Probe
  <2>1. O \subseteq 0 .. n - 1 /\ Heads(d) \subseteq O /\ NoSlot \notin 0 .. n - 1
    BY <1>1, InTable, TableFields
  <2>2. i \in 0 .. n - 1
    BY <1>1, <2>1, AtIsSlot
  <2> HIDE DEF i
  <2>3. d.meta[i] = Empty
    BY DEF i
  <2>4. i \notin O
    BY <1>1, <2>2, <2>3, TagIs
  <2> QED BY <2>1, <2>2, <2>4
<1>i. i = At(d, w, jump)
  OBVIOUS
<1> HIDE DEF i
<1>2. NodeAdded(d, c, n, i, k, "body")
  BY <1>0, <1>1, NewNodeFacts
<1> HIDE DEF c
<1>2a. JumpSet(c, e, n, w, jump)
  BY <1>0, <1>1, <1>2, SetJumpFacts DEF NodeAdded
<1> HIDE DEF e
<1>3. /\ e \in Tables(n) /\ SameEnds(d, e) /\ e.size = m + 1
      /\ e.meta[i].kind = "body" /\ e.meta[i].jump = 0 /\ e.item[i].key = k
      /\ e.meta[w].kind = d.meta[w].kind /\ e.meta[w].jump = jump
      /\ \A j \in 0 .. n - 1 : j # i => e.item[j] = d.item[j]
      /\ \A j \in 0 .. n - 1 : j # i /\ j # w => e.meta[j] = d.meta[j]
  <2>1. e \in Tables(n) /\ SameEnds(d, e) /\ e.size = m + 1
    BY <1>1, <1>2, <1>2a DEF NodeAdded, JumpSet, SameEnds
  <2>2. e.meta[i].kind = "body" /\ e.meta[i].jump = 0 /\ e.item[i].key = k
    BY <1>0, <1>1, <1>2, <1>2a DEF NodeAdded, JumpSet
  <2>3. e.meta[w].kind = d.meta[w].kind /\ e.meta[w].jump = jump
    BY <1>0, <1>1, <1>2, <1>2a DEF NodeAdded, JumpSet
  <2>4. /\ \A j \in 0 .. n - 1 : j # i => e.item[j] = d.item[j]
        /\ \A j \in 0 .. n - 1 : j # i /\ j # w => e.meta[j] = d.meta[j]
    BY <1>0, <1>1, <1>2, <1>2a DEF NodeAdded, JumpSet
  <2> QED BY <2>1, <2>2, <2>3, <2>4
<1>4. Occupied(e) \subseteq 0 .. n - 1 /\ Heads(e) \subseteq Occupied(e)
  BY <1>3, <1>1, InTable
<1>5. ASSUME NEW j \in O
      PROVE  /\ HomeOf(e)[j] = HomeOf(d)[j] /\ (j # w => NextOf(e)[j] = NextOf(d)[j])
             /\ rank2[j] = rank[j]
  <2>1. j \in 0 .. n - 1 /\ j # i
    BY <1>0
  <2>2. e.item[j].key = d.item[j].key /\ (j # w => e.meta[j].jump = d.meta[j].jump)
    BY <1>3, <2>1
  <2>3. HomeOf(e)[j] = HomeOf(d)[j]
    BY <1>1, <1>3, <2>1, <2>2, HomeSame
  <2>4. j # w => NextOf(e)[j] = NextOf(d)[j]
    BY <1>1, <1>3, <2>1, <2>2, NextSame
  <2> QED BY <2>1, <2>3, <2>4
<1>6. /\ HomeOf(e)[i] = HomeOf(d)[w] /\ NextOf(e)[i] = NoSlot /\ rank2[i] = rank[w] + 1
      /\ NextOf(e)[w] = i
  <2>1. HomeOf(e)[i] = HomeOf(d)[w]
    BY <1>0, <1>1, <1>3, HomeIs
  <2>2. NextOf(e)[i] = NoSlot
    BY <1>0, <1>1, <1>3, NextEnds
  <2>3. NextOf(e)[w] = i
    BY <1>i, <1>0, <1>1, <1>3, NextJumps
  <2> QED BY <1>0, <2>1, <2>2, <2>3
<1>7. Occupied(e) = O \cup {i} /\ Heads(e) = Heads(d)
  <2>1. i \in Occupied(e) /\ i \notin Heads(e)
    BY <1>0, <1>1, <1>3, TagIs
  <2>2. ASSUME NEW j \in 0 .. n - 1, j # i
        PROVE  (j \in Occupied(e) <=> j \in O) /\ (j \in Heads(e) <=> j \in Heads(d))
    <3>1. e.meta[j].kind = d.meta[j].kind
      BY <1>3, <2>2
    <3> QED BY <1>1, <1>3, <3>1, TagSame
  <2> HIDE DEF O
  <2> QED BY <1>0, <1>4, <2>1, <2>2
<1>8. Chained(e, rank2, NoSlot)
  <2>1. Linked(O, Heads(d), HomeOf(d), NextOf(d), rank, NoSlot)
    BY <1>1 DEF Chained
  <2>2. i # NoSlot /\ NextOf(d)[w] = NoSlot
    BY <1>0
  <2> HIDE DEF O, rank2
  <2>4. \A j \in O : HomeOf(e)[j] = HomeOf(d)[j] /\ rank2[j] = rank[j]
    BY <1>5
  <2>5. \A j \in O : j # w => NextOf(e)[j] = NextOf(d)[j]
    BY <1>5
  <2>6. i \notin O /\ NoSlot \notin O /\ w \in O
    BY <1>0
  <2>3. Linked(O \cup {i}, Heads(d), HomeOf(e), NextOf(e), rank2, NoSlot)
    <3>1. TailAdded(O, i, w, HomeOf(d), NextOf(d), rank, HomeOf(e), NextOf(e), rank2)
      BY <1>6, <2>2, <2>4, <2>5, <2>6 DEF TailAdded
    <3> QED BY <2>1, <3>1, TailAddedLinked
  <2> QED BY <1>7, <2>3 DEF Chained, O
<1>9. DistinctKeys(e)
  <2>1. \A j \in O : e.item[j].key = d.item[j].key /\ e.item[j].key # k
    BY <1>3, <1>0
  <2> QED BY <1>1, <1>3, <1>7, <2>1 DEF DistinctKeys
<1>10. Body(e, n, NoSlot)
  <2> SUFFICES ASSUME NEW j \in 0 .. n - 1
               PROVE  IF j \in Occupied(e) THEN e.item[j].key \in Key
                      ELSE e.item[j] = NoItem /\ e.meta[j] = Empty
    BY <1>0 DEF Body
  <2>1. CASE j = i
    BY <1>3, <1>7, <2>1
  <2>2. CASE j # i
    <3>1. j # NoSlot
      BY <1>0
    <3> QED BY <1>0, <1>1, <1>3, <1>7, <2>2, <3>1 DEF Body
  <2> QED BY <2>1, <2>2
<1>11. \A j \in 1 .. m : s[j] # i /\ e.item[s[j]] = d.item[s[j]] /\ s[j] \in 0 .. n - 1
  <2> TAKE j \in 1 .. m
  <2>1. s[j] \in O
    BY <1>1 DEF InList
  <2> QED BY <1>3, <1>0, <2>1
<1>12. Listed(e, m, s)
  BY <1>1, <1>3, <1>11, ListSame DEF SameEnds
<1>13. Along(e, m, s) = Along(d, m, s)
  BY <1>11 DEF Along
<1>14. Shape(n, e, m, s, rank2, NoSlot, NoSlot, {i})
  <2>1. Occupied(e) = InList(m, s) \cup {i} /\ {i} \cap InList(m, s) = {}
    BY <1>0, <1>1, <1>7
  <2> HIDE DEF rank2
  <2> QED BY <1>1, <1>3, <1>8, <1>9, <1>10, <1>11, <1>12, <2>1 DEF Shape
<1>15. Half(n, e, m, s, rank2, i, k)
  BY <1>0, <1>3, <1>14 DEF Half
<1>16. Added(d, e, n, m, s, i, k)
  BY <1>13, <1>15 DEF Added
<1> QED BY <1>16 DEF e, c, i

(***************************************************************************)
(* Taking an item out of the list and putting it at the end.                *)
(***************************************************************************)

\* The p-th item of the list is taken out of it, and stays in its slot.
Pulled(d, e, n, m, s, rank, p) ==
  /\ Half(n, e, m - 1, Cut(s, m, p), rank, s[p], d.item[s[p]].key)
  /\ Along(e, m - 1, Cut(s, m, p)) = Cut(Along(d, m, s), m, p)

\* The items of e are those of d without the p-th.
CutIs(d, e, m, s, p) == Along(e, m - 1, Cut(s, m, p)) = Cut(Along(d, m, s), m, p)

\* Cutting the list cuts the items.
LEMMA CutAlong ==
  ASSUME NEW n \in Nat \ {0}, NEW m \in Nat, NEW s \in [1 .. m -> 0 .. n - 1], NEW p \in 1 .. m,
         NEW d, NEW e, \A j \in 0 .. n - 1 : SameData(d, e, j)
  PROVE  CutIs(d, e, m, s, p)
<1>1. \A j \in 1 .. m - 1 : j \in 1 .. m /\ j + 1 \in 1 .. m /\ s[j] \in 0 .. n - 1 /\ s[j + 1] \in 0 .. n - 1
  OBVIOUS
<1>2. \A j \in 1 .. m - 1 : Along(e, m - 1, Cut(s, m, p))[j] = Cut(Along(d, m, s), m, p)[j]
  BY <1>1 DEF Along, Cut, SameData
<1> QED BY <1>2 DEF Along, Cut, CutIs

\* Cut takes the p-th slot out of s.
CutLeaves(m, s, p) == InList(m - 1, Cut(s, m, p)) = InList(m, s) \ {s[p]}

\* A list without its p-th slot has all the others.
LEMMA CutInList ==
  ASSUME NEW n \in Nat \ {0}, NEW m \in Nat, NEW s \in [1 .. m -> 0 .. n - 1], NEW p \in 1 .. m,
         Injective(s, m)
  PROVE  CutLeaves(m, s, p)
<1> DEFINE t == Cut(s, m, p)
<1>1. \A j \in 1 .. m - 1 : t[j] = IF j < p THEN s[j] ELSE s[j + 1]
  BY DEF Cut
<1> HIDE DEF t
<1>2. ASSUME NEW j \in 1 .. m - 1 PROVE t[j] \in InList(m, s) /\ t[j] # s[p]
  <2>1. j \in 1 .. m /\ j + 1 \in 1 .. m
    OBVIOUS
  <2>2. CASE j < p BY <1>1, <2>1, <2>2 DEF InList, Injective
  <2>3. CASE ~ (j < p) BY <1>1, <2>1, <2>3 DEF InList, Injective
  <2> QED BY <2>2, <2>3
<1>3. ASSUME NEW j \in 1 .. m, s[j] # s[p] PROVE s[j] \in InList(m - 1, t)
  <2>1. CASE j < p
    <3>1. j \in 1 .. m - 1 /\ t[j] = s[j]
      BY <1>1, <2>1
    <3> QED BY <3>1 DEF InList
  <2>2. CASE j > p
    <3>1. j - 1 \in 1 .. m - 1 /\ t[j - 1] = s[j]
      BY <1>1, <2>2
    <3> QED BY <3>1 DEF InList
  <2>3. j # p BY <1>3
  <2> QED BY <2>1, <2>2, <2>3
<1>4. InList(m - 1, t) \subseteq InList(m, s) \ {s[p]}
  BY <1>2 DEF InList
<1>5. InList(m, s) \ {s[p]} \subseteq InList(m - 1, t)
  BY <1>3 DEF InList
<1> QED BY <1>4, <1>5 DEF t, CutLeaves

\* TryInsert of a key that is there takes its node out of the list and leaves the
\* chains alone.
LEMMA PullFacts ==
  ASSUME NEW n, NEW d, NEW m, NEW s, NEW rank, Sound(n, d, m, s, rank), NEW p \in 1 .. m
  PROVE  Pulled(d, IterListUnlink(d, s[p]), n, m, s, rank, p)
<1> DEFINE e == IterListUnlink(d, s[p])
           t == Cut(s, m, p)
           i == s[p]
<1>1. /\ n \in Nat \ {0} /\ d \in Tables(n) /\ m \in Nat /\ s \in [1 .. m -> 0 .. n - 1]
      /\ Listed(d, m, s) /\ Occupied(d) = InList(m, s) /\ d.size = m
      /\ Chained(d, rank, NoSlot) /\ DistinctKeys(d) /\ Body(d, n, NoSlot)
      /\ \A j \in 1 .. m : d.item[s[j]].val \in Value
  BY DEF Shape, Sound
<1>2. Unlinked(d, e, n, m, s, p)
  BY <1>1, UnlinkFacts
<1> HIDE DEF e
<1>3. /\ e \in Tables(n) /\ SameMeta(d, e) /\ Listed(e, m - 1, t)
      /\ \A j \in 0 .. n - 1 : SameData(d, e, j)
      /\ \A j \in 0 .. n - 1 : Outside(m, s, j) => e.item[j] = d.item[j]
  BY <1>2 DEF Unlinked
<1>4. Injective(s, m)
  BY <1>1 DEF Listed
<1>5. CutOf(0 .. n - 1, m, p, s, t)
  BY <1>1, CutFacts
<1>6. InList(m - 1, t) = InList(m, s) \ {i} /\ i \in InList(m, s) /\ i \in 0 .. n - 1
  <2>1. InList(m - 1, Cut(s, m, p)) = InList(m, s) \ {s[p]}
    <3>1. CutLeaves(m, s, p)
      BY <1>1, <1>4, CutInList
    <3> QED BY <3>1 DEF CutLeaves
  <2>2. s[p] \in InList(m, s)
    BY DEF InList
  <2>3. s[p] \in 0 .. n - 1
    BY <1>1
  <2> QED BY <2>1, <2>2, <2>3
<1>7. e.meta = d.meta /\ e.size = d.size /\ \A j \in 0 .. n - 1 : e.item[j].key = d.item[j].key
  BY <1>3 DEF SameMeta, SameData
<1>8. /\ Occupied(e) = Occupied(d) /\ Heads(e) = Heads(d)
      /\ HomeOf(e) = HomeOf(d) /\ NextOf(e) = NextOf(d)
  BY <1>1, <1>3, <1>7, ChainsSame
<1>9. Chained(e, rank, NoSlot)
  BY <1>1, <1>8 DEF Chained
<1>10. DistinctKeys(e)
  <2>1. Occupied(d) \subseteq 0 .. n - 1
    BY <1>1, InTable
  <2> QED BY <1>1, <1>7, <1>8, <2>1 DEF DistinctKeys
<1>11. Body(e, n, NoSlot)
  <2> SUFFICES ASSUME NEW j \in 0 .. n - 1
               PROVE  IF j \in Occupied(e) THEN e.item[j].key \in Key
                      ELSE e.item[j] = NoItem /\ e.meta[j] = IF j = NoSlot THEN Protected ELSE Empty
    BY DEF Body
  <2>1. j \notin Occupied(d) => e.item[j] = d.item[j]
    BY <1>1, <1>3, OutsideIs
  <2> QED BY <1>1, <1>7, <1>8, <2>1 DEF Body
<1>12. ASSUME NEW j \in 1 .. m - 1 PROVE e.item[t[j]].val \in Value
  <2>1. t[j] = IF j < p THEN s[j] ELSE s[j + 1]
    BY <1>5 DEF CutOf
  <2>2. j \in 1 .. m /\ j + 1 \in 1 .. m
    BY <1>1
  <2>3. \A l \in 1 .. m : e.item[s[l]].val \in Value
    BY <1>1, <1>3 DEF SameData
  <2> QED BY <2>1, <2>2, <2>3
<1> HIDE DEF t, i
<1>13. m - 1 \in Nat /\ t \in [1 .. m - 1 -> 0 .. n - 1]
  BY <1>5 DEF CutOf
<1>14. Occupied(e) = InList(m - 1, t) \cup {i} /\ {i} \cap InList(m - 1, t) = {}
  BY <1>1, <1>6, <1>8
<1>15. Shape(n, e, m - 1, t, rank, NoSlot, NoSlot, {i})
  BY <1>1, <1>3, <1>9, <1>10, <1>11, <1>12, <1>13, <1>14 DEF Shape
<1>16. e.size = (m - 1) + 1
  BY <1>1, <1>7
<1>17. Half(n, e, m - 1, t, rank, i, d.item[i].key)
  BY <1>6, <1>7, <1>15, <1>16 DEF Half
<1>18. Along(e, m - 1, Cut(s, m, p)) = Cut(Along(d, m, s), m, p)
  <2>1. CutIs(d, e, m, s, p)
    BY <1>1, <1>3, CutAlong
  <2> QED BY <2>1 DEF CutIs
<1>19. Pulled(d, e, n, m, s, rank, p)
  BY <1>17, <1>18 DEF Pulled, t, i
<1> QED BY <1>19 DEF e

\* The node in slot i gets its value, and goes to the end of the list.
Finish(d, i, v) == IterListPushBack([d EXCEPT !.item[i].val = v], i)
\* e is consistent and holds the items of d and <<k, v>> behind them.
Finished(d, e, n, m, s, rank, i, k, v) ==
  /\ Sound(n, e, m + 1, Add(s, m, i), rank)
  /\ Along(e, m + 1, Add(s, m, i)) = Add(Along(d, m, s), m, <<k, v>>)

\* InsertMaybeReHash sets the value and pushes the node to the back of the list.
LEMMA FinishFacts ==
  ASSUME NEW n, NEW d, NEW m, NEW s, NEW rank, NEW i, NEW k \in Key, NEW v \in Value,
         Half(n, d, m, s, rank, i, k)
  PROVE  Finished(d, Finish(d, i, v), n, m, s, rank, i, k, v)
<1> DEFINE c == [d EXCEPT !.item[i].val = v]
           e == IterListPushBack(c, i)
           t == Add(s, m, i)
<1>1. /\ n \in Nat \ {0} /\ d \in Tables(n) /\ m \in Nat /\ s \in [1 .. m -> 0 .. n - 1]
      /\ Listed(d, m, s) /\ Occupied(d) = InList(m, s) \cup {i} /\ {i} \cap InList(m, s) = {}
      /\ d.size = m + 1 /\ Chained(d, rank, NoSlot) /\ DistinctKeys(d) /\ Body(d, n, NoSlot)
      /\ \A j \in 1 .. m : d.item[s[j]].val \in Value
      /\ i \in 0 .. n - 1 /\ d.item[i].key = k
  BY DEF Half, Shape
<1>2. ValSet(d, c, n, i, v)
  BY <1>1, SetValFacts
<1> HIDE DEF c
<1>3. /\ c \in Tables(n) /\ SameMeta(d, c) /\ c.head = d.head /\ c.tail = d.tail
      /\ \A j \in 0 .. n - 1 : /\ c.item[j].prev = d.item[j].prev /\ c.item[j].next = d.item[j].next
                               /\ c.item[j].key = d.item[j].key
                               /\ c.item[j].val = IF j = i THEN v ELSE d.item[j].val
  BY <1>2 DEF ValSet, SameEnds
<1>4. Listed(c, m, s)
  <2>1. \A j \in 1 .. m : c.item[s[j]].prev = d.item[s[j]].prev /\ c.item[s[j]].next = d.item[s[j]].next
    BY <1>1, <1>3
  <2> QED BY <1>1, <1>3, <2>1, ListSame
<1>5. Outside(m, s, i)
  BY <1>1, OutsideIs
<1>6. PushedTo(c, e, n, m, s, i)
  BY <1>1, <1>3, <1>4, <1>5, PushBackFacts
<1> HIDE DEF e
<1>7. /\ e \in Tables(n) /\ SameMeta(c, e) /\ Listed(e, m + 1, t)
      /\ \A j \in 0 .. n - 1 : SameData(c, e, j)
      /\ \A j \in 0 .. n - 1 : Outside(m, s, j) /\ j # i => e.item[j] = c.item[j]
  BY <1>6 DEF PushedTo
<1>8. /\ t \in [1 .. m + 1 -> 0 .. n - 1] /\ m + 1 \in Nat
      /\ (\A j \in 1 .. m : t[j] = s[j]) /\ t[m + 1] = i
  <2>1. AddOf(0 .. n - 1, m, i, s, t)
    BY <1>1, AddFacts
  <2> QED BY <1>1, <2>1 DEF AddOf
<1> HIDE DEF t
<1>9. InList(m + 1, t) = InList(m, s) \cup {i}
  <2>1. \A j \in 1 .. m + 1 : j \in 1 .. m \/ j = m + 1
    BY <1>1
  <2>2. \A j \in 1 .. m : j \in 1 .. m + 1
    BY <1>1
  <2>3. m + 1 \in 1 .. m + 1
    BY <1>1
  <2>4. InList(m + 1, t) \subseteq InList(m, s) \cup {i}
    BY <1>8, <2>1 DEF InList
  <2>5. InList(m, s) \cup {i} \subseteq InList(m + 1, t)
    BY <1>8, <2>2, <2>3 DEF InList
  <2> QED BY <2>4, <2>5
<1>10. /\ e.meta = d.meta /\ e.size = m + 1
       /\ \A j \in 0 .. n - 1 : e.item[j].key = d.item[j].key
       /\ \A j \in 0 .. n - 1 : e.item[j].val = IF j = i THEN v ELSE d.item[j].val
  <2>1. e.meta = d.meta /\ e.size = m + 1
    BY <1>1, <1>3, <1>7 DEF SameMeta
  <2>2. \A j \in 0 .. n - 1 : e.item[j].key = c.item[j].key /\ e.item[j].val = c.item[j].val
    BY <1>7 DEF SameData
  <2> QED BY <1>3, <2>1, <2>2
<1>11. /\ Occupied(e) = Occupied(d) /\ Heads(e) = Heads(d)
       /\ HomeOf(e) = HomeOf(d) /\ NextOf(e) = NextOf(d)
  BY <1>1, <1>7, <1>10, ChainsSame
<1>12. Chained(e, rank, NoSlot)
  BY <1>1, <1>11 DEF Chained
<1>13. DistinctKeys(e)
  <2>1. Occupied(d) \subseteq 0 .. n - 1
    BY <1>1, InTable
  <2> QED BY <1>1, <1>10, <1>11, <2>1 DEF DistinctKeys
<1>14. Body(e, n, NoSlot)
  <2> SUFFICES ASSUME NEW j \in 0 .. n - 1
               PROVE  IF j \in Occupied(e) THEN e.item[j].key \in Key
                      ELSE e.item[j] = NoItem /\ e.meta[j] = IF j = NoSlot THEN Protected ELSE Empty
    BY DEF Body
  <2>1. ASSUME j \notin Occupied(d) PROVE e.item[j] = d.item[j]
    <3>1. Outside(m, s, j) /\ j # i
      BY <1>1, <2>1, OutsideIs
    <3>2. e.item[j] = c.item[j]
      BY <1>7, <3>1
    <3>3. c.item[j] \in Item(n) /\ d.item[j] \in Item(n)
      BY <1>1, <1>3, TableFields
    <3>4. /\ c.item[j].prev = d.item[j].prev /\ c.item[j].next = d.item[j].next
          /\ c.item[j].key = d.item[j].key /\ c.item[j].val = d.item[j].val
      BY <1>3, <3>1
    <3> QED BY <1>1, <3>2, <3>3, <3>4, SameItem
  <2> QED BY <1>1, <1>10, <1>11, <2>1 DEF Body
<1>15. ASSUME NEW j \in 1 .. m + 1 PROVE e.item[t[j]].val \in Value
  <2>1. CASE j = m + 1
    BY <1>1, <1>8, <1>10, <2>1
  <2>2. CASE j # m + 1
    <3>1. j \in 1 .. m
      BY <1>1, <2>2
    <3>2. t[j] = s[j] /\ s[j] \in 0 .. n - 1 /\ d.item[s[j]].val \in Value
      BY <1>1, <1>8, <3>1
    <3> QED BY <1>10, <3>2
  <2> QED BY <2>1, <2>2
<1>16. Shape(n, e, m + 1, t, rank, NoSlot, NoSlot, {})
  BY <1>1, <1>7, <1>8, <1>9, <1>11, <1>12, <1>13, <1>14, <1>15 DEF Shape
<1>17. Sound(n, e, m + 1, t, rank)
  BY <1>10, <1>16 DEF Sound
<1>18. Along(e, m + 1, t) = Add(Along(d, m, s), m, <<k, v>>)
  <2>1. ASSUME NEW j \in 1 .. m + 1
        PROVE  <<e.item[t[j]].key, e.item[t[j]].val>> = IF j = m + 1 THEN <<k, v>> ELSE Along(d, m, s)[j]
    <3>1. CASE j = m + 1
      BY <1>1, <1>8, <1>10, <3>1
    <3>2. CASE j # m + 1
      <4>1. j \in 1 .. m
        BY <1>1, <3>2
      <4>2. t[j] = s[j] /\ s[j] \in 0 .. n - 1 /\ s[j] # i
        BY <1>1, <1>5, <1>8, <4>1 DEF Outside
      <4>3. e.item[t[j]].key = d.item[s[j]].key /\ e.item[t[j]].val = d.item[s[j]].val
        BY <1>10, <4>2
      <4> QED BY <3>2, <4>1, <4>3 DEF Along
    <3> QED BY <3>1, <3>2
  <2> QED BY <2>1 DEF Along, Add
<1>19. Finished(d, e, n, m, s, rank, i, k, v)
  BY <1>17, <1>18 DEF Finished, t
<1> QED BY <1>19 DEF e, c, Finish

(***************************************************************************)
(* TrySpareListHead: one turn of its loop.                                  *)
(***************************************************************************)

\* A node that moves keeps its place in the list, its key and its value.
Swapped(d, e, n, m, s, p, x) ==
  /\ Swap(s, m, p, x) \in [1 .. m -> 0 .. n - 1]
  /\ InList(m, Swap(s, m, p, x)) = (InList(m, s) \ {s[p]}) \cup {x}
  /\ Along(e, m, Swap(s, m, p, x)) = Along(d, m, s)
  /\ \A j \in 1 .. m : /\ Swap(s, m, p, x)[j] \in 0 .. n - 1
                       /\ e.item[Swap(s, m, p, x)[j]].val = d.item[s[j]].val

\* MoveNode to a free slot: the items do not change.
LEMMA SwapFacts ==
  ASSUME NEW n \in Nat \ {0}, NEW d \in Tables(n), NEW m \in Nat,
         NEW s \in [1 .. m -> 0 .. n - 1], NEW p \in 1 .. m, NEW x \in 0 .. n - 1,
         Listed(d, m, s), Outside(m, s, x), NEW e, MovedTo(d, e, n, m, s, p, x)
  PROVE  Swapped(d, e, n, m, s, p, x)
<1> DEFINE t == Swap(s, m, p, x)
<1>1. t \in [1 .. m -> 0 .. n - 1] /\ \A j \in 1 .. m : t[j] = IF j = p THEN x ELSE s[j]
  BY DEF Swap
<1> HIDE DEF t
<1>2. /\ e.item[x].key = d.item[s[p]].key /\ e.item[x].val = d.item[s[p]].val
      /\ \A j \in 0 .. n - 1 : j # s[p] /\ j # x => e.item[j].key = d.item[j].key /\ e.item[j].val = d.item[j].val
  BY DEF MovedTo, SameData
<1>3. \A j \in 1 .. m : j # p => s[j] # s[p] /\ s[j] # x /\ s[j] \in 0 .. n - 1
  BY DEF Listed, Injective, Outside
<1>4. \A j \in 1 .. m : /\ e.item[t[j]].key = d.item[s[j]].key
                        /\ e.item[t[j]].val = d.item[s[j]].val
  <2> TAKE j \in 1 .. m
  <2>1. CASE j = p BY <1>1, <1>2, <2>1
  <2>2. CASE j # p
    <3>1. s[j] # s[p] /\ s[j] # x /\ s[j] \in 0 .. n - 1 /\ t[j] = s[j]
      BY <1>1, <1>3, <2>2
    <3> QED BY <1>2, <3>1
  <2> QED BY <2>1, <2>2
<1>5. Along(e, m, t) = Along(d, m, s)
  BY <1>4 DEF Along
<1>6. InList(m, t) = (InList(m, s) \ {s[p]}) \cup {x}
  BY <1>1, <1>3 DEF InList
<1>7. \A j \in 1 .. m : t[j] \in 0 .. n - 1
  BY <1>1
<1> QED BY <1>1, <1>4, <1>5, <1>6, <1>7 DEF Swapped, t

\* The node in r, the next one after w, is moved to slot i.
Relinked(O, i, w, r, home, next, rank, home2, next2, rank2) ==
  /\ w \in O /\ r \in O /\ i \notin O /\ NoSlot \notin O /\ i # NoSlot
  /\ home[w] = home[r] /\ rank[r] = rank[w] + 1
  /\ \A j \in O \ {r} : home2[j] = home[j] /\ rank2[j] = rank[j]
  /\ \A j \in O \ {r} : j # w => next2[j] = next[j]
  /\ home2[i] = home[r] /\ next2[w] = i /\ next2[i] = NoSlot /\ rank2[i] = rank[r]

\* Relink, in the form in which the tables give its hypotheses.
LEMMA RelinkedLinked ==
  ASSUME NEW O, NEW H, NEW i, NEW w, NEW r, NEW home, NEW next, NEW rank, NEW home2, NEW next2, NEW rank2,
         Linked(O, H, home, next, rank, r), r \notin H,
         Relinked(O, i, w, r, home, next, rank, home2, next2, rank2)
  PROVE  Linked((O \ {r}) \cup {i}, H, home2, next2, rank2, next[r])
<1>1. /\ w \in O /\ r \in O /\ i \notin O /\ NoSlot \notin O /\ i # NoSlot
      /\ home[w] = home[r] /\ rank[r] = rank[w] + 1
      /\ \A j \in O \ {r} : home2[j] = home[j] /\ rank2[j] = rank[j]
      /\ \A j \in O \ {r} : j # w => next2[j] = next[j]
      /\ home2[i] = home[r] /\ next2[w] = i /\ next2[i] = NoSlot /\ rank2[i] = rank[r]
  BY DEF Relinked
<1>2. r \in {r, NoSlot}
  OBVIOUS
<1> QED BY <1>1, <1>2, Relink

\* r is the next slot to move, behind slot w.
Behind(d, rank, w, r) ==
  /\ w \in Occupied(d)
  /\ r # NoSlot => /\ r \in Occupied(d) /\ r \notin Heads(d)
                   /\ HomeOf(d)[w] = HomeOf(d)[r] /\ rank[r] = rank[w] + 1

\* Between two turns: the chain behind slot x.w is cut off and starts in slot x.r,
\* and no slot is protected before the first turn, the spared one after it.
Spares(n, x, m, s, rank, t, target) ==
  /\ Shape(n, x.table, m, s, rank, x.r, t, {}) /\ x.table.size = m
  /\ Behind(x.table, rank, x.w, x.r)
  /\ \/ t = NoSlot /\ x.r = target
     \/ t = target /\ target \notin Occupied(x.table)
\* The same, for some list of the items L.
SpareInv(n, x, m, L, target) ==
  \E s, rank, t : Spares(n, x, m, s, rank, t, target) /\ Along(x.table, m, s) = L

\* A turn of the loop of TrySpareListHead moves one node and keeps the items.
LEMMA SpareTurnMoves ==
  ASSUME NEW n, NEW x, NEW m, NEW s, NEW rank, NEW t, NEW target \in 0 .. n - 1,
         Spares(n, x, m, s, rank, t, target), x.r # NoSlot, EmptyJumps(x.table, x.w) # {}
  PROVE  SpareInv(n, SpareTurn(x, target), m, Along(x.table, m, s), target)
<1> DEFINE d == x.table
           w == x.w
           r == x.r
           jump == Min(EmptyJumps(d, w))
           i == At(d, w, jump)
           c == MoveNode(d, r, i)
           e == [c EXCEPT !.meta[i] = [kind |-> "body", jump |-> 0],
                          !.meta[r] = Vacated(r, target), !.meta[w].jump = jump]
           r2 == MoveToNext(d, r)
           y == SpareTurn(x, target)
<1>0. y = [table |-> e, w |-> i, r |-> r2]
  BY DEF SpareTurn
<1> HIDE DEF y
<1>1. /\ n \in Nat \ {0} /\ d \in Tables(n) /\ m \in Nat /\ s \in [1 .. m -> 0 .. n - 1]
      /\ Listed(d, m, s) /\ Occupied(d) = InList(m, s) /\ d.size = m
      /\ Chained(d, rank, r) /\ DistinctKeys(d) /\ Body(d, n, t)
      /\ \A j \in 1 .. m : d.item[s[j]].val \in Value
  BY DEF Shape, Spares
<1>2. /\ w \in Occupied(d) /\ r \in Occupied(d) /\ r \notin Heads(d)
      /\ HomeOf(d)[w] = HomeOf(d)[r] /\ rank[r] = rank[w] + 1
      /\ EmptyJumps(d, w) # {} /\ r # NoSlot
      /\ (t = NoSlot /\ r = target) \/ (t = target /\ target \notin Occupied(d))
  BY DEF Spares, Behind
<1> HIDE DEF d, w, r
<1>3. jump \in DOMAIN Probe /\ d.meta[i] = Empty
  <2>1. EmptyJumps(d, w) \subseteq Nat /\ EmptyJumps(d, w) \subseteq DOMAIN Probe
    BY DenseMapAssumption DEF EmptyJumps
  <2>2. jump \in EmptyJumps(d, w)
    BY <1>2, <2>1, MinIsLeast
  <2> HIDE DEF jump
  <2> QED BY <2>1, <2>2 DEF EmptyJumps
<1>i. i = At(d, w, jump)
  OBVIOUS
<1> HIDE DEF jump
<1>4. i \in 0 .. n - 1 /\ w \in 0 .. n - 1 /\ r \in 0 .. n - 1 /\ i \notin Occupied(d)
      /\ NoSlot \notin 0 .. n - 1 /\ Occupied(d) \subseteq 0 .. n - 1 /\ Heads(d) \subseteq Occupied(d)
  <2>1. NoSlot \notin 0 .. n - 1 /\ Occupied(d) \subseteq 0 .. n - 1 /\ Heads(d) \subseteq Occupied(d)
    BY <1>1, TableFields, InTable
  <2>2. i \in 0 .. n - 1
    BY <1>1, <1>2, <1>3, <2>1, AtIsSlot
  <2> HIDE DEF i
  <2>3. i \notin Occupied(d)
    BY <1>1, <1>3, <2>2, TagIs
  <2> QED BY <1>2, <2>1, <2>2, <2>3
<1> HIDE DEF i
<1>5. w # r /\ rank[w] \in Nat /\ rank[r] \in Nat /\ i # w /\ i # r /\ i # t
  <2>1. rank[w] \in Nat /\ rank[r] \in Nat
    BY <1>1, <1>2 DEF Chained, Linked
  <2>2. w # r
    BY <1>2, <2>1
  <2>3. i # w /\ i # r
    BY <1>2, <1>4
  <2>4. i # t
    BY <1>1, <1>3, <1>4 DEF Body, Empty, Protected
  <2> QED BY <2>1, <2>2, <2>3, <2>4
<1>6. PICK p \in 1 .. m : s[p] = r
  BY <1>1, <1>2 DEF InList
<1>7. Outside(m, s, i)
  BY <1>1, <1>4, OutsideIs
<1>8. MovedTo(d, c, n, m, s, p, i)
  BY <1>1, <1>4, <1>6, <1>7, MoveNodeFacts
<1>c. c = MoveNode(d, r, i)
  OBVIOUS
<1> HIDE DEF c
<1>9. Swapped(d, c, n, m, s, p, i)
  BY <1>1, <1>4, <1>7, <1>8, SwapFacts
<1> DEFINE u == Swap(s, m, p, i)
<1>10. /\ c \in Tables(n) /\ SameMeta(d, c) /\ Listed(c, m, u)
       /\ c.item[r] = NoItem /\ c.item[i].key = d.item[r].key
       /\ \A j \in 0 .. n - 1 : j # r /\ j # i => c.item[j].key = d.item[j].key
       /\ \A j \in 0 .. n - 1 : j \notin Occupied(d) /\ j # i => c.item[j] = d.item[j]
  <2>1. \A j \in 0 .. n - 1 : j \notin Occupied(d) => Outside(m, s, j)
    BY <1>1, OutsideIs
  <2> QED BY <1>6, <1>8, <2>1 DEF MovedTo, SameData
<1>11. /\ u \in [1 .. m -> 0 .. n - 1] /\ InList(m, u) = (Occupied(d) \ {r}) \cup {i}
       /\ Along(c, m, u) = Along(d, m, s)
       /\ \A j \in 1 .. m : u[j] \in 0 .. n - 1 /\ c.item[u[j]].val = d.item[s[j]].val
  BY <1>1, <1>6, <1>9 DEF Swapped
<1> HIDE DEF u
<1> DEFINE left == Vacated(r, target)
<1>12. left = (IF r = target THEN Protected ELSE Empty) /\ left \in Meta
  BY EmptyIsMeta DEF Vacated
<1>13. e = [c EXCEPT !.meta[i] = [kind |-> "body", jump |-> 0],
                     !.meta[r] = left, !.meta[w].jump = jump]
  OBVIOUS
<1> HIDE DEF left, e
<1>14. Retagged(c, e, n, r, i, w, jump, left)
  <2>1. jump \in {0} \cup DOMAIN Probe /\ r # i /\ r # w /\ i # w
    BY <1>3, <1>5
  <2>2. Retagged(c, Retag(c, r, i, w, jump, left), n, r, i, w, jump, left)
    BY <1>1, <1>4, <1>10, <1>12, <2>1, RetagFacts
  <2> QED BY <1>13, <2>2 DEF Retag
<1>15. /\ e \in Tables(n) /\ e.head = c.head /\ e.tail = c.tail /\ e.size = m /\ e.item = c.item
       /\ e.meta[i].kind = "body" /\ e.meta[i].jump = 0 /\ e.meta[r] = left
       /\ e.meta[w].kind = d.meta[w].kind /\ e.meta[w].jump = jump
       /\ \A j \in 0 .. n - 1 : j # i /\ j # r /\ j # w => e.meta[j] = d.meta[j]
  <2>1. e \in Tables(n) /\ e.head = c.head /\ e.tail = c.tail /\ e.size = c.size /\ e.item = c.item
    BY <1>14 DEF Retagged, SameEnds
  <2>2. /\ e.meta[i].kind = "body" /\ e.meta[i].jump = 0 /\ e.meta[r] = left
        /\ e.meta[w].kind = c.meta[w].kind /\ e.meta[w].jump = jump
    BY <1>14 DEF Retagged
  <2>3. \A j \in 0 .. n - 1 : j # i /\ j # r /\ j # w => e.meta[j] = c.meta[j]
    BY <1>14 DEF Retagged
  <2>4. c.meta = d.meta /\ c.size = d.size
    BY <1>10 DEF SameMeta
  <2> QED BY <1>1, <2>1, <2>2, <2>3, <2>4
<1> DEFINE O == Occupied(d)
           U == (O \ {r}) \cup {i}
           rank2 == [j \in 0 .. n - 1 |-> IF j = i THEN rank[r] ELSE rank[j]]
<1>16. Occupied(e) = U /\ Heads(e) = Heads(d)
  <2>0. Occupied(e) \subseteq 0 .. n - 1 /\ Heads(e) \subseteq Occupied(e)
    BY <1>1, <1>15, InTable
  <2>1. i \in Occupied(e) /\ i \notin Heads(e)
    BY <1>1, <1>4, <1>15, TagIs
  <2>2. r \notin Occupied(e)
    BY <1>1, <1>4, <1>12, <1>15, TagIs
  <2>3. ASSUME NEW j \in 0 .. n - 1, j # i, j # r
        PROVE  (j \in Occupied(e) <=> j \in Occupied(d)) /\ (j \in Heads(e) <=> j \in Heads(d))
    <3>1. e.meta[j].kind = d.meta[j].kind
      BY <1>15, <2>3
    <3> QED BY <1>1, <1>15, <3>1, TagSame
  <2> QED BY <1>2, <1>4, <2>0, <2>1, <2>2, <2>3
<1>17. ASSUME NEW j \in O \ {r}
       PROVE  /\ HomeOf(e)[j] = HomeOf(d)[j] /\ (j # w => NextOf(e)[j] = NextOf(d)[j])
              /\ rank2[j] = rank[j]
  <2>1. j \in 0 .. n - 1 /\ j # i /\ j # r
    BY <1>4
  <2>2. e.item[j].key = d.item[j].key /\ (j # w => e.meta[j].jump = d.meta[j].jump)
    BY <1>10, <1>15, <2>1
  <2>3. HomeOf(e)[j] = HomeOf(d)[j]
    BY <1>1, <1>15, <2>1, <2>2, HomeSame
  <2>4. j # w => NextOf(e)[j] = NextOf(d)[j]
    BY <1>1, <1>15, <2>1, <2>2, NextSame
  <2> QED BY <2>1, <2>3, <2>4
<1>18. /\ HomeOf(e)[i] = HomeOf(d)[r] /\ NextOf(e)[i] = NoSlot /\ rank2[i] = rank[r]
       /\ NextOf(e)[w] = i
  <2>1. HomeOf(e)[i] = HomeOf(d)[r]
    <3>1. HomeOf(e)[i] = Home(d, d.item[r].key)
      BY <1>1, <1>4, <1>10, <1>15, HomeIs
    <3>2. HomeOf(d)[r] = Home(d, d.item[r].key)
      BY <1>1, <1>4, HomeIs
    <3> QED BY <3>1, <3>2
  <2>2. NextOf(e)[i] = NoSlot
    BY <1>4, <1>1, <1>15, NextEnds
  <2>3. NextOf(e)[w] = i
    <3>1. e \in Tables(n) /\ d \in Tables(n) /\ w \in 0 .. n - 1 /\ jump \in DOMAIN Probe
      BY <1>1, <1>3, <1>4, <1>15
    <3>2. e.meta[w].jump = jump
      BY <1>15
    <3>3. NextOf(e)[w] = At(d, w, jump)
      BY <1>1, <3>1, <3>2, NextJumps
    <3> QED BY <1>i, <3>3
  <2> QED BY <1>4, <2>1, <2>2, <2>3
<1>19. NextOf(d)[r] = r2
  BY <1>1, <1>4, TableFields DEF NextOf
<1> HIDE DEF O, U, rank2, r2
<1>20. Chained(e, rank2, r2)
  <2>1. Linked(O, Heads(d), HomeOf(d), NextOf(d), rank, r)
    BY <1>1 DEF Chained, O
  <2>2. \A j \in O \ {r} : HomeOf(e)[j] = HomeOf(d)[j] /\ rank2[j] = rank[j]
    BY <1>17
  <2>3. \A j \in O \ {r} : j # w => NextOf(e)[j] = NextOf(d)[j]
    BY <1>17
  <2>4. w \in O /\ r \in O /\ i \notin O /\ NoSlot \notin O /\ i # NoSlot
    BY <1>2, <1>4 DEF O
  <2>5. Relinked(O, i, w, r, HomeOf(d), NextOf(d), rank, HomeOf(e), NextOf(e), rank2)
    BY <1>2, <1>18, <2>2, <2>3, <2>4 DEF Relinked
  <2>6. Linked((O \ {r}) \cup {i}, Heads(d), HomeOf(e), NextOf(e), rank2, NextOf(d)[r])
    BY <1>2, <2>1, <2>5, RelinkedLinked
  <2> QED BY <1>16, <1>19, <2>6 DEF Chained, U
<1>21. DistinctKeys(e)
  <2>1. \A j \in O \ {r} : e.item[j].key = d.item[j].key
    BY <1>4, <1>10, <1>15 DEF O
  <2>2. e.item[i].key = d.item[r].key
    BY <1>10, <1>15
  <2>3. ASSUME NEW j \in U, NEW l \in U, e.item[j].key = e.item[l].key PROVE j = l
    <3>1. CASE j = i /\ l = i
      BY <3>1
    <3>2. CASE j = i /\ l # i
      BY <1>1, <1>2, <2>1, <2>2, <2>3, <3>2 DEF DistinctKeys, U, O
    <3>3. CASE j # i /\ l = i
      BY <1>1, <1>2, <2>1, <2>2, <2>3, <3>3 DEF DistinctKeys, U, O
    <3>4. CASE j # i /\ l # i
      BY <1>1, <2>1, <2>3, <3>4 DEF DistinctKeys, U, O
    <3> QED BY <3>1, <3>2, <3>3, <3>4
  <2> QED BY <1>16, <2>3 DEF DistinctKeys
<1> DEFINE t2 == IF r = target THEN target ELSE t
<1>22. /\ t2 = target /\ target \notin Occupied(e)
       /\ \A j \in 0 .. n - 1 : j # r => (j = t2 <=> j = t)
       /\ r = t2 <=> r = target
  <2>1. i # target
    BY <1>2, <1>4, <1>5
  <2> QED BY <1>2, <1>4, <1>16, <2>1 DEF U, O
<1> HIDE DEF t2
<1>23. Body(e, n, t2)
  <2> SUFFICES ASSUME NEW j \in 0 .. n - 1
               PROVE  IF j \in Occupied(e) THEN e.item[j].key \in Key
                      ELSE e.item[j] = NoItem /\ e.meta[j] = IF j = t2 THEN Protected ELSE Empty
    BY DEF Body
  <2>1. CASE j = i
    <3>1. j \in Occupied(e) /\ e.item[j].key = d.item[r].key
      BY <1>10, <1>15, <1>16, <2>1 DEF U
    <3> QED BY <1>1, <1>2, <1>4, <3>1 DEF Body
  <2>2. CASE j = r
    <3>1. j \notin Occupied(e) /\ e.item[j] = NoItem /\ e.meta[j] = left
      BY <1>5, <1>10, <1>15, <1>16, <2>2 DEF U
    <3> QED BY <1>12, <1>22, <2>2, <3>1
  <2>3. CASE j # i /\ j # r
    <3>1. j \in Occupied(e) <=> j \in Occupied(d)
      BY <1>16, <2>3 DEF U, O
    <3>2. CASE j \in Occupied(d)
      <4>1. e.item[j].key = d.item[j].key
        BY <1>10, <1>15, <2>3
      <4> QED BY <1>1, <3>1, <3>2, <4>1 DEF Body
    <3>3. CASE j \notin Occupied(d)
      <4>1. e.item[j] = d.item[j] /\ e.meta[j] = d.meta[j]
        BY <1>2, <1>10, <1>15, <2>3, <3>3
      <4>2. d.item[j] = NoItem /\ d.meta[j] = IF j = t THEN Protected ELSE Empty
        BY <1>1, <3>3 DEF Body
      <4> QED BY <1>22, <2>3, <3>1, <3>3, <4>1, <4>2
    <3> QED BY <3>2, <3>3
  <2> QED BY <2>1, <2>2, <2>3
<1>24. Listed(e, m, u)
  <2>1. \A j \in 1 .. m : e.item[u[j]].prev = c.item[u[j]].prev /\ e.item[u[j]].next = c.item[u[j]].next
    BY <1>15
  <2> QED BY <1>1, <1>10, <1>11, <1>15, <2>1, ListSame
<1>25. Along(e, m, u) = Along(d, m, s) /\ \A j \in 1 .. m : e.item[u[j]].val \in Value
  <2>1. Along(e, m, u) = Along(c, m, u)
    BY <1>15 DEF Along
  <2>2. \A j \in 1 .. m : e.item[u[j]].val \in Value
    BY <1>1, <1>11, <1>15
  <2> QED BY <1>11, <2>1, <2>2
<1>26. Shape(n, e, m, u, rank2, r2, t2, {})
  <2>1. Occupied(e) = InList(m, u)
    BY <1>11, <1>16 DEF U, O
  <2> QED BY <1>1, <1>11, <1>15, <1>20, <1>21, <1>23, <1>24, <1>25, <2>1 DEF Shape
<1>27. Behind(e, rank2, i, r2)
  <2>1. i \in Occupied(e)
    BY <1>16 DEF U
  <2>2. ASSUME r2 # NoSlot
        PROVE  /\ r2 \in Occupied(e) /\ r2 \notin Heads(e)
               /\ HomeOf(e)[i] = HomeOf(e)[r2] /\ rank2[r2] = rank2[i] + 1
    <3>1. /\ r2 \in O /\ HomeOf(d)[r2] = HomeOf(d)[r] /\ rank[r2] = rank[r] + 1
          /\ (r2 \in Heads(d) <=> rank[r2] = 1) /\ rank[r] >= 1
      BY <1>1, <1>2, <1>19, <2>2 DEF Chained, Linked, O
    <3>2. r2 # r /\ r2 \notin Heads(d)
      BY <1>5, <3>1
    <3>3. r2 \in O \ {r}
      BY <3>1, <3>2
    <3>4. HomeOf(e)[r2] = HomeOf(d)[r2] /\ rank2[r2] = rank[r2]
      BY <1>17, <3>3
    <3> QED BY <1>16, <1>18, <3>1, <3>2, <3>3, <3>4 DEF U
  <2> QED BY <2>1, <2>2 DEF Behind
<1>28. Spares(n, y, m, u, rank2, t2, target)
  <2>1. y.table = e /\ y.w = i /\ y.r = r2
    BY <1>0
  <2> QED BY <1>15, <1>22, <1>26, <1>27, <2>1 DEF Spares
<1>29. Along(y.table, m, u) = Along(d, m, s)
  BY <1>0, <1>25
<1> QED BY <1>28, <1>29 DEF SpareInv, y, d

(***************************************************************************)
(* TrySpareListHead: any number of turns, and what it leaves behind.        *)
(***************************************************************************)

\* Chains without a loose slot may be said to have one.
LEMMA Unloosen ==
  ASSUME NEW O, NEW H, NEW home, NEW next, NEW rank, NEW r, Linked(O, H, home, next, rank, NoSlot),
         NoSlot \notin O
  PROVE  Linked(O, H, home, next, rank, r)
  BY DEF Linked

\* The states of the loop that satisfy its invariant.
SpareStates(n, m, L, target) ==
  {x \in [table : Tables(n), w : 0 .. n - 1, r : SlotOrNone(n)] : SpareInv(n, x, m, L, target)}

\* A turn stays among them, whether it moves a node or not.
LEMMA SpareTurnFacts ==
  ASSUME NEW n \in Nat \ {0}, NEW m, NEW L, NEW target \in 0 .. n - 1,
         NEW x \in SpareStates(n, m, L, target)
  PROVE  SpareTurn(x, target) \in SpareStates(n, m, L, target)
<1> DEFINE y == SpareTurn(x, target)
<1>1. x \in [table : Tables(n), w : 0 .. n - 1, r : SlotOrNone(n)] /\ SpareInv(n, x, m, L, target)
  BY DEF SpareStates
<1>2. CASE x.r = NoSlot \/ EmptyJumps(x.table, x.w) = {}
  BY <1>2 DEF SpareTurn
<1>3. CASE x.r # NoSlot /\ EmptyJumps(x.table, x.w) # {}
  <2>1. PICK s, rank, t : Spares(n, x, m, s, rank, t, target) /\ Along(x.table, m, s) = L
    BY <1>1 DEF SpareInv
  <2>2. SpareInv(n, y, m, L, target)
    BY <1>3, <2>1, SpareTurnMoves
  <2>3. PICK s2, rank2, t2 : Spares(n, y, m, s2, rank2, t2, target)
    BY <2>2 DEF SpareInv
  <2>4. y.table \in Tables(n) /\ y.w \in Occupied(y.table) /\ (y.r # NoSlot => y.r \in Occupied(y.table))
    BY <2>3 DEF Spares, Shape, Behind
  <2>5. y.w \in 0 .. n - 1 /\ y.r \in SlotOrNone(n)
    BY <2>4, InTable DEF SlotOrNone
  <2>6. y = [table |-> y.table, w |-> y.w, r |-> y.r]
    BY <1>3 DEF SpareTurn
  <2> HIDE DEF y
  <2>7. y \in [table : Tables(n), w : 0 .. n - 1, r : SlotOrNone(n)]
    BY <2>4, <2>5, <2>6
  <2> QED BY <2>2, <2>7 DEF SpareStates, y
<1> QED BY <1>2, <1>3

\* So the invariant holds after any number of turns.
LEMMA SpareFacts ==
  ASSUME NEW n, NEW d, NEW m, NEW s, NEW rank, Sound(n, d, m, s, rank),
         NEW target \in Occupied(d), target \notin Heads(d), NEW q \in Nat
  PROVE  SpareInv(n, Spare(d, target)[q], m, Along(d, m, s), target)
<1> DEFINE S == SpareStates(n, m, Along(d, m, s), target)
           a == [table |-> d, w |-> FindPrev(d, target), r |-> target]
           f == [x \in S |-> SpareTurn(x, target)]
           IsTurn(w) == w = [j \in Nat |-> IF j = 0 THEN a ELSE SpareTurn(w[j - 1], target)]
<1>1. /\ n \in Nat \ {0} /\ d \in Tables(n) /\ Chained(d, rank, NoSlot) /\ d.size = m
      /\ Shape(n, d, m, s, rank, NoSlot, NoSlot, {})
  BY DEF Sound, Shape
<1>2. NoSlot \notin 0 .. n - 1 /\ Occupied(d) \subseteq 0 .. n - 1 /\ target \in 0 .. n - 1
  BY <1>1, TableFields, InTable
<1>3. a \in S
  <2>1. Leads(d, rank, a.w, target)
    BY <1>1, FindPrevFacts
  <2>2. Behind(d, rank, a.w, target)
    BY <2>1 DEF Behind, Leads
  <2>3. Chained(d, rank, target)
    <3>1. NoSlot \notin Occupied(d) BY <1>2
    <3> QED BY <1>1, <3>1, Unloosen DEF Chained
  <2>4. Shape(n, d, m, s, rank, target, NoSlot, {})
    BY <1>1, <2>3 DEF Shape
  <2>5. a.w \in 0 .. n - 1
    BY <1>2, <2>2 DEF Behind
  <2>6. a = [table |-> d, w |-> a.w, r |-> target] /\ a.table = d /\ a.r = target
    OBVIOUS
  <2> HIDE DEF a
  <2>7. Spares(n, a, m, s, rank, NoSlot, target)
    BY <1>1, <2>2, <2>4, <2>6 DEF Spares
  <2>8. SpareInv(n, a, m, Along(d, m, s), target)
    BY <2>6, <2>7 DEF SpareInv
  <2>9. a \in [table : Tables(n), w : 0 .. n - 1, r : SlotOrNone(n)]
    BY <1>1, <1>2, <2>5, <2>6 DEF SlotOrNone
  <2> QED BY <2>8, <2>9 DEF SpareStates
<1>4. \A x \in S : SpareTurn(x, target) \in S
  BY <1>1, <1>2, SpareTurnFacts
<1>s. \A x \in S : SpareInv(n, x, m, Along(d, m, s), target)
  BY DEF SpareStates
<1> HIDE DEF S, a
<1>5. f \in [S -> S] /\ \A x \in S : f[x] = SpareTurn(x, target)
  BY <1>4
<1> HIDE DEF f
<1>6. PICK w : Iteration(w, S, a, f)
  BY <1>3, <1>5, IterationExists
<1>7. IsTurn(w)
  <2>1. w \in [Nat -> S] /\ w[0] = a /\ \A j \in Nat : w[j + 1] = SpareTurn(w[j], target)
    BY <1>5, <1>6 DEF Iteration
  <2>2. \A j \in Nat : w[j] = IF j = 0 THEN a ELSE SpareTurn(w[j - 1], target)
    <3> TAKE j \in Nat
    <3>1. CASE j = 0 BY <2>1, <3>1
    <3>2. CASE j # 0
      <4>1. j - 1 \in Nat /\ (j - 1) + 1 = j BY <3>2
      <4> QED BY <2>1, <3>2, <4>1
    <3> QED BY <3>1, <3>2
  <2> QED BY <2>1, <2>2
<1>8. IsTurn(Spare(d, target))
  <2>1. Spare(d, target) = CHOOSE v : IsTurn(v)
    BY DEF Spare, a
  <2> HIDE DEF IsTurn
  <2> QED BY <1>7, <2>1
<1> DEFINE u == Spare(d, target)
           P == {j \in Nat : u[j] \in S}
<1>9. u = [j \in Nat |-> IF j = 0 THEN a ELSE SpareTurn(u[j - 1], target)]
  BY <1>8
<1> HIDE DEF u
<1>10. 0 \in P
  BY <1>3, <1>9
<1>11. ASSUME NEW j \in Nat, j \in P PROVE j + 1 \in P
  <2>1. j + 1 \in Nat /\ j + 1 # 0 /\ (j + 1) - 1 = j
    OBVIOUS
  <2>2. u[j + 1] = SpareTurn(u[(j + 1) - 1], target)
    BY <1>9, <2>1
  <2> QED BY <1>4, <1>11, <2>1, <2>2
<1>12. Nat \subseteq P
  <2> HIDE DEF P
  <2> QED BY <1>10, <1>11, NatInd
<1> QED BY <1>12, <1>s DEF u

\* What TryInsert of key k leaves of the items L of table d.
Tried(n, m, L, k, try) ==
  IF try.done
  THEN \E s, rank :
         \/ /\ Half(n, try.table, m, s, rank, try.at, k) /\ Along(try.table, m, s) = L
            /\ \A q \in 1 .. m : L[q][1] # k
         \/ \E p \in 1 .. m : /\ Half(n, try.table, m - 1, s, rank, try.at, k)
                              /\ Along(try.table, m - 1, s) = Cut(L, m, p) /\ L[p][1] = k
  ELSE Items(try.table) = L

\* TrySpareListHead either puts the key into the slot it has spared, in a table
\* which is consistent, or leaves the items as they were.
LEMMA TrySpareFacts ==
  ASSUME NEW n, NEW d, NEW m, NEW s, NEW rank, Sound(n, d, m, s, rank), NEW k \in Key,
         Home(d, k) \in Occupied(d), Home(d, k) \notin Heads(d),
         \A j \in Occupied(d) : d.item[j].key # k
  PROVE  Tried(n, m, Along(d, m, s), k, TrySpareListHead(d, Home(d, k), k))
<1> DEFINE target == Home(d, k)
           x == Spare(d, target)[d.slots]
           L == Along(d, m, s)
           e == x.table
<1>1. /\ n \in Nat \ {0} /\ d \in Tables(n) /\ d.slots = n /\ m \in Nat
      /\ Occupied(d) = InList(m, s)
  BY TableFields DEF Sound, Shape
<1>2. SpareInv(n, x, m, L, target)
  BY <1>1, SpareFacts
<1>0. TrySpareListHead(d, Home(d, k), k) =
        IF x.r = NoSlot
        THEN [done |-> TRUE, at |-> target, table |-> NewNode(x.table, target, k, "head")]
        ELSE [done |-> FALSE, at |-> NoSlot, table |-> x.table]
  BY DEF TrySpareListHead
<1> HIDE DEF x
<1>3. PICK u, rank2, t : Spares(n, x, m, u, rank2, t, target) /\ Along(e, m, u) = L
  BY <1>2 DEF SpareInv
<1>4. /\ Shape(n, e, m, u, rank2, x.r, t, {}) /\ e.size = m
      /\ \/ t = NoSlot /\ x.r = target
         \/ t = target /\ target \notin Occupied(e)
  BY <1>3 DEF Spares
<1>5. /\ e \in Tables(n) /\ Listed(e, m, u) /\ u \in [1 .. m -> 0 .. n - 1]
      /\ Occupied(e) = InList(m, u)
  BY <1>4 DEF Shape
<1>6. \A q \in 1 .. m : L[q][1] # k
  BY <1>1 DEF Along, InList
<1>7. CASE x.r # NoSlot
  <2>1. ItemsAre(e, m, u)
    BY <1>1, <1>5, ItemsFacts
  <2> QED BY <1>0, <1>3, <1>7, <2>1 DEF ItemsAre, Tried
<1>8. CASE x.r = NoSlot
  <2>1. target \in 0 .. n - 1 /\ NoSlot \notin 0 .. n - 1
    BY <1>1, HomeIsSlot, TableFields
  <2>2. t = target /\ target \notin Occupied(e)
    BY <1>4, <1>8, <2>1
  <2>3. \A j \in Occupied(e) : e.item[j].key # k
    <3> SUFFICES ASSUME NEW q \in 1 .. m PROVE e.item[u[q]].key # k
      BY <1>5 DEF InList
    <3>1. L[q][1] = e.item[u[q]].key
      BY <1>3 DEF Along
    <3> QED BY <1>6, <3>1
  <2>4. Home(e, k) = target
    BY <1>1, <1>5, TableFields DEF Home
  <2> DEFINE g == NewNode(e, target, k, "head")
  <2>5. Shape(n, e, m, u, rank2, NoSlot, target, {})
    BY <1>4, <1>8, <2>2
  <2> HIDE DEF target
  <2>6. Added(e, g, n, m, u, target, k)
    <3>1. target \in {NoSlot, target}
      OBVIOUS
    <3> QED BY <1>4, <2>1, <2>2, <2>3, <2>4, <2>5, <3>1, AddHead
  <2> HIDE DEF g
  <2>7. PICK rank3 : Half(n, g, m, u, rank3, target, k)
    BY <2>6 DEF Added
  <2>8. Along(g, m, u) = L
    BY <1>3, <2>6 DEF Added
  <2>9. TrySpareListHead(d, Home(d, k), k) = [done |-> TRUE, at |-> target, table |-> g]
    BY <1>0, <1>8 DEF g
  <2> DEFINE try == TrySpareListHead(d, Home(d, k), k)
  <2>10. try.done /\ try.at = target /\ try.table = g
    BY <2>9
  <2> HIDE DEF try, L
  <2>11. Tried(n, m, L, k, try)
    BY <1>6, <2>7, <2>8, <2>10 DEF Tried
  <2> QED BY <2>11 DEF try, L
<1> QED BY <1>7, <1>8

(***************************************************************************)
(* TryInsert.                                                               *)
(***************************************************************************)

\* A chain starts where its keys hash to.
LEMMA HomeIsHead ==
  ASSUME NEW n \in Nat \ {0}, NEW d \in Tables(n), NEW rank, NEW loose, Chained(d, rank, loose),
         NEW i \in Occupied(d)
  PROVE  Home(d, d.item[i].key) \in Heads(d)
<1>1. i \in 0 .. n - 1
  BY InTable
<1>2. HomeOf(d)[i] = Home(d, d.item[i].key)
  BY <1>1, HomeIs
<1> QED BY <1>2 DEF Chained, Linked

\* The last slot of Chain leads nowhere and has the home of the first.
LEMMA TailOfChain ==
  ASSUME NEW n \in Nat \ {0}, NEW d \in Tables(n), NEW rank, Chained(d, rank, NoSlot),
         NEW i \in Occupied(d)
  PROVE  LET w == Last(Chain(d, i))
         IN w \in Occupied(d) /\ NextOf(d)[w] = NoSlot /\ HomeOf(d)[w] = HomeOf(d)[i]
<1> DEFINE c == Chain(d, i)
<1>1. PICK len : IsChain(d, rank, i, c, len)
  BY ChainFacts
<1> HIDE DEF c
<1>2. /\ len \in Nat /\ len \in 1 .. len /\ c \in [1 .. len -> Slots(d)]
      /\ MoveToNext(d, c[len]) = NoSlot /\ c[len] \in Occupied(d) /\ HomeOf(d)[c[len]] = HomeOf(d)[i]
  BY <1>1 DEF IsChain, After
<1>3. Len(c) = len
  BY <1>2, LenIs
<1>4. Last(c) = c[len]
  BY <1>3 DEF Last
<1>5. NextOf(d)[c[len]] = NoSlot
  BY <1>2 DEF NextOf, Occupied
<1> QED BY <1>2, <1>4, <1>5 DEF c

\* TryInsert makes room for the key, or leaves the items as they were for a rehash.
LEMMA TryInsertFacts ==
  ASSUME NEW n, NEW d, NEW m, NEW s, NEW rank, Sound(n, d, m, s, rank), NEW k \in Key
  PROVE  Tried(n, m, Along(d, m, s), k, TryInsert(d, k))
<1> DEFINE home == Home(d, k)
           fail == [done |-> FALSE, at |-> NoSlot, table |-> d]
           tail == Last(Chain(d, home))
           jump == Min(EmptyJumps(d, tail))
           to == At(d, tail, jump)
           L == Along(d, m, s)
           try == TryInsert(d, k)
<1>1. /\ n \in Nat \ {0} /\ d \in Tables(n) /\ m \in Nat /\ s \in [1 .. m -> 0 .. n - 1]
      /\ Listed(d, m, s) /\ Occupied(d) = InList(m, s) /\ d.size = m
      /\ Chained(d, rank, NoSlot) /\ Body(d, n, NoSlot)
      /\ Shape(n, d, m, s, rank, NoSlot, NoSlot, {})
  BY DEF Shape, Sound
<1>2. home \in 0 .. n - 1 /\ NoSlot \notin 0 .. n - 1
  BY <1>1, HomeIsSlot, TableFields
<1>3. IsHead(d, home) <=> home \in Heads(d)
  BY <1>1, <1>2, TableFields DEF IsHead, Heads, Occupied
<1>4. \A i \in Occupied(d) : d.item[i].key = k => home \in Heads(d)
  BY <1>1, HomeIsHead
<1>5. (\A j \in Occupied(d) : d.item[j].key # k) => \A q \in 1 .. m : L[q][1] # k
  BY <1>1 DEF Along, InList
<1>6. Items(d) = L
  <2>1. ItemsAre(d, m, s)
    BY <1>1, ItemsFacts
  <2> QED BY <2>1 DEF ItemsAre
<1>7. try = fail => Tried(n, m, L, k, try)
  BY <1>6 DEF Tried
<1>8. ASSUME NEW e, NEW i, Added(d, e, n, m, s, i, k), try = [done |-> TRUE, at |-> i, table |-> e],
             \A j \in Occupied(d) : d.item[j].key # k
      PROVE  Tried(n, m, L, k, try)
  <2>1. PICK rank2 : Half(n, e, m, s, rank2, i, k)
    BY <1>8 DEF Added
  <2>2. Along(e, m, s) = L
    BY <1>8 DEF Added
  <2>3. \A q \in 1 .. m : L[q][1] # k
    BY <1>5, <1>8
  <2>4. try.done /\ try.at = i /\ try.table = e
    BY <1>8
  <2> HIDE DEF try, L
  <2> QED BY <2>1, <2>2, <2>3, <2>4 DEF Tried
<1>9. CASE d.meta[home] = Empty
  <2>1. try = [done |-> TRUE, at |-> home, table |-> NewNode(d, home, k, "head")]
    BY <1>9 DEF TryInsert, IsHead, Empty
  <2>2. home \notin Occupied(d) /\ home \notin Heads(d)
    BY <1>1, <1>2, <1>9, TagIs, InTable
  <2>3. \A j \in Occupied(d) : d.item[j].key # k
    BY <1>4, <2>2
  <2>4. Added(d, NewNode(d, home, k, "head"), n, m, s, home, k)
    <3> DEFINE h == home
    <3>0. h = Home(d, k)
      OBVIOUS
    <3> HIDE DEF h
    <3>1. NoSlot \in {NoSlot, h} /\ h \in 0 .. n - 1 /\ h \notin Occupied(d)
      BY <1>2, <2>2 DEF h
    <3>2. Added(d, NewNode(d, h, k, "head"), n, m, s, h, k)
      BY <1>1, <2>3, <3>0, <3>1, AddHead
    <3> QED BY <3>2 DEF h
  <2> QED BY <1>8, <2>1, <2>3, <2>4
<1>10. CASE d.meta[home] # Empty /\ ~IsHead(d, home)
  <2>1. try = IF IsFull(d) THEN fail ELSE TrySpareListHead(d, home, k)
    BY <1>10 DEF TryInsert
  <2>2. home \notin Heads(d) /\ home \in Occupied(d)
    BY <1>1, <1>2, <1>3, <1>10 DEF Body
  <2>3. \A j \in Occupied(d) : d.item[j].key # k
    BY <1>4, <2>2
  <2>4. Tried(n, m, L, k, TrySpareListHead(d, home, k))
    BY <2>2, <2>3, TrySpareFacts
  <2> QED BY <1>7, <2>1, <2>4
<1>11. Found(d, k, Search(d, k))
  <2>1. d.size = 0 => Occupied(d) = {}
    BY <1>1 DEF InList
  <2> QED BY <1>1, <2>1, SearchFacts
<1>12. CASE IsHead(d, home) /\ Search(d, k) # NoSlot
  <2> DEFINE i == Search(d, k)
             e == IterListUnlink(d, i)
  <2>1. try = [done |-> TRUE, at |-> i, table |-> e]
    <3>1. d.meta[home] # Empty
      BY <1>12 DEF IsHead, Empty
    <3> QED BY <1>12, <3>1 DEF TryInsert
  <2>2. i \in Occupied(d) /\ d.item[i].key = k
    BY <1>11, <1>12 DEF Found
  <2> HIDE DEF i
  <2>3. PICK p \in 1 .. m : s[p] = i
    BY <1>1, <2>2 DEF InList
  <2>4. Pulled(d, e, n, m, s, rank, p)
    BY <2>3, PullFacts
  <2> HIDE DEF e
  <2>5. Half(n, e, m - 1, Cut(s, m, p), rank, i, k) /\ Along(e, m - 1, Cut(s, m, p)) = Cut(L, m, p)
    BY <2>2, <2>3, <2>4 DEF Pulled
  <2>6. L[p][1] = k
    BY <2>2, <2>3 DEF Along
  <2>7. try.done /\ try.at = i /\ try.table = e
    BY <2>1
  <2> HIDE DEF try, L
  <2>8. Tried(n, m, L, k, try)
    BY <2>5, <2>6, <2>7 DEF Tried
  <2> QED BY <2>8 DEF try, L
<1>13. CASE IsHead(d, home) /\ Search(d, k) = NoSlot
  <2>1. try = IF IsFull(d) \/ EmptyJumps(d, tail) = {} THEN fail
              ELSE [done |-> TRUE, at |-> to, table |-> SetJump(NewNode(d, to, k, "body"), tail, jump)]
    <3>1. d.meta[home] # Empty
      BY <1>13 DEF IsHead, Empty
    <3> QED BY <1>13, <3>1 DEF TryInsert
  <2>2. \A j \in Occupied(d) : d.item[j].key # k
    BY <1>11, <1>13 DEF Found
  <2>3. home \in Heads(d) /\ home \in Occupied(d)
    BY <1>1, <1>3, <1>13, InTable
  <2>4. tail \in Occupied(d) /\ NextOf(d)[tail] = NoSlot /\ HomeOf(d)[tail] = home
    <3>1. HomeOf(d)[home] = home
      BY <1>1, <2>3 DEF Chained, Linked
    <3> QED BY <1>1, <2>3, <3>1, TailOfChain
  <2>5. CASE EmptyJumps(d, tail) # {}
    <3>1. EmptyJumps(d, tail) \subseteq Nat /\ EmptyJumps(d, tail) \subseteq DOMAIN Probe
      BY DenseMapAssumption DEF EmptyJumps
    <3>2. jump \in EmptyJumps(d, tail)
      BY <2>5, <3>1, MinIsLeast
    <3> DEFINE w == tail
               j == jump
               e == SetJump(NewNode(d, At(d, w, j), k, "body"), w, j)
    <3>3. j \in DOMAIN Probe /\ d.meta[At(d, w, j)] = Empty
      BY <3>2 DEF EmptyJumps
    <3>4. w \in Occupied(d) /\ NextOf(d)[w] = NoSlot /\ HomeOf(d)[w] = Home(d, k)
      BY <2>4
    <3>5. try = IF IsFull(d) THEN fail ELSE [done |-> TRUE, at |-> At(d, w, j), table |-> e]
      BY <2>1, <2>5
    <3> HIDE DEF w, j
    <3>6. Added(d, e, n, m, s, At(d, w, j), k)
      BY <2>2, <3>3, <3>4, AddTail
    <3> HIDE DEF e, try, L, fail
    <3>7. Tried(n, m, L, k, try)
      BY <1>7, <1>8, <2>2, <3>5, <3>6
    <3> QED BY <3>7 DEF try, L
  <2>6. CASE EmptyJumps(d, tail) = {}
    BY <1>7, <2>1, <2>6
  <2> QED BY <2>5, <2>6
<1> QED BY <1>9, <1>10, <1>12, <1>13

(***************************************************************************)
(* DenseErase: the last item of the chain moves into the slot of the erased one.*)
(***************************************************************************)

\* Slot x is the last of its chain, and the slot that led to it does not any more.
LastUnlinked(O, x, home, next, home2, next2) ==
  /\ x \in O /\ NoSlot \notin O /\ next[x] = NoSlot
  /\ \A j \in O \ {x} : home2[j] = home[j]
  /\ \A j \in O \ {x} : next2[j] = IF next[j] = x THEN NoSlot ELSE next[j]

\* UnlinkLast, in the form in which the tables give its hypotheses.
LEMMA LastUnlinkedLinked ==
  ASSUME NEW O, NEW H, NEW x, NEW home, NEW next, NEW rank, NEW home2, NEW next2,
         Linked(O, H, home, next, rank, NoSlot), LastUnlinked(O, x, home, next, home2, next2)
  PROVE  Linked(O \ {x}, H \ {x}, home2, next2, rank, NoSlot)
<1>1. /\ x \in O /\ NoSlot \notin O /\ next[x] = NoSlot
      /\ \A j \in O \ {x} : home2[j] = home[j]
      /\ \A j \in O \ {x} : next2[j] = IF next[j] = x THEN NoSlot ELSE next[j]
  BY DEF LastUnlinked
<1> QED BY <1>1, UnlinkLast

\* e is consistent and holds the items of d without the p-th.
Erased(d, e, n, m, s, p) ==
  \E t, rank : /\ Sound(n, e, m - 1, t, rank)
               /\ Along(e, m - 1, t) = Cut(Along(d, m, s), m, p)

\* The last slot of the chain of s[p] is freed and the item in it goes to s[p].
EraseMoves(d, n, m, i, last, prev) ==
  SetJump([MoveNode(IterListUnlink([d EXCEPT !.size = @ - 1], i), last, i)
             EXCEPT !.meta[last] = Empty, !.item[last] = NoItem], prev, 0)

\* The slot whose item moved is freed, the chain ends before it, and the items but
\* the erased one keep their order.
LEMMA EraseMovesFacts ==
  ASSUME NEW n, NEW d, NEW m, NEW s, NEW rank, Sound(n, d, m, s, rank), NEW p \in 1 .. m,
         NEW last \in Occupied(d), NEW prev \in Occupied(d), NextOf(d)[prev] = last,
         NextOf(d)[last] = NoSlot, HomeOf(d)[last] = HomeOf(d)[s[p]], last # s[p]
  PROVE  Erased(d, EraseMoves(d, n, m, s[p], last, prev), n, m, s, p)
<1> DEFINE i == s[p]
           a == [d EXCEPT !.size = @ - 1]
           b == IterListUnlink(a, i)
           c == MoveNode(b, last, i)
           f == [c EXCEPT !.meta[last] = Empty, !.item[last] = NoItem]
           e == SetJump(f, prev, 0)
           O == Occupied(d)
           t == Cut(s, m, p)
<1>1. /\ n \in Nat \ {0} /\ d \in Tables(n) /\ m \in Nat /\ s \in [1 .. m -> 0 .. n - 1]
      /\ Listed(d, m, s) /\ Occupied(d) = InList(m, s) /\ d.size = m
      /\ Chained(d, rank, NoSlot) /\ DistinctKeys(d) /\ Body(d, n, NoSlot)
      /\ \A j \in 1 .. m : d.item[s[j]].val \in Value
  BY DEF Shape, Sound
<1>2. /\ i \in 0 .. n - 1 /\ i \in O /\ last \in 0 .. n - 1 /\ prev \in 0 .. n - 1 /\ prev # last
      /\ O \subseteq 0 .. n - 1 /\ NoSlot \notin 0 .. n - 1 /\ Heads(d) \subseteq O
  <2>1. O \subseteq 0 .. n - 1 /\ NoSlot \notin 0 .. n - 1 /\ Heads(d) \subseteq O
    BY <1>1, TableFields, InTable
  <2>2. i \in O
    BY <1>1 DEF InList
  <2> QED BY <2>1, <2>2
<1>i. i = s[p] /\ last # i /\ HomeOf(d)[last] = HomeOf(d)[i]
  OBVIOUS
<1> HIDE DEF i
<1>3. Resized(d, a, n, m - 1)
  <2>1. d.size # 0
    BY <1>1
  <2> QED BY <1>1, <2>1, ResizeFacts
<1> HIDE DEF a
<1>4. /\ a \in Tables(n) /\ a.head = d.head /\ a.tail = d.tail /\ a.size = m - 1
      /\ a.meta = d.meta /\ a.item = d.item
  BY <1>3 DEF Resized, SameEnds
<1>5. Listed(a, m, s)
  BY <1>1, <1>4, ListSame
<1>6. Unlinked(a, b, n, m, s, p)
  BY <1>1, <1>i, <1>4, <1>5, UnlinkFacts
<1>7. CutIs(d, b, m, s, p) /\ CutLeaves(m, s, p) /\ CutOf(0 .. n - 1, m, p, s, t)
  <2>1. \A j \in 0 .. n - 1 : SameData(d, b, j)
    BY <1>4, <1>6 DEF Unlinked, SameData
  <2>2. CutIs(d, b, m, s, p)
    BY <1>1, <2>1, CutAlong
  <2>3. CutLeaves(m, s, p)
    BY <1>1, CutInList DEF Listed
  <2>4. CutOf(0 .. n - 1, m, p, s, t)
    BY <1>1, CutFacts
  <2> QED BY <2>2, <2>3, <2>4
<1> HIDE DEF b
<1>8. /\ b \in Tables(n) /\ b.meta = d.meta /\ b.size = m - 1 /\ Listed(b, m - 1, t)
      /\ \A j \in 0 .. n - 1 : b.item[j].key = d.item[j].key /\ b.item[j].val = d.item[j].val
      /\ \A j \in 0 .. n - 1 : j \notin O => b.item[j] = d.item[j]
  <2>1. b \in Tables(n) /\ b.meta = d.meta /\ b.size = m - 1 /\ Listed(b, m - 1, t)
    BY <1>4, <1>6 DEF Unlinked, SameMeta
  <2>2. \A j \in 0 .. n - 1 : b.item[j].key = d.item[j].key /\ b.item[j].val = d.item[j].val
    BY <1>4, <1>6 DEF Unlinked, SameData
  <2>3. \A j \in 0 .. n - 1 : j \notin O => b.item[j] = d.item[j]
    BY <1>1, <1>4, <1>6, OutsideIs DEF Unlinked
  <2> QED BY <2>1, <2>2, <2>3
<1>9. /\ m - 1 \in Nat /\ t \in [1 .. m - 1 -> 0 .. n - 1] /\ InList(m - 1, t) = O \ {i}
      /\ Along(b, m - 1, t) = Cut(Along(d, m, s), m, p)
  BY <1>1, <1>i, <1>7 DEF CutIs, CutLeaves, CutOf
<1> HIDE DEF t
<1>10. PICK q \in 1 .. m - 1 : t[q] = last
  <2>1. last \in InList(m - 1, t)
    BY <1>i, <1>9
  <2> QED BY <2>1 DEF InList
<1>11. Outside(m - 1, t, i)
  BY <1>9, OutsideIs
<1>12. MovedTo(b, c, n, m - 1, t, q, i)
  <2>1. MovedTo(b, MoveNode(b, t[q], i), n, m - 1, t, q, i)
    BY <1>1, <1>2, <1>8, <1>9, <1>11, MoveNodeFacts
  <2> QED BY <1>10, <2>1
<1> HIDE DEF c
<1>13. Swapped(b, c, n, m - 1, t, q, i)
  BY <1>1, <1>2, <1>8, <1>9, <1>11, <1>12, SwapFacts
<1> DEFINE u == Swap(t, m - 1, q, i)
<1>14. /\ c \in Tables(n) /\ c.meta = d.meta /\ c.size = m - 1 /\ Listed(c, m - 1, u)
       /\ c.item[last] = NoItem /\ c.item[i].key = d.item[last].key
       /\ \A j \in 0 .. n - 1 : j # last /\ j # i => c.item[j].key = d.item[j].key
       /\ \A j \in 0 .. n - 1 : j \notin O => c.item[j] = d.item[j]
  <2>1. c \in Tables(n) /\ c.meta = d.meta /\ c.size = m - 1 /\ Listed(c, m - 1, u)
    BY <1>8, <1>12 DEF MovedTo, SameMeta
  <2>2. c.item[last] = NoItem /\ c.item[i].key = d.item[last].key
    BY <1>2, <1>8, <1>10, <1>12 DEF MovedTo
  <2>3. \A j \in 0 .. n - 1 : j # last /\ j # i => c.item[j].key = d.item[j].key
    BY <1>8, <1>10, <1>12 DEF MovedTo, SameData
  <2>4. \A j \in 0 .. n - 1 : j \notin O => Outside(m - 1, t, j) /\ j # i
    BY <1>2, <1>9, OutsideIs
  <2>5. \A j \in 0 .. n - 1 : j \notin O => c.item[j] = d.item[j]
    BY <1>8, <1>12, <2>4 DEF MovedTo
  <2> QED BY <2>1, <2>2, <2>3, <2>5
<1>15. /\ u \in [1 .. m - 1 -> 0 .. n - 1] /\ InList(m - 1, u) = O \ {last}
       /\ Along(c, m - 1, u) = Cut(Along(d, m, s), m, p)
       /\ \A j \in 1 .. m - 1 : u[j] \in 0 .. n - 1 /\ c.item[u[j]].val \in Value
  <2>1. /\ u \in [1 .. m - 1 -> 0 .. n - 1] /\ InList(m - 1, u) = ((O \ {i}) \ {last}) \cup {i}
        /\ Along(c, m - 1, u) = Cut(Along(d, m, s), m, p)
        /\ \A j \in 1 .. m - 1 : u[j] \in 0 .. n - 1 /\ c.item[u[j]].val = b.item[t[j]].val
    BY <1>9, <1>10, <1>13 DEF Swapped
  <2>2. ((O \ {i}) \ {last}) \cup {i} = O \ {last}
    BY <1>2, <1>i
  <2>3. \A j \in 1 .. m - 1 : b.item[t[j]].val \in Value
    <3> TAKE j \in 1 .. m - 1
    <3>1. t[j] \in InList(m, s) /\ t[j] \in 0 .. n - 1
      BY <1>1, <1>9 DEF InList
    <3>2. d.item[t[j]].val \in Value
      BY <1>1, <3>1 DEF InList
    <3> QED BY <1>8, <3>1, <3>2
  <2> QED BY <2>1, <2>2, <2>3
<1> HIDE DEF u
<1>16. Freed(c, f, n, last)
  BY <1>1, <1>2, <1>14, FreeFacts
<1> HIDE DEF f
<1>17. JumpSet(f, e, n, prev, 0)
  <2>1. 0 \in {0} \cup DOMAIN Probe
    OBVIOUS
  <2> QED BY <1>1, <1>2, <1>16, <2>1, SetJumpFacts DEF Freed
<1> HIDE DEF e
<1>18. /\ e \in Tables(n) /\ e.head = c.head /\ e.tail = c.tail /\ e.size = m - 1
       /\ \A j \in 0 .. n - 1 : e.item[j] = c.item[j]
       /\ e.meta[last] = Empty /\ e.meta[prev].kind = d.meta[prev].kind /\ e.meta[prev].jump = 0
       /\ \A j \in 0 .. n - 1 : j # last /\ j # prev => e.meta[j] = d.meta[j]
  <2>1. e \in Tables(n) /\ e.head = c.head /\ e.tail = c.tail /\ e.size = m - 1
    BY <1>14, <1>16, <1>17 DEF Freed, JumpSet, SameEnds
  <2>2. \A j \in 0 .. n - 1 : e.item[j] = c.item[j]
    BY <1>14, <1>16, <1>17 DEF Freed, JumpSet
  <2>3. e.meta[last] = Empty /\ e.meta[prev].kind = d.meta[prev].kind /\ e.meta[prev].jump = 0
    BY <1>2, <1>14, <1>16, <1>17 DEF Freed, JumpSet
  <2>4. \A j \in 0 .. n - 1 : j # last /\ j # prev => e.meta[j] = d.meta[j]
    BY <1>2, <1>14, <1>16, <1>17 DEF Freed, JumpSet
  <2> QED BY <2>1, <2>2, <2>3, <2>4
<1>19. Occupied(e) = O \ {last} /\ Heads(e) = Heads(d) \ {last}
  <2>0. Occupied(e) \subseteq 0 .. n - 1 /\ Heads(e) \subseteq Occupied(e)
    BY <1>1, <1>18, InTable
  <2>1. last \notin Occupied(e)
    BY <1>1, <1>2, <1>18, TagIs
  <2>2. ASSUME NEW j \in 0 .. n - 1, j # last
        PROVE  (j \in Occupied(e) <=> j \in Occupied(d)) /\ (j \in Heads(e) <=> j \in Heads(d))
    <3>1. e.meta[j].kind = d.meta[j].kind
      BY <1>18, <2>2
    <3> QED BY <1>1, <1>18, <3>1, TagSame
  <2> QED BY <1>2, <2>0, <2>1, <2>2
<1>20. ASSUME NEW j \in O \ {last}
       PROVE  /\ HomeOf(e)[j] = HomeOf(d)[j]
              /\ NextOf(e)[j] = IF NextOf(d)[j] = last THEN NoSlot ELSE NextOf(d)[j]
  <2>1. j \in 0 .. n - 1 /\ j # last
    BY <1>2
  <2>2. HomeOf(e)[j] = HomeOf(d)[j]
    <3>1. CASE j = i
      <4>1. HomeOf(e)[j] = Home(d, d.item[last].key)
        <5>1. HomeOf(e)[j] = Home(d, e.item[j].key)
          BY <1>1, <1>18, <2>1, HomeIs
        <5>2. e.item[j].key = d.item[last].key
          BY <1>14, <1>18, <2>1, <3>1
        <5> QED BY <5>1, <5>2
      <4>2. HomeOf(d)[last] = Home(d, d.item[last].key)
        BY <1>1, <1>2, HomeIs
      <4> QED BY <1>i, <3>1, <4>1, <4>2
    <3>2. CASE j # i
      <4>1. e.item[j].key = d.item[j].key
        BY <1>14, <1>18, <2>1, <3>2
      <4> QED BY <1>1, <1>18, <2>1, <4>1, HomeSame
    <3> QED BY <3>1, <3>2
  <2>3. NextOf(e)[j] = IF NextOf(d)[j] = last THEN NoSlot ELSE NextOf(d)[j]
    <3>1. CASE j = prev
      <4>1. NextOf(e)[j] = NoSlot
        BY <1>1, <1>18, <2>1, <3>1, NextEnds
      <4> QED BY <3>1, <4>1
    <3>2. CASE j # prev
      <4>1. NextOf(d)[j] # last
        <5>1. ASSUME NextOf(d)[j] = last PROVE FALSE
          <6>1. j \in O /\ prev \in O /\ NoSlot \notin O /\ NextOf(d)[j] = NextOf(d)[prev]
                /\ NextOf(d)[j] # NoSlot
            BY <1>2, <5>1
          <6>2. Linked(O, Heads(d), HomeOf(d), NextOf(d), rank, NoSlot)
            BY <1>1 DEF Chained
          <6> HIDE DEF O
          <6> QED BY <3>2, <6>1, <6>2, LinkedUnique
        <5> QED BY <5>1
      <4>2. e.meta[j].jump = d.meta[j].jump
        BY <1>18, <2>1, <3>2
      <4>3. NextOf(e)[j] = NextOf(d)[j]
        BY <1>1, <1>18, <2>1, <4>2, NextSame
      <4> QED BY <4>1, <4>3
    <3> QED BY <3>1, <3>2
  <2> QED BY <2>2, <2>3
<1>21. Chained(e, rank, NoSlot)
  <2>1. Linked(O, Heads(d), HomeOf(d), NextOf(d), rank, NoSlot)
    BY <1>1 DEF Chained
  <2>2. last \in O /\ NoSlot \notin O
    BY <1>2
  <2> HIDE DEF O
  <2>3. LastUnlinked(O, last, HomeOf(d), NextOf(d), HomeOf(e), NextOf(e))
    BY <1>20, <2>2 DEF LastUnlinked
  <2>4. Linked(O \ {last}, Heads(d) \ {last}, HomeOf(e), NextOf(e), rank, NoSlot)
    BY <2>1, <2>3, LastUnlinkedLinked
  <2> QED BY <1>19, <2>4 DEF Chained, O
<1>22. DistinctKeys(e)
  <2>1. \A j \in O \ {last} : e.item[j].key = IF j = i THEN d.item[last].key ELSE d.item[j].key
    BY <1>2, <1>14, <1>18
  <2>2. ASSUME NEW j \in O \ {last}, NEW l \in O \ {last}, e.item[j].key = e.item[l].key PROVE j = l
    <3>1. CASE j = i /\ l = i
      BY <3>1
    <3>2. CASE j = i /\ l # i
      BY <1>1, <2>1, <2>2, <3>2 DEF DistinctKeys
    <3>3. CASE j # i /\ l = i
      BY <1>1, <2>1, <2>2, <3>3 DEF DistinctKeys
    <3>4. CASE j # i /\ l # i
      BY <1>1, <2>1, <2>2, <3>4 DEF DistinctKeys
    <3> QED BY <3>1, <3>2, <3>3, <3>4
  <2> QED BY <1>19, <2>2 DEF DistinctKeys
<1>23. Body(e, n, NoSlot)
  <2> SUFFICES ASSUME NEW j \in 0 .. n - 1
               PROVE  IF j \in Occupied(e) THEN e.item[j].key \in Key
                      ELSE e.item[j] = NoItem /\ e.meta[j] = IF j = NoSlot THEN Protected ELSE Empty
    BY DEF Body
  <2>0. j # NoSlot
    BY <1>2
  <2>1. CASE j = last
    BY <1>14, <1>18, <1>19, <2>0, <2>1
  <2>2. CASE j # last /\ j \in O
    <3>1. d.item[j].key \in Key /\ d.item[last].key \in Key
      BY <1>1, <1>2, <2>2 DEF Body
    <3> QED BY <1>14, <1>18, <1>19, <2>2, <3>1
  <2>3. CASE j \notin O
    <3>1. d.item[j] = NoItem /\ d.meta[j] = Empty
      BY <1>1, <2>0, <2>3 DEF Body
    <3> QED BY <1>14, <1>18, <1>19, <2>0, <2>3, <3>1
  <2> QED BY <2>1, <2>2, <2>3
<1>24. Listed(e, m - 1, u)
  <2>1. \A j \in 1 .. m - 1 : e.item[u[j]].prev = c.item[u[j]].prev /\ e.item[u[j]].next = c.item[u[j]].next
    BY <1>15, <1>18
  <2> QED BY <1>1, <1>9, <1>14, <1>15, <1>18, <2>1, ListSame
<1>25. Along(e, m - 1, u) = Along(c, m - 1, u)
  BY <1>15, <1>18 DEF Along
<1>26. \A j \in 1 .. m - 1 : e.item[u[j]].val \in Value
  BY <1>15, <1>18
<1>27. Shape(n, e, m - 1, u, rank, NoSlot, NoSlot, {})
  <2>1. Occupied(e) = InList(m - 1, u)
    BY <1>15, <1>19
  <2> QED BY <1>1, <1>9, <1>15, <1>18, <1>21, <1>22, <1>23, <1>24, <1>26, <2>1 DEF Shape
<1>28. Sound(n, e, m - 1, u, rank)
  BY <1>18, <1>27 DEF Sound
<1>29. Erased(d, e, n, m, s, p)
  BY <1>15, <1>25, <1>28 DEF Erased
<1> QED BY <1>29 DEF EraseMoves, e, f, c, b, a, i

(***************************************************************************)
(* DenseErase: the erased item was the last of its chain.                   *)
(***************************************************************************)

\* Nothing leads to slot x any more.
CutBehind(d, g, n, x, z) ==
  /\ g \in Tables(n) /\ g.head = d.head /\ g.tail = d.tail /\ g.size = z /\ g.item = d.item
  /\ \A j \in 0 .. n - 1 : /\ g.meta[j].kind = d.meta[j].kind
                           /\ j \notin Occupied(d) => g.meta[j] = d.meta[j]
  /\ \A j \in Occupied(d) : NextOf(g)[j] = IF NextOf(d)[j] = x THEN NoSlot ELSE NextOf(d)[j]

\* A head needs no cut; any other slot is cut off from the one before it, which
\* FindPrev returns.
LEMMA CutBehindFacts ==
  ASSUME NEW n, NEW d, NEW m, NEW s, NEW rank, Sound(n, d, m, s, rank), NEW i \in Occupied(d)
  PROVE  CutBehind(d, IF IsHead(d, i) THEN [d EXCEPT !.size = @ - 1]
                      ELSE SetJump([d EXCEPT !.size = @ - 1], FindPrev(d, i), 0), n, i, m - 1)
<1> DEFINE a == [d EXCEPT !.size = @ - 1]
           O == Occupied(d)
           w == FindPrev(d, i)
           b == SetJump(a, w, 0)
<1>1. /\ n \in Nat \ {0} /\ d \in Tables(n) /\ d.size = m /\ m \in Nat
      /\ Occupied(d) = InList(m, s) /\ Chained(d, rank, NoSlot)
  BY DEF Shape, Sound
<1>2. O \subseteq 0 .. n - 1 /\ NoSlot \notin 0 .. n - 1 /\ i \in O /\ NoSlot \notin O
  BY <1>1, TableFields, InTable
<1>3. Resized(d, a, n, m - 1)
  <2>1. d.size # 0
    BY <1>1 DEF InList
  <2> QED BY <1>1, <2>1, ResizeFacts
<1> HIDE DEF a
<1>4. /\ a \in Tables(n) /\ a.head = d.head /\ a.tail = d.tail /\ a.size = m - 1
      /\ a.meta = d.meta /\ a.item = d.item
  BY <1>3 DEF Resized, SameEnds
<1>5. IsHead(d, i) <=> i \in Heads(d)
  BY DEF IsHead, Heads
<1>6. Linked(O, Heads(d), HomeOf(d), NextOf(d), rank, NoSlot)
  BY <1>1 DEF Chained
<1>7. CASE i \in Heads(d)
  <2>1. ASSUME NEW j \in O, NextOf(d)[j] = i PROVE FALSE
    <3>1. rank[i] = rank[j] + 1 /\ rank[j] \in Nat /\ rank[j] >= 1 /\ rank[i] = 1
      BY <1>2, <1>6, <1>7, <2>1 DEF Linked
    <3> QED BY <3>1
  <2>2. \A j \in O : NextOf(a)[j] = NextOf(d)[j]
    BY <1>1, <1>2, <1>4, NextSame
  <2>3. CutBehind(d, a, n, i, m - 1)
    BY <1>4, <2>1, <2>2 DEF CutBehind
  <2> QED BY <1>5, <1>7, <2>3 DEF a
<1>8. CASE i \notin Heads(d)
  <2>1. Leads(d, rank, w, i)
    BY <1>1, <1>8, FindPrevFacts
  <2> HIDE DEF w
  <2>2. w \in O /\ NextOf(d)[w] = i /\ w \in 0 .. n - 1
    BY <1>2, <2>1 DEF Leads
  <2>3. JumpSet(a, b, n, w, 0)
    <3>1. 0 \in {0} \cup DOMAIN Probe
      OBVIOUS
    <3> QED BY <1>1, <1>4, <2>2, <3>1, SetJumpFacts
  <2> HIDE DEF b
  <2>4. /\ b \in Tables(n) /\ b.head = d.head /\ b.tail = d.tail /\ b.size = m - 1 /\ b.item = d.item
        /\ b.meta[w].kind = d.meta[w].kind /\ b.meta[w].jump = 0
        /\ \A j \in 0 .. n - 1 : j # w => b.meta[j] = d.meta[j]
    BY <1>4, <2>3 DEF JumpSet, SameEnds
  <2>5. ASSUME NEW j \in O
        PROVE  NextOf(b)[j] = IF NextOf(d)[j] = i THEN NoSlot ELSE NextOf(d)[j]
    <3>1. j \in 0 .. n - 1
      BY <1>2
    <3>2. CASE j = w
      <4>1. NextOf(b)[j] = NoSlot
        BY <1>1, <2>4, <3>1, <3>2, NextEnds
      <4> QED BY <2>2, <3>2, <4>1
    <3>3. CASE j # w
      <4>1. ASSUME NextOf(d)[j] = i PROVE FALSE
        <5>1. j \in O /\ w \in O /\ NoSlot \notin O /\ NextOf(d)[j] = NextOf(d)[w] /\ NextOf(d)[j] # NoSlot
          BY <1>2, <2>2, <4>1
        <5> HIDE DEF O
        <5> QED BY <1>6, <3>3, <5>1, LinkedUnique
      <4>2. b.meta[j].jump = d.meta[j].jump
        BY <2>4, <3>1, <3>3
      <4>3. NextOf(b)[j] = NextOf(d)[j]
        BY <1>1, <2>4, <3>1, <4>2, NextSame
      <4> QED BY <4>1, <4>3
    <3> QED BY <3>2, <3>3
  <2>6. \A j \in 0 .. n - 1 : /\ b.meta[j].kind = d.meta[j].kind
                              /\ j \notin O => b.meta[j] = d.meta[j]
    BY <2>2, <2>4
  <2>7. CutBehind(d, b, n, i, m - 1)
    BY <2>4, <2>5, <2>6 DEF CutBehind
  <2> QED BY <1>5, <1>8, <2>7 DEF a, b, w
<1> QED BY <1>7, <1>8

\* Slot s[p], the last of its chain, is freed.
EraseFrees(g, i) == [IterListUnlink(g, i) EXCEPT !.meta[i] = Empty, !.item[i] = NoItem]

\* The chain ends before the freed slot, and the items but the erased one keep
\* their order.
LEMMA EraseFreesFacts ==
  ASSUME NEW n, NEW d, NEW m, NEW s, NEW rank, Sound(n, d, m, s, rank), NEW p \in 1 .. m,
         NextOf(d)[s[p]] = NoSlot, NEW g, CutBehind(d, g, n, s[p], m - 1)
  PROVE  Erased(d, EraseFrees(g, s[p]), n, m, s, p)
<1> DEFINE i == s[p]
           b == IterListUnlink(g, i)
           e == [b EXCEPT !.meta[i] = Empty, !.item[i] = NoItem]
           O == Occupied(d)
           t == Cut(s, m, p)
<1>1. /\ n \in Nat \ {0} /\ d \in Tables(n) /\ m \in Nat /\ s \in [1 .. m -> 0 .. n - 1]
      /\ Listed(d, m, s) /\ Occupied(d) = InList(m, s) /\ d.size = m
      /\ Chained(d, rank, NoSlot) /\ DistinctKeys(d) /\ Body(d, n, NoSlot)
      /\ \A j \in 1 .. m : d.item[s[j]].val \in Value
  BY DEF Shape, Sound
<1>2. /\ i \in 0 .. n - 1 /\ i \in O
      /\ O \subseteq 0 .. n - 1 /\ NoSlot \notin 0 .. n - 1 /\ Heads(d) \subseteq O
  <2>1. O \subseteq 0 .. n - 1 /\ NoSlot \notin 0 .. n - 1 /\ Heads(d) \subseteq O
    BY <1>1, TableFields, InTable
  <2>2. i \in O
    BY <1>1 DEF InList
  <2> QED BY <2>1, <2>2
<1>i. i = s[p] /\ NextOf(d)[i] = NoSlot
  OBVIOUS
<1>3. CutBehind(d, g, n, i, m - 1)
  OBVIOUS
<1> HIDE DEF i
<1>4. /\ g \in Tables(n) /\ g.head = d.head /\ g.tail = d.tail /\ g.size = m - 1 /\ g.item = d.item
      /\ \A j \in 0 .. n - 1 : /\ g.meta[j].kind = d.meta[j].kind
                               /\ j \notin O => g.meta[j] = d.meta[j]
      /\ \A j \in O : NextOf(g)[j] = IF NextOf(d)[j] = i THEN NoSlot ELSE NextOf(d)[j]
  BY <1>3 DEF CutBehind
<1>5. Listed(g, m, s)
  BY <1>1, <1>4, ListSame
<1>6. Unlinked(g, b, n, m, s, p)
  <2>1. Unlinked(g, IterListUnlink(g, s[p]), n, m, s, p)
    BY <1>1, <1>4, <1>5, UnlinkFacts
  <2> QED BY <1>i, <2>1
<1>7. CutIs(d, b, m, s, p) /\ CutLeaves(m, s, p) /\ CutOf(0 .. n - 1, m, p, s, t)
  <2>1. \A j \in 0 .. n - 1 : SameData(d, b, j)
    BY <1>4, <1>6 DEF Unlinked, SameData
  <2>2. CutIs(d, b, m, s, p)
    BY <1>1, <2>1, CutAlong
  <2>3. CutLeaves(m, s, p)
    BY <1>1, CutInList DEF Listed
  <2>4. CutOf(0 .. n - 1, m, p, s, t)
    BY <1>1, CutFacts
  <2> QED BY <2>2, <2>3, <2>4
<1> HIDE DEF b
<1>8. /\ b \in Tables(n) /\ b.meta = g.meta /\ b.size = m - 1 /\ Listed(b, m - 1, t)
      /\ \A j \in 0 .. n - 1 : b.item[j].key = d.item[j].key /\ b.item[j].val = d.item[j].val
      /\ \A j \in 0 .. n - 1 : j \notin O => b.item[j] = d.item[j]
  <2>1. b \in Tables(n) /\ b.meta = g.meta /\ b.size = m - 1 /\ Listed(b, m - 1, t)
    BY <1>4, <1>6 DEF Unlinked, SameMeta
  <2>2. \A j \in 0 .. n - 1 : b.item[j].key = d.item[j].key /\ b.item[j].val = d.item[j].val
    BY <1>4, <1>6 DEF Unlinked, SameData
  <2>3. \A j \in 0 .. n - 1 : j \notin O => b.item[j] = d.item[j]
    BY <1>1, <1>4, <1>6, OutsideIs DEF Unlinked
  <2> QED BY <2>1, <2>2, <2>3
<1>9. /\ m - 1 \in Nat /\ t \in [1 .. m - 1 -> 0 .. n - 1] /\ InList(m - 1, t) = O \ {i}
      /\ Along(b, m - 1, t) = Cut(Along(d, m, s), m, p)
  BY <1>1, <1>i, <1>7 DEF CutIs, CutLeaves, CutOf
<1> HIDE DEF t
<1>10. Freed(b, e, n, i)
  BY <1>1, <1>2, <1>8, FreeFacts
<1> HIDE DEF e
<1>11. /\ e \in Tables(n) /\ e.head = b.head /\ e.tail = b.tail /\ e.size = m - 1
       /\ e.item[i] = NoItem /\ e.meta[i] = Empty
       /\ \A j \in 0 .. n - 1 : j # i => e.item[j] = b.item[j] /\ e.meta[j] = g.meta[j]
  BY <1>8, <1>10 DEF Freed, SameEnds
<1>12. \A j \in 1 .. m - 1 : t[j] \in O /\ t[j] # i /\ t[j] \in 0 .. n - 1
  <2> TAKE j \in 1 .. m - 1
  <2>1. t[j] \in InList(m - 1, t)
    BY DEF InList
  <2> QED BY <1>2, <1>9, <2>1
<1>19. Occupied(e) = O \ {i} /\ Heads(e) = Heads(d) \ {i}
  <2>0. Occupied(e) \subseteq 0 .. n - 1 /\ Heads(e) \subseteq Occupied(e)
    BY <1>1, <1>11, InTable
  <2>1. i \notin Occupied(e)
    BY <1>1, <1>2, <1>11, TagIs
  <2>2. ASSUME NEW j \in 0 .. n - 1, j # i
        PROVE  (j \in Occupied(e) <=> j \in Occupied(d)) /\ (j \in Heads(e) <=> j \in Heads(d))
    <3>1. e.meta[j].kind = d.meta[j].kind
      BY <1>4, <1>11, <2>2
    <3> QED BY <1>1, <1>11, <3>1, TagSame
  <2> QED BY <1>2, <2>0, <2>1, <2>2
<1>20. ASSUME NEW j \in O \ {i}
       PROVE  /\ HomeOf(e)[j] = HomeOf(d)[j]
              /\ NextOf(e)[j] = IF NextOf(d)[j] = i THEN NoSlot ELSE NextOf(d)[j]
  <2>1. j \in 0 .. n - 1 /\ j # i
    BY <1>2
  <2>2. e.item[j].key = d.item[j].key /\ e.meta[j].jump = g.meta[j].jump
    BY <1>8, <1>11, <2>1
  <2>3. HomeOf(e)[j] = HomeOf(d)[j]
    BY <1>1, <1>11, <2>1, <2>2, HomeSame
  <2>4. NextOf(e)[j] = NextOf(g)[j]
    BY <1>1, <1>4, <1>11, <2>1, <2>2, NextSame
  <2> QED BY <1>4, <2>3, <2>4
<1>21. Chained(e, rank, NoSlot)
  <2>1. Linked(O, Heads(d), HomeOf(d), NextOf(d), rank, NoSlot)
    BY <1>1 DEF Chained
  <2>2. i \in O /\ NoSlot \notin O
    BY <1>2
  <2> HIDE DEF O
  <2>3. LastUnlinked(O, i, HomeOf(d), NextOf(d), HomeOf(e), NextOf(e))
    BY <1>20, <1>i, <2>2 DEF LastUnlinked
  <2>4. Linked(O \ {i}, Heads(d) \ {i}, HomeOf(e), NextOf(e), rank, NoSlot)
    BY <2>1, <2>3, LastUnlinkedLinked
  <2> QED BY <1>19, <2>4 DEF Chained, O
<1>22. DistinctKeys(e)
  <2>1. \A j \in O \ {i} : e.item[j].key = d.item[j].key
    BY <1>2, <1>8, <1>11
  <2> QED BY <1>1, <1>19, <2>1 DEF DistinctKeys
<1>23. Body(e, n, NoSlot)
  <2> SUFFICES ASSUME NEW j \in 0 .. n - 1
               PROVE  IF j \in Occupied(e) THEN e.item[j].key \in Key
                      ELSE e.item[j] = NoItem /\ e.meta[j] = IF j = NoSlot THEN Protected ELSE Empty
    BY DEF Body
  <2>0. j # NoSlot
    BY <1>2
  <2>1. CASE j = i
    BY <1>11, <1>19, <2>0, <2>1
  <2>2. CASE j # i /\ j \in O
    <3>1. d.item[j].key \in Key
      BY <1>1, <2>2 DEF Body
    <3> QED BY <1>8, <1>11, <1>19, <2>2, <3>1
  <2>3. CASE j \notin O
    <3>1. d.item[j] = NoItem /\ d.meta[j] = Empty
      BY <1>1, <2>0, <2>3 DEF Body
    <3>2. j # i
      BY <1>2, <2>3
    <3> QED BY <1>4, <1>8, <1>11, <1>19, <2>0, <2>3, <3>1, <3>2
  <2> QED BY <2>1, <2>2, <2>3
<1>24. Listed(e, m - 1, t)
  <2>1. \A j \in 1 .. m - 1 : e.item[t[j]].prev = b.item[t[j]].prev /\ e.item[t[j]].next = b.item[t[j]].next
    BY <1>11, <1>12
  <2> QED BY <1>1, <1>8, <1>9, <1>11, <2>1, ListSame
<1>25. Along(e, m - 1, t) = Along(b, m - 1, t)
  BY <1>11, <1>12 DEF Along
<1>26. \A j \in 1 .. m - 1 : e.item[t[j]].val \in Value
  <2> TAKE j \in 1 .. m - 1
  <2>1. t[j] \in InList(m, s) /\ e.item[t[j]] = b.item[t[j]] /\ t[j] \in 0 .. n - 1
    BY <1>1, <1>11, <1>12
  <2>2. d.item[t[j]].val \in Value
    BY <1>1, <2>1 DEF InList
  <2> QED BY <1>8, <2>1, <2>2
<1>27. Shape(n, e, m - 1, t, rank, NoSlot, NoSlot, {})
  <2>1. Occupied(e) = InList(m - 1, t)
    BY <1>9, <1>19
  <2> QED BY <1>1, <1>9, <1>11, <1>21, <1>22, <1>23, <1>24, <1>26, <2>1 DEF Shape
<1>28. Sound(n, e, m - 1, t, rank)
  BY <1>11, <1>27 DEF Sound
<1>29. Erased(d, e, n, m, s, p)
  BY <1>9, <1>25, <1>28 DEF Erased
<1> QED BY <1>29 DEF EraseFrees, e, b, i

\* DenseErase takes one item out of the list and keeps the table consistent.
LEMMA DenseEraseFacts ==
  ASSUME NEW n, NEW d, NEW m, NEW s, NEW rank, Sound(n, d, m, s, rank), NEW p \in 1 .. m
  PROVE  Erased(d, DenseErase(d, s[p]), n, m, s, p)
<1> DEFINE i == s[p]
           c == Chain(d, i)
<1>1. /\ n \in Nat \ {0} /\ d \in Tables(n) /\ d.size = m /\ m \in Nat
      /\ Occupied(d) = InList(m, s) /\ Chained(d, rank, NoSlot)
      /\ s \in [1 .. m -> 0 .. n - 1]
  BY DEF Shape, Sound
<1>2. i \in Occupied(d) /\ i \in 0 .. n - 1 /\ i # NoSlot
  <2>1. i \in Occupied(d)
    BY <1>1 DEF InList
  <2> QED BY <1>1, <2>1, TableFields, InTable
<1>3. PICK len : IsChain(d, rank, i, c, len)
  BY <1>1, <1>2, ChainFacts
<1> HIDE DEF c
<1>4. /\ len \in Nat \ {0} /\ c \in [1 .. len -> Slots(d)] /\ c[1] = i
      /\ \A j \in 1 .. len : MoveToNext(d, c[j]) = After(c, len, j)
      /\ \A j \in 1 .. len : /\ c[j] \in Occupied(d) /\ HomeOf(d)[c[j]] = HomeOf(d)[i]
                             /\ rank[c[j]] = rank[i] + j - 1
  BY <1>3 DEF IsChain
<1>5. Len(c) = len
  BY <1>4, LenIs
<1>6. \A j \in 1 .. len : NextOf(d)[c[j]] = After(c, len, j)
  BY <1>4 DEF NextOf, Occupied
<1>7. CASE HasNext(d, i)
  <2>1. NextOf(d)[i] # NoSlot
    <3>1. d.meta[i].jump \in DOMAIN Probe
      <4>1. d.meta[i] \in Meta
        BY <1>1, <1>2, TableFields
      <4> QED BY <1>7, <4>1 DEF HasNext, Meta
    <3>2. At(d, i, d.meta[i].jump) \in 0 .. n - 1
      BY <1>1, <1>2, <3>1, AtIsSlot
    <3>3. MoveToNext(d, i) = At(d, i, d.meta[i].jump)
      BY <1>2, <1>7 DEF MoveToNext
    <3>4. NextOf(d)[i] = MoveToNext(d, i)
      BY <1>1, <1>2, TableFields DEF NextOf
    <3> QED BY <1>1, <3>2, <3>3, <3>4, TableFields
  <2>2. len # 1
    BY <1>4, <1>6, <2>1 DEF After
  <2>3. len \in 1 .. len /\ len - 1 \in 1 .. len /\ len - 1 # len
    BY <1>4, <2>2
  <2> DEFINE last == c[len]
             prev == c[len - 1]
  <2>4. /\ last \in Occupied(d) /\ prev \in Occupied(d) /\ NextOf(d)[prev] = last
        /\ NextOf(d)[last] = NoSlot /\ HomeOf(d)[last] = HomeOf(d)[s[p]]
    BY <1>4, <1>6, <2>3 DEF After
  <2>5. last # s[p]
    <3>1. rank[last] = rank[i] + len - 1 /\ rank[i] \in Nat
      BY <1>1, <1>2, <1>4, <2>3 DEF Chained, Linked
    <3> QED BY <1>4, <2>2, <3>1
  <2>6. Last(c) = last /\ c[Len(c) - 1] = prev
    BY <1>5 DEF Last
  <2>7. DenseErase(d, i) = EraseMoves(d, n, m, i, last, prev)
    BY <1>7, <2>6 DEF DenseErase, EraseMoves, c
  <2> HIDE DEF last, prev
  <2>8. Erased(d, EraseMoves(d, n, m, s[p], last, prev), n, m, s, p)
    BY <2>4, <2>5, EraseMovesFacts
  <2> QED BY <2>7, <2>8
<1>8. CASE ~HasNext(d, i)
  <2>1. NextOf(d)[i] = NoSlot
    BY <1>1, <1>2, <1>8, NextEnds DEF HasNext
  <2> DEFINE g == IF IsHead(d, i) THEN [d EXCEPT !.size = @ - 1]
                  ELSE SetJump([d EXCEPT !.size = @ - 1], FindPrev(d, i), 0)
  <2>2. CutBehind(d, g, n, i, m - 1)
    BY <1>2, CutBehindFacts
  <2>3. DenseErase(d, i) = EraseFrees(g, i)
    BY <1>8 DEF DenseErase, EraseFrees
  <2> HIDE DEF g
  <2>4. Erased(d, EraseFrees(g, s[p]), n, m, s, p)
    BY <2>1, <2>2, EraseFreesFacts
  <2> QED BY <2>3, <2>4
<1> QED BY <1>7, <1>8

(***************************************************************************)
(* Sequences: concatenation, and taking out one element.                    *)
(***************************************************************************)

\* c is a followed by b.
CatIs(S, a, b, c) ==
  /\ c \in Seq(S) /\ Len(c) = Len(a) + Len(b)
  /\ \A j \in 1 .. Len(c) : c[j] = IF j <= Len(a) THEN a[j] ELSE b[j - Len(a)]

\* What concatenation returns.
LEMMA CatFacts ==
  ASSUME NEW S, NEW a \in Seq(S), NEW b \in Seq(S)
  PROVE  CatIs(S, a, b, a \o b)
<1>1. /\ a \o b \in Seq(S) /\ Len(a \o b) = Len(a) + Len(b)
      /\ \A j \in 1 .. Len(a) + Len(b) : (a \o b)[j] = IF j <= Len(a) THEN a[j] ELSE b[j - Len(a)]
  OBVIOUS
<1> QED BY <1>1 DEF CatIs

\* h is the first element of b and t the rest.
TailIs(S, b, h, t) ==
  /\ Len(b) \in Nat \ {0} /\ h = b[1] /\ h \in S /\ t \in Seq(S) /\ Len(t) = Len(b) - 1
  /\ \A j \in 1 .. Len(t) : t[j] = b[j + 1]

\* What Head and Tail return.
LEMMA TailFacts ==
  ASSUME NEW S, NEW b \in Seq(S), b # <<>>
  PROVE  TailIs(S, b, Head(b), Tail(b))
<1>1. /\ Head(b) = b[1] /\ Head(b) \in S /\ Tail(b) \in Seq(S) /\ Len(Tail(b)) = Len(b) - 1
      /\ Len(b) \in Nat \ {0} /\ \A j \in 1 .. Len(b) - 1 : Tail(b)[j] = b[j + 1]
  OBVIOUS
<1> QED BY <1>1 DEF TailIs

\* c is a without its p-th element.
CutSeqIs(S, a, p, c) ==
  /\ c \in Seq(S) /\ Len(c) = Len(a) - 1
  /\ \A j \in 1 .. Len(c) : c[j] = IF j < p THEN a[j] ELSE a[j + 1]

\* What Cut returns of a sequence.
LEMMA CutSeqFacts ==
  ASSUME NEW S, NEW a \in Seq(S), NEW p \in 1 .. Len(a)
  PROVE  CutSeqIs(S, a, p, Cut(a, Len(a), p))
<1> DEFINE c == Cut(a, Len(a), p)
<1>1. Len(a) \in Nat /\ Len(a) - 1 \in Nat
  OBVIOUS
<1>2. c \in [1 .. Len(a) - 1 -> S] /\ \A j \in 1 .. Len(a) - 1 : c[j] = IF j < p THEN a[j] ELSE a[j + 1]
  BY <1>1 DEF Cut
<1> HIDE DEF c
<1>3. c \in Seq(S) /\ Len(c) = Len(a) - 1
  BY <1>1, <1>2, LenIs
<1> QED BY <1>2, <1>3 DEF CutSeqIs, c

\* c is a with x at its end.
AddSeqIs(S, a, x, c) ==
  /\ c \in Seq(S) /\ Len(c) = Len(a) + 1 /\ c[Len(a) + 1] = x
  /\ \A j \in 1 .. Len(a) : c[j] = a[j]

\* What Add returns of a sequence.
LEMMA AddSeqFacts ==
  ASSUME NEW S, NEW a \in Seq(S), NEW x \in S
  PROVE  AddSeqIs(S, a, x, Add(a, Len(a), x))
<1> DEFINE c == Add(a, Len(a), x)
<1>1. Len(a) \in Nat /\ Len(a) + 1 \in Nat
  OBVIOUS
<1>2. c \in [1 .. Len(a) + 1 -> S] /\ c[Len(a) + 1] = x /\ \A j \in 1 .. Len(a) : c[j] = a[j]
  BY <1>1 DEF Add
<1> HIDE DEF c
<1>3. c \in Seq(S) /\ Len(c) = Len(a) + 1
  BY <1>1, <1>2, LenIs
<1> QED BY <1>2, <1>3 DEF AddSeqIs, c

\* Sequences with the same elements are equal.
LEMMA SameSeq ==
  ASSUME NEW S, NEW a \in Seq(S), NEW b \in Seq(S), Len(a) = Len(b),
         \A j \in 1 .. Len(a) : a[j] = b[j]
  PROVE  a = b
  OBVIOUS

\* The first pair to do becomes the last of the items.
LEMMA AddThenTail ==
  ASSUME NEW S, NEW a \in Seq(S), NEW b \in Seq(S), b # <<>>
  PROVE  Add(a, Len(a), Head(b)) \o Tail(b) = a \o b
<1> DEFINE h == Head(b)
           t == Tail(b)
           c == Add(a, Len(a), h)
           x == c \o t
           y == a \o b
<1>1. TailIs(S, b, h, t)
  BY TailFacts
<1> HIDE DEF h, t
<1>2. AddSeqIs(S, a, h, c)
  BY <1>1, AddSeqFacts DEF TailIs
<1> HIDE DEF c
<1>3. CatIs(S, c, t, x)
  BY <1>1, <1>2, CatFacts DEF TailIs, AddSeqIs
<1>4. CatIs(S, a, b, y)
  BY CatFacts
<1> HIDE DEF x, y
<1>5. Len(a) \in Nat /\ Len(b) \in Nat /\ Len(b) - 1 \in Nat /\ Len(x) = Len(a) + Len(b) /\ Len(y) = Len(a) + Len(b)
      /\ Len(c) = Len(a) + 1
  BY <1>1, <1>2, <1>3, <1>4 DEF TailIs, AddSeqIs, CatIs
<1>6. ASSUME NEW j \in 1 .. Len(x) PROVE x[j] = y[j]
  <2>1. CASE j <= Len(a)
    <3>1. x[j] = c[j] /\ y[j] = a[j]
      BY <1>3, <1>4, <1>5, <2>1 DEF CatIs
    <3> QED BY <1>2, <2>1, <3>1 DEF AddSeqIs
  <2>2. CASE j = Len(a) + 1
    <3>1. x[j] = c[j] /\ y[j] = b[1]
      BY <1>3, <1>4, <1>5, <2>2 DEF CatIs
    <3> QED BY <1>1, <1>2, <2>2, <3>1 DEF AddSeqIs, TailIs
  <2>3. CASE j > Len(a) + 1
    <3>1. x[j] = t[j - (Len(a) + 1)] /\ y[j] = b[j - Len(a)]
      BY <1>3, <1>4, <1>5, <2>3 DEF CatIs
    <3>2. j - (Len(a) + 1) \in 1 .. Len(t) /\ (j - (Len(a) + 1)) + 1 = j - Len(a)
      BY <1>1, <1>5, <2>3 DEF TailIs
    <3> QED BY <1>1, <3>1, <3>2 DEF TailIs
  <2> QED BY <1>5, <2>1, <2>2, <2>3
<1>7. x = y
  BY <1>3, <1>4, <1>5, <1>6, SameSeq DEF CatIs
<1> QED BY <1>7 DEF x, y, c, h, t

\* An element that is taken out of the first part is taken out of the whole.
LEMMA CutThenCat ==
  ASSUME NEW S, NEW a \in Seq(S), NEW b \in Seq(S), NEW p \in 1 .. Len(a)
  PROVE  Cut(a, Len(a), p) \o b = Cut(a \o b, Len(a \o b), p)
<1> DEFINE c == Cut(a, Len(a), p)
           x == c \o b
           y == a \o b
           z == Cut(y, Len(y), p)
<1>1. CutSeqIs(S, a, p, c)
  BY CutSeqFacts
<1> HIDE DEF c
<1>2. CatIs(S, c, b, x)
  BY <1>1, CatFacts DEF CutSeqIs
<1>3. CatIs(S, a, b, y)
  BY CatFacts
<1> HIDE DEF x, y
<1>4. Len(a) \in Nat /\ Len(b) \in Nat /\ Len(c) = Len(a) - 1 /\ Len(y) = Len(a) + Len(b)
      /\ Len(x) = Len(a) + Len(b) - 1
  BY <1>1, <1>2, <1>3 DEF CutSeqIs, CatIs
<1>5. CutSeqIs(S, y, p, z)
  BY <1>3, <1>4, CutSeqFacts DEF CatIs
<1> HIDE DEF z
<1>6. Len(z) = Len(x)
  BY <1>4, <1>5 DEF CutSeqIs
<1>7. ASSUME NEW j \in 1 .. Len(x) PROVE x[j] = z[j]
  <2>1. z[j] = IF j < p THEN y[j] ELSE y[j + 1]
    BY <1>5, <1>6 DEF CutSeqIs
  <2>2. CASE j <= Len(a) - 1
    <3>1. x[j] = c[j]
      BY <1>2, <1>4, <2>2 DEF CatIs
    <3>2. c[j] = IF j < p THEN a[j] ELSE a[j + 1]
      BY <1>1, <1>4, <2>2 DEF CutSeqIs
    <3>3. y[j] = a[j] /\ y[j + 1] = a[j + 1]
      BY <1>3, <1>4, <2>2 DEF CatIs
    <3> QED BY <2>1, <3>1, <3>2, <3>3
  <2>3. CASE j > Len(a) - 1
    <3>1. x[j] = b[j - (Len(a) - 1)]
      BY <1>2, <1>4, <2>3 DEF CatIs
    <3>2. y[j + 1] = b[(j + 1) - Len(a)]
      BY <1>3, <1>4, <2>3 DEF CatIs
    <3>3. j - (Len(a) - 1) = (j + 1) - Len(a) /\ ~(j < p)
      BY <1>4, <2>3
    <3> QED BY <2>1, <3>1, <3>2, <3>3
  <2> QED BY <1>4, <2>2, <2>3
<1>8. x = z
  BY <1>2, <1>5, <1>6, <1>7, SameSeq DEF CatIs, CutSeqIs
<1> QED BY <1>8 DEF x, z, y, c

\* RemoveAt of SequencesExt is Cut.
LEMMA RemoveAtIsCut ==
  ASSUME NEW S, NEW a \in Seq(S), NEW p \in 1 .. Len(a)
  PROVE  RemoveAt(a, p) = Cut(a, Len(a), p)
<1> DEFINE u == SubSeq(a, 1, p - 1)
           v == SubSeq(a, p + 1, Len(a))
           x == u \o v
           c == Cut(a, Len(a), p)
<1>0. Len(a) \in Nat
  OBVIOUS
<1>1. u \in Seq(S) /\ Len(u) = p - 1 /\ \A j \in 1 .. p - 1 : u[j] = a[j]
  BY <1>0
<1>2. v \in Seq(S) /\ Len(v) = Len(a) - p /\ \A j \in 1 .. Len(a) - p : v[j] = a[j + p]
  BY <1>0
<1> HIDE DEF u, v
<1>3. CatIs(S, u, v, x)
  BY <1>1, <1>2, CatFacts
<1>4. CutSeqIs(S, a, p, c)
  BY CutSeqFacts
<1> HIDE DEF x, c
<1>5. Len(x) = Len(a) - 1 /\ Len(c) = Len(a) - 1
  BY <1>0, <1>1, <1>2, <1>3, <1>4 DEF CatIs, CutSeqIs
<1>6. ASSUME NEW j \in 1 .. Len(x) PROVE x[j] = c[j]
  <2>1. CASE j < p
    BY <1>0, <1>1, <1>3, <1>4, <1>5, <2>1 DEF CatIs, CutSeqIs
  <2>2. CASE ~ (j < p)
    <3>1. x[j] = v[j - (p - 1)]
      BY <1>0, <1>1, <1>3, <1>5, <2>2 DEF CatIs
    <3>2. j - (p - 1) \in 1 .. Len(a) - p /\ (j - (p - 1)) + p = j + 1
      BY <1>0, <1>5, <2>2
    <3>3. x[j] = a[j + 1]
      BY <1>2, <3>1, <3>2
    <3> QED BY <1>4, <1>5, <2>2, <3>3 DEF CutSeqIs
  <2> QED BY <2>1, <2>2
<1>7. x = c
  BY <1>3, <1>4, <1>5, <1>6, SameSeq DEF CatIs, CutSeqIs
<1> QED BY <1>7 DEF RemoveAt, x, u, v, c

(***************************************************************************)
(* What a table holds.  The sizes a table of the model may have: the powers of two,*)
(* and one more for the table that stands for an insertion beyond the bounds.*)
(***************************************************************************)

\* The numbers of slots a table of the model has.
Sizes == TableSizes \cup {131072}

\* Table d holds the items L, in this order.
Holds(d, L) ==
  \E n \in Sizes : \E m, s, rank : Sound(n, d, m, s, rank) /\ L = Along(d, m, s)

\* A table within the bounds can double, and one beyond them is another one.
LEMMA SizesAre ==
  /\ \A n \in Sizes : n \in Nat \ {0}
  /\ \A n \in Sizes : n <= MaxSlots => 2 * n \in Sizes
  /\ MaxSlots \in Nat \ {0} /\ 2 * MaxSlots \in Sizes /\ MaxSlots < 2 * MaxSlots
<1>1. \A n \in Sizes : n \in Nat \ {0}
  BY DEF Sizes, TableSizes
<1>2. \A n \in TableSizes : 2 * n \in Sizes /\ n <= 65536 /\ n \in Nat \ {0}
  BY DEF Sizes, TableSizes
<1>3. MaxSlots \in TableSizes
  BY DenseMapAssumption
<1>4. \A n \in Sizes : n <= MaxSlots => n \in TableSizes
  BY <1>2, <1>3 DEF Sizes
<1>5. MaxSlots < 2 * MaxSlots
  BY <1>2, <1>3
<1> QED BY <1>1, <1>2, <1>3, <1>4, <1>5

\* The list of an empty table.
NoItems == [j \in 1 .. 0 |-> NoSlot]

\* An empty table is consistent.
LEMMA EmptyTableFacts ==
  ASSUME NEW n \in Nat \ {0}
  PROVE  Sound(n, EmptyTable(n), 0, NoItems, NoItems)
<1> DEFINE d == EmptyTable(n)
           meta == [i \in 0 .. n - 1 |-> Empty]
           item == [i \in 0 .. n - 1 |-> NoItem]
<1>1. d = [layout |-> "dense", slots |-> n, size |-> 0, head |-> NoSlot, tail |-> NoSlot,
           meta |-> meta, item |-> item]
  BY DEF EmptyTable
<1>2. meta \in [0 .. n - 1 -> Meta] /\ item \in [0 .. n - 1 -> Item(n)]
  BY EmptyIsMeta, NoItemIsItem
<1>3. \A j \in 0 .. n - 1 : meta[j] = Empty /\ item[j] = NoItem
  OBVIOUS
<1>4. 0 \in Nat /\ NoSlot \in SlotOrNone(n)
  BY DEF SlotOrNone
<1> HIDE DEF meta, item
<1>5. d \in Tables(n)
  BY <1>1, <1>2, <1>4, IsTable
<1>6. /\ d.size = 0 /\ d.head = NoSlot /\ d.tail = NoSlot
      /\ \A j \in 0 .. n - 1 : d.meta[j] = Empty /\ d.item[j] = NoItem
  BY <1>1, <1>3
<1> HIDE DEF d
<1>7. Occupied(d) = {} /\ Heads(d) = {}
  BY <1>5, <1>6, TagIs, InTable
<1>8. NoItems \in [1 .. 0 -> 0 .. n - 1] /\ InList(0, NoItems) = {}
  BY DEF NoItems, InList
<1>9. Listed(d, 0, NoItems)
  BY <1>5, <1>6, <1>8, TableFields DEF Listed, Injective, Ends, Threaded
<1>10. Chained(d, NoItems, NoSlot)
  BY <1>7 DEF Chained, Linked
<1>11. DistinctKeys(d) /\ Body(d, n, NoSlot)
  BY <1>5, <1>6, <1>7, TableFields DEF DistinctKeys, Body
<1> QED BY <1>5, <1>6, <1>7, <1>8, <1>9, <1>10, <1>11 DEF Sound, Shape, d

\* An empty table holds nothing.
LEMMA HoldsNothing ==
  ASSUME NEW n \in Sizes
  PROVE  Holds(EmptyTable(n), <<>>)
<1>1. n \in Nat \ {0}
  BY SizesAre
<1>2. Sound(n, EmptyTable(n), 0, NoItems, NoItems)
  BY <1>1, EmptyTableFacts
<1>3. Along(EmptyTable(n), 0, NoItems) = <<>>
  <2> DEFINE a == Along(EmptyTable(n), 0, NoItems)
  <2>1. a \in [1 .. 0 -> Key]
    BY DEF Along
  <2> HIDE DEF a
  <2>2. a \in Seq(Key) /\ Len(a) = 0
    BY <2>1, LenIs
  <2> QED BY <2>2 DEF a
<1> QED BY <1>2, <1>3 DEF Holds

\* The items of a table are a sequence of pairs.
LEMMA AlongIsSeq ==
  ASSUME NEW n, NEW d, NEW m, NEW s, NEW rank, Sound(n, d, m, s, rank)
  PROVE  /\ Along(d, m, s) \in Seq(Key \X Value) /\ Len(Along(d, m, s)) = m /\ m \in Nat
         /\ DOMAIN Along(d, m, s) = 1 .. m
<1> DEFINE L == Along(d, m, s)
<1>1. /\ n \in Nat \ {0} /\ d \in Tables(n) /\ m \in Nat /\ s \in [1 .. m -> 0 .. n - 1]
      /\ Occupied(d) = InList(m, s) /\ Body(d, n, NoSlot)
      /\ \A j \in 1 .. m : d.item[s[j]].val \in Value
  BY DEF Sound, Shape
<1>2. \A j \in 1 .. m : d.item[s[j]].key \in Key
  BY <1>1 DEF Body, InList
<1>3. L \in [1 .. m -> Key \X Value]
  BY <1>1, <1>2 DEF Along
<1> HIDE DEF L
<1>4. L \in Seq(Key \X Value) /\ Len(L) = m /\ DOMAIN L = 1 .. m
  BY <1>1, <1>3, LenIs
<1> QED BY <1>1, <1>4 DEF L

\* No key occurs twice in L.
OneOfEach(L) == \A i, j \in DOMAIN L : L[i][1] = L[j][1] => i = j

\* What a reader of a table that holds L is told.
HoldsIs(d, L) ==
  /\ L \in Seq(Key \X Value) /\ OneOfEach(L) /\ Items(d) = L
  /\ d.layout = "dense" /\ d.slots \in Sizes
  /\ \A k \in Key : IF Search(d, k) = NoSlot THEN \A i \in DOMAIN L : L[i][1] # k
                    ELSE \E i \in DOMAIN L : L[i] = <<k, d.item[Search(d, k)].val>>

\* A table that holds L iterates over L, and Search finds exactly the keys of L.
LEMMA HoldsFacts ==
  ASSUME NEW d, NEW L, Holds(d, L)
  PROVE  HoldsIs(d, L)
<1>1. PICK n, m, s, rank : n \in Sizes /\ Sound(n, d, m, s, rank) /\ L = Along(d, m, s)
  BY DEF Holds
<1>2. /\ n \in Nat \ {0} /\ d \in Tables(n) /\ m \in Nat /\ s \in [1 .. m -> 0 .. n - 1]
      /\ Listed(d, m, s) /\ Occupied(d) = InList(m, s) /\ d.size = m
      /\ Chained(d, rank, NoSlot) /\ DistinctKeys(d)
  BY <1>1 DEF Shape, Sound
<1>3. L \in Seq(Key \X Value) /\ DOMAIN L = 1 .. m
  BY <1>1, AlongIsSeq
<1>4. \A j \in 1 .. m : L[j] = <<d.item[s[j]].key, d.item[s[j]].val>> /\ s[j] \in Occupied(d)
  BY <1>1, <1>2 DEF Along, InList
<1>5. OneOfEach(L)
  <2> SUFFICES ASSUME NEW i \in 1 .. m, NEW j \in 1 .. m, L[i][1] = L[j][1] PROVE i = j
    BY <1>3 DEF OneOfEach
  <2>1. s[i] = s[j]
    BY <1>2, <1>4 DEF DistinctKeys
  <2> QED BY <1>2, <2>1 DEF Listed, Injective
<1>6. Items(d) = L
  <2>1. ItemsAre(d, m, s)
    BY <1>2, ItemsFacts
  <2> QED BY <1>1, <2>1 DEF ItemsAre
<1>7. d.layout = "dense" /\ d.slots \in Sizes
  BY <1>1, <1>2, TableFields
<1>8. ASSUME NEW k \in Key
      PROVE  IF Search(d, k) = NoSlot THEN \A i \in DOMAIN L : L[i][1] # k
             ELSE \E i \in DOMAIN L : L[i] = <<k, d.item[Search(d, k)].val>>
  <2> DEFINE i == Search(d, k)
  <2>1. d.size = 0 => Occupied(d) = {}
    BY <1>2 DEF InList
  <2>2. Found(d, k, i)
    BY <1>2, <2>1, SearchFacts
  <2> HIDE DEF i
  <2>3. CASE i = NoSlot
    BY <1>3, <1>4, <2>2, <2>3 DEF Found, i
  <2>4. CASE i # NoSlot
    <3>1. i \in Occupied(d) /\ d.item[i].key = k
      BY <2>2, <2>4 DEF Found
    <3>2. PICK j \in 1 .. m : s[j] = i
      BY <1>2, <3>1 DEF InList
    <3>3. L[j] = <<k, d.item[i].val>>
      BY <1>4, <3>1, <3>2
    <3> QED BY <1>3, <2>4, <3>3 DEF i
  <2> QED BY <2>3, <2>4 DEF i
<1> QED BY <1>3, <1>5, <1>6, <1>7, <1>8 DEF HoldsIs

(***************************************************************************)
(* InsertMaybeReHash and its loops.  The items in the table and the pairs still to*)
(* be inserted form one list; a turn leaves this list alone, or drops from it the*)
(* earlier one of two pairs with the same key.                              *)
(***************************************************************************)

\* What a map maps: a key and its value.
Pair == Key \X Value
\* L without its p-th element.
Drop(L, p) == Cut(L, Len(L), p)

\* Of two pairs with the same key, T lets the first go.
Closed(T) ==
  \A L \in T : L \in Seq(Pair) /\
    \A i, j \in DOMAIN L : i < j /\ L[i][1] = L[j][1] => Drop(L, i) \in T

\* A table of at least low slots whose items, and those to do behind them, are in T.
Turned(x, T, low) ==
  /\ x.todo \in Seq(Pair) /\ x.table.slots >= low
  /\ \E L : Holds(x.table, L) /\ L \o x.todo \in T
\* The states of the loop with this invariant.
Turns(T, low) ==
  {x \in [table : UNION {Tables(n) : n \in Sizes}, todo : Seq(Pair)] : Turned(x, T, low)}

\* A state with the invariant is one of them.
LEMMA TurnStays ==
  ASSUME NEW T, NEW low, NEW t, NEW todo, Turned([table |-> t, todo |-> todo], T, low)
  PROVE  [table |-> t, todo |-> todo] \in Turns(T, low)
<1> DEFINE x == [table |-> t, todo |-> todo]
<1>1. x.table = t /\ x.todo = todo
  OBVIOUS
<1>2. PICK L : Holds(t, L)
  BY <1>1 DEF Turned
<1>3. PICK n \in Sizes : t \in Tables(n)
  BY <1>2 DEF Holds, Sound, Shape
<1>4. t \in UNION {Tables(l) : l \in Sizes}
  BY <1>3
<1>5. todo \in Seq(Pair)
  BY <1>1 DEF Turned
<1> QED BY <1>4, <1>5 DEF Turns

\* A turn keeps the invariant: a pair goes into the table, behind the others and in
\* place of the pair with its key, or a rehash puts all pairs back in line.
LEMMA InsertTurnFacts ==
  ASSUME NEW T, Closed(T), NEW low \in Nat, NEW x \in Turns(T, low)
  PROVE  InsertTurn(x) \in Turns(T, low)
<1> DEFINE d == x.table
           todo == x.todo
           h == Head(todo)
           t == Tail(todo)
           k == h[1]
           v == h[2]
           try == TryInsert(d, k)
           e == IterListPushBack([try.table EXCEPT !.item[try.at].val = v], try.at)
           big == EmptyTable(2 * d.slots)
           more == Items(try.table) \o todo
<1>1. x \in [table : UNION {Tables(n) : n \in Sizes}, todo : Seq(Pair)] /\ Turned(x, T, low)
  BY DEF Turns
<1>2. CASE todo = <<>> \/ d.slots > MaxSlots
  BY <1>2 DEF InsertTurn
<1>3. CASE todo # <<>> /\ ~(d.slots > MaxSlots)
  <2>1. PICK L : Holds(d, L) /\ L \o todo \in T
    BY <1>1 DEF Turned
  <2>2. todo \in Seq(Pair) /\ d.slots >= low
    BY <1>1 DEF Turned
  <2>3. PICK n, m, s, rank : n \in Sizes /\ Sound(n, d, m, s, rank) /\ L = Along(d, m, s)
    BY <2>1 DEF Holds
  <2>4. d.slots = n /\ n \in Nat \ {0} /\ m \in Nat /\ d \in Tables(n)
    BY <2>3, TableFields DEF Sound, Shape
  <2>5. L \in Seq(Pair) /\ Len(L) = m /\ DOMAIN L = 1 .. m
    BY <2>3, AlongIsSeq DEF Pair
  <2>6. InsertTurn(x) = IF try.done THEN [table |-> e, todo |-> t]
                        ELSE [table |-> big, todo |-> more]
    BY <1>3 DEF InsertTurn
  <2>7. TailIs(Pair, todo, h, t)
    BY <1>3, <2>2, TailFacts
  <2>8. h \in Pair /\ t \in Seq(Pair)
    BY <2>7 DEF TailIs
  <2>9. k \in Key /\ v \in Value /\ h = <<k, v>>
    BY <2>8 DEF Pair
  <2>10. Tried(n, m, Along(d, m, s), k, try)
    BY <2>3, <2>9, TryInsertFacts
  <2>11. CASE ~try.done
    <3>1. Items(try.table) = L
      BY <2>3, <2>10, <2>11 DEF Tried
    <3>2. 2 * n \in Sizes /\ 2 * n >= low
      <4>1. n <= MaxSlots /\ n \in Nat /\ MaxSlots \in Nat
        BY <1>3, <2>4, SizesAre
      <4>2. n >= low
        BY <2>2, <2>4
      <4>3. 2 * n >= low
        BY <4>1, <4>2
      <4> QED BY <2>3, <4>1, <4>3, SizesAre
    <3>3. Holds(big, <<>>)
      BY <2>4, <3>2, HoldsNothing
    <3>4. big.slots = 2 * n
      BY <2>4 DEF EmptyTable
    <3>5. L \o todo \in Seq(Pair) /\ <<>> \o (L \o todo) = L \o todo
      BY <2>2, <2>5
    <3> DEFINE y == [table |-> big, todo |-> L \o todo]
    <3>6. y.table = big /\ y.todo = L \o todo
      OBVIOUS
    <3> HIDE DEF y, big
    <3>7. Turned(y, T, low)
      BY <2>1, <3>2, <3>3, <3>4, <3>5, <3>6 DEF Turned
    <3>8. y \in Turns(T, low)
      BY <3>7, TurnStays DEF y
    <3> QED BY <2>6, <2>11, <3>1, <3>8 DEF y
  <2>12. ASSUME try.done, NEW K, K \in Seq(Pair), NEW u, NEW rank2,
                Half(n, try.table, Len(K), u, rank2, try.at, k), Along(try.table, Len(K), u) = K,
                K \o todo \in T
         PROVE  InsertTurn(x) \in Turns(T, low)
    <3> DEFINE l == Len(K)
               L2 == Add(K, l, h)
    <3>1. e = Finish(try.table, try.at, v)
      BY DEF Finish
    <3> HIDE DEF h, t, v, k, try, e
    <3>2. Finished(try.table, e, n, l, u, rank2, try.at, k, v)
      BY <2>9, <2>12, <3>1, FinishFacts
    <3>3. Sound(n, e, l + 1, Add(u, l, try.at), rank2)
          /\ Along(e, l + 1, Add(u, l, try.at)) = L2
      BY <2>9, <2>12, <3>2 DEF Finished
    <3>4. Holds(e, L2)
      BY <2>3, <3>3 DEF Holds
    <3>5. e \in Tables(n)
      BY <3>3 DEF Sound, Shape
    <3>6. e.slots = n
      BY <2>4, <3>5, TableFields
    <3>7. L2 \o t = K \o todo
      BY <1>3, <2>2, <2>12, AddThenTail DEF h, t
    <3> DEFINE y == [table |-> e, todo |-> t]
    <3>8. y.table = e /\ y.todo = t
      OBVIOUS
    <3> HIDE DEF y, L2
    <3>9. Turned(y, T, low)
      BY <2>2, <2>4, <2>8, <2>12, <3>4, <3>6, <3>7, <3>8 DEF Turned
    <3>10. y \in Turns(T, low)
      BY <3>9, TurnStays DEF y
    <3> QED BY <2>6, <2>12, <3>10 DEF y
  <2>13. CASE try.done
    <3>1. PICK u, rank2 :
            \/ /\ Half(n, try.table, m, u, rank2, try.at, k) /\ Along(try.table, m, u) = L
               /\ \A q \in 1 .. m : L[q][1] # k
            \/ \E p \in 1 .. m : /\ Half(n, try.table, m - 1, u, rank2, try.at, k)
                                 /\ Along(try.table, m - 1, u) = Cut(L, m, p) /\ L[p][1] = k
      BY <2>3, <2>10, <2>13 DEF Tried
    <3> HIDE DEF try
    <3>2. CASE Half(n, try.table, m, u, rank2, try.at, k) /\ Along(try.table, m, u) = L
      BY <2>1, <2>5, <2>12, <2>13, <3>2
    <3>3. CASE \E p \in 1 .. m : /\ Half(n, try.table, m - 1, u, rank2, try.at, k)
                                 /\ Along(try.table, m - 1, u) = Cut(L, m, p) /\ L[p][1] = k
      <4>1. PICK p \in 1 .. m : /\ Half(n, try.table, m - 1, u, rank2, try.at, k)
                                /\ Along(try.table, m - 1, u) = Cut(L, m, p) /\ L[p][1] = k
        BY <3>3
      <4> DEFINE K == Cut(L, Len(L), p)
                 S == L \o todo
      <4>2. CutSeqIs(Pair, L, p, K)
        BY <2>5, CutSeqFacts
      <4>3. K \in Seq(Pair) /\ Len(K) = m - 1
        BY <2>5, <4>2 DEF CutSeqIs
      <4>4. K \o todo = Drop(S, p)
        BY <2>2, <2>5, CutThenCat DEF Drop
      <4>5. CatIs(Pair, L, todo, S)
        BY <2>2, <2>5, CatFacts
      <4>6. S \in Seq(Pair) /\ Len(S) = m + Len(todo) /\ Len(todo) \in Nat \ {0}
            /\ S[p] = L[p] /\ S[m + 1] = todo[1]
        <5>1. Len(todo) \in Nat \ {0} /\ h = todo[1]
          BY <2>7 DEF TailIs
        <5>2. S \in Seq(Pair) /\ Len(S) = m + Len(todo)
          BY <2>5, <4>5 DEF CatIs
        <5>3. p \in 1 .. Len(S) /\ m + 1 \in 1 .. Len(S) /\ (m + 1) - m = 1
          BY <2>4, <5>1, <5>2
        <5>4. \A j \in 1 .. Len(S) : S[j] = IF j <= m THEN L[j] ELSE todo[j - m]
          BY <2>5, <4>5 DEF CatIs
        <5> HIDE DEF S
        <5>5. S[p] = L[p]
          BY <5>3, <5>4
        <5>6. S[m + 1] = todo[1]
          BY <2>4, <5>3, <5>4
        <5> QED BY <5>1, <5>2, <5>5, <5>6
      <4>7. Drop(S, p) \in T
        <5>1. p \in DOMAIN S /\ m + 1 \in DOMAIN S /\ p < m + 1
          BY <2>4, <4>6
        <5>2. S[p][1] = S[m + 1][1]
          <6>1. h = todo[1]
            BY <2>7 DEF TailIs
          <6> QED BY <4>1, <4>6, <6>1
        <5>3. S \in T
          BY <2>1
        <5> HIDE DEF S
        <5> QED BY <5>1, <5>2, <5>3 DEF Closed
      <4>8. K = Cut(L, m, p) /\ m - 1 = Len(K)
        BY <2>5, <4>3
      <4> HIDE DEF K, S
      <4>9. Half(n, try.table, Len(K), u, rank2, try.at, k) /\ Along(try.table, Len(K), u) = K
        BY <4>1, <4>8
      <4>10. K \o todo \in T
        BY <4>4, <4>7
      <4> QED BY <2>12, <2>13, <4>3, <4>9, <4>10
    <3> QED BY <3>1, <3>2, <3>3
  <2> QED BY <2>11, <2>13
<1> QED BY <1>2, <1>3

(***************************************************************************)
(* Inserting one pair, and inserting a sequence of pairs.                   *)
(***************************************************************************)

\* The invariant holds after any number of turns.
LEMMA InsertingFacts ==
  ASSUME NEW T, Closed(T), NEW low \in Nat, NEW d, NEW s \in Seq(Pair),
         Turned([table |-> d, todo |-> s], T, low), NEW q \in Nat
  PROVE  Inserting(d, s)[q] \in Turns(T, low)
<1> DEFINE S == Turns(T, low)
           a == [table |-> d, todo |-> s]
           f == [x \in S |-> InsertTurn(x)]
           IsTurn(w) == w = [j \in Nat |-> IF j = 0 THEN a ELSE InsertTurn(w[j - 1])]
<1>1. a \in S
  BY TurnStays
<1>2. \A x \in S : InsertTurn(x) \in S
  BY InsertTurnFacts
<1> HIDE DEF S, a
<1>3. f \in [S -> S] /\ \A x \in S : f[x] = InsertTurn(x)
  BY <1>2
<1> HIDE DEF f
<1>4. PICK w : Iteration(w, S, a, f)
  BY <1>1, <1>3, IterationExists
<1>5. IsTurn(w)
  <2>1. w \in [Nat -> S] /\ w[0] = a /\ \A j \in Nat : w[j + 1] = InsertTurn(w[j])
    BY <1>3, <1>4 DEF Iteration
  <2>2. \A j \in Nat : w[j] = IF j = 0 THEN a ELSE InsertTurn(w[j - 1])
    <3> TAKE j \in Nat
    <3>1. CASE j = 0 BY <2>1, <3>1
    <3>2. CASE j # 0
      <4>1. j - 1 \in Nat /\ (j - 1) + 1 = j BY <3>2
      <4> QED BY <2>1, <3>2, <4>1
    <3> QED BY <3>1, <3>2
  <2> QED BY <2>1, <2>2
<1>6. IsTurn(Inserting(d, s))
  <2>1. Inserting(d, s) = CHOOSE v : IsTurn(v)
    BY DEF Inserting, a
  <2> HIDE DEF IsTurn
  <2> QED BY <1>5, <2>1
<1> DEFINE u == Inserting(d, s)
           P == {j \in Nat : u[j] \in S}
<1>7. u = [j \in Nat |-> IF j = 0 THEN a ELSE InsertTurn(u[j - 1])]
  BY <1>6
<1> HIDE DEF u
<1>8. 0 \in P
  BY <1>1, <1>7
<1>9. ASSUME NEW j \in Nat, j \in P PROVE j + 1 \in P
  <2>1. j + 1 \in Nat /\ j + 1 # 0 /\ (j + 1) - 1 = j
    OBVIOUS
  <2>2. u[j + 1] = InsertTurn(u[(j + 1) - 1])
    BY <1>7, <2>1
  <2> QED BY <1>2, <1>9, <2>1, <2>2
<1>10. Nat \subseteq P
  <2> HIDE DEF P
  <2> QED BY <1>8, <1>9, NatInd
<1> QED BY <1>10 DEF u, S

\* Either a table beyond the bounds, or one that holds a list of T.
Grown(e, T, low) ==
  \/ e = EmptyTable(2 * MaxSlots)
  \/ e.slots >= low /\ \E L \in T : Holds(e, L)

\* Inserting the pairs s into a table that holds L: what it holds then is L and s
\* in a row, without pairs that a later one with their key replaced.
LEMMA DenseInsertAllFacts ==
  ASSUME NEW T, Closed(T), NEW d, NEW L, Holds(d, L), NEW s \in Seq(Pair), L \o s \in T
  PROVE  Grown(DenseInsertAll(d, s), T, d.slots)
<1> DEFINE x == Inserting(d, s)[MaxTurns]
           a == [table |-> d, todo |-> s]
<1>1. d.slots \in Nat
  BY HoldsFacts, SizesAre DEF HoldsIs
<1>2. a.table = d /\ a.todo = s /\ d.slots >= d.slots
  BY <1>1
<1> HIDE DEF a
<1>3. Turned(a, T, d.slots)
  BY <1>2 DEF Turned
<1>4. x \in Turns(T, d.slots)
  BY <1>1, <1>3, DenseMapAssumption, InsertingFacts DEF a
<1>5. DenseInsertAll(d, s) = IF x.todo = <<>> THEN x.table ELSE EmptyTable(2 * MaxSlots)
  BY DEF DenseInsertAll
<1> HIDE DEF x
<1>6. CASE x.todo = <<>>
  <2>1. PICK K : Holds(x.table, K) /\ K \o x.todo \in T
    BY <1>4 DEF Turns, Turned
  <2>2. K \in Seq(Key \X Value)
    BY <2>1, HoldsFacts DEF HoldsIs
  <2>3. K \o <<>> = K
    BY <2>2
  <2>4. K \in T /\ x.table.slots >= d.slots
    BY <1>4, <1>6, <2>1, <2>3 DEF Turns, Turned
  <2> QED BY <1>5, <1>6, <2>1, <2>4 DEF Grown
<1>7. CASE x.todo # <<>>
  BY <1>5, <1>7 DEF Grown
<1> QED BY <1>6, <1>7

\* What inserting k into the items L of a table may leave.
Inserted(L, k, v) ==
  {L \o <<<<k, v>>>>} \cup {Drop(L, p) \o <<<<k, v>>>> : p \in {q \in DOMAIN L : L[q][1] = k}}

\* Inserted has what Closed asks for: a pair of L goes when <<k, v>> has its key,
\* and nothing else can go.
LEMMA InsertedClosed ==
  ASSUME NEW L \in Seq(Pair), OneOfEach(L), NEW k \in Key, NEW v \in Value
  PROVE  /\ Closed(Inserted(L, k, v))
         /\ \A p \in DOMAIN L : L[p][1] = k => ~ OneOfEach(L \o <<<<k, v>>>>)
<1> DEFINE b == <<<<k, v>>>>
           m == Len(L)
           S == L \o b
           T == Inserted(L, k, v)
<1>1. b \in Seq(Pair) /\ Len(b) = 1 /\ b[1] = <<k, v>> /\ m \in Nat /\ DOMAIN L = 1 .. m
  BY DEF Pair
<1> HIDE DEF b
<1>2. CatIs(Pair, L, b, S)
  BY <1>1, CatFacts
<1>3. /\ S \in Seq(Pair) /\ DOMAIN S = 1 .. m + 1 /\ S[m + 1] = <<k, v>>
      /\ \A j \in 1 .. m : S[j] = L[j]
  <2>1. S \in Seq(Pair) /\ Len(S) = m + 1 /\ \A j \in 1 .. Len(S) : S[j] = IF j <= m THEN L[j] ELSE b[j - m]
    BY <1>1, <1>2 DEF CatIs
  <2>2. DOMAIN S = 1 .. m + 1
    BY <2>1
  <2> HIDE DEF S
  <2>3. S[m + 1] = b[1]
    BY <1>1, <2>1
  <2> QED BY <1>1, <2>1, <2>2, <2>3
<1>4. ASSUME NEW p \in 1 .. m, L[p][1] = k
      PROVE  /\ Drop(L, p) \o b \in Seq(Pair) /\ OneOfEach(Drop(L, p) \o b)
             /\ Drop(L, p) \o b = Drop(S, p)
  <2> DEFINE c == Drop(L, p)
             R == c \o b
  <2>1. CutSeqIs(Pair, L, p, c)
    BY <1>1, CutSeqFacts DEF Drop
  <2>2. c \in Seq(Pair) /\ Len(c) = m - 1 /\ \A j \in 1 .. m - 1 : c[j] = IF j < p THEN L[j] ELSE L[j + 1]
    BY <2>1 DEF CutSeqIs
  <2> HIDE DEF c
  <2>3. CatIs(Pair, c, b, R)
    BY <1>1, <2>2, CatFacts
  <2>4. /\ R \in Seq(Pair) /\ Len(R) = m
        /\ \A j \in 1 .. m : R[j] = IF j <= m - 1 THEN c[j] ELSE b[j - (m - 1)]
    BY <1>1, <2>2, <2>3 DEF CatIs
  <2> HIDE DEF R
  <2>5. R[m] = <<k, v>> /\ \A j \in 1 .. m - 1 : R[j] = c[j]
    <3>1. m \in 1 .. m /\ m - (m - 1) = 1
      BY <1>1
    <3>2. R[m] = b[1]
      BY <1>1, <2>4, <3>1
    <3> QED BY <1>1, <2>4, <3>2
  <2>6. ASSUME NEW i \in 1 .. m - 1 PROVE R[i][1] # k
    <3> DEFINE o == IF i < p THEN i ELSE i + 1
    <3>1. o \in 1 .. m /\ o # p /\ R[i] = L[o]
      BY <1>1, <2>2, <2>5
    <3> QED BY <1>1, <1>4, <3>1 DEF OneOfEach
  <2>7. ASSUME NEW i \in 1 .. m - 1, NEW j \in 1 .. m - 1, R[i][1] = R[j][1] PROVE i = j
    <3> DEFINE o == IF i < p THEN i ELSE i + 1
               o2 == IF j < p THEN j ELSE j + 1
    <3>1. o \in 1 .. m /\ R[i] = L[o] /\ o2 \in 1 .. m /\ R[j] = L[o2]
      BY <1>1, <2>2, <2>5
    <3>2. o = o2
      BY <1>1, <2>7, <3>1 DEF OneOfEach
    <3> QED BY <1>1, <3>2
  <2>8. OneOfEach(R)
    <3> SUFFICES ASSUME NEW i \in 1 .. m, NEW j \in 1 .. m, R[i][1] = R[j][1] PROVE i = j
      BY <2>4 DEF OneOfEach
    <3>0. R[m][1] = k
      BY <2>5
    <3> HIDE DEF m
    <3>1. m \in Nat /\ (i # m => i \in 1 .. m - 1) /\ (j # m => j \in 1 .. m - 1)
      BY <1>1
    <3>2. CASE i = m /\ j # m BY <2>6, <3>0, <3>1, <3>2
    <3>3. CASE i # m /\ j = m BY <2>6, <3>0, <3>1, <3>3
    <3>4. CASE i # m /\ j # m BY <2>7, <3>1, <3>4
    <3> QED BY <3>2, <3>3, <3>4
  <2>9. R = Drop(S, p)
    BY <1>1, CutThenCat DEF Drop, R, c
  <2> QED BY <2>4, <2>8, <2>9 DEF R, c
<1>5. ASSUME NEW p \in 1 .. m, L[p][1] = k PROVE ~ OneOfEach(S)
  <2>1. p \in DOMAIN S /\ m + 1 \in DOMAIN S /\ p # m + 1
    BY <1>1, <1>3
  <2>2. S[p][1] = S[m + 1][1]
    BY <1>3, <1>5
  <2> QED BY <2>1, <2>2 DEF OneOfEach
<1>6. ASSUME NEW R \in T, NEW i \in DOMAIN R, NEW j \in DOMAIN R, i < j, R[i][1] = R[j][1]
      PROVE  Drop(R, i) \in T
  <2>1. CASE R = S
    <3>1. i \in 1 .. m
      <4>1. i \in 1 .. m + 1 /\ j \in 1 .. m + 1
        BY <1>3, <1>6, <2>1
      <4> QED BY <1>1, <1>6, <4>1
    <3>2. j = m + 1
      <4> SUFFICES ASSUME j \in 1 .. m PROVE FALSE
        BY <1>1, <1>3, <2>1
      <4>1. L[i][1] = L[j][1]
        BY <1>3, <1>6, <2>1, <3>1
      <4>2. i = j
        BY <1>1, <3>1, <4>1 DEF OneOfEach
      <4> QED BY <1>6, <3>1, <4>2
    <3>3. L[i][1] = k
      BY <1>3, <1>6, <2>1, <3>1, <3>2
    <3>4. Drop(R, i) = Drop(L, i) \o b
      BY <1>4, <2>1, <3>1, <3>3
    <3> QED BY <1>1, <3>1, <3>3, <3>4 DEF Inserted, b
  <2>2. CASE R # S
    <3>1. PICK p \in 1 .. m : L[p][1] = k /\ R = Drop(L, p) \o b
      BY <1>1, <2>2 DEF Inserted, b
    <3>2. OneOfEach(R)
      BY <1>4, <3>1
    <3>3. i = j /\ i \in 1 .. Len(R)
      BY <1>6, <3>2 DEF OneOfEach
    <3> QED BY <1>6, <3>3
  <2> QED BY <2>1, <2>2
<1>7. ASSUME NEW R \in T PROVE R \in Seq(Pair)
  <2>1. CASE R = S BY <1>3, <2>1
  <2>2. CASE R # S
    <3>1. PICK p \in 1 .. m : L[p][1] = k /\ R = Drop(L, p) \o b
      BY <1>1, <2>2 DEF Inserted, b
    <3> QED BY <1>4, <3>1
  <2> QED BY <2>1, <2>2
<1>8. Closed(T)
  <2> HIDE DEF T
  <2> QED BY <1>6, <1>7 DEF Closed
<1> QED BY <1>1, <1>5, <1>8 DEF b

\* InsertMaybeReHash on a table, with any number of rehashes, adds the pair at the
\* end and takes the pair with its key, if any, from where it was.
LEMMA DenseInsertFacts ==
  ASSUME NEW d, NEW L, Holds(d, L), NEW k \in Key, NEW v \in Value
  PROVE  Grown(DenseInsert(d, k, v), Inserted(L, k, v), d.slots)
<1> DEFINE b == <<<<k, v>>>>
<1>1. L \in Seq(Pair) /\ OneOfEach(L) /\ b \in Seq(Pair)
  BY HoldsFacts DEF HoldsIs, Pair
<1>2. L \o b \in Inserted(L, k, v)
  BY DEF Inserted
<1>3. Closed(Inserted(L, k, v))
  BY <1>1, InsertedClosed
<1> QED BY <1>1, <1>2, <1>3, DenseInsertAllFacts DEF DenseInsert

\* A table that is too large already stays so.
LEMMA TooLargeStays ==
  ASSUME NEW k \in Key, NEW v \in Value
  PROVE  ~ (DenseInsert(EmptyTable(2 * MaxSlots), k, v).slots <= MaxSlots)
<1> DEFINE n == 2 * MaxSlots
           d == EmptyTable(n)
<1>1. n \in Sizes /\ MaxSlots < n /\ MaxSlots \in Nat /\ d.slots = n
  BY SizesAre DEF EmptyTable
<1>2. Holds(d, <<>>)
  BY <1>1, HoldsNothing
<1> HIDE DEF d, n
<1>3. Grown(DenseInsert(d, k, v), Inserted(<<>>, k, v), d.slots)
  BY <1>2, DenseInsertFacts
<1> DEFINE e == DenseInsert(d, k, v)
<1>4. e.slots >= n \/ e = d
  BY <1>1, <1>3 DEF Grown, d, n
<1>5. n \in Nat /\ (e.slots \in Nat \/ e = d)
  <2>1. n \in Nat BY <1>1, SizesAre
  <2>2. ASSUME NEW K, Holds(e, K) PROVE e.slots \in Nat
    BY <2>2, HoldsFacts, SizesAre DEF HoldsIs
  <2> QED BY <1>3, <2>1, <2>2 DEF Grown, d, n
<1> HIDE DEF e
<1>6. ~ (e.slots <= MaxSlots)
  BY <1>1, <1>4, <1>5
<1> QED BY <1>6 DEF e, d, n

(***************************************************************************)
(* Erasing a key, and what the properties of MapContainer say of a table.   *)
(***************************************************************************)

\* Erasing a key that Search finds leaves all the other items, in their order.
LEMMA DenseEraseHolds ==
  ASSUME NEW d, NEW L, Holds(d, L), NEW k \in Key, Search(d, k) # NoSlot
  PROVE  LET e == DenseErase(d, Search(d, k))
         IN e.slots = d.slots /\ \E p \in DOMAIN L : L[p][1] = k /\ Holds(e, Drop(L, p))
<1> DEFINE i == Search(d, k)
           e == DenseErase(d, i)
<1>1. PICK n, m, s, rank : n \in Sizes /\ Sound(n, d, m, s, rank) /\ L = Along(d, m, s)
  BY DEF Holds
<1>2. /\ n \in Nat \ {0} /\ d \in Tables(n) /\ m \in Nat /\ s \in [1 .. m -> 0 .. n - 1]
      /\ Occupied(d) = InList(m, s) /\ d.size = m /\ Chained(d, rank, NoSlot) /\ d.slots = n
  BY <1>1, TableFields DEF Shape, Sound
<1>3. Len(L) = m /\ DOMAIN L = 1 .. m
  BY <1>1, AlongIsSeq
<1>4. i \in Occupied(d) /\ d.item[i].key = k
  <2>1. d.size = 0 => Occupied(d) = {}
    BY <1>2 DEF InList
  <2>2. Found(d, k, i)
    BY <1>2, <2>1, SearchFacts
  <2> QED BY <2>2 DEF Found
<1> HIDE DEF i
<1>5. PICK p \in 1 .. m : s[p] = i
  BY <1>2, <1>4 DEF InList
<1>6. Erased(d, DenseErase(d, s[p]), n, m, s, p)
  BY <1>1, DenseEraseFacts
<1>7. Erased(d, e, n, m, s, p)
  BY <1>5, <1>6
<1> HIDE DEF e
<1>8. PICK t, rank2 : Sound(n, e, m - 1, t, rank2) /\ Along(e, m - 1, t) = Cut(L, m, p)
  BY <1>1, <1>7 DEF Erased
<1>9. Holds(e, Drop(L, p))
  BY <1>1, <1>3, <1>8 DEF Holds, Drop
<1>10. L[p][1] = k
  BY <1>1, <1>4, <1>5 DEF Along
<1>11. e.slots = n
  BY <1>2, <1>8, TableFields DEF Sound, Shape
<1> QED BY <1>2, <1>3, <1>9, <1>10, <1>11 DEF e, i

\* A slot is empty exactly when it has no node, and none is protected.
LEMMA SoundTags ==
  ASSUME NEW n, NEW d, NEW m, NEW s, NEW rank, Sound(n, d, m, s, rank), NEW i \in Slots(d)
  PROVE  (d.meta[i] = Empty <=> d.item[i] = NoItem) /\ d.meta[i] # Protected
<1>1. n \in Nat \ {0} /\ d \in Tables(n) /\ Body(d, n, NoSlot)
  BY DEF Shape, Sound
<1>2. i \in 0 .. n - 1 /\ NoSlot \notin 0 .. n - 1 /\ NoSlot \notin Key
  BY <1>1, TableFields, DenseMapAssumption
<1>3. CASE i \in Occupied(d)
  <2>1. d.item[i].key \in Key
    BY <1>1, <1>2, <1>3 DEF Body
  <2>2. d.item[i] # NoItem
    BY <1>2, <2>1 DEF NoItem
  <2>3. d.meta[i].kind \in {"head", "body"}
    BY <1>3 DEF Occupied
  <2>4. d.meta[i] # Empty /\ d.meta[i] # Protected
    BY <2>3 DEF Empty, Protected
  <2> QED BY <2>2, <2>4
<1>4. CASE i \notin Occupied(d)
  <2>1. d.item[i] = NoItem /\ d.meta[i] = Empty
    BY <1>1, <1>2, <1>4 DEF Body
  <2> QED BY <2>1 DEF Empty, Protected
<1> QED BY <1>3, <1>4

\* What a table is told to have: as many items as occupied slots, threaded both ways.
LEMMA SoundThread ==
  ASSUME NEW n, NEW d, NEW m, NEW s, NEW rank, Sound(n, d, m, s, rank)
  PROVE  LET order == IterFrom(d, d.head)
         IN /\ Range(order) = Occupied(d)
            /\ Len(order) = Cardinality(Occupied(d)) /\ d.size = Len(order)
            /\ \A j \in DOMAIN order :
                 d.item[order[j]].prev = IF j = 1 THEN NoSlot ELSE order[j - 1]
            /\ d.tail = IF order = <<>> THEN NoSlot ELSE Last(order)
<1>1. /\ n \in Nat \ {0} /\ d \in Tables(n) /\ m \in Nat /\ s \in [1 .. m -> 0 .. n - 1]
      /\ Listed(d, m, s) /\ Occupied(d) = InList(m, s) /\ d.size = m
  BY DEF Shape, Sound
<1>2. IterFrom(d, d.head) = s
  <2>1. ItemsAre(d, m, s)
    BY <1>1, ItemsFacts
  <2> QED BY <2>1 DEF ItemsAre
<1>3. s \in Seq(0 .. n - 1) /\ Len(s) = m /\ DOMAIN s = 1 .. m
  BY <1>1, LenIs
<1>4. Range(s) = Occupied(d)
  BY <1>1, <1>3 DEF Range, InList
<1>5. Cardinality(Occupied(d)) = m
  <2> DEFINE A == 1 .. m
             B == Occupied(d)
  <2>1. IsFiniteSet(A) /\ Cardinality(A) = m
    BY <1>1, FS_Interval
  <2>2. \A x, y \in A : s[x] = s[y] => x = y
    BY <1>1 DEF Listed, Injective
  <2>3. s \in [A -> B] /\ \A y \in B : \E x \in A : s[x] = y
    BY <1>1 DEF InList
  <2> HIDE DEF A, B
  <2>4. s \in Bijection(A, B)
    BY <2>2, <2>3 DEF Bijection, Injection, Surjection, IsInjective
  <2>5. ExistsBijection(A, B)
    BY <2>4 DEF ExistsBijection
  <2> QED BY <2>1, <2>5, FS_Bijection DEF B
<1>6. \A j \in DOMAIN s : d.item[s[j]].prev = IF j = 1 THEN NoSlot ELSE s[j - 1]
  BY <1>1, <1>3 DEF Listed, Threaded, Before
<1>7. d.tail = IF s = <<>> THEN NoSlot ELSE Last(s)
  <2>1. s = <<>> <=> m = 0
    BY <1>1, <1>3
  <2>2. Last(s) = s[m]
    BY <1>3 DEF Last
  <2> QED BY <1>1, <2>1, <2>2 DEF Listed, Ends
<1> QED BY <1>1, <1>2, <1>3, <1>4, <1>5, <1>6, <1>7

\* Each occupied slot is once on the chain of its home, whose only head is there.
LEMMA SoundChains ==
  ASSUME NEW n, NEW d, NEW m, NEW s, NEW rank, Sound(n, d, m, s, rank)
  PROVE  /\ \A i \in Occupied(d) :
              LET home == Home(d, d.item[i].key)
              IN IsHead(d, home) /\ Cardinality({j \in DOMAIN Chain(d, home) :
                                                  Chain(d, home)[j] = i}) = 1
         /\ \A h \in Occupied(d) : IsHead(d, h) =>
              \A i \in Range(Chain(d, h)) :
                 /\ i \in Occupied(d) /\ Home(d, d.item[i].key) = h
                 /\ IsHead(d, i) => i = h
<1>1. n \in Nat \ {0} /\ d \in Tables(n) /\ Chained(d, rank, NoSlot)
  BY DEF Shape, Sound
<1>2. \A i \in Occupied(d) : HomeOf(d)[i] = Home(d, d.item[i].key) /\ (IsHead(d, i) <=> i \in Heads(d))
  BY DEF HomeOf, Occupied, Heads, IsHead
<1>3. ASSUME NEW i \in Occupied(d)
      PROVE  LET home == Home(d, d.item[i].key)
             IN IsHead(d, home) /\ Cardinality({j \in DOMAIN Chain(d, home) :
                                                 Chain(d, home)[j] = i}) = 1
  <2> DEFINE h == Home(d, d.item[i].key)
             c == Chain(d, h)
             J == {j \in DOMAIN c : c[j] = i}
  <2>1. /\ h \in Heads(d) /\ rank[h] = 1 /\ rank[i] \in Nat /\ rank[i] >= 1 /\ HomeOf(d)[h] = h
        /\ HomeOf(d)[i] = h
    BY <1>1, <1>2 DEF Chained, Linked
  <2>2. h \in Occupied(d) /\ IsHead(d, h)
    BY <1>1, <1>2, <2>1, InTable
  <2>3. PICK len : IsChain(d, rank, h, c, len)
    BY <1>1, <2>2, ChainFacts
  <2> HIDE DEF c, h
  <2>4. /\ len \in Nat \ {0} /\ DOMAIN c = 1 .. len
        /\ \A j \in 1 .. len : rank[c[j]] = 1 + j - 1
    BY <2>1, <2>3 DEF IsChain
  <2>5. PICK q \in 1 .. len : c[q] = i
    BY <2>1, <2>3 DEF IsChain
  <2>6. \A j \in 1 .. len : c[j] = i => j = q
    BY <2>4, <2>5
  <2>7. J = {q}
    BY <2>4, <2>5, <2>6
  <2>8. Cardinality(J) = 1
    BY <2>7, FS_Singleton
  <2> QED BY <2>2, <2>8 DEF c, h
<1>4. ASSUME NEW h \in Occupied(d), IsHead(d, h), NEW i \in Range(Chain(d, h))
      PROVE  /\ i \in Occupied(d) /\ Home(d, d.item[i].key) = h
             /\ IsHead(d, i) => i = h
  <2> DEFINE c == Chain(d, h)
  <2>1. PICK len : IsChain(d, rank, h, c, len)
    BY <1>1, ChainFacts
  <2>2. PICK j \in DOMAIN c : c[j] = i
    BY <1>4 DEF Range
  <2> HIDE DEF c
  <2>3. i \in Occupied(d) /\ HomeOf(d)[i] = HomeOf(d)[h]
    BY <2>1, <2>2 DEF IsChain
  <2>4. HomeOf(d)[h] = h /\ (i \in Heads(d) => HomeOf(d)[i] = i)
    BY <1>1, <1>2, <1>4, <2>3 DEF Chained, Linked
  <2> QED BY <1>2, <2>3, <2>4
<1> QED BY <1>3, <1>4

=============================================================================
