---- MODULE MapContainerProofs ----
EXTENDS MapContainer, DenseMapProofs

(***************************************************************************)
(* The invariant of the map, and the properties that follow from it.        *)
(***************************************************************************)

\* Object o of a map holds the items L, in this order.
MapHolds(o, L) ==
  \/ o = Null /\ L = <<>>
  \/ \E n \in 0 .. SmallMax : o = Small(n, L) /\ L \in Seq(Pair) /\ Len(L) <= n /\ OneOfEach(L)
  \/ Holds(o, L) /\ o.slots > SmallMax /\ o.slots <= MaxSlots

\* The object is null, a small map without a key twice, or a consistent table.
\* This is what every member function relies on and restores.  TypeOK and the
\* properties below follow from it; none of them is inductive by itself.
MInv == \E L : MapHolds(obj, L)

\* The three layouts, and the tag by which they are told apart.
LEMMA Layouts ==
  /\ Null.layout = "null"
  /\ \A n, L : LET o == Small(n, L) IN o.layout = "small" /\ o.slots = n /\ o.items = L
  /\ \A d, L : Holds(d, L) => d.layout = "dense"
<1>1. \A d, L : Holds(d, L) => d.layout = "dense"
  BY HoldsFacts DEF HoldsIs
<1> QED BY <1>1 DEF Null, Small

\* The items are pairs, and no key occurs twice.
LEMMA MapHoldsItems ==
  ASSUME NEW o, NEW L, MapHolds(o, L)
  PROVE  L \in Seq(Pair) /\ OneOfEach(L)
<1>1. CASE L = <<>>
  BY <1>1 DEF OneOfEach
<1>2. CASE Holds(o, L)
  BY <1>2, HoldsFacts DEF HoldsIs, Pair
<1> QED BY <1>1, <1>2 DEF MapHolds

\* SmallMapObj::find returns the place of a key, or end().
LEMMA SmallFindFacts ==
  ASSUME NEW n, NEW L \in Seq(Pair), NEW k
  PROVE  LET p == SmallFind(Small(n, L), k)
         IN IF p = 0 THEN \A i \in DOMAIN L : L[i][1] # k
            ELSE p \in DOMAIN L /\ L[p][1] = k
<1> DEFINE found == {i \in DOMAIN L : L[i][1] = k}
<1>1. SmallFind(Small(n, L), k) = IF found = {} THEN 0 ELSE Min(found)
  BY DEF SmallFind, Small
<1>2. found \subseteq Nat /\ 0 \notin found /\ found \subseteq DOMAIN L
  OBVIOUS
<1>3. CASE found = {}
  <2>1. \A i \in DOMAIN L : L[i][1] # k
    BY <1>3
  <2> QED BY <1>1, <1>3, <2>1
<1>4. CASE found # {}
  <2> DEFINE p == Min(found)
  <2>1. p \in found
    <3> HIDE DEF found
    <3> QED BY <1>2, <1>4, MinIsLeast
  <2>2. p # 0 /\ p \in DOMAIN L /\ L[p][1] = k
    <3> HIDE DEF p
    <3> QED BY <1>2, <2>1
  <2> HIDE DEF found, p
  <2>3. SmallFind(Small(n, L), k) = p
    BY <1>1, <1>4 DEF p
  <2> QED BY <2>2, <2>3
<1> QED BY <1>3, <1>4

\* Iterating yields the items, and Find the value a key has in them.
LEMMA MapHoldsFacts ==
  ASSUME NEW L, MapHolds(obj, L)
  PROVE  /\ Contents = L /\ L \in Seq(Pair) /\ OneOfEach(L)
         /\ obj # Null => \A k \in Key :
              \/ Find(k) = NoValue /\ \A i \in DOMAIN L : L[i][1] # k
              \/ \E i \in DOMAIN L : L[i] = <<k, Find(k)>> /\ Find(k) # NoValue
<1>0. L \in Seq(Pair) /\ OneOfEach(L)
  BY MapHoldsItems
<1>1. \A i \in DOMAIN L : L[i] \in Pair /\ L[i] = <<L[i][1], L[i][2]>> /\ L[i][2] # NoValue
  <2> SUFFICES ASSUME NEW i \in DOMAIN L
               PROVE  L[i] \in Pair /\ L[i] = <<L[i][1], L[i][2]>> /\ L[i][2] # NoValue
    OBVIOUS
  <2>1. L[i] \in Pair
    BY <1>0
  <2> QED BY <2>1, DenseMapAssumption DEF Pair
<1>2. CASE obj = Null /\ L = <<>>
  <2>1. Contents = L
    BY <1>2, Layouts DEF Contents
  <2> QED BY <1>0, <1>2, <2>1
<1>3. CASE \E n \in 0 .. SmallMax : obj = Small(n, L)
  <2>1. PICK n \in 0 .. SmallMax : obj = Small(n, L)
    BY <1>3
  <2>2. obj.layout = "small" /\ obj.items = L
    BY <2>1, Layouts
  <2>3. Contents = L
    BY <2>2 DEF Contents
  <2>4. ASSUME NEW k \in Key
        PROVE  \/ Find(k) = NoValue /\ \A i \in DOMAIN L : L[i][1] # k
               \/ \E i \in DOMAIN L : L[i] = <<k, Find(k)>> /\ Find(k) # NoValue
    <3> DEFINE p == SmallFind(obj, k)
    <3>1. Find(k) = IF p = 0 THEN NoValue ELSE L[p][2]
      BY <2>2 DEF Find
    <3>2. IF p = 0 THEN \A i \in DOMAIN L : L[i][1] # k ELSE p \in DOMAIN L /\ L[p][1] = k
      BY <1>0, <2>1, SmallFindFacts
    <3> HIDE DEF p
    <3>3. CASE p = 0 BY <3>1, <3>2, <3>3
    <3>4. CASE p # 0 BY <1>1, <3>1, <3>2, <3>4
    <3> QED BY <3>3, <3>4
  <2> QED BY <1>0, <2>3, <2>4
<1>4. CASE Holds(obj, L)
  <2>1. HoldsIs(obj, L)
    BY <1>4, HoldsFacts
  <2>2. obj.layout = "dense" /\ Items(obj) = L
    BY <2>1 DEF HoldsIs
  <2>3. Contents = L
    BY <2>2 DEF Contents
  <2>4. ASSUME NEW k \in Key
        PROVE  \/ Find(k) = NoValue /\ \A i \in DOMAIN L : L[i][1] # k
               \/ \E i \in DOMAIN L : L[i] = <<k, Find(k)>> /\ Find(k) # NoValue
    <3> DEFINE p == Search(obj, k)
    <3>1. Find(k) = IF p = NoSlot THEN NoValue ELSE obj.item[p].val
      BY <2>2 DEF Find
    <3>2. IF p = NoSlot THEN \A i \in DOMAIN L : L[i][1] # k
          ELSE \E i \in DOMAIN L : L[i] = <<k, obj.item[p].val>>
      BY <2>1 DEF HoldsIs
    <3> HIDE DEF p
    <3>3. CASE p = NoSlot BY <3>1, <3>2, <3>3
    <3>4. CASE p # NoSlot
      <4>1. PICK i \in DOMAIN L : L[i] = <<k, Find(k)>>
        BY <3>1, <3>2, <3>4
      <4>2. L[i][2] = Find(k)
        BY <4>1
      <4> QED BY <1>1, <4>1, <4>2
    <3> QED BY <3>3, <3>4
  <2> QED BY <1>0, <2>3, <2>4
<1> QED BY <1>2, <1>3, <1>4 DEF MapHolds

\* A size within the bounds is one of TableSizes.
LEMMA SizesFit == \A n \in Sizes : n <= MaxSlots => n \in TableSizes
<1>1. MaxSlots \in TableSizes
  BY DenseMapAssumption
<1>2. \A n \in TableSizes : n <= 65536 /\ n \in Nat
  BY DEF TableSizes
<1> QED BY <1>1, <1>2 DEF Sizes

\* The invariant implies type correctness.
LEMMA MInvTypeOK ==
  ASSUME MInv
  PROVE  TypeOK
<1>1. PICK L : MapHolds(obj, L)
  BY DEF MInv
<1>2. CASE obj = Null
  BY <1>2, Layouts DEF TypeOK
<1>3. CASE \E n \in 0 .. SmallMax : obj = Small(n, L) /\ Len(L) <= n
  <2>1. PICK n \in 0 .. SmallMax : obj = Small(n, L) /\ Len(L) <= n
    BY <1>3
  <2>2. obj.layout = "small" /\ obj.items = L /\ obj.slots = n
    BY <2>1, Layouts
  <2> QED BY <2>1, <2>2 DEF TypeOK
<1>4. CASE Holds(obj, L) /\ obj.slots > SmallMax /\ obj.slots <= MaxSlots
  <2>1. obj.layout = "dense" /\ obj.slots \in Sizes
    BY <1>4, HoldsFacts DEF HoldsIs
  <2>2. obj.slots \in TableSizes
    BY <1>4, <2>1, SizesFit
  <2>3. PICK n, m, s, rank : Sound(n, obj, m, s, rank)
    BY <1>4 DEF Holds
  <2>4. \A i \in Slots(obj) : obj.meta[i] = Empty <=> obj.item[i] = NoItem
    BY <2>3, SoundTags
  <2> QED BY <1>4, <2>1, <2>2, <2>4 DEF TypeOK
<1> QED BY <1>1, <1>2, <1>3, <1>4 DEF MapHolds

\* The invariant implies what is said of dense tables.
LEMMA MInvDense ==
  ASSUME MInv
  PROVE  NothingStaysProtected /\ ChainsPartitionTheTable /\ IterListThreadsTheTable
<1>1. CASE obj.layout # "dense"
  BY <1>1 DEF NothingStaysProtected, ChainsPartitionTheTable, IterListThreadsTheTable
<1>2. CASE obj.layout = "dense"
  <2>1. PICK L : MapHolds(obj, L)
    BY DEF MInv
  <2>2. Holds(obj, L)
    BY <1>2, <2>1, Layouts DEF MapHolds
  <2>3. PICK n, m, s, rank : Sound(n, obj, m, s, rank)
    BY <2>2 DEF Holds
  <2>4. NothingStaysProtected
    BY <2>3, SoundTags DEF NothingStaysProtected
  <2>5. ChainsPartitionTheTable
    BY <2>3, SoundChains DEF ChainsPartitionTheTable
  <2>6. IterListThreadsTheTable
    BY <2>3, SoundThread DEF IterListThreadsTheTable
  <2> QED BY <2>4, <2>5, <2>6
<1> QED BY <1>1, <1>2

\* The invariant implies that lookup and iteration agree.
LEMMA MInvLookup ==
  ASSUME MInv
  PROVE  LookupMatchesIteration
<1>1. PICK L : MapHolds(obj, L)
  BY DEF MInv
<1>2. /\ Contents = L /\ L \in Seq(Pair) /\ OneOfEach(L)
      /\ obj # Null => \A k \in Key :
           \/ Find(k) = NoValue /\ \A i \in DOMAIN L : L[i][1] # k
           \/ \E i \in DOMAIN L : L[i] = <<k, Find(k)>> /\ Find(k) # NoValue
  BY <1>1, MapHoldsFacts
<1>6. SUFFICES ASSUME obj # Null PROVE LookupMatchesIteration
  BY <1>2 DEF LookupMatchesIteration, OneOfEach
<1> DEFINE find(k) == Find(k)
<1> HIDE DEF find
<1>3. \A k \in Key : \/ find(k) = NoValue /\ \A i \in DOMAIN L : L[i][1] # k
                     \/ \E i \in DOMAIN L : L[i] = <<k, find(k)>> /\ find(k) # NoValue
  BY <1>2, <1>6 DEF find
<1>4. ASSUME NEW i \in DOMAIN L PROVE find(L[i][1]) = L[i][2]
  <2>1. L[i] \in Pair
    BY <1>2
  <2>2. L[i][1] \in Key
    BY <2>1 DEF Pair
  <2>3. PICK j \in DOMAIN L : L[j] = <<L[i][1], find(L[i][1])>>
    BY <1>3, <2>2
  <2>4. j = i
    BY <1>2, <2>3 DEF OneOfEach
  <2>5. L[j][2] = find(L[i][1])
    BY <2>3
  <2> QED BY <2>4, <2>5
<1>5. ASSUME NEW k \in Key PROVE find(k) = NoValue <=> k \notin Ordered!Keys(L)
  <2>1. CASE find(k) = NoValue /\ \A i \in DOMAIN L : L[i][1] # k
    BY <2>1 DEF Ordered!Keys
  <2>2. CASE \E i \in DOMAIN L : L[i] = <<k, find(k)>> /\ find(k) # NoValue
    <3>1. PICK i \in DOMAIN L : L[i] = <<k, find(k)>> /\ find(k) # NoValue
      BY <2>2
    <3>2. L[i][1] = k
      BY <3>1
    <3> QED BY <3>1, <3>2 DEF Ordered!Keys
  <2> QED BY <1>3, <2>1, <2>2
<1> QED BY <1>2, <1>4, <1>5 DEF LookupMatchesIteration, OneOfEach, find

(***************************************************************************)
(* Set: how the items change, in either layout.                             *)
(***************************************************************************)

\* Without drops the pair of a key, if there is one.
LEMMA WithoutIs ==
  ASSUME NEW L \in Seq(Pair), OneOfEach(L), NEW k
  PROVE  /\ (\A i \in DOMAIN L : L[i][1] # k) => Ordered!Without(L, k) = L
         /\ \A p \in DOMAIN L : L[p][1] = k => Ordered!Without(L, k) = Drop(L, p)
<1>1. (\A i \in DOMAIN L : L[i][1] # k) => Ordered!Without(L, k) = L
  BY DEF Ordered!Without, Ordered!Keys
<1>2. ASSUME NEW p \in DOMAIN L, L[p][1] = k PROVE Ordered!Without(L, k) = Drop(L, p)
  <2>1. \A i \in DOMAIN L : L[i][1] = k => i = p
    BY <1>2 DEF OneOfEach
  <2>2. (CHOOSE i \in DOMAIN L : L[i][1] = k) = p
    BY <1>2, <2>1
  <2>3. k \in Ordered!Keys(L)
    BY <1>2 DEF Ordered!Keys
  <2>4. Ordered!Without(L, k) = RemoveAt(L, p)
    BY <2>2, <2>3 DEF Ordered!Without, Ordered!RemoveAt, RemoveAt
  <2>5. RemoveAt(L, p) = Cut(L, Len(L), p)
    <3>1. p \in 1 .. Len(L)
      OBVIOUS
    <3> QED BY <3>1, RemoveAtIsCut
  <2> QED BY <2>4, <2>5 DEF Drop
<1> QED BY <1>1, <1>2

\* The three ways to set k to v in L.
LEMMA SetInAdds ==
  ASSUME NEW L \in Seq(Pair), NEW k, NEW v, \A i \in DOMAIN L : L[i][1] # k
  PROVE  Append(L, <<k, v>>) \in Ordered!SetIn(L, k, v)
  BY DEF Ordered!SetIn, Ordered!Keys

\* Set of a key that is there may move it to the end (a dense map).
LEMMA SetInMoves ==
  ASSUME NEW L \in Seq(Pair), OneOfEach(L), NEW k, NEW v, NEW p \in DOMAIN L, L[p][1] = k
  PROVE  Append(Drop(L, p), <<k, v>>) \in Ordered!SetIn(L, k, v)
<1>1. Ordered!Without(L, k) = Drop(L, p)
  BY WithoutIs
<1>2. k \in Ordered!Keys(L)
  BY DEF Ordered!Keys
<1> QED BY <1>1, <1>2 DEF Ordered!SetIn

\* Set of a key that is there may leave it where it is (a small map).
LEMMA SetInPlace ==
  ASSUME NEW L \in Seq(Pair), OneOfEach(L), NEW k, NEW v, NEW p \in DOMAIN L, L[p][1] = k
  PROVE  [L EXCEPT ![p] = <<k, v>>] \in Ordered!SetIn(L, k, v)
<1>1. \A i \in DOMAIN L : L[i][1] = k <=> i = p
  BY DEF OneOfEach
<1>2. [L EXCEPT ![p] = <<k, v>>] = [i \in DOMAIN L |-> IF L[i][1] = k THEN <<k, v>> ELSE L[i]]
  BY <1>1
<1>3. k \in Ordered!Keys(L)
  BY DEF Ordered!Keys
<1> QED BY <1>2, <1>3 DEF Ordered!SetIn

\* What InsertMaybeReHash of k and v must leave of the items L.
SetOf(e, L, k, v) == \E K \in Ordered!SetIn(L, k, v) : MapHolds(e, K)

\* What an insertion into a table leaves is one of the three.
LEMMA InsertedIsSet ==
  ASSUME NEW L \in Seq(Pair), OneOfEach(L), NEW k \in Key, NEW v \in Value,
         NEW K \in Inserted(L, k, v), OneOfEach(K)
  PROVE  K \in Ordered!SetIn(L, k, v)
<1> DEFINE b == <<<<k, v>>>>
<1>1. b \in Seq(Pair) /\ <<k, v>> \in Pair
  BY DEF Pair
<1>2. CASE \A p \in DOMAIN L : L[p][1] # k
  <2>1. K = L \o b
    BY <1>2 DEF Inserted
  <2>2. K = Append(L, <<k, v>>)
    BY <1>1, <2>1
  <2> QED BY <1>2, <2>2, SetInAdds
<1>3. CASE \E p \in DOMAIN L : L[p][1] = k
  <2>1. K # L \o b
    BY <1>3, InsertedClosed
  <2>2. PICK p \in DOMAIN L : L[p][1] = k /\ K = Drop(L, p) \o b
    BY <2>1 DEF Inserted
  <2>3. Drop(L, p) \in Seq(Pair)
    <3>1. p \in 1 .. Len(L)
      OBVIOUS
    <3> QED BY <3>1, CutSeqFacts DEF Drop, CutSeqIs
  <2>4. K = Append(Drop(L, p), <<k, v>>)
    BY <1>1, <2>2, <2>3
  <2> QED BY <2>2, <2>4, SetInMoves
<1> QED BY <1>2, <1>3

\* Set on a dense map, rehashes included.
LEMMA DenseInsertSets ==
  ASSUME NEW d, NEW L, Holds(d, L), d.slots > SmallMax, NEW k \in Key, NEW v \in Value,
         DenseInsert(d, k, v).slots <= MaxSlots
  PROVE  SetOf(DenseInsert(d, k, v), L, k, v)
<1> DEFINE e == DenseInsert(d, k, v)
<1>1. Grown(e, Inserted(L, k, v), d.slots)
  BY DenseInsertFacts
<1>2. L \in Seq(Pair) /\ OneOfEach(L) /\ d.slots \in Nat
  BY HoldsFacts, SizesAre DEF HoldsIs, Pair
<1>3. e.slots <= MaxSlots
  OBVIOUS
<1> HIDE DEF e
<1>4. e # EmptyTable(2 * MaxSlots)
  <2>1. EmptyTable(2 * MaxSlots).slots = 2 * MaxSlots
    BY DEF EmptyTable
  <2>2. MaxSlots \in Nat /\ MaxSlots < 2 * MaxSlots
    BY SizesAre
  <2> QED BY <1>3, <2>1, <2>2
<1>5. PICK K \in Inserted(L, k, v) : Holds(e, K)
  BY <1>1, <1>4 DEF Grown
<1>6. OneOfEach(K) /\ e.slots \in Nat
  BY <1>5, HoldsFacts, SizesAre DEF HoldsIs
<1>7. K \in Ordered!SetIn(L, k, v)
  BY <1>2, <1>5, <1>6, InsertedIsSet
<1>8. e.slots > SmallMax
  <2>1. e.slots >= d.slots
    BY <1>1, <1>4 DEF Grown
  <2> QED BY <1>2, <1>6, <2>1 DEF SmallMax
<1>9. MapHolds(e, K)
  BY <1>3, <1>5, <1>8 DEF MapHolds
<1> QED BY <1>7, <1>9 DEF SetOf, e

\* A small map that grows has room for one more entry.
LEMMA NextSizeFits ==
  ASSUME NEW n \in 0 .. SmallMax - 1
  PROVE  LET size == Min({Max({2 * n, InitSize}), SmallMax})
         IN size \in 0 .. SmallMax /\ size >= n + 1
<1> DEFINE big == Max({2 * n, InitSize})
           size == Min({big, SmallMax})
<1>1. 2 * n \in Nat /\ InitSize = 2 /\ SmallMax = 4 /\ n \in 0 .. 3
  BY DEF InitSize, SmallMax
<1>2. big \in {2 * n, 2} /\ big >= 2 * n /\ big >= 2
  <2>1. \E x \in {2 * n, InitSize} : \A y \in {2 * n, InitSize} : x >= y
    BY <1>1
  <2>2. big \in {2 * n, InitSize} /\ \A y \in {2 * n, InitSize} : big >= y
    BY <2>1 DEF Max
  <2> HIDE DEF big
  <2> QED BY <1>1, <2>2
<1> HIDE DEF big
<1>3. size \in {big, 4} /\ size <= big /\ size <= 4
  <2>1. {big, SmallMax} \subseteq Nat /\ {big, SmallMax} # {}
    BY <1>1, <1>2
  <2>2. size \in {big, SmallMax} /\ \A y \in {big, SmallMax} : size <= y
    BY <2>1, MinIsLeast
  <2> HIDE DEF size
  <2> QED BY <1>1, <2>2
<1> HIDE DEF size
<1>4. size \in 0 .. SmallMax /\ size >= n + 1
  BY <1>1, <1>2, <1>3
<1> QED BY <1>4 DEF size, big

\* The items of a small map after an insertion.
SmallHolds(o, n, L) ==
  n \in 0 .. SmallMax /\ o = Small(n, L) /\ L \in Seq(Pair) /\ Len(L) <= n /\ OneOfEach(L)

\* A new key at the end: no key occurs twice.
LEMMA AppendFacts ==
  ASSUME NEW L \in Seq(Pair), OneOfEach(L), NEW x \in Pair, \A i \in DOMAIN L : L[i][1] # x[1]
  PROVE  Append(L, x) \in Seq(Pair) /\ Len(Append(L, x)) = Len(L) + 1 /\ OneOfEach(Append(L, x))
<1> DEFINE K == Append(L, x)
           m == Len(L)
<1>1. /\ K \in Seq(Pair) /\ Len(K) = m + 1 /\ m \in Nat /\ K[m + 1] = x
      /\ \A i \in 1 .. m : K[i] = L[i] /\ L[i][1] # x[1]
      /\ DOMAIN K = 1 .. m + 1 /\ DOMAIN L = 1 .. m
  OBVIOUS
<1> HIDE DEF K, m
<1>2. OneOfEach(K)
  <2> SUFFICES ASSUME NEW i \in 1 .. m + 1, NEW j \in 1 .. m + 1, K[i][1] = K[j][1] PROVE i = j
    BY <1>1 DEF OneOfEach
  <2>1. (i # m + 1 => i \in 1 .. m) /\ (j # m + 1 => j \in 1 .. m)
    BY <1>1
  <2>2. CASE i = m + 1 /\ j # m + 1 BY <1>1, <2>1, <2>2
  <2>3. CASE i # m + 1 /\ j = m + 1 BY <1>1, <2>1, <2>3
  <2>4. CASE i # m + 1 /\ j # m + 1 BY <1>1, <2>1, <2>4 DEF OneOfEach
  <2> QED BY <2>2, <2>3, <2>4
<1> QED BY <1>1, <1>2 DEF K, m

\* A new value for a key: no key occurs twice.
LEMMA UpdateFacts ==
  ASSUME NEW L \in Seq(Pair), OneOfEach(L), NEW p \in DOMAIN L, NEW x \in Pair, x[1] = L[p][1]
  PROVE  LET K == [L EXCEPT ![p] = x]
         IN K \in Seq(Pair) /\ Len(K) = Len(L) /\ OneOfEach(K)
<1> DEFINE K == [L EXCEPT ![p] = x]
<1>1. K \in Seq(Pair) /\ Len(K) = Len(L) /\ DOMAIN K = DOMAIN L
  OBVIOUS
<1>2. \A i \in DOMAIN L : K[i] = IF i = p THEN x ELSE L[i]
  OBVIOUS
<1> HIDE DEF K
<1>3. \A i \in DOMAIN L : K[i][1] = L[i][1]
  BY <1>2
<1>4. OneOfEach(K)
  BY <1>1, <1>3 DEF OneOfEach
<1> QED BY <1>1, <1>4 DEF K

\* The small map o with items L after an insertion.
SmallInserted(o, n, L, k, v) ==
  \E N, K : /\ SmallHolds(SmallInsert(o, k, v), N, K) /\ K \in Ordered!SetIn(L, k, v)
            /\ (Len(L) < n => N = n)
            /\ \/ K = Append(L, <<k, v>>) /\ \A i \in DOMAIN L : L[i][1] # k
               \/ \E p \in DOMAIN L : L[p][1] = k /\ K = [L EXCEPT ![p] = <<k, v>>]

\* SmallMapObj::InsertMaybeReHash, when there are fewer than kMaxSize entries.
LEMMA SmallInsertFacts ==
  ASSUME NEW o, NEW n, NEW L, SmallHolds(o, n, L), Len(L) < SmallMax, NEW k \in Key, NEW v \in Value
  PROVE  SmallInserted(o, n, L, k, v)
<1> DEFINE p == SmallFind(o, k)
           e == SmallInsert(o, k, v)
           size == Min({Max({2 * n, InitSize}), SmallMax})
           x == <<k, v>>
<1>1. /\ n \in 0 .. SmallMax /\ o = Small(n, L) /\ L \in Seq(Pair) /\ Len(L) <= n /\ OneOfEach(L)
      /\ SmallMax = 4 /\ Len(L) \in Nat
  BY DEF SmallHolds, SmallMax
<1>2. o.slots = n /\ o.items = L
  BY <1>1, Layouts
<1>3. IF p = 0 THEN \A i \in DOMAIN L : L[i][1] # k ELSE p \in DOMAIN L /\ L[p][1] = k
  BY <1>1, SmallFindFacts
<1>4. x \in Pair /\ x[1] = k
  BY DEF Pair
<1>5. CASE p # 0
  <2> DEFINE K == [L EXCEPT ![p] = x]
  <2>1. e = [o EXCEPT !.items[p] = x]
    BY <1>5 DEF SmallInsert
  <2>2. e = Small(n, K)
    BY <1>1, <2>1 DEF Small
  <2> HIDE DEF e, p
  <2>3. K \in Seq(Pair) /\ Len(K) = Len(L) /\ OneOfEach(K)
    BY <1>1, <1>3, <1>4, <1>5, UpdateFacts
  <2>4. K \in Ordered!SetIn(L, k, v)
    BY <1>1, <1>3, <1>5, SetInPlace
  <2> HIDE DEF K
  <2>5. SmallHolds(e, n, K)
    BY <1>1, <2>2, <2>3 DEF SmallHolds
  <2> QED BY <1>1, <1>3, <1>5, <2>4, <2>5 DEF SmallInserted, e, K
<1>6. CASE p = 0
  <2> DEFINE K == Append(L, x)
             N == IF Len(L) < n THEN n ELSE size
  <2>1. e = Small(N, K)
    <3>1. CASE Len(L) < n
      <4>1. e = [o EXCEPT !.items = Append(@, x)]
        BY <1>1, <1>2, <1>6, <3>1 DEF SmallInsert
      <4> QED BY <1>1, <3>1, <4>1 DEF Small
    <3>2. CASE ~(Len(L) < n)
      <4>1. e = Small(size, Append(L, x))
        BY <1>1, <1>2, <1>6, <3>2 DEF SmallInsert
      <4> QED BY <3>2, <4>1
    <3> QED BY <3>1, <3>2
  <2>2. N \in 0 .. SmallMax /\ N >= n /\ N >= Len(L) + 1
    <3>1. CASE Len(L) < n BY <1>1, <3>1
    <3>2. CASE ~(Len(L) < n)
      <4>1. Len(L) = n /\ n \in 0 .. SmallMax - 1
        BY <1>1, <3>2
      <4>2. size \in 0 .. SmallMax /\ size >= n + 1
        BY <4>1, NextSizeFits
      <4> QED BY <1>1, <3>2, <4>1, <4>2
    <3> QED BY <3>1, <3>2
  <2>3. K \in Seq(Pair) /\ Len(K) = Len(L) + 1 /\ OneOfEach(K)
    BY <1>1, <1>3, <1>4, <1>6, AppendFacts
  <2>4. K \in Ordered!SetIn(L, k, v)
    BY <1>1, <1>3, <1>6, SetInAdds
  <2>5. Len(L) < n => N = n
    OBVIOUS
  <2> HIDE DEF e, p, N, K
  <2>6. SmallHolds(e, N, K)
    BY <2>1, <2>2, <2>3 DEF SmallHolds
  <2> QED BY <1>3, <1>6, <2>4, <2>5, <2>6 DEF SmallInserted, e, K
<1> QED BY <1>5, <1>6

(***************************************************************************)
(* Erase, copy on write, and the move from the small layout to the dense one.*)
(***************************************************************************)

\* MapHolds, for a small map.
LEMMA SmallHoldsIs ==
  /\ \A o, n, L : SmallHolds(o, n, L) => MapHolds(o, L)
  /\ \A o, L : MapHolds(o, L) /\ o.layout = "small" => \E n : SmallHolds(o, n, L)
<1>1. \A o, n, L : SmallHolds(o, n, L) => MapHolds(o, L)
  BY DEF SmallHolds, MapHolds
<1>2. ASSUME NEW o, NEW L, MapHolds(o, L), o.layout = "small" PROVE \E n : SmallHolds(o, n, L)
  <2>1. o # Null /\ ~Holds(o, L)
    BY <1>2, Layouts
  <2> QED BY <1>2, <2>1 DEF MapHolds, SmallHolds
<1> QED BY <1>1, <1>2

\* A copy holds what the original does.
LEMMA CopyHolds ==
  ASSUME NEW L, MapHolds(obj, L), NEW m \in CopyOnWrite
  PROVE  MapHolds(m, L) /\ m # Null
<1>1. CASE obj = Null
  <2>1. m = Small(InitSize, <<>>)
    BY <1>1 DEF CopyOnWrite
  <2>2. L = <<>>
    <3>1. ~Holds(obj, L) /\ \A n : obj # Small(n, L)
      BY <1>1, Layouts
    <3> QED BY <3>1 DEF MapHolds
  <2>3. SmallHolds(m, InitSize, L)
    BY <2>1, <2>2 DEF SmallHolds, InitSize, SmallMax, OneOfEach
  <2> QED BY <2>1, <2>3, SmallHoldsIs, Layouts
<1>2. CASE obj # Null
  <2>1. m \in {obj, CopyFrom(obj)}
    BY <1>2 DEF CopyOnWrite
  <2>2. CASE m = obj
    BY <1>2, <2>2
  <2>3. CASE m # obj
    <3>1. m = CopyFrom(obj)
      BY <2>1, <2>3
    <3>2. obj.layout = "small"
      BY <2>3, <3>1 DEF CopyFrom
    <3>3. PICK n : SmallHolds(obj, n, L)
      BY <3>2, SmallHoldsIs
    <3>4. obj.items = L
      BY <3>3, Layouts DEF SmallHolds
    <3>5. m = Small(Len(L), L)
      BY <3>1, <3>2, <3>4 DEF CopyFrom
    <3>6. Len(L) \in 0 .. SmallMax
      <4>1. n \in 0 .. SmallMax /\ Len(L) <= n /\ Len(L) \in Nat /\ SmallMax = 4
        BY <3>3 DEF SmallHolds, SmallMax
      <4> DEFINE l == Len(L)
      <4>2. n \in 0 .. 4 /\ l <= n /\ l \in Nat
        BY <4>1
      <4> HIDE DEF l
      <4>3. l \in 0 .. 4
        BY <4>2
      <4> QED BY <4>1, <4>3 DEF l
    <3>7. SmallHolds(m, Len(L), L)
      BY <3>3, <3>5, <3>6 DEF SmallHolds
    <3> QED BY <3>5, <3>7, SmallHoldsIs, Layouts
  <2> QED BY <2>2, <2>3
<1> QED BY <1>1, <1>2

\* The first table of a range, or of a small map that became too large, is within
\* the bounds.
LEMMA CalcTableSizeFacts ==
  ASSUME NEW c \in Nat, c >= SmallMax, 2 * c <= MaxSlots
  PROVE  /\ CalcTableSize(c) \in Sizes /\ CalcTableSize(c) > SmallMax
         /\ CalcTableSize(c) <= MaxSlots
<1> DEFINE S == {n \in TableSizes : n > c /\ n >= 2 * c}
           size == CalcTableSize(c)
<1>1. S \subseteq Nat /\ TableSizes \subseteq Nat /\ MaxSlots \in TableSizes /\ SmallMax = 4
  BY DenseMapAssumption DEF TableSizes, SmallMax
<1>2. MaxSlots \in S
  BY <1>1
<1>3. size = Min(S)
  BY DEF CalcTableSize
<1>4. size \in S /\ size <= MaxSlots
  <2> HIDE DEF S
  <2> QED BY <1>1, <1>2, <1>3, MinIsLeast
<1> HIDE DEF size
<1>5. size \in Nat /\ size \in TableSizes /\ size > c
  BY <1>1, <1>4
<1>6. size > SmallMax
  BY <1>1, <1>5
<1> QED BY <1>4, <1>5, <1>6 DEF Sizes, size

\* MapObj::InsertMaybeReHash in both layouts and from the one to the other.
LEMMA InsertMaybeReHashFacts ==
  ASSUME NEW m, NEW L, MapHolds(m, L), m # Null, NEW k \in Key, NEW v \in Value,
         InsertMaybeReHash(m, k, v).slots <= MaxSlots
  PROVE  SetOf(InsertMaybeReHash(m, k, v), L, k, v)
<1> DEFINE e == InsertMaybeReHash(m, k, v)
<1>0. L \in Seq(Pair) /\ OneOfEach(L) /\ Len(L) \in Nat
  BY MapHoldsItems
<1>1. CASE m.layout = "small"
  <2>1. PICK n : SmallHolds(m, n, L)
    BY <1>1, SmallHoldsIs
  <2>2. m.items = L /\ Len(L) <= SmallMax /\ SmallMax = 4
    BY <2>1, Layouts DEF SmallHolds, SmallMax
  <2>3. CASE Len(L) < SmallMax
    <3>1. e = SmallInsert(m, k, v)
      BY <1>1, <2>2, <2>3 DEF InsertMaybeReHash
    <3>2. PICK N, K : SmallHolds(SmallInsert(m, k, v), N, K) /\ K \in Ordered!SetIn(L, k, v)
      BY <2>1, <2>3, SmallInsertFacts DEF SmallInserted
    <3>3. MapHolds(e, K)
      BY <3>1, <3>2, SmallHoldsIs
    <3> QED BY <3>2, <3>3 DEF SetOf
  <2>4. CASE ~(Len(L) < SmallMax)
    <3> DEFINE size == CalcTableSize(Len(L))
               d == CreateFromRange(m.items)
    <3>1. Len(L) = SmallMax /\ Len(L) >= SmallMax /\ 2 * Len(L) <= MaxSlots
      <4>1. 2 * SmallMax <= MaxSlots
        BY MapAssumption
      <4>0. Len(L) = SmallMax
        <5> DEFINE l == Len(L)
        <5>1. l \in Nat /\ l <= 4 /\ ~(l < 4)
          BY <1>0, <2>2, <2>4
        <5> HIDE DEF l
        <5>2. l = 4
          BY <5>1
        <5> QED BY <2>2, <5>2 DEF l
      <4>2. 2 * Len(L) <= MaxSlots /\ Len(L) >= SmallMax
        BY <2>2, <4>0, <4>1
      <4> QED BY <4>0, <4>2
    <3>2. e = DenseInsert(d, k, v)
      BY <1>1, <2>2, <3>1 DEF InsertMaybeReHash
    <3>3. d = DenseInsertAll(EmptyTable(size), L)
      BY <1>0, <2>2, <3>1 DEF CreateFromRange
    <3>4. size \in Sizes /\ size > SmallMax
      BY <1>0, <3>1, CalcTableSizeFacts
    <3>5. EmptyTable(size).slots = size /\ size \in Nat
      BY <3>4, SizesAre DEF EmptyTable
    <3> DEFINE t == EmptyTable(size)
    <3>6. Holds(t, <<>>)
      BY <3>4, HoldsNothing
    <3>7. t.slots = size
      BY <3>5
    <3> HIDE DEF d, t, size
    <3>8. Closed({L}) /\ <<>> \o L \in {L}
      BY <1>0 DEF Closed, OneOfEach
    <3>9. Grown(DenseInsertAll(t, L), {L}, t.slots)
      BY <1>0, <3>6, <3>8, DenseInsertAllFacts
    <3>10. d = DenseInsertAll(t, L)
      BY <3>3 DEF t
    <3>11. CASE d = EmptyTable(2 * MaxSlots)
      <4>1. ~ (e.slots <= MaxSlots)
        BY <3>2, <3>11, TooLargeStays
      <4> QED BY <4>1
    <3>12. CASE Holds(d, L) /\ d.slots >= t.slots
      <4>1. d.slots \in Nat
        BY <3>12, HoldsFacts, SizesAre DEF HoldsIs
      <4>2. d.slots > SmallMax
        BY <2>2, <3>4, <3>5, <3>7, <3>12, <4>1
      <4>3. DenseInsert(d, k, v).slots <= MaxSlots
        BY <3>2
      <4>4. SetOf(DenseInsert(d, k, v), L, k, v)
        BY <3>12, <4>2, <4>3, DenseInsertSets
      <4> HIDE DEF e
      <4>5. SetOf(e, L, k, v)
        BY <3>2, <4>4
      <4> QED BY <4>5 DEF e
    <3> QED BY <3>9, <3>10, <3>11, <3>12 DEF Grown
  <2> QED BY <2>3, <2>4
<1>2. CASE m.layout # "small"
  <2>1. Holds(m, L) /\ m.slots > SmallMax
    BY <1>2, Layouts DEF MapHolds
  <2>2. e = DenseInsert(m, k, v)
    BY <2>1, Layouts DEF InsertMaybeReHash
  <2>3. DenseInsert(m, k, v).slots <= MaxSlots
    BY <2>2
  <2> HIDE DEF e
  <2>4. SetOf(e, L, k, v)
    BY <2>1, <2>2, <2>3, DenseInsertSets
  <2> QED BY <2>4 DEF e
<1> QED BY <1>1, <1>2

\* Erasing an entry of a small map.
LEMMA CutHolds ==
  ASSUME NEW L \in Seq(Pair), OneOfEach(L), NEW p \in DOMAIN L
  PROVE  /\ Drop(L, p) \in Seq(Pair) /\ Len(Drop(L, p)) = Len(L) - 1 /\ OneOfEach(Drop(L, p))
         /\ RemoveAt(L, p) = Drop(L, p)
<1> DEFINE K == Drop(L, p)
           m == Len(L)
<1>0. p \in 1 .. m /\ m \in Nat /\ DOMAIN L = 1 .. m
  OBVIOUS
<1>1. CutSeqIs(Pair, L, p, K)
  BY <1>0, CutSeqFacts DEF Drop
<1>2. K \in Seq(Pair) /\ Len(K) = m - 1 /\ \A j \in 1 .. Len(K) : K[j] = IF j < p THEN L[j] ELSE L[j + 1]
  BY <1>1 DEF CutSeqIs
<1>3. RemoveAt(L, p) = K
  BY <1>0, RemoveAtIsCut DEF Drop
<1>4. DOMAIN K = 1 .. m - 1
  BY <1>2
<1> HIDE DEF K, m
<1>5. OneOfEach(K)
  <2> SUFFICES ASSUME NEW i \in 1 .. m - 1, NEW j \in 1 .. m - 1, K[i][1] = K[j][1] PROVE i = j
    BY <1>4 DEF OneOfEach
  <2> DEFINE a == IF i < p THEN i ELSE i + 1
             b == IF j < p THEN j ELSE j + 1
  <2>1. K[i] = L[a] /\ K[j] = L[b] /\ a \in 1 .. m /\ b \in 1 .. m
    BY <1>0, <1>2
  <2>2. a = b
    <3> HIDE DEF a, b
    <3> QED BY <1>0, <2>1 DEF OneOfEach
  <2> QED BY <1>0, <2>2
<1> QED BY <1>2, <1>3, <1>5 DEF K, m

\* What Erase makes of the object m that CopyOnWrite returned.
Shrunk(m, k) ==
  CASE m.layout = "small" -> SmallErase(m, k)
    [] m.layout = "dense" /\ Search(m, k) = NoSlot -> m
    [] m.layout = "dense" /\ Search(m, k) # NoSlot -> DenseErase(m, Search(m, k))

\* MapObj::erase of a key, in both layouts, leaves the items without this key.
LEMMA EraseFacts ==
  ASSUME NEW m, NEW L, MapHolds(m, L), m # Null, NEW k \in Key
  PROVE  MapHolds(Shrunk(m, k), Ordered!Without(L, k))
<1>0. L \in Seq(Pair) /\ OneOfEach(L)
  BY MapHoldsItems
<1>1. CASE m.layout = "small"
  <2>1. PICK n : SmallHolds(m, n, L)
    BY <1>1, SmallHoldsIs
  <2>2. n \in 0 .. SmallMax /\ m = Small(n, L) /\ m.items = L /\ Len(L) <= n
    BY <2>1, Layouts DEF SmallHolds
  <2> DEFINE p == SmallFind(m, k)
  <2>3. IF p = 0 THEN \A i \in DOMAIN L : L[i][1] # k ELSE p \in DOMAIN L /\ L[p][1] = k
    BY <1>0, <2>2, SmallFindFacts
  <2>4. Shrunk(m, k) = IF p = 0 THEN m ELSE [m EXCEPT !.items = RemoveAt(@, p)]
    BY <1>1 DEF Shrunk, SmallErase
  <2> HIDE DEF p
  <2>5. CASE p = 0
    BY <1>0, <2>3, <2>4, <2>5, WithoutIs
  <2>6. CASE p # 0
    <3> DEFINE K == Drop(L, p)
    <3>1. K \in Seq(Pair) /\ Len(K) = Len(L) - 1 /\ OneOfEach(K) /\ RemoveAt(L, p) = K
      BY <1>0, <2>3, <2>6, CutHolds
    <3>2. Ordered!Without(L, k) = K
      BY <1>0, <2>3, <2>6, WithoutIs
    <3>3. Shrunk(m, k) = Small(n, K)
      BY <2>2, <2>4, <2>6, <3>1 DEF Small
    <3> HIDE DEF K
    <3>4. Len(L) \in Nat /\ Len(K) <= n
      BY <1>0, <2>2, <3>1
    <3>5. SmallHolds(Shrunk(m, k), n, K)
      BY <2>2, <3>1, <3>3, <3>4 DEF SmallHolds
    <3> QED BY <3>2, <3>5, SmallHoldsIs
  <2> QED BY <2>5, <2>6
<1>2. CASE m.layout # "small"
  <2>1. Holds(m, L) /\ m.slots > SmallMax /\ m.slots <= MaxSlots /\ m.layout = "dense"
    BY <1>2, Layouts DEF MapHolds
  <2>2. CASE Search(m, k) = NoSlot
    <3>1. Shrunk(m, k) = m
      BY <2>1, <2>2 DEF Shrunk
    <3>2. \A i \in DOMAIN L : L[i][1] # k
      BY <2>1, <2>2, HoldsFacts DEF HoldsIs
    <3> QED BY <1>0, <3>1, <3>2, WithoutIs
  <2>3. CASE Search(m, k) # NoSlot
    <3> DEFINE e == DenseErase(m, Search(m, k))
    <3>1. Shrunk(m, k) = e
      BY <2>1, <2>3 DEF Shrunk
    <3>2. e.slots = m.slots /\ \E p \in DOMAIN L : L[p][1] = k /\ Holds(e, Drop(L, p))
      BY <2>1, <2>3, DenseEraseHolds
    <3> HIDE DEF e
    <3>3. PICK p \in DOMAIN L : L[p][1] = k /\ Holds(e, Drop(L, p))
      BY <3>2
    <3>4. Ordered!Without(L, k) = Drop(L, p)
      BY <1>0, <3>3, WithoutIs
    <3> QED BY <2>1, <3>1, <3>2, <3>3, <3>4 DEF MapHolds
  <2> QED BY <2>2, <2>3
<1> QED BY <1>1, <1>2

(***************************************************************************)
(* Construction from a range.  Building drops the earlier of two pairs with the*)
(* same key, and what is left when no key occurs twice is the map of the range.*)
(***************************************************************************)

\* The pair x occurs in r up to position n, and no later pair there has its key.
LastIn(r, n, x) ==
  \E j \in 1 .. n : r[j] = x /\ \A l \in 1 .. n : r[l][1] = x[1] => l <= j

\* The keys of the first n pairs of r.
KeysTo(r, n) == {r[j][1] : j \in 1 .. n}

\* Sequences with the keys of r, each of them last with the value it has last in r.
Latest(r) ==
  {S \in Seq(Pair) :
     /\ Ordered!Keys(S) = KeysTo(r, Len(r))
     /\ \A i \in DOMAIN S : (\A j \in DOMAIN S : i < j => S[j][1] # S[i][1])
                               => LastIn(r, Len(r), S[i])}

\* OrderedMap's own names for the operators of the modules it extends.
LEMMA SameCardinality ==
  ASSUME NEW S
  PROVE  Ordered!Cardinality(S) = Cardinality(S)
  BY DEF Ordered!Cardinality, Cardinality

\* Sequences of pairs with the same keys.
LEMMA SameKeys ==
  ASSUME NEW L \in Seq(Pair), NEW K \in Seq(Pair),
         \A i \in DOMAIN L : \E j \in DOMAIN K : L[i][1] = K[j][1],
         \A j \in DOMAIN K : \E i \in DOMAIN L : L[i][1] = K[j][1]
  PROVE  Ordered!Keys(L) = Ordered!Keys(K)
<1> DEFINE A == Ordered!Keys(L)
           B == Ordered!Keys(K)
<1>1. A = {L[i][1] : i \in DOMAIN L} /\ B = {K[i][1] : i \in DOMAIN K}
  BY DEF Ordered!Keys
<1> HIDE DEF A, B
<1>2. \A k \in A : k \in B
  BY <1>1
<1>3. \A k \in B : k \in A
  BY <1>1
<1> QED BY <1>2, <1>3 DEF A, B

\* When each pair has the value its key has last, the map is built from r.
LEMMA BuiltIs ==
  ASSUME NEW r \in Seq(Pair), NEW L \in Seq(Pair), OneOfEach(L),
         Ordered!Keys(L) = KeysTo(r, Len(r)), \A i \in DOMAIN L : LastIn(r, Len(r), L[i])
  PROVE  Ordered!BuiltFrom(L, r)
<1> DEFINE m == Len(L)
           K == Ordered!Keys(L)
           A == 1 .. m
           f == [i \in A |-> L[i][1]]
<1>1. DOMAIN L = 1 .. m /\ m \in Nat /\ DOMAIN r = 1 .. Len(r)
  OBVIOUS
<1>2. Ordered!Keys(r) = K
  BY <1>1 DEF Ordered!Keys, KeysTo
<1> HIDE DEF m
<1>3. IsFiniteSet(A) /\ Cardinality(A) = m
  BY <1>1, FS_Interval
<1>4. f \in [A -> K] /\ \A k \in K : \E i \in A : f[i] = k
  BY <1>1 DEF Ordered!Keys
<1>5. \A i, j \in A : f[i] = f[j] => i = j
  BY <1>1 DEF OneOfEach
<1> HIDE DEF f, A, K
<1>6. f \in Bijection(A, K)
  BY <1>4, <1>5 DEF Bijection, Injection, Surjection, IsInjective
<1>7. ExistsBijection(A, K)
  BY <1>6 DEF ExistsBijection
<1>8. Cardinality(K) = m
  BY <1>3, <1>7, FS_Bijection
<1>9. \A i \in DOMAIN L : \E j \in DOMAIN r :
         r[j] = L[i] /\ \A l \in DOMAIN r : r[l][1] = L[i][1] => l <= j
  BY <1>1 DEF LastIn
<1>10. Ordered!Keys(L) = Ordered!Keys(r) /\ Len(L) = Cardinality(Ordered!Keys(r))
  BY <1>2, <1>8 DEF K, m
<1> QED BY <1>9, <1>10, SameCardinality DEF Ordered!BuiltFrom

\* The range itself is one of these.
LEMMA LatestItself ==
  ASSUME NEW r \in Seq(Pair)
  PROVE  r \in Latest(r)
<1> DEFINE m == Len(r)
<1>1. DOMAIN r = 1 .. m /\ m \in Nat
  OBVIOUS
<1> HIDE DEF m
<1>2. Ordered!Keys(r) = KeysTo(r, m)
  BY <1>1 DEF Ordered!Keys, KeysTo
<1>3. ASSUME NEW i \in DOMAIN r, \A j \in DOMAIN r : i < j => r[j][1] # r[i][1]
      PROVE  LastIn(r, m, r[i])
  BY <1>1, <1>3 DEF LastIn
<1> QED BY <1>2, <1>3 DEF Latest, m

\* Dropping the earlier of two pairs with the same key stays among them.
LEMMA LatestClosed ==
  ASSUME NEW r \in Seq(Pair)
  PROVE  Closed(Latest(r))
<1> DEFINE NoneAfter(S, i) == \A j \in DOMAIN S : i < j => S[j][1] # S[i][1]
<1>1. ASSUME NEW S \in Latest(r), NEW i \in DOMAIN S, NEW j \in DOMAIN S, i < j, S[i][1] = S[j][1]
      PROVE  Drop(S, i) \in Latest(r)
  <2> DEFINE c == Drop(S, i)
             m == Len(S)
             Old(q) == IF q < i THEN q ELSE q + 1
  <2>1. /\ S \in Seq(Pair) /\ Ordered!Keys(S) = KeysTo(r, Len(r))
        /\ \A q \in DOMAIN S : NoneAfter(S, q) => LastIn(r, Len(r), S[q])
    BY DEF Latest
  <2>2. m \in Nat /\ DOMAIN S = 1 .. m /\ i \in 1 .. m /\ j \in 1 .. m
    BY <2>1
  <2>3. CutSeqIs(Pair, S, i, c)
    BY <2>1, <2>2, CutSeqFacts DEF Drop
  <2>4. /\ c \in Seq(Pair) /\ DOMAIN c = 1 .. m - 1
        /\ \A q \in 1 .. m - 1 : c[q] = IF q < i THEN S[q] ELSE S[q + 1]
    BY <2>3 DEF CutSeqIs
  <2> HIDE DEF c, m
  <2>5. \A q \in 1 .. m - 1 : c[q] = S[Old(q)] /\ Old(q) \in 1 .. m
    BY <2>2, <2>4
  <2>6. \A l \in 1 .. m : l # i => \E q \in 1 .. m - 1 : Old(q) = l
    <3> SUFFICES ASSUME NEW l \in 1 .. m, l # i PROVE \E q \in 1 .. m - 1 : Old(q) = l
      OBVIOUS
    <3>1. CASE l < i
      <4>1. l \in 1 .. m - 1 /\ Old(l) = l
        BY <2>2, <3>1
      <4> QED BY <4>1
    <3>2. CASE ~(l < i)
      <4>1. l - 1 \in 1 .. m - 1 /\ Old(l - 1) = l
        BY <2>2, <3>2
      <4> QED BY <4>1
    <3> QED BY <3>1, <3>2
  <2>7. \A p, q \in 1 .. m - 1 : p < q <=> Old(p) < Old(q)
    BY <2>2
  <2> HIDE DEF Old
  <2>8. j # i
    BY <1>1, <2>2
  <2>9. Ordered!Keys(c) = Ordered!Keys(S)
    <3>1. ASSUME NEW l \in 1 .. m PROVE \E q \in 1 .. m - 1 : c[q][1] = S[l][1]
      <4> DEFINE o == IF l = i THEN j ELSE l
      <4>1. o \in 1 .. m /\ o # i /\ S[o][1] = S[l][1]
        BY <1>1, <2>2, <2>8
      <4> HIDE DEF o
      <4> QED BY <2>5, <2>6, <4>1
    <3>2. \A q \in 1 .. m - 1 : \E l \in 1 .. m : c[q][1] = S[l][1]
      BY <2>5
    <3>3. /\ \A q \in DOMAIN c : \E l \in DOMAIN S : c[q][1] = S[l][1]
          /\ \A l \in DOMAIN S : \E q \in DOMAIN c : c[q][1] = S[l][1]
      <4> DEFINE D == DOMAIN c
                 E == DOMAIN S
      <4>1. D = 1 .. m - 1 /\ E = 1 .. m
        BY <2>2, <2>4
      <4> HIDE DEF D, E
      <4>2. \A q \in D : \E l \in E : c[q][1] = S[l][1]
        BY <3>2, <4>1
      <4>3. \A l \in E : \E q \in D : c[q][1] = S[l][1]
        BY <3>1, <4>1
      <4> QED BY <4>2, <4>3 DEF D, E
    <3> QED BY <2>1, <2>4, <3>3, SameKeys
  <2>10. ASSUME NEW q \in 1 .. m - 1, NoneAfter(c, q) PROVE NoneAfter(S, Old(q))
    <3> SUFFICES ASSUME NEW l \in 1 .. m, Old(q) < l, S[l][1] = S[Old(q)][1] PROVE FALSE
      BY <2>2
    <3> DEFINE o == IF l = i THEN j ELSE l
    <3>1. o \in 1 .. m /\ o # i /\ S[o][1] = S[Old(q)][1]
      BY <1>1, <2>2, <2>8
    <3>2. Old(q) < o
      BY <1>1, <2>2, <2>5
    <3> HIDE DEF o
    <3>3. PICK p \in 1 .. m - 1 : Old(p) = o
      BY <2>6, <3>1
    <3>4. q < p
      BY <2>7, <3>2, <3>3
    <3>5. c[p][1] = c[q][1]
      BY <2>5, <3>1, <3>3
    <3> QED BY <2>4, <2>10, <3>4, <3>5
  <2>11. ASSUME NEW q \in DOMAIN c, NoneAfter(c, q) PROVE LastIn(r, Len(r), c[q])
    <3>1. q \in 1 .. m - 1
      BY <2>4
    <3>2. NoneAfter(S, Old(q)) /\ Old(q) \in DOMAIN S /\ c[q] = S[Old(q)]
      BY <2>2, <2>5, <2>10, <2>11, <3>1
    <3> HIDE DEF NoneAfter
    <3> QED BY <2>1, <3>2
  <2>12. c \in Latest(r)
    BY <2>1, <2>4, <2>9, <2>11 DEF Latest
  <2> QED BY <2>12 DEF c
<1>2. \A S \in Latest(r) : S \in Seq(Pair)
  BY DEF Latest
<1> QED BY <1>1, <1>2 DEF Closed

\* One of them without a key twice is the map of the range.
LEMMA LatestBuilt ==
  ASSUME NEW r \in Seq(Pair), NEW L \in Latest(r), OneOfEach(L)
  PROVE  Ordered!BuiltFrom(L, r)
<1>1. L \in Seq(Pair) /\ Ordered!Keys(L) = KeysTo(r, Len(r))
  BY DEF Latest
<1>2. ASSUME NEW i \in DOMAIN L PROVE LastIn(r, Len(r), L[i])
  <2>1. \A j \in DOMAIN L : i < j => L[j][1] # L[i][1]
    <3> SUFFICES ASSUME NEW j \in DOMAIN L, i < j, L[j][1] = L[i][1] PROVE FALSE
      OBVIOUS
    <3>1. i = j /\ i \in 1 .. Len(L)
      BY <1>1 DEF OneOfEach
    <3> QED BY <3>1
  <2> QED BY <2>1 DEF Latest
<1> QED BY <1>1, <1>2, BuiltIs

-----------------------------------------------------------------------------
\* The small map o after the first n pairs of r.
UpTo(o, r, n) ==
  \E L : /\ SmallHolds(o, Len(r), L) /\ Len(L) <= n /\ Ordered!Keys(L) = KeysTo(r, n)
         /\ \A i \in DOMAIN L : LastIn(r, n, L[i])

\* The next pair is inserted into the small map.
LEMMA UpToNext ==
  ASSUME NEW r \in Seq(Pair), Len(r) < SmallMax, NEW n \in Nat, n + 1 <= Len(r),
         NEW o, UpTo(o, r, n)
  PROVE  UpTo(SmallInsert(o, r[n + 1][1], r[n + 1][2]), r, n + 1)
<1> DEFINE x == r[n + 1]
           k == x[1]
           v == x[2]
           R == Len(r)
<1>1. PICK L : /\ SmallHolds(o, R, L) /\ Len(L) <= n /\ Ordered!Keys(L) = KeysTo(r, n)
               /\ \A i \in DOMAIN L : LastIn(r, n, L[i])
  BY DEF UpTo
<1>2. R \in Nat /\ n + 1 \in 1 .. R /\ x \in Pair
  OBVIOUS
<1>3. k \in Key /\ v \in Value /\ x = <<k, v>>
  BY <1>2 DEF Pair
<1>4. L \in Seq(Pair) /\ Len(L) \in Nat /\ SmallMax = 4 /\ DOMAIN L = 1 .. Len(L) /\ OneOfEach(L)
  BY <1>1 DEF SmallHolds, SmallMax
<1> HIDE DEF R
<1>5. Len(L) < SmallMax /\ Len(L) < R
  BY <1>1, <1>2, <1>4 DEF R
<1> DEFINE e == SmallInsert(o, k, v)
<1> HIDE DEF x, k, v
<1>a. SmallInserted(o, R, L, k, v)
  BY <1>1, <1>3, <1>5, SmallInsertFacts
<1>6. PICK N, K :
        /\ SmallHolds(e, N, K) /\ (Len(L) < R => N = R)
        /\ \/ K = Append(L, <<k, v>>) /\ \A i \in DOMAIN L : L[i][1] # k
           \/ \E p \in DOMAIN L : L[p][1] = k /\ K = [L EXCEPT ![p] = <<k, v>>]
  BY <1>a DEF SmallInserted, e
<1> HIDE DEF e
<1>7. SmallHolds(e, R, K)
  BY <1>5, <1>6
<1>8. x = r[n + 1] /\ x[1] = k
  BY DEF x, k
<1>9. LastIn(r, n + 1, x)
  BY <1>2, <1>8 DEF LastIn
<1>10. ASSUME NEW i \in DOMAIN L, L[i][1] # k PROVE LastIn(r, n + 1, L[i])
  <2>1. PICK j \in 1 .. n : r[j] = L[i] /\ \A l \in 1 .. n : r[l][1] = L[i][1] => l <= j
    BY <1>1 DEF LastIn
  <2>2. \A l \in 1 .. n + 1 : r[l][1] = L[i][1] => l <= j
    BY <1>8, <1>10, <2>1
  <2> QED BY <2>1, <2>2 DEF LastIn
<1>11. KeysTo(r, n + 1) = KeysTo(r, n) \cup {k}
  <2>1. \A l \in 1 .. n + 1 : l \in 1 .. n \/ l = n + 1
    OBVIOUS
  <2>2. n + 1 \in 1 .. n + 1 /\ \A l \in 1 .. n : l \in 1 .. n + 1
    OBVIOUS
  <2> QED BY <1>8, <2>1, <2>2 DEF KeysTo
<1>12. CASE K = Append(L, <<k, v>>) /\ \A i \in DOMAIN L : L[i][1] # k
  <2> DEFINE m == Len(L)
  <2>1. /\ K = Append(L, x) /\ DOMAIN K = 1 .. m + 1 /\ Len(K) = m + 1 /\ K[m + 1] = x
        /\ \A i \in 1 .. m : K[i] = L[i] /\ L[i][1] # k
    BY <1>3, <1>4, <1>12
  <2>2. m \in Nat /\ DOMAIN L = 1 .. m /\ m <= n
    BY <1>1, <1>4
  <2> HIDE DEF m
  <2>3. \A i \in 1 .. m + 1 : i \in 1 .. m \/ i = m + 1
    BY <2>2
  <2>4. m + 1 \in 1 .. m + 1 /\ \A i \in 1 .. m : i \in 1 .. m + 1
    BY <2>2
  <2>5. Ordered!Keys(K) = Ordered!Keys(L) \cup {k}
    BY <1>8, <2>1, <2>2, <2>3, <2>4 DEF Ordered!Keys
  <2>6. \A i \in DOMAIN K : LastIn(r, n + 1, K[i])
    BY <1>9, <1>10, <2>1, <2>2, <2>3
  <2>7. Len(K) <= n + 1
    BY <2>1, <2>2
  <2> QED BY <1>1, <1>7, <1>11, <2>5, <2>6, <2>7 DEF UpTo, R, e, k, v, x
<1>13. CASE \E p \in DOMAIN L : L[p][1] = k /\ K = [L EXCEPT ![p] = <<k, v>>]
  <2>1. PICK p \in DOMAIN L : L[p][1] = k /\ K = [L EXCEPT ![p] = x]
    BY <1>3, <1>13
  <2>2. DOMAIN K = DOMAIN L /\ Len(K) = Len(L) /\ \A i \in DOMAIN L : K[i] = IF i = p THEN x ELSE L[i]
    BY <1>4, <2>1
  <2>3. \A i \in DOMAIN L : K[i][1] = L[i][1]
    BY <1>8, <2>1, <2>2
  <2>4. Ordered!Keys(K) = Ordered!Keys(L) /\ k \in Ordered!Keys(L)
    BY <2>1, <2>2, <2>3 DEF Ordered!Keys
  <2>5. \A i \in DOMAIN K : LastIn(r, n + 1, K[i])
    <3> SUFFICES ASSUME NEW i \in DOMAIN L PROVE LastIn(r, n + 1, K[i])
      BY <2>2
    <3>1. CASE i = p BY <1>9, <2>2, <3>1
    <3>2. CASE i # p
      <4>1. L[i][1] # k
        BY <1>4, <2>1, <3>2 DEF OneOfEach
      <4> QED BY <1>10, <2>2, <3>2, <4>1
    <3> QED BY <3>1, <3>2
  <2>6. Len(K) <= n + 1
    BY <1>1, <1>4, <2>2
  <2> QED BY <1>1, <1>7, <1>11, <2>4, <2>5, <2>6 DEF UpTo, R, e, k, v, x
<1> QED BY <1>6, <1>12, <1>13

(***************************************************************************)
(* The initial states and the steps.                                        *)
(***************************************************************************)

\* The recursive function SmallInsertAll(r), unfolded.
LEMMA SmallInsertAllFacts ==
  ASSUME NEW r \in Seq(Pair), Len(r) \in 2 .. SmallMax - 1
  PROVE  LET map == SmallInsertAll(r)
         IN /\ map[0] = Small(Len(r), <<>>)
            /\ \A n \in Nat : n + 1 <= Len(r) => map[n + 1] = SmallInsert(map[n], r[n + 1][1], r[n + 1][2])
<1> DEFINE R == Len(r)
           In(o, n) == SmallInsert(o, r[n][1], r[n][2])
           IsMap(w) == w = [n \in 0 .. R |-> IF n = 0 THEN Small(R, <<>>) ELSE In(w[n - 1], n)]
           a == Small(R, <<>>)
           b == In(a, 1)
           c == In(b, 2)
           f == [n \in 0 .. R |-> IF n = 0 THEN a ELSE IF n = 1 THEN b ELSE IF n = 2 THEN c ELSE In(c, 3)]
           map == SmallInsertAll(r)
<1>1. R \in 2 .. 3
  BY DEF SmallMax
<1>2. map = CHOOSE w : IsMap(w)
  BY DEF SmallInsertAll
<1> HIDE DEF map, R
<1>3. IsMap(f)
  <2> DEFINE g(n) == IF n = 0 THEN a ELSE In(f[n - 1], n)
  <2>1. ASSUME NEW n \in 0 .. R PROVE f[n] = g(n)
    <3>1. n = 0 \/ n = 1 \/ n = 2 \/ n = 3
      BY <1>1
    <3>2. 0 \in 0 .. R /\ 1 \in 0 .. R /\ 2 \in 0 .. R
      BY <1>1
    <3> HIDE DEF In, a
    <3>3. f[0] = a /\ f[1] = In(a, 1) /\ f[2] = In(In(a, 1), 2)
      BY <3>2
    <3>4. n = 3 => f[n] = In(In(In(a, 1), 2), 3)
      OBVIOUS
    <3> HIDE DEF f
    <3>5. CASE n = 0 BY <3>3, <3>5
    <3>6. CASE n = 1 BY <3>3, <3>6
    <3>7. CASE n = 2 BY <3>3, <3>7
    <3>8. CASE n = 3 BY <3>3, <3>4, <3>8
    <3> QED BY <3>1, <3>5, <3>6, <3>7, <3>8
  <2>2. DOMAIN f = 0 .. R /\ f = [n \in 0 .. R |-> f[n]]
    OBVIOUS
  <2> HIDE DEF f, g
  <2>3. f = [n \in 0 .. R |-> g(n)]
    BY <2>1, <2>2
  <2> QED BY <2>3 DEF g
<1>4. IsMap(map)
  <2> HIDE DEF IsMap, f
  <2> QED BY <1>2, <1>3
<1> HIDE DEF In, f, a
<1>5. map = [n \in 0 .. R |-> IF n = 0 THEN Small(R, <<>>) ELSE In(map[n - 1], n)]
  BY <1>4
<1> HIDE DEF IsMap
<1>6. map[0] = Small(R, <<>>)
  BY <1>1, <1>5
<1>7. ASSUME NEW n \in Nat, n + 1 <= R PROVE map[n + 1] = In(map[n], n + 1)
  <2>1. n + 1 \in 0 .. R /\ n + 1 # 0 /\ (n + 1) - 1 = n
    BY <1>1, <1>7
  <2>2. map[n + 1] = In(map[(n + 1) - 1], n + 1)
    BY <1>5, <2>1
  <2> QED BY <2>1, <2>2
<1> QED BY <1>6, <1>7 DEF map, R, In

\* What a map built from r holds.
Created(o, r) == \E L : MapHolds(o, L) /\ Ordered!BuiltFrom(L, r)

\* CreateFromRange of 2 to kMaxSize - 1 pairs: a small map, filled one by one.
LEMMA CreateSmall ==
  ASSUME NEW r \in Seq(Pair), Len(r) \in 2 .. SmallMax - 1
  PROVE  Created(SmallInsertAll(r)[Len(r)], r)
<1> DEFINE R == Len(r)
           map == SmallInsertAll(r)
           S == {n \in Nat : n <= R => UpTo(map[n], r, n)}
<1>1. R \in 2 .. 3 /\ SmallMax = 4
  BY DEF SmallMax
<1>2. map[0] = Small(R, <<>>) /\ \A n \in Nat : n + 1 <= R => map[n + 1] = SmallInsert(map[n], r[n + 1][1], r[n + 1][2])
  BY SmallInsertAllFacts
<1> HIDE DEF map, R
<1>3. UpTo(map[0], r, 0)
  <2>1. SmallHolds(map[0], R, <<>>)
    BY <1>1, <1>2 DEF SmallHolds, OneOfEach
  <2>2. Ordered!Keys(<<>>) = KeysTo(r, 0)
    BY DEF Ordered!Keys, KeysTo
  <2>3. Len(<<>>) <= 0
    OBVIOUS
  <2> QED BY <2>1, <2>2, <2>3 DEF UpTo, R
<1>4. \A n \in Nat : n \in S => n + 1 \in S
  <2> SUFFICES ASSUME NEW n \in Nat, n \in S, n + 1 <= R PROVE UpTo(map[n + 1], r, n + 1)
    OBVIOUS
  <2>1. UpTo(map[n], r, n) /\ R < SmallMax
    BY <1>1
  <2>2. UpTo(SmallInsert(map[n], r[n + 1][1], r[n + 1][2]), r, n + 1)
    BY <2>1, UpToNext DEF R
  <2> QED BY <1>2, <2>2
<1>5. 0 \in S
  BY <1>3
<1>6. Nat \subseteq S
  <2> HIDE DEF S
  <2> QED BY <1>4, <1>5, NatInd
<1>7. UpTo(map[R], r, R)
  BY <1>1, <1>6
<1>8. PICK L : /\ SmallHolds(map[R], R, L) /\ Ordered!Keys(L) = KeysTo(r, R)
               /\ \A i \in DOMAIN L : LastIn(r, R, L[i])
  BY <1>7 DEF UpTo, R
<1>9. Ordered!BuiltFrom(L, r)
  BY <1>8, BuiltIs DEF SmallHolds, R
<1>10. MapHolds(map[R], L)
  BY <1>8, SmallHoldsIs
<1> QED BY <1>9, <1>10 DEF Created, map, R

\* CreateFromRange of any range: of two pairs with the same key the later wins,
\* wherever it ends up.
LEMMA CreateFacts ==
  ASSUME NEW r \in Ranges, CreateFromRange(r).slots <= MaxSlots
  PROVE  Created(CreateFromRange(r), r)
<1> DEFINE o == CreateFromRange(r)
           R == Len(r)
<1>1. r \in Seq(Pair) /\ R \in Nat /\ SmallMax = 4
  BY MapAssumption DEF SmallMax, Pair
<1>a. R < 2 \/ R \in 2 .. SmallMax - 1 \/ R >= SmallMax
  <2> HIDE DEF R
  <2> QED BY <1>1
<1>2. CASE R < 2
  <2>1. o = Small(R, r)
    BY <1>1, <1>2 DEF CreateFromRange
  <2>2. OneOfEach(r)
    BY <1>1, <1>2 DEF OneOfEach
  <2> HIDE DEF o
  <2>3. SmallHolds(o, R, r)
    <3>1. R <= R /\ R \in 0 .. SmallMax
      <4> HIDE DEF R
      <4> QED BY <1>1, <1>2
    <3> QED BY <1>1, <2>1, <2>2, <3>1 DEF SmallHolds
  <2>4. Ordered!BuiltFrom(r, r)
    BY <1>1, <2>2, LatestItself, LatestBuilt
  <2> QED BY <2>3, <2>4, SmallHoldsIs DEF Created, o
<1>3. CASE R \in 2 .. SmallMax - 1
  <2>1. o = SmallInsertAll(r)[R]
    <3>1. ~(R < 2) /\ ~(R >= SmallMax)
      <4> HIDE DEF R
      <4> QED BY <1>1, <1>3
    <3> QED BY <1>3, <3>1 DEF CreateFromRange
  <2> QED BY <1>1, <1>3, <2>1, CreateSmall
<1>4. CASE R >= SmallMax
  <2> DEFINE size == CalcTableSize(R)
             t == EmptyTable(size)
  <2>1. o = DenseInsertAll(t, r)
    BY <1>1, <1>4 DEF CreateFromRange
  <2>2. size \in Sizes /\ size > SmallMax
    BY <1>1, <1>4, MapAssumption, CalcTableSizeFacts
  <2>3. t.slots = size /\ size \in Nat /\ Holds(t, <<>>)
    BY <2>2, SizesAre, HoldsNothing DEF EmptyTable
  <2>4. Closed(Latest(r)) /\ <<>> \o r = r /\ r \in Latest(r)
    BY <1>1, LatestClosed, LatestItself
  <2> HIDE DEF t, size
  <2>5. Grown(DenseInsertAll(t, r), Latest(r), t.slots)
    BY <1>1, <2>3, <2>4, DenseInsertAllFacts
  <2>6. Grown(o, Latest(r), t.slots)
    BY <2>1, <2>5
  <2>7. o.slots <= MaxSlots
    OBVIOUS
  <2> HIDE DEF o
  <2>8. o # EmptyTable(2 * MaxSlots)
    <3>1. EmptyTable(2 * MaxSlots).slots = 2 * MaxSlots
      BY DEF EmptyTable
    <3>2. MaxSlots \in Nat /\ MaxSlots < 2 * MaxSlots
      BY SizesAre
    <3> QED BY <2>7, <3>1, <3>2
  <2>9. PICK L \in Latest(r) : Holds(o, L) /\ o.slots >= t.slots
    BY <2>6, <2>8 DEF Grown
  <2>10. OneOfEach(L) /\ o.slots \in Nat
    BY <2>9, HoldsFacts, SizesAre DEF HoldsIs
  <2>11. Ordered!BuiltFrom(L, r)
    BY <1>1, <2>10, LatestBuilt
  <2>12. o.slots > SmallMax
    BY <1>1, <2>2, <2>3, <2>9, <2>10
  <2>13. MapHolds(o, L)
    BY <2>7, <2>9, <2>12 DEF MapHolds
  <2> QED BY <2>11, <2>13 DEF Created, o
<1> QED BY <1>a, <1>2, <1>3, <1>4

\* A map that was just constructed.
LEMMA InitMap ==
  ASSUME Init
  PROVE  MInv /\ Ordered!OMInit
<1>1. PICK r \in Ranges : obj = CreateFromRange(r) /\ obj.slots <= MaxSlots
  BY DEF Init
<1>2. Created(obj, r)
  BY <1>1, CreateFacts
<1>3. PICK L : MapHolds(obj, L) /\ Ordered!BuiltFrom(L, r)
  BY <1>2 DEF Created
<1>4. Contents = L
  BY <1>3, MapHoldsFacts
<1>5. Ordered!OMInit
  BY <1>3, <1>4 DEF Ordered!OMInit
<1> QED BY <1>3, <1>5 DEF MInv

\* The items before and after a step.
LEMMA StepMap ==
  ASSUME NEW L, MapHolds(obj, L), Next
  PROVE  \E K : /\ MapHolds(obj', K)
                /\ \/ \E p \in Pairs : K \in Ordered!SetIn(L, p[1], p[2])
                   \/ \E k \in Key : K = Ordered!Without(L, k)
                   \/ K = <<>>
<1>1. ASSUME NEW p \in Pairs, Set(p[1], p[2])
      PROVE  \E K : MapHolds(obj', K) /\ K \in Ordered!SetIn(L, p[1], p[2])
  <2>1. p[1] \in Key /\ p[2] \in Value
    BY MapAssumption
  <2>2. PICK m \in CopyOnWrite : obj' = InsertMaybeReHash(m, p[1], p[2]) /\ obj'.slots <= MaxSlots
    BY <1>1 DEF Set
  <2>3. MapHolds(m, L) /\ m # Null
    BY CopyHolds
  <2>4. InsertMaybeReHash(m, p[1], p[2]).slots <= MaxSlots
    BY <2>2
  <2>5. SetOf(InsertMaybeReHash(m, p[1], p[2]), L, p[1], p[2])
    BY <2>1, <2>3, <2>4, InsertMaybeReHashFacts
  <2> QED BY <2>2, <2>5 DEF SetOf
<1>2. ASSUME NEW k \in Key, Erase(k) PROVE MapHolds(obj', Ordered!Without(L, k))
  <2>1. PICK m \in CopyOnWrite : obj' = Shrunk(m, k)
    BY <1>2 DEF Erase, Shrunk
  <2>2. MapHolds(m, L) /\ m # Null
    BY CopyHolds
  <2>3. MapHolds(Shrunk(m, k), Ordered!Without(L, k))
    BY <2>2, EraseFacts
  <2> QED BY <2>1, <2>3
<1>3. ASSUME Clear PROVE MapHolds(obj', <<>>)
  <2>1. SmallHolds(obj', InitSize, <<>>)
    BY <1>3 DEF Clear, SmallHolds, InitSize, SmallMax, OneOfEach
  <2> QED BY <2>1, SmallHoldsIs
<1>4. ASSUME MoveFrom PROVE MapHolds(obj', <<>>)
  BY <1>4 DEF MoveFrom, MapHolds
<1> QED BY <1>1, <1>2, <1>3, <1>4 DEF Next

(***************************************************************************)
(* The theorems.                                                            *)
(***************************************************************************)

\* The items an object holds are those iterating it yields.
ShowsItems == \A L : MapHolds(obj, L) => Contents = L

\* Iterating a map yields the items it holds.
LEMMA Shown == ShowsItems
  BY MapHoldsFacts DEF ShowsItems

\* The invariant is inductive, and a step of the map is one of OrderedMap's.
LEMMA StepRefines == MInv /\ [Next]_obj => MInv' /\ [Ordered!OMNext]_Contents
<1> SUFFICES ASSUME MInv, [Next]_obj PROVE MInv' /\ [Ordered!OMNext]_Contents
  OBVIOUS
<1>1. PICK L : MapHolds(obj, L)
  BY DEF MInv
<1>2. Contents = L
  BY <1>1, Shown DEF ShowsItems
<1>3. CASE UNCHANGED obj
  <2>1. Contents' = Contents
    BY <1>3 DEF Contents
  <2>2. MInv'
    BY <1>1, <1>3 DEF MInv
  <2> QED BY <2>1, <2>2
<1>4. CASE Next
  <2>1. PICK K : /\ MapHolds(obj', K)
                 /\ \/ \E p \in Pairs : K \in Ordered!SetIn(L, p[1], p[2])
                    \/ \E k \in Key : K = Ordered!Without(L, k)
                    \/ K = <<>>
    BY <1>1, <1>4, StepMap
  <2>2. ShowsItems'
    BY Shown, PTL
  <2>3. Contents' = K
    BY <2>1, <2>2 DEF ShowsItems
  <2>4. MInv'
    BY <2>1 DEF MInv
  <2>5. Ordered!OMNext
    BY <1>2, <2>1, <2>3 DEF Ordered!OMNext, Ordered!Put, Ordered!Withdraw, Ordered!Clear
  <2> QED BY <2>4, <2>5
<1> QED BY <1>3, <1>4

\* Between two calls of member functions a map is consistent: a table's chains,
\* iteration list, tags and size agree, and no key is in it twice, after any
\* insertion (TryInsert, TrySpareListHead, InsertMaybeReHash), erasure (Erase) and
\* copy (CopyOnWrite), for every hash function, probe sequence and bound.
THEOREM MapInvariance == Spec => []MInv
<1>1. Init => MInv
  BY InitMap
<1>2. MInv /\ [Next]_obj => MInv'
  BY StepRefines
<1> QED BY <1>1, <1>2, PTL DEF Spec

\* A map has a layout that fits its size, a small one never more entries than slots
\* nor more slots than kMaxSize, and a slot of a table is empty exactly when its
\* metadata says so (SetSlotsAndDenseLayoutTag, IsEmpty).
THEOREM MapTypeCorrect == Spec => []TypeOK
<1>1. MInv => TypeOK
  BY MInvTypeOK
<1> QED BY <1>1, MapInvariance, PTL

\* find() answers what iterating from begin() to end() would find, whatever keys
\* collide: no key is lost by a relocation, a removal or a rehash, and none is
\* found twice (Search, IncItr).
THEOREM LookupAgrees == Spec => []LookupMatchesIteration
<1>1. MInv => LookupMatchesIteration
  BY MInvLookup
<1> QED BY <1>1, MapInvariance, PTL

\* Each occupied slot is on exactly one chain, which starts where its key hashes to:
\* FindPrev, which walks a chain without looking for its end, always finds the slot
\* it looks for.
THEOREM ChainsAgree == Spec => [](ChainsPartitionTheTable)
<1>1. MInv => ChainsPartitionTheTable
  BY MInvDense
<1> QED BY <1>1, MapInvariance, PTL

\* The iteration list runs through the occupied slots, each once and the same both
\* ways, and size() counts them (IterListUnlink, IterListPushBack,
\* IterListReplaceNodeBy).
THEOREM ListAgrees == Spec => [](IterListThreadsTheTable)
<1>1. MInv => IterListThreadsTheTable
  BY MInvDense
<1> QED BY <1>1, MapInvariance, PTL

\* No slot is still protected when a member function returns, although
\* TrySpareListHead protects one and may give up halfway: InsertMaybeReHash then
\* rebuilds the table, so CopyFrom's TVM_FFI_ICHECK(meta != kProtectedSlot) holds.
THEOREM NothingProtected == Spec => []NothingStaysProtected
<1>1. MInv => NothingStaysProtected
  BY MInvDense
<1> QED BY <1>1, MapInvariance, PTL

\* A map is the ordered map of OrderedMap, in both layouts and through every change
\* of layout or size: a constructed map has the last value of each key of its range,
\* Set changes the pair of one key and at most its place, Erase removes one pair and
\* keeps the others in order, and nothing else changes what iterating yields.
THEOREM MapRefines == Spec => ImplementsOrderedMap
<1>1. Init => Ordered!OMInit
  BY InitMap
<1>2. MInv /\ [Next]_obj => [Ordered!OMNext]_Contents
  BY StepRefines
<1> QED BY <1>1, <1>2, MapInvariance, PTL DEF Spec, ImplementsOrderedMap, Ordered!OMSpec

=============================================================================
