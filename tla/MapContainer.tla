---------------------------- MODULE MapContainer ----------------------------
(***************************************************************************)
(* ffi::Map (include/ffi/container/map.h): one handle of a map and the     *)
(* object it refers to, a SmallMapObj of at most SmallMax entries or a     *)
(* DenseMapObj.  Each action is one member function of Map, copy on write  *)
(* included: when another handle shares the object, the action works on a  *)
(* copy, and which of the two is the case is left open.                    *)
(***************************************************************************)
EXTENDS DenseMap

CONSTANTS
  Pairs,      \* the <<key, value>> pairs that Set is called with
  Ranges      \* sequences of <<key, value>> a map may be constructed from

InitSize == 2    \* SmallMapObj::kInitSize
SmallMax == 4    \* SmallMapObj::kMaxSize

\* MaxSlots leaves room for the first table of a range and of a full small map.
ASSUME MapAssumption ==
  /\ Pairs \subseteq Key \X Value /\ Ranges \subseteq Seq(Key \X Value)
  /\ 2 * SmallMax <= MaxSlots /\ \A r \in Ranges : 2 * Len(r) <= MaxSlots

VARIABLE obj   \* the object data_ refers to, or Null

-----------------------------------------------------------------------------
(* SmallMapObj: an array searched from the front. *)

Null == [layout |-> "null"]
Small(n, s) == [layout |-> "small", slots |-> n, items |-> s]

SmallFind(m, k) ==   \* 0: end()
  LET found == {i \in DOMAIN m.items : m.items[i][1] = k}
  IN IF found = {} THEN 0 ELSE Min(found)

\* Fault: the number of slots doubles without a limit.
SmallInsertUnlimited(m, k, v) ==
  CASE SmallFind(m, k) # 0 -> [m EXCEPT !.items[SmallFind(m, k)] = <<k, v>>]
    [] SmallFind(m, k) = 0 ->
         Small(IF Len(m.items) < m.slots THEN m.slots ELSE Max({2 * m.slots, InitSize}),
               Append(m.items, <<k, v>>))

SmallInsert(m, k, v) ==
  LET next_size == Min({Max({2 * m.slots, InitSize}), SmallMax})
  IN CASE SmallFind(m, k) # 0 -> [m EXCEPT !.items[SmallFind(m, k)] = <<k, v>>]
       [] SmallFind(m, k) = 0 /\ Len(m.items) < m.slots ->
            [m EXCEPT !.items = Append(@, <<k, v>>)]
       [] SmallFind(m, k) = 0 /\ Len(m.items) >= m.slots ->
            Small(next_size, Append(m.items, <<k, v>>))

\* Fault: the last entry fills the gap.
SmallEraseSwapsLast(m, k) ==
  IF SmallFind(m, k) = 0 THEN m
  ELSE [m EXCEPT !.items = Front([@ EXCEPT ![SmallFind(m, k)] = Last(m.items)])]

SmallErase(m, k) ==
  IF SmallFind(m, k) = 0 THEN m ELSE [m EXCEPT !.items = RemoveAt(@, SmallFind(m, k))]

-----------------------------------------------------------------------------
(* MapObj: the dispatch on the layout, and the move from small to dense. *)

\* A range of 2 to SmallMax - 1 pairs, inserted one by one.
SmallInsertAll(s) ==
  LET map[n \in 0 .. Len(s)] == IF n = 0 THEN Small(Len(s), <<>>)
                                  ELSE SmallInsert(map[n - 1], s[n][1], s[n][2])
  IN map

CreateFromRange(s) ==
  CASE Len(s) < 2 -> Small(Len(s), s)
    [] Len(s) \in 2 .. SmallMax - 1 -> SmallInsertAll(s)[Len(s)]
    [] Len(s) >= SmallMax -> DenseInsertAll(EmptyTable(CalcTableSize(Len(s))), s)

\* A small map with SmallMax entries becomes dense whatever the key, even when
\* the key is one of its own.
InsertMaybeReHash(m, k, v) ==
  CASE m.layout = "small" /\ Len(m.items) < SmallMax -> SmallInsert(m, k, v)
    [] m.layout = "small" /\ Len(m.items) >= SmallMax ->
         DenseInsert(CreateFromRange(m.items), k, v)
    [] m.layout = "dense" -> DenseInsert(m, k, v)

\* The copy of a small map has no spare slots, that of a dense one is the same.
CopyFrom(m) == IF m.layout = "small" THEN Small(Len(m.items), m.items) ELSE m

\* The objects CopyOnWrite may return: a new one for a moved-from handle, the
\* object itself when the handle is unique, a copy when it is not.
CopyOnWrite ==
  IF obj = Null THEN {Small(InitSize, <<>>)} ELSE {obj, CopyFrom(obj)}

\* Not asked of a moved-from handle: find, Get and at go through the null pointer.
Find(k) ==
  CASE obj.layout = "small" ->
         IF SmallFind(obj, k) = 0 THEN NoValue ELSE obj.items[SmallFind(obj, k)][2]
    [] obj.layout = "dense" ->
         IF Search(obj, k) = NoSlot THEN NoValue ELSE obj.item[Search(obj, k)].val

\* What iterating from begin() to end() yields; a moved-from map has size 0.
Contents ==
  CASE obj.layout = "null" -> <<>>
    [] obj.layout = "small" -> obj.items
    [] obj.layout = "dense" -> Items(obj)

-----------------------------------------------------------------------------
(* Map. *)

Init == obj \in {CreateFromRange(r) : r \in Ranges} /\ obj.slots <= MaxSlots

Set(k, v) ==
  \E m \in CopyOnWrite :
    /\ obj' = InsertMaybeReHash(m, k, v)
    /\ obj'.slots <= MaxSlots

Erase(k) ==
  \E m \in CopyOnWrite :
    obj' = CASE m.layout = "small" -> SmallErase(m, k)
             [] m.layout = "dense" /\ Search(m, k) = NoSlot -> m
             [] m.layout = "dense" /\ Search(m, k) # NoSlot -> DenseErase(m, Search(m, k))

Clear == obj # Null /\ obj' = Small(InitSize, <<>>)

MoveFrom == obj' = Null

Next ==
  \/ \E p \in Pairs : Set(p[1], p[2])
  \/ \E k \in Key : Erase(k)
  \/ Clear
  \/ MoveFrom

Spec == Init /\ [][Next]_obj

-----------------------------------------------------------------------------
(* Properties. *)

\* Type correctness: a small map fits its slots, a dense map has a power of
\* two of them (SetSlotsAndSmallLayoutTag, SetSlotsAndDenseLayoutTag).
TypeOK ==
  CASE obj.layout = "null" -> TRUE
    [] obj.layout = "small" ->
         Len(obj.items) <= obj.slots /\ obj.slots \in 0 .. SmallMax
    [] obj.layout = "dense" ->
         /\ obj.slots \in TableSizes /\ obj.slots > SmallMax /\ obj.slots <= MaxSlots
         /\ \A i \in Slots(obj) : obj.meta[i] = Empty <=> obj.item[i] = NoItem

Ordered == INSTANCE OrderedMap WITH pairs <- Contents

\* Looking a key up answers what iterating would find, in both layouts: the
\* chains and the iteration list are kept in step by every insertion that
\* relocates other keys, every erasure that refills a slot and every rehash
\* (Search against begin/IncItr).
LookupMatchesIteration ==
  /\ \A i, j \in DOMAIN Contents : Contents[i][1] = Contents[j][1] => i = j
  /\ obj # Null =>
       /\ \A i \in DOMAIN Contents : Find(Contents[i][1]) = Contents[i][2]
       /\ \A k \in Key : Find(k) = NoValue <=> k \notin Ordered!Keys(Contents)

\* Each occupied slot is on exactly one chain, the one that starts in the slot
\* its key hashes to, and nothing but the first slot of a chain is a head.
\* FindPrev loops for ever, and MoveToNext leaves the table, when this breaks.
ChainsPartitionTheTable ==
  obj.layout = "dense" =>
    /\ \A i \in Occupied(obj) :
         LET home == Home(obj, obj.item[i].key)
         IN IsHead(obj, home) /\ Cardinality({j \in DOMAIN Chain(obj, home) :
                                               Chain(obj, home)[j] = i}) = 1
    /\ \A h \in Occupied(obj) : IsHead(obj, h) =>
         \A i \in Range(Chain(obj, h)) :
            /\ i \in Occupied(obj) /\ Home(obj, obj.item[i].key) = h
            /\ IsHead(obj, i) => i = h

\* The iteration list runs through exactly the occupied slots, the same way
\* forwards and backwards, and size_ counts them (IterListUnlink,
\* IterListPushBack, IterListReplaceNodeBy).
IterListThreadsTheTable ==
  obj.layout = "dense" =>
    LET order == IterFrom(obj, obj.head)
    IN /\ Range(order) = Occupied(obj)
       /\ Len(order) = Cardinality(Occupied(obj)) /\ obj.size = Len(order)
       /\ \A j \in DOMAIN order :
            obj.item[order[j]].prev = IF j = 1 THEN NoSlot ELSE order[j - 1]
       /\ obj.tail = IF order = <<>> THEN NoSlot ELSE Last(order)

\* No operation ends with a slot still protected: a TrySpareListHead that gave
\* up halfway is always followed by a rehash.  CopyFrom insists on it
\* (TVM_FFI_ICHECK(meta != kProtectedSlot)).
NothingStaysProtected ==
  obj.layout = "dense" => \A i \in Slots(obj) : obj.meta[i] # Protected

\* Whatever the layout, the map behaves as the ordered map of OrderedMap, which
\* knows nothing of slots, chains or rehashing.
ImplementsOrderedMap == Ordered!OMSpec

\* "test that map preserves the insertion order" (tests/cpp/test_map.cpp):
\* setting a key that is there leaves the order of the keys alone.
KeepsInsertionOrder ==
  [][Ordered!Keys(Contents) = Ordered!Keys(Contents') =>
       \A i \in DOMAIN Contents : Contents[i][1] = Contents'[i][1]]_obj
=============================================================================
