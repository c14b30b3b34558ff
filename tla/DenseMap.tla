------------------------------ MODULE DenseMap ------------------------------
(***************************************************************************)
(* DenseMapObj (include/ffi/container/map.h): an open-addressing table     *)
(* whose chains are linked lists inside the slot array.  A byte of         *)
(* metadata per slot says whether the slot starts or continues a chain and *)
(* how far away the chain goes on; a second, doubly linked list threads    *)
(* the occupied slots in iteration order.                                  *)
(*                                                                         *)
(* A table is a record; each operator is one member function and returns   *)
(* the table it leaves behind.                                             *)
(***************************************************************************)
EXTENDS Integers, SequencesExt

CONSTANTS
  Key, Value,
  HashSpan,   \* a power of two; no table has more slots
  Hash,       \* the top bits of AnyHash times the Fibonacci coefficient, < HashSpan
  Probe,      \* kNextProbeLocation from index 1 on
  NoSlot,     \* kInvalidIndex, and a ListNode that is None
  NoValue,    \* the Any(nullptr) a fresh node holds until its value is set
  MaxSlots,   \* bound: the size beyond which a table does not grow
  MaxTurns    \* bound: the turns of an insertion, each an item or a rehash

TableSizes == {2, 4, 8, 16, 32, 64, 128, 256, 512, 1024, 2048, 4096, 8192, 16384, 32768, 65536}

ASSUME DenseMapAssumption ==
  /\ HashSpan \in Nat \ {0} /\ Hash \in [Key -> 0 .. HashSpan - 1]
  /\ Probe \in Seq(Nat)
  /\ NoSlot \notin Int /\ NoSlot \notin Key /\ NoValue \notin Value
  /\ MaxSlots \in TableSizes /\ MaxSlots <= HashSpan /\ MaxTurns \in Nat

Empty == [kind |-> "empty", jump |-> 0]
Protected == [kind |-> "protected", jump |-> 0]
NoItem == [key |-> NoSlot, val |-> NoValue, prev |-> NoSlot, next |-> NoSlot]

Slots(d) == 0 .. d.slots - 1
Occupied(d) == {i \in Slots(d) : d.meta[i].kind \in {"head", "body"}}

EmptyTable(n) ==
  [layout |-> "dense", slots |-> n, size |-> 0, head |-> NoSlot, tail |-> NoSlot,
   meta |-> [i \in 0 .. n - 1 |-> Empty], item |-> [i \in 0 .. n - 1 |-> NoItem]]

\* The smallest power of two above cap that is also at least twice cap.
CalcTableSize(cap) == Min({n \in TableSizes : n > cap /\ n >= 2 * cap})

Home(d, k) == (Hash[k] * d.slots) \div HashSpan

\* IsFull compares size + 1 with 99 percent of the slots.
IsFull(d) == (d.size + 1) * 100 > d.slots * 99

At(d, i, jump) == (i + Probe[jump]) % d.slots

IsHead(d, i) == d.meta[i].kind = "head"
HasNext(d, i) == d.meta[i].jump # 0
SetJump(d, i, jump) == [d EXCEPT !.meta[i].jump = jump]

\* The slot after i on its chain, and in the iteration list; NoSlot at the end.
MoveToNext(d, i) ==
  IF i # NoSlot /\ HasNext(d, i) THEN At(d, i, d.meta[i].jump) ELSE NoSlot
IncItr(d, i) == IF i = NoSlot THEN NoSlot ELSE d.item[i].next

\* The slots that a walk visits before it ends.
Visited(d, walk) ==
  LET len == CHOOSE n \in 0 .. d.slots :
               /\ walk[n] = NoSlot \/ n = d.slots
               /\ \A m \in 0 .. n - 1 : walk[m] # NoSlot
  IN [n \in 1 .. len |-> walk[n - 1]]

\* The slots of the chain from slot i on, and those the iterator visits from there.
ChainWalk(d, i) ==
  LET walk[n \in Nat] == IF n = 0 THEN i ELSE MoveToNext(d, walk[n - 1]) IN walk
Chain(d, i) == Visited(d, ChainWalk(d, i))
IterWalk(d, i) ==
  LET walk[n \in Nat] == IF n = 0 THEN i ELSE IncItr(d, walk[n - 1]) IN walk
IterFrom(d, i) == Visited(d, IterWalk(d, i))

\* The jumps from slot i that GetNextEmpty accepts; it takes the first.
EmptyJumps(d, i) == {j \in DOMAIN Probe : d.meta[At(d, i, j)] = Empty}

FindPrev(d, i) ==
  LET chain == Chain(d, Home(d, d.item[i].key))
  IN chain[(CHOOSE j \in DOMAIN chain : chain[j] = i) - 1]

Search(d, k) ==
  LET found == IF d.size = 0 \/ ~IsHead(d, Home(d, k)) THEN {}
               ELSE {i \in Range(Chain(d, Home(d, k))) : d.item[i].key = k}
  IN IF found = {} THEN NoSlot ELSE CHOOSE i \in found : TRUE

-----------------------------------------------------------------------------
(* The iteration list. *)

LinkPrev(d, i, prev) ==   \* what precedes i now leads to prev's successor i
  IF prev = NoSlot THEN [d EXCEPT !.head = i] ELSE [d EXCEPT !.item[prev].next = i]
LinkNext(d, i, next) ==
  IF next = NoSlot THEN [d EXCEPT !.tail = i] ELSE [d EXCEPT !.item[next].prev = i]

\* Fault: the tail is not updated when the last item leaves the list.
IterListUnlinkKeepsTail(d, i) ==
  LET prev == d.item[i].prev
      next == d.item[i].next
  IN IF next = NoSlot THEN LinkPrev(d, next, prev)
     ELSE LinkNext(LinkPrev(d, next, prev), prev, next)

IterListUnlink(d, i) ==
  LET prev == d.item[i].prev
      next == d.item[i].next
  IN LinkNext(LinkPrev(d, next, prev), prev, next)

IterListPushBack(d, i) ==
  LET linked == [d EXCEPT !.item[i].prev = d.tail, !.item[i].next = NoSlot,
                          !.head = IF @ = NoSlot THEN i ELSE @, !.tail = i]
  IN IF d.tail = NoSlot THEN linked ELSE [linked EXCEPT !.item[d.tail].next = i]

\* The data of src moves to dst, which takes its place in the iteration list
\* (IterListReplaceNodeBy), and src is destroyed.
MoveNode(d, src, dst) ==
  LET moved == [d EXCEPT !.item[dst] = d.item[src], !.item[src] = NoItem]
  IN LinkNext(LinkPrev(moved, dst, d.item[src].prev), dst, d.item[src].next)

-----------------------------------------------------------------------------
(* Insertion. *)

NewNode(d, i, k, kind) ==
  [d EXCEPT !.meta[i] = [kind |-> kind, jump |-> 0],
            !.item[i] = [NoItem EXCEPT !.key = k],
            !.size = @ + 1]

\* Fault: is_first is never reset, so every slot vacated becomes protected.
VacatedProtectsAll(r, target) == Protected

\* The first slot vacated is protected, so that nothing is moved back into it.
Vacated(r, target) == IF r = target THEN Protected ELSE Empty

\* One turn of the loop of TrySpareListHead: the node in slot x.r moves behind
\* slot x.w.  Without an empty slot for it the loop stops, maybe halfway.
SpareTurn(x, target) ==
  LET d == x.table
      jump == Min(EmptyJumps(d, x.w))
      to == At(d, x.w, jump)
  IN IF x.r = NoSlot \/ EmptyJumps(d, x.w) = {} THEN x
     ELSE [table |-> [MoveNode(d, x.r, to) EXCEPT
                        !.meta[to] = [kind |-> "body", jump |-> 0],
                        !.meta[x.r] = Vacated(x.r, target),
                        !.meta[x.w].jump = jump],
           w |-> to, r |-> MoveToNext(d, x.r)]

\* The chain from slot target on moves behind the slot before it.
Spare(d, target) ==
  LET turn[n \in Nat] == IF n = 0 THEN [table |-> d, w |-> FindPrev(d, target), r |-> target]
                         ELSE SpareTurn(turn[n - 1], target)
  IN turn

TrySpareListHead(d, target, k) ==
  LET spared == Spare(d, target)[d.slots]
  IN IF spared.r = NoSlot
     THEN [done |-> TRUE, at |-> target, table |-> NewNode(spared.table, target, k, "head")]
     ELSE [done |-> FALSE, at |-> NoSlot, table |-> spared.table]

\* A key that is there is unlinked from the iteration list, which
\* InsertMaybeReHash puts it back into at the end.
TryInsert(d, k) ==
  LET home == Home(d, k)
      fail == [done |-> FALSE, at |-> NoSlot, table |-> d]
      tail == Last(Chain(d, home))
      jump == Min(EmptyJumps(d, tail))
      to == At(d, tail, jump)
  IN CASE d.meta[home] = Empty ->
            [done |-> TRUE, at |-> home, table |-> NewNode(d, home, k, "head")]
       [] d.meta[home] # Empty /\ ~IsHead(d, home) ->
            IF IsFull(d) THEN fail ELSE TrySpareListHead(d, home, k)
       [] IsHead(d, home) /\ Search(d, k) # NoSlot ->
            [done |-> TRUE, at |-> Search(d, k), table |-> IterListUnlink(d, Search(d, k))]
       [] IsHead(d, home) /\ Search(d, k) = NoSlot ->
            IF IsFull(d) \/ EmptyJumps(d, tail) = {} THEN fail
            ELSE [done |-> TRUE, at |-> to,
                  table |-> SetJump(NewNode(d, to, k, "body"), tail, jump)]

Items(d) ==
  LET order == IterFrom(d, d.head)
  IN [i \in DOMAIN order |-> <<d.item[order[i]].key, d.item[order[i]].val>>]

\* One turn of InsertMaybeReHash and the loops that call it: the first pair to
\* do is inserted or, when TryInsert fails, the items go in iteration order
\* before it, into a table twice as large: also those a half finished
\* TrySpareListHead left outside any chain.
InsertTurn(x) ==
  LET try == TryInsert(x.table, Head(x.todo)[1])
  IN IF x.todo = <<>> \/ x.table.slots > MaxSlots THEN x
     ELSE IF try.done
     THEN [table |-> IterListPushBack([try.table EXCEPT !.item[try.at].val = Head(x.todo)[2]],
                                      try.at),
           todo |-> Tail(x.todo)]
     ELSE [table |-> EmptyTable(2 * x.table.slots), todo |-> Items(try.table) \o x.todo]

Inserting(d, s) ==
  LET turn[n \in Nat] == IF n = 0 THEN [table |-> d, todo |-> s] ELSE InsertTurn(turn[n - 1])
  IN turn

\* A table beyond both bounds stands for an insertion that meets one of them.
DenseInsertAll(d, s) ==
  LET x == Inserting(d, s)[MaxTurns]
  IN IF x.todo = <<>> THEN x.table ELSE EmptyTable(2 * MaxSlots)

DenseInsert(d, k, v) == DenseInsertAll(d, <<<<k, v>>>>)

-----------------------------------------------------------------------------
(* Removal. *)

\* Fault: the erased slot is emptied although the chain goes on behind it.
DenseEraseCutsChain(d, i) ==
  LET cut == IF IsHead(d, i) THEN d ELSE SetJump(d, FindPrev(d, i), 0)
  IN [IterListUnlink(cut, i) EXCEPT !.meta[i] = Empty, !.item[i] = NoItem, !.size = @ - 1]

\* Fault: the slot before the one that is freed still leads to it.
DenseEraseKeepsJump(d, i) ==
  LET last == Last(Chain(d, i))
      unlinked == IterListUnlink(d, i)
  IN [(IF HasNext(d, i) THEN MoveNode(unlinked, last, i) ELSE unlinked) EXCEPT
        !.meta[last] = Empty, !.item[last] = NoItem, !.size = @ - 1]

\* A chain loses its last slot: that of the erased item, or else that of the
\* last item, which moves into the slot of the erased one.
DenseErase(d, i) ==
  LET smaller == [d EXCEPT !.size = @ - 1]
      chain == Chain(d, i)
      last == Last(chain)
      prev == chain[Len(chain) - 1]
      free(t, slot) == [t EXCEPT !.meta[slot] = Empty, !.item[slot] = NoItem]
      cut == IF IsHead(d, i) THEN smaller ELSE SetJump(smaller, FindPrev(d, i), 0)
  IN IF HasNext(d, i)
     THEN SetJump(free(MoveNode(IterListUnlink(smaller, i), last, i), last), prev, 0)
     ELSE free(IterListUnlink(cut, i), i)
=============================================================================
