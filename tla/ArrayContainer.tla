--------------------------- MODULE ArrayContainer ---------------------------
(***************************************************************************)
(* ffi::Array (include/ffi/container/array.h): handles that share blocks   *)
(* of slots and copy a block before they change it, unless they are the    *)
(* only one to refer to it.  Each action is one member function; between   *)
(* the calls that MapHelper makes to its callback any other action may     *)
(* happen.  A count of references is the set of the roots that refer to    *)
(* the block, which ObjectRefCount justifies.                              *)
(***************************************************************************)
EXTENDS Integers, Sequences, FiniteSets

CONSTANTS
  Handle,   \* the variables of type Array
  Block,    \* the addresses an ArrayObj may get; bound: no more than that
  Value,    \* element values
  None,     \* the element that is a default Any
  Raw,      \* a slot that holds no element
  Junk,     \* what comes of assigning to a raw slot or constructing over an element
  NoConv,   \* the result of a conversion that is not possible
  Types,    \* element types T: those that are a T as they are (CheckAnyStrict)
            \* and what try_cast<T> makes of an element
  Lengths,  \* the integers that resize, reserve, erase and Set are called with
  Ranges,   \* the sequences that Assign and insert are called with
  MaxSize,  \* bound: no action that would make an array longer
  MaxElements,   \* bound: no action that would leave more elements in all blocks
  Null

VARIABLES
  ref,      \* the block that a root refers to, or Null
  heap,     \* the ArrayObj at an address, or Null
  job       \* the loop of MapHelper that is running, or Null

vars == <<ref, heap, job>>

Data == "data"        \* the parameter of MapHelper
Output == "output"    \* its local variable
Root == Handle \union {Data, Output}

Elem == Value \union {None}

Slot == Elem \union {Raw, Junk}

\* size_ and the slots at data_, as many as capacity_.
ArrayObj == [size : Nat, mem : Seq(Slot)]

\* The locals of MapHelper: the element its callback works on (from 1), the
\* handle its result goes to, which of the three loops it is in, and what the
\* callback was given.
Job == [pos : Nat \ {0}, dst : Handle, path : {"in place", "identical", "copy"}, arg : Elem]

ASSUME ArrayAssumption ==
  /\ Data \notin Handle /\ Output \notin Handle
  /\ Raw \notin Elem /\ Junk \notin Elem /\ Raw # Junk /\ None \notin Value
  /\ Null \notin Block /\ Null \notin ArrayObj /\ Null \notin Seq(Elem)
  /\ Null \notin Job /\ Null \notin [dst : Handle, done : Seq(Slot), todo : Seq(Slot)]
  /\ Types \subseteq [strict : SUBSET Elem, conv : [Elem -> Elem \union {NoConv}]]
  /\ NoConv \notin Elem
  /\ \A T \in Types : \A x \in T.strict : T.conv[x] = x
  /\ Ranges \subseteq Seq(Value) /\ Lengths \subseteq Int
  /\ \A n \in Lengths : n <= MaxSize
  /\ \A s \in Ranges : Len(s) <= MaxSize

-----------------------------------------------------------------------------
(* ArrayObj: slots are numbered from 1, positions are offsets as in the code. *)

KInitSize == 4
KIncFactor == 2

Larger(m, n) == IF m >= n THEN m ELSE n

Contents(p) == SubSeq(p.mem, 1, p.size)

Empty(n) == [size |-> 0, mem |-> [i \in 1 .. n |-> Raw]]

\* Placement new: an element that is still there is lost without a destructor.
InitRange(p, idx, s) ==
  [p EXCEPT !.mem = [j \in 1 .. Len(p.mem) |->
     IF j \in idx + 1 .. idx + Len(s)
     THEN IF p.mem[j] \in {Raw, None} THEN s[j - idx] ELSE Junk
     ELSE p.mem[j]]]

Grown(p, n) == [p EXCEPT !.size = @ + n]

\* Assignment, which destroys the element that was there.
Assigned(old, x) == IF old = Raw THEN Junk ELSE x

\* MoveElementsLeft and MoveElementsRight: both go through the source in the
\* order that never overwrites an element before it is moved.
MoveElements(p, dst, st, ed) ==
  [p EXCEPT !.mem = [j \in 1 .. Len(p.mem) |->
     IF j \in dst + 1 .. dst + (ed - st) THEN Assigned(p.mem[j], p.mem[j - dst + st])
     ELSE IF j \in st + 1 .. ed THEN None
     ELSE p.mem[j]]]

Replicate(n, x) == [i \in 1 .. n |-> x]

\* Fault: size_ grows before there is anything in the new slots.
EnlargeByRaw(p, n) == Grown(p, n)

EnlargeBy(p, n) == Grown(InitRange(p, p.size, Replicate(n, None)), n)

ShrinkBy(p, n) ==
  [size |-> p.size - n,
   mem |-> [j \in 1 .. Len(p.mem) |-> IF j \in p.size - n + 1 .. p.size THEN Raw ELSE p.mem[j]]]

StoreItem(p, i, x) ==
  [p EXCEPT !.mem = [j \in 1 .. Len(p.mem) |->
     IF j = i + 1 THEN Assigned(p.mem[j], x) ELSE p.mem[j]]]

\* CopyFrom and MoveFrom give the new block the same elements; MoveFrom leaves
\* the old one without any.
Relocated(cap, p) == Grown(InitRange(Empty(cap), 0, Contents(p)), p.size)

Drained(p) == [size |-> 0, mem |-> [j \in 1 .. Len(p.mem) |-> IF j <= p.size THEN None ELSE Raw]]

FromRange(cap, s) == Grown(InitRange(Empty(cap), 0, s), Len(s))

-----------------------------------------------------------------------------
(* Array: sharing and copy on write. *)

\* Fault: two references pass for one.
UniqueUpToTwo(r) ==
  \A q, t \in Root : ref[q] = ref[r] /\ ref[t] = ref[r] => q = r \/ t = r \/ q = t

Unique(r) == \A q \in Root : ref[q] = ref[r] => q = r

Size(r) == IF ref[r] = Null THEN 0 ELSE heap[ref[r]].size

\* What remains when the roots are refs and the blocks objs: ~ArrayObj has run
\* for the blocks no root refers to.
Collected(refs, objs) ==
  [b \in Block |-> IF \E r \in Root : refs[r] = b THEN objs[b] ELSE Null]

Point(refs) ==
  /\ ref' = refs
  /\ heap' = Collected(refs, heap)

\* A new block takes the place of the one r refers to; drains tells whether
\* the elements were moved out of that one.
SwitchTo(r, obj, drains) ==
  \E b \in Block :
    /\ heap[b] = Null
    /\ ref' = [ref EXCEPT ![r] = b]
    /\ heap' = Collected(ref', [a \in Block |->
         IF a = b THEN obj
         ELSE IF a = ref[r] /\ drains THEN Drained(heap[a])
         ELSE heap[a]])

SwitchContainer(r, cap) ==
  IF ref[r] = Null THEN SwitchTo(r, Empty(cap), FALSE)
  ELSE SwitchTo(r, Relocated(cap, heap[ref[r]]), Unique(r))

\* CopyOnWrite(reserve_extra): whether the block stays, the capacity of the
\* next one otherwise, and the block that may be written to.  CopyOnWrite()
\* is CopyOnWrite(0).
Stays(h, extra) ==
  ref[h] # Null /\ Unique(h) /\ Len(heap[ref[h]].mem) >= Size(h) + extra

NextCapacity(h, extra) ==
  IF ref[h] = Null THEN Larger(KInitSize, extra)
  ELSE LET cap == Len(heap[ref[h]].mem)
       IN IF cap >= Size(h) + extra THEN cap
          ELSE Larger(cap * KIncFactor, Size(h) + extra)

Writable(h, extra) ==
  CASE Stays(h, extra) -> heap[ref[h]]
    [] ~Stays(h, extra) /\ ref[h] = Null -> Empty(NextCapacity(h, extra))
    [] ~Stays(h, extra) /\ ref[h] # Null ->
         Relocated(NextCapacity(h, extra), heap[ref[h]])

\* The block CopyOnWrite(extra) returned, changed to obj.
Store(h, extra, obj) ==
  IF Stays(h, extra)
  THEN heap' = [heap EXCEPT ![ref[h]] = obj] /\ UNCHANGED ref
  ELSE SwitchTo(h, obj, Unique(h))

Done == UNCHANGED job

\* An exception is thrown before anything has changed.
Fails == UNCHANGED vars

-----------------------------------------------------------------------------
(* The members of Array.  A position is an iterator of the array itself, as *)
(* for std::vector; so is that a range to insert is not part of the array.  *)

Init ==
  /\ \E f \in [Handle -> Block] :
       /\ \A g, h \in Handle : f[g] = f[h] => g = h
       /\ ref = [r \in Root |-> IF r \in Handle THEN f[r] ELSE Null]
  /\ heap = [b \in Block |-> IF \E r \in Root : ref[r] = b THEN Empty(KInitSize) ELSE Null]
  /\ job = Null

Copy(h, g) == Point([ref EXCEPT ![h] = ref[g]]) /\ Done

Move(h, g) == h # g /\ Point([ref EXCEPT ![h] = ref[g], ![g] = Null]) /\ Done

\* Also the constructors from a range, on a new handle.
Assign(h, s) ==
  /\ IF ref[h] # Null /\ Unique(h) /\ Len(heap[ref[h]].mem) >= Len(s)
     THEN /\ heap' = [heap EXCEPT ![ref[h]] = FromRange(Len(@.mem), s)]
          /\ UNCHANGED ref
     ELSE SwitchTo(h, FromRange(Len(s), s), FALSE)
  /\ Done

PushBack(h, x) ==
  LET p == Writable(h, 1)
  IN /\ Size(h) < MaxSize
     /\ Store(h, 1, Grown(InitRange(p, p.size, <<x>>), 1))
     /\ Done

Inserted(h, i, s) ==
  InitRange(MoveElements(EnlargeBy(Writable(h, Len(s)), Len(s)), i + Len(s), i, Size(h)), i, s)

InsertRange(h, i, s) ==
  /\ i <= Size(h) /\ Size(h) + Len(s) <= MaxSize
  /\ \/ s = <<>> /\ UNCHANGED <<ref, heap>> /\ Done
     \/ s # <<>> /\ ref[h] = Null /\ Fails
     \/ s # <<>> /\ ref[h] # Null /\ Store(h, Len(s), Inserted(h, i, s)) /\ Done

Insert(h, i, x) ==
  /\ i <= Size(h) /\ Size(h) < MaxSize
  /\ IF ref[h] = Null THEN Fails ELSE Store(h, 1, Inserted(h, i, <<x>>)) /\ Done

PopBack(h) ==
  IF Size(h) = 0 THEN Fails ELSE Store(h, 0, ShrinkBy(Writable(h, 0), 1)) /\ Done

Erased(h, st, ed) ==
  ShrinkBy(MoveElements(Writable(h, 0), st, ed, Size(h)), ed - st)

EraseAt(h, i) ==
  IF i \in 0 .. Size(h) - 1 THEN Store(h, 0, Erased(h, i, i + 1)) /\ Done ELSE Fails

EraseRange(h, st, ed) ==
  /\ st <= Size(h) /\ ed <= Size(h)
  /\ \/ st = ed /\ UNCHANGED <<ref, heap>> /\ Done
     \/ st # ed /\ (ref[h] = Null \/ st > ed) /\ Fails
     \/ st < ed /\ ref[h] # Null /\ Store(h, 0, Erased(h, st, ed)) /\ Done

\* A null array gets a block of n slots and no element.
Resize(h, n) ==
  \/ n < 0 /\ Fails
  \/ n >= 0 /\ ref[h] = Null /\ SwitchContainer(h, n) /\ Done
  \/ /\ ref[h] # Null /\ Size(h) < n
     /\ Store(h, n - Size(h), EnlargeBy(Writable(h, n - Size(h)), n - Size(h))) /\ Done
  \/ /\ n >= 0 /\ ref[h] # Null /\ Size(h) > n
     /\ Store(h, 0, ShrinkBy(Writable(h, 0), Size(h) - n)) /\ Done
  \/ ref[h] # Null /\ Size(h) = n /\ UNCHANGED <<ref, heap>> /\ Done

\* A null array is not asked for a negative capacity, which Empty does not check.
Reserve(h, n) ==
  /\ ref[h] = Null => n >= 0
  /\ IF ref[h] = Null \/ n > Len(heap[ref[h]].mem)
     THEN SwitchContainer(h, n)
     ELSE UNCHANGED <<ref, heap>>
  /\ Done

Clear(h) ==
  /\ IF ref[h] = Null THEN UNCHANGED <<ref, heap>>
     ELSE Store(h, 0, ShrinkBy(Writable(h, 0), Size(h)))
  /\ Done

\* The copy is made before the index is checked.
SetItem(h, i, x) ==
  LET p == Writable(h, 0)
  IN /\ Store(h, 0, IF i \in 0 .. Size(h) - 1 THEN StoreItem(p, i, x) ELSE p)
     /\ Done

\* TypeTraits<Array<T>>: the same block when every element is a T already, an
\* array of converted elements when all can be converted.
Cast(h, g, T) ==
  /\ ref[g] # Null
  /\ LET s == Contents(heap[ref[g]])
         converted == [i \in 1 .. Len(s) |-> T.conv[s[i]]]
     IN \/ (\A i \in DOMAIN s : s[i] \in T.strict) /\ Point([ref EXCEPT ![h] = ref[g]]) /\ Done
        \/ (\E i \in DOMAIN s : T.conv[s[i]] = NoConv) /\ Fails
        \/ /\ \E i \in DOMAIN s : s[i] \notin T.strict
           /\ \A i \in DOMAIN s : T.conv[s[i]] # NoConv
           /\ SwitchTo(h, FromRange(Larger(KInitSize, Len(s)), converted), FALSE) /\ Done

-----------------------------------------------------------------------------
(* MapHelper: one action per return of its callback. *)

\* Fault: the loop runs to the capacity of the block.
AtSlot(objs, b, pos, dst, path) ==
  LET p == objs[b]
  IN /\ job' = [pos |-> pos, dst |-> dst, path |-> path,
                arg |-> IF pos <= Len(p.mem) THEN p.mem[pos] ELSE None]
     /\ heap' = objs

\* The loop arrives at the element at pos; objs is the heap by then.
AtElement(objs, b, pos, dst, path) ==
  LET p == objs[b]
  IN /\ job' = [pos |-> pos, dst |-> dst, path |-> path,
                arg |-> IF pos <= p.size THEN p.mem[pos] ELSE None]
     /\ heap' = IF path = "in place" /\ pos <= p.size
                THEN [objs EXCEPT ![b] = StoreItem(@, pos - 1, None)]
                ELSE objs

\* Map keeps a reference to the block of g, MutateByApply takes it from h = g.
\* Elements of another type go to a block of their own from the start.
Apply(h, g, mutate, compatible) ==
  /\ job = Null
  /\ \/ ref[g] = Null /\ Point([ref EXCEPT ![h] = Null]) /\ UNCHANGED job
     \/ /\ ref[g] # Null /\ mutate
        /\ ref' = [ref EXCEPT ![g] = Null, ![Data] = ref[g]]
        /\ AtElement(heap, ref[g], 1, h, IF Unique(g) THEN "in place" ELSE "identical")
     \/ /\ ref[g] # Null /\ ~mutate /\ compatible
        /\ ref' = [ref EXCEPT ![Data] = ref[g]]
        /\ AtElement(heap, ref[g], 1, h, "identical")
     \/ /\ ref[g] # Null /\ ~mutate /\ ~compatible
        /\ \E b \in Block :
             /\ heap[b] = Null
             /\ ref' = [ref EXCEPT ![Data] = ref[g], ![Output] = b]
             /\ AtElement([heap EXCEPT ![b] = FromRange(Size(g), Replicate(Size(g), None))],
                          ref[g], 1, h, "copy")

Returning == job # Null /\ job.pos <= Size(Data)

\* it->same_as(mapped): nothing to copy so far.
ReturnSame(x) ==
  /\ Returning /\ job.path = "identical" /\ x = job.arg
  /\ AtElement(heap, ref[Data], job.pos + 1, job.dst, job.path)
  /\ UNCHANGED ref

\* The first element that changes: the output gets the elements before it.
ReturnOther(x) ==
  /\ Returning /\ job.path = "identical" /\ x # job.arg
  /\ \E b \in Block :
       /\ heap[b] = Null
       /\ ref' = [ref EXCEPT ![Output] = b]
       /\ LET d == heap[ref[Data]]
              out == FromRange(d.size, Replicate(d.size, None))
          IN AtElement([heap EXCEPT ![b] =
                          StoreItem(InitRange(out, 0, SubSeq(d.mem, 1, job.pos - 1)), job.pos - 1, x)],
                       ref[Data], job.pos + 1, job.dst, "copy")

\* The other two loops write the element where it belongs.
ReturnInto(r, path, x) ==
  /\ Returning /\ job.path = path
  /\ AtElement([heap EXCEPT ![ref[r]] = StoreItem(@, job.pos - 1, x)],
               ref[Data], job.pos + 1, job.dst, path)
  /\ UNCHANGED ref

\* The callback throws: what MapHelper holds is released.
Throw ==
  /\ Returning
  /\ Point([ref EXCEPT ![Data] = Null, ![Output] = Null])
  /\ job' = Null

Finish ==
  /\ job # Null /\ job.pos > Size(Data)
  /\ Point([ref EXCEPT ![job.dst] = IF job.path = "copy" THEN ref[Output] ELSE ref[Data],
                       ![Data] = Null, ![Output] = Null])
  /\ job' = Null

Elements == Cardinality({x \in Block \X (1 .. MaxSize) : heap[x[1]] # Null /\ x[2] <= heap[x[1]].size})

Member ==
  \/ \E h, g \in Handle : Copy(h, g) \/ Move(h, g) \/ \E T \in Types : Cast(h, g, T)
  \/ \E h \in Handle, s \in Ranges : Assign(h, s)
  \/ \E h \in Handle, i \in 0 .. MaxSize, s \in Ranges : InsertRange(h, i, s)
  \/ \E h \in Handle, i \in 0 .. MaxSize, x \in Value : Insert(h, i, x)
  \/ \E h \in Handle, i, j \in 0 .. MaxSize : EraseRange(h, i, j)
  \/ \E h \in Handle : PopBack(h) \/ Clear(h)
  \/ \E h \in Handle, n \in Lengths : Resize(h, n) \/ Reserve(h, n) \/ EraseAt(h, n)
  \/ \E h \in Handle, n \in Lengths, x \in Value : SetItem(h, n, x)
  \/ \E h \in Handle, x \in Value : PushBack(h, x)
  \/ \E h, g \in Handle, c \in BOOLEAN : Apply(h, g, FALSE, c)
  \/ \E h \in Handle : Apply(h, h, TRUE, TRUE)
  \/ \E x \in Elem :
       ReturnSame(x) \/ ReturnOther(x) \/ ReturnInto(Data, "in place", x) \/ ReturnInto(Output, "copy", x)
  \/ Throw
  \/ Finish

Next == Member /\ Elements' <= MaxElements

Spec == Init /\ [][Next]_vars

-----------------------------------------------------------------------------
(* Properties. *)

\* Type correctness (the members of Array and ArrayObj, the locals of
\* MapHelper).
TypeOK ==
  /\ ref \in [Root -> Block \union {Null}]
  /\ heap \in [Block -> ArrayObj \union {Null}]
  /\ job \in Job \union {Null}

\* Through every insertion, removal, relocation and half-done map, exactly the
\* first size_ slots of a block hold an element: no slot is assigned to or
\* destroyed before it is constructed, and none is constructed over an element
\* that is still there (the placement news of array.h and the destructor).
SlotsConstructed ==
  \A b \in Block : heap[b] # Null =>
    /\ heap[b].size <= Len(heap[b].mem)
    /\ \A j \in 1 .. Len(heap[b].mem) :
         /\ heap[b].mem[j] # Junk
         /\ heap[b].mem[j] = Raw <=> j > heap[b].size

\* Every handle behaves as a sequence of its own, whatever blocks it shares
\* and with whom, and a map in progress as the snapshot it was started on
\* (the copy on write of array.h, CopyOnWrite, SwitchContainer, MapHelper).
Val == [h \in Handle |-> IF ref[h] = Null THEN Null ELSE Contents(heap[ref[h]])]

Mapped == IF job.path = "copy" THEN heap[ref[Output]] ELSE heap[ref[Data]]

Task ==
  IF job = Null THEN Null
  ELSE [dst |-> job.dst,
        done |-> SubSeq(Mapped.mem, 1, job.pos - 1),
        todo |-> IF job.pos > Size(Data) THEN <<>>
                 ELSE <<job.arg>> \o SubSeq(heap[ref[Data]].mem, job.pos + 1, Size(Data))]

Abstract == INSTANCE ValueSequences WITH val <- Val, task <- Task

ImplementsSequences == Abstract!Spec
=============================================================================
