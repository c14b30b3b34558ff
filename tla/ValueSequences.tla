--------------------------- MODULE ValueSequences ---------------------------
(***************************************************************************)
(* What ffi::Array promises its callers: every handle is a sequence of its *)
(* own, or null.  No block, no capacity and no sharing is visible, and a   *)
(* Map or MutateByApply works on what the array held when it was called,   *)
(* whatever its callback does meanwhile.                                   *)
(***************************************************************************)
EXTENDS Integers, Sequences

CONSTANTS
  Handle,   \* the variables of type Array
  Value,    \* element values
  None,     \* the element that is a default Any
  NoConv,   \* the result of a conversion that is not possible
  Types,    \* element types, each with the conversion its casts apply
  Lengths,  \* numbers of elements asked for, some of them negative
  Ranges,   \* sequences of values arrays are assigned from
  Null

VARIABLES
  val,      \* val[h] is the sequence h holds, or Null
  task      \* the Map that is running: [dst, done, todo], or Null

vars == <<val, task>>

Elem == Value \union {None}

Init ==
  /\ val = [h \in Handle |-> <<>>]
  /\ task = Null

Becomes(h, s) ==
  /\ val' = [val EXCEPT ![h] = s]
  /\ UNCHANGED task

Fails == UNCHANGED vars

\* A null array is written to as if it were empty.
Seq0(h) == IF val[h] = Null THEN <<>> ELSE val[h]

\* Positions are offsets from the beginning.
Before(h, i) == SubSeq(Seq0(h), 1, i)
From(h, i) == SubSeq(Seq0(h), i + 1, Len(Seq0(h)))

Replicate(n, x) == [i \in 1 .. n |-> x]

Copy(h, g) == Becomes(h, val[g])

Move(h, g) ==
  /\ h # g
  /\ val' = [val EXCEPT ![h] = val[g], ![g] = Null]
  /\ UNCHANGED task

Assign(h, s) == Becomes(h, s)

\* Inserting into, erasing from and popping a null array fail; the other
\* changes make it an empty one first.
Insert(h, i, s) ==
  IF val[h] = Null /\ s # <<>> THEN Fails
  ELSE IF s = <<>> THEN Becomes(h, val[h])
  ELSE Becomes(h, Before(h, i) \o s \o From(h, i))

PushBack(h, x) == Becomes(h, Append(Seq0(h), x))

Erase(h, i, j) ==
  \/ i = j /\ Becomes(h, val[h])
  \/ i # j /\ (val[h] = Null \/ i > j) /\ Fails
  \/ i < j /\ val[h] # Null /\ Becomes(h, Before(h, i) \o From(h, j))

EraseAt(h, i) ==
  IF i \in 0 .. Len(Seq0(h)) - 1 THEN Becomes(h, Before(h, i) \o From(h, i + 1)) ELSE Fails

PopBack(h) ==
  IF Seq0(h) = <<>> THEN Fails ELSE Becomes(h, Before(h, Len(Seq0(h)) - 1))

\* A null array becomes an empty one whatever size is asked for.
Resize(h, n) ==
  \/ n < 0 /\ Fails
  \/ n >= 0 /\ val[h] = Null /\ Becomes(h, <<>>)
  \/ n >= 0 /\ val[h] # Null /\ n <= Len(val[h]) /\ Becomes(h, Before(h, n))
  \/ /\ val[h] # Null /\ n > Len(val[h])
     /\ Becomes(h, val[h] \o Replicate(n - Len(val[h]), None))

Reserve(h) == Becomes(h, Seq0(h))

Clear(h) == Becomes(h, IF val[h] = Null THEN Null ELSE <<>>)

\* A failed Set leaves a null array empty.
SetItem(h, i, x) ==
  IF i \in 0 .. Len(Seq0(h)) - 1 THEN Becomes(h, [val[h] EXCEPT ![i + 1] = x])
  ELSE Becomes(h, Seq0(h))

\* A cast converts every element or fails.
Cast(h, g, T) ==
  /\ val[g] # Null
  /\ IF \E i \in DOMAIN val[g] : T.conv[val[g][i]] = NoConv THEN Fails
     ELSE Becomes(h, [i \in DOMAIN val[g] |-> T.conv[val[g][i]]])

\* The result of a Map over g goes to h; MutateByApply leaves h null meanwhile.
Apply(h, g, mutate) ==
  /\ task = Null
  /\ val' = IF mutate \/ val[g] = Null THEN [val EXCEPT ![h] = Null] ELSE val
  /\ task' = IF val[g] = Null THEN Null
             ELSE [dst |-> h, done |-> <<>>, todo |-> val[g]]

Mapped(x) ==
  /\ task # Null /\ task.todo # <<>>
  /\ task' = [dst |-> task.dst, done |-> Append(task.done, x), todo |-> Tail(task.todo)]
  /\ UNCHANGED val

Throws ==
  /\ task # Null
  /\ task' = Null
  /\ UNCHANGED val

Finish ==
  /\ task # Null /\ task.todo = <<>>
  /\ val' = [val EXCEPT ![task.dst] = task.done]
  /\ task' = Null

Next ==
  \/ \E x \in Elem : Mapped(x)
  \/ Throws
  \/ Finish
  \/ \E h, g \in Handle : Copy(h, g) \/ Move(h, g)
  \/ \E h \in Handle : PopBack(h) \/ Reserve(h) \/ Clear(h)
  \/ \E h \in Handle, x \in Value : PushBack(h, x)
  \/ \E h \in Handle, n \in Lengths : Resize(h, n) \/ EraseAt(h, n)
  \/ \E h \in Handle, n \in Lengths, x \in Value : SetItem(h, n, x)
  \/ \E h \in Handle, s \in Ranges : Assign(h, s)
  \/ \E h \in Handle, s \in Ranges \union {<<x>> : x \in Value} :
       \E i \in 0 .. Len(Seq0(h)) : Insert(h, i, s)
  \/ \E h \in Handle : \E i, j \in 0 .. Len(Seq0(h)) : Erase(h, i, j)
  \/ \E h, g \in Handle, T \in Types : Cast(h, g, T)
  \/ \E h, g \in Handle : Apply(h, g, FALSE)
  \/ \E h \in Handle : Apply(h, h, TRUE)

Spec == Init /\ [][Next]_vars
=============================================================================
