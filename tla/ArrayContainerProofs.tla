------------------------ MODULE ArrayContainerProofs ------------------------
(***************************************************************************)
(* Proofs about ArrayContainer for any number of handles and blocks, any   *)
(* values and any length.                                                  *)
(***************************************************************************)
EXTENDS ArrayContainer, SequenceTheorems, TLAPS

\* What SlotsConstructed says of one block.
Sound(p) ==
  /\ p \in ArrayObj
  /\ p.size <= Len(p.mem)
  /\ \A j \in 1 .. Len(p.mem) : p.mem[j] # Junk /\ (p.mem[j] = Raw <=> j > p.size)

-----------------------------------------------------------------------------
(* Blocks. *)

LEMMA SeqOfFcn ==
  ASSUME NEW S, NEW n \in Nat, NEW f \in [1 .. n -> S]
  PROVE  f \in Seq(S) /\ Len(f) = n
OBVIOUS

LEMMA ContentsOf ==
  ASSUME NEW p, Sound(p)
  PROVE  /\ p.size \in Nat /\ Len(p.mem) \in Nat
         /\ p.mem \in [1 .. Len(p.mem) -> Slot]
         /\ \A j \in 1 .. p.size : p.mem[j] \in Elem
         /\ Contents(p) \in Seq(Elem) /\ Len(Contents(p)) = p.size
         /\ \A j \in 1 .. p.size : Contents(p)[j] = p.mem[j]
<1> DEFINE m == p.mem
<1>1. p.size \in Nat /\ m \in Seq(Slot) /\ Len(m) \in Nat
  BY DEF Sound, ArrayObj, Slot
<1>2. m \in [1 .. Len(m) -> Slot]
  BY <1>1
<1>3. \A j \in 1 .. p.size : m[j] \in Elem
  BY <1>1, <1>2 DEF Sound, Slot
<1>4. Contents(p) \in Seq(Elem) /\ Len(Contents(p)) = p.size
      /\ \A j \in 1 .. p.size : Contents(p)[j] = m[j]
  BY <1>1, <1>3, SubSeqProperties DEF Contents, Sound
<1> QED
  BY <1>1, <1>2, <1>3, <1>4

LEMMA EmptySound ==
  ASSUME NEW n \in Nat
  PROVE  /\ Sound(Empty(n)) /\ Empty(n).size = 0 /\ Len(Empty(n).mem) = n
         /\ Contents(Empty(n)) = <<>>
<1> DEFINE m == [i \in 1 .. n |-> Raw]
<1>1. m \in Seq(Slot) /\ Len(m) = n
  BY SeqOfFcn DEF Slot
<1>2. Sound(Empty(n)) /\ Empty(n).size = 0 /\ Len(Empty(n).mem) = n
  BY <1>1, ArrayAssumption DEF Sound, Empty, ArrayObj, Slot
<1> QED
  BY <1>2, ContentsOf DEF Contents

\* What InitRange leaves of slots that hold nothing or a default Any.
LEMMA InitRangeSlots ==
  ASSUME NEW p \in ArrayObj, NEW idx \in Nat, NEW s \in Seq(Elem),
         idx + Len(s) <= Len(p.mem),
         \A j \in idx + 1 .. idx + Len(s) : p.mem[j] \in {Raw, None}
  PROVE  /\ InitRange(p, idx, s) \in ArrayObj
         /\ InitRange(p, idx, s).size = p.size
         /\ Len(InitRange(p, idx, s).mem) = Len(p.mem)
         /\ \A j \in 1 .. Len(p.mem) :
              InitRange(p, idx, s).mem[j] =
                IF j \in idx + 1 .. idx + Len(s) THEN s[j - idx] ELSE p.mem[j]
<1> DEFINE n == Len(p.mem)
           m == [j \in 1 .. n |->
                   IF j \in idx + 1 .. idx + Len(s)
                   THEN IF p.mem[j] \in {Raw, None} THEN s[j - idx] ELSE Junk
                   ELSE p.mem[j]]
<1>1. n \in Nat /\ p.mem \in [1 .. n -> Slot]
  BY DEF ArrayObj, Slot
<1>2. \A j \in idx + 1 .. idx + Len(s) : s[j - idx] \in Elem
  OBVIOUS
<1>3. m \in [1 .. n -> Slot]
  BY <1>1, <1>2 DEF Slot
<1>4. m \in Seq(Slot) /\ Len(m) = n
  BY <1>1, <1>3, SeqOfFcn
<1>5. InitRange(p, idx, s) = [p EXCEPT !.mem = m]
  BY DEF InitRange
<1>6. InitRange(p, idx, s).mem = m /\ InitRange(p, idx, s).size = p.size
      /\ InitRange(p, idx, s) \in ArrayObj
  BY <1>4, <1>5 DEF ArrayObj, Slot
<1> QED
  BY <1>1, <1>4, <1>6

LEMMA SameSeq ==
  ASSUME NEW s \in Seq(Elem), NEW t \in Seq(Elem), Len(s) = Len(t),
         \A j \in 1 .. Len(s) : s[j] = t[j]
  PROVE  s = t
BY SeqEqual

LEMMA ConcatElems ==
  ASSUME NEW s \in Seq(Elem), NEW t \in Seq(Elem)
  PROVE  /\ s \o t \in Seq(Elem) /\ Len(s \o t) = Len(s) + Len(t)
         /\ \A j \in 1 .. Len(s) + Len(t) :
              (s \o t)[j] = IF j <= Len(s) THEN s[j] ELSE t[j - Len(s)]
BY ConcatProperties

LEMMA GrownType ==
  ASSUME NEW p \in ArrayObj, NEW n \in Nat
  PROVE  /\ Grown(p, n) \in ArrayObj
         /\ Grown(p, n).size = p.size + n /\ Grown(p, n).mem = p.mem
BY DEF Grown, ArrayObj

\* A block whose slots are as follows is sound and holds s.
LEMMA SoundWith ==
  ASSUME NEW p \in ArrayObj, NEW s \in Seq(Elem), p.size = Len(s),
         Len(s) <= Len(p.mem),
         \A j \in 1 .. Len(p.mem) : p.mem[j] = IF j <= Len(s) THEN s[j] ELSE Raw
  PROVE  Sound(p) /\ Contents(p) = s
<1>1. Len(s) \in Nat /\ Len(p.mem) \in Nat /\ \A j \in 1 .. Len(s) : s[j] \in Elem
  BY DEF ArrayObj
<1>2. Sound(p)
  BY <1>1, ArrayAssumption DEF Sound
<1>3. /\ Contents(p) \in Seq(Elem) /\ Len(Contents(p)) = Len(s)
      /\ \A j \in 1 .. Len(s) : Contents(p)[j] = p.mem[j]
  BY <1>2, ContentsOf
<1>4. \A j \in 1 .. Len(s) : Contents(p)[j] = s[j]
  BY <1>1, <1>3
<1> QED
  BY <1>2, <1>3, <1>4, SeqEqual

\* And the other way round.
LEMMA SlotsOf ==
  ASSUME NEW p, Sound(p)
  PROVE  /\ p \in ArrayObj /\ Contents(p) \in Seq(Elem) /\ Len(Contents(p)) = p.size
         /\ p.size \in Nat /\ Len(p.mem) \in Nat /\ p.size <= Len(p.mem)
         /\ \A j \in 1 .. Len(p.mem) :
              p.mem[j] = IF j <= p.size THEN Contents(p)[j] ELSE Raw
<1>1. p.size \in Nat /\ Len(p.mem) \in Nat /\ p.size <= Len(p.mem)
  BY ContentsOf DEF Sound
<1>2. \A j \in 1 .. Len(p.mem) : j > p.size => p.mem[j] = Raw
  BY DEF Sound
<1> QED
  BY <1>1, <1>2, ContentsOf DEF Sound

LEMMA FromRangeSound ==
  ASSUME NEW cap \in Nat, NEW s \in Seq(Elem), Len(s) <= cap
  PROVE  /\ Sound(FromRange(cap, s)) /\ Contents(FromRange(cap, s)) = s
         /\ FromRange(cap, s).size = Len(s) /\ Len(FromRange(cap, s).mem) = cap
<1> DEFINE e == Empty(cap)
           p == InitRange(e, 0, s)
           q == FromRange(cap, s)
<1>1. e \in ArrayObj /\ e.size = 0 /\ Len(e.mem) = cap /\ \A j \in 1 .. cap : e.mem[j] = Raw
  BY EmptySound DEF Sound, Empty
<1>2. 0 + Len(s) <= Len(e.mem) /\ \A j \in 0 + 1 .. 0 + Len(s) : e.mem[j] \in {Raw, None}
  BY <1>1
<1>3. p \in ArrayObj /\ p.size = 0 /\ Len(p.mem) = cap
  BY <1>1, <1>2, InitRangeSlots
<1>4. \A j \in 1 .. Len(e.mem) :
        p.mem[j] = IF j \in 0 + 1 .. 0 + Len(s) THEN s[j - 0] ELSE e.mem[j]
  BY <1>1, <1>2, InitRangeSlots
<1>5. q = Grown(p, Len(s))
  BY DEF FromRange
<1> HIDE DEF e, p, q
<1>6. Len(s) \in Nat
  OBVIOUS
<1>7. q \in ArrayObj /\ q.size = Len(s) /\ q.mem = p.mem
  <2>1. /\ Grown(p, Len(s)) \in ArrayObj /\ Grown(p, Len(s)).size = p.size + Len(s)
        /\ Grown(p, Len(s)).mem = p.mem
    BY <1>3, <1>6, GrownType
  <2> QED
    BY <1>3, <1>5, <1>6, <2>1
<1>8. \A j \in 1 .. cap : q.mem[j] = IF j <= Len(s) THEN s[j] ELSE Raw
  BY <1>1, <1>4, <1>6, <1>7
<1>9. Sound(q) /\ Contents(q) = s
  BY <1>3, <1>7, <1>8, SoundWith
<1> QED
  BY <1>3, <1>7, <1>9 DEF q

LEMMA RelocatedSound ==
  ASSUME NEW p, Sound(p), NEW cap \in Nat, p.size <= cap
  PROVE  /\ Sound(Relocated(cap, p)) /\ Contents(Relocated(cap, p)) = Contents(p)
         /\ Relocated(cap, p).size = p.size /\ Len(Relocated(cap, p).mem) = cap
<1>1. Contents(p) \in Seq(Elem) /\ Len(Contents(p)) = p.size
  BY ContentsOf
<1>2. Relocated(cap, p) = FromRange(cap, Contents(p))
  BY <1>1 DEF Relocated, FromRange
<1> QED
  BY <1>1, <1>2, FromRangeSound

LEMMA ReplicateType ==
  ASSUME NEW n \in Nat, NEW x \in Elem
  PROVE  /\ Replicate(n, x) \in Seq(Elem) /\ Len(Replicate(n, x)) = n
         /\ \A j \in 1 .. n : Replicate(n, x)[j] = x
<1>1. Replicate(n, x) \in [1 .. n -> Elem]
  BY DEF Replicate
<1> QED
  BY <1>1, SeqOfFcn DEF Replicate

\* push_back, emplace_back and EnlargeBy construct behind the last element.
LEMMA AppendedSound ==
  ASSUME NEW p, Sound(p), NEW s \in Seq(Elem), p.size + Len(s) <= Len(p.mem)
  PROVE  LET q == Grown(InitRange(p, p.size, s), Len(s))
         IN /\ Sound(q) /\ q.size = p.size + Len(s) /\ Len(q.mem) = Len(p.mem)
            /\ Contents(q) = Contents(p) \o s
<1> DEFINE r == InitRange(p, p.size, s)
           q == Grown(r, Len(s))
           c == Contents(p)
           t == c \o s
<1>1. /\ p \in ArrayObj /\ p.size \in Nat /\ Len(p.mem) \in Nat
      /\ c \in Seq(Elem) /\ Len(c) = p.size
      /\ \A j \in 1 .. Len(p.mem) : p.mem[j] = IF j <= p.size THEN c[j] ELSE Raw
  BY SlotsOf
<1>2. \A j \in p.size + 1 .. p.size + Len(s) : p.mem[j] \in {Raw, None}
  BY <1>1
<1>3. r \in ArrayObj /\ r.size = p.size /\ Len(r.mem) = Len(p.mem)
  BY <1>1, <1>2, InitRangeSlots
<1>4. \A j \in 1 .. Len(p.mem) :
        r.mem[j] = IF j \in p.size + 1 .. p.size + Len(s) THEN s[j - p.size] ELSE p.mem[j]
  BY <1>1, <1>2, InitRangeSlots
<1>5. t \in Seq(Elem) /\ Len(t) = p.size + Len(s)
      /\ \A j \in 1 .. p.size + Len(s) : t[j] = IF j <= p.size THEN c[j] ELSE s[j - p.size]
  <2>1. c \in Seq(Elem) /\ Len(c) = p.size
    BY <1>1
  <2> HIDE DEF c
  <2> QED
    BY <2>1, ConcatProperties
<1>6. Len(s) \in Nat
  OBVIOUS
<1> HIDE DEF r, c, t
<1>7. q \in ArrayObj /\ q.size = r.size + Len(s) /\ q.mem = r.mem
  BY <1>3, <1>6, GrownType
<1> HIDE DEF q
<1>8. \A j \in 1 .. Len(q.mem) : q.mem[j] = IF j <= Len(t) THEN t[j] ELSE Raw
  <2> TAKE j \in 1 .. Len(q.mem)
  <2>1. j \in 1 .. Len(p.mem) /\ q.mem[j] = r.mem[j] /\ j \in Nat
    BY <1>1, <1>3, <1>7
  <2>2. CASE j <= p.size
    BY <1>1, <1>4, <1>5, <1>6, <2>1, <2>2
  <2>3. CASE j > p.size /\ j <= p.size + Len(s)
    BY <1>1, <1>4, <1>5, <1>6, <2>1, <2>3
  <2>4. CASE j > p.size + Len(s)
    BY <1>1, <1>4, <1>5, <1>6, <2>1, <2>4
  <2> QED
    BY <1>1, <1>6, <2>1, <2>2, <2>3, <2>4
<1>9. Sound(q) /\ Contents(q) = t
  BY <1>1, <1>3, <1>5, <1>7, <1>8, SoundWith
<1> QED
  BY <1>1, <1>3, <1>7, <1>9 DEF q, r, t, c

LEMMA EnlargeSound ==
  ASSUME NEW p, Sound(p), NEW n \in Nat, p.size + n <= Len(p.mem)
  PROVE  /\ Sound(EnlargeBy(p, n)) /\ EnlargeBy(p, n).size = p.size + n
         /\ Len(EnlargeBy(p, n).mem) = Len(p.mem)
         /\ Contents(EnlargeBy(p, n)) = Contents(p) \o Replicate(n, None)
<1>1. Replicate(n, None) \in Seq(Elem) /\ Len(Replicate(n, None)) = n
  BY ReplicateType DEF Elem
<1> QED
  BY <1>1, AppendedSound DEF EnlargeBy

LEMMA ShrinkSound ==
  ASSUME NEW p, Sound(p), NEW n \in Nat, n <= p.size
  PROVE  /\ Sound(ShrinkBy(p, n)) /\ ShrinkBy(p, n).size = p.size - n
         /\ Len(ShrinkBy(p, n).mem) = Len(p.mem)
         /\ Contents(ShrinkBy(p, n)) = SubSeq(Contents(p), 1, p.size - n)
<1> DEFINE k == Len(p.mem)
           m == [j \in 1 .. k |-> IF j \in p.size - n + 1 .. p.size THEN Raw ELSE p.mem[j]]
           q == ShrinkBy(p, n)
           c == Contents(p)
           t == SubSeq(c, 1, p.size - n)
<1>1. /\ p.size \in Nat /\ k \in Nat /\ p.size <= k
      /\ c \in Seq(Elem) /\ Len(c) = p.size
      /\ \A j \in 1 .. k : p.mem[j] = IF j <= p.size THEN c[j] ELSE Raw
  BY SlotsOf
<1>2. p.mem \in [1 .. k -> Slot]
  BY ContentsOf
<1>3. m \in [1 .. k -> Slot]
  BY <1>2 DEF Slot
<1>4. m \in Seq(Slot) /\ Len(m) = k
  <2> HIDE DEF m, k
  <2> QED
    BY <1>1, <1>3, SeqOfFcn
<1>5. \A j \in 1 .. k : m[j] = IF j \in p.size - n + 1 .. p.size THEN Raw ELSE p.mem[j]
  OBVIOUS
<1>6. q = [size |-> p.size - n, mem |-> m]
  BY DEF ShrinkBy
<1>7. \A j \in 1 .. p.size - n : c[j] \in Elem
  BY <1>1
<1>8. /\ t \in Seq(Elem) /\ Len(t) = p.size - n
      /\ \A j \in 1 .. p.size - n : t[j] = c[j]
  BY <1>1, <1>7, SubSeqProperties
<1> HIDE DEF k, m, q, c, t
<1>9. q \in ArrayObj /\ q.size = p.size - n /\ q.mem = m
  BY <1>1, <1>4, <1>6 DEF ArrayObj, Slot
<1>10. \A j \in 1 .. k : m[j] = IF j <= Len(t) THEN t[j] ELSE Raw
  BY <1>1, <1>5, <1>8
<1>11. Sound(q) /\ Contents(q) = t
  BY <1>1, <1>4, <1>8, <1>9, <1>10, SoundWith
<1> QED
  BY <1>4, <1>9, <1>11 DEF q, k, t, c

LEMMA MoveElementsSlots ==
  ASSUME NEW p, Sound(p), NEW dst \in Nat, NEW st \in Nat, NEW ed \in Nat,
         st <= ed, ed <= p.size, dst + (ed - st) <= p.size
  PROVE  LET q == MoveElements(p, dst, st, ed)
         IN /\ q \in ArrayObj /\ q.size = p.size /\ Len(q.mem) = Len(p.mem)
            /\ \A j \in 1 .. Len(p.mem) :
                 q.mem[j] = IF j \in dst + 1 .. dst + (ed - st) THEN p.mem[j - dst + st]
                            ELSE IF j \in st + 1 .. ed THEN None
                            ELSE p.mem[j]
<1> DEFINE q == MoveElements(p, dst, st, ed)
           k == Len(p.mem)
           m == [j \in 1 .. k |->
                   IF j \in dst + 1 .. dst + (ed - st) THEN Assigned(p.mem[j], p.mem[j - dst + st])
                   ELSE IF j \in st + 1 .. ed THEN None
                   ELSE p.mem[j]]
<1>1. /\ p \in ArrayObj /\ p.size \in Nat /\ k \in Nat /\ p.size <= k
      /\ p.mem \in [1 .. k -> Slot] /\ \A j \in 1 .. p.size : p.mem[j] \in Elem
  BY ContentsOf DEF Sound
<1>2. ASSUME NEW j \in dst + 1 .. dst + (ed - st)
      PROVE  /\ Assigned(p.mem[j], p.mem[j - dst + st]) = p.mem[j - dst + st]
             /\ p.mem[j - dst + st] \in Elem
  <2>1. j \in 1 .. p.size /\ j - dst + st \in 1 .. p.size
    BY <1>1
  <2>2. p.mem[j] # Raw
    BY <1>1, <2>1, ArrayAssumption
  <2> QED
    BY <1>1, <2>1, <2>2 DEF Assigned
<1>3. \A j \in 1 .. k :
        m[j] = IF j \in dst + 1 .. dst + (ed - st) THEN p.mem[j - dst + st]
               ELSE IF j \in st + 1 .. ed THEN None
               ELSE p.mem[j]
  BY <1>2
<1>4. m \in [1 .. k -> Slot]
  BY <1>1, <1>2 DEF Slot, Elem
<1>5. m \in Seq(Slot) /\ Len(m) = k
  <2> HIDE DEF m, k
  <2> QED
    BY <1>1, <1>4, SeqOfFcn
<1>6. q = [p EXCEPT !.mem = m]
  BY DEF MoveElements
<1> HIDE DEF m, q
<1>7. q \in ArrayObj /\ q.size = p.size /\ q.mem = m
  BY <1>1, <1>5, <1>6 DEF ArrayObj, Slot
<1> QED
  BY <1>3, <1>5, <1>7 DEF q

\* The two parts of a sequence around a gap.
Cut(c, st, ed) == SubSeq(c, 1, st) \o SubSeq(c, ed + 1, Len(c))

LEMMA CutOut ==
  ASSUME NEW c \in Seq(Elem), NEW st \in Nat, NEW ed \in Nat, st <= ed, ed <= Len(c)
  PROVE  /\ Cut(c, st, ed) \in Seq(Elem) /\ Len(Cut(c, st, ed)) = Len(c) - (ed - st)
         /\ \A j \in 1 .. st : Cut(c, st, ed)[j] = c[j]
         /\ \A j \in 1 .. Len(c) - ed : Cut(c, st, ed)[st + j] = c[ed + j]
<1> DEFINE n == Len(c)
<1>0. n \in Nat
  OBVIOUS
<1> DEFINE a == SubSeq(c, 1, st)
           b == SubSeq(c, ed + 1, n)
<1>1. \A j \in 1 .. n : c[j] \in Elem
  OBVIOUS
<1>2. a \in Seq(Elem) /\ Len(a) = st /\ \A j \in 1 .. st : a[j] = c[j]
  <2>1. \A j \in 1 .. st : c[j] \in Elem
    BY <1>1
  <2> QED
    BY <2>1, SubSeqProperties
<1>3. b \in Seq(Elem) /\ Len(b) = n - ed /\ \A j \in 1 .. n - ed : b[j] = c[ed + j]
  <2>1. \A j \in ed + 1 .. n : c[j] \in Elem
    BY <1>1
  <2>2. /\ b \in Seq(Elem)
        /\ Len(b) = IF ed + 1 <= n THEN n - (ed + 1) + 1 ELSE 0
        /\ \A j \in 1 .. n - (ed + 1) + 1 : b[j] = c[ed + 1 + j - 1]
    BY <2>1, SubSeqProperties
  <2> HIDE DEF b
  <2> QED
    BY <2>2
<1> HIDE DEF a, b
<1>4. /\ a \o b \in Seq(Elem) /\ Len(a \o b) = Len(a) + Len(b)
      /\ \A j \in 1 .. Len(a) + Len(b) :
           (a \o b)[j] = IF j <= Len(a) THEN a[j] ELSE b[j - Len(a)]
  BY <1>2, <1>3, ConcatProperties
<1>5. Len(a) + Len(b) = n - (ed - st)
  BY <1>2, <1>3
<1>6. \A j \in 1 .. st : (a \o b)[j] = c[j]
  BY <1>2, <1>3, <1>4
<1>7. ASSUME NEW j \in 1 .. n - ed PROVE (a \o b)[st + j] = c[ed + j]
  <2>1. st + j \in 1 .. Len(a) + Len(b) /\ ~(st + j <= Len(a)) /\ st + j - Len(a) = j
    BY <1>2, <1>5
  <2>2. b[j] = c[ed + j]
    BY <1>3
  <2>3. (a \o b)[st + j] = b[st + j - Len(a)]
    BY <1>4, <2>1
  <2> QED
    BY <2>1, <2>2, <2>3
<1> QED
  BY <1>4, <1>5, <1>6, <1>7 DEF a, b, Cut

\* erase: the elements from ed on close the gap.
LEMMA ErasedSound ==
  ASSUME NEW p, Sound(p), NEW st \in Nat, NEW ed \in Nat, st < ed, ed <= p.size
  PROVE  LET q == ShrinkBy(MoveElements(p, st, ed, p.size), ed - st)
         IN /\ Sound(q) /\ Len(q.mem) = Len(p.mem)
            /\ Contents(q) = SubSeq(Contents(p), 1, st) \o SubSeq(Contents(p), ed + 1, p.size)
<1> DEFINE n == p.size
           k == Len(p.mem)
           c == Contents(p)
           r == MoveElements(p, st, ed, n)
           q == ShrinkBy(r, ed - st)
           t == Cut(c, st, ed)
           len == n - (ed - st)
<1>1. n \in Nat /\ k \in Nat /\ n <= k /\ st < ed /\ ed <= n
      /\ c \in Seq(Elem) /\ Len(c) = n
  BY SlotsOf
<1>2. \A j \in 1 .. k : p.mem[j] = IF j <= n THEN c[j] ELSE Raw
  BY SlotsOf
<1>3. /\ r \in ArrayObj /\ r.size = n /\ Len(r.mem) = k
      /\ \A j \in 1 .. k :
           r.mem[j] = IF j \in st + 1 .. st + (n - ed) THEN p.mem[j - st + ed]
                      ELSE IF j \in ed + 1 .. n THEN None
                      ELSE p.mem[j]
  <2>1. ed <= p.size /\ p.size <= p.size /\ st + (p.size - ed) <= p.size /\ p.size \in Nat
    BY <1>1
  <2> QED
    BY <2>1, MoveElementsSlots
<1> HIDE DEF n, k, c, r
<1>4. /\ t \in Seq(Elem) /\ Len(t) = len
      /\ \A j \in 1 .. st : t[j] = c[j]
      /\ \A j \in 1 .. n - ed : t[st + j] = c[ed + j]
  <2>1. c \in Seq(Elem) /\ Len(c) = n /\ st <= ed /\ ed <= Len(c)
    BY <1>1
  <2>2. /\ t \in Seq(Elem) /\ Len(t) = Len(c) - (ed - st)
        /\ \A j \in 1 .. st : t[j] = c[j]
        /\ \A j \in 1 .. Len(c) - ed : t[st + j] = c[ed + j]
    BY <2>1, CutOut
  <2> HIDE DEF t
  <2> QED
    BY <2>1, <2>2
<1> HIDE DEF t
<1>5. \A j \in 1 .. n : c[j] \in Elem
  BY <1>1
<1>6. \A j \in 1 .. len : r.mem[j] = t[j]
  <2> TAKE j \in 1 .. len
  <2>1. j \in 1 .. k /\ j \in 1 .. n /\ st + (n - ed) = len
    BY <1>1
  <2>2. CASE j <= st
    <3>1. j \in 1 .. st /\ j \notin st + 1 .. st + (n - ed) /\ j \notin ed + 1 .. n
      BY <1>1, <2>1, <2>2
    <3> QED
      BY <1>2, <1>3, <1>4, <2>1, <3>1
  <2>3. CASE j > st
    <3>1. /\ j \in st + 1 .. st + (n - ed) /\ j - st \in 1 .. n - ed /\ st + (j - st) = j
          /\ ed + (j - st) \in 1 .. k /\ ed + (j - st) <= n /\ j - st + ed = ed + (j - st)
      BY <1>1, <2>1, <2>3
    <3>2. t[j] = c[ed + (j - st)]
      BY <1>4, <3>1
    <3>3. r.mem[j] = p.mem[ed + (j - st)]
      BY <1>3, <2>1, <3>1
    <3> QED
      BY <1>2, <3>1, <3>2, <3>3
  <2> QED
    BY <1>1, <2>1, <2>2, <2>3
<1>7. Sound(r)
  <2>1. \A j \in 1 .. k : j > n => r.mem[j] = Raw
    <3> TAKE j \in 1 .. k
    <3> HAVE j > n
    <3>1. j \notin st + 1 .. st + (n - ed) /\ j \notin ed + 1 .. n /\ ~(j <= n)
      BY <1>1
    <3> QED
      BY <1>2, <1>3, <3>1
  <2>2. \A j \in 1 .. n : r.mem[j] \in Elem
    <3> TAKE j \in 1 .. n
    <3>1. j \in 1 .. k /\ j <= n
      BY <1>1
    <3>2. CASE j \in st + 1 .. st + (n - ed)
      <4>1. j - st + ed \in 1 .. n /\ j - st + ed \in 1 .. k /\ j - st + ed <= n
        BY <1>1, <3>2
      <4>2. p.mem[j - st + ed] \in Elem
        BY <1>2, <1>5, <4>1
      <4> QED
        BY <1>3, <3>1, <3>2, <4>2
    <3>3. CASE j \notin st + 1 .. st + (n - ed)
      <4>1. p.mem[j] \in Elem
        BY <1>2, <1>5, <3>1
      <4> QED
        BY <1>3, <3>1, <3>3, <4>1 DEF Elem
    <3> QED
      BY <3>2, <3>3
  <2>3. \A j \in 1 .. k : r.mem[j] # Junk /\ (r.mem[j] = Raw <=> j > n)
    <3> TAKE j \in 1 .. k
    <3>1. CASE j > n
      BY <2>1, <3>1, ArrayAssumption
    <3>2. CASE ~(j > n)
      <4>1. j \in 1 .. n
        BY <1>1, <3>2
      <4> QED
        BY <2>2, <3>2, <4>1, ArrayAssumption
    <3> QED
      BY <3>1, <3>2
  <2> QED
    BY <1>1, <1>3, <2>3 DEF Sound
<1>8. ed - st \in Nat /\ ed - st <= r.size
  BY <1>1, <1>3
<1>9. /\ Sound(q) /\ Len(q.mem) = k /\ Contents(q) = SubSeq(Contents(r), 1, len)
  <2>1. /\ Sound(q) /\ Len(q.mem) = Len(r.mem)
        /\ Contents(q) = SubSeq(Contents(r), 1, r.size - (ed - st))
    BY <1>7, <1>8, ShrinkSound
  <2> QED
    BY <1>3, <2>1
<1> HIDE DEF q
<1>10. Contents(q) = t
  <2>1. len \in Nat /\ len <= n
    BY <1>1
  <2>2. \A j \in 1 .. n : Contents(r)[j] = r.mem[j] /\ Contents(r)[j] \in Elem
    BY <1>3, <1>7, ContentsOf
  <2>3. \A j \in 1 .. len : Contents(r)[j] = r.mem[j] /\ Contents(r)[j] \in Elem
    BY <1>1, <2>1, <2>2
  <2>4. /\ Contents(q) \in Seq(Elem) /\ Len(Contents(q)) = IF 1 <= len THEN len - 1 + 1 ELSE 0
        /\ \A j \in 1 .. len - 1 + 1 : Contents(q)[j] = Contents(r)[1 + j - 1]
    BY <1>9, <2>1, <2>3, SubSeqProperties
  <2> HIDE DEF len
  <2>5. Len(Contents(q)) = len /\ \A j \in 1 .. len : Contents(q)[j] = Contents(r)[j]
    BY <2>1, <2>4
  <2>6. \A j \in 1 .. len : Contents(q)[j] = t[j]
    BY <1>6, <2>3, <2>5
  <2> QED
    BY <1>4, <2>4, <2>5, <2>6, SameSeq DEF len
<1> QED
  <2>1. n = Len(c)
    BY <1>1
  <2>2. t = SubSeq(c, 1, st) \o SubSeq(c, ed + 1, n)
    BY <2>1 DEF t, Cut
  <2> QED
    BY <1>9, <1>10, <2>2 DEF q, r, c, n, k

\* insert: a gap of Len(s) slots opens at i, and s is constructed in it.
LEMMA InsertedSound ==
  ASSUME NEW p, Sound(p), NEW i \in Nat, i <= p.size, NEW s \in Seq(Elem),
         p.size + Len(s) <= Len(p.mem)
  PROVE  LET q == InitRange(MoveElements(EnlargeBy(p, Len(s)), i + Len(s), i, p.size), i, s)
         IN /\ Sound(q) /\ Len(q.mem) = Len(p.mem)
            /\ Contents(q) = SubSeq(Contents(p), 1, i) \o s \o SubSeq(Contents(p), i + 1, p.size)
<1> DEFINE n == p.size
           k == Len(p.mem)
           l == Len(s)
           c == Contents(p)
           e == EnlargeBy(p, l)
           r == MoveElements(e, i + l, i, n)
           q == InitRange(r, i, s)
           a == SubSeq(c, 1, i)
           b == SubSeq(c, i + 1, n)
           t == a \o s \o b
<1>1. n \in Nat /\ k \in Nat /\ l \in Nat /\ i <= n /\ n + l <= k
      /\ c \in Seq(Elem) /\ Len(c) = n
  BY SlotsOf
<1>2. \A j \in 1 .. n : c[j] \in Elem
  BY <1>1
<1>3. /\ Sound(e) /\ e.size = n + l /\ Len(e.mem) = k
      /\ Contents(e) = c \o Replicate(l, None)
  BY <1>1, EnlargeSound
<1>4. \A j \in 1 .. k : e.mem[j] = IF j <= n THEN c[j] ELSE IF j <= n + l THEN None ELSE Raw
  <2> DEFINE d == Contents(e)
             u == Replicate(l, None)
  <2>1. u \in Seq(Elem) /\ Len(u) = l /\ \A j \in 1 .. l : u[j] = None
    BY <1>1, ReplicateType DEF Elem
  <2>2. \A j \in 1 .. Len(e.mem) : e.mem[j] = IF j <= e.size THEN d[j] ELSE Raw
    BY <1>3, SlotsOf
  <2>3. d = c \o u
    BY <1>3
  <2> HIDE DEF d, u, e, c
  <2>4. \A j \in 1 .. Len(c) + Len(u) : d[j] = IF j <= Len(c) THEN c[j] ELSE u[j - Len(c)]
    BY <1>1, <2>1, <2>3, ConcatProperties
  <2> HIDE DEF n, k, l
  <2> TAKE j \in 1 .. k
  <2>5. j \in Nat /\ e.mem[j] = IF j <= n + l THEN d[j] ELSE Raw
    BY <1>1, <1>3, <2>2
  <2>6. CASE j <= n
    BY <1>1, <2>1, <2>4, <2>5, <2>6
  <2>7. CASE j > n /\ j <= n + l
    <3>1. j - n \in 1 .. l /\ j \in 1 .. Len(c) + Len(u) /\ ~(j <= Len(c))
      BY <1>1, <2>1, <2>5, <2>7
    <3> QED
      BY <1>1, <2>1, <2>4, <2>5, <2>7, <3>1
  <2>8. CASE j > n + l
    BY <1>1, <2>5, <2>8
  <2> QED
    BY <1>1, <2>5, <2>6, <2>7, <2>8
<1>5. /\ r \in ArrayObj /\ r.size = n + l /\ Len(r.mem) = k
      /\ \A j \in 1 .. k :
           r.mem[j] = IF j \in i + l + 1 .. i + l + (n - i) THEN e.mem[j - (i + l) + i]
                      ELSE IF j \in i + 1 .. n THEN None
                      ELSE e.mem[j]
  <2>1. /\ Sound(e) /\ i + l \in Nat /\ n \in Nat /\ i <= n /\ n <= e.size
        /\ i + l + (n - i) <= e.size
    BY <1>1, <1>3
  <2>2. e.size = n + l /\ Len(e.mem) = k
    BY <1>3
  <2> DEFINE d == i + l
  <2>3. d \in Nat /\ d + (n - i) <= e.size
    BY <2>1
  <2> HIDE DEF e, n, l, k, d
  <2>4. /\ MoveElements(e, d, i, n) \in ArrayObj /\ MoveElements(e, d, i, n).size = e.size
        /\ Len(MoveElements(e, d, i, n).mem) = Len(e.mem)
        /\ \A j \in 1 .. Len(e.mem) :
             MoveElements(e, d, i, n).mem[j] =
               IF j \in d + 1 .. d + (n - i) THEN e.mem[j - d + i]
               ELSE IF j \in i + 1 .. n THEN None
               ELSE e.mem[j]
    BY <2>1, <2>3, MoveElementsSlots
  <2> QED
    BY <2>2, <2>4 DEF d
<1> HIDE DEF e, r, n, k, c
<1>6. \A j \in i + 1 .. i + l : r.mem[j] \in {Raw, None}
  <2> HIDE DEF l
  <2> TAKE j \in i + 1 .. i + l
  <2>1. j \in 1 .. k /\ j \notin i + l + 1 .. i + l + (n - i)
    BY <1>1
  <2>2. CASE j \in i + 1 .. n
    BY <1>5, <2>1, <2>2
  <2>3. CASE j \notin i + 1 .. n
    <3>1. ~(j <= n) /\ j <= n + l
      BY <1>1, <2>3
    <3> QED
      BY <1>4, <1>5, <2>1, <2>3, <3>1
  <2> QED
    BY <2>2, <2>3
<1>7. i + Len(s) <= Len(r.mem)
  BY <1>1, <1>5
<1>8. q \in ArrayObj /\ q.size = n + l /\ Len(q.mem) = k
  BY <1>5, <1>6, <1>7, InitRangeSlots
<1>9. \A j \in 1 .. k : q.mem[j] = IF j \in i + 1 .. i + l THEN s[j - i] ELSE r.mem[j]
  BY <1>5, <1>6, <1>7, InitRangeSlots
<1> HIDE DEF q
<1>10. /\ a \in Seq(Elem) /\ Len(a) = i /\ \A j \in 1 .. i : a[j] = c[j]
  <2>1. \A j \in 1 .. i : c[j] \in Elem
    BY <1>1, <1>2
  <2> QED
    BY <2>1, SubSeqProperties
<1>11. /\ b \in Seq(Elem) /\ Len(b) = n - i /\ \A j \in 1 .. n - i : b[j] = c[i + j]
  <2>1. \A j \in i + 1 .. n : c[j] \in Elem
    BY <1>1, <1>2
  <2>2. /\ b \in Seq(Elem) /\ Len(b) = IF i + 1 <= n THEN n - (i + 1) + 1 ELSE 0
        /\ \A j \in 1 .. n - (i + 1) + 1 : b[j] = c[i + 1 + j - 1]
    BY <1>1, <2>1, SubSeqProperties
  <2>3. n \in Nat /\ i <= n
    BY <1>1
  <2> HIDE DEF b
  <2> QED
    BY <2>2, <2>3
<1> HIDE DEF a, b
<1>12. /\ a \o s \in Seq(Elem) /\ Len(a \o s) = i + l
       /\ \A j \in 1 .. i : (a \o s)[j] = c[j]
       /\ \A j \in i + 1 .. i + l : (a \o s)[j] = s[j - i]
  <2>1. /\ a \o s \in Seq(Elem) /\ Len(a \o s) = Len(a) + Len(s)
        /\ \A j \in 1 .. Len(a) + Len(s) : (a \o s)[j] = IF j <= Len(a) THEN a[j] ELSE s[j - Len(a)]
    BY <1>10, ConcatProperties
  <2> HIDE DEF l
  <2>2. l = Len(s)
    BY DEF l
  <2>3. \A j \in 1 .. i : (a \o s)[j] = c[j]
    BY <1>1, <1>10, <2>1, <2>2
  <2>4. \A j \in i + 1 .. i + l : (a \o s)[j] = s[j - i]
    BY <1>1, <1>10, <2>1, <2>2
  <2> QED
    BY <1>10, <2>1, <2>2, <2>3, <2>4
<1>13. /\ t \in Seq(Elem) /\ Len(t) = n + l
       /\ \A j \in 1 .. i + l : t[j] = (a \o s)[j]
       /\ \A j \in i + l + 1 .. n + l : t[j] = c[j - l]
  <2> DEFINE f == a \o s
  <2>1. f \in Seq(Elem) /\ Len(f) = i + l
    BY <1>12
  <2> HIDE DEF f, l
  <2>2. /\ f \o b \in Seq(Elem) /\ Len(f \o b) = Len(f) + Len(b)
        /\ \A j \in 1 .. Len(f) + Len(b) : (f \o b)[j] = IF j <= Len(f) THEN f[j] ELSE b[j - Len(f)]
    <3>1. b \in Seq(Elem)
      BY <1>11
    <3> QED
      BY <2>1, <3>1, ConcatElems
  <2>3. Len(f) + Len(b) = n + l
    BY <1>1, <1>11, <2>1
  <2>4. \A j \in 1 .. i + l : (f \o b)[j] = f[j]
    BY <1>1, <1>11, <2>1, <2>2
  <2>5. ASSUME NEW j \in i + l + 1 .. n + l PROVE (f \o b)[j] = c[j - l]
    <3>1. j \in 1 .. Len(f) + Len(b) /\ ~(j <= Len(f))
      BY <1>1, <2>1, <2>3
    <3>2. j - (i + l) \in 1 .. n - i /\ i + (j - (i + l)) = j - l
      BY <1>1
    <3> QED
      BY <1>11, <2>1, <2>2, <3>1, <3>2
  <2> QED
    BY <2>2, <2>3, <2>4, <2>5 DEF f
<1> HIDE DEF t
<1>14. \A j \in 1 .. k : q.mem[j] = IF j <= Len(t) THEN t[j] ELSE Raw
  <2> HIDE DEF l
  <2> TAKE j \in 1 .. k
  <2>1. CASE j <= i
    <3>1. /\ j \in 1 .. i /\ j \in 1 .. i + l /\ j \notin i + 1 .. i + l
          /\ j \notin i + l + 1 .. i + l + (n - i) /\ j \notin i + 1 .. n /\ j <= n
          /\ j <= n + l
      BY <1>1, <2>1
    <3>2. q.mem[j] = c[j]
      BY <1>4, <1>5, <1>9, <3>1
    <3> QED
      BY <1>12, <1>13, <3>1, <3>2
  <2>2. CASE j > i /\ j <= i + l
    <3>1. j \in i + 1 .. i + l /\ j \in 1 .. i + l /\ j <= n + l
      BY <1>1, <2>2
    <3> QED
      BY <1>9, <1>12, <1>13, <3>1
  <2>3. CASE j > i + l /\ j <= n + l
    <3>1. /\ j \in i + l + 1 .. n + l /\ j \notin i + 1 .. i + l
          /\ j \in i + l + 1 .. i + l + (n - i)
          /\ j - (i + l) + i = j - l /\ j - l \in 1 .. k /\ j - l <= n
      BY <1>1, <2>3
    <3>2. r.mem[j] = e.mem[j - l]
      BY <1>5, <3>1
    <3>3. e.mem[j - l] = c[j - l]
      BY <1>4, <3>1
    <3> QED
      BY <1>9, <1>13, <2>3, <3>1, <3>2, <3>3
  <2>4. CASE j > n + l
    <3>1. /\ j \notin i + 1 .. i + l /\ j \notin i + l + 1 .. i + l + (n - i)
          /\ j \notin i + 1 .. n /\ ~(j <= n) /\ ~(j <= n + l)
      BY <1>1, <2>4
    <3> QED
      BY <1>4, <1>5, <1>9, <1>13, <3>1
  <2> QED
    BY <1>1, <2>1, <2>2, <2>3, <2>4
<1>15. Sound(q) /\ Contents(q) = t
  <2>1. q.size = Len(t) /\ Len(t) <= Len(q.mem)
    BY <1>1, <1>8, <1>13
  <2> QED
    BY <1>8, <1>13, <1>14, <2>1, SoundWith
<1> QED
  BY <1>8, <1>15 DEF q, r, e, t, a, b, c, n, k

LEMMA StoredSound ==
  ASSUME NEW p, Sound(p), NEW i \in Nat, i < p.size, NEW x \in Elem
  PROVE  /\ Sound(StoreItem(p, i, x)) /\ StoreItem(p, i, x).size = p.size
         /\ Len(StoreItem(p, i, x).mem) = Len(p.mem)
         /\ Contents(StoreItem(p, i, x)) = [Contents(p) EXCEPT ![i + 1] = x]
<1> DEFINE n == p.size
           k == Len(p.mem)
           c == Contents(p)
           m == [p.mem EXCEPT ![i + 1] = x]
           t == [c EXCEPT ![i + 1] = x]
           q == StoreItem(p, i, x)
<1>1. p \in ArrayObj /\ n \in Nat /\ k \in Nat /\ n <= k /\ i < n
      /\ c \in Seq(Elem) /\ Len(c) = n
  BY SlotsOf
<1>2. \A j \in 1 .. k : p.mem[j] = IF j <= n THEN c[j] ELSE Raw
  BY SlotsOf
<1>3. i + 1 \in 1 .. n /\ i + 1 \in 1 .. k
  BY <1>1
<1>4. p.mem[i + 1] # Raw
  BY <1>3, ContentsOf, ArrayAssumption
<1>5. q = [p EXCEPT !.mem = m]
  BY <1>4 DEF StoreItem, Assigned
<1>6. p.mem \in Seq(Slot) /\ x \in Slot
  BY <1>1 DEF ArrayObj, Slot
<1>7. /\ m \in Seq(Slot) /\ Len(m) = k
      /\ \A j \in 1 .. k : m[j] = IF j = i + 1 THEN x ELSE p.mem[j]
  BY <1>3, <1>6, ExceptSeq
<1>8. /\ t \in Seq(Elem) /\ Len(t) = n
      /\ \A j \in 1 .. n : t[j] = IF j = i + 1 THEN x ELSE c[j]
  <2> HIDE DEF c
  <2> QED
    BY <1>1, <1>3, ExceptSeq
<1> HIDE DEF m, t, q
<1>9. q \in ArrayObj /\ q.size = n /\ q.mem = m
  BY <1>1, <1>5, <1>7 DEF ArrayObj, Slot
<1> HIDE DEF n, k, c
<1>10. \A j \in 1 .. k : m[j] = IF j <= Len(t) THEN t[j] ELSE Raw
  BY <1>1, <1>2, <1>3, <1>7, <1>8
<1>11. Sound(q) /\ Contents(q) = t
  BY <1>1, <1>7, <1>8, <1>9, <1>10, SoundWith
<1> QED
  BY <1>7, <1>9, <1>11 DEF q, n, k, c, t

-----------------------------------------------------------------------------
(* The inductive invariant. *)

\* Every block is sound and every root refers to one that is there.
HeapInv ==
  /\ ref \in [Root -> Block \union {Null}]
  /\ heap \in [Block -> ArrayObj \union {Null}]
  /\ \A b \in Block : heap[b] # Null => Sound(heap[b])
  /\ \A r \in Root : ref[r] # Null => heap[ref[r]] # Null

\* MapHelper has its blocks as long as it runs: the one it changes in place and
\* the one it builds are referred to by nobody else, and the one it reads still
\* holds what the callback was given.
JobInv ==
  IF job = Null THEN ref[Data] = Null /\ ref[Output] = Null
  ELSE /\ job \in Job
       /\ ref[Data] # Null /\ job.pos <= heap[ref[Data]].size + 1
       /\ job.path = "in place" => Unique(Data) /\ ref[Output] = Null
       /\ job.path = "identical" => ref[Output] = Null
       /\ job.path = "copy" =>
            /\ ref[Output] # Null /\ Unique(Output)
            /\ heap[ref[Output]].size = heap[ref[Data]].size
       /\ job.path # "in place" /\ job.pos <= heap[ref[Data]].size
            => job.arg = heap[ref[Data]].mem[job.pos]

AInv == HeapInv /\ JobInv

-----------------------------------------------------------------------------
(* Steps of a handle. *)

\* A step that leaves the job and its blocks alone.
LEMMA Frame ==
  ASSUME AInv, job' = job, HeapInv', ref'[Data] = ref[Data], ref'[Output] = ref[Output],
         \A r \in {Data, Output} :
           ref[r] # Null => heap'[ref[r]] = heap[ref[r]] /\ (Unique(r) => Unique(r)')
  PROVE  AInv' /\ Task' = Task
<1>1. JobInv'
  BY DEF AInv, JobInv
<1>2. Task' = Task
  <2>1. CASE job = Null
    BY <2>1 DEF Task
  <2>2. CASE job # Null
    BY <2>2 DEF AInv, JobInv, Task, Mapped, Size
  <2> QED
    BY <2>1, <2>2
<1> QED
  BY <1>1, <1>2 DEF AInv

LEMMA RootType == Handle \subseteq Root /\ Data \in Root /\ Output \in Root
                  /\ Data \notin Handle /\ Output \notin Handle /\ Data # Output
BY ArrayAssumption DEF Root, Data, Output

\* The step that gives h a block of its own.
LEMMA SwitchStep ==
  ASSUME AInv, NEW h \in Handle, NEW obj, Sound(obj), NEW drains \in BOOLEAN,
         drains => Unique(h), SwitchTo(h, obj, drains), Done
  PROVE  AInv' /\ Val' = [Val EXCEPT ![h] = Contents(obj)] /\ Task' = Task
<1>1. PICK b \in Block :
        /\ heap[b] = Null
        /\ ref' = [ref EXCEPT ![h] = b]
        /\ heap' = Collected(ref', [a \in Block |->
                     IF a = b THEN obj
                     ELSE IF a = ref[h] /\ drains THEN Drained(heap[a])
                     ELSE heap[a]])
  BY DEF SwitchTo
<1>2. \A r \in Root : ref[r] # b
  BY <1>1, ArrayAssumption DEF AInv, HeapInv
<1>3. ref' \in [Root -> Block \union {Null}] /\ ref'[h] = b
      /\ \A r \in Root : r # h => ref'[r] = ref[r]
  BY <1>1, RootType DEF AInv, HeapInv
<1>4. heap'[b] = obj
  BY <1>1, <1>3, RootType DEF Collected
<1>5. \A r \in Root : r # h /\ ref[r] # Null => heap'[ref[r]] = heap[ref[r]]
  <2> TAKE r \in Root
  <2> HAVE r # h /\ ref[r] # Null
  <2>1. ref[r] \in Block /\ ref[r] # b /\ ref'[r] = ref[r]
    BY <1>2, <1>3 DEF AInv, HeapInv
  <2>2. ~(ref[r] = ref[h] /\ drains)
    BY RootType DEF Unique
  <2> QED
    BY <1>1, <2>1, <2>2 DEF Collected
<1>6. \A a \in Block : heap'[a] = Null \/ heap'[a] = obj
                        \/ \E r \in Root : r # h /\ ref[r] = a /\ heap'[a] = heap[a]
  <2> TAKE a \in Block
  <2>1. CASE \A r \in Root : ref'[r] # a
    BY <1>1, <2>1 DEF Collected
  <2>2. ASSUME NEW r \in Root, ref'[r] = a
        PROVE  heap'[a] = obj \/ (r # h /\ ref[r] = a /\ heap'[a] = heap[a])
    BY <1>3, <1>4, <1>5, <2>2, ArrayAssumption
  <2> QED
    BY <2>1, <2>2
<1>7. obj # Null /\ obj \in ArrayObj
  BY ArrayAssumption DEF Sound
<1>8. HeapInv'
  <2>1. heap' = [a \in Block |-> heap'[a]]
    BY <1>1 DEF Collected
  <2>2. \A a \in Block : heap'[a] \in ArrayObj \union {Null} /\ (heap'[a] # Null => Sound(heap'[a]))
    BY <1>6, <1>7 DEF AInv, HeapInv
  <2>3. \A r \in Root : ref'[r] # Null => heap'[ref'[r]] # Null
    BY <1>3, <1>4, <1>5, <1>7 DEF AInv, HeapInv
  <2> QED
    BY <1>3, <2>1, <2>2, <2>3 DEF HeapInv
<1>9. \A r \in {Data, Output} :
        /\ ref'[r] = ref[r]
        /\ ref[r] # Null => heap'[ref[r]] = heap[ref[r]] /\ (Unique(r) => Unique(r)')
  <2> TAKE r \in {Data, Output}
  <2>1. r \in Root /\ r # h
    BY RootType
  <2>2. Unique(r) => Unique(r)'
    BY <1>2, <1>3, <2>1 DEF Unique
  <2> QED
    BY <1>3, <1>5, <2>1, <2>2
<1>10. AInv' /\ Task' = Task
  BY <1>8, <1>9, Frame DEF Done
<1>11. Val' = [Val EXCEPT ![h] = Contents(obj)]
  <2>1. ASSUME NEW g \in Handle, g # h
        PROVE  (IF ref'[g] = Null THEN Null ELSE Contents(heap'[ref'[g]]))
                 = (IF ref[g] = Null THEN Null ELSE Contents(heap[ref[g]]))
    BY <1>3, <1>5, <2>1, RootType
  <2>2. (IF ref'[h] = Null THEN Null ELSE Contents(heap'[ref'[h]])) = Contents(obj)
    BY <1>3, <1>4, ArrayAssumption
  <2> QED
    BY <2>1, <2>2 DEF Val
<1> QED
  BY <1>10, <1>11

\* The step that changes the block of h in place.
LEMMA InPlaceStep ==
  ASSUME AInv, NEW h \in Handle, NEW obj, Sound(obj), ref[h] # Null, Unique(h),
         heap' = [heap EXCEPT ![ref[h]] = obj], UNCHANGED ref, Done
  PROVE  AInv' /\ Val' = [Val EXCEPT ![h] = Contents(obj)] /\ Task' = Task
<1>1. ref[h] \in Block
  BY RootType DEF AInv, HeapInv
<1>2. \A r \in Root : r # h => ref[r] # ref[h]
  BY DEF Unique
<1>3. /\ heap' \in [Block -> ArrayObj \union {Null}] /\ heap'[ref[h]] = obj
      /\ \A b \in Block : b # ref[h] => heap'[b] = heap[b]
  BY <1>1 DEF AInv, HeapInv, Sound
<1>4. HeapInv'
  <2>1. obj # Null
    BY ArrayAssumption DEF Sound
  <2>2. \A b \in Block : heap'[b] # Null => Sound(heap'[b])
    BY <1>3 DEF AInv, HeapInv
  <2>3. \A r \in Root : ref'[r] # Null => heap'[ref'[r]] # Null
    BY <1>3, <2>1 DEF AInv, HeapInv
  <2> QED
    BY <1>3, <2>2, <2>3 DEF AInv, HeapInv
<1>5. \A r \in {Data, Output} :
        ref[r] # Null => heap'[ref[r]] = heap[ref[r]] /\ (Unique(r) => Unique(r)')
  <2> TAKE r \in {Data, Output}
  <2> HAVE ref[r] # Null
  <2>1. r \in Root /\ r # h /\ ref[r] \in Block
    BY RootType DEF AInv, HeapInv
  <2> QED
    BY <1>2, <1>3, <2>1 DEF Unique
<1>6. AInv' /\ Task' = Task
  BY <1>4, <1>5, Frame DEF Done
<1>7. Val' = [Val EXCEPT ![h] = Contents(obj)]
  <2>1. ASSUME NEW g \in Handle, g # h
        PROVE  (IF ref'[g] = Null THEN Null ELSE Contents(heap'[ref'[g]]))
                 = (IF ref[g] = Null THEN Null ELSE Contents(heap[ref[g]]))
    BY <1>2, <1>3, <2>1, RootType DEF AInv, HeapInv
  <2>2. (IF ref'[h] = Null THEN Null ELSE Contents(heap'[ref'[h]])) = Contents(obj)
    BY <1>3
  <2> QED
    BY <2>1, <2>2 DEF Val
<1> QED
  BY <1>6, <1>7

LEMMA StoreStep ==
  ASSUME AInv, NEW h \in Handle, NEW extra \in Nat, NEW obj, Sound(obj),
         Store(h, extra, obj), Done
  PROVE  AInv' /\ Val' = [Val EXCEPT ![h] = Contents(obj)] /\ Task' = Task
<1>1. CASE Stays(h, extra)
  BY <1>1, InPlaceStep DEF Store, Stays
<1>2. CASE ~Stays(h, extra)
  <2>1. Unique(h) \in BOOLEAN
    BY DEF Unique
  <2> QED
    BY <1>2, <2>1, SwitchStep DEF Store
<1> QED
  BY <1>1, <1>2

\* What CopyOnWrite(extra) returns: a block that holds what h held, with room
\* for extra elements.
LEMMA WritableSound ==
  ASSUME AInv, NEW h \in Handle, NEW extra \in Nat
  PROVE  /\ Sound(Writable(h, extra)) /\ Writable(h, extra).size = Size(h)
         /\ Size(h) \in Nat /\ Size(h) + extra <= Len(Writable(h, extra).mem)
         /\ Contents(Writable(h, extra)) = Abstract!Seq0(h)
         /\ Abstract!Seq0(h) \in Seq(Elem) /\ Len(Abstract!Seq0(h)) = Size(h)
<1>1. CASE ref[h] = Null
  <2>1. NextCapacity(h, extra) \in Nat /\ extra <= NextCapacity(h, extra)
    BY <1>1 DEF NextCapacity, Larger, KInitSize
  <2>2. Writable(h, extra) = Empty(NextCapacity(h, extra)) /\ Size(h) = 0
    BY <1>1 DEF Writable, Stays, Size
  <2>3. Abstract!Seq0(h) = <<>>
    BY <1>1 DEF Abstract!Seq0, Val
  <2>4. <<>> \in Seq(Elem) /\ Len(<<>>) = 0
    OBVIOUS
  <2> QED
    BY <2>1, <2>2, <2>3, <2>4, EmptySound
<1>2. CASE ref[h] # Null
  <2> DEFINE p == heap[ref[h]]
             cap == NextCapacity(h, extra)
  <2>1. Sound(p) /\ Size(h) = p.size
    BY <1>2, RootType DEF AInv, HeapInv, Size
  <2>2. p.size \in Nat /\ Len(p.mem) \in Nat /\ p.size <= Len(p.mem)
        /\ Contents(p) \in Seq(Elem) /\ Len(Contents(p)) = p.size
    BY <2>1, SlotsOf
  <2>3. Contents(p) # Null
    BY <2>2, ArrayAssumption DEF Elem
  <2>4. Abstract!Seq0(h) = Contents(p)
    BY <1>2, <2>3 DEF Abstract!Seq0, Val
  <2>5. cap = IF Len(p.mem) >= p.size + extra THEN Len(p.mem)
              ELSE Larger(Len(p.mem) * 2, p.size + extra)
    BY <1>2, <2>1 DEF NextCapacity, KIncFactor
  <2> HIDE DEF cap
  <2>6. cap \in Nat /\ p.size + extra <= cap /\ p.size <= cap
    BY <2>2, <2>5 DEF Larger
  <2>7. CASE Stays(h, extra)
    <3>1. Writable(h, extra) = p /\ p.size + extra <= Len(p.mem)
      BY <2>1, <2>2, <2>7 DEF Writable, Stays
    <3> QED
      BY <2>1, <2>2, <2>4, <3>1
  <2>8. CASE ~Stays(h, extra)
    <3>1. Writable(h, extra) = Relocated(cap, p)
      BY <1>2, <2>8 DEF Writable, cap
    <3>2. /\ Sound(Relocated(cap, p)) /\ Contents(Relocated(cap, p)) = Contents(p)
          /\ Relocated(cap, p).size = p.size /\ Len(Relocated(cap, p).mem) = cap
      BY <2>1, <2>6, RelocatedSound
    <3> QED
      BY <2>1, <2>2, <2>4, <2>6, <3>1, <3>2
  <2> QED
    BY <2>7, <2>8
<1> QED
  BY <1>1, <1>2

\* A null handle is not an empty one.
LEMMA NullVal ==
  ASSUME AInv, NEW h \in Handle
  PROVE  /\ Val[h] = Null <=> ref[h] = Null
         /\ ref[h] # Null => /\ Val[h] = Abstract!Seq0(h) /\ Val[h] = Contents(heap[ref[h]])
                             /\ Sound(heap[ref[h]]) /\ Size(h) = heap[ref[h]].size
<1>1. ASSUME ref[h] # Null
      PROVE  Sound(heap[ref[h]]) /\ Contents(heap[ref[h]]) # Null
  <2>1. Sound(heap[ref[h]])
    BY <1>1, RootType DEF AInv, HeapInv
  <2> QED
    BY <2>1, SlotsOf, ArrayAssumption DEF Elem
<1> QED
  BY <1>1 DEF Val, Abstract!Seq0, Size

\* Nothing changes.
LEMMA StutterStep ==
  ASSUME AInv, UNCHANGED vars
  PROVE  AInv' /\ Val' = Val /\ Task' = Task
BY DEF vars, AInv, HeapInv, JobInv, Val, Task, Mapped, Size, Unique, Sound

LEMMA KeepsVal ==
  ASSUME NEW h \in Handle
  PROVE  Val = [Val EXCEPT ![h] = Val[h]]
BY DEF Val

LEMMA PointHeap ==
  ASSUME HeapInv, NEW refs \in [Root -> Block \union {Null}],
         \A r \in Root : refs[r] # Null => \E q \in Root : ref[q] = refs[r],
         Point(refs)
  PROVE  /\ HeapInv' /\ ref' = refs
         /\ \A r \in Root : refs[r] # Null => heap'[refs[r]] = heap[refs[r]]
<1>1. ref' = refs /\ heap' = Collected(refs, heap)
  BY DEF Point
<1>2. \A r \in Root : refs[r] # Null => heap'[refs[r]] = heap[refs[r]]
  BY <1>1 DEF Collected
<1>3. \A b \in Block : heap'[b] = Null \/ heap'[b] = heap[b]
  BY <1>1 DEF Collected
<1>4. heap' \in [Block -> ArrayObj \union {Null}]
  <2>1. heap' = [b \in Block |-> heap'[b]]
    BY <1>1 DEF Collected
  <2>2. \A b \in Block : heap'[b] \in ArrayObj \union {Null}
    BY <1>3 DEF HeapInv
  <2> QED
    BY <2>1, <2>2
<1>5. \A b \in Block : heap'[b] # Null => Sound(heap'[b])
  BY <1>3 DEF HeapInv
<1>6. \A r \in Root : ref'[r] # Null => heap'[ref'[r]] # Null
  BY <1>1, <1>2 DEF HeapInv
<1> QED
  BY <1>1, <1>2, <1>4, <1>5, <1>6 DEF HeapInv

\* Handles that refer to other blocks than before, and to no new one.
LEMMA PointStep ==
  ASSUME AInv, NEW refs \in [Root -> Block \union {Null}],
         \A r \in Handle : refs[r] # Null => \E q \in Handle : ref[q] = refs[r],
         \A r \in {Data, Output} : refs[r] = ref[r],
         Point(refs), Done
  PROVE  /\ AInv' /\ Task' = Task
         /\ Val' = [h \in Handle |-> IF refs[h] = Null THEN Null ELSE Contents(heap[refs[h]])]
<1>1. \A r \in Root : refs[r] # Null => \E q \in Root : ref[q] = refs[r]
  BY RootType DEF Root
<1>2. /\ HeapInv' /\ ref' = refs
      /\ \A r \in Root : refs[r] # Null => heap'[refs[r]] = heap[refs[r]]
  BY <1>1, PointHeap DEF AInv
<1>3. \A r \in {Data, Output} : ref[r] # Null => (Unique(r) => Unique(r)')
  <2> TAKE r \in {Data, Output}
  <2> HAVE ref[r] # Null
  <2> HAVE Unique(r)
  <2>1. ASSUME NEW q \in Root, refs[q] = refs[r] PROVE q = r
    <3>1. CASE q \in {Data, Output}
      BY <2>1, <3>1 DEF Unique
    <3>2. CASE q \notin {Data, Output}
      <4>1. PICK g \in Handle : ref[g] = refs[q]
        BY <2>1, <3>2 DEF Root
      <4> QED
        BY <2>1, <4>1, RootType DEF Unique
    <3> QED
      BY <3>1, <3>2
  <2> QED
    BY <1>2, <2>1 DEF Unique
<1>4. \A r \in {Data, Output} :
        ref[r] # Null => heap'[ref[r]] = heap[ref[r]] /\ (Unique(r) => Unique(r)')
  BY <1>2, <1>3, RootType
<1>5. AInv' /\ Task' = Task
  BY <1>2, <1>4, Frame DEF Done
<1>6. Val' = [h \in Handle |-> IF refs[h] = Null THEN Null ELSE Contents(heap[refs[h]])]
  BY <1>2, RootType DEF Val
<1> QED
  BY <1>5, <1>6

\* Two handles of one block hold the same.
LEMMA ShareStep ==
  ASSUME AInv, NEW h \in Handle, NEW g \in Handle,
         Point([ref EXCEPT ![h] = ref[g]]), Done
  PROVE  AInv' /\ Val' = [Val EXCEPT ![h] = Val[g]] /\ Task' = Task
<1> DEFINE refs == [ref EXCEPT ![h] = ref[g]]
<1>1. /\ refs \in [Root -> Block \union {Null}] /\ refs[h] = ref[g]
      /\ \A r \in Root : r # h => refs[r] = ref[r]
  BY RootType DEF AInv, HeapInv
<1> HIDE DEF refs
<1>2. Point(refs)
  BY DEF refs
<1>3. /\ \A r \in Handle : refs[r] # Null => \E q \in Handle : ref[q] = refs[r]
      /\ \A r \in {Data, Output} : refs[r] = ref[r]
  BY <1>1, RootType DEF Root
<1>4. /\ AInv' /\ Task' = Task
      /\ Val' = [k \in Handle |-> IF refs[k] = Null THEN Null ELSE Contents(heap[refs[k]])]
  BY <1>1, <1>2, <1>3, PointStep
<1>5. [k \in Handle |-> IF refs[k] = Null THEN Null ELSE Contents(heap[refs[k]])]
        = [Val EXCEPT ![h] = Val[g]]
  BY <1>1, RootType DEF Val
<1> QED
  BY <1>4, <1>5

-----------------------------------------------------------------------------
(* Each member of Array does what ValueSequences says. *)

LEMMA CopyRefines ==
  ASSUME AInv, NEW h \in Handle, NEW g \in Handle, Copy(h, g)
  PROVE  AInv' /\ Abstract!Copy(h, g)
<1>1. AInv' /\ Val' = [Val EXCEPT ![h] = Val[g]] /\ Task' = Task
  BY ShareStep DEF Copy
<1> QED
  BY <1>1 DEF Abstract!Copy, Abstract!Becomes

LEMMA MoveRefines ==
  ASSUME AInv, NEW h \in Handle, NEW g \in Handle, Move(h, g)
  PROVE  AInv' /\ Abstract!Move(h, g)
<1> DEFINE refs == [ref EXCEPT ![h] = ref[g], ![g] = Null]
<1>1. /\ refs \in [Root -> Block \union {Null}] /\ refs[h] = ref[g] /\ refs[g] = Null
      /\ \A r \in Root : r # h /\ r # g => refs[r] = ref[r]
  BY RootType DEF AInv, HeapInv, Move
<1>2. Point(refs) /\ Done /\ h # g
  BY DEF Move
<1> HIDE DEF refs
<1>3. /\ \A r \in Handle : refs[r] # Null => \E q \in Handle : ref[q] = refs[r]
      /\ \A r \in {Data, Output} : refs[r] = ref[r]
  BY <1>1, RootType
<1>4. /\ AInv' /\ Task' = Task
      /\ Val' = [k \in Handle |-> IF refs[k] = Null THEN Null ELSE Contents(heap[refs[k]])]
  BY <1>1, <1>2, <1>3, PointStep
<1>5. [k \in Handle |-> IF refs[k] = Null THEN Null ELSE Contents(heap[refs[k]])]
        = [Val EXCEPT ![h] = Val[g], ![g] = Null]
  BY <1>1, <1>2, RootType DEF Val
<1> QED
  BY <1>2, <1>4, <1>5 DEF Abstract!Move

LEMMA AssignRefines ==
  ASSUME AInv, NEW h \in Handle, NEW s \in Ranges, Assign(h, s)
  PROVE  AInv' /\ Abstract!Assign(h, s)
<1>1. s \in Seq(Elem) /\ Len(s) \in Nat
  BY ArrayAssumption DEF Elem
<1>2. AInv' /\ Val' = [Val EXCEPT ![h] = s] /\ Task' = Task
  <2>1. CASE ref[h] # Null /\ Unique(h) /\ Len(heap[ref[h]].mem) >= Len(s)
    <3> DEFINE cap == Len(heap[ref[h]].mem)
    <3>1. Sound(heap[ref[h]])
      BY <2>1, NullVal
    <3>2. cap \in Nat /\ Len(s) <= cap /\ ref[h] \in Block
      BY <1>1, <2>1, <3>1, SlotsOf, RootType DEF AInv, HeapInv
    <3>3. Sound(FromRange(cap, s)) /\ Contents(FromRange(cap, s)) = s
      BY <1>1, <3>2, FromRangeSound
    <3>4. heap' = [heap EXCEPT ![ref[h]] = FromRange(cap, s)] /\ UNCHANGED ref /\ Done
      BY <2>1, <3>2 DEF Assign, AInv, HeapInv
    <3> QED
      BY <2>1, <3>3, <3>4, InPlaceStep
  <2>2. CASE ~(ref[h] # Null /\ Unique(h) /\ Len(heap[ref[h]].mem) >= Len(s))
    <3>1. Sound(FromRange(Len(s), s)) /\ Contents(FromRange(Len(s), s)) = s
      BY <1>1, FromRangeSound
    <3>2. SwitchTo(h, FromRange(Len(s), s), FALSE) /\ Done
      BY <2>2 DEF Assign
    <3> QED
      BY <3>1, <3>2, SwitchStep
  <2> QED
    BY <2>1, <2>2
<1> QED
  BY <1>2 DEF Abstract!Assign, Abstract!Becomes

LEMMA PushBackRefines ==
  ASSUME AInv, NEW h \in Handle, NEW x \in Value, PushBack(h, x)
  PROVE  AInv' /\ Abstract!PushBack(h, x)
<1> DEFINE p == Writable(h, 1)
           q == Grown(InitRange(p, p.size, <<x>>), 1)
<1>1. /\ Sound(p) /\ p.size = Size(h) /\ Size(h) \in Nat /\ Size(h) + 1 <= Len(p.mem)
      /\ Contents(p) = Abstract!Seq0(h) /\ Abstract!Seq0(h) \in Seq(Elem)
  BY WritableSound
<1>2. <<x>> \in Seq(Elem) /\ Len(<<x>>) = 1
  BY DEF Elem
<1>3. Sound(q) /\ Contents(q) = Abstract!Seq0(h) \o <<x>>
  <2> HIDE DEF p
  <2> QED
    BY <1>1, <1>2, AppendedSound
<1>4. Store(h, 1, q) /\ Done
  BY DEF PushBack
<1> HIDE DEF q, p
<1>5. AInv' /\ Val' = [Val EXCEPT ![h] = Contents(q)] /\ Task' = Task
  BY <1>3, <1>4, StoreStep
<1>6. Abstract!Seq0(h) \o <<x>> = Append(Abstract!Seq0(h), x)
  BY <1>1, <1>2, AppendProperties DEF Elem
<1> QED
  BY <1>3, <1>5, <1>6 DEF Abstract!PushBack, Abstract!Becomes

\* The block insert leaves behind.
LEMMA InsertedRefines ==
  ASSUME AInv, NEW h \in Handle, NEW i \in Nat, i <= Size(h), NEW s \in Seq(Elem), s # <<>>,
         Store(h, Len(s), Inserted(h, i, s)), Done, ref[h] # Null
  PROVE  AInv' /\ Abstract!Insert(h, i, s)
<1> DEFINE p == Writable(h, Len(s))
           q == Inserted(h, i, s)
           c == Abstract!Seq0(h)
<1>1. /\ Sound(p) /\ p.size = Size(h) /\ Size(h) \in Nat /\ Size(h) + Len(s) <= Len(p.mem)
      /\ Contents(p) = c /\ c \in Seq(Elem) /\ Len(c) = Size(h)
  BY WritableSound
<1>2. q = InitRange(MoveElements(EnlargeBy(p, Len(s)), i + Len(s), i, p.size), i, s)
  BY <1>1 DEF Inserted
<1>3. /\ Sound(q)
      /\ Contents(q) = (SubSeq(Contents(p), 1, i) \o s) \o SubSeq(Contents(p), i + 1, p.size)
  BY <1>1, <1>2, InsertedSound
<1>4. AInv' /\ Val' = [Val EXCEPT ![h] = Contents(q)] /\ Task' = Task
  <2>1. Len(s) \in Nat /\ Store(h, Len(s), q) /\ Done
    OBVIOUS
  <2> HIDE DEF p, q
  <2> QED
    BY <1>3, <2>1, StoreStep
<1> HIDE DEF p, q
<1>5. Val[h] # Null
  BY NullVal
<1> QED
  BY <1>1, <1>3, <1>4, <1>5
     DEF Abstract!Insert, Abstract!Becomes, Abstract!Before, Abstract!From

LEMMA InsertRangeRefines ==
  ASSUME AInv, NEW h \in Handle, NEW i \in Nat, NEW s \in Ranges, InsertRange(h, i, s)
  PROVE  AInv' /\ Abstract!Insert(h, i, s)
<1>1. s \in Seq(Elem)
  BY ArrayAssumption DEF Elem
<1>2. CASE s = <<>>
  <2>1. UNCHANGED vars
    BY <1>2 DEF InsertRange, Done, vars
  <2> QED
    BY <1>2, <2>1, StutterStep, KeepsVal DEF Abstract!Insert, Abstract!Becomes
<1>3. CASE s # <<>> /\ ref[h] = Null
  <2>1. UNCHANGED vars
    BY <1>3 DEF InsertRange, Fails
  <2> QED
    BY <1>3, <2>1, StutterStep, NullVal DEF Abstract!Insert, Abstract!Fails, Abstract!vars
<1>4. CASE s # <<>> /\ ref[h] # Null
  <2>1. i <= Size(h) /\ Store(h, Len(s), Inserted(h, i, s)) /\ Done
    BY <1>4 DEF InsertRange
  <2> QED
    BY <1>1, <1>4, <2>1, InsertedRefines
<1> QED
  BY <1>2, <1>3, <1>4

LEMMA InsertRefines ==
  ASSUME AInv, NEW h \in Handle, NEW i \in Nat, NEW x \in Value, Insert(h, i, x)
  PROVE  AInv' /\ Abstract!Insert(h, i, <<x>>)
<1>1. <<x>> \in Seq(Elem) /\ <<x>> # <<>> /\ Len(<<x>>) = 1
  BY DEF Elem
<1>2. CASE ref[h] = Null
  <2>1. UNCHANGED vars
    BY <1>2 DEF Insert, Fails
  <2> QED
    BY <1>1, <1>2, <2>1, StutterStep, NullVal DEF Abstract!Insert, Abstract!Fails, Abstract!vars
<1>3. CASE ref[h] # Null
  <2>1. i <= Size(h) /\ Store(h, Len(<<x>>), Inserted(h, i, <<x>>)) /\ Done
    BY <1>1, <1>3 DEF Insert
  <2> QED
    BY <1>1, <1>3, <2>1, InsertedRefines
<1> QED
  BY <1>2, <1>3

LEMMA PopBackRefines ==
  ASSUME AInv, NEW h \in Handle, PopBack(h)
  PROVE  AInv' /\ Abstract!PopBack(h)
<1> DEFINE p == Writable(h, 0)
           q == ShrinkBy(p, 1)
           c == Abstract!Seq0(h)
<1>1. /\ Sound(p) /\ p.size = Size(h) /\ Size(h) \in Nat
      /\ Contents(p) = c /\ c \in Seq(Elem) /\ Len(c) = Size(h)
  BY WritableSound
<1> HIDE DEF p, c
<1>2. CASE Size(h) = 0
  <2>1. UNCHANGED vars
    BY <1>2 DEF PopBack, Fails
  <2>2. c = <<>>
    BY <1>1, <1>2
  <2> QED
    BY <2>1, <2>2, StutterStep DEF Abstract!PopBack, Abstract!Fails, Abstract!vars, c
<1>3. CASE Size(h) # 0
  <2>1. Sound(q) /\ Contents(q) = SubSeq(c, 1, Size(h) - 1)
    BY <1>1, <1>3, ShrinkSound
  <2>2. Store(h, 0, q) /\ Done
    BY <1>3 DEF PopBack, p
  <2> HIDE DEF q
  <2>3. AInv' /\ Val' = [Val EXCEPT ![h] = Contents(q)] /\ Task' = Task
    BY <2>1, <2>2, StoreStep
  <2>4. c # <<>>
    BY <1>1, <1>3
  <2> QED
    BY <1>1, <2>1, <2>3, <2>4 DEF Abstract!PopBack, Abstract!Becomes, Abstract!Before, c
<1> QED
  BY <1>2, <1>3

LEMMA ErasedRefines ==
  ASSUME AInv, NEW h \in Handle, NEW st \in Nat, NEW ed \in Nat, st < ed, ed <= Size(h),
         Store(h, 0, Erased(h, st, ed)), Done
  PROVE  AInv' /\ Abstract!Becomes(h, Abstract!Before(h, st) \o Abstract!From(h, ed))
<1> DEFINE p == Writable(h, 0)
           q == Erased(h, st, ed)
           c == Abstract!Seq0(h)
<1>1. /\ Sound(p) /\ p.size = Size(h) /\ Size(h) \in Nat
      /\ Contents(p) = c /\ c \in Seq(Elem) /\ Len(c) = Size(h)
  BY WritableSound
<1>2. q = ShrinkBy(MoveElements(p, st, ed, p.size), ed - st)
  BY <1>1 DEF Erased
<1>3. Sound(q) /\ Contents(q) = SubSeq(Contents(p), 1, st) \o SubSeq(Contents(p), ed + 1, p.size)
  BY <1>1, <1>2, ErasedSound
<1>4. Store(h, 0, q) /\ Done
  OBVIOUS
<1> HIDE DEF p, q, c
<1>5. AInv' /\ Val' = [Val EXCEPT ![h] = Contents(q)] /\ Task' = Task
  BY <1>3, <1>4, StoreStep
<1> QED
  BY <1>1, <1>3, <1>5 DEF Abstract!Becomes, Abstract!Before, Abstract!From, c

LEMMA EraseAtRefines ==
  ASSUME AInv, NEW h \in Handle, NEW i \in Int, EraseAt(h, i)
  PROVE  AInv' /\ Abstract!EraseAt(h, i)
<1>1. Size(h) \in Nat /\ Len(Abstract!Seq0(h)) = Size(h)
  BY WritableSound
<1>2. CASE i \in 0 .. Size(h) - 1
  <2>1. i \in Nat /\ i + 1 \in Nat /\ i < i + 1 /\ i + 1 <= Size(h)
    BY <1>1, <1>2
  <2>2. Store(h, 0, Erased(h, i, i + 1)) /\ Done
    BY <1>2 DEF EraseAt
  <2> QED
    BY <1>1, <1>2, <2>1, <2>2, ErasedRefines DEF Abstract!EraseAt
<1>3. CASE i \notin 0 .. Size(h) - 1
  <2>1. UNCHANGED vars
    BY <1>3 DEF EraseAt, Fails
  <2> QED
    BY <1>1, <1>3, <2>1, StutterStep DEF Abstract!EraseAt, Abstract!Fails, Abstract!vars
<1> QED
  BY <1>2, <1>3

LEMMA EraseRangeRefines ==
  ASSUME AInv, NEW h \in Handle, NEW st \in Nat, NEW ed \in Nat, EraseRange(h, st, ed)
  PROVE  AInv' /\ Abstract!Erase(h, st, ed)
<1>1. CASE st = ed
  <2>1. UNCHANGED vars
    BY <1>1 DEF EraseRange, Done, vars
  <2> QED
    BY <1>1, <2>1, StutterStep, KeepsVal DEF Abstract!Erase, Abstract!Becomes
<1>2. CASE st # ed /\ (ref[h] = Null \/ st > ed)
  <2>1. UNCHANGED vars
    BY <1>2 DEF EraseRange, Fails
  <2> QED
    BY <1>2, <2>1, StutterStep, NullVal DEF Abstract!Erase, Abstract!Fails, Abstract!vars
<1>3. CASE ref[h] # Null /\ st < ed
  <2>1. ed <= Size(h) /\ Store(h, 0, Erased(h, st, ed)) /\ Done
    BY <1>3 DEF EraseRange
  <2> QED
    BY <1>3, <2>1, ErasedRefines, NullVal DEF Abstract!Erase
<1> QED
  BY <1>1, <1>2, <1>3

LEMMA SwitchContainerRefines ==
  ASSUME AInv, NEW h \in Handle, NEW n \in Nat, SwitchContainer(h, n), Done,
         ref[h] # Null => Size(h) <= n
  PROVE  AInv' /\ Val' = [Val EXCEPT ![h] = Abstract!Seq0(h)] /\ Task' = Task
<1>1. CASE ref[h] = Null
  <2>1. SwitchTo(h, Empty(n), FALSE)
    BY <1>1 DEF SwitchContainer
  <2>2. Abstract!Seq0(h) = <<>>
    BY <1>1, NullVal DEF Abstract!Seq0
  <2> QED
    BY <2>1, <2>2, EmptySound, SwitchStep
<1>2. CASE ref[h] # Null
  <2> DEFINE p == heap[ref[h]]
  <2>1. Sound(p) /\ p.size <= n /\ Contents(p) = Abstract!Seq0(h)
    BY <1>2, NullVal
  <2>2. SwitchTo(h, Relocated(n, p), Unique(h)) /\ Unique(h) \in BOOLEAN
    BY <1>2 DEF SwitchContainer, Unique
  <2> HIDE DEF p
  <2>3. Sound(Relocated(n, p)) /\ Contents(Relocated(n, p)) = Contents(p)
    BY <2>1, RelocatedSound
  <2> QED
    BY <2>1, <2>2, <2>3, SwitchStep
<1> QED
  BY <1>1, <1>2

LEMMA ResizeRefines ==
  ASSUME AInv, NEW h \in Handle, NEW n \in Int, Resize(h, n)
  PROVE  AInv' /\ Abstract!Resize(h, n)
<1> DEFINE c == Abstract!Seq0(h)
<1>1. Size(h) \in Nat /\ c \in Seq(Elem) /\ Len(c) = Size(h)
  BY WritableSound
<1>2. (ref[h] = Null <=> Val[h] = Null) /\ (ref[h] # Null => Val[h] = c)
  BY NullVal
<1>3. CASE n < 0
  <2>1. UNCHANGED vars
    BY <1>1, <1>3 DEF Resize, Fails
  <2> QED
    BY <1>3, <2>1, StutterStep DEF Abstract!Resize, Abstract!Fails, Abstract!vars
<1>4. CASE n >= 0 /\ ref[h] = Null
  <2>1. SwitchContainer(h, n) /\ Done
    BY <1>4 DEF Resize, Fails
  <2>2. AInv' /\ Val' = [Val EXCEPT ![h] = c] /\ Task' = Task
    BY <1>4, <2>1, SwitchContainerRefines
  <2>3. c = <<>>
    BY <1>2, <1>4 DEF Abstract!Seq0
  <2> HIDE DEF c
  <2> QED
    BY <1>2, <1>4, <2>2, <2>3 DEF Abstract!Resize, Abstract!Becomes
<1>5. CASE ref[h] # Null /\ Size(h) < n
  <2> DEFINE d == n - Size(h)
             p == Writable(h, d)
             q == EnlargeBy(p, d)
  <2>1. d \in Nat
    BY <1>1, <1>5
  <2>2. Store(h, d, q) /\ Done
    BY <1>1, <1>5 DEF Resize, Fails
  <2>3. /\ Sound(p) /\ p.size = Size(h) /\ Size(h) + d <= Len(p.mem)
        /\ Contents(p) = c
    BY <2>1, WritableSound
  <2> HIDE DEF p, c
  <2>4. Sound(q) /\ Contents(q) = c \o Replicate(d, None)
    <3> HIDE DEF d
    <3> QED
      BY <2>1, <2>3, EnlargeSound
  <2> HIDE DEF q
  <2>5. AInv' /\ Val' = [Val EXCEPT ![h] = Contents(q)] /\ Task' = Task
    <3> HIDE DEF d
    <3> QED
      BY <2>1, <2>2, <2>4, StoreStep
  <2>6. Val[h] # Null /\ n > Len(Val[h]) /\ n - Len(Val[h]) = d
    BY <1>1, <1>2, <1>5
  <2>7. Abstract!Becomes(h, Val[h] \o Abstract!Replicate(n - Len(Val[h]), None))
    BY <1>2, <1>5, <2>4, <2>5, <2>6 DEF Abstract!Becomes, Abstract!Replicate, Replicate
  <2> QED
    BY <2>5, <2>6, <2>7 DEF Abstract!Resize
<1>6. CASE n >= 0 /\ ref[h] # Null /\ Size(h) > n
  <2> DEFINE p == Writable(h, 0)
             q == ShrinkBy(p, Size(h) - n)
  <2>1. Size(h) - n \in Nat /\ Size(h) - n <= Size(h) /\ Size(h) - (Size(h) - n) = n
    BY <1>1, <1>6
  <2>2. Store(h, 0, q) /\ Done
    BY <1>1, <1>6 DEF Resize, Fails
  <2>3. Sound(p) /\ p.size = Size(h) /\ Contents(p) = c
    BY WritableSound
  <2> HIDE DEF p, c
  <2>4. Sound(q) /\ Contents(q) = SubSeq(c, 1, n)
    BY <2>1, <2>3, ShrinkSound
  <2> HIDE DEF q
  <2>5. AInv' /\ Val' = [Val EXCEPT ![h] = Contents(q)] /\ Task' = Task
    BY <2>2, <2>4, StoreStep
  <2>6. Val[h] # Null /\ n <= Len(Val[h])
    BY <1>1, <1>2, <1>6
  <2> QED
    BY <1>6, <2>4, <2>5, <2>6 DEF Abstract!Resize, Abstract!Becomes, Abstract!Before, c
<1>7. CASE ref[h] # Null /\ Size(h) = n
  <2>1. UNCHANGED vars
    BY <1>1, <1>7 DEF Resize, Fails, Done, vars
  <2>2. AInv' /\ Val' = Val /\ Task' = Task
    BY <2>1, StutterStep
  <2>3. SubSeq(c, 1, n) = c
    BY <1>1, <1>7, SubSeqFull
  <2>4. Val[h] # Null /\ n <= Len(Val[h]) /\ n >= 0
    BY <1>1, <1>2, <1>7
  <2>5. Val' = [Val EXCEPT ![h] = SubSeq(c, 1, n)]
    BY <1>2, <1>7, <2>2, <2>3, KeepsVal
  <2> QED
    BY <2>2, <2>4, <2>5 DEF Abstract!Resize, Abstract!Becomes, Abstract!Before
<1> QED
  BY <1>1, <1>3, <1>4, <1>5, <1>6, <1>7

LEMMA ReserveRefines ==
  ASSUME AInv, NEW h \in Handle, NEW n \in Int, Reserve(h, n)
  PROVE  AInv' /\ Abstract!Reserve(h)
<1>1. CASE ref[h] = Null \/ n > Len(heap[ref[h]].mem)
  <2>1. SwitchContainer(h, n) /\ Done /\ n \in Nat
    <3>1. SwitchContainer(h, n) /\ Done /\ (ref[h] = Null => n >= 0)
      BY <1>1 DEF Reserve
    <3>2. CASE ref[h] = Null
      BY <3>1, <3>2
    <3>3. CASE ref[h] # Null
      <4>1. Sound(heap[ref[h]])
        BY <3>3, NullVal
      <4>2. Len(heap[ref[h]].mem) \in Nat
        BY <4>1, SlotsOf
      <4> QED
        BY <1>1, <3>1, <3>3, <4>2
    <3> QED
      BY <3>2, <3>3
  <2>2. ref[h] # Null => Size(h) <= n
    <3> SUFFICES ASSUME ref[h] # Null PROVE Size(h) <= n
      OBVIOUS
    <3>1. Sound(heap[ref[h]]) /\ Size(h) = heap[ref[h]].size
      BY NullVal
    <3> DEFINE k == Len(heap[ref[h]].mem)
    <3>2. k \in Nat /\ Size(h) \in Nat /\ Size(h) <= k
      BY <3>1, SlotsOf
    <3>3. n > k
      BY <1>1
    <3> HIDE DEF k
    <3> QED
      BY <3>2, <3>3
  <2>3. AInv' /\ Val' = [Val EXCEPT ![h] = Abstract!Seq0(h)] /\ Task' = Task
    BY <2>1, <2>2, SwitchContainerRefines
  <2> QED
    BY <2>3 DEF Abstract!Reserve, Abstract!Becomes
<1>2. CASE ~(ref[h] = Null \/ n > Len(heap[ref[h]].mem))
  <2>1. UNCHANGED vars
    BY <1>2 DEF Reserve, Done, vars
  <2> QED
    BY <1>2, <2>1, StutterStep, KeepsVal, NullVal DEF Abstract!Reserve, Abstract!Becomes
<1> QED
  BY <1>1, <1>2

LEMMA ClearRefines ==
  ASSUME AInv, NEW h \in Handle, Clear(h)
  PROVE  AInv' /\ Abstract!Clear(h)
<1>1. CASE ref[h] = Null
  <2>1. UNCHANGED vars
    BY <1>1 DEF Clear, Done, vars
  <2> QED
    BY <1>1, <2>1, StutterStep, KeepsVal, NullVal DEF Abstract!Clear, Abstract!Becomes
<1>2. CASE ref[h] # Null
  <2> DEFINE p == Writable(h, 0)
             q == ShrinkBy(p, Size(h))
             c == Abstract!Seq0(h)
  <2>1. /\ Sound(p) /\ p.size = Size(h) /\ Size(h) \in Nat /\ Size(h) <= p.size
        /\ Contents(p) = c
    BY WritableSound
  <2>2. Store(h, 0, q) /\ Done
    BY <1>2 DEF Clear
  <2> HIDE DEF p, c
  <2>3. Sound(q) /\ Contents(q) = SubSeq(c, 1, p.size - Size(h))
    BY <2>1, ShrinkSound
  <2>4. SubSeq(c, 1, p.size - Size(h)) = <<>>
    BY <2>1, SubSeqEmpty
  <2> HIDE DEF q
  <2>5. AInv' /\ Val' = [Val EXCEPT ![h] = Contents(q)] /\ Task' = Task
    BY <2>2, <2>3, StoreStep
  <2> QED
    BY <1>2, <2>3, <2>4, <2>5, NullVal DEF Abstract!Clear, Abstract!Becomes
<1> QED
  BY <1>1, <1>2

LEMMA SetItemRefines ==
  ASSUME AInv, NEW h \in Handle, NEW i \in Int, NEW x \in Value, SetItem(h, i, x)
  PROVE  AInv' /\ Abstract!SetItem(h, i, x)
<1> DEFINE p == Writable(h, 0)
           c == Abstract!Seq0(h)
<1>1. /\ Sound(p) /\ p.size = Size(h) /\ Size(h) \in Nat
      /\ Contents(p) = c /\ Len(c) = Size(h) /\ c \in Seq(Elem)
  BY WritableSound
<1>2. CASE i \in 0 .. Size(h) - 1
  <2> DEFINE q == StoreItem(p, i, x)
  <2>1. Store(h, 0, q) /\ Done
    BY <1>2 DEF SetItem
  <2> HIDE DEF p, c
  <2>2. Sound(q) /\ Contents(q) = [c EXCEPT ![i + 1] = x]
    BY <1>1, <1>2, StoredSound DEF Elem
  <2> HIDE DEF q
  <2>3. AInv' /\ Val' = [Val EXCEPT ![h] = Contents(q)] /\ Task' = Task
    BY <2>1, <2>2, StoreStep
  <2>4. ref[h] # Null
    BY <1>2, <1>1 DEF Size
  <2>5. Val[h] = c
    BY <2>4, NullVal DEF c
  <2> QED
    BY <1>1, <1>2, <2>2, <2>3, <2>5 DEF Abstract!SetItem, Abstract!Becomes, c
<1>3. CASE i \notin 0 .. Size(h) - 1
  <2>1. Store(h, 0, p) /\ Done
    BY <1>3 DEF SetItem
  <2> HIDE DEF p, c
  <2>2. AInv' /\ Val' = [Val EXCEPT ![h] = c] /\ Task' = Task
    BY <1>1, <2>1, StoreStep
  <2> QED
    BY <1>1, <1>3, <2>2 DEF Abstract!SetItem, Abstract!Becomes, c
<1> QED
  BY <1>2, <1>3

LEMMA CastRefines ==
  ASSUME AInv, NEW h \in Handle, NEW g \in Handle, NEW T \in Types, Cast(h, g, T)
  PROVE  AInv' /\ Abstract!Cast(h, g, T)
<1> DEFINE s == Contents(heap[ref[g]])
           converted == [i \in 1 .. Len(s) |-> T.conv[s[i]]]
<1>1. ref[g] # Null /\ Sound(heap[ref[g]]) /\ Val[g] = s /\ Val[g] # Null
  BY NullVal DEF Cast
<1>2. s \in Seq(Elem) /\ Len(s) \in Nat
  BY <1>1, SlotsOf
<1>3. /\ T.conv \in [Elem -> Elem \union {NoConv}] /\ NoConv \notin Elem
      /\ \A x \in T.strict : T.conv[x] = x
  BY ArrayAssumption
<1>4. Abstract!Cast(h, g, T) <=>
        IF \E i \in DOMAIN s : T.conv[s[i]] = NoConv THEN Abstract!Fails
        ELSE Abstract!Becomes(h, converted)
  <2>1. DOMAIN s = 1 .. Len(s)
    BY <1>2
  <2> HIDE DEF s
  <2> QED
    BY <1>1, <2>1 DEF Abstract!Cast
<1> HIDE DEF s
<1>5. CASE (\A i \in DOMAIN s : s[i] \in T.strict) /\ Point([ref EXCEPT ![h] = ref[g]]) /\ Done
  <2>1. AInv' /\ Val' = [Val EXCEPT ![h] = s] /\ Task' = Task
    BY <1>1, <1>5, ShareStep
  <2>2. \A i \in 1 .. Len(s) : s[i] \in Elem /\ T.conv[s[i]] = s[i]
    BY <1>2, <1>3, <1>5
  <2>3. converted = s
    BY <1>2, <2>2
  <2> HIDE DEF converted
  <2>4. ~\E i \in DOMAIN s : T.conv[s[i]] = NoConv
    BY <1>2, <1>3, <2>2
  <2> QED
    BY <1>4, <2>1, <2>3, <2>4 DEF Abstract!Becomes
<1>6. CASE (\E i \in DOMAIN s : T.conv[s[i]] = NoConv) /\ Fails
  BY <1>4, <1>6, StutterStep DEF Fails, Abstract!Fails, Abstract!vars
<1>7. CASE /\ \A i \in DOMAIN s : T.conv[s[i]] # NoConv
           /\ SwitchTo(h, FromRange(Larger(KInitSize, Len(s)), converted), FALSE) /\ Done
  <2>1. \A i \in 1 .. Len(s) : T.conv[s[i]] \in Elem
    BY <1>2, <1>3, <1>7
  <2>2. converted \in [1 .. Len(s) -> Elem]
    BY <2>1
  <2>3. converted \in Seq(Elem) /\ Len(converted) = Len(s)
    <3> HIDE DEF converted
    <3> QED
      BY <1>2, <2>2, SeqOfFcn
  <2> HIDE DEF converted
  <2> DEFINE cap == Larger(KInitSize, Len(s))
  <2>4. cap \in Nat /\ Len(converted) <= cap
    BY <1>2, <2>3 DEF Larger, KInitSize
  <2> HIDE DEF cap
  <2>5. Sound(FromRange(cap, converted)) /\ Contents(FromRange(cap, converted)) = converted
    BY <2>3, <2>4, FromRangeSound
  <2>6. AInv' /\ Val' = [Val EXCEPT ![h] = converted] /\ Task' = Task
    BY <1>7, <2>5, SwitchStep DEF cap
  <2> QED
    BY <1>4, <1>7, <2>6 DEF Abstract!Becomes
<1> QED
  BY <1>5, <1>6, <1>7 DEF Cast, s

-----------------------------------------------------------------------------
(* The loop of MapHelper. *)

\* What is still to do, when it starts and when the loop gets on.
LEMMA RestAt ==
  ASSUME NEW m \in Seq(Slot), NEW k \in Nat \ {0}, NEW n \in Nat, n <= Len(m)
  PROVE  SubSeq(m, k, n) = IF k > n THEN <<>> ELSE <<m[k]>> \o SubSeq(m, k + 1, n)
<1>1. CASE k > n
  BY <1>1, SubSeqEmpty
<1>2. CASE k <= n
  <2> DEFINE u == <<m[k]>>
             v == SubSeq(m, k + 1, n)
             w == SubSeq(m, k, n)
  <2>1. m[k] \in Slot /\ \A j \in 1 .. n : m[j] \in Slot
    BY <1>2
  <2>2. u \in Seq(Slot) /\ Len(u) = 1 /\ u[1] = m[k]
    BY <2>1
  <2>3. /\ v \in Seq(Slot) /\ Len(v) = n - k
        /\ \A j \in 1 .. n - k : v[j] = m[k + j]
    <3>1. \A j \in k + 1 .. n : m[j] \in Slot
      BY <2>1
    <3>2. /\ v \in Seq(Slot) /\ Len(v) = IF k + 1 <= n THEN n - (k + 1) + 1 ELSE 0
          /\ \A j \in 1 .. n - (k + 1) + 1 : v[j] = m[k + 1 + j - 1]
      BY <3>1, SubSeqProperties
    <3> HIDE DEF v
    <3> QED
      BY <1>2, <3>2
  <2>4. /\ w \in Seq(Slot) /\ Len(w) = n - k + 1
        /\ \A j \in 1 .. n - k + 1 : w[j] = m[k + j - 1]
    <3>1. \A j \in k .. n : m[j] \in Slot
      BY <2>1
    <3>2. /\ w \in Seq(Slot) /\ Len(w) = IF k <= n THEN n - k + 1 ELSE 0
          /\ \A j \in 1 .. n - k + 1 : w[j] = m[k + j - 1]
      BY <3>1, SubSeqProperties
    <3> HIDE DEF w
    <3> QED
      BY <1>2, <3>2
  <2> HIDE DEF u, v, w
  <2>5. /\ u \o v \in Seq(Slot) /\ Len(u \o v) = n - k + 1
        /\ \A j \in 1 .. n - k + 1 : (u \o v)[j] = IF j <= 1 THEN u[j] ELSE v[j - 1]
    <3>1. /\ u \o v \in Seq(Slot) /\ Len(u \o v) = Len(u) + Len(v)
          /\ \A j \in 1 .. Len(u) + Len(v) : (u \o v)[j] = IF j <= Len(u) THEN u[j] ELSE v[j - Len(u)]
      BY <2>2, <2>3, ConcatProperties
    <3> QED
      BY <1>2, <2>2, <2>3, <3>1
  <2>6. ASSUME NEW j \in 1 .. n - k + 1 PROVE (u \o v)[j] = w[j]
    <3>1. CASE j <= 1
      <4>1. j = 1 /\ k + j - 1 = k
        BY <3>1
      <4> QED
        BY <2>2, <2>4, <2>5, <4>1
    <3>2. CASE j > 1
      <4>1. j - 1 \in 1 .. n - k /\ k + (j - 1) = k + j - 1 /\ ~(j <= 1)
        BY <1>2, <3>2
      <4> QED
        BY <2>3, <2>4, <2>5, <4>1
    <3>3. j <= 1 \/ j > 1
      OBVIOUS
    <3> QED
      BY <3>1, <3>2, <3>3
  <2>7. u \o v = w
    BY <2>4, <2>5, <2>6, SeqEqual
  <2> QED
    BY <1>2, <2>7 DEF u, v, w
<1> QED
  BY <1>1, <1>2

LEMMA SameRest ==
  ASSUME NEW m \in Seq(Slot), NEW w \in Seq(Slot), NEW k \in Nat \ {0}, NEW n \in Nat,
         n <= Len(m), n <= Len(w), \A j \in k .. n : w[j] = m[j]
  PROVE  SubSeq(w, k, n) = SubSeq(m, k, n)
<1> DEFINE a == SubSeq(m, k, n)
           b == SubSeq(w, k, n)
<1>1. \A j \in k .. n : m[j] \in Slot /\ w[j] \in Slot
  OBVIOUS
<1>2. /\ a \in Seq(Slot) /\ Len(a) = IF k <= n THEN n - k + 1 ELSE 0
      /\ \A j \in 1 .. n - k + 1 : a[j] = m[k + j - 1]
  BY <1>1, SubSeqProperties
<1>3. /\ b \in Seq(Slot) /\ Len(b) = IF k <= n THEN n - k + 1 ELSE 0
      /\ \A j \in 1 .. n - k + 1 : b[j] = w[k + j - 1]
  BY <1>1, SubSeqProperties
<1> HIDE DEF a, b
<1>4. ASSUME NEW j \in 1 .. Len(a) PROVE a[j] = b[j]
  <2>1. j \in 1 .. n - k + 1 /\ k + j - 1 \in k .. n
    BY <1>2
  <2> QED
    BY <1>2, <1>3, <2>1
<1>5. a = b
  BY <1>2, <1>3, <1>4, SeqEqual
<1> QED
  BY <1>5 DEF a, b

\* What is done grows by the element that was just stored.
LEMMA DoneAt ==
  ASSUME NEW m \in Seq(Slot), NEW w \in Seq(Slot), NEW k \in Nat \ {0},
         k <= Len(m), k <= Len(w), \A j \in 1 .. k - 1 : w[j] = m[j]
  PROVE  SubSeq(w, 1, k) = Append(SubSeq(m, 1, k - 1), w[k])
<1> DEFINE a == SubSeq(w, 1, k)
           b == SubSeq(m, 1, k - 1)
           c == Append(b, w[k])
<1>1. w[k] \in Slot /\ \A j \in 1 .. k : w[j] \in Slot /\ m[j] \in Slot
  OBVIOUS
<1>2. a \in Seq(Slot) /\ Len(a) = k /\ \A j \in 1 .. k : a[j] = w[j]
  BY <1>1, SubSeqProperties
<1>3. b \in Seq(Slot) /\ Len(b) = k - 1 /\ \A j \in 1 .. k - 1 : b[j] = m[j]
  BY <1>1, SubSeqProperties
<1> HIDE DEF a, b
<1>4. /\ c \in Seq(Slot) /\ Len(c) = k
      /\ \A j \in 1 .. k : c[j] = IF j = k THEN w[k] ELSE b[j]
  BY <1>1, <1>3
<1> HIDE DEF c
<1>5. ASSUME NEW j \in 1 .. k PROVE a[j] = c[j]
  <2>1. j = k \/ j \in 1 .. k - 1
    OBVIOUS
  <2>2. a[j] = w[j] /\ c[j] = IF j = k THEN w[k] ELSE b[j]
    BY <1>2, <1>4
  <2>3. CASE j = k
    BY <2>2, <2>3
  <2>4. CASE j \in 1 .. k - 1
    <3>1. b[j] = m[j] /\ w[j] = m[j] /\ j # k
      BY <1>3, <2>4
    <3> QED
      BY <2>2, <3>1
  <2> QED
    BY <2>1, <2>3, <2>4
<1>6. a = c
  BY <1>2, <1>4, <1>5, SeqEqual
<1> QED
  BY <1>6 DEF a, b, c

JobShape ==
  /\ job.pos \in Nat \ {0} /\ job.dst \in Handle /\ job.arg \in Elem
  /\ job.path \in {"in place", "identical", "copy"}
  /\ ref[Data] \in Block /\ Sound(heap[ref[Data]]) /\ Sound(Mapped)
  /\ Size(Data) = heap[ref[Data]].size /\ Mapped.size = Size(Data)
  /\ Size(Data) \in Nat /\ job.pos <= Size(Data) + 1

LEMMA JobFacts == AInv /\ job # Null => JobShape
<1> SUFFICES ASSUME AInv, job # Null PROVE JobShape
  OBVIOUS
<1>1. /\ job \in [pos : Nat \ {0}, dst : Handle,
                  path : {"in place", "identical", "copy"}, arg : Elem]
      /\ ref[Data] # Null /\ job.pos <= heap[ref[Data]].size + 1
      /\ job.path = "copy" =>
           ref[Output] # Null /\ heap[ref[Output]].size = heap[ref[Data]].size
  BY DEF AInv, JobInv, Job
<1>2. ref[Data] \in Block /\ Sound(heap[ref[Data]])
  BY <1>1, RootType DEF AInv, HeapInv
<1>3. Sound(Mapped) /\ Mapped.size = heap[ref[Data]].size
  BY <1>1, <1>2, RootType DEF AInv, HeapInv, Mapped
<1>4. heap[ref[Data]].size \in Nat
  BY <1>2, SlotsOf
<1>5. Size(Data) = heap[ref[Data]].size
  BY <1>1 DEF Size
<1>6. job.pos \in Nat \ {0} /\ job.dst \in Handle /\ job.arg \in Elem
      /\ job.path \in {"in place", "identical", "copy"}
  BY <1>1
<1> QED
  BY <1>1, <1>2, <1>3, <1>4, <1>5, <1>6 DEF JobShape

LEMMA TailOf ==
  ASSUME NEW a \in Slot, NEW s \in Seq(Slot)
  PROVE  <<a>> \o s # <<>> /\ Tail(<<a>> \o s) = s
<1> DEFINE u == <<a>> \o s
<1>1. <<a>> \in Seq(Slot) /\ Len(<<a>>) = 1
  OBVIOUS
<1>2. /\ u \in Seq(Slot) /\ Len(u) = 1 + Len(s)
      /\ \A j \in 1 .. 1 + Len(s) : u[j] = IF j <= 1 THEN <<a>>[j] ELSE s[j - 1]
  BY <1>1, ConcatProperties
<1> HIDE DEF u
<1>3. u # <<>>
  BY <1>2
<1>4. /\ Tail(u) \in Seq(Slot) /\ Len(Tail(u)) = Len(s)
      /\ \A j \in 1 .. Len(s) : Tail(u)[j] = u[j + 1]
  BY <1>2, <1>3, HeadTailProperties
<1>5. ASSUME NEW j \in 1 .. Len(s) PROVE Tail(u)[j] = s[j]
  <2>1. j + 1 \in 1 .. 1 + Len(s) /\ ~(j + 1 <= 1) /\ j + 1 - 1 = j
    OBVIOUS
  <2> QED
    BY <1>2, <1>4, <2>1
<1>6. Tail(u) = s
  BY <1>4, <1>5, SeqEqual
<1> QED
  BY <1>3, <1>6 DEF u

LEMMA TaskType ==
  ASSUME AInv, job # Null
  PROVE  Task # Null
<1> DEFINE n == Size(Data)
           m == heap[ref[Data]].mem
           w == Mapped.mem
<1>1. JobShape
  BY JobFacts
<1>2. m \in Seq(Slot) /\ n <= Len(m) /\ n \in Nat /\ job.pos \in Nat \ {0} /\ job.arg \in Slot
  BY <1>1 DEF JobShape, Sound, ArrayObj, Slot
<1>3. w \in Seq(Slot) /\ n <= Len(w) /\ Len(w) \in Nat
  <2>1. Sound(Mapped) /\ Mapped.size = n
    BY <1>1 DEF JobShape
  <2> HIDE DEF n
  <2> QED
    BY <2>1 DEF Sound, ArrayObj
<1>4. job.pos - 1 <= n /\ job.pos - 1 <= Len(w)
  <2>1. job.pos <= n + 1
    BY <1>1 DEF JobShape
  <2> HIDE DEF n, w
  <2> QED
    BY <1>2, <1>3, <2>1
<1> HIDE DEF n, m, w
<1>5. SubSeq(w, 1, job.pos - 1) \in Seq(Slot)
  <2>1. \A j \in 1 .. job.pos - 1 : w[j] \in Slot
    BY <1>2, <1>3, <1>4
  <2> QED
    BY <1>2, <2>1, SubSeqProperties
<1>6. SubSeq(m, job.pos + 1, n) \in Seq(Slot)
  <2>1. \A j \in job.pos + 1 .. n : m[j] \in Slot
    BY <1>2
  <2> QED
    BY <1>2, <2>1, SubSeqProperties
<1>7. <<job.arg>> \o SubSeq(m, job.pos + 1, n) \in Seq(Slot)
  BY <1>2, <1>6
<1>8. Task = [dst |-> job.dst, done |-> SubSeq(w, 1, job.pos - 1),
              todo |-> IF job.pos > n THEN <<>> ELSE <<job.arg>> \o SubSeq(m, job.pos + 1, n)]
  BY DEF Task, m, n, w
<1>9. job.dst \in Handle
  BY <1>1 DEF JobShape
<1>10. Task \in [dst : Handle, done : Seq(Slot), todo : Seq(Slot)]
  BY <1>5, <1>7, <1>8, <1>9
<1> QED
  BY <1>10, ArrayAssumption

\* The loop has stored x and got to the next element.
LEMMA MappedStep ==
  ASSUME AInv, Returning, NEW x \in Elem, AInv', Val' = Val, job' # Null,
         job'.pos = job.pos + 1, job'.dst = job.dst,
         Size(Data)' = Size(Data),
         job.pos < Size(Data) => job'.arg = heap[ref[Data]].mem[job.pos + 1],
         \A j \in job.pos + 2 .. Size(Data) :
           heap'[ref'[Data]].mem[j] = heap[ref[Data]].mem[j],
         \A j \in 1 .. job.pos - 1 : Mapped'.mem[j] = Mapped.mem[j],
         Mapped'.mem[job.pos] = x
  PROVE  Abstract!Mapped(x)
<1> DEFINE k == job.pos
           n == Size(Data)
           m == heap[ref[Data]].mem
           m2 == heap'[ref'[Data]].mem
           w == Mapped.mem
           w2 == Mapped'.mem
           todo == <<job.arg>> \o SubSeq(m, k + 1, n)
           rest == SubSeq(m, k + 1, n)
<1>1. /\ k \in Nat \ {0} /\ n \in Nat /\ k <= n /\ job.arg \in Elem
      /\ m \in Seq(Slot) /\ n <= Len(m) /\ w \in Seq(Slot) /\ k <= Len(w)
  <2>1. job # Null /\ k <= n
    BY DEF Returning
  <2>2. Sound(heap[ref[Data]]) /\ n = heap[ref[Data]].size /\ Sound(Mapped) /\ Mapped.size = n
        /\ k \in Nat \ {0} /\ n \in Nat /\ job.arg \in Elem
    BY <2>1, JobFacts DEF JobShape
  <2>3. m \in Seq(Slot) /\ n <= Len(m)
    BY <2>2 DEF Sound, ArrayObj, Slot
  <2>4. w \in Seq(Slot) /\ n <= Len(w) /\ Len(w) \in Nat
    <3> HIDE DEF n
    <3> QED
      BY <2>2 DEF Sound, ArrayObj, Slot
  <2> HIDE DEF k, n, w
  <2> QED
    BY <2>1, <2>2, <2>3, <2>4
<1>2. m2 \in Seq(Slot) /\ n <= Len(m2) /\ w2 \in Seq(Slot) /\ k <= Len(w2)
  <2>1. /\ Sound(heap[ref[Data]])' /\ Sound(Mapped)'
        /\ Size(Data)' = heap'[ref'[Data]].size /\ Mapped'.size = Size(Data)'
    <3>0. AInv' /\ (job # Null)'
      OBVIOUS
    <3>1. JobShape'
      BY <3>0, JobFacts, PTL
    <3> QED
      BY <3>1 DEF JobShape
  <2>2. m2 \in Seq(Slot) /\ n <= Len(m2)
    BY <2>1 DEF Sound, ArrayObj, Slot
  <2>3. w2 \in Seq(Slot) /\ n <= Len(w2) /\ Len(w2) \in Nat
    <3> HIDE DEF n
    <3> QED
      BY <2>1 DEF Sound, ArrayObj, Slot, n
  <2> HIDE DEF k, n, w2
  <2> QED
    BY <1>1, <2>2, <2>3
<1>3. Task = [dst |-> job.dst, done |-> SubSeq(w, 1, k - 1), todo |-> todo]
  <2>1. job # Null /\ ~(k > n)
    BY <1>1 DEF Returning
  <2> QED
    BY <2>1 DEF Task
<1>4. Task' = [dst |-> job.dst, done |-> SubSeq(w2, 1, k),
               todo |-> IF k + 1 > n THEN <<>>
                        ELSE <<m[k + 1]>> \o SubSeq(m2, k + 2, n)]
  <2>1. job'.pos - 1 = k /\ job'.pos = k + 1 /\ job'.pos + 1 = k + 2
    BY <1>1
  <2>2. Task' = [dst |-> job'.dst, done |-> SubSeq(w2, 1, job'.pos - 1),
                 todo |-> IF job'.pos > Size(Data)' THEN <<>>
                          ELSE <<job'.arg>> \o SubSeq(m2, job'.pos + 1, Size(Data)')]
    BY DEF Task
  <2>3. ~(k + 1 > n) => job'.arg = m[k + 1]
    BY <1>1
  <2> HIDE DEF k, n, m, m2, w2
  <2>4. job'.dst = job.dst /\ Size(Data)' = n
    BY DEF n
  <2> QED
    BY <2>1, <2>2, <2>3, <2>4
<1>5. SubSeq(w2, 1, k) = Append(SubSeq(w, 1, k - 1), x)
  <2>1. (\A j \in 1 .. k - 1 : w2[j] = w[j]) /\ w2[k] = x
    OBVIOUS
  <2> HIDE DEF k, w, w2
  <2> QED
    BY <1>1, <1>2, <2>1, DoneAt
<1>6. todo # <<>> /\ Tail(todo) = rest
  <2>1. <<job.arg>> \in Seq(Slot) /\ Len(<<job.arg>>) = 1
    BY <1>1 DEF Slot
  <2>2. \A j \in k + 1 .. n : m[j] \in Slot
    <3> HIDE DEF m, k, n
    <3> QED
      BY <1>1
  <2>3. rest \in Seq(Slot)
    <3> HIDE DEF m, k, n
    <3> QED
      BY <1>1, <2>2, SubSeqProperties
  <2> HIDE DEF rest
  <2>4. todo = <<job.arg>> \o rest
    BY DEF rest
  <2>5. job.arg \in Slot
    BY <1>1 DEF Slot
  <2> QED
    BY <2>3, <2>4, <2>5, TailOf
<1>7. rest = IF k + 1 > n THEN <<>> ELSE <<m[k + 1]>> \o SubSeq(m2, k + 2, n)
  <2>1. rest = IF k + 1 > n THEN <<>> ELSE <<m[k + 1]>> \o SubSeq(m, k + 2, n)
    <3>1. k + 1 \in Nat \ {0} /\ (k + 1) + 1 = k + 2
      BY <1>1
    <3> HIDE DEF m, k, n
    <3> QED
      BY <1>1, <3>1, RestAt DEF rest
  <2>2. SubSeq(m2, k + 2, n) = SubSeq(m, k + 2, n)
    <3>1. k + 2 \in Nat \ {0} /\ n <= Len(m) /\ n <= Len(m2)
      BY <1>1, <1>2
    <3>2. \A j \in k + 2 .. n : m2[j] = m[j]
      OBVIOUS
    <3> DEFINE i == k + 2
    <3> HIDE DEF m, m2, n, i
    <3> QED
      BY <1>1, <1>2, <3>1, <3>2, SameRest DEF i
  <2> QED
    BY <2>1, <2>2
<1> HIDE DEF k, n, m, m2, w, w2, todo, rest
<1>8. /\ Task # Null /\ Task.todo # <<>>
      /\ Task' = [dst |-> Task.dst, done |-> Append(Task.done, x), todo |-> Tail(Task.todo)]
  <2>1. Task' = [dst |-> job.dst, done |-> Append(SubSeq(w, 1, k - 1), x), todo |-> Tail(todo)]
    BY <1>4, <1>5, <1>6, <1>7
  <2>2. Task # Null
    BY TaskType DEF Returning
  <2>3. Task.dst = job.dst /\ Task.todo = todo /\ Task.done = SubSeq(w, 1, k - 1)
    BY <1>3
  <2> QED
    BY <1>6, <2>1, <2>2, <2>3
<1> QED
  BY <1>8 DEF Abstract!Mapped

LEMMA PositionBounds ==
  ASSUME NEW k \in Nat \ {0}, NEW n \in Nat, k <= n
  PROVE  /\ k + 1 \in Nat \ {0} /\ k \in 1 .. n /\ k + 1 <= n + 1 /\ (k < n <=> k + 1 <= n)
         /\ k + 1 <= n => k + 1 \in 1 .. n
         /\ k - 1 \in Nat /\ k - 1 < n /\ k - 1 + 1 = k /\ k # k + 1
         /\ k < n => k + 1 \in 1 .. n
         /\ \A j \in k + 2 .. n : j \in 1 .. n /\ j # k /\ j # k + 1
         /\ \A j \in 1 .. k - 1 : j \in 1 .. n /\ j # k /\ j # k + 1
OBVIOUS

LEMMA PositionWithin ==
  ASSUME NEW k \in Nat, NEW n \in Nat, NEW l \in Nat, k <= n, n <= l
  PROVE  k <= l
OBVIOUS

\* The locals of MapHelper at the next element of Data's block, which is sound in objs.
LEMMA NextElement ==
  ASSUME AInv, Returning, NEW objs, NEW path \in {"in place", "identical", "copy"},
         Sound(objs[ref[Data]]), objs[ref[Data]].size = Size(Data),
         AtElement(objs, ref[Data], job.pos + 1, job.dst, path)
  PROVE  /\ job' \in Job /\ job' # Null /\ job'.pos = job.pos + 1 /\ job'.dst = job.dst
         /\ job'.path = path /\ job'.pos <= Size(Data) + 1
         /\ job.pos < Size(Data) => job'.arg = objs[ref[Data]].mem[job.pos + 1]
         /\ job.pos \in 1 .. Size(Data) /\ Size(Data) \in Nat
<1> DEFINE p == objs[ref[Data]]
           n == Size(Data)
           k == job.pos
           a == IF k + 1 <= p.size THEN p.mem[k + 1] ELSE None
<1>1. JobShape /\ k <= n
  BY JobFacts DEF Returning
<1>2. n \in Nat /\ k \in Nat \ {0} /\ job.dst \in Handle
  BY <1>1 DEF JobShape
<1>3. (\A j \in 1 .. n : p.mem[j] \in Elem) /\ p.size = n
  BY ContentsOf
<1>4. job' = [pos |-> k + 1, dst |-> job.dst, path |-> path, arg |-> a]
  BY DEF AtElement
<1> HIDE DEF p, n, k
<1>5. k + 1 \in Nat \ {0} /\ k \in 1 .. n /\ k + 1 <= n + 1 /\ (k < n <=> k + 1 <= n)
  BY <1>1, <1>2, PositionBounds
<1>6. k + 1 <= n => k + 1 \in 1 .. n
  BY <1>1, <1>2, PositionBounds
<1>7. a \in Elem /\ (k < n => a = p.mem[k + 1])
  BY <1>3, <1>5, <1>6 DEF Elem
<1> HIDE DEF a
<1>8. job' \in Job
  BY <1>2, <1>4, <1>5, <1>7 DEF Job
<1>9. job' # Null
  BY <1>8, ArrayAssumption
<1>10. job'.pos = k + 1 /\ job'.dst = job.dst /\ job'.path = path /\ job'.arg = a
  BY <1>4
<1> QED
  BY <1>2, <1>5, <1>7, <1>8, <1>9, <1>10 DEF p, n, k

LEMMA ReturnSameRefines ==
  ASSUME AInv, NEW x \in Elem, ReturnSame(x)
  PROVE  AInv' /\ Abstract!Mapped(x)
<1> DEFINE d == heap[ref[Data]]
           k == job.pos
<1>1. /\ Returning /\ job.path = "identical" /\ x = job.arg /\ UNCHANGED ref
      /\ AtElement(heap, ref[Data], k + 1, job.dst, "identical")
  BY DEF ReturnSame
<1>2. JobShape
  BY <1>1, JobFacts DEF Returning
<1>3. /\ job' \in Job /\ job' # Null /\ job'.pos = k + 1 /\ job'.dst = job.dst
      /\ job'.path = "identical" /\ job'.pos <= Size(Data) + 1
      /\ k < Size(Data) => job'.arg = d.mem[k + 1]
      /\ k \in 1 .. Size(Data) /\ Size(Data) \in Nat
  BY <1>1, <1>2, NextElement DEF JobShape
<1>4. UNCHANGED <<ref, heap>>
  BY <1>1 DEF AtElement
<1>5. HeapInv' /\ Val' = Val /\ Size(Data)' = Size(Data)
  BY <1>4 DEF AInv, HeapInv, Val, Size
<1>6. AInv'
  <2>1. ref[Data] # Null /\ ref[Output] = Null
    BY <1>1 DEF AInv, JobInv, Returning
  <2>2. d.size = Size(Data)
    BY <1>2 DEF JobShape
  <2>3. job'.pos <= heap'[ref'[Data]].size => job'.arg = heap'[ref'[Data]].mem[job'.pos]
    BY <1>3, <1>4, <2>2
  <2> QED
    BY <1>3, <1>4, <1>5, <2>1, <2>2, <2>3 DEF AInv, JobInv
<1>7. Mapped = d /\ Mapped' = d
  BY <1>1, <1>3, <1>4 DEF Mapped
<1>8. d.mem[k] = x
  <2>1. d.size = Size(Data)
    BY <1>2 DEF JobShape
  <2>2. k <= d.size
    BY <1>1, <2>1 DEF Returning
  <2> QED
    BY <1>1, <2>2 DEF AInv, JobInv, Returning
<1> QED
  BY <1>1, <1>3, <1>4, <1>5, <1>6, <1>7, <1>8, MappedStep

LEMMA ReturnOtherRefines ==
  ASSUME AInv, NEW x \in Elem, ReturnOther(x)
  PROVE  AInv' /\ Abstract!Mapped(x)
<1> DEFINE d == heap[ref[Data]]
           k == job.pos
           n == Size(Data)
           e == FromRange(d.size, Replicate(d.size, None))
           f == InitRange(e, 0, SubSeq(d.mem, 1, k - 1))
           q == StoreItem(f, k - 1, x)
<1>1. Returning /\ job.path = "identical"
  BY DEF ReturnOther
<1>2. PICK b \in Block :
        /\ heap[b] = Null
        /\ ref' = [ref EXCEPT ![Output] = b]
        /\ AtElement([heap EXCEPT ![b] = q], ref[Data], k + 1, job.dst, "copy")
  BY DEF ReturnOther
<1>3. JobShape /\ k \in Nat \ {0} /\ n \in Nat /\ k <= n /\ d.size = n
  BY <1>1, JobFacts DEF Returning, JobShape
<1>4. /\ ref[Output] = Null /\ ref[Data] \in Block /\ heap[ref[Data]] # Null
      /\ \A r \in Root : ref[r] # b
  BY <1>1, <1>2, <1>3, RootType, ArrayAssumption DEF AInv, JobInv, HeapInv, Returning, JobShape
<1>5. /\ Sound(d) /\ d.mem \in [1 .. Len(d.mem) -> Slot] /\ n <= Len(d.mem)
      /\ Len(d.mem) \in Nat /\ d.mem \in Seq(Slot)
      /\ \A j \in 1 .. n : d.mem[j] \in Elem
  <2>1. Sound(d)
    BY <1>3 DEF JobShape
  <2> QED
    BY <1>3, <2>1, ContentsOf DEF Sound, ArrayObj
<1>6. /\ Sound(e) /\ e.size = n /\ Len(e.mem) = n
      /\ \A j \in 1 .. n : e.mem[j] = None
  <2>1. /\ Replicate(n, None) \in Seq(Elem) /\ Len(Replicate(n, None)) = n
        /\ \A j \in 1 .. n : Replicate(n, None)[j] = None
    BY <1>3, ReplicateType DEF Elem
  <2>2. e = FromRange(n, Replicate(n, None))
    BY <1>3
  <2> HIDE DEF n, e
  <2>3. /\ Sound(e) /\ Contents(e) = Replicate(n, None) /\ e.size = n /\ Len(e.mem) = n
    BY <1>3, <2>1, <2>2, FromRangeSound
  <2>4. \A j \in 1 .. n : Contents(e)[j] = e.mem[j]
    BY <2>3, ContentsOf
  <2> QED
    BY <2>1, <2>3, <2>4
<1> HIDE DEF e
<1>7. /\ Sound(f) /\ f.size = n /\ Len(f.mem) = n
      /\ \A j \in 1 .. k - 1 : f.mem[j] = d.mem[j]
  <2> DEFINE s == SubSeq(d.mem, 1, k - 1)
             m == d.mem
  <2>1. m \in Seq(Slot) /\ n <= Len(m) /\ \A j \in 1 .. n : m[j] \in Elem
    BY <1>5
  <2> HIDE DEF m, d, k, n
  <2>2. \A j \in 1 .. k - 1 : m[j] \in Elem
    BY <1>3, <2>1
  <2>3. s = SubSeq(m, 1, k - 1)
    BY DEF m
  <2>4. s \in Seq(Elem) /\ Len(s) = k - 1 /\ \A j \in 1 .. k - 1 : s[j] = m[j]
    BY <1>3, <2>2, <2>3, SubSeqProperties
  <2> HIDE DEF s
  <2>5. 0 + Len(s) <= Len(e.mem) /\ \A j \in 0 + 1 .. 0 + Len(s) : e.mem[j] \in {Raw, None}
    BY <1>3, <1>6, <2>4
  <2>6. /\ f \in ArrayObj /\ f.size = n /\ Len(f.mem) = n
        /\ \A j \in 1 .. n :
             f.mem[j] = IF j \in 0 + 1 .. 0 + Len(s) THEN s[j - 0] ELSE e.mem[j]
    <3>1. f = InitRange(e, 0, s)
      BY DEF s
    <3> HIDE DEF f
    <3> QED
      BY <1>6, <2>4, <2>5, <3>1, InitRangeSlots DEF Sound
  <2> HIDE DEF f
  <2>7. ASSUME NEW j \in 1 .. n PROVE f.mem[j] \in Elem
    <3>1. CASE j <= k - 1
      <4>1. j \in 1 .. k - 1 /\ j \in 0 + 1 .. 0 + Len(s) /\ j - 0 = j
        BY <1>3, <2>4, <3>1
      <4> QED
        BY <2>2, <2>4, <2>6, <4>1
    <3>2. CASE ~(j <= k - 1)
      <4>1. j \notin 0 + 1 .. 0 + Len(s)
        BY <1>3, <2>4, <3>2
      <4> QED
        BY <1>6, <2>6, <4>1 DEF Elem
    <3> QED
      BY <3>1, <3>2
  <2>8. ASSUME NEW j \in 1 .. k - 1 PROVE f.mem[j] = m[j]
    <3>1. j \in 1 .. n /\ j \in 0 + 1 .. 0 + Len(s) /\ j - 0 = j
      BY <1>3, <2>4
    <3> QED
      BY <2>4, <2>6, <3>1
  <2>9. Sound(f)
    <3>1. ASSUME NEW j \in 1 .. n PROVE f.mem[j] # Junk /\ f.mem[j] # Raw /\ ~(j > n)
      BY <1>3, <2>7, ArrayAssumption
    <3> QED
      BY <1>3, <2>6, <3>1 DEF Sound
  <2> QED
    BY <2>6, <2>8, <2>9 DEF m
<1> HIDE DEF f
<1>8. /\ Sound(q) /\ q.size = n /\ Len(q.mem) = n /\ q.mem[k] = x
      /\ \A j \in 1 .. k - 1 : q.mem[j] = d.mem[j]
  <2>1. k - 1 \in Nat /\ k - 1 < f.size
    BY <1>3, <1>7
  <2> DEFINE i == k - 1
  <2>2. /\ Sound(q) /\ q.size = n /\ Len(q.mem) = n
        /\ Contents(q) = [Contents(f) EXCEPT ![i + 1] = x]
    <3> HIDE DEF i
    <3>1. q = StoreItem(f, i, x) /\ i \in Nat /\ i < f.size
      BY <2>1 DEF i
    <3> HIDE DEF q
    <3> QED
      BY <1>7, <3>1, StoredSound
  <2> HIDE DEF q, d
  <2>3. /\ Contents(f) \in Seq(Elem) /\ Len(Contents(f)) = n
        /\ \A j \in 1 .. n : Contents(f)[j] = f.mem[j] /\ Contents(q)[j] = q.mem[j]
    BY <1>7, <2>2, ContentsOf
  <2>4. i + 1 = k
    BY <1>3
  <2> HIDE DEF i, k, n
  <2>5. q.mem[k] = x
    BY <1>3, <2>2, <2>3, <2>4
  <2>6. ASSUME NEW j \in 1 .. k - 1 PROVE q.mem[j] = d.mem[j]
    <3>1. j \in 1 .. n /\ j # k
      BY <1>3
    <3> QED
      BY <1>7, <2>2, <2>3, <2>4, <3>1
  <2> QED
    BY <2>2, <2>5, <2>6
<1> HIDE DEF q
<1>9. /\ heap' = [heap EXCEPT ![b] = q] /\ heap'[b] = q
      /\ \A a \in Block : a # b => heap'[a] = heap[a]
  BY <1>2 DEF AtElement, AInv, HeapInv
<1>10. /\ ref' \in [Root -> Block \union {Null}] /\ ref'[Output] = b
       /\ \A r \in Root : r # Output => ref'[r] = ref[r]
  BY <1>2, RootType DEF AInv, HeapInv
<1>11. \A r \in Root : r # Output /\ ref[r] # Null => heap'[ref[r]] = heap[ref[r]]
  BY <1>4, <1>9 DEF AInv, HeapInv
<1>12. HeapInv'
  <2>1. q # Null /\ q \in ArrayObj
    BY <1>8, ArrayAssumption DEF Sound
  <2>2. heap' \in [Block -> ArrayObj \union {Null}]
    BY <1>9, <2>1 DEF AInv, HeapInv
  <2>3. \A a \in Block : heap'[a] # Null => Sound(heap'[a])
    BY <1>8, <1>9 DEF AInv, HeapInv
  <2>4. \A r \in Root : ref'[r] # Null => heap'[ref'[r]] # Null
    BY <1>9, <1>10, <1>11, <2>1 DEF AInv, HeapInv
  <2> QED
    BY <1>10, <2>2, <2>3, <2>4 DEF HeapInv
<1>13. ref'[Data] = ref[Data] /\ heap'[ref[Data]] = d
  BY <1>4, <1>10, <1>11, RootType, ArrayAssumption
<1>14. Size(Data)' = n /\ Val' = Val
  <2>1. Size(Data)' = n
    BY <1>13 DEF Size
  <2>2. \A g \in Handle : ref'[g] = ref[g] /\ (ref[g] # Null => heap'[ref[g]] = heap[ref[g]])
    BY <1>10, <1>11, RootType
  <2> QED
    BY <2>1, <2>2 DEF Val
<1>15. /\ job' \in Job /\ job' # Null /\ job'.pos = k + 1 /\ job'.dst = job.dst
       /\ job'.path = "copy" /\ job'.pos <= n + 1
       /\ k < n => job'.arg = d.mem[k + 1]
  <2>1. [heap EXCEPT ![b] = q][ref[Data]] = d
    BY <1>9, <1>13
  <2> QED
    BY <1>1, <1>2, <1>3, <1>5, <2>1, NextElement
<1>16. AInv'
  <2>1. Unique(Output)'
    BY <1>4, <1>10 DEF Unique
  <2>2. job'.pos <= heap'[ref'[Data]].size => job'.arg = heap'[ref'[Data]].mem[job'.pos]
    BY <1>3, <1>13, <1>15
  <2>3. heap'[ref'[Output]].size = heap'[ref'[Data]].size /\ ref'[Output] # Null /\ ref'[Data] # Null
    BY <1>3, <1>4, <1>8, <1>9, <1>10, <1>13, ArrayAssumption
  <2> QED
    BY <1>3, <1>12, <1>13, <1>15, <2>1, <2>2, <2>3 DEF AInv, JobInv
<1>17. Mapped = d /\ Mapped' = q
  BY <1>1, <1>9, <1>10, <1>15 DEF Mapped
<1>18. /\ \A j \in k + 2 .. n : heap'[ref'[Data]].mem[j] = d.mem[j]
       /\ \A j \in 1 .. k - 1 : Mapped'.mem[j] = Mapped.mem[j]
       /\ Mapped'.mem[k] = x
  BY <1>8, <1>13, <1>17
<1> QED
  BY <1>1, <1>14, <1>15, <1>16, <1>18, MappedStep

\* The block Map builds gets the element at its place.
LEMMA ReturnCopyRefines ==
  ASSUME AInv, NEW x \in Elem, ReturnInto(Output, "copy", x)
  PROVE  AInv' /\ Abstract!Mapped(x)
<1> DEFINE d == heap[ref[Data]]
           o == heap[ref[Output]]
           k == job.pos
           n == Size(Data)
           q == StoreItem(o, k - 1, x)
           objs == [heap EXCEPT ![ref[Output]] = q]
<1>1. /\ Returning /\ job.path = "copy" /\ UNCHANGED ref
      /\ AtElement(objs, ref[Data], k + 1, job.dst, "copy")
  BY DEF ReturnInto
<1>2. /\ JobShape /\ k \in Nat \ {0} /\ n \in Nat /\ k <= n /\ d.size = n /\ Sound(d)
      /\ ref[Data] \in Block
  BY <1>1, JobFacts DEF Returning, JobShape
<1>3. /\ ref[Output] \in Block /\ Unique(Output) /\ o.size = n /\ Sound(o)
      /\ ref[Output] # Null
  BY <1>1, <1>2, RootType DEF AInv, JobInv, HeapInv, Returning
<1>4. /\ Sound(q) /\ q.size = n /\ q.mem[k] = x
      /\ \A j \in 1 .. k - 1 : q.mem[j] = o.mem[j]
  <2> DEFINE i == k - 1
  <2>1. i \in Nat /\ i < o.size /\ i + 1 = k
    BY <1>2, <1>3
  <2> HIDE DEF o
  <2>2. /\ Sound(q) /\ q.size = o.size /\ Contents(q) = [Contents(o) EXCEPT ![i + 1] = x]
    <3>1. q = StoreItem(o, i, x)
      OBVIOUS
    <3> HIDE DEF i, q
    <3> QED
      BY <1>3, <2>1, <3>1, StoredSound
  <2> HIDE DEF q, k, n, i
  <2>3. /\ Contents(o) \in Seq(Elem) /\ Len(Contents(o)) = n
        /\ \A j \in 1 .. n : Contents(o)[j] = o.mem[j] /\ Contents(q)[j] = q.mem[j]
    BY <1>3, <2>2, ContentsOf
  <2>4. q.mem[k] = x
    BY <1>2, <2>1, <2>2, <2>3
  <2>5. ASSUME NEW j \in 1 .. k - 1 PROVE q.mem[j] = o.mem[j]
    <3>1. j \in 1 .. n /\ j # k
      BY <1>2
    <3> QED
      BY <2>1, <2>2, <2>3, <3>1
  <2> QED
    BY <1>3, <2>2, <2>4, <2>5
<1> HIDE DEF q
<1>5. /\ objs[ref[Output]] = q /\ objs \in [Block -> ArrayObj \union {Null}]
      /\ \A b \in Block : b # ref[Output] => objs[b] = heap[b]
  BY <1>3, <1>4 DEF AInv, HeapInv, Sound
<1>6. heap' = objs
  BY <1>1 DEF AtElement
<1> HIDE DEF objs
<1>7. \A r \in Root : r # Output => ref[r] # ref[Output]
  BY <1>3 DEF Unique
<1>8. objs[ref[Data]] = d
  BY <1>2, <1>5, <1>7, RootType
<1>9. HeapInv'
  <2>1. q # Null
    BY <1>4, ArrayAssumption DEF Sound
  <2>2. \A b \in Block : objs[b] # Null => Sound(objs[b])
    BY <1>4, <1>5 DEF AInv, HeapInv
  <2>3. \A r \in Root : ref[r] # Null => objs[ref[r]] # Null
    BY <1>5, <2>1 DEF AInv, HeapInv
  <2> QED
    BY <1>1, <1>5, <1>6, <2>2, <2>3 DEF AInv, HeapInv
<1>10. /\ job' \in Job /\ job' # Null /\ job'.pos = k + 1 /\ job'.dst = job.dst
       /\ job'.path = "copy" /\ job'.pos <= n + 1
       /\ k < n => job'.arg = d.mem[k + 1]
  BY <1>1, <1>2, <1>8, NextElement
<1>11. Size(Data)' = n /\ Val' = Val
  <2>1. Size(Data)' = n
    BY <1>1, <1>6, <1>8 DEF Size
  <2>2. \A g \in Handle : ref[g] # Null => heap'[ref[g]] = heap[ref[g]]
    BY <1>5, <1>6, <1>7, RootType DEF AInv, HeapInv
  <2> QED
    BY <1>1, <2>1, <2>2 DEF Val
<1>12. AInv'
  <2>1. Unique(Output)'
    BY <1>1, <1>3 DEF Unique
  <2>2. job'.pos <= heap'[ref'[Data]].size => job'.arg = heap'[ref'[Data]].mem[job'.pos]
    BY <1>1, <1>2, <1>6, <1>8, <1>10
  <2>3. heap'[ref'[Output]].size = heap'[ref'[Data]].size /\ ref'[Output] # Null /\ ref'[Data] # Null
    BY <1>1, <1>2, <1>3, <1>4, <1>5, <1>6, <1>8, ArrayAssumption
  <2>4. job'.pos <= heap'[ref'[Data]].size + 1
    BY <1>1, <1>2, <1>6, <1>8, <1>10
  <2> QED
    BY <1>9, <1>10, <2>1, <2>2, <2>3, <2>4 DEF AInv, JobInv
<1>13. Mapped = o /\ Mapped' = q
  BY <1>1, <1>5, <1>6, <1>10 DEF Mapped
<1>14. /\ \A j \in k + 2 .. n : heap'[ref'[Data]].mem[j] = d.mem[j]
       /\ \A j \in 1 .. k - 1 : Mapped'.mem[j] = Mapped.mem[j]
       /\ Mapped'.mem[k] = x
  BY <1>1, <1>4, <1>6, <1>8, <1>13
<1> QED
  BY <1>1, <1>10, <1>11, <1>12, <1>14, MappedStep

LEMMA StoredSlots ==
  ASSUME NEW p, Sound(p), NEW i \in Nat, i < p.size, NEW x \in Elem
  PROVE  /\ Sound(StoreItem(p, i, x)) /\ StoreItem(p, i, x).size = p.size
         /\ StoreItem(p, i, x).mem[i + 1] = x
         /\ \A j \in 1 .. p.size : j # i + 1 => StoreItem(p, i, x).mem[j] = p.mem[j]
<1> DEFINE q == StoreItem(p, i, x)
           n == p.size
<1>1. /\ Sound(q) /\ q.size = n /\ Contents(q) = [Contents(p) EXCEPT ![i + 1] = x]
  BY StoredSound
<1>2. n \in Nat /\ i + 1 \in 1 .. n
  BY ContentsOf
<1>3. /\ Contents(p) \in Seq(Elem) /\ Len(Contents(p)) = n
      /\ \A j \in 1 .. n : Contents(p)[j] = p.mem[j]
  BY ContentsOf
<1>4. \A j \in 1 .. n : Contents(q)[j] = q.mem[j]
  <2> HIDE DEF q, n
  <2> QED
    BY <1>1, ContentsOf
<1> HIDE DEF q
<1>5. q.mem[i + 1] = x /\ \A j \in 1 .. n : j # i + 1 => q.mem[j] = p.mem[j]
  <2> HIDE DEF n
  <2> QED
    BY <1>1, <1>2, <1>3, <1>4
<1> QED
  BY <1>1, <1>5 DEF q

\* The loop that works in place takes the element at pos out of its slot.
TakenOut(p, pos) == IF pos <= p.size THEN StoreItem(p, pos - 1, None) ELSE p

LEMMA TakenOutSlots ==
  ASSUME NEW p, Sound(p), NEW pos \in Nat \ {0}
  PROVE  /\ Sound(TakenOut(p, pos)) /\ TakenOut(p, pos).size = p.size
         /\ \A j \in 1 .. p.size : j # pos => TakenOut(p, pos).mem[j] = p.mem[j]
<1> DEFINE i == pos - 1
<1>1. i \in Nat /\ i + 1 = pos /\ None \in Elem
  BY DEF Elem
<1>2. CASE pos <= p.size
  <2>1. i < p.size
    BY <1>2, ContentsOf
  <2>2. TakenOut(p, pos) = StoreItem(p, i, None)
    BY <1>2 DEF TakenOut
  <2> HIDE DEF i
  <2>3. /\ Sound(StoreItem(p, i, None)) /\ StoreItem(p, i, None).size = p.size
        /\ \A j \in 1 .. p.size : j # i + 1 => StoreItem(p, i, None).mem[j] = p.mem[j]
    BY <1>1, <2>1, StoredSlots
  <2> QED
    BY <1>1, <2>2, <2>3
<1>3. CASE ~(pos <= p.size)
  BY <1>3 DEF TakenOut
<1> QED
  BY <1>2, <1>3

LEMMA TakenOutHeap ==
  ASSUME NEW objs \in [Block -> ArrayObj \union {Null}], NEW b \in Block, Sound(objs[b]),
         NEW pos \in Nat \ {0}, NEW dst, AtElement(objs, b, pos, dst, "in place")
  PROVE  heap' = [objs EXCEPT ![b] = TakenOut(objs[b], pos)]
<1> DEFINE p == objs[b]
<1>1. CASE pos <= p.size
  BY <1>1 DEF AtElement, TakenOut
<1>2. CASE ~(pos <= p.size)
  BY <1>2 DEF AtElement, TakenOut
<1> QED
  BY <1>1, <1>2

\* The block that only Data refers to gets the element back at its place.
LEMMA ReturnInPlaceRefines ==
  ASSUME AInv, NEW x \in Elem, ReturnInto(Data, "in place", x)
  PROVE  AInv' /\ Abstract!Mapped(x)
<1> DEFINE b == ref[Data]
           d == heap[b]
           k == job.pos
           n == Size(Data)
           q == StoreItem(d, k - 1, x)
           objs == [heap EXCEPT ![b] = q]
           z == TakenOut(q, k + 1)
<1>1. /\ Returning /\ job.path = "in place" /\ UNCHANGED ref
      /\ AtElement(objs, b, k + 1, job.dst, "in place")
  BY DEF ReturnInto
<1>2. /\ JobShape /\ k \in Nat \ {0} /\ n \in Nat /\ k <= n /\ d.size = n /\ Sound(d)
      /\ b \in Block
  BY <1>1, JobFacts DEF Returning, JobShape
<1>3. Unique(Data) /\ ref[Output] = Null /\ b # Null
  BY <1>1, <1>2, ArrayAssumption DEF AInv, JobInv, Returning
<1>4. k - 1 \in Nat /\ k - 1 < n /\ k - 1 + 1 = k /\ k + 1 \in Nat \ {0} /\ k \in 1 .. n
  <2> HIDE DEF k, n
  <2> QED
    BY <1>2, PositionBounds
<1>5. /\ Sound(q) /\ q.size = n /\ q.mem[k] = x
      /\ \A j \in 1 .. n : j # k => q.mem[j] = d.mem[j]
  <2> DEFINE i == k - 1
  <2>1. i \in Nat /\ i < d.size /\ i + 1 = k /\ q = StoreItem(d, i, x)
    BY <1>2, <1>4
  <2> HIDE DEF i, q, d, k, n
  <2>2. /\ Sound(StoreItem(d, i, x)) /\ StoreItem(d, i, x).size = d.size
        /\ StoreItem(d, i, x).mem[i + 1] = x
        /\ \A j \in 1 .. d.size : j # i + 1 => StoreItem(d, i, x).mem[j] = d.mem[j]
    BY <1>2, <2>1, StoredSlots
  <2> QED
    BY <1>2, <2>1, <2>2
<1> HIDE DEF q
<1>6. /\ Sound(z) /\ z.size = n
      /\ \A j \in 1 .. n : j # k + 1 => z.mem[j] = q.mem[j]
  <2> HIDE DEF n, k
  <2> QED
    BY <1>4, <1>5, TakenOutSlots
<1> HIDE DEF z
<1>7. objs \in [Block -> ArrayObj \union {Null}] /\ objs[b] = q
  BY <1>2, <1>5 DEF AInv, HeapInv, Sound
<1>8. heap' = [heap EXCEPT ![b] = z]
  <2>1. heap' = [objs EXCEPT ![b] = TakenOut(objs[b], k + 1)]
    <3>1. Sound(objs[b]) /\ k + 1 \in Nat \ {0} /\ b \in Block
      BY <1>2, <1>4, <1>5, <1>7
    <3> DEFINE pos == k + 1
               dst == job.dst
    <3>2. pos \in Nat \ {0} /\ AtElement(objs, b, pos, dst, "in place")
      BY <1>1, <1>4
    <3> HIDE DEF objs, b, pos, dst
    <3>3. heap' = [objs EXCEPT ![b] = TakenOut(objs[b], pos)]
      BY <1>7, <3>1, <3>2, TakenOutHeap
    <3> QED
      BY <3>3 DEF pos
  <2> QED
    BY <1>7, <2>1 DEF z
<1>9. /\ heap' \in [Block -> ArrayObj \union {Null}] /\ heap'[b] = z
      /\ \A a \in Block : a # b => heap'[a] = heap[a]
  BY <1>2, <1>6, <1>8 DEF AInv, HeapInv, Sound
<1>10. /\ job' \in Job /\ job' # Null /\ job'.pos = k + 1 /\ job'.dst = job.dst
       /\ job'.path = "in place" /\ job'.pos <= n + 1
       /\ k < n => job'.arg = q.mem[k + 1]
  <2> HIDE DEF objs
  <2> QED
    BY <1>1, <1>2, <1>5, <1>7, NextElement
<1>11. HeapInv'
  <2>1. z # Null
    BY <1>6, ArrayAssumption DEF Sound
  <2>2. \A a \in Block : heap'[a] # Null => Sound(heap'[a])
    BY <1>6, <1>9 DEF AInv, HeapInv
  <2>3. \A r \in Root : ref[r] # Null => heap'[ref[r]] # Null
    BY <1>9, <2>1 DEF AInv, HeapInv
  <2> QED
    BY <1>1, <1>9, <2>2, <2>3 DEF AInv, HeapInv
<1>12. Size(Data)' = n /\ Val' = Val
  <2>1. Size(Data)' = n
    BY <1>1, <1>3, <1>6, <1>9 DEF Size
  <2>2. \A g \in Handle : ref[g] # Null => heap'[ref[g]] = heap[ref[g]]
    BY <1>3, <1>9, RootType DEF AInv, HeapInv, Unique
  <2> QED
    BY <1>1, <2>1, <2>2 DEF Val
<1>13. AInv'
  <2>1. Unique(Data)'
    BY <1>1, <1>3 DEF Unique
  <2>2. job'.pos <= heap'[ref'[Data]].size + 1
    BY <1>1, <1>6, <1>9, <1>10
  <2> QED
    BY <1>1, <1>3, <1>10, <1>11, <2>1, <2>2 DEF AInv, JobInv
<1>14. Mapped = d /\ Mapped' = z
  BY <1>1, <1>9, <1>10 DEF Mapped
<1>15. /\ k < n => job'.arg = d.mem[k + 1]
       /\ \A j \in k + 2 .. n : z.mem[j] = d.mem[j]
       /\ \A j \in 1 .. k - 1 : z.mem[j] = d.mem[j]
       /\ z.mem[k] = x
  <2> HIDE DEF k, n, d
  <2>1. k < n => k + 1 \in 1 .. n /\ k + 1 # k
    BY <1>2, PositionBounds
  <2>2. \A j \in k + 2 .. n : j \in 1 .. n /\ j # k /\ j # k + 1
    BY <1>2, PositionBounds
  <2>3. \A j \in 1 .. k - 1 : j \in 1 .. n /\ j # k /\ j # k + 1
    BY <1>2, PositionBounds
  <2>4. k # k + 1
    BY <1>2, PositionBounds
  <2>5. k < n => job'.arg = d.mem[k + 1]
    BY <1>5, <1>10, <2>1
  <2> QED
    BY <1>4, <1>5, <1>6, <2>2, <2>3, <2>4, <2>5
<1> QED
  BY <1>1, <1>9, <1>10, <1>12, <1>13, <1>14, <1>15, MappedStep

LEMMA ThrowRefines ==
  ASSUME AInv, Throw
  PROVE  AInv' /\ Abstract!Throws
<1> DEFINE refs == [ref EXCEPT ![Data] = Null, ![Output] = Null]
<1>1. /\ refs \in [Root -> Block \union {Null}] /\ refs[Data] = Null /\ refs[Output] = Null
      /\ \A r \in Root : r # Data /\ r # Output => refs[r] = ref[r]
  BY RootType DEF AInv, HeapInv
<1>2. Point(refs) /\ job # Null /\ job' = Null
  BY DEF Throw, Returning
<1> HIDE DEF refs
<1>3. \A r \in Root : refs[r] # Null => \E q \in Root : ref[q] = refs[r]
  BY <1>1
<1>4. /\ HeapInv' /\ ref' = refs
      /\ \A r \in Root : refs[r] # Null => heap'[refs[r]] = heap[refs[r]]
  BY <1>1, <1>2, <1>3, PointHeap DEF AInv
<1>5. AInv'
  BY <1>1, <1>2, <1>4 DEF AInv, JobInv
<1>6. Val' = Val
  BY <1>1, <1>4, RootType DEF Val
<1>7. Task # Null /\ Task' = Null
  BY <1>2, TaskType DEF Task
<1> QED
  BY <1>5, <1>6, <1>7 DEF Abstract!Throws

LEMMA FinishRefines ==
  ASSUME AInv, Finish
  PROVE  AInv' /\ Abstract!Finish
<1> DEFINE res == IF job.path = "copy" THEN ref[Output] ELSE ref[Data]
           refs == [ref EXCEPT ![job.dst] = res, ![Data] = Null, ![Output] = Null]
           n == Size(Data)
<1>1. /\ JobShape /\ job # Null /\ job' = Null /\ job.pos > n /\ Point(refs)
  BY JobFacts DEF Finish
<1>2. job.dst \in Handle /\ n \in Nat /\ job.pos \in Nat /\ job.pos - 1 = n
  <2>1. job.dst \in Handle /\ n \in Nat /\ job.pos \in Nat \ {0} /\ job.pos <= n + 1
    BY <1>1 DEF JobShape
  <2> DEFINE k == job.pos
  <2> HIDE DEF n, k
  <2>2. k \in Nat \ {0} /\ k <= n + 1 /\ k > n
    BY <1>1, <2>1 DEF k
  <2>3. k - 1 = n
    BY <2>1, <2>2
  <2> QED
    BY <2>1, <2>3 DEF k
<1>3. res \in Block /\ heap[res] = Mapped /\ res # Null /\ (res = ref[Data] \/ res = ref[Output])
  BY <1>1, RootType, ArrayAssumption DEF AInv, JobInv, HeapInv, JobShape, Mapped
<1>4. /\ refs \in [Root -> Block \union {Null}] /\ refs[Data] = Null /\ refs[Output] = Null
      /\ refs[job.dst] = res
      /\ \A r \in Root : r \notin {Data, Output, job.dst} => refs[r] = ref[r]
  BY <1>2, <1>3, RootType DEF AInv, HeapInv
<1> HIDE DEF refs, res
<1>5. \A r \in Root : refs[r] # Null => \E q \in Root : ref[q] = refs[r]
  BY <1>3, <1>4, RootType
<1>6. /\ HeapInv' /\ ref' = refs
      /\ \A r \in Root : refs[r] # Null => heap'[refs[r]] = heap[refs[r]]
  BY <1>1, <1>4, <1>5, PointHeap DEF AInv
<1>7. AInv'
  BY <1>1, <1>4, <1>6 DEF AInv, JobInv
<1>8. Val' = [Val EXCEPT ![job.dst] = Contents(Mapped)]
  <2>1. ASSUME NEW g \in Handle, g # job.dst
        PROVE  (IF ref'[g] = Null THEN Null ELSE Contents(heap'[ref'[g]]))
                 = (IF ref[g] = Null THEN Null ELSE Contents(heap[ref[g]]))
    BY <1>4, <1>6, <2>1, RootType
  <2>2. (IF ref'[job.dst] = Null THEN Null ELSE Contents(heap'[ref'[job.dst]])) = Contents(Mapped)
    BY <1>2, <1>3, <1>4, <1>6, RootType
  <2> QED
    BY <2>1, <2>2 DEF Val
<1>9. Task.dst = job.dst /\ Task.done = Contents(Mapped) /\ Task.todo = <<>>
  <2>1. Task = [dst |-> job.dst, done |-> SubSeq(Mapped.mem, 1, n), todo |-> <<>>]
    BY <1>1, <1>2 DEF Task
  <2>2. Mapped.size = n
    BY <1>1 DEF JobShape
  <2> QED
    BY <2>1, <2>2 DEF Contents
<1>10. Task # Null /\ Task' = Null
  BY <1>1, TaskType DEF Task
<1> QED
  BY <1>7, <1>8, <1>9, <1>10 DEF Abstract!Finish

\* The loop has got to the first element of g's block.
AtFirst(h, g, path) ==
  /\ path \in {"in place", "identical", "copy"}
  /\ job' = [pos |-> 1, dst |-> h, path |-> path,
             arg |-> IF 1 <= Size(g) THEN heap[ref[g]].mem[1] ELSE None]

\* Data's block holds what g's block holds from the second element on.
RestThere(g) ==
  /\ Sound(heap'[ref'[Data]]) /\ Size(Data)' = Size(g) /\ heap'[ref'[Data]].size = Size(g)
  /\ \A j \in 2 .. Size(g) : heap'[ref'[Data]].mem[j] = heap[ref[g]].mem[j]

LEMMA StartStep ==
  ASSUME AInv, NEW g \in Handle, NEW h \in Handle, ref[g] # Null,
         NEW path, AtFirst(h, g, path), RestThere(g)
  PROVE  /\ job' \in Job /\ job' # Null
         /\ Task' = [dst |-> h, done |-> <<>>, todo |-> Val[g]]
<1> DEFINE n == Size(g)
           m == heap[ref[g]].mem
           w == heap'[ref'[Data]].mem
           a == IF 1 <= n THEN m[1] ELSE None
<1>1. /\ Sound(heap[ref[g]]) /\ heap[ref[g]].size = n /\ Val[g] = SubSeq(m, 1, n)
  BY NullVal DEF Contents
<1>2. m \in Seq(Slot) /\ n \in Nat /\ n <= Len(m) /\ Len(m) \in Nat
      /\ \A j \in 1 .. n : m[j] \in Elem
  <2>1. \A p : Sound(p) => /\ p.mem \in Seq(Slot) /\ p.size \in Nat /\ p.size <= Len(p.mem)
                           /\ Len(p.mem) \in Nat /\ \A j \in 1 .. p.size : p.mem[j] \in Elem
    BY ContentsOf DEF Sound, ArrayObj
  <2> QED
    BY <1>1, <2>1
<1>3. w \in Seq(Slot) /\ n <= Len(w)
  <2>1. \A p : Sound(p) => p.mem \in Seq(Slot) /\ p.size <= Len(p.mem)
    BY DEF Sound, ArrayObj
  <2> QED
    BY <2>1 DEF RestThere
<1>4. job' = [pos |-> 1, dst |-> h, path |-> path, arg |-> a]
  BY DEF AtFirst
<1>5. a \in Elem
  <2> HIDE DEF m, n
  <2> QED
    BY <1>2 DEF Elem
<1>6. \A j \in 2 .. n : w[j] = m[j]
  BY DEF RestThere
<1> HIDE DEF a
<1>7. job' \in Job
  <2>1. path \in {"in place", "identical", "copy"}
    BY DEF AtFirst
  <2>2. 1 \in Nat \ {0}
    OBVIOUS
  <2> QED
    BY <1>4, <1>5, <2>1, <2>2 DEF Job
<1>8. job' # Null
  BY <1>7, ArrayAssumption
<1>9. job'.pos = 1 /\ job'.dst = h /\ job'.arg = a
  BY <1>4
<1>10. Task' = [dst |-> h, done |-> SubSeq(Mapped'.mem, 1, 0),
                todo |-> IF 1 > n THEN <<>> ELSE <<a>> \o SubSeq(w, 2, n)]
  <2>1. Task' = [dst |-> job'.dst, done |-> SubSeq(Mapped'.mem, 1, job'.pos - 1),
                 todo |-> IF job'.pos > Size(Data)' THEN <<>>
                          ELSE <<job'.arg>> \o SubSeq(w, job'.pos + 1, Size(Data)')]
    BY <1>8 DEF Task
  <2> HIDE DEF n, w
  <2>2. Size(Data)' = n
    BY DEF n, RestThere
  <2> QED
    BY <1>9, <2>1, <2>2
<1> HIDE DEF m, n, w
<1>11. SubSeq(w, 2, n) = SubSeq(m, 2, n)
  BY <1>2, <1>3, <1>6, SameRest
<1>12. SubSeq(m, 1, n) = IF 1 > n THEN <<>> ELSE <<m[1]>> \o SubSeq(m, 2, n)
  BY <1>2, RestAt
<1>13. ~(1 > n) => a = m[1]
  BY <1>2 DEF a
<1>14. SubSeq(Mapped'.mem, 1, 0) = <<>>
  BY SubSeqEmpty
<1>15. Task' = [dst |-> h, done |-> <<>>, todo |-> Val[g]]
  <2>1. (IF 1 > n THEN <<>> ELSE <<a>> \o SubSeq(w, 2, n)) = SubSeq(m, 1, n)
    BY <1>11, <1>12, <1>13
  <2> QED
    BY <1>1, <1>10, <1>14, <2>1
<1> QED
  BY <1>7, <1>8, <1>15

LEMMA MutateRefines ==
  ASSUME AInv, NEW h \in Handle, Apply(h, h, TRUE, TRUE)
  PROVE  AInv' /\ Abstract!Apply(h, h, TRUE)
<1>1. job = Null
  BY DEF Apply
<1>2. CASE ref[h] = Null
  <2>1. Point([ref EXCEPT ![h] = ref[h]]) /\ Done
    BY <1>2 DEF Apply, Done
  <2>2. AInv' /\ Val' = [Val EXCEPT ![h] = Val[h]] /\ Task' = Task
    BY <2>1, ShareStep
  <2> QED
    BY <1>1, <1>2, <2>2, NullVal DEF Abstract!Apply, Task
<1>3. CASE ref[h] # Null
  <2> DEFINE b == ref[h]
             d == heap[b]
             path == IF Unique(h) THEN "in place" ELSE "identical"
             z == IF Unique(h) THEN TakenOut(d, 1) ELSE d
             n == Size(h)
  <2>1. /\ ref' = [ref EXCEPT ![h] = Null, ![Data] = b]
        /\ AtElement(heap, b, 1, h, path)
    BY <1>3 DEF Apply
  <2>2. b \in Block /\ b # Null /\ Sound(d) /\ d.size = n /\ Val[h] # Null
    BY <1>3, NullVal, RootType DEF AInv, HeapInv
  <2>3. /\ ref' \in [Root -> Block \union {Null}] /\ ref'[h] = Null /\ ref'[Data] = b
        /\ \A r \in Root : r # h /\ r # Data => ref'[r] = ref[r]
    BY <2>1, <2>2, RootType DEF AInv, HeapInv
  <2>4. ref[Data] = Null /\ ref[Output] = Null
    BY <1>1 DEF AInv, JobInv
  <2>5. /\ Sound(z) /\ z.size = n /\ \A j \in 2 .. n : z.mem[j] = d.mem[j]
    <3>1. /\ Sound(TakenOut(d, 1)) /\ TakenOut(d, 1).size = d.size
          /\ \A j \in 1 .. d.size : j # 1 => TakenOut(d, 1).mem[j] = d.mem[j]
      BY <2>2, TakenOutSlots
    <3>2. \A j \in 2 .. n : j \in 1 .. n /\ j # 1
      OBVIOUS
    <3> QED
      BY <2>2, <3>1, <3>2
  <2> HIDE DEF z
  <2>6. heap' = [heap EXCEPT ![b] = z]
    <3>1. CASE Unique(h)
      <4>1. AtElement(heap, b, 1, h, "in place")
        BY <2>1, <3>1
      <4>2. heap' = [heap EXCEPT ![b] = TakenOut(heap[b], 1)]
        <5>1. heap \in [Block -> ArrayObj \union {Null}] /\ 1 \in Nat \ {0}
          BY DEF AInv, HeapInv
        <5> HIDE DEF b
        <5> QED
          BY <2>2, <4>1, <5>1, TakenOutHeap
      <4> QED
        BY <3>1, <4>2 DEF z
    <3>2. CASE ~Unique(h)
      <4>1. heap' = heap
        BY <2>1, <3>2 DEF AtElement
      <4> QED
        BY <2>2, <3>2, <4>1 DEF z, AInv, HeapInv
    <3> QED
      BY <3>1, <3>2
  <2>7. /\ heap' \in [Block -> ArrayObj \union {Null}] /\ heap'[b] = z
        /\ \A a \in Block : a # b => heap'[a] = heap[a]
    BY <2>2, <2>5, <2>6 DEF AInv, HeapInv, Sound
  <2>8. job' = [pos |-> 1, dst |-> h, path |-> path, arg |-> IF 1 <= n THEN d.mem[1] ELSE None]
    BY <2>1, <2>2 DEF AtElement
  <2>9. job'.path = path /\ path \in {"in place", "identical", "copy"} /\ job'.pos = 1
        /\ job'.arg = IF 1 <= n THEN d.mem[1] ELSE None
    BY <2>8
  <2>10. Size(Data)' = n
    BY <2>2, <2>3, <2>5, <2>7 DEF Size
  <2>11. job' \in Job /\ job' # Null /\ Task' = [dst |-> h, done |-> <<>>, todo |-> Val[h]]
    BY <1>3, <2>3, <2>5, <2>7, <2>8, <2>9, <2>10, StartStep DEF AtFirst, RestThere
  <2>12. HeapInv'
    <3>1. z # Null
      BY <2>5, ArrayAssumption DEF Sound
    <3>2. \A a \in Block : heap'[a] # Null => Sound(heap'[a])
      BY <2>5, <2>7 DEF AInv, HeapInv
    <3>3. \A r \in Root : ref'[r] # Null => heap'[ref'[r]] # Null
      BY <2>2, <2>3, <2>7, <3>1 DEF AInv, HeapInv
    <3> QED
      BY <2>3, <2>7, <3>2, <3>3 DEF HeapInv
  <2>13. AInv'
    <3>1. path = "in place" => Unique(Data)'
      <4> SUFFICES ASSUME Unique(h) PROVE Unique(Data)'
        OBVIOUS
      <4> QED
        BY <2>2, <2>3 DEF Unique
    <3>2. ref'[Output] = Null /\ ref'[Data] # Null
      BY <2>2, <2>3, <2>4, RootType
    <3>3. heap'[ref'[Data]].size = n /\ n \in Nat
      BY <2>2, <2>3, <2>5, <2>7, SlotsOf
    <3>4. job'.path # "in place" => heap'[ref'[Data]] = d
      BY <2>3, <2>7, <2>9 DEF z
    <3>5. 1 <= n + 1
      <4> HIDE DEF n
      <4> QED
        BY <3>3
    <3> QED
      BY <2>9, <2>11, <2>12, <3>1, <3>2, <3>3, <3>4, <3>5 DEF AInv, JobInv
  <2>14. Val' = [Val EXCEPT ![h] = Null]
    <3>1. ASSUME NEW g \in Handle, g # h
          PROVE  (IF ref'[g] = Null THEN Null ELSE Contents(heap'[ref'[g]]))
                   = (IF ref[g] = Null THEN Null ELSE Contents(heap[ref[g]]))
      <4>1. ref'[g] = ref[g]
        BY <2>3, <3>1, RootType
      <4>2. CASE ref[g] = b
        <5>1. ~Unique(h)
          BY <3>1, <4>2, RootType DEF Unique
        <5> QED
          BY <2>7, <4>1, <4>2, <5>1 DEF z
      <4>3. CASE ref[g] # b /\ ref[g] # Null
        BY <2>7, <4>1, <4>3, RootType DEF AInv, HeapInv
      <4> QED
        BY <4>1, <4>2, <4>3
    <3>2. (IF ref'[h] = Null THEN Null ELSE Contents(heap'[ref'[h]])) = Null
      BY <2>3
    <3> QED
      BY <3>1, <3>2 DEF Val
  <2> QED
    BY <1>1, <2>2, <2>11, <2>13, <2>14 DEF Abstract!Apply, Task
<1> QED
  BY <1>2, <1>3

LEMMA MapRefines ==
  ASSUME AInv, NEW h \in Handle, NEW g \in Handle, NEW c \in BOOLEAN, Apply(h, g, FALSE, c)
  PROVE  AInv' /\ Abstract!Apply(h, g, FALSE)
<1>1. job = Null
  BY DEF Apply
<1>2. CASE ref[g] = Null
  <2>1. Point([ref EXCEPT ![h] = ref[g]]) /\ Done
    BY <1>2 DEF Apply, Done
  <2>2. AInv' /\ Val' = [Val EXCEPT ![h] = Val[g]] /\ Task' = Task
    BY <2>1, ShareStep
  <2> QED
    BY <1>1, <1>2, <2>2, NullVal DEF Abstract!Apply, Task
<1>3. CASE ref[g] # Null
  <2> DEFINE b == ref[g]
             d == heap[b]
             n == Size(g)
  <2>1. b \in Block /\ b # Null /\ Sound(d) /\ d.size = n /\ Val[g] # Null /\ n \in Nat
    BY <1>3, NullVal, RootType, SlotsOf DEF AInv, HeapInv
  <2>2. ref[Data] = Null /\ ref[Output] = Null
    BY <1>1 DEF AInv, JobInv
  <2>3. CASE c
    <3>1. /\ ref' = [ref EXCEPT ![Data] = b] /\ AtElement(heap, b, 1, h, "identical")
      BY <1>3, <2>3 DEF Apply
    <3>2. /\ ref' \in [Root -> Block \union {Null}] /\ ref'[Data] = b
          /\ (\A r \in Root : r # Data => ref'[r] = ref[r]) /\ heap' = heap
      BY <2>1, <3>1, RootType DEF AInv, HeapInv, AtElement
    <3>3. job' = [pos |-> 1, dst |-> h, path |-> "identical",
                  arg |-> IF 1 <= n THEN d.mem[1] ELSE None]
      BY <2>1, <3>1 DEF AtElement
    <3>4. job'.path = "identical" /\ job'.pos = 1
          /\ job'.arg = IF 1 <= n THEN d.mem[1] ELSE None
      BY <3>3
    <3>5. Size(Data)' = n
      BY <2>1, <3>2 DEF Size
    <3>6. job' \in Job /\ job' # Null /\ Task' = [dst |-> h, done |-> <<>>, todo |-> Val[g]]
      BY <1>3, <2>1, <3>2, <3>3, <3>4, <3>5, StartStep DEF AtFirst, RestThere
    <3>7. HeapInv' /\ Val' = Val
      BY <2>1, <3>2, RootType DEF AInv, HeapInv, Val
    <3>8. AInv'
      <4>1. 1 <= n + 1
        <5> HIDE DEF n
        <5> QED
          BY <2>1
      <4> QED
        BY <2>1, <2>2, <3>2, <3>4, <3>6, <3>7, <4>1, RootType DEF AInv, JobInv
    <3> QED
      BY <1>1, <2>1, <3>6, <3>7, <3>8 DEF Abstract!Apply, Task
  <2>4. CASE ~c
    <3> DEFINE q == FromRange(n, Replicate(n, None))
    <3>1. PICK o \in Block :
            /\ heap[o] = Null
            /\ ref' = [ref EXCEPT ![Data] = b, ![Output] = o]
            /\ AtElement([heap EXCEPT ![o] = q], b, 1, h, "copy")
      BY <1>3, <2>4 DEF Apply
    <3>2. Sound(q) /\ q.size = n
      <4>1. Replicate(n, None) \in Seq(Elem) /\ Len(Replicate(n, None)) = n
        BY <2>1, ReplicateType DEF Elem
      <4> HIDE DEF n
      <4> QED
        BY <2>1, <4>1, FromRangeSound
    <3> HIDE DEF q
    <3>3. /\ ref' \in [Root -> Block \union {Null}] /\ ref'[Data] = b /\ ref'[Output] = o
          /\ \A r \in Root : r # Data /\ r # Output => ref'[r] = ref[r]
      BY <2>1, <3>1, RootType DEF AInv, HeapInv
    <3>4. b # o /\ \A r \in Root : ref[r] # o
      BY <2>1, <3>1, ArrayAssumption DEF AInv, HeapInv, Sound
    <3>5. /\ heap' = [heap EXCEPT ![o] = q] /\ heap'[o] = q /\ heap'[b] = d
          /\ heap' \in [Block -> ArrayObj \union {Null}]
          /\ \A a \in Block : a # o => heap'[a] = heap[a]
      BY <2>1, <3>1, <3>2, <3>4 DEF AtElement, AInv, HeapInv, Sound
    <3>6. job' = [pos |-> 1, dst |-> h, path |-> "copy",
                  arg |-> IF 1 <= n THEN d.mem[1] ELSE None]
      BY <2>1, <3>1, <3>4 DEF AtElement
    <3>7. job'.path = "copy" /\ job'.pos = 1
          /\ job'.arg = IF 1 <= n THEN d.mem[1] ELSE None
      BY <3>6
    <3>8. Size(Data)' = n
      BY <2>1, <3>3, <3>5 DEF Size
    <3>9. job' \in Job /\ job' # Null /\ Task' = [dst |-> h, done |-> <<>>, todo |-> Val[g]]
      <4>1. AtFirst(h, g, "copy")
        BY <3>6 DEF AtFirst
      <4>2. RestThere(g)
        BY <2>1, <3>3, <3>5, <3>8 DEF RestThere
      <4> QED
        BY <1>3, <4>1, <4>2, StartStep
    <3>10. HeapInv'
      <4>1. q # Null
        BY <3>2, ArrayAssumption DEF Sound
      <4>2. \A a \in Block : heap'[a] # Null => Sound(heap'[a])
        BY <3>2, <3>5 DEF AInv, HeapInv
      <4>3. \A r \in Root : ref'[r] # Null => heap'[ref'[r]] # Null
        BY <2>1, <3>3, <3>5, <4>1, ArrayAssumption DEF AInv, HeapInv, Sound
      <4> QED
        BY <3>3, <3>5, <4>2, <4>3 DEF HeapInv
    <3>11. Val' = Val
      <4>1. \A k \in Handle : ref'[k] = ref[k] /\ (ref[k] # Null => heap'[ref[k]] = heap[ref[k]])
        BY <3>3, <3>4, <3>5, RootType DEF AInv, HeapInv
      <4> QED
        BY <4>1 DEF Val
    <3>12. AInv'
      <4>1. Unique(Output)'
        BY <3>3, <3>4 DEF Unique
      <4>2. 1 <= n + 1
        <5> HIDE DEF n
        <5> QED
          BY <2>1
      <4>3. ref'[Output] # Null /\ ref'[Data] # Null
        BY <2>1, <3>3, ArrayAssumption
      <4>4. /\ heap'[ref'[Data]] = d /\ heap'[ref'[Output]] = q
            /\ heap'[ref'[Output]].size = heap'[ref'[Data]].size
        BY <2>1, <3>2, <3>3, <3>5
      <4>5. job'.pos <= heap'[ref'[Data]].size => job'.arg = heap'[ref'[Data]].mem[job'.pos]
        BY <2>1, <3>7, <4>4
      <4>6. job'.pos <= heap'[ref'[Data]].size + 1
        BY <2>1, <3>7, <4>2, <4>4
      <4>7. JobInv'
        BY <3>7, <3>9, <4>1, <4>3, <4>4, <4>5, <4>6 DEF JobInv
      <4> QED
        BY <3>10, <4>7 DEF AInv
    <3> QED
      BY <1>1, <2>1, <3>9, <3>11, <3>12 DEF Abstract!Apply, Task
  <2> QED
    BY <2>3, <2>4
<1> QED
  BY <1>2, <1>3

-----------------------------------------------------------------------------
(* The theorems. *)

LEMMA InitRefines == Init => AInv /\ Abstract!Init
<1> SUFFICES ASSUME Init PROVE AInv /\ Abstract!Init
  OBVIOUS
<1>1. PICK f \in [Handle -> Block] :
        /\ \A g, h \in Handle : f[g] = f[h] => g = h
        /\ ref = [r \in Root |-> IF r \in Handle THEN f[r] ELSE Null]
  BY DEF Init
<1>2. /\ heap = [b \in Block |-> IF \E r \in Root : ref[r] = b THEN Empty(KInitSize) ELSE Null]
      /\ job = Null
  BY DEF Init
<1>3. Sound(Empty(KInitSize)) /\ Contents(Empty(KInitSize)) = <<>>
  BY EmptySound DEF KInitSize
<1>4. Empty(KInitSize) # Null /\ Empty(KInitSize) \in ArrayObj
  BY <1>3, ArrayAssumption DEF Sound
<1>5. /\ ref \in [Root -> Block \union {Null}] /\ ref[Data] = Null /\ ref[Output] = Null
      /\ \A h \in Handle : ref[h] = f[h] /\ ref[h] \in Block
  BY <1>1, RootType
<1>6. HeapInv
  <2>1. heap \in [Block -> ArrayObj \union {Null}]
    BY <1>2, <1>4
  <2>2. \A b \in Block : heap[b] # Null => Sound(heap[b])
    BY <1>2, <1>3
  <2>3. \A r \in Root : ref[r] # Null => heap[ref[r]] # Null
    BY <1>2, <1>4, <1>5
  <2> QED
    BY <1>5, <2>1, <2>2, <2>3 DEF HeapInv
<1>7. Val = [h \in Handle |-> <<>>]
  <2>1. \A h \in Handle : ref[h] # Null /\ heap[ref[h]] = Empty(KInitSize)
    BY <1>2, <1>5, RootType, ArrayAssumption
  <2> QED
    BY <1>3, <2>1 DEF Val
<1> QED
  BY <1>2, <1>5, <1>6, <1>7 DEF AInv, JobInv, Abstract!Init, Task

\* A position in an array is one in the sequence.
LEMMA PositionsOf ==
  ASSUME AInv, NEW h \in Handle
  PROVE  /\ Len(Abstract!Seq0(h)) = Size(h) /\ Size(h) \in Nat
         /\ \A i \in 0 .. MaxSize : i <= Size(h) => i \in Nat /\ i \in 0 .. Len(Abstract!Seq0(h))
<1>1. Size(h) \in Nat /\ Len(Abstract!Seq0(h)) = Size(h)
  BY WritableSound
<1>2. \A n \in Nat : \A i \in 0 .. MaxSize : i <= n => i \in Nat /\ i \in 0 .. n
  OBVIOUS
<1> QED
  BY <1>1, <1>2

LEMMA StepRefines == AInv /\ [Next]_vars => AInv' /\ [Abstract!Next]_(Abstract!vars)
<1> SUFFICES ASSUME AInv, [Next]_vars PROVE AInv' /\ [Abstract!Next]_(Abstract!vars)
  OBVIOUS
<1>1. ASSUME NEW h \in Handle, NEW g \in Handle, Copy(h, g)
      PROVE  AInv' /\ Abstract!Next
  BY <1>1, CopyRefines DEF Abstract!Next
<1>2. ASSUME NEW h \in Handle, NEW g \in Handle, Move(h, g)
      PROVE  AInv' /\ Abstract!Next
  BY <1>2, MoveRefines DEF Abstract!Next
<1>3. ASSUME NEW h \in Handle, NEW g \in Handle, NEW T \in Types, Cast(h, g, T)
      PROVE  AInv' /\ Abstract!Next
  BY <1>3, CastRefines DEF Abstract!Next
<1>4. ASSUME NEW h \in Handle, NEW s \in Ranges, Assign(h, s)
      PROVE  AInv' /\ Abstract!Next
  BY <1>4, AssignRefines DEF Abstract!Next
<1>5. ASSUME NEW h \in Handle, NEW i \in 0 .. MaxSize, NEW s \in Ranges, InsertRange(h, i, s)
      PROVE  AInv' /\ Abstract!Next
  <2>1. i \in Nat /\ i \in 0 .. Len(Abstract!Seq0(h))
    BY <1>5, PositionsOf DEF InsertRange
  <2>2. AInv' /\ Abstract!Insert(h, i, s)
    BY <1>5, <2>1, InsertRangeRefines
  <2> QED
    BY <2>1, <2>2 DEF Abstract!Next
<1>6. ASSUME NEW h \in Handle, NEW i \in 0 .. MaxSize, NEW x \in Value, Insert(h, i, x)
      PROVE  AInv' /\ Abstract!Next
  <2>1. i \in Nat /\ i \in 0 .. Len(Abstract!Seq0(h))
    BY <1>6, PositionsOf DEF Insert
  <2>2. AInv' /\ Abstract!Insert(h, i, <<x>>)
    BY <1>6, <2>1, InsertRefines
  <2>3. <<x>> \in Ranges \union {<<y>> : y \in Value}
    OBVIOUS
  <2> QED
    BY <2>1, <2>2, <2>3 DEF Abstract!Next
<1>7. ASSUME NEW h \in Handle, NEW i \in 0 .. MaxSize, NEW j \in 0 .. MaxSize, EraseRange(h, i, j)
      PROVE  AInv' /\ Abstract!Next
  <2>1. i \in Nat /\ i \in 0 .. Len(Abstract!Seq0(h)) /\ j \in Nat /\ j \in 0 .. Len(Abstract!Seq0(h))
    BY <1>7, PositionsOf DEF EraseRange
  <2>2. AInv' /\ Abstract!Erase(h, i, j)
    BY <1>7, <2>1, EraseRangeRefines
  <2> QED
    BY <2>1, <2>2 DEF Abstract!Next
<1>8. ASSUME NEW h \in Handle, PopBack(h) \/ Clear(h)
      PROVE  AInv' /\ Abstract!Next
  BY <1>8, PopBackRefines, ClearRefines DEF Abstract!Next
<1>9. ASSUME NEW h \in Handle, NEW n \in Lengths, Resize(h, n) \/ Reserve(h, n) \/ EraseAt(h, n)
      PROVE  AInv' /\ Abstract!Next
  <2>1. n \in Int
    BY ArrayAssumption
  <2> QED
    BY <1>9, <2>1, ResizeRefines, ReserveRefines, EraseAtRefines DEF Abstract!Next
<1>10. ASSUME NEW h \in Handle, NEW n \in Lengths, NEW x \in Value, SetItem(h, n, x)
       PROVE  AInv' /\ Abstract!Next
  <2>1. n \in Int
    BY ArrayAssumption
  <2> QED
    BY <1>10, <2>1, SetItemRefines DEF Abstract!Next
<1>11. ASSUME NEW h \in Handle, NEW x \in Value, PushBack(h, x)
       PROVE  AInv' /\ Abstract!Next
  BY <1>11, PushBackRefines DEF Abstract!Next
<1>12. ASSUME NEW h \in Handle, NEW g \in Handle, NEW c \in BOOLEAN, Apply(h, g, FALSE, c)
       PROVE  AInv' /\ Abstract!Next
  BY <1>12, MapRefines DEF Abstract!Next
<1>13. ASSUME NEW h \in Handle, Apply(h, h, TRUE, TRUE)
       PROVE  AInv' /\ Abstract!Next
  BY <1>13, MutateRefines DEF Abstract!Next
<1>14. ASSUME NEW x \in Elem,
              \/ ReturnSame(x) \/ ReturnOther(x)
              \/ ReturnInto(Data, "in place", x) \/ ReturnInto(Output, "copy", x)
       PROVE  AInv' /\ Abstract!Next
  <2>1. AInv' /\ Abstract!Mapped(x)
    BY <1>14, ReturnSameRefines, ReturnOtherRefines, ReturnInPlaceRefines, ReturnCopyRefines
  <2>2. x \in Abstract!Elem
    BY DEF Elem, Abstract!Elem
  <2> QED
    BY <2>1, <2>2 DEF Abstract!Next
<1>15. CASE Throw
  BY <1>15, ThrowRefines DEF Abstract!Next
<1>16. CASE Finish
  BY <1>16, FinishRefines DEF Abstract!Next
<1>17. CASE UNCHANGED vars
  BY <1>17, StutterStep DEF Abstract!vars
<1> QED
  BY <1>1, <1>2, <1>3, <1>4, <1>5, <1>6, <1>7, <1>8, <1>9, <1>10, <1>11, <1>12, <1>13, <1>14,
     <1>15, <1>16, <1>17 DEF Next, Member

\* For every number of handles and blocks, every length, and whatever shares
\* what: exactly the slots below size_ hold an element, through every insertion,
\* removal, relocation and half-done map of array.h.
THEOREM SlotsAlwaysConstructed == Spec => [](TypeOK /\ SlotsConstructed)
<1>1. Init => AInv
  BY InitRefines
<1>2. AInv /\ [Next]_vars => AInv'
  BY StepRefines
<1>3. AInv => TypeOK /\ SlotsConstructed
  <2> SUFFICES ASSUME AInv PROVE TypeOK /\ SlotsConstructed
    OBVIOUS
  <2>1. TypeOK
    BY DEF AInv, HeapInv, JobInv, TypeOK
  <2>2. SlotsConstructed
    BY DEF AInv, HeapInv, Sound, SlotsConstructed
  <2> QED
    BY <2>1, <2>2
<1> QED
  BY <1>1, <1>2, <1>3, PTL DEF Spec

\* A handle refers to a block or to nothing, an allocated block is an ArrayObj with
\* a size within its capacity, and the loop of a map that waits for its callback has
\* the locals Map and MutateByApply have there.
THEOREM ArrayTypeCorrect == Spec => []TypeOK
<1>1. Init => AInv
  BY InitRefines
<1>2. AInv /\ [Next]_vars => AInv'
  BY StepRefines
<1>3. AInv => TypeOK
  BY DEF AInv, HeapInv, JobInv, TypeOK
<1> QED
  BY <1>1, <1>2, <1>3, PTL DEF Spec

\* Copy on write is invisible: the handles of ffi::Array are independent
\* sequences, and a map works on what it was given (CopyOnWrite,
\* SwitchContainer, MapHelper).
THEOREM ArrayRefinesSequences == Spec => ImplementsSequences
<1>1. Init => AInv /\ Abstract!Init
  BY InitRefines
<1>2. AInv /\ [Next]_vars => AInv' /\ [Abstract!Next]_(Abstract!vars)
  BY StepRefines
<1> QED
  BY <1>1, <1>2, PTL DEF Spec, ImplementsSequences, Abstract!Spec
=============================================================================
