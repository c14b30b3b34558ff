------------------------ MODULE ObjectRefCountProofs ------------------------
(***************************************************************************)
(* Proofs about ObjectRefCount and RefCountMemoryOrder for every finite    *)
(* set of handles smaller than the range of one half of the counter.       *)
(***************************************************************************)
EXTENDS RefCountMemoryOrder, FiniteSetTheorems, TLAPS

-----------------------------------------------------------------------------
(* Counting sets of handles.                                               *)

\* A set of handles has a size that fits one half of the counter.
LEMMA HandleSetSize ==
  ASSUME NEW S \in SUBSET Handle
  PROVE  /\ IsFiniteSet(S)
         /\ Cardinality(S) \in Nat
         /\ Cardinality(S) < CountLimit
         /\ Cardinality(S) = 0 <=> S = {}
<1>1. IsFiniteSet(S) /\ Cardinality(S) <= Cardinality(Handle)
  BY HandleAssumption, FS_Subset
<1>2. Cardinality(S) \in Nat /\ Cardinality(Handle) \in Nat
  BY <1>1, HandleAssumption, FS_CardinalityType
<1>3. Cardinality(S) = 0 <=> S = {}
  BY <1>1, FS_EmptySet
<1> QED
  BY <1>1, <1>2, <1>3, HandleAssumption, CountLimitAssumption

\* Adding a handle to a set it is not in adds one to the size.
LEMMA AddHandle ==
  ASSUME NEW S \in SUBSET Handle, NEW h \in Handle, h \notin S
  PROVE  Cardinality(S \union {h}) = Cardinality(S) + 1
BY HandleSetSize, FS_AddElement

\* Removing a handle of the set takes one from the size, which was not zero;
\* when the size was one, nothing is left.
LEMMA RemoveHandle ==
  ASSUME NEW S \in SUBSET Handle, NEW h \in S
  PROVE  /\ Cardinality(S \ {h}) = Cardinality(S) - 1
         /\ Cardinality(S) # 0
         /\ Cardinality(S) = 1 <=> S \ {h} = {}
<1>1. Cardinality(S \ {h}) = Cardinality(S) - 1
  BY HandleSetSize, FS_RemoveElement
<1>2. S \ {h} \in SUBSET Handle
  OBVIOUS
<1>3. Cardinality(S) \in Nat /\ Cardinality(S \ {h}) \in Nat
  BY <1>2, HandleSetSize
<1>4. Cardinality(S \ {h}) = 0 <=> S \ {h} = {}
  BY <1>2, HandleSetSize
<1>5. Cardinality(S) # 0
  BY HandleSetSize
<1> QED
  BY <1>1, <1>3, <1>4, <1>5

\* Replacing one handle of a set by another keeps the size.
LEMMA SwapHandle ==
  ASSUME NEW S \in SUBSET Handle, NEW g \in S, NEW h \in Handle, h \notin S
  PROVE  Cardinality((S \ {g}) \union {h}) = Cardinality(S)
<1> DEFINE T == S \ {g}
<1>1. T \in SUBSET Handle /\ h \notin T
  OBVIOUS
<1>2. Cardinality(T \union {h}) = Cardinality(T) + 1
  BY <1>1, AddHandle
<1>3. Cardinality(T) = Cardinality(S) - 1
  BY RemoveHandle
<1>4. Cardinality(S) \in Nat
  BY HandleSetSize
<1> QED
  BY <1>2, <1>3, <1>4

\* A set of handles and one more handle outside it still fit.
LEMMA RoomForOne ==
  ASSUME NEW S \in SUBSET Handle, NEW h \in Handle, h \notin S
  PROVE  Cardinality(S) + 1 < CountLimit
<1>1. S \union {h} \in SUBSET Handle
  OBVIOUS
<1> QED
  BY <1>1, AddHandle, HandleSetSize

-----------------------------------------------------------------------------
(* Arithmetic on the word away from its limits.                            *)

LEMMA WordSteps ==
  ASSUME NEW c \in Word
  PROVE  /\ AddStrong(c) \in Word /\ SubStrong(c) \in Word
         /\ AddWeak(c) \in Word /\ SubWeak(c) \in Word
         /\ c.s + 1 < CountLimit => AddStrong(c) = [s |-> c.s + 1, w |-> c.w]
         /\ c.s # 0 => SubStrong(c) = [s |-> c.s - 1, w |-> c.w]
         /\ c.w + 1 < CountLimit => AddWeak(c) = [s |-> c.s, w |-> c.w + 1]
         /\ c.w # 0 => SubWeak(c) = [s |-> c.s, w |-> c.w - 1]
BY CountLimitAssumption
   DEF Word, Half, AddStrong, SubStrong, AddWeak, SubWeak, Up, Down

LEMMA WordConstants == Zero \in Word /\ BothOne \in Word /\ WeakOne \in Word
BY CountLimitAssumption DEF Word, Half, Zero, BothOne, WeakOne
-----------------------------------------------------------------------------
(* The inductive invariant: it holds initially and every action preserves  *)
(* it.  In each proof the sets of strong and of weak handles after the     *)
(* step come first, then the conjuncts of the invariant.                   *)

LEMMA HandleSets ==
  /\ Strong \in SUBSET Handle
  /\ Weak \in SUBSET Handle
  /\ SharedWeak \in {0, 1}
BY DEF Strong, Weak, SharedWeak

LEMMA InitIInv == Init => IInv
<1> SUFFICES ASSUME Init PROVE IInv
  OBVIOUS
<1>1. TypeOK
  BY WordConstants DEF Init, TypeOK, State
<1>2. CountMatchesHandles /\ SingleReleaser /\ StageMatchesMemory
  BY DEF Init, CountMatchesHandles, SingleReleaser, StageMatchesMemory, Releasing
<1>3. LastReference /\ LockPinsWeak
  BY DEF Init, LastReference, LockPinsWeak
<1> QED
  BY <1>1, <1>2, <1>3 DEF IInv

LEMMA MakeObjectStep ==
  ASSUME IInv, NEW h \in Handle, MakeObject(h)
  PROVE  IInv'
<1> USE DEF IInv, MakeObject
<1>1. TypeOK'
  BY WordConstants DEF TypeOK, State
<1>2. \A k \in Handle : ref[k] = "null" /\ from[k] = NoHandle
  BY DEF StageMatchesMemory, LockPinsWeak
<1>3. ref' = [k \in Handle |-> IF k = h THEN "strong" ELSE "null"]
  BY <1>2 DEF TypeOK
<1>4. Strong' = {h} /\ Weak' = {} /\ SharedWeak' = 1
  BY <1>3 DEF Strong, Weak, SharedWeak, Holding
<1>5. CountMatchesHandles'
  BY <1>4, FS_Singleton, FS_EmptySet DEF CountMatchesHandles, BothOne
<1>6. SingleReleaser' /\ LastReference'
  BY <1>3 DEF SingleReleaser, LastReference, Releasing
<1>7. StageMatchesMemory'
  BY <1>3 DEF StageMatchesMemory
<1>8. LockPinsWeak'
  BY <1>2, <1>3 DEF LockPinsWeak
<1> QED
  BY <1>1, <1>5, <1>6, <1>7, <1>8

LEMMA IncRefStep ==
  ASSUME IInv, NEW g \in Handle, NEW h \in Handle, IncRef(g, h)
  PROVE  IInv'
<1> USE DEF IInv, IncRef
<1>1. ref' = [k \in Handle |-> IF k = h THEN "strong" ELSE ref[k]]
  BY DEF TypeOK
<1>2. Strong' = Strong \union {h} /\ h \notin Strong /\ Weak' = Weak
  BY <1>1 DEF Strong, Weak
<1>3. SharedWeak = 1 /\ SharedWeak' = 1
  BY <1>1 DEF SharedWeak, Holding
<1>4. count.s = Cardinality(Strong) /\ count.w = Cardinality(Weak) + 1
  BY <1>3 DEF StageMatchesMemory, CountMatchesHandles
<1>5. count' = [s |-> count.s + 1, w |-> count.w]
  BY <1>2, <1>4, HandleSets, RoomForOne, WordSteps DEF TypeOK
<1>6. TypeOK'
  BY <1>1, WordSteps DEF TypeOK, State
<1>7. CountMatchesHandles'
  BY <1>2, <1>3, <1>4, <1>5, HandleSets, AddHandle DEF CountMatchesHandles
<1>8. SingleReleaser'
  BY <1>1 DEF SingleReleaser, Releasing
<1>9. StageMatchesMemory'
  BY <1>1 DEF StageMatchesMemory
<1>10. LastReference' /\ LockPinsWeak'
  BY <1>1, <1>2 DEF LastReference, LockPinsWeak
<1> QED
  BY <1>6, <1>7, <1>8, <1>9, <1>10

LEMMA IncWeakRefStep ==
  ASSUME IInv, NEW g \in Handle, NEW h \in Handle, IncWeakRef(g, h)
  PROVE  IInv'
<1> USE DEF IInv, IncWeakRef
<1>1. ref' = [k \in Handle |-> IF k = h THEN "weak" ELSE ref[k]]
  BY DEF TypeOK
<1>2. Strong' = Strong /\ Weak' = Weak \union {h} /\ h \notin Weak
  BY <1>1 DEF Strong, Weak
<1>3. SharedWeak' = SharedWeak
  BY <1>1 DEF SharedWeak, Holding
<1>4. count.s = Cardinality(Strong) /\ count.w = Cardinality(Weak) + SharedWeak
  BY DEF StageMatchesMemory, CountMatchesHandles
<1>5. Cardinality(Weak) + 1 + SharedWeak < CountLimit
  <2>1. CASE SharedWeak = 0
    BY <1>2, <2>1, HandleSets, RoomForOne, HandleSetSize
  <2>2. CASE SharedWeak = 1
    <3>1. PICK k \in Handle : ref[k] \in Holding
      BY <2>2 DEF SharedWeak
    <3>2. k \notin Weak \union {h}
      BY <3>1 DEF Weak, Holding
    <3>3. Cardinality(Weak \union {h}) + 1 < CountLimit
      BY <3>2, HandleSets, RoomForOne
    <3> QED
      BY <1>2, <2>2, <3>3, HandleSets, AddHandle
  <2> QED
    BY <2>1, <2>2, HandleSets
<1>6. count' = [s |-> count.s, w |-> count.w + 1]
  BY <1>4, <1>5, HandleSets, HandleSetSize, WordSteps DEF TypeOK
<1>7. TypeOK'
  BY <1>1, WordSteps DEF TypeOK, State
<1>8. CountMatchesHandles'
  BY <1>2, <1>3, <1>4, <1>6, HandleSets, HandleSetSize, AddHandle
     DEF CountMatchesHandles
<1>9. SingleReleaser'
  BY <1>1 DEF SingleReleaser, Releasing
<1>10. StageMatchesMemory'
  BY <1>1 DEF StageMatchesMemory
<1>11. LastReference'
  BY <1>1, <1>2 DEF LastReference, SingleReleaser, Releasing, Weak
<1>12. LockPinsWeak'
  BY <1>1, <1>2 DEF LockPinsWeak
<1> QED
  BY <1>7, <1>8, <1>9, <1>10, <1>11, <1>12
LEMMA MoveStep ==
  ASSUME IInv, NEW g \in Handle, NEW h \in Handle, Move(g, h)
  PROVE  IInv'
<1> USE DEF IInv, Move
<1>1. g # h /\ ref' = [k \in Handle |-> IF k = h THEN ref[g]
                                        ELSE IF k = g THEN "null" ELSE ref[k]]
  BY DEF TypeOK
<1>2. \A k \in Handle : from[k] # g
  BY DEF BeingLocked
<1>3. Cardinality(Strong') = Cardinality(Strong)
  <2>1. CASE ref[g] = "strong"
    <3>1. g \in Strong /\ h \notin Strong /\ Strong' = (Strong \ {g}) \union {h}
      BY <1>1, <2>1 DEF Strong
    <3> QED
      BY <3>1, HandleSets, SwapHandle
  <2>2. CASE ref[g] = "weak"
    BY <1>1, <2>2 DEF Strong
  <2> QED
    BY <2>1, <2>2
<1>4. Cardinality(Weak') = Cardinality(Weak)
  <2>1. CASE ref[g] = "weak"
    <3>1. g \in Weak /\ h \notin Weak /\ Weak' = (Weak \ {g}) \union {h}
      BY <1>1, <2>1 DEF Weak
    <3> QED
      BY <3>1, HandleSets, SwapHandle
  <2>2. CASE ref[g] = "strong"
    BY <1>1, <2>2 DEF Weak
  <2> QED
    BY <2>1, <2>2
<1>5. SharedWeak' = SharedWeak
  <2>1. (\E k \in Handle : ref[k] \in Holding) <=> (\E k \in Handle : ref'[k] \in Holding)
    BY <1>1 DEF Holding
  <2> QED
    BY <2>1 DEF SharedWeak
<1>6. TypeOK'
  BY <1>1 DEF TypeOK, State
<1>7. CountMatchesHandles'
  BY <1>3, <1>4, <1>5 DEF CountMatchesHandles
<1>8. SingleReleaser'
  BY <1>1 DEF SingleReleaser, Releasing
<1>9. StageMatchesMemory'
  BY <1>1 DEF StageMatchesMemory
<1>10. LastReference'
  BY <1>1 DEF LastReference, SingleReleaser, Releasing, Weak
<1>11. LockPinsWeak'
  <2> SUFFICES ASSUME NEW k \in Handle
               PROVE  IF ref'[k] = "locking"
                        THEN from[k] \in Weak' /\ seen[k].s # 0
                        ELSE from[k] = NoHandle
    BY DEF LockPinsWeak
  <2>1. (ref'[k] = "locking") <=> (ref[k] = "locking")
    BY <1>1
  <2>2. ASSUME ref[k] = "locking"
        PROVE  from[k] \in Weak'
    BY <1>1, <1>2, <2>2 DEF LockPinsWeak, Weak
  <2> QED
    BY <2>1, <2>2 DEF LockPinsWeak
<1> QED
  BY <1>6, <1>7, <1>8, <1>9, <1>10, <1>11

LEMMA DecRefStep ==
  ASSUME IInv, NEW h \in Handle, DecRef(h)
  PROVE  IInv'
<1> USE DEF IInv, DecRef
<1> DEFINE stage == IF count = BothOne THEN "both"
                    ELSE IF count.s = 1 THEN "strong_gone" ELSE "null"
<1>1. ref' = [k \in Handle |-> IF k = h THEN stage ELSE ref[k]]
  BY DEF TypeOK
<1>2. h \in Strong /\ Strong' = Strong \ {h} /\ Weak' = Weak
  BY <1>1 DEF Strong, Weak
<1>3. memory = "live" /\ SharedWeak = 1
  BY DEF StageMatchesMemory, SharedWeak, Holding
<1>4. count.s = Cardinality(Strong) /\ count.w = Cardinality(Weak) + 1
  BY <1>3 DEF CountMatchesHandles
<1>5. /\ Cardinality(Strong') = count.s - 1
      /\ count.s # 0
      /\ count.s = 1 <=> Strong' = {}
  BY <1>2, <1>4, HandleSets, RemoveHandle
<1>6. count = BothOne => count.s = 1 /\ Weak = {}
  BY <1>4, HandleSets, HandleSetSize DEF BothOne
<1>7. count' = [s |-> count.s - 1, w |-> count.w]
  BY <1>5, WordSteps DEF TypeOK
<1>8. SharedWeak' = 1
  <2>1. CASE stage = "null"
    <3>1. PICK k \in Handle : k # h /\ ref[k] = "strong"
      BY <1>2, <1>5, <1>6, <2>1 DEF Strong
    <3> QED
      BY <1>1, <3>1 DEF SharedWeak, Holding
  <2>2. CASE stage # "null"
    BY <1>1, <2>2 DEF SharedWeak, Holding
  <2> QED
    BY <2>1, <2>2
<1>9. TypeOK'
  BY <1>1, WordSteps DEF TypeOK, State, Releasing
<1>10. CountMatchesHandles'
  BY <1>2, <1>4, <1>5, <1>7, <1>8 DEF CountMatchesHandles
<1>11. SingleReleaser'
  <2>1. \A k \in Handle : ref[k] \notin Releasing
    BY DEF SingleReleaser
  <2>2. \A k \in Handle : ref'[k] \in Releasing => k = h /\ Strong' = {}
    BY <1>1, <1>5, <1>6, <2>1 DEF Releasing
  <2> QED
    BY <2>2 DEF SingleReleaser, Strong
<1>12. StageMatchesMemory'
  <2>1. \E k \in Handle : ref'[k] \in {"strong", "both", "strong_gone"}
    <3>1. CASE stage = "null"
      BY <1>1, <1>2, <1>5, <1>6, <3>1 DEF Strong
    <3>2. CASE stage # "null"
      BY <1>1, <3>2
    <3> QED
      BY <3>1, <3>2
  <2> QED
    BY <1>1, <1>3, <2>1 DEF StageMatchesMemory
<1>13. LastReference'
  BY <1>1, <1>2, <1>6 DEF LastReference
<1>14. LockPinsWeak'
  BY <1>1, <1>2 DEF LockPinsWeak
<1> QED
  BY <1>9, <1>10, <1>11, <1>12, <1>13, <1>14

LEMMA DestroyStep ==
  ASSUME IInv, NEW h \in Handle, Destroy(h)
  PROVE  IInv'
<1> USE DEF IInv, Destroy
<1> DEFINE stage == IF ref[h] = "both" THEN "both_destroyed" ELSE "release_weak"
<1>1. ref' = [k \in Handle |-> IF k = h THEN stage ELSE ref[k]]
  BY DEF TypeOK
<1>2. Strong' = Strong /\ Weak' = Weak /\ SharedWeak' = 1 /\ SharedWeak = 1
  BY <1>1 DEF Strong, Weak, SharedWeak, Holding
<1>3. memory # "unallocated"
  BY DEF StageMatchesMemory
<1>4. TypeOK'
  BY <1>1 DEF TypeOK, State, Releasing
<1>5. CountMatchesHandles'
  BY <1>2, <1>3 DEF CountMatchesHandles
<1>6. SingleReleaser'
  BY <1>1 DEF SingleReleaser, Releasing
<1>7. StageMatchesMemory'
  BY <1>1, <1>3 DEF StageMatchesMemory, SingleReleaser, Releasing
<1>8. LastReference' /\ LockPinsWeak'
  BY <1>1, <1>2 DEF LastReference, LockPinsWeak
<1> QED
  BY <1>4, <1>5, <1>6, <1>7, <1>8
LEMMA DecWeakRefStep ==
  ASSUME IInv, NEW h \in Handle, DecWeakRef(h)
  PROVE  IInv'
<1> USE DEF IInv, DecWeakRef
<1> DEFINE stage == IF count = WeakOne THEN "weak_gone" ELSE "null"
<1>1. ref' = [k \in Handle |-> IF k = h THEN stage ELSE ref[k]]
  BY DEF TypeOK
<1>2. Strong' = Strong
  BY <1>1 DEF Strong
<1>3. /\ count.s = Cardinality(Strong)
      /\ count.w = Cardinality(Weak) + SharedWeak
  BY DEF CountMatchesHandles, StageMatchesMemory
<1>4. /\ count.w # 0
      /\ Cardinality(Weak') + SharedWeak' = count.w - 1
  <2>1. CASE ref[h] = "weak"
    <3>1. h \in Weak /\ Weak' = Weak \ {h}
      BY <1>1, <2>1 DEF Weak
    <3>2. SharedWeak' = SharedWeak
      <4>1. (\E k \in Handle : ref'[k] \in Holding)
              <=> (\E k \in Handle : ref[k] \in Holding)
        BY <1>1, <2>1 DEF Holding
      <4> QED
        BY <4>1 DEF SharedWeak
    <3> QED
      BY <1>3, <3>1, <3>2, HandleSets, HandleSetSize, RemoveHandle
  <2>2. CASE ref[h] = "release_weak"
    <3>1. Weak' = Weak
      BY <1>1, <2>2 DEF Weak
    <3>2. SharedWeak = 1
      BY <2>2 DEF SharedWeak, Holding
    <3>3. SharedWeak' = 0
      <4>1. \A k \in Handle : k # h => ref[k] \notin Holding
        BY <2>2 DEF SingleReleaser, Holding, Releasing
      <4> QED
        BY <1>1, <4>1 DEF SharedWeak, Holding
    <3> QED
      BY <1>3, <3>1, <3>2, <3>3, HandleSets, HandleSetSize
  <2> QED
    BY <2>1, <2>2
<1>5. count' = [s |-> count.s, w |-> count.w - 1]
  BY <1>4, WordSteps DEF TypeOK
<1>6. /\ Weak' \in SUBSET Handle
      /\ SharedWeak' \in {0, 1}
  BY DEF Weak, SharedWeak
<1>7. count = WeakOne => Weak' = {} /\ SharedWeak' = 0
  BY <1>4, <1>6, HandleSetSize DEF WeakOne
<1>8. TypeOK'
  BY <1>1, WordSteps DEF TypeOK, State, Releasing
<1>9. CountMatchesHandles'
  BY <1>2, <1>3, <1>4, <1>5, <1>6, HandleSetSize DEF CountMatchesHandles
<1>10. SingleReleaser'
  <2>1. CASE count = WeakOne
    <3>1. \A k \in Handle : ref'[k] \notin Holding /\ ref'[k] # "weak"
      BY <1>7, <2>1 DEF SharedWeak, Weak
    <3>2. \A k \in Handle : k # h => ref[k] # "weak_gone"
      <4>1. ref[h] = "weak" => \A k \in Handle : ref[k] # "weak_gone"
        BY DEF LastReference, Weak
      <4>2. ref[h] = "release_weak" =>
              \A k \in Handle : k # h => ref[k] # "weak_gone"
        BY DEF SingleReleaser, Releasing
      <4> QED
        BY <4>1, <4>2
    <3>3. \A k \in Handle : ref'[k] \in Releasing => k = h
      BY <1>1, <3>1, <3>2 DEF Releasing, Holding
    <3> QED
      BY <3>1, <3>3 DEF SingleReleaser, Holding
  <2>2. CASE count # WeakOne
    BY <1>1, <2>2 DEF SingleReleaser, Releasing
  <2> QED
    BY <2>1, <2>2
<1>11. StageMatchesMemory'
  <2>1. count = WeakOne => memory = "destroyed"
    <3>1. CASE ref[h] = "weak"
      <4> SUFFICES ASSUME count = WeakOne, memory # "destroyed" PROVE FALSE
        OBVIOUS
      <4>1. memory = "live"
        BY <3>1 DEF TypeOK, StageMatchesMemory
      <4>2. PICK k \in Handle : ref[k] \in {"strong", "both", "strong_gone"}
        BY <4>1 DEF StageMatchesMemory
      <4>3. ref'[k] \in Holding
        BY <1>1, <3>1, <4>2 DEF Holding
      <4> QED
        BY <1>7, <4>3 DEF SharedWeak
    <3>2. CASE ref[h] = "release_weak"
      BY <3>2 DEF StageMatchesMemory
    <3> QED
      BY <3>1, <3>2
  <2> QED
    BY <1>1, <2>1 DEF StageMatchesMemory
<1>12. LastReference'
  <2>1. Weak' \subseteq Weak
    BY <1>1 DEF Weak
  <2> QED
    BY <1>1, <1>7, <2>1 DEF LastReference
<1>13. LockPinsWeak'
  <2>1. \A k \in Handle : from[k] # h
    BY DEF BeingLocked
  <2> QED
    BY <1>1, <2>1 DEF LockPinsWeak, Weak
<1> QED
  BY <1>8, <1>9, <1>10, <1>11, <1>12, <1>13

LEMMA FreeStep ==
  ASSUME IInv, NEW h \in Handle, Free(h)
  PROVE  IInv'
<1> USE DEF IInv, Free
<1>1. ref' = [k \in Handle |-> IF k = h THEN "null" ELSE ref[k]]
  BY DEF TypeOK
<1>2. \A k \in Handle : ref'[k] = "null"
  <2> SUFFICES ASSUME NEW k \in Handle, k # h PROVE ref[k] = "null"
    BY <1>1
  <2>1. ref[k] # "strong" /\ ref[k] \notin Releasing
    BY DEF SingleReleaser, Releasing
  <2>2. ref[k] # "weak"
    BY DEF LastReference, Weak
  <2>3. ref[k] # "locking"
    BY DEF LastReference, LockPinsWeak
  <2> QED
    BY <2>1, <2>2, <2>3 DEF TypeOK, State
<1>3. TypeOK'
  BY <1>1 DEF TypeOK, State
<1>4. CountMatchesHandles' /\ SingleReleaser' /\ StageMatchesMemory'
  BY <1>2 DEF CountMatchesHandles, SingleReleaser, StageMatchesMemory, Releasing
<1>5. LastReference'
  BY <1>2 DEF LastReference
<1>6. LockPinsWeak'
  BY <1>1, <1>2 DEF LockPinsWeak
<1> QED
  BY <1>3, <1>4, <1>5, <1>6

LEMMA LockLoadStep ==
  ASSUME IInv, NEW g \in Handle, NEW h \in Handle, LockLoad(g, h)
  PROVE  IInv'
<1> USE DEF IInv, LockLoad
<1>1. ref' = [k \in Handle |-> IF k = h THEN "locking" ELSE ref[k]]
  BY DEF TypeOK
<1>2. Strong' = Strong /\ Weak' = Weak /\ SharedWeak' = SharedWeak
  BY <1>1 DEF Strong, Weak, SharedWeak, Holding
<1>3. TypeOK'
  BY <1>1 DEF TypeOK, State
<1>4. CountMatchesHandles'
  BY <1>2 DEF CountMatchesHandles
<1>5. SingleReleaser' /\ LastReference'
  BY <1>1, <1>2 DEF SingleReleaser, LastReference, Releasing
<1>6. StageMatchesMemory'
  BY <1>1 DEF StageMatchesMemory
<1>7. LockPinsWeak'
  BY <1>1, <1>2 DEF LockPinsWeak, Weak, TypeOK
<1> QED
  BY <1>3, <1>4, <1>5, <1>6, <1>7

LEMMA LockSucceedStep ==
  ASSUME IInv, NEW h \in Handle, LockSucceed(h)
  PROVE  IInv'
<1> USE DEF IInv, LockSucceed, LockDone
<1>1. ref' = [k \in Handle |-> IF k = h THEN "strong" ELSE ref[k]]
  BY DEF TypeOK
<1>2. Strong' = Strong \union {h} /\ h \notin Strong /\ Weak' = Weak
  BY <1>1 DEF Strong, Weak
<1>3. memory # "unallocated" /\ count.s # 0
  BY DEF StageMatchesMemory, LockPinsWeak
<1>4. count.s = Cardinality(Strong) /\ count.w = Cardinality(Weak) + SharedWeak
  BY <1>3 DEF CountMatchesHandles
<1>5. PICK k \in Handle : ref[k] = "strong"
  BY <1>3, <1>4, HandleSets, HandleSetSize DEF Strong
<1>6. SharedWeak = 1 /\ SharedWeak' = 1 /\ memory = "live"
  BY <1>1, <1>5 DEF SharedWeak, Holding, StageMatchesMemory
<1>7. count' = [s |-> count.s + 1, w |-> count.w]
  BY <1>2, <1>4, HandleSets, RoomForOne, WordSteps DEF TypeOK
<1>8. TypeOK'
  BY <1>1, WordSteps, WordConstants DEF TypeOK, State
<1>9. CountMatchesHandles'
  BY <1>2, <1>4, <1>6, <1>7, HandleSets, AddHandle DEF CountMatchesHandles
<1>10. SingleReleaser'
  BY <1>1, <1>5 DEF SingleReleaser, Releasing
<1>11. StageMatchesMemory'
  BY <1>1, <1>6 DEF StageMatchesMemory
<1>12. LastReference'
  BY <1>1, <1>2 DEF LastReference
<1>13. LockPinsWeak'
  BY <1>1, <1>2 DEF LockPinsWeak, TypeOK
<1> QED
  BY <1>8, <1>9, <1>10, <1>11, <1>12, <1>13

LEMMA LockRetryStep ==
  ASSUME IInv, NEW h \in Handle, LockRetry(h)
  PROVE  IInv'
<1> USE DEF IInv, LockRetry
<1>1. Strong' = Strong /\ Weak' = Weak /\ SharedWeak' = SharedWeak
  BY DEF Strong, Weak, SharedWeak
<1>2. TypeOK'
  BY DEF TypeOK
<1>3. CountMatchesHandles' /\ SingleReleaser' /\ StageMatchesMemory'
  BY <1>1 DEF CountMatchesHandles, SingleReleaser, StageMatchesMemory
<1>4. LastReference' /\ LockPinsWeak'
  BY <1>1 DEF LastReference, LockPinsWeak, TypeOK
<1> QED
  BY <1>2, <1>3, <1>4

LEMMA LockFailStep ==
  ASSUME IInv, NEW h \in Handle, LockFail(h)
  PROVE  IInv'
<1> USE DEF IInv, LockFail, LockDone
<1>1. ref' = [k \in Handle |-> IF k = h THEN "null" ELSE ref[k]]
  BY DEF TypeOK
<1>2. Strong' = Strong /\ Weak' = Weak /\ SharedWeak' = SharedWeak
  BY <1>1 DEF Strong, Weak, SharedWeak, Holding
<1>3. TypeOK'
  BY <1>1, WordConstants DEF TypeOK, State
<1>4. CountMatchesHandles'
  BY <1>2 DEF CountMatchesHandles
<1>5. SingleReleaser' /\ LastReference'
  BY <1>1, <1>2 DEF SingleReleaser, LastReference, Releasing
<1>6. StageMatchesMemory'
  BY <1>1 DEF StageMatchesMemory
<1>7. LockPinsWeak'
  BY <1>1, <1>2 DEF LockPinsWeak, TypeOK
<1> QED
  BY <1>3, <1>4, <1>5, <1>6, <1>7

LEMMA StutterStep ==
  ASSUME IInv, UNCHANGED vars
  PROVE  IInv'
BY DEF vars, IInv, TypeOK, CountMatchesHandles, SingleReleaser,
       StageMatchesMemory, LastReference, LockPinsWeak, Strong, Weak, SharedWeak

LEMMA NextIInv == IInv /\ [Next]_vars => IInv'
BY MakeObjectStep, IncRefStep, IncWeakRefStep, MoveStep, DecRefStep,
   DestroyStep, DecWeakRefStep, FreeStep, LockLoadStep, LockSucceedStep,
   LockRetryStep, LockFailStep, StutterStep
   DEF Next
-----------------------------------------------------------------------------
(* The theorems.                                                           *)

\* Types and the inductive invariant hold in every reachable state.
THEOREM Invariance == Spec => []IInv
<1>1. Init => IInv
  BY InitIInv
<1>2. IInv /\ [Next]_vars => IInv'
  BY NextIInv
<1> QED
  BY <1>1, <1>2, PTL DEF Spec

\* Every variable keeps its type; in particular neither half of the counter
\* ever leaves its range.
THEOREM TypeCorrect == Spec => []TypeOK
<1>1. IInv => TypeOK
  BY DEF IInv
<1> QED
  BY <1>1, Invariance, PTL

\* The counter of an allocated object is exactly the number of its handles,
\* for every number of handles that fits the counter.
THEOREM CountIsExact == Spec => []CountMatchesHandles
<1>1. IInv => CountMatchesHandles
  BY DEF IInv
<1> QED
  BY <1>1, Invariance, PTL

\* No handle is used after the object was destroyed or its memory freed.
THEOREM NoUseAfterFree == Spec => []NoDanglingHandle
<1>1. IInv => NoDanglingHandle
  BY DEF IInv, StageMatchesMemory, NoDanglingHandle
<1> QED
  BY <1>1, Invariance, PTL

\* Two threads never run the deleter of one object, nor does one run it while
\* another still owns the object.
THEOREM DeleterRunsAlone == Spec => []SingleReleaser
<1>1. IInv => SingleReleaser
  BY DEF IInv
<1> QED
  BY <1>1, Invariance, PTL

\* A strong count of zero is final: TryPromoteWeakPtr never revives an object.
THEOREM ZeroIsFinal == Spec => NoRevival
<1>1. IInv /\ [Next]_vars =>
        [memory # "unallocated" /\ count.s = 0 => count'.s = 0]_vars
  <2> SUFFICES ASSUME IInv, Next, memory # "unallocated", count.s = 0
               PROVE  count'.s = 0
    OBVIOUS
  <2>1. Strong = {}
    BY HandleSets, HandleSetSize DEF IInv, CountMatchesHandles
  <2>2. \A h \in Handle : ref[h] # "strong"
    BY <2>1 DEF Strong
  <2>3. ASSUME NEW h \in Handle, LockSucceed(h) PROVE FALSE
    BY <2>3 DEF LockSucceed, IInv, LockPinsWeak
  <2>4. ASSUME NEW h \in Handle, DecWeakRef(h) PROVE count'.s = 0
    BY <2>4 DEF DecWeakRef, SubWeak
  <2>5. ASSUME NEW g \in Handle, NEW h \in Handle, IncWeakRef(g, h)
        PROVE  count'.s = 0
    BY <2>5 DEF IncWeakRef, AddWeak
  <2> QED
    BY <2>2, <2>3, <2>4, <2>5
       DEF Next, MakeObject, IncRef, Move, DecRef, Destroy, Free, LockLoad,
           LockRetry, LockFail
<1> QED
  BY <1>1, Invariance, PTL DEF NoRevival, Spec
-----------------------------------------------------------------------------
(* The counter implements the abstract lifetime.                           *)

LEMMA LifetimeStep ==
  ASSUME IInv, Next
  PROVE  Lifetime!Next \/ UNCHANGED Lifetime!vars
<1> USE DEF IInv
<1>1. ASSUME NEW h \in Handle, MakeObject(h) PROVE Lifetime!Make(h)
  <2>1. ref' = [k \in Handle |-> IF k = h THEN "strong" ELSE "null"]
    BY <1>1 DEF MakeObject, StageMatchesMemory, TypeOK
  <2>2. Strong' = {h} /\ Weak' = {} /\ Weak = {}
    BY <1>1, <2>1 DEF Strong, Weak, MakeObject, StageMatchesMemory
  <2> QED
    BY <1>1, <2>2 DEF MakeObject, Lifetime!Make
<1>2. ASSUME NEW g \in Handle, NEW h \in Handle, IncRef(g, h)
      PROVE  Lifetime!Acquire(h)
  <2>1. Strong' = Strong \union {h} /\ Weak' = Weak /\ h \notin Weak /\ g \in Strong
    BY <1>2 DEF IncRef, TypeOK, Strong, Weak
  <2> QED
    BY <1>2, <2>1 DEF IncRef, Lifetime!Acquire
<1>3. ASSUME NEW g \in Handle, NEW h \in Handle, IncWeakRef(g, h)
      PROVE  Lifetime!AcquireWeak(h)
  <2>1. /\ Strong' = Strong /\ Weak' = Weak \union {h}
        /\ h \notin Strong /\ g \in Strong \union Weak
    BY <1>3 DEF IncWeakRef, TypeOK, Strong, Weak
  <2> QED
    BY <1>3, <2>1 DEF IncWeakRef, Lifetime!AcquireWeak
<1>4. ASSUME NEW g \in Handle, NEW h \in Handle, Move(g, h)
      PROVE  Lifetime!Move(g, h)
  <2>1. ref' = [k \in Handle |-> IF k = h THEN ref[g]
                                 ELSE IF k = g THEN "null" ELSE ref[k]]
    BY <1>4 DEF Move, TypeOK
  <2>2. Strong' = Lifetime!Rename(Strong, g, h)
    BY <1>4, <2>1 DEF Move, Strong, Lifetime!Rename
  <2>3. Weak' = Lifetime!Rename(Weak, g, h)
    BY <1>4, <2>1 DEF Move, Weak, Lifetime!Rename
  <2>4. h \notin Strong \union Weak
    BY <1>4 DEF Move, Strong, Weak
  <2> QED
    BY <1>4, <2>2, <2>3, <2>4 DEF Move, Lifetime!Move
<1>5. ASSUME NEW h \in Handle, DecRef(h) PROVE Lifetime!Drop(h)
  <2>1. h \in Strong /\ Strong' = Strong \ {h} /\ Weak' = Weak
    BY <1>5 DEF DecRef, TypeOK, Strong, Weak
  <2> QED
    BY <1>5, <2>1 DEF DecRef, Lifetime!Drop
<1>6. ASSUME NEW h \in Handle, Destroy(h) PROVE Lifetime!Destroy
  <2>1. Strong = {} /\ memory = "live"
    BY <1>6 DEF Destroy, SingleReleaser, Releasing, Strong, StageMatchesMemory
  <2>2. Strong' = Strong /\ Weak' = Weak
    BY <1>6 DEF Destroy, TypeOK, Strong, Weak
  <2> QED
    BY <1>6, <2>1, <2>2 DEF Destroy, Lifetime!Destroy
<1>7. ASSUME NEW h \in Handle, DecWeakRef(h)
      PROVE  Lifetime!DropWeak(h) \/ UNCHANGED Lifetime!vars
  <2>1. Strong' = Strong /\ Weak' = Weak \ {h}
    BY <1>7 DEF DecWeakRef, TypeOK, Strong, Weak
  <2> QED
    BY <1>7, <2>1 DEF DecWeakRef, Lifetime!DropWeak, Lifetime!vars
<1>8. ASSUME NEW h \in Handle, Free(h) PROVE Lifetime!Free
  <2>1. Weak = {} /\ memory = "destroyed"
    BY <1>8 DEF Free, LastReference, StageMatchesMemory
  <2>2. Strong' = Strong /\ Weak' = Weak
    BY <1>8 DEF Free, TypeOK, Strong, Weak
  <2> QED
    BY <1>8, <2>1, <2>2 DEF Free, Lifetime!Free
<1>9. ASSUME NEW h \in Handle, LockSucceed(h) PROVE Lifetime!Acquire(h)
  <2>1. Strong' = Strong \union {h} /\ Weak' = Weak /\ h \notin Weak
    BY <1>9 DEF LockSucceed, LockDone, TypeOK, Strong, Weak
  <2>2. Strong # {}
    BY <1>9, HandleSets, HandleSetSize
       DEF LockSucceed, LockPinsWeak, CountMatchesHandles, StageMatchesMemory
  <2> QED
    BY <1>9, <2>1, <2>2 DEF LockSucceed, Lifetime!Acquire
<1>10. ASSUME NEW g \in Handle, NEW h \in Handle, LockLoad(g, h)
       PROVE  UNCHANGED Lifetime!vars
  BY <1>10 DEF LockLoad, TypeOK, Strong, Weak, Lifetime!vars
<1>11. ASSUME NEW h \in Handle, LockRetry(h) \/ LockFail(h)
       PROVE  UNCHANGED Lifetime!vars
  BY <1>11 DEF LockRetry, LockFail, LockDone, TypeOK, Strong, Weak, Lifetime!vars
<1> QED
  BY <1>1, <1>2, <1>3, <1>4, <1>5, <1>6, <1>7, <1>8, <1>9, <1>10, <1>11
     DEF Next, Lifetime!Next

\* Every behaviour of the counter is a behaviour of the abstract lifetime: one
\* destruction when the strong handles are gone, one release of the memory
\* when the weak ones are.
THEOREM RefinesLifetime == Spec => ImplementsLifetime
<1>1. Init => Lifetime!Init
  BY DEF Init, Lifetime!Init, Strong, Weak
<1>2. IInv /\ [Next]_vars => [Lifetime!Next]_(Lifetime!vars)
  <2>1. UNCHANGED vars => UNCHANGED Lifetime!vars
    BY DEF vars, Lifetime!vars, Strong, Weak
  <2> QED
    BY <2>1, LifetimeStep
<1> QED
  BY <1>1, <1>2, Invariance, PTL DEF Spec, ImplementsLifetime, Lifetime!Spec

(***************************************************************************)
(* The memory orders.  The release and acquire pairs of object.h suffice:  *)
(* destruction and deallocation happen after every access.                 *)
(***************************************************************************)

LEMMA MOInitInv == MOInit => IInv /\ MOInv
BY InitIInv DEF MOInit, MOInv, MOTypeOK, Init, Releasing

\* Every step is a step of the counter protocol or leaves it alone, so its
\* invariant is available here.
LEMMA MOStepIsStep == MONext => [Next]_vars
BY DEF MONext, Next, Construct, Use, Drop, DropWeak, Destruct, Deallocate,
       Promoted, NotPromoted, Copy, Hand, Promote

LEMMA MOTypeStep ==
  ASSUME MOTypeOK, MONext
  PROVE  MOTypeOK'
<1> USE DEF MOTypeOK, Learn, Relaxed, Release, Access
<1>1. ASSUME NEW h \in Handle,
             Construct(h) \/ Use(h) \/ Destruct(h) \/ Deallocate(h) \/ Promoted(h)
      PROVE  MOTypeOK'
  BY <1>1 DEF Construct, Use, Destruct, Deallocate, Promoted
<1>2. ASSUME NEW h \in Handle, Drop(h) \/ DropWeak(h) \/ NotPromoted(h)
      PROVE  MOTypeOK'
  BY <1>2 DEF Drop, DropWeak, NotPromoted, AfterSub
<1>3. ASSUME NEW g \in Handle, NEW h \in Handle,
             Copy(g, h) \/ Hand(g, h) \/ Promote(g, h)
      PROVE  MOTypeOK'
  BY <1>3 DEF Copy, Hand, Promote
<1> QED
  BY <1>1, <1>2, <1>3 DEF MONext

LEMMA ConstructStep ==
  ASSUME IInv, MOInv, NEW h \in Handle, Construct(h)
  PROVE  MOInv'
<1>1. MOTypeOK'
  BY MOTypeStep DEF MOInv, MONext
<1>2. ref' = [k \in Handle |-> IF k = h THEN "strong" ELSE "null"]
  BY DEF Construct, MakeObject, IInv, TypeOK, StageMatchesMemory
<1>3. known'[h] = Handle /\ h \in Strong'
  BY <1>2 DEF Construct, Strong
<1> QED
  BY <1>1, <1>2, <1>3 DEF MOInv, Covered, Releasing

LEMMA UseStep ==
  ASSUME IInv, MOInv, NEW h \in Handle, Use(h)
  PROVE  MOInv'
<1>1. MOTypeOK'
  BY MOTypeStep DEF MOInv, MONext
<1>2. \A k \in Handle : ref[k] \notin Releasing
  BY DEF Use, IInv, SingleReleaser
<1>3. ref' = ref /\ memory' = memory /\ Strong' = Strong /\ h \in Strong
  BY DEF Use, vars, Strong
<1>4. memory # "unallocated"
  BY DEF Use, IInv, StageMatchesMemory
<1>5. ASSUME NEW g \in Handle PROVE Covered(g)'
  <2>1. Covered(g)
    BY <1>2, <1>4 DEF MOInv
  <2>2. CASE g = h
    BY <1>3, <2>2 DEF Use, Access, Covered
  <2>3. CASE g # h
    BY <1>3, <2>1, <2>3 DEF Use, Access, Covered, Strong
  <2> QED
    BY <2>2, <2>3
<1> QED
  BY <1>1, <1>2, <1>3, <1>5 DEF MOInv

LEMMA CopyStep ==
  ASSUME IInv, MOInv, NEW g \in Handle, NEW h \in Handle, Copy(g, h)
  PROVE  MOInv'
<1>1. MOTypeOK'
  BY MOTypeStep DEF MOInv, MONext
<1>2. /\ ref[h] = "null" /\ ref'[h] \in {"strong", "weak"}
      /\ \A k \in Handle : k # h => ref'[k] = ref[k] /\ known'[k] = known[k]
      /\ memory' = memory /\ sync' = sync
  BY DEF Copy, IncRef, IncWeakRef, IInv, TypeOK, MOInv, MOTypeOK, Learn, Relaxed
<1>3. Strong \subseteq Strong' /\ h \notin Strong
  BY <1>2 DEF Strong
<1>4. \A k \in Handle : Covered(k) => Covered(k)'
  BY <1>2, <1>3 DEF Covered, Strong
<1> QED
  BY <1>1, <1>2, <1>4 DEF MOInv, Releasing

LEMMA HandStep ==
  ASSUME IInv, MOInv, NEW g \in Handle, NEW h \in Handle, Hand(g, h)
  PROVE  MOInv'
<1>1. MOTypeOK'
  BY MOTypeStep DEF MOInv, MONext
<1>2. /\ g # h /\ ref[h] = "null" /\ ref'[g] = "null" /\ ref'[h] = ref[g]
      /\ ref[g] \in {"strong", "weak"} /\ known'[h] = known[g]
      /\ \A k \in Handle : k \notin {g, h} => ref'[k] = ref[k] /\ known'[k] = known[k]
      /\ memory' = memory /\ sync' = sync
  BY DEF Hand, Move, IInv, TypeOK, MOInv, MOTypeOK, Relaxed
<1>3. ASSUME NEW k \in Handle, Covered(k)
      PROVE  Covered(k)'
  <2>1. CASE k \in sync
    BY <1>2, <2>1 DEF Covered
  <2>2. CASE k \notin sync
    <3>1. PICK x \in Handle : ref[x] = "strong" /\ k \in known[x]
      BY <1>3, <2>2 DEF Covered, Strong
    <3>2. CASE x = g
      BY <1>2, <3>1, <3>2 DEF Covered, Strong
    <3>3. CASE x # g
      BY <1>2, <3>1, <3>3 DEF Covered, Strong
    <3> QED
      BY <3>2, <3>3
  <2> QED
    BY <2>1, <2>2
<1>4. ASSUME NEW k \in Handle
      PROVE  /\ ref[k] \in Releasing <=> ref'[k] \in Releasing
             /\ ref[k] \in Releasing => known'[k] = known[k]
  BY <1>2 DEF Releasing
<1> QED
  BY <1>1, <1>2, <1>3, <1>4 DEF MOInv

LEMMA DropStep ==
  ASSUME IInv, MOInv, NEW h \in Handle, Drop(h)
  PROVE  MOInv'
<1>1. MOTypeOK'
  BY MOTypeStep DEF MOInv, MONext
<1>2. IInv'
  BY DecRefStep DEF Drop
<1>3. /\ ref[h] = "strong" /\ known'[h] = AfterSub(h)
      /\ \A k \in Handle : k # h => ref'[k] = ref[k] /\ known'[k] = known[k]
      /\ memory' = memory /\ sync' = sync \union known[h]
  BY DEF Drop, DecRef, IInv, TypeOK, MOInv, MOTypeOK, Learn, Release
<1>4. \A k \in Handle : ref[k] \notin Releasing
  BY <1>3 DEF IInv, SingleReleaser
<1>5. \A k \in Handle : Covered(k)
  BY <1>3, <1>4 DEF MOInv, IInv, StageMatchesMemory
<1>6. CASE ref'[h] \in Releasing
  <2>1. \A k \in Handle : k # h => ref[k] # "strong"
    BY <1>2, <1>3, <1>6 DEF IInv, SingleReleaser
  <2>2. \A k \in Handle : k \in known[h] \union sync
    BY <1>5, <2>1 DEF Covered, Strong
  <2>3. known'[h] = Handle
    BY <1>3, <1>6, <2>2 DEF AfterSub, Releasing, MOInv, MOTypeOK
  <2> QED
    BY <1>1, <1>3, <1>4, <1>6, <2>3 DEF MOInv
<1>7. CASE ref'[h] \notin Releasing
  <2>1. \A k \in Handle : Covered(k)'
    BY <1>3, <1>5 DEF Covered, Strong
  <2> QED
    BY <1>1, <1>3, <1>4, <1>7, <2>1 DEF MOInv
<1> QED
  BY <1>6, <1>7
LEMMA DestructStep ==
  ASSUME IInv, MOInv, NEW h \in Handle, Destruct(h)
  PROVE  MOInv'
<1>1. MOTypeOK'
  BY MOTypeStep DEF MOInv, MONext
<1>2. /\ ref'[h] \in Releasing /\ known'[h] = known[h] \union {h}
      /\ \A k \in Handle : k # h => ref'[k] = ref[k]
  BY DEF Destruct, Destroy, IInv, TypeOK, Access, Releasing
<1>3. known[h] = Handle /\ \A k \in Handle : k # h => ref[k] \notin Releasing
  BY DEF Destruct, Destroy, MOInv, Releasing, IInv, SingleReleaser
<1> QED
  BY <1>1, <1>2, <1>3 DEF MOInv

LEMMA DropWeakStep ==
  ASSUME IInv, MOInv, NEW h \in Handle, DropWeak(h)
  PROVE  MOInv'
<1>1. MOTypeOK'
  BY MOTypeStep DEF MOInv, MONext
<1>2. IInv'
  BY DecWeakRefStep DEF DropWeak
<1>3. /\ ref[h] \in {"weak", "release_weak"} /\ known'[h] = AfterSub(h)
      /\ ref'[h] \in {"weak_gone", "null"}
      /\ \A k \in Handle : k # h => ref'[k] = ref[k] /\ known'[k] = known[k]
      /\ memory' = memory /\ sync' = sync \union known[h]
  BY DEF DropWeak, DecWeakRef, IInv, TypeOK, MOInv, MOTypeOK, Learn, Release
<1>4. \A k \in Handle : Covered(k) => Covered(k)'
  BY <1>3 DEF Covered, Strong
<1>5. CASE ref'[h] = "weak_gone"
  <2>1. \A k \in Handle : k # h => ref[k] \notin Releasing /\ ref[k] # "strong"
    BY <1>2, <1>3, <1>5 DEF IInv, SingleReleaser, Releasing
  <2>2. memory # "unallocated"
    BY <1>3 DEF IInv, StageMatchesMemory
  <2>3. known[h] \union sync = Handle
    <3>1. CASE ref[h] = "release_weak"
      BY <3>1 DEF MOInv, MOTypeOK, Releasing
    <3>2. CASE ref[h] = "weak"
      BY <2>1, <2>2, <3>2 DEF MOInv, MOTypeOK, Covered, Strong, Releasing
    <3> QED
      BY <1>3, <3>1, <3>2
  <2>4. known'[h] = Handle
    BY <1>3, <1>5, <2>3 DEF AfterSub
  <2> QED
    BY <1>1, <1>3, <1>5, <2>1, <2>4 DEF MOInv, Releasing
<1>6. CASE ref'[h] = "null"
  <2>1. \A k \in Handle : ref'[k] \in Releasing => known'[k] = Handle
    BY <1>3, <1>6 DEF MOInv, Releasing
  <2>2. CASE ref[h] = "release_weak"
    <3>1. sync' = Handle
      BY <1>3, <2>2 DEF MOInv, MOTypeOK, Releasing
    <3> QED
      BY <1>1, <2>1, <3>1 DEF MOInv, Covered
  <2>3. CASE ref[h] = "weak"
    BY <1>1, <1>3, <1>4, <2>1, <2>3 DEF MOInv, Releasing
  <2> QED
    BY <1>3, <2>2, <2>3
<1> QED
  BY <1>3, <1>5, <1>6

LEMMA DeallocateStep ==
  ASSUME IInv, MOInv, NEW h \in Handle, Deallocate(h)
  PROVE  MOInv'
<1>1. MOTypeOK'
  BY MOTypeStep DEF MOInv, MONext
<1>2. /\ memory' = "unallocated" /\ ref'[h] = "null"
      /\ \A k \in Handle : k # h => ref'[k] = ref[k] /\ known'[k] = known[k]
  BY DEF Deallocate, Free, IInv, TypeOK, MOInv, MOTypeOK, Learn
<1> QED
  BY <1>1, <1>2 DEF MOInv, Releasing

LEMMA PromotionStep ==
  ASSUME IInv, MOInv, NEW g \in Handle, NEW h \in Handle,
         Promote(g, h) \/ Promoted(h) \/ NotPromoted(h)
  PROVE  MOInv'
<1>1. MOTypeOK'
  BY MOTypeStep DEF MOInv, MONext
<1>2. /\ ref[h] \in {"null", "locking"} /\ ref'[h] \in {"locking", "strong", "null"}
      /\ \A k \in Handle : k # h => ref'[k] = ref[k] /\ known'[k] = known[k]
      /\ memory' = memory /\ sync \subseteq sync'
  BY DEF Promote, Promoted, NotPromoted, LockLoad, LockSucceed, LockRetry,
         LockFail, LockDone, IInv, TypeOK, MOInv, MOTypeOK, Learn, Relaxed, Release
<1>3. \A k \in Handle : Covered(k) => Covered(k)'
  BY <1>2 DEF Covered, Strong
<1> QED
  BY <1>1, <1>2, <1>3 DEF MOInv, Releasing

LEMMA MOStutterStep == MOInv /\ UNCHANGED moVars => MOInv'
BY DEF moVars, vars, MOInv, MOTypeOK, Covered, Strong

\* Type correctness and the inductive invariant of the memory-order model.
THEOREM MemoryOrderInvariance == MOSpec => [](IInv /\ MOInv)
<1>1. MOInit => IInv /\ MOInv
  BY MOInitInv
<1>2. IInv /\ MOInv /\ [MONext]_moVars => IInv' /\ MOInv'
  <2>1. IInv /\ [MONext]_moVars => IInv'
    BY MOStepIsStep, NextIInv DEF moVars
  <2>2. ASSUME IInv, MOInv, MONext
        PROVE  MOInv'
    BY <2>2, ConstructStep, UseStep, CopyStep, HandStep, DropStep, DestructStep,
       DropWeakStep, DeallocateStep, PromotionStep DEF MONext
  <2> QED
    BY <2>1, <2>2, MOStutterStep
<1> QED
  BY <1>1, <1>2, PTL DEF MOSpec

\* The destructor, and later the deallocation, happen after every access to
\* the object through any handle: DecRef and DecWeakRef need no order stronger
\* than the release on their fetch_sub and the acquire fence of the last one.
THEOREM DestructionIsOrdered == MOSpec => []ReleaseHappensLast
<1>1. MOInv => ReleaseHappensLast
  BY DEF MOInv, ReleaseHappensLast, Releasing
<1> QED
  BY <1>1, MemoryOrderInvariance, PTL
=============================================================================
