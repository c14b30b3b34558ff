------------------------- MODULE CallBoundaryProofs -------------------------
(***************************************************************************)
(* Proofs about CallBoundary for any objects and any depth of calls.       *)
(***************************************************************************)
EXTENDS CallBoundary, FiniteSetTheorems, TLAPS

\* Inductive: a failure is in the form that the activation it has reached
\* understands, and a code of -1 has its error object.  The second half
\* needs the first: the slot is changed by bodies that run, and none runs
\* while a code or an exception is on its way.
IInv == TypeOK /\ FailureHasError

\* Counting keeps the counts integers (function.h and error.cpp take and drop
\* references by IncRef and DecRef only).
LEMMA CountType ==
  ASSUME NEW r \in [Object -> Int], NEW new, NEW old
  PROVE  Count(r, new, old) \in [Object -> Int]
BY DEF Count, One

LEMMA SetRaisedType ==
  ASSUME NEW r \in [Object -> Int], NEW e
  PROVE  SetRaised(r, e) \in [Object -> Int]
BY CountType DEF SetRaised

LEMMA ReleaseLocalsType ==
  ASSUME NEW r \in [Object -> Int]
  PROVE  ReleaseLocals(r) \in [Object -> Int]
<1>1. Count(r, NULL, slot[depth]) \in [Object -> Int]
  BY CountType
<1> QED
  BY <1>1, CountType DEF ReleaseLocals

\* Leaving an activation keeps the types and moves control to its caller.
LEMMA PopType ==
  ASSUME TypeOK, Pop
  PROVE  /\ depth \in Level /\ depth > 1
         /\ depth' \in Level /\ depth' = depth - 1
         /\ slot' \in [Level -> Value \union {NULL}]
         /\ caught' \in [Level -> Error \union {NULL}]
         /\ lang' \in [Level -> Language]
         /\ lang'[depth'] = lang[depth - 1]
BY DepthAssumption DEF TypeOK, Pop, Level, Language

\* The initial state satisfies the invariant.
LEMMA InitInv == Init => IInv
BY DepthAssumption, DistinctAssumption
DEF Init, IInv, TypeOK, FailureHasError, Level, Object, Language

\* Every step preserves it.
LEMMA NextInv == IInv /\ [Next]_vars => IInv'
<1> SUFFICES ASSUME IInv, [Next]_vars
             PROVE  IInv'
  OBVIOUS
<1> USE DepthAssumption, DistinctAssumption DEF IInv, Running, RunningIn
<1>1. ASSUME NEW l \in Language, Call(l) PROVE IInv'
  BY <1>1 DEF Call, TypeOK, FailureHasError, Level
<1>2. ASSUME NEW v \in Value, WriteResult(v) PROVE IInv'
  <2>1. refs' \in [Object -> Int]
    BY <1>2, CountType DEF WriteResult, TypeOK
  <2> QED
    BY <1>2, <2>1 DEF WriteResult, TypeOK, FailureHasError, Level
<1>3. ASSUME NEW e \in Error, RefuseResult(e) PROVE IInv'
  <2>1. refs' \in [Object -> Int]
    BY <1>3, SetRaisedType DEF RefuseResult, TypeOK
  <2> QED
    BY <1>3, <2>1 DEF RefuseResult, TypeOK, FailureHasError
<1>4. ASSUME NEW e \in Error, Throw(e) PROVE IInv'
  <2>1. refs' \in [Object -> Int]
    BY <1>4, CountType DEF Throw, TypeOK
  <2> QED
    BY <1>4, <2>1 DEF Throw, TypeOK, FailureHasError
<1>5. ASSUME NEW e \in Error, SetRaisedFromCStr(e) PROVE IInv'
  <2>1. refs' \in [Object -> Int]
    BY <1>5, SetRaisedType DEF SetRaisedFromCStr, TypeOK
  <2> QED
    BY <1>5, <2>1 DEF SetRaisedFromCStr, TypeOK, FailureHasError
<1>6. ASSUME NEW x \in {EnvError, StdException}, ThrowOther(x) PROVE IInv'
  BY <1>6 DEF ThrowOther, TypeOK, FailureHasError
<1>7. CASE Return
  <2>1. refs' \in [Object -> Int]
    BY <1>7, ReleaseLocalsType DEF Return, TypeOK
  <2>2. Pop
    BY <1>7 DEF Return
  <2> QED
    BY <1>7, <2>1, <2>2, PopType DEF Return, TypeOK, FailureHasError
<1>8. CASE DropResult
  <2>1. refs' \in [Object -> Int]
    BY <1>8, CountType DEF DropResult, TypeOK
  <2> QED
    BY <1>8, <2>1 DEF DropResult, TypeOK, FailureHasError
<1>9. CASE Rethrow
  BY <1>9 DEF Rethrow, TypeOK, FailureHasError
<1>10. CASE Catch
  <2>1. refs' \in [Object -> Int]
    BY <1>10, CountType DEF Catch, TypeOK
  <2> QED
    BY <1>10, <2>1 DEF Catch, TypeOK, FailureHasError
<1>11. CASE DropCaught
  <2>1. refs' \in [Object -> Int]
    BY <1>11, CountType DEF DropCaught, TypeOK
  <2> QED
    BY <1>11, <2>1 DEF DropCaught, TypeOK, FailureHasError
<1>12. CASE Unwind
  <2>1. refs' \in [Object -> Int]
    BY <1>12, ReleaseLocalsType DEF Unwind, TypeOK
  <2>2. Pop
    BY <1>12 DEF Unwind
  <2> QED
    BY <1>12, <2>1, <2>2, PopType DEF Unwind, TypeOK, FailureHasError
<1>13. CASE SafeCallEnd
  <2>1. Pop /\ lang[depth - 1] = "C"
    BY <1>13 DEF SafeCallEnd
  <2>2. refs' \in [Object -> Int]
    <3>1. CASE flying \in Error
      <4>1. SetRaised(refs, flying) \in [Object -> Int]
        BY SetRaisedType DEF TypeOK
      <4>2. Count(SetRaised(refs, flying), NULL, flying) \in [Object -> Int]
        BY <4>1, CountType
      <4> QED
        BY <1>13, <3>1, <4>2, ReleaseLocalsType DEF SafeCallEnd
    <3>2. CASE flying = EnvError
      BY <1>13, <3>2, ReleaseLocalsType DEF SafeCallEnd, TypeOK
    <3>3. CASE flying = StdException
      <4>1. PICK e \in Error : refs' = ReleaseLocals(SetRaised(refs, e))
        BY <1>13, <3>3 DEF SafeCallEnd
      <4>2. SetRaised(refs, e) \in [Object -> Int]
        BY SetRaisedType DEF TypeOK
      <4> QED
        BY <4>1, <4>2, ReleaseLocalsType
    <3> QED
      BY <1>13, <3>1, <3>2, <3>3 DEF SafeCallEnd
  <2>3. /\ flying' = NULL
        /\ raised' \in Error \union {NULL}
        /\ code' \in {-1, -2}
        /\ code' = -1 => raised' \in Error
    BY <1>13 DEF SafeCallEnd, TypeOK
  <2> QED
    BY <2>1, <2>2, <2>3, PopType DEF TypeOK, FailureHasError
<1>14. CASE SetRaisedCaught
  <2>1. refs' \in [Object -> Int]
    <3>1. SetRaised(refs, caught[depth]) \in [Object -> Int]
      BY SetRaisedType DEF TypeOK
    <3> QED
      BY <1>14, <3>1, CountType DEF SetRaisedCaught
  <2> QED
    BY <1>14, <2>1 DEF SetRaisedCaught, TypeOK, FailureHasError
<1>15. CASE SetFrontEndError
  BY <1>15 DEF SetFrontEndError, TypeOK, FailureHasError
<1>16. CASE TakeRaised
  <2>1. refs' \in [Object -> Int]
    BY <1>16, CountType DEF TakeRaised, TypeOK
  <2> QED
    BY <1>16, <2>1 DEF TakeRaised, TypeOK, FailureHasError
<1>17. CASE IgnoreCode
  BY <1>17 DEF IgnoreCode, TypeOK, FailureHasError
<1>18. CASE ReturnCode
  <2>1. refs' \in [Object -> Int]
    BY <1>18, ReleaseLocalsType DEF ReturnCode, TypeOK
  <2>2. Pop
    BY <1>18 DEF ReturnCode
  <2> QED
    BY <1>18, <2>1, <2>2, PopType DEF ReturnCode, TypeOK, FailureHasError
<1>19. CASE CheckSafeCall
  <2>1. refs' \in [Object -> Int]
    BY <1>19, ReleaseLocalsType DEF CheckSafeCall, TypeOK
  <2>2. Pop
    BY <1>19 DEF CheckSafeCall
  <2>3. /\ flying' \in Error \union {EnvError}
        /\ raised' \in Error \union {NULL}
        /\ code' = 0
    BY <1>19 DEF CheckSafeCall, TypeOK, FailureHasError
  <2> QED
    BY <1>19, <2>1, <2>2, <2>3, PopType DEF CheckSafeCall, TypeOK, FailureHasError
<1>20. CASE UNCHANGED vars
  BY <1>20 DEF vars, TypeOK, FailureHasError
<1> QED
  BY <1>1, <1>2, <1>3, <1>4, <1>5, <1>6, <1>7, <1>8, <1>9, <1>10, <1>11,
     <1>12, <1>13, <1>14, <1>15, <1>16, <1>17, <1>18, <1>19, <1>20 DEF Next

\* In every reachable state a failing call has its error, in the form its
\* caller understands (TVM_FFI_SAFE_CALL_END and TVM_FFI_CHECK_SAFE_CALL).
THEOREM FailuresHaveErrors == Spec => []FailureHasError
<1>1. IInv => FailureHasError
  BY DEF IInv
<1> QED
  BY InitInv, NextInv, <1>1, PTL DEF Spec
-----------------------------------------------------------------------------
(* CallBoundary implements ErrorPropagation.                               *)

\* Leaving an activation is leaving it in the abstract specification.
LEMMA PopRefines ==
  ASSUME TypeOK, Pop
  PROVE  /\ Errors!Pop
         /\ Pending # NULL /\ Pending' = Pending => Errors!Leave
         /\ Pending = NULL /\ Pending' = NULL => Errors!Return
BY DEF Pop, Errors!Pop, Errors!Leave, Errors!Return

\* Every step is a step of the abstract specification or a stutter.
LEMMA StepRefines ==
  IInv /\ [Next]_vars => [Errors!Next]_(Errors!vars)
<1> SUFFICES ASSUME IInv, [Next]_vars
             PROVE  [Errors!Next]_(Errors!vars)
  OBVIOUS
<1> USE DistinctAssumption DEF IInv, Running, RunningIn, Errors!Next, Errors!vars
<1>1. ASSUME NEW l \in Language, Call(l) PROVE Errors!Enter
  BY <1>1 DEF Call, Pending, Errors!Enter
<1>2. ASSUME NEW v \in Value, WriteResult(v) PROVE UNCHANGED Errors!vars
  BY <1>2 DEF WriteResult, Pending
<1>3. ASSUME NEW e \in Error, RefuseResult(e) PROVE Errors!Raise
  BY <1>3 DEF RefuseResult, Pending, Errors!Raise, Errors!Raisable
<1>4. ASSUME NEW e \in Error, Throw(e) PROVE Errors!Raise
  BY <1>4 DEF Throw, Pending, Errors!Raise, Errors!Raisable
<1>5. ASSUME NEW e \in Error, SetRaisedFromCStr(e) PROVE Errors!Raise
  BY <1>5 DEF SetRaisedFromCStr, Pending, Errors!Raise, Errors!Raisable
<1>6. ASSUME NEW x \in {EnvError, StdException}, ThrowOther(x)
      PROVE  Errors!Raise
  BY <1>6 DEF ThrowOther, Pending, Errors!Raise, Errors!Raisable
<1>7. CASE Return
  <2>1. Pop /\ Pending = NULL /\ Pending' = NULL
    BY <1>7 DEF Return, Pending
  <2> QED
    BY <2>1, PopRefines
<1>8. CASE DropResult
  BY <1>8 DEF DropResult, Pending
<1>9. CASE Rethrow
  <2>1. Pending = NULL /\ Pending' = caught[depth]
    BY <1>9 DEF Rethrow, Pending, TypeOK
  <2> QED
    BY <1>9, <2>1 DEF Rethrow, Errors!Reraise
<1>10. CASE Catch
  <2>1. Pending = flying /\ Pending' = NULL
    BY <1>10 DEF Catch, Pending, FailureHasError
  <2> QED
    BY <1>10, <2>1 DEF Catch, Errors!Catch
<1>11. CASE DropCaught
  <2>1. Pending = NULL /\ Pending' = NULL
    BY <1>11 DEF DropCaught, Pending
  <2> QED
    BY <1>11, <2>1 DEF DropCaught, Errors!Forget
<1>12. CASE Unwind
  <2>1. Pop /\ Pending # NULL /\ Pending' = Pending
    BY <1>12 DEF Unwind, Pending
  <2> QED
    BY <2>1, PopRefines
<1>13. CASE SafeCallEnd
  <2>1. Pop /\ Pending = flying /\ flying # NULL
    BY <1>13 DEF SafeCallEnd, Pending
  <2>2. CASE flying = StdException
    <3>1. Pending' \in Error
      BY <1>13, <2>2 DEF SafeCallEnd, Pending
    <3> QED
      BY <2>1, <2>2, <3>1, PopRefines DEF Errors!Leave
  <2>3. CASE flying # StdException
    <3>1. Pending' = Pending
      BY <1>13, <2>3 DEF SafeCallEnd, Pending
    <3> QED
      BY <2>1, <3>1, PopRefines
  <2> QED
    BY <2>2, <2>3
<1>14. CASE SetRaisedCaught
  <2>1. Pending = NULL /\ Pending' = caught[depth]
    BY <1>14 DEF SetRaisedCaught, Pending
  <2> QED
    BY <1>14, <2>1 DEF SetRaisedCaught, Errors!Reraise
<1>15. CASE SetFrontEndError
  BY <1>15 DEF SetFrontEndError, Pending, Errors!Raise, Errors!Raisable
<1>16. CASE TakeRaised
  <2>1. Pending = raised /\ Pending' = NULL /\ raised \in Error
    BY <1>16 DEF TakeRaised, Pending, FailureHasError, TypeOK
  <2> QED
    BY <1>16, <2>1 DEF TakeRaised, Errors!Catch
<1>17. CASE IgnoreCode
  <2>1. Pending # NULL /\ Pending' = NULL
    BY <1>17 DEF IgnoreCode, Pending, FailureHasError, TypeOK
  <2> QED
    BY <1>17, <2>1 DEF IgnoreCode, Errors!Catch
<1>18. CASE ReturnCode
  <2>1. Pop /\ Pending # NULL /\ Pending' = Pending
    BY <1>18 DEF ReturnCode, Pending, FailureHasError, TypeOK
  <2> QED
    BY <2>1, PopRefines
<1>19. CASE CheckSafeCall
  <2>1. Pop /\ Pending # NULL /\ Pending' = Pending
    BY <1>19 DEF CheckSafeCall, Pending, FailureHasError, TypeOK
  <2> QED
    BY <2>1, PopRefines
<1>20. CASE UNCHANGED vars
  BY <1>20 DEF vars, Pending
<1> QED
  BY <1>1, <1>2, <1>3, <1>4, <1>5, <1>6, <1>7, <1>8, <1>9, <1>10, <1>11,
     <1>12, <1>13, <1>14, <1>15, <1>16, <1>17, <1>18, <1>19, <1>20 DEF Next

\* The caller of a failing call gets the error that was raised, whatever mix
\* of C and C++ the call went through: function.h and error.cpp implement
\* plain propagation.
THEOREM ErrorsPropagate == Spec => PropagatesErrors
<1>1. Init => Errors!Init
  BY DEF Init, Errors!Init, Pending, Level, Errors!Level
<1> QED
  BY <1>1, InitInv, NextInv, StepRefines, PTL
  DEF Spec, PropagatesErrors, Errors!Spec
-----------------------------------------------------------------------------
(* The counts.  Each action is a few assignments to places, and its count  *)
(* is the composition of what they take and drop.                          *)

Content == Object \union {EnvError, StdException, NullError, NULL}
SlotOf(l)   == <<"slot", l>>
CaughtOf(l) == <<"caught", l>>
Raised      == <<"raised", 0>>
Flying      == <<"flying", 0>>

Put(f, p, x) == [f EXCEPT ![p] = x]

Counted(r, f) ==
  /\ r \in [Object -> Int]
  /\ f \in [Place -> Content]
  /\ \A o \in Object : r[o] = Cardinality({p \in Place : f[p] = o})

\* There are finitely many places.
LEMMA PlaceFinite == IsFiniteSet(Place)
<1>1. IsFiniteSet(Level)
  BY DepthAssumption, FS_Interval DEF Level
<1>2. \A a, b : IsFiniteSet({a, b})
  <2> TAKE a, b
  <2>1. IsFiniteSet({a} \union {b})
    BY FS_Singleton, FS_AddElement
  <2>2. {a} \union {b} = {a, b}
    OBVIOUS
  <2> QED
    BY <2>1, <2>2
<1>3. IsFiniteSet({"slot", "caught"} \X Level)
  BY <1>1, <1>2, FS_Product
<1> QED
  BY <1>2, <1>3, FS_Union DEF Place

\* An assignment to a place takes a reference to the new object and drops the
\* one to the old (ObjectPtr and Any assign by copy and swap).
LEMMA PutCounts ==
  ASSUME NEW r, NEW f, Counted(r, f), NEW p \in Place, NEW x \in Content
  PROVE  Counted(Count(r, x, f[p]), Put(f, p, x))
<1> DEFINE g == Put(f, p, x)
           s == Count(r, x, f[p])
<1>1. s \in [Object -> Int] /\ g \in [Place -> Content]
  BY CountType DEF Counted, Put
<1>2. ASSUME NEW o \in Object
      PROVE  s[o] = Cardinality({q \in Place : g[q] = o})
  <2> DEFINE H == {q \in Place : f[q] = o}
             G == {q \in Place : g[q] = o}
  <2>1. IsFiniteSet(H) /\ Cardinality(H) \in Nat
    BY PlaceFinite, FS_Subset, FS_CardinalityType
  <2>2. r[o] = Cardinality(H) /\ s[o] = r[o] + One(o, x) - One(o, f[p])
    BY DEF Counted, Count
  <2>3. CASE f[p] = o /\ x = o
    <3>1. G = H
      BY <2>3 DEF Put, Counted
    <3>2. Cardinality(G) = Cardinality(H)
      BY <3>1
    <3>3. s[o] = r[o] /\ r[o] \in Int
      BY <2>2, <2>3 DEF One, Counted
    <3> QED
      BY <2>2, <3>2, <3>3
  <2>4. CASE f[p] = o /\ x # o
    <3>1. G = H \ {p} /\ p \in H
      BY <2>4 DEF Put, Counted
    <3>2. Cardinality(G) = Cardinality(H) - 1
      BY <2>1, <3>1, FS_RemoveElement
    <3> QED
      BY <2>1, <2>2, <2>4, <3>2 DEF One
  <2>5. CASE f[p] # o /\ x = o
    <3>1. G = H \union {p} /\ p \notin H
      BY <2>5 DEF Put, Counted
    <3>2. Cardinality(G) = Cardinality(H) + 1
      BY <2>1, <3>1, FS_AddElement
    <3> QED
      BY <2>1, <2>2, <2>5, <3>2 DEF One
  <2>6. CASE f[p] # o /\ x # o
    <3>1. G = H
      BY <2>6 DEF Put, Counted
    <3>2. Cardinality(G) = Cardinality(H)
      BY <3>1
    <3>3. s[o] = r[o] /\ r[o] \in Int
      BY <2>2, <2>6 DEF One, Counted
    <3> QED
      BY <2>2, <3>2, <3>3
  <2> QED
    BY <2>3, <2>4, <2>5, <2>6
<1> QED
  BY <1>1, <1>2 DEF Counted

\* The counts are those of the places in the current state.
LEMMA HeldType ==
  ASSUME TypeOK
  PROVE  /\ held \in [Place -> Content]
         /\ \A l \in Level : /\ SlotOf(l) \in Place /\ CaughtOf(l) \in Place
                            /\ held[SlotOf(l)] = slot[l]
                            /\ held[CaughtOf(l)] = caught[l]
                            /\ SlotOf(l) # CaughtOf(l)
                            /\ SlotOf(l) \notin {Raised, Flying}
                            /\ CaughtOf(l) \notin {Raised, Flying}
         /\ Raised \in Place /\ held[Raised] = raised
         /\ Flying \in Place /\ held[Flying] = flying
         /\ Raised # Flying
         /\ depth \in Level
BY DEF TypeOK, held, Place, Content, Object, SlotOf, CaughtOf, Raised, Flying

LEMMA CountedIsExact ==
  ASSUME TypeOK
  PROVE  Counted(refs, held) <=> CountsExact
BY HeldType DEF Counted, CountsExact, Holders, TypeOK

\* A function on places is fixed by its values at the four kinds of place.
LEMMA PlacesEqual ==
  ASSUME NEW f, NEW g, f = [p \in Place |-> f[p]], g = [p \in Place |-> g[p]],
         \A l \in Level : f[SlotOf(l)] = g[SlotOf(l)] /\ f[CaughtOf(l)] = g[CaughtOf(l)],
         f[Raised] = g[Raised], f[Flying] = g[Flying]
  PROVE  f = g
<1>1. ASSUME NEW p \in Place PROVE f[p] = g[p]
  <2>1. \/ \E l \in Level : p = SlotOf(l) \/ p = CaughtOf(l)
        \/ p = Raised \/ p = Flying
    BY DEF Place, SlotOf, CaughtOf, Raised, Flying
  <2> QED
    BY <2>1
<1> QED
  BY <1>1

\* What the places hold after a step, in the terms of the variables.
LEMMA HeldNext ==
  /\ held' = [p \in Place |-> held'[p]]
  /\ \A l \in Level : held'[SlotOf(l)] = slot'[l] /\ held'[CaughtOf(l)] = caught'[l]
  /\ held'[Raised] = raised' /\ held'[Flying] = flying'
BY DEF held, Place, SlotOf, CaughtOf, Raised, Flying

\* An assignment changes one place.
LEMMA PutAt ==
  ASSUME NEW f, f = [p \in Place |-> f[p]], NEW q \in Place, NEW x
  PROVE  /\ Put(f, q, x) = [p \in Place |-> Put(f, q, x)[p]]
         /\ \A p \in Place : Put(f, q, x)[p] = IF p = q THEN x ELSE f[p]
BY DEF Put

\* The places after two assignments to locals and one each to the thread's
\* slot and the exception in flight.
LEMMA HeldAfter ==
  ASSUME TypeOK, NEW m \in Level, NEW x, NEW y,
         slot' = [slot EXCEPT ![m] = x], caught' = [caught EXCEPT ![depth] = y]
  PROVE  held' = Put(Put(Put(Put(held, Raised, raised'), Flying, flying'),
                         SlotOf(m), x), CaughtOf(depth), y)
<1> DEFINE f1 == Put(held, Raised, raised')
           f2 == Put(f1, Flying, flying')
           f3 == Put(f2, SlotOf(m), x)
           f4 == Put(f3, CaughtOf(depth), y)
<1>1. held = [p \in Place |-> held[p]]
  BY HeldType
<1>2. f1 = [p \in Place |-> f1[p]]
      /\ \A p \in Place : f1[p] = IF p = Raised THEN raised' ELSE held[p]
  BY <1>1, HeldType, PutAt
<1>3. f2 = [p \in Place |-> f2[p]]
      /\ \A p \in Place : f2[p] = IF p = Flying THEN flying' ELSE f1[p]
  BY <1>2, HeldType, PutAt
<1>4. f3 = [p \in Place |-> f3[p]]
      /\ \A p \in Place : f3[p] = IF p = SlotOf(m) THEN x ELSE f2[p]
  BY <1>3, HeldType, PutAt
<1>5. f4 = [p \in Place |-> f4[p]]
      /\ \A p \in Place : f4[p] = IF p = CaughtOf(depth) THEN y ELSE f3[p]
  BY <1>4, HeldType, PutAt
<1> HIDE DEF f1, f2, f3, f4
<1>7. \A p \in Place :
        f4[p] = IF p = CaughtOf(depth) THEN y
                ELSE IF p = SlotOf(m) THEN x
                ELSE IF p = Flying THEN flying'
                ELSE IF p = Raised THEN raised'
                ELSE held[p]
  <2>1. TAKE p \in Place
  <2>2. f4[p] = IF p = CaughtOf(depth) THEN y ELSE f3[p]
    BY <1>5
  <2>3. f3[p] = IF p = SlotOf(m) THEN x ELSE f2[p]
    BY <1>4
  <2>4. f2[p] = IF p = Flying THEN flying' ELSE f1[p]
    BY <1>3
  <2>5. f1[p] = IF p = Raised THEN raised' ELSE held[p]
    BY <1>2
  <2> QED
    BY <2>2, <2>3, <2>4, <2>5
<1>8. f4[Raised] = raised' /\ f4[Flying] = flying'
  BY <1>7, HeldType
<1>9. ASSUME NEW l \in Level
      PROVE  f4[SlotOf(l)] = slot'[l] /\ f4[CaughtOf(l)] = caught'[l]
  <2>1. /\ slot'[l] = IF l = m THEN x ELSE slot[l]
        /\ caught'[l] = IF l = depth THEN y ELSE caught[l]
    BY DEF TypeOK
  <2>2. /\ SlotOf(l) \in Place /\ CaughtOf(l) \in Place
        /\ SlotOf(l) # Raised /\ SlotOf(l) # Flying
        /\ CaughtOf(l) # Raised /\ CaughtOf(l) # Flying
        /\ held[SlotOf(l)] = slot[l] /\ held[CaughtOf(l)] = caught[l]
        /\ depth \in Level
    BY HeldType
  <2>3. /\ SlotOf(l) # CaughtOf(depth) /\ CaughtOf(l) # SlotOf(m)
        /\ SlotOf(l) = SlotOf(m) <=> l = m
        /\ CaughtOf(l) = CaughtOf(depth) <=> l = depth
    BY DEF SlotOf, CaughtOf
  <2>4. f4[SlotOf(l)] = slot'[l]
    BY <1>7, <2>1, <2>2, <2>3
  <2>5. f4[CaughtOf(l)] = caught'[l]
    BY <1>7, <2>1, <2>2, <2>3
  <2> QED
    BY <2>4, <2>5
<1>10. f4 = [p \in Place |-> f4[p]]
  BY <1>5
<1>11. held' = f4
  BY <1>8, <1>9, <1>10, HeldNext, PlacesEqual
<1> QED
  BY <1>11 DEF f1, f2, f3, f4

\* A step that assigns to these places and changes the counts by what it
\* assigns and overwrites keeps them exact.
LEMMA AssignmentsCount ==
  ASSUME TypeOK, CountsExact, TypeOK', NEW m \in Level, NEW x \in Content,
         NEW y \in Content,
         slot' = [slot EXCEPT ![m] = x], caught' = [caught EXCEPT ![depth] = y],
         \A o \in Object :
           refs'[o] = refs[o] + One(o, raised') - One(o, raised)
                              + One(o, flying') - One(o, flying)
                              + One(o, x) - One(o, slot[m])
                              + One(o, y) - One(o, caught[depth])
  PROVE  CountsExact'
<1> DEFINE f1 == Put(held, Raised, raised')
           f2 == Put(f1, Flying, flying')
           f3 == Put(f2, SlotOf(m), x)
           f4 == Put(f3, CaughtOf(depth), y)
           r1 == Count(refs, raised', raised)
           r2 == Count(r1, flying', flying)
           r3 == Count(r2, x, slot[m])
           r4 == Count(r3, y, caught[depth])
<1>1. raised' \in Content /\ flying' \in Content
  BY DEF TypeOK, Content, Object
<1>2. Counted(refs, held)
  BY CountedIsExact
<1>3. Counted(r1, f1)
  BY <1>1, <1>2, HeldType, PutCounts
<1>4. f1[Flying] = flying /\ f1[SlotOf(m)] = slot[m] /\ f1[CaughtOf(depth)] = caught[depth]
  BY HeldType DEF Put
<1>5. Counted(r2, f2)
  BY <1>1, <1>3, <1>4, HeldType, PutCounts
<1>6. f2[SlotOf(m)] = slot[m] /\ f2[CaughtOf(depth)] = caught[depth]
  BY <1>3, <1>4, HeldType DEF Put, Counted
<1>7. Counted(r3, f3)
  BY <1>5, <1>6, HeldType, PutCounts
<1>8. f3[CaughtOf(depth)] = caught[depth]
  <2>1. CaughtOf(depth) # SlotOf(m)
    BY DEF CaughtOf, SlotOf
  <2> QED
    BY <1>5, <1>6, <2>1, HeldType DEF Put, Counted
<1>9. Counted(r4, f4)
  BY <1>7, <1>8, HeldType, PutCounts
<1>10. held' = f4
  BY HeldAfter
<1>11. refs' = r4
  BY DEF Count, TypeOK, One
<1>12. Counted(refs, held)'
  BY <1>9, <1>10, <1>11
<1> QED
  BY <1>12, CountedIsExact, PTL

\* What is not an object is not counted.
LEMMA OneNothing ==
  ASSUME NEW o \in Object
  PROVE  /\ One(o, NULL) = 0 /\ One(o, EnvError) = 0
         /\ One(o, StdException) = 0 /\ One(o, NullError) = 0
         /\ \A p : One(o, p) \in Int
BY DistinctAssumption DEF One, Object

\* Nothing is held at first.
LEMMA InitCounts == Init => CountsExact
<1> SUFFICES ASSUME Init, NEW o \in Object
             PROVE  refs[o] = Cardinality(Holders(o))
  BY DEF CountsExact
<1>1. Holders(o) = {}
  BY DistinctAssumption DEF Init, Holders, held, Place, Object
<1> QED
  BY <1>1, FS_EmptySet DEF Init

\* The end of an activation, in the form of AssignmentsCount.
LEMMA ReleaseLocalsSum ==
  ASSUME NEW r \in [Object -> Int], NEW o \in Object
  PROVE  ReleaseLocals(r)[o] = r[o] - One(o, slot[depth]) - One(o, caught[depth])
<1>1. One(o, slot[depth]) \in Int /\ One(o, caught[depth]) \in Int /\ One(o, NULL) = 0
  BY OneNothing
<1>2. Count(r, NULL, slot[depth])[o] = r[o] - One(o, slot[depth])
  BY <1>1 DEF Count
<1> QED
  BY <1>1, <1>2 DEF ReleaseLocals, Count

\* The three shapes that most steps have.
LEMMA PopCounts ==
  ASSUME TypeOK, CountsExact, TypeOK', Pop,
         \A o \in Object :
           refs'[o] = refs[o] + One(o, raised') - One(o, raised)
                              + One(o, flying') - One(o, flying)
                              - One(o, slot[depth]) - One(o, caught[depth])
  PROVE  CountsExact'
<1>1. depth \in Level /\ NULL \in Content
  BY DEF TypeOK, Content
<1>2. /\ slot' = [slot EXCEPT ![depth] = NULL]
      /\ caught' = [caught EXCEPT ![depth] = NULL]
  BY DEF Pop
<1>3. ASSUME NEW o \in Object
      PROVE  refs'[o] = refs[o] + One(o, raised') - One(o, raised)
                                + One(o, flying') - One(o, flying)
                                + One(o, NULL) - One(o, slot[depth])
                                + One(o, NULL) - One(o, caught[depth])
  <2>1. refs[o] \in Int /\ One(o, NULL) = 0
    BY OneNothing DEF TypeOK
  <2> QED
    BY <2>1, OneNothing
<1> QED
  BY <1>1, <1>2, <1>3, AssignmentsCount

LEMMA CaughtCounts ==
  ASSUME TypeOK, CountsExact, TypeOK', NEW y \in Content,
         caught' = [caught EXCEPT ![depth] = y], UNCHANGED slot,
         \A o \in Object :
           refs'[o] = refs[o] + One(o, raised') - One(o, raised)
                              + One(o, flying') - One(o, flying)
                              + One(o, y) - One(o, caught[depth])
  PROVE  CountsExact'
<1>1. depth \in Level /\ slot[depth] \in Content
  BY DEF TypeOK, Content, Object
<1>2. slot' = [slot EXCEPT ![depth] = slot[depth]]
  BY DEF TypeOK
<1>3. ASSUME NEW o \in Object
      PROVE  refs'[o] = refs[o] + One(o, raised') - One(o, raised)
                                + One(o, flying') - One(o, flying)
                                + One(o, slot[depth]) - One(o, slot[depth])
                                + One(o, y) - One(o, caught[depth])
  BY OneNothing DEF TypeOK
<1> QED
  BY <1>1, <1>2, <1>3, AssignmentsCount

LEMMA SlotCounts ==
  ASSUME TypeOK, CountsExact, TypeOK', NEW m \in Level, NEW x \in Content,
         slot' = [slot EXCEPT ![m] = x], UNCHANGED <<caught, raised, flying>>,
         \A o \in Object : refs'[o] = refs[o] + One(o, x) - One(o, slot[m])
  PROVE  CountsExact'
<1>1. depth \in Level /\ caught[depth] \in Content
  BY DEF TypeOK, Content, Object
<1>2. caught' = [caught EXCEPT ![depth] = caught[depth]]
  BY DEF TypeOK
<1>3. ASSUME NEW o \in Object
      PROVE  refs'[o] = refs[o] + One(o, raised') - One(o, raised)
                                + One(o, flying') - One(o, flying)
                                + One(o, x) - One(o, slot[m])
                                + One(o, caught[depth]) - One(o, caught[depth])
  BY OneNothing DEF TypeOK
<1> QED
  BY <1>1, <1>2, <1>3, AssignmentsCount

\* Every step keeps the counts exact.
LEMMA NextCounts == IInv /\ IInv' /\ CountsExact /\ [Next]_vars => CountsExact'
<1> SUFFICES ASSUME IInv, IInv', CountsExact, [Next]_vars
             PROVE  CountsExact'
  OBVIOUS
<1> USE DEF IInv
<1>a. /\ depth \in Level /\ NULL \in Content
      /\ slot = [slot EXCEPT ![depth] = slot[depth]]
      /\ caught = [caught EXCEPT ![depth] = caught[depth]]
      /\ slot[depth] \in Content /\ caught[depth] \in Content
  BY DEF TypeOK, Content, Object
<1>b. \A o \in Object : refs[o] \in Int
  BY DEF TypeOK
<1> USE DEF Running, RunningIn
<1>1. ASSUME NEW l \in Language, Call(l) PROVE CountsExact'
  BY <1>1, <1>a, AssignmentsCount, OneNothing DEF Call, TypeOK
<1>2. ASSUME NEW v \in Value, WriteResult(v) PROVE CountsExact'
  <2>1. depth - 1 \in Level /\ v \in Content
    BY <1>2 DEF WriteResult, TypeOK, Level, Content, Object
  <2>2. ASSUME NEW o \in Object
        PROVE  refs'[o] = refs[o] + One(o, v) - One(o, slot[depth - 1])
    BY <1>2, <1>b DEF WriteResult, Count
  <2> QED
    BY <1>2, <2>1, <2>2, SlotCounts DEF WriteResult
<1>3. ASSUME NEW e \in Error, RefuseResult(e) PROVE CountsExact'
  <2>1. ASSUME NEW o \in Object
        PROVE  refs'[o] = refs[o] + One(o, raised') - One(o, raised)
    BY <1>3, <1>b DEF RefuseResult, SetRaised, Count
  <2> QED
    BY <1>3, <1>a, <1>b, <2>1, AssignmentsCount, OneNothing DEF RefuseResult
<1>4. ASSUME NEW e \in Error, Throw(e) PROVE CountsExact'
  <2>1. ASSUME NEW o \in Object
        PROVE  refs'[o] = refs[o] + One(o, flying') - One(o, flying)
    BY <1>4, <1>b DEF Throw, Count
  <2> QED
    BY <1>4, <1>a, <1>b, <2>1, AssignmentsCount, OneNothing DEF Throw
<1>5. ASSUME NEW e \in Error, SetRaisedFromCStr(e) PROVE CountsExact'
  <2>1. ASSUME NEW o \in Object
        PROVE  refs'[o] = refs[o] + One(o, raised') - One(o, raised)
    BY <1>5, <1>b DEF SetRaisedFromCStr, SetRaised, Count
  <2> QED
    BY <1>5, <1>a, <1>b, <2>1, AssignmentsCount, OneNothing DEF SetRaisedFromCStr
<1>6. ASSUME NEW x \in {EnvError, StdException}, ThrowOther(x) PROVE CountsExact'
  <2>1. ASSUME NEW o \in Object PROVE One(o, flying') = 0 /\ One(o, flying) = 0
    BY <1>6, OneNothing DEF ThrowOther
  <2> QED
    BY <1>6, <1>a, <1>b, <2>1, AssignmentsCount, OneNothing DEF ThrowOther
<1>7. CASE Return
  <2>1. ASSUME NEW o \in Object
        PROVE  refs'[o] = refs[o] - One(o, slot[depth]) - One(o, caught[depth])
    BY <1>7, ReleaseLocalsSum DEF Return, TypeOK
  <2> QED
    BY <1>7, <1>b, <2>1, PopCounts, OneNothing DEF Return
<1>8. CASE DropResult
  <2>1. ASSUME NEW o \in Object
        PROVE  refs'[o] = refs[o] + One(o, NULL) - One(o, slot[depth])
    BY <1>8, <1>b DEF DropResult, Count
  <2> QED
    BY <1>8, <1>a, <2>1, SlotCounts DEF DropResult
<1>9. CASE Rethrow
  <2>1. NULL \in Content /\ caught' = [caught EXCEPT ![depth] = NULL] /\ UNCHANGED slot
    BY <1>9, <1>a DEF Rethrow, TypeOK, Content, Object
  <2>2. ASSUME NEW o \in Object
        PROVE  refs'[o] = refs[o] + One(o, raised') - One(o, raised)
                                  + One(o, flying') - One(o, flying)
                                  + One(o, NULL) - One(o, caught[depth])
    BY <1>9, <1>b, OneNothing DEF Rethrow
  <2> QED
    BY <2>1, <2>2, CaughtCounts
<1>10. CASE Catch
  <2>1. CASE flying \in Error
    <3>1. ASSUME NEW o \in Object PROVE refs'[o] = refs[o] - One(o, caught[depth])
      BY <1>10, <1>b, <2>1, OneNothing DEF Catch, Count
    <3>2. flying \in Content
      BY <2>1 DEF Content, Object
    <3> QED
      BY <1>10, <1>a, <1>b, <2>1, <3>1, <3>2, AssignmentsCount, OneNothing DEF Catch
  <2>2. CASE flying \notin Error
    <3>1. ASSUME NEW o \in Object PROVE One(o, flying) = 0
      BY <2>2, OneNothing DEF TypeOK
    <3> QED
      BY <1>10, <1>a, <1>b, <2>2, <3>1, AssignmentsCount, OneNothing DEF Catch
  <2> QED
    BY <2>1, <2>2
<1>11. CASE DropCaught
  <2>1. NULL \in Content /\ caught' = [caught EXCEPT ![depth] = NULL] /\ UNCHANGED slot
    BY <1>11, <1>a DEF DropCaught, TypeOK, Content, Object
  <2>2. ASSUME NEW o \in Object
        PROVE  refs'[o] = refs[o] + One(o, raised') - One(o, raised)
                                  + One(o, flying') - One(o, flying)
                                  + One(o, NULL) - One(o, caught[depth])
    BY <1>11, <1>b, OneNothing DEF DropCaught, Count
  <2> QED
    BY <2>1, <2>2, CaughtCounts
<1>12. CASE Unwind
  <2>1. ASSUME NEW o \in Object
        PROVE  refs'[o] = refs[o] - One(o, slot[depth]) - One(o, caught[depth])
    BY <1>12, ReleaseLocalsSum DEF Unwind, TypeOK
  <2> QED
    BY <1>12, <1>b, <2>1, PopCounts, OneNothing DEF Unwind
<1>13. CASE SafeCallEnd
  <2>1. ASSUME NEW o \in Object
        PROVE  refs'[o] = refs[o] + One(o, raised') - One(o, raised) - One(o, flying)
                                  - One(o, slot[depth]) - One(o, caught[depth])
    <3>1. CASE flying \in Error
      <4> DEFINE r == Count(SetRaised(refs, flying), NULL, flying)
      <4>1. r \in [Object -> Int]
        BY CountType, SetRaisedType DEF TypeOK
      <4>2. r[o] = refs[o] + One(o, flying) - One(o, raised) - One(o, flying)
        BY <1>b, OneNothing DEF SetRaised, Count
      <4>3. refs' = ReleaseLocals(r) /\ raised' = flying
        BY <1>13, <3>1, DistinctAssumption DEF SafeCallEnd
      <4> QED
        BY <1>b, <4>1, <4>2, <4>3, ReleaseLocalsSum, OneNothing
    <3>2. CASE flying = EnvError
      <4>1. refs' = ReleaseLocals(refs) /\ raised' = raised
        BY <1>13, <3>2, DistinctAssumption DEF SafeCallEnd
      <4> QED
        BY <1>b, <3>2, <4>1, ReleaseLocalsSum, OneNothing DEF TypeOK
    <3>3. CASE flying = StdException
      <4>1. PICK e \in Error : raised' = e /\ refs' = ReleaseLocals(SetRaised(refs, e))
        BY <1>13, <3>3, DistinctAssumption DEF SafeCallEnd
      <4>2. SetRaised(refs, e) \in [Object -> Int]
        BY SetRaisedType DEF TypeOK
      <4>3. SetRaised(refs, e)[o] = refs[o] + One(o, e) - One(o, raised)
        BY DEF SetRaised, Count
      <4> QED
        BY <1>b, <3>3, <4>1, <4>2, <4>3, ReleaseLocalsSum, OneNothing
    <3> QED
      BY <1>13, <3>1, <3>2, <3>3 DEF SafeCallEnd
  <2> QED
    BY <1>13, <1>b, <2>1, PopCounts, OneNothing DEF SafeCallEnd
<1>14. CASE SetRaisedCaught
  <2>1. NULL \in Content /\ caught' = [caught EXCEPT ![depth] = NULL] /\ UNCHANGED slot
    BY <1>14, <1>a DEF SetRaisedCaught, TypeOK, Content, Object
  <2>2. ASSUME NEW o \in Object
        PROVE  refs'[o] = refs[o] + One(o, raised') - One(o, raised)
                                  + One(o, flying') - One(o, flying)
                                  + One(o, NULL) - One(o, caught[depth])
    BY <1>14, <1>b, OneNothing DEF SetRaisedCaught, SetRaised, Count
  <2> QED
    BY <2>1, <2>2, CaughtCounts
<1>15. CASE SetFrontEndError
  BY <1>15, <1>a, <1>b, AssignmentsCount, OneNothing DEF SetFrontEndError
<1>16. CASE TakeRaised
  <2>1. raised \in Content /\ caught' = [caught EXCEPT ![depth] = raised] /\ UNCHANGED slot
    BY <1>16, <1>a DEF TakeRaised, TypeOK, Content, Object
  <2>2. ASSUME NEW o \in Object
        PROVE  refs'[o] = refs[o] + One(o, raised') - One(o, raised)
                                  + One(o, flying') - One(o, flying)
                                  + One(o, raised) - One(o, caught[depth])
    BY <1>16, <1>b, OneNothing DEF TakeRaised, Count
  <2> QED
    BY <2>1, <2>2, CaughtCounts
<1>17. CASE IgnoreCode
  BY <1>17, <1>a, <1>b, AssignmentsCount, OneNothing DEF IgnoreCode
<1>18. CASE ReturnCode
  <2>1. ASSUME NEW o \in Object
        PROVE  refs'[o] = refs[o] - One(o, slot[depth]) - One(o, caught[depth])
    BY <1>18, ReleaseLocalsSum DEF ReturnCode, TypeOK
  <2> QED
    BY <1>18, <1>b, <2>1, PopCounts, OneNothing DEF ReturnCode
<1>19. CASE CheckSafeCall
  <2>1. ASSUME NEW o \in Object
        PROVE  refs'[o] = refs[o] - One(o, slot[depth]) - One(o, caught[depth])
    BY <1>19, ReleaseLocalsSum DEF CheckSafeCall, TypeOK
  <2>2. ASSUME NEW o \in Object
        PROVE  One(o, raised') - One(o, raised) + One(o, flying') - One(o, flying) = 0
    BY <1>19, OneNothing DEF CheckSafeCall, TypeOK, FailureHasError
  <2> QED
    BY <1>19, <1>b, <2>1, <2>2, PopCounts, OneNothing DEF CheckSafeCall
<1>20. CASE UNCHANGED vars
  BY <1>20, <1>a, <1>b, AssignmentsCount, OneNothing DEF vars
<1> QED
  BY <1>1, <1>2, <1>3, <1>4, <1>5, <1>6, <1>7, <1>8, <1>9, <1>10, <1>11,
     <1>12, <1>13, <1>14, <1>15, <1>16, <1>17, <1>18, <1>19, <1>20 DEF Next

\* No mixture of calls, failures and handlers loses a result or an error
\* object or releases one twice, for any depth of calls (the reference each
\* handler of function.h and error.cpp takes is the one it gives up).
THEOREM ReferencesConserved == Spec => []CountsExact
<1> DEFINE Inv == IInv /\ CountsExact
<1>1. Init => Inv
  BY InitInv, InitCounts
<1>2. Inv /\ [Next]_vars => Inv'
  BY NextInv, NextCounts
<1>3. Inv => CountsExact
  OBVIOUS
<1> QED
  BY <1>1, <1>2, <1>3, PTL DEF Spec
=============================================================================
