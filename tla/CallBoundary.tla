---------------------------- MODULE CallBoundary ----------------------------
(***************************************************************************)
(* The calls of one thread through ffi::Function: activations written in   *)
(* C++ and in C on one stack, and how an error gets from one to the other. *)
(* C++ throws; C returns a code and leaves the error object in a slot of   *)
(* the thread (SafeCallContext of error.cpp).  function.h translates at    *)
(* each boundary, by what the two sides are:                               *)
(*   C++ calls C++   CallPacked, FunctionObjImpl::CppCall, no translation  *)
(*   C++ calls C     CppCallDedirectToSafeCall, TVM_FFI_CHECK_SAFE_CALL    *)
(*   C calls C++     TVMFFIFunctionCall, FunctionObjImpl::SafeCall         *)
(*   C calls C       TVMFFIFunctionCall, the code is passed on             *)
(* What the bodies do is up to them, within the convention of c_api.h: C   *)
(* returns -1 only right after the slot was set by itself or its callee,   *)
(* and releases what it owns.  A call made by C between the two would lose *)
(* the error.                                                              *)
(***************************************************************************)
EXTENDS Integers, FiniteSets

CONSTANTS
  Error,        \* the error objects that may exist at one time
  Value,        \* the objects that calls may return
  MaxDepth,     \* activations that may be nested
  EnvError,     \* an EnvErrorAlreadySet in flight
  StdException, \* any other std::exception in flight
  NullError,    \* an ffi::Error in flight whose object pointer is null
  NULL

ASSUME DepthAssumption == MaxDepth \in Nat \ {0}
ASSUME DistinctAssumption ==
  /\ {EnvError, StdException, NullError, NULL} \intersect (Error \union Value) = {}
  /\ Error \intersect Value = {}
  /\ NULL \notin {EnvError, StdException, NullError}
  /\ NullError \notin {EnvError, StdException}
  /\ EnvError # StdException

Level  == 1..MaxDepth
Object == Error \union Value
Language == {"C++", "C"}

VARIABLES
  depth,   \* the activations, numbered from the outermost
  lang,    \* what each is written in
  slot,    \* the result that each received from its last call, or NULL
  caught,  \* the error object that each keeps for itself, or NULL
  flying,  \* the exception being thrown through C++, or NULL
  code,    \* what the last call returned to an activation in C
  raised,  \* last_error_ of the thread
  refs     \* the strong count of each object

vars == <<depth, lang, slot, caught, flying, code, raised, refs>>

Init ==
  /\ depth = 1
  /\ lang \in [Level -> Language]
  /\ \A l \in Level : l > 1 => lang[l] = "C"
  /\ slot = [l \in Level |-> NULL]
  /\ caught = [l \in Level |-> NULL]
  /\ flying = NULL
  /\ code = 0
  /\ raised = NULL
  /\ refs = [o \in Object |-> 0]
-----------------------------------------------------------------------------
(* Counting references.                                                    *)

One(o, p) == IF o = p THEN 1 ELSE 0

\* The counts after a reference to `new` was taken and one to `old` dropped.
Count(r, new, old) == [o \in Object |-> r[o] + One(o, new) - One(o, old)]

\* An object can be created when nothing refers to one of that name.
Free(o) == refs[o] = 0

\* Fault: the slot adopts the error as if the reference were handed to it.
SetRaisedOwned(r, e) == Count(r, NULL, raised)

\* SetRaised: the slot takes a reference and drops what it held.
SetRaised(r, e) == Count(r, e, raised)

\* The locals of the innermost activation go when it ends: the result of its
\* last call and the error it keeps.
ReleaseLocals(r) ==
  Count(Count(r, NULL, slot[depth]), NULL, caught[depth])

\* The innermost activation is gone.
Pop ==
  /\ depth > 1
  /\ depth' = depth - 1
  /\ slot' = [slot EXCEPT ![depth] = NULL]
  /\ caught' = [caught EXCEPT ![depth] = NULL]
  /\ lang' = [lang EXCEPT ![depth] = "C"]

Running == flying = NULL /\ code = 0
RunningIn(l) == Running /\ lang[depth] = l
-----------------------------------------------------------------------------
(* Calls and their results.                                                *)

\* A call with an empty result: Function::operator() makes a new Any, and C
\* initializes its slot.
Call(l) ==
  /\ Running
  /\ depth < MaxDepth
  /\ slot[depth] = NULL
  /\ depth' = depth + 1
  /\ lang' = [lang EXCEPT ![depth + 1] = l]
  /\ UNCHANGED <<slot, caught, flying, code, raised, refs>>

\* FunctionObjImpl::SafeCall refuses a result that still holds an object.
\* Its InternalError is thrown and caught in SafeCall itself.
RefuseResult(e) ==
  /\ RunningIn("C")
  /\ depth < MaxDepth
  /\ slot[depth] # NULL
  /\ Free(e)
  /\ raised' = e
  /\ refs' = SetRaised(refs, e)
  /\ code' = -1
  /\ UNCHANGED <<depth, lang, slot, caught, flying>>

\* The callee stores an object, new or the one it was itself given, as the
\* result of the call.  In C++ the assignment releases what was there; C
\* writes to a slot that is empty.  The call may still fail afterwards.
WriteResult(v) ==
  /\ Running
  /\ depth > 1
  /\ Free(v) \/ v = slot[depth]
  /\ lang[depth] = "C++" \/ slot[depth - 1] = NULL
  /\ slot' = [slot EXCEPT ![depth - 1] = v]
  /\ refs' = Count(refs, v, slot[depth - 1])
  /\ UNCHANGED <<depth, lang, caught, flying, code, raised>>

\* The callee returns normally, with code 0 where its caller is in C.
Return ==
  /\ Running
  /\ Pop
  /\ refs' = ReleaseLocals(refs)
  /\ UNCHANGED <<flying, code, raised>>

\* The activation is done with the result of its last call.
DropResult ==
  /\ Running
  /\ slot[depth] # NULL
  /\ slot' = [slot EXCEPT ![depth] = NULL]
  /\ refs' = Count(refs, NULL, slot[depth])
  /\ UNCHANGED <<depth, lang, caught, flying, code, raised>>
-----------------------------------------------------------------------------
(* Exceptions of C++.                                                      *)

\* TVM_FFI_THROW.
Throw(e) ==
  /\ RunningIn("C++")
  /\ Free(e)
  /\ flying' = e
  /\ refs' = Count(refs, e, NULL)
  /\ UNCHANGED <<depth, lang, slot, caught, code, raised>>

\* EnvErrorAlreadySet, or an exception of the library such as bad_alloc.
ThrowOther(x) ==
  /\ RunningIn("C++")
  /\ flying' = x
  /\ UNCHANGED <<depth, lang, slot, caught, code, raised, refs>>

Rethrow ==
  /\ RunningIn("C++")
  /\ caught[depth] # NULL
  /\ flying' = caught[depth]
  /\ caught' = [caught EXCEPT ![depth] = NULL]
  /\ UNCHANGED <<depth, lang, slot, code, raised, refs>>

\* The body catches the exception and keeps it, if it is an error object,
\* beyond the calls that its handler makes.
Catch ==
  /\ flying # NULL
  /\ flying' = NULL
  /\ IF flying \in Error
       THEN /\ caught' = [caught EXCEPT ![depth] = flying]
            /\ refs' = Count(refs, NULL, caught[depth])
       ELSE UNCHANGED <<caught, refs>>
  /\ UNCHANGED <<depth, lang, slot, code, raised>>

\* Either language lets go of an error it kept.
DropCaught ==
  /\ Running
  /\ caught[depth] # NULL
  /\ caught' = [caught EXCEPT ![depth] = NULL]
  /\ refs' = Count(refs, NULL, caught[depth])
  /\ UNCHANGED <<depth, lang, slot, flying, code, raised>>

\* CppCall has no handler: the exception leaves a C++ callee for a C++ caller.
Unwind ==
  /\ flying # NULL
  /\ Pop
  /\ lang[depth - 1] = "C++"
  /\ refs' = ReleaseLocals(refs)
  /\ UNCHANGED <<flying, code, raised>>

\* Fault: the handler of std::exception, a base of Error, comes first.
SafeCallEndBaseFirst ==
  /\ flying # NULL
  /\ Pop
  /\ lang[depth - 1] = "C"
  /\ flying' = NULL
  /\ \E e \in Error :
       /\ Free(e)
       /\ raised' = e
       /\ refs' = ReleaseLocals(Count(SetRaised(refs, e), NULL, flying))
  /\ code' = -1

\* TVM_FFI_SAFE_CALL_END: the exception meets the handlers of SafeCall, the
\* one for Error first, and is destroyed after them.
SafeCallEnd ==
  /\ flying # NULL
  /\ Pop
  /\ lang[depth - 1] = "C"
  /\ flying' = NULL
  /\ \/ /\ flying \in Error
        /\ raised' = flying
        /\ refs' = ReleaseLocals(Count(SetRaised(refs, flying), NULL, flying))
        /\ code' = -1
     \/ /\ flying = EnvError
        /\ refs' = ReleaseLocals(refs)
        /\ code' = -2
        /\ UNCHANGED raised
     \/ /\ flying = StdException
        /\ \E e \in Error :
             /\ Free(e)
             /\ raised' = e
             /\ refs' = ReleaseLocals(SetRaised(refs, e))
        /\ code' = -1
-----------------------------------------------------------------------------
(* Codes of C.                                                             *)

\* TVMFFIErrorSetRaisedFromCStr and its relatives, before the body returns.
SetRaisedFromCStr(e) ==
  /\ RunningIn("C")
  /\ Free(e)
  /\ raised' = e
  /\ refs' = SetRaised(refs, e)
  /\ code' = -1
  /\ UNCHANGED <<depth, lang, slot, caught, flying>>

\* TVMFFIErrorSetRaised on an error the body kept, whose handle it releases.
SetRaisedCaught ==
  /\ RunningIn("C")
  /\ caught[depth] # NULL
  /\ raised' = caught[depth]
  /\ caught' = [caught EXCEPT ![depth] = NULL]
  /\ refs' = Count(SetRaised(refs, caught[depth]), NULL, caught[depth])
  /\ code' = -1
  /\ UNCHANGED <<depth, lang, slot, flying>>

\* The front end records an error of its own.
SetFrontEndError ==
  /\ RunningIn("C")
  /\ code' = -2
  /\ UNCHANGED <<depth, lang, slot, caught, flying, raised, refs>>

\* The body takes the error with TVMFFIErrorMoveFromRaised, which hands over
\* the reference of the thread's slot and clears it.
TakeRaised ==
  /\ code = -1
  /\ raised' = NULL
  /\ caught' = [caught EXCEPT ![depth] = raised]
  /\ refs' = Count(refs, NULL, caught[depth])
  /\ code' = 0
  /\ UNCHANGED <<depth, lang, slot, flying>>

\* The body goes on; an error object stays behind in the slot.
IgnoreCode ==
  /\ code # 0
  /\ code' = 0
  /\ UNCHANGED <<depth, lang, slot, caught, flying, raised, refs>>

\* A body in C returns the code to a caller in C.
ReturnCode ==
  /\ code # 0
  /\ Pop
  /\ lang[depth - 1] = "C"
  /\ refs' = ReleaseLocals(refs)
  /\ UNCHANGED <<flying, code, raised>>

\* Fault: every code that is not zero is taken for a raised error.
CheckSafeCallAnyCode ==
  /\ code # 0
  /\ Pop
  /\ lang[depth - 1] = "C++"
  /\ code' = 0
  /\ flying' = IF raised = NULL THEN NullError ELSE raised
  /\ raised' = NULL
  /\ refs' = ReleaseLocals(refs)

\* TVM_FFI_CHECK_SAFE_CALL: a body in C returns the code to a caller in C++,
\* where it becomes an exception; the error moves out of the slot.
CheckSafeCall ==
  /\ code # 0
  /\ Pop
  /\ lang[depth - 1] = "C++"
  /\ code' = 0
  /\ IF code = -2
       THEN flying' = EnvError /\ UNCHANGED raised
       ELSE /\ flying' = IF raised = NULL THEN NullError ELSE raised
            /\ raised' = NULL
  /\ refs' = ReleaseLocals(refs)
-----------------------------------------------------------------------------
Next ==
  \/ \E l \in Language : Call(l)
  \/ \E v \in Value : WriteResult(v)
  \/ \E e \in Error : RefuseResult(e) \/ Throw(e) \/ SetRaisedFromCStr(e)
  \/ \E x \in {EnvError, StdException} : ThrowOther(x)
  \/ Return \/ DropResult
  \/ Rethrow \/ Catch \/ DropCaught \/ Unwind \/ SafeCallEnd
  \/ SetRaisedCaught \/ SetFrontEndError \/ TakeRaised \/ IgnoreCode
  \/ ReturnCode \/ CheckSafeCall

Spec == Init /\ [][Next]_vars
-----------------------------------------------------------------------------
TypeOK ==
  /\ depth \in Level
  /\ lang \in [Level -> Language]
  /\ slot \in [Level -> Value \union {NULL}]
  /\ caught \in [Level -> Error \union {NULL}]
  /\ flying \in Error \union {EnvError, StdException, NullError, NULL}
  /\ code \in {0, -1, -2}
  /\ raised \in Error \union {NULL}
  /\ refs \in [Object -> Int]

\* The places that may refer to an object: results and errors that
\* activations hold, the slot of the thread, the exception in flight.
Place == ({"slot", "caught"} \X Level) \union {<<"raised", 0>>, <<"flying", 0>>}

held ==
  [p \in Place |->
     IF p[1] = "slot" THEN slot[p[2]]
     ELSE IF p[1] = "caught" THEN caught[p[2]]
     ELSE IF p[1] = "raised" THEN raised
     ELSE flying]

Holders(o) == {p \in Place : held[p] = o}

\* Every object is counted as often as it is referred to: no failure between
\* a callee's write and its caller's return loses an object or releases it
\* twice, and an error is handed over at each boundary, not copied or dropped.
CountsExact == \A o \in Object : refs[o] = Cardinality(Holders(o))

\* A caller in C that is told -1 finds an error object in the slot of the
\* thread, a caller in C++ never receives an error without an object, and
\* each sees failures only in its own form (c_api.h: "-1: error happens, can
\* be retrieved by TVMFFIErrorMoveFromRaised").
FailureHasError ==
  /\ code = -1 => raised # NULL
  /\ flying # NullError
  /\ code # 0 => lang[depth] = "C" /\ flying = NULL
  /\ flying # NULL => lang[depth] = "C++"

\* What has been raised and not yet caught, in whichever form.
Pending ==
  CASE flying # NULL -> flying
    [] flying = NULL /\ code = -1 -> raised
    [] flying = NULL /\ code = -2 -> EnvError
    [] flying = NULL /\ code = 0  -> NULL

\* Across any mixture of languages the caller of a failing call gets the very
\* error that was raised, and only then: never one left in the slot by an
\* earlier call, and never an InternalError in its place.
Errors == INSTANCE ErrorPropagation WITH pending <- Pending
PropagatesErrors == Errors!Spec
=============================================================================
