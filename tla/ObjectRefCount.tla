--------------------------- MODULE ObjectRefCount ---------------------------
(***************************************************************************)
(* Intrusive reference counting of one object (Object, ObjectPtr and       *)
(* WeakObjectPtr in include/ffi/object.h, make_object in memory.h).        *)
(*                                                                         *)
(* A handle is one ObjectPtr or WeakObjectPtr variable.  Handles belong to *)
(* any number of threads; C++ lets one handle be operated on by one thread *)
(* at a time, so the operation in progress is recorded in the handle       *)
(* itself, and every atomic access to the counter is one step.  The memory *)
(* of the object may be allocated again once it has been freed.            *)
(***************************************************************************)
EXTENDS RefCountWord, FiniteSets

CONSTANT
  Handle,     \* the smart pointers that may refer to the object
  NoHandle    \* stands for "no handle"

ASSUME HandleAssumption ==
  /\ IsFiniteSet(Handle)
  /\ Cardinality(Handle) < CountLimit   \* the code never checks for overflow
  /\ NoHandle \notin Handle

VARIABLES
  count,    \* header_.combined_ref_count
  memory,   \* what the memory of the object holds
  ref,      \* what each handle is, or the operation it is in the middle of
  from,     \* the WeakObjectPtr a lock() in progress was called on
  seen      \* old_count of a lock() in progress

vars == <<count, memory, ref, from, seen>>

\* Stages of a release after the fetch_sub that brought a count to zero.
\* "both" and "strong" have still to run the destructor, the others to
\* release the weak count or to free the memory.
Releasing ==
  {"both", "both_destroyed", "strong_gone", "release_weak", "weak_gone"}

State == {"null", "strong", "weak", "locking"} \union Releasing

TypeOK ==
  /\ count \in Word
  /\ memory \in {"unallocated", "live", "destroyed"}
  /\ ref \in [Handle -> State]
  /\ from \in [Handle -> Handle \union {NoHandle}]
  /\ seen \in [Handle -> Word]

Strong == {h \in Handle : ref[h] = "strong"}
Weak   == {h \in Handle : ref[h] = "weak"}

Init ==
  /\ count = Zero
  /\ memory = "unallocated"
  /\ ref  = [h \in Handle |-> "null"]
  /\ from = [h \in Handle |-> NoHandle]
  /\ seen = [h \in Handle |-> Zero]

-----------------------------------------------------------------------------
(* A WeakObjectPtr on which another thread is calling lock() stays as it   *)
(* is until the call returns: the caller keeps the pointer alive.          *)
BeingLocked(h) == \E g \in Handle : from[g] = h

\* make_object: the constructor ran, the header is initialised with one
\* strong reference and the weak reference the strong ones share.
MakeObject(h) ==
  /\ memory = "unallocated"
  /\ ref[h] = "null"
  /\ count' = BothOne
  /\ memory' = "live"
  /\ ref' = [ref EXCEPT ![h] = "strong"]
  /\ UNCHANGED <<from, seen>>

\* ObjectPtr copied from an ObjectPtr.
IncRef(g, h) ==
  /\ ref[g] = "strong" /\ ref[h] = "null"
  /\ count' = AddStrong(count)
  /\ ref' = [ref EXCEPT ![h] = "strong"]
  /\ UNCHANGED <<memory, from, seen>>

\* WeakObjectPtr copied from an ObjectPtr or from a WeakObjectPtr.
IncWeakRef(g, h) ==
  /\ ref[g] \in {"strong", "weak"} /\ ref[h] = "null"
  /\ count' = AddWeak(count)
  /\ ref' = [ref EXCEPT ![h] = "weak"]
  /\ UNCHANGED <<memory, from, seen>>

\* Move construction: the pointer changes hands, the counter does not.
Move(g, h) ==
  /\ ref[g] \in {"strong", "weak"} /\ ref[h] = "null"
  /\ ~BeingLocked(g)
  /\ ref' = [ref EXCEPT ![g] = "null", ![h] = ref[g]]
  /\ UNCHANGED <<count, memory, from, seen>>

\* Fault: the fast path for every last strong handle, weak handles or not.
DecRefIgnoringWeak(h) ==
  /\ ref[h] = "strong"
  /\ count' = SubStrong(count)
  /\ ref' = [ref EXCEPT ![h] = IF count.s = 1 THEN "both" ELSE "null"]
  /\ UNCHANGED <<memory, from, seen>>

\* Fault: the test is made on the value after the subtraction.
DecRefTestingNewCount(h) ==
  /\ ref[h] = "strong"
  /\ count' = SubStrong(count)
  /\ ref' = [ref EXCEPT ![h] = IF count = Zero THEN "both"
                               ELSE IF count.s = 0 THEN "strong_gone"
                               ELSE "null"]
  /\ UNCHANGED <<memory, from, seen>>

\* The first fetch_sub of DecRef, and which deleter call it leads to.
DecRef(h) ==
  /\ ref[h] = "strong"
  /\ count' = SubStrong(count)
  /\ ref' = [ref EXCEPT ![h] = IF count = BothOne THEN "both"
                               ELSE IF count.s = 1 THEN "strong_gone"
                               ELSE "null"]
  /\ UNCHANGED <<memory, from, seen>>

\* Fault: a deleter that frees the memory whatever its flags say.
DestroyAndFree(h) ==
  /\ ref[h] \in {"both", "strong_gone"}
  /\ memory' = "unallocated"
  /\ ref' = [ref EXCEPT ![h] = IF ref[h] = "both" THEN "null" ELSE "release_weak"]
  /\ UNCHANGED <<count, from, seen>>

\* deleter(kStrong) or the first half of deleter(kBoth): the destructor.
Destroy(h) ==
  /\ ref[h] \in {"both", "strong_gone"}
  /\ memory' = "destroyed"
  /\ ref' = [ref EXCEPT ![h] = IF ref[h] = "both" THEN "both_destroyed"
                               ELSE "release_weak"]
  /\ UNCHANGED <<count, from, seen>>

\* DecWeakRef of a WeakObjectPtr, or the second fetch_sub of DecRef.
DecWeakRef(h) ==
  /\ ref[h] \in {"weak", "release_weak"}
  /\ ~BeingLocked(h)
  /\ count' = SubWeak(count)
  /\ ref' = [ref EXCEPT ![h] = IF count = WeakOne THEN "weak_gone" ELSE "null"]
  /\ UNCHANGED <<memory, from, seen>>

\* deleter(kWeak) or the second half of deleter(kBoth): AlignedFree.
Free(h) ==
  /\ ref[h] \in {"both_destroyed", "weak_gone"}
  /\ memory' = "unallocated"
  /\ ref' = [ref EXCEPT ![h] = "null"]
  /\ UNCHANGED <<count, from, seen>>

\* Fault: a promotion that does not look whether the object is still alive.
LockLoadUnchecked(g, h) ==
  /\ ref[g] = "weak" /\ ref[h] = "null"
  /\ ref'  = [ref EXCEPT ![h] = "locking"]
  /\ from' = [from EXCEPT ![h] = g]
  /\ seen' = [seen EXCEPT ![h] = count]
  /\ UNCHANGED <<count, memory>>

\* WeakObjectPtr::lock, first half: the load.  A strong count of zero
\* returns nullptr at once and changes nothing.
LockLoad(g, h) ==
  /\ ref[g] = "weak" /\ ref[h] = "null"
  /\ count.s # 0
  /\ ref'  = [ref EXCEPT ![h] = "locking"]
  /\ from' = [from EXCEPT ![h] = g]
  /\ seen' = [seen EXCEPT ![h] = count]
  /\ UNCHANGED <<count, memory>>

LockDone(h, result) ==
  /\ ref'  = [ref EXCEPT ![h] = result]
  /\ from' = [from EXCEPT ![h] = NoHandle]
  /\ seen' = [seen EXCEPT ![h] = Zero]

\* Fault: a plain store in place of the compare-exchange.
LockStore(h) ==
  /\ ref[h] = "locking"
  /\ count' = AddStrong(seen[h])
  /\ LockDone(h, "strong")
  /\ UNCHANGED memory

\* Fault: a fetch_add in place of the compare-exchange.
LockFetchAdd(h) ==
  /\ ref[h] = "locking"
  /\ count' = AddStrong(count)
  /\ LockDone(h, "strong")
  /\ UNCHANGED memory

\* One compare-exchange of TryPromoteWeakPtr.  The exchange is the weak form:
\* it may fail although the word is unchanged, and then nothing changes.
LockSucceed(h) ==
  /\ ref[h] = "locking"
  /\ count = seen[h]
  /\ count' = AddStrong(seen[h])
  /\ LockDone(h, "strong")
  /\ UNCHANGED memory

LockRetry(h) ==
  /\ ref[h] = "locking"
  /\ count # seen[h]
  /\ count.s # 0
  /\ seen' = [seen EXCEPT ![h] = count]
  /\ UNCHANGED <<count, memory, ref, from>>

\* Fault: the loop tests the whole word, weak half included.
LockFailOnWholeWord(h) ==
  /\ ref[h] = "locking"
  /\ count # seen[h]
  /\ count = Zero
  /\ LockDone(h, "null")
  /\ UNCHANGED <<count, memory>>

LockFail(h) ==
  /\ ref[h] = "locking"
  /\ count # seen[h]
  /\ count.s = 0
  /\ LockDone(h, "null")
  /\ UNCHANGED <<count, memory>>

Next ==
  \/ \E h \in Handle :
       \/ MakeObject(h)
       \/ DecRef(h) \/ Destroy(h) \/ DecWeakRef(h) \/ Free(h)
       \/ LockSucceed(h) \/ LockRetry(h) \/ LockFail(h)
  \/ \E g, h \in Handle :
       IncRef(g, h) \/ IncWeakRef(g, h) \/ Move(g, h) \/ LockLoad(g, h)

Spec == Init /\ [][Next]_vars

(* A thread inside DecRef, DecWeakRef or lock() keeps running; nobody is   *)
(* obliged to create, copy or drop a pointer.                              *)
Fairness ==
  \A h \in Handle :
    /\ WF_vars(Destroy(h))
    /\ WF_vars(ref[h] = "release_weak" /\ DecWeakRef(h))
    /\ WF_vars(Free(h))
    /\ WF_vars(LockRetry(h) \/ LockFail(h))

FairSpec == Spec /\ Fairness

-----------------------------------------------------------------------------
(* Properties.                                                             *)

\* Operations in the middle of which the weak reference that all strong
\* handles share has not been given back.
Holding == {"strong", "both", "both_destroyed", "strong_gone", "release_weak"}

SharedWeak == IF \E h \in Handle : ref[h] \in Holding THEN 1 ELSE 0

\* While the memory is allocated, the two halves of the word count the
\* handles exactly: no interleaving of fetch_add, fetch_sub and
\* compare-exchange loses or invents a reference.
CountMatchesHandles ==
  memory # "unallocated" =>
    /\ count.s = Cardinality(Strong)
    /\ count.w = Cardinality(Weak) + SharedWeak

\* A strong handle never sees a destroyed object and no handle, nor a lock()
\* in progress, ever touches freed memory.
NoDanglingHandle ==
  \A h \in Handle :
    /\ ref[h] = "strong" => memory = "live"
    /\ ref[h] # "null" => memory # "unallocated"

\* The deleter is entered by one thread at a time, and only after the last
\* strong handle has gone: DecRef racing DecWeakRef never both call it.
SingleReleaser ==
  \A g, h \in Handle :
    ref[g] \in Releasing =>
      /\ ref[h] # "strong"
      /\ ref[h] \in Releasing => g = h

\* Once the strong count has reached zero it stays there: a lock() that read
\* the counter earlier cannot revive the object.
NoRevival ==
  [][memory # "unallocated" /\ count.s = 0 => count'.s = 0]_vars

\* The counter implements the object lifetime that handles rely on: one
\* destruction after the last strong handle, one release after the last
\* weak one, and both of them do happen.
Lifetime == INSTANCE ObjectLifetime WITH strong <- Strong, weak <- Weak
ImplementsLifetime     == Lifetime!Spec
ImplementsFairLifetime == Lifetime!FairSpec

\* A lock() that finds the object gone gives up, however often the counter
\* is changed under it.
LockGivesUp ==
  \A h \in Handle :
    ref[h] = "locking" /\ Strong = {} ~> ref[h] # "locking"
-----------------------------------------------------------------------------
(* The inductive invariant behind the safety properties.                   *)

\* Each stage of an operation fixes what the memory holds, and the memory is
\* live or destroyed only while some handle accounts for it.
StageMatchesMemory ==
  /\ \A h \in Handle :
       /\ ref[h] \in {"strong", "both", "strong_gone"} => memory = "live"
       /\ ref[h] \in {"both_destroyed", "release_weak", "weak_gone"} =>
            memory = "destroyed"
       /\ ref[h] # "null" => memory # "unallocated"
  /\ memory = "live" =>
       \E h \in Handle : ref[h] \in {"strong", "both", "strong_gone"}

\* A handle about to free the memory is the only one left.
LastReference ==
  \A h \in Handle :
    ref[h] \in {"both", "both_destroyed", "weak_gone"} => Weak = {}

\* A lock() in progress keeps its weak handle and has read a live counter.
LockPinsWeak ==
  \A h \in Handle :
    IF ref[h] = "locking"
      THEN from[h] \in Weak /\ seen[h].s # 0
      ELSE from[h] = NoHandle

\* Everything the next-state relation preserves: the exact counter, and which
\* combinations of handles, stages and memory occur (object.h DecRef,
\* DecWeakRef and TryPromoteWeakPtr interleaved in any order).
IInv ==
  /\ TypeOK
  /\ CountMatchesHandles
  /\ SingleReleaser
  /\ StageMatchesMemory
  /\ LastReference
  /\ LockPinsWeak
=============================================================================
