------------------------- MODULE RefCountMemoryOrder -------------------------
(***************************************************************************)
(* The memory orders chosen in include/ffi/object.h, on top of the counter *)
(* protocol of ObjectRefCount.                                             *)
(*                                                                         *)
(* The operations on the counter are atomic; the accesses to the object    *)
(* are not, and the thread that destroys or frees it must have every one   *)
(* of them behind it.  known[h] is the set of handles whose latest access  *)
(* happens before what the thread that operates on h does next, and sync   *)
(* the set a thread learns when it acquires from the counter.  All writes  *)
(* of the counter are read-modify-writes, so the release sequence of each  *)
(* of them runs on and sync only grows until the next access.              *)
(***************************************************************************)
EXTENDS ObjectRefCount

VARIABLES known, sync

moVars == <<vars, known, sync>>

MOTypeOK ==
  /\ known \in [Handle -> SUBSET Handle]
  /\ sync \in SUBSET Handle

MOInit ==
  /\ Init
  /\ known = [h \in Handle |-> {}]
  /\ sync = {}

\* An access through h: nobody else knows of it, nor of an earlier one by h.
Access(h) ==
  /\ known' = [g \in Handle |-> IF g = h THEN known[g] \union {h}
                                         ELSE known[g] \ {h}]
  /\ sync' = sync \ {h}

Learn(h, S) == known' = [known EXCEPT ![h] = S]

Relaxed == UNCHANGED sync
Release(h) == sync' = sync \union known[h]

\* A new object: the constructor is the only access there has been.
Construct(h) ==
  /\ MakeObject(h)
  /\ known' = [g \in Handle |-> IF g = h THEN Handle ELSE {}]
  /\ sync' = Handle \ {h}

\* A read or a write of the object through a strong handle.
Use(h) ==
  /\ ref[h] = "strong"
  /\ Access(h)
  /\ UNCHANGED vars

\* fetch_add(..., __ATOMIC_RELAXED)
Copy(g, h) ==
  /\ IncRef(g, h) \/ IncWeakRef(g, h)
  /\ Learn(h, known[g])
  /\ Relaxed

Hand(g, h) ==
  /\ Move(g, h)
  /\ known' = [known EXCEPT ![g] = {}, ![h] = known[g]]
  /\ Relaxed

\* Fault: no fence before the deleter is called.
AfterSubWithoutFence(h) == IF ref'[h] = "null" THEN {} ELSE known[h]

\* What a thread knows after a fetch_sub: the fence that acquires is reached
\* only when the deleter is to be called.
AfterSub(h) == IF ref'[h] = "null" THEN {} ELSE known[h] \union sync

\* Fault: a relaxed fetch_sub in DecRef, in DecWeakRef.
DropRelaxed(h) ==
  /\ DecRef(h)
  /\ Learn(h, AfterSub(h))
  /\ Relaxed

DropWeakRelaxed(h) ==
  /\ DecWeakRef(h)
  /\ Learn(h, AfterSub(h))
  /\ Relaxed

\* fetch_sub(..., __ATOMIC_RELEASE), then atomic_thread_fence(ACQUIRE)
Drop(h) ==
  /\ DecRef(h)
  /\ Learn(h, AfterSub(h))
  /\ Release(h)

DropWeak(h) ==
  /\ DecWeakRef(h)
  /\ Learn(h, AfterSub(h))
  /\ Release(h)

Destruct(h) ==
  /\ Destroy(h)
  /\ Access(h)

Deallocate(h) ==
  /\ Free(h)
  /\ Learn(h, {})
  /\ Relaxed

\* The load and a failing exchange are relaxed, the exchange that promotes
\* the pointer acquires and releases.
Promote(g, h) ==
  /\ LockLoad(g, h)
  /\ Learn(h, known[g])
  /\ Relaxed

Promoted(h) ==
  /\ LockSucceed(h)
  /\ Learn(h, known[h] \union sync)
  /\ Release(h)

NotPromoted(h) ==
  /\ LockRetry(h) \/ LockFail(h)
  /\ Learn(h, IF ref'[h] = "null" THEN {} ELSE known[h])
  /\ Relaxed

MONext ==
  \/ \E h \in Handle :
       \/ Construct(h) \/ Use(h)
       \/ Drop(h) \/ Destruct(h) \/ DropWeak(h) \/ Deallocate(h)
       \/ Promoted(h) \/ NotPromoted(h)
  \/ \E g, h \in Handle : Copy(g, h) \/ Hand(g, h) \/ Promote(g, h)

MOSpec == MOInit /\ [][MONext]_moVars

-----------------------------------------------------------------------------
\* Destruction, and later the release of the memory, happen after every
\* access made through any handle, whichever thread made it (the release and
\* acquire pairs of DecRef and DecWeakRef).
ReleaseHappensLast ==
  \A h \in Handle :
    ref[h] \in {"both", "strong_gone", "both_destroyed", "weak_gone"} =>
      known[h] = Handle

\* What "only need relaxed load of counters" (object.h, use_count) takes for
\* granted: a handle that reads a strong count of one, and so mutates the
\* object in place, has every other access behind it.
UniqueMeansExclusive ==
  \A h \in Handle : ref[h] = "strong" /\ count.s = 1 => known[h] = Handle
\* Why it is so: every latest access has either been released to the counter
\* or is known to a strong handle that has still to release it, and a handle on
\* its way through the deleter has acquired them all.
Covered(g) == g \in sync \/ \E h \in Strong : g \in known[h]

MOInv ==
  /\ MOTypeOK
  /\ \A h \in Handle : ref[h] \in Releasing => known[h] = Handle
  /\ \/ memory = "unallocated"
     \/ \E h \in Handle : ref[h] \in Releasing
     \/ \A g \in Handle : Covered(g)
=============================================================================
