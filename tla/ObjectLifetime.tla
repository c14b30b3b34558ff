--------------------------- MODULE ObjectLifetime ---------------------------
(***************************************************************************)
(* What reference counting promises, with no counter: an object lives as   *)
(* long as a strong handle refers to it, is destroyed once when the last   *)
(* one is gone, and its memory is given back once no weak handle refers to *)
(* it either.  A weak handle can be turned into a strong one only while    *)
(* another strong handle exists.                                           *)
(***************************************************************************)
CONSTANT Handle

VARIABLES
  memory,   \* "unallocated", "live" or "destroyed"
  strong,   \* the handles that own the object
  weak      \* the handles that keep only its memory

vars == <<memory, strong, weak>>

Init ==
  /\ memory = "unallocated"
  /\ strong = {}
  /\ weak = {}

Make(h) ==
  /\ memory = "unallocated"
  /\ memory' = "live"
  /\ strong' = {h}
  /\ UNCHANGED weak

\* A copy of a strong handle, or a weak handle locked.
Acquire(h) ==
  /\ strong # {}
  /\ h \notin weak
  /\ strong' = strong \union {h}
  /\ UNCHANGED <<memory, weak>>

Drop(h) ==
  /\ h \in strong
  /\ strong' = strong \ {h}
  /\ UNCHANGED <<memory, weak>>

AcquireWeak(h) ==
  /\ strong \union weak # {}
  /\ h \notin strong
  /\ weak' = weak \union {h}
  /\ UNCHANGED <<memory, strong>>

DropWeak(h) ==
  /\ h \in weak
  /\ weak' = weak \ {h}
  /\ UNCHANGED <<memory, strong>>

Rename(S, g, h) == IF g \in S THEN (S \ {g}) \union {h} ELSE S

Move(g, h) ==
  /\ h \notin strong \union weak
  /\ strong' = Rename(strong, g, h)
  /\ weak' = Rename(weak, g, h)
  /\ UNCHANGED memory

Destroy ==
  /\ memory = "live"
  /\ strong = {}
  /\ memory' = "destroyed"
  /\ UNCHANGED <<strong, weak>>

Free ==
  /\ memory = "destroyed"
  /\ weak = {}
  /\ memory' = "unallocated"
  /\ UNCHANGED <<strong, weak>>

Next ==
  \/ \E h \in Handle :
       Make(h) \/ Acquire(h) \/ Drop(h) \/ AcquireWeak(h) \/ DropWeak(h)
  \/ \E g, h \in Handle : Move(g, h)
  \/ Destroy \/ Free

Spec == Init /\ [][Next]_vars

\* Destruction and release follow without anybody asking for them.
FairSpec == Spec /\ WF_vars(Destroy) /\ WF_vars(Free)
=============================================================================
