-------------------------- MODULE ErrorPropagation --------------------------
(***************************************************************************)
(* What a caller of the foreign function interface relies on, with no      *)
(* return codes and no slot in the thread: calls nest, and an error that   *)
(* is raised stays pending, the same object, while activations are left,   *)
(* until one of them catches it.  Only an exception of the C++ library     *)
(* changes on its way: it becomes an error object.                         *)
(***************************************************************************)
EXTENDS Naturals

CONSTANTS
  Error,        \* the error objects
  MaxDepth,     \* activations that may be nested
  EnvError,     \* an error that the front end has recorded
  StdException, \* a std::exception that is not an error object
  NULL

Level == 1..MaxDepth
Raisable == Error \union {EnvError, StdException}

VARIABLES
  depth,    \* the activations, numbered from the outermost
  caught,   \* the error object that each activation keeps
  pending   \* what has been raised and not caught

vars == <<depth, caught, pending>>

Init ==
  /\ depth = 1
  /\ caught = [l \in Level |-> NULL]
  /\ pending = NULL

Enter ==
  /\ pending = NULL
  /\ depth < MaxDepth
  /\ depth' = depth + 1
  /\ UNCHANGED <<caught, pending>>

\* An activation ends and takes what it keeps with it.
Pop ==
  /\ depth > 1
  /\ depth' = depth - 1
  /\ caught' = [caught EXCEPT ![depth] = NULL]

Return == pending = NULL /\ Pop /\ UNCHANGED pending

Leave ==
  /\ pending # NULL
  /\ Pop
  /\ \/ UNCHANGED pending
     \/ pending = StdException /\ pending' \in Error

Raise ==
  /\ pending = NULL
  /\ pending' \in Raisable
  /\ UNCHANGED <<depth, caught>>

Reraise ==
  /\ pending = NULL
  /\ caught[depth] # NULL
  /\ pending' = caught[depth]
  /\ caught' = [caught EXCEPT ![depth] = NULL]
  /\ UNCHANGED depth

\* What was caught is kept or dropped.
Catch ==
  /\ pending # NULL
  /\ pending' = NULL
  /\ \/ pending \in Error /\ caught' = [caught EXCEPT ![depth] = pending]
     \/ UNCHANGED caught
  /\ UNCHANGED depth

Forget ==
  /\ pending = NULL
  /\ caught' = [caught EXCEPT ![depth] = NULL]
  /\ UNCHANGED <<depth, pending>>

Next ==
  Enter \/ Return \/ Leave \/ Raise \/ Reraise \/ Catch \/ Forget

Spec == Init /\ [][Next]_vars
=============================================================================
