------------------------------ MODULE Outcome ------------------------------
(***************************************************************************)
(* What a conversion or a look-up answers.                                 *)
(***************************************************************************)

\* A value, std::nullopt, or an exception.
Value(v) == [value |-> v]
Fails == [fails |-> TRUE]
Throws == [throws |-> TRUE]
Ok(outcome) == "value" \in DOMAIN outcome

\* Any(nullptr)
None == [none |-> TRUE]
=============================================================================
