----------------------------- MODULE OrderedMap -----------------------------
(***************************************************************************)
(* What ffi::Map promises its callers: a finite function from keys to      *)
(* values, iterated in an order that only changes by appending, removing   *)
(* and, when an existing key is set again, by leaving the key in its place *)
(* or moving it to the end.                                                *)
(***************************************************************************)
EXTENDS Naturals, SequencesExt

CONSTANTS
  Key,
  Pairs,    \* the <<key, value>> pairs a map may be asked to hold
  Ranges    \* sequences of <<key, value>> a map may be constructed from

VARIABLE pairs   \* the <<key, value>> pairs, in iteration order

Keys(s) == {s[i][1] : i \in DOMAIN s}

Without(s, k) ==
  IF k \in Keys(s) THEN RemoveAt(s, CHOOSE i \in DOMAIN s : s[i][1] = k) ELSE s

\* What setting k to v may leave of s.
SetIn(s, k, v) ==
  IF k \in Keys(s)
  THEN {[i \in DOMAIN s |-> IF s[i][1] = k THEN <<k, v>> ELSE s[i]],
        Append(Without(s, k), <<k, v>>)}
  ELSE {Append(s, <<k, v>>)}

\* What a map built from range r holds: its keys once each, with the value
\* that occurs last.  Of equal keys either occurrence may give the position.
BuiltFrom(s, r) ==
  /\ Keys(s) = Keys(r) /\ Len(s) = Cardinality(Keys(r))
  /\ \A i \in DOMAIN s :
       \E j \in DOMAIN r :
          r[j] = s[i] /\ \A l \in DOMAIN r : r[l][1] = s[i][1] => l <= j

OMInit == \E r \in Ranges : BuiltFrom(pairs, r)

Put(k, v) == pairs' \in SetIn(pairs, k, v)

Withdraw(k) == pairs' = Without(pairs, k)

Clear == pairs' = <<>>

OMNext ==
  \/ \E p \in Pairs : Put(p[1], p[2])
  \/ \E k \in Key : Withdraw(k)
  \/ Clear

OMSpec == OMInit /\ [][OMNext]_pairs
=============================================================================
