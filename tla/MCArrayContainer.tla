-------------------------- MODULE MCArrayContainer --------------------------
(***************************************************************************)
(* Two handles and arrays of up to two elements, so that a block is shared *)
(* by both handles and by a map, grows past its capacity with and without  *)
(* sharing, and loses elements before others.  MaxElements bounds nothing: *)
(* three blocks of two elements hold no more.                              *)
(***************************************************************************)
EXTENDS ArrayContainer, TLC

CONSTANTS h1, h2, b1, b2, b3, v1

MCHandle == {h1, h2}
MCBlock == {b1, b2, b3}
MCValue == {v1}

\* A type that has no defaults, and one that makes a v1 of them.
MCTypes == [strict : {{v1}}, conv : {v1 :> v1 @@ None :> NoConv, v1 :> v1 @@ None :> v1}]

MCLengths == {-1, 0, 2}
MCRanges == {<<>>, <<v1, v1>>}

Symmetry == Permutations(MCHandle) \union Permutations(MCBlock)
=============================================================================
