--------------------------- MODULE MCMapContainer ---------------------------
(***************************************************************************)
(* Five keys in a table of 8 slots, chosen so that every way TryInsert can *)
(* run out of probes occurs: behind a tail, before the first node of       *)
(* TrySpareListHead is moved, and after it is.                             *)
(***************************************************************************)
EXTENDS MapContainer, TLC

CONSTANTS k1, k2, k3, k4, k5, v1, v2

MCKey == {k1, k2, k3, k4, k5}
MCValue == {v1, v2}
MCPairs == {<<k1, v1>>, <<k1, v2>>, <<k2, v1>>, <<k2, v2>>, <<k3, v2>>, <<k4, v1>>, <<k5, v2>>}

\* With 8 slots k1, k2, k3 share home slot 0, k4 has 1 and k5 has 5; with 16
\* slots k1 and k2 still collide.
MCHash == k1 :> 0 @@ k2 :> 1 @@ k3 :> 2 @@ k4 :> 4 @@ k5 :> 20
MCProbe == <<1, 4>>

MCRanges ==
  {<<>>, <<<<k1, v1>>>>, <<<<k2, v1>>, <<k2, v2>>>>,
   <<<<k1, v1>>, <<k2, v1>>, <<k1, v2>>>>,
   <<<<k1, v1>>, <<k2, v1>>, <<k1, v2>>, <<k3, v2>>>>}
=============================================================================
