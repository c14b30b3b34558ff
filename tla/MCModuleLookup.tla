--------------------------- MODULE MCModuleLookup ---------------------------
(***************************************************************************)
(* The default system library, which embeds a module of kind k, and a      *)
(* library that is loaded from a file.                                     *)
(***************************************************************************)
EXTENDS ModuleLookup, TLC

CONSTANTS t1, t2, m1, m2, m3, f1, f2, f3, n1, l0, l1, k

MCThread == {t1, t2}
MCMod == {m1, m2, m3}
MCFunc == {f1, f2, f3}
MCName == {n1}
MCLib == {l0, l1}
MCSystemLib == {l0}
MCKind == {k}
MCSymbols == l0 :> {n1} @@ l1 :> {n1} @@ k :> {}
Tree(entries, children) == [entries |-> entries, children |-> children]
MCLayout ==
  l0 :> Tree(<<LibEntry, k>>, <<<<2>>, <<>>>>) @@ l1 :> Tree(<<LibEntry>>, <<<<>>>>)

Symmetry ==
  Permutations(MCThread) \union Permutations(MCMod) \union Permutations(MCFunc)
=============================================================================
