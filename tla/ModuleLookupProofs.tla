------------------------- MODULE ModuleLookupProofs -------------------------
(***************************************************************************)
(* Proofs about ModuleLookup, for any threads, addresses, names and         *)
(* libraries.  Actions first change the objects (ms, fs, sl) and then       *)
(* release what nothing refers to any more, so the parts of the invariant   *)
(* are predicates of the objects: they are shown for the changed objects,   *)
(* and then once for what is left after the release.                        *)
(***************************************************************************)
EXTENDS ModuleLookup, TLAPS

Types(ms, fs, gl, hd, cx, sl, lk, lm, ll, cl, ld) ==
  /\ ms \in [Mod -> ModuleObj \union {Null}]
  /\ fs \in [Func -> FunctionObj \union {Null}]
  /\ gl \in [Name -> Func \union {Null}]
  /\ hd \subseteq Mod \union Func
  /\ cx \in [Lib -> Mod \union {Null}]
  /\ sl \subseteq [ctx : Mod, func : Func]
  /\ lk \in Thread \union {Null}
  /\ lm \in [SystemLib -> Mod \union {Null}]
  /\ ll \in Thread \union {Null}
  /\ cl \in [Thread -> Call \union {Null}]
  /\ ld \in [Thread -> Load \union {Null}]

\* The objects that somebody refers to, the loads aside, and those that only a
\* load refers to.
Outer(hd, gl, lm, cl) ==
  hd \union (Elements(gl) \ {Null}) \union (Elements(lm) \ {Null})
  \union UNION {CallRoots(cl[t]) : t \in {t \in Thread : cl[t] # Null}}
Public(ms, fs, outer) ==
  outer \union UNION {Refs(ms, fs, x) : x \in Allocated(ms, fs)}
Loading(ld) == UNION {Elements(ld[t].loaded) : t \in {t \in Thread : ld[t] # Null}}

\* No reference dangles, and what is being loaded is nobody else's business.
References(ms, fs, outer, ld) ==
  /\ Public(ms, fs, outer) \subseteq Allocated(ms, fs)
  /\ Loading(ld) \subseteq Allocated(ms, fs)
  /\ Loading(ld) \intersect Public(ms, fs, outer) = {}

\* A walk starts at the module of the function that asked, which is not in the
\* cache yet.
Walks(ms, fs, cl) ==
  \A t \in Thread : cl[t] # Null =>
    /\ cl[t].stack # <<>> /\ cl[t].stack[1].mod = cl[t].mod
    /\ cl[t].running # Null => /\ fs[cl[t].running].self = cl[t].mod
                               /\ ms[cl[t].mod].cache[cl[t].name] = Null

Locks(lk, ll, cl, ld) ==
  \A t \in Thread :
    /\ lk = t <=> cl[t] # Null /\ cl[t].running # Null
    /\ ll = t <=> ld[t] # Null /\ ld[t].lib \in SystemLib

\* A library has one module, its context.
Contexts(ms, cx) ==
  \A m \in Mod : ms[m] # Null /\ ms[m].code \in Lib => cx[ms[m].code] = m

\* Loads are of different libraries and make different modules; the module of
\* the library that is loaded is among them, if there is one.
Loads(ms, ld) ==
  /\ \A t \in Thread : ld[t] # Null => Len(ld[t].loaded) <= Len(Entries(ld[t].lib))
  /\ \A t, u \in Thread : ld[t] # Null /\ ld[u] # Null =>
       /\ t # u => ld[t].lib # ld[u].lib
       /\ \A i \in DOMAIN ld[t].loaded, j \in DOMAIN ld[u].loaded :
            ld[t].loaded[i] = ld[u].loaded[j] => t = u /\ i = j
  /\ \A t \in Thread, m \in Mod :
       ld[t] # Null /\ ms[m] # Null /\ ms[m].code = ld[t].lib =>
         \E i \in DOMAIN ld[t].loaded :
           ld[t].loaded[i] = m /\ Entries(ld[t].lib)[i] = LibEntry

\* The module of a system library is in the registry or on its way there.
Registry(ms, lm, ld) ==
  \A m \in Mod : ms[m] # Null /\ ms[m].code \in SystemLib =>
    \/ lm[ms[m].code] # Null
    \/ \E t \in Thread : ld[t] # Null /\ ld[t].lib = ms[m].code

\* The cache of a library's module keeps what its code was given.
Slots(ms, sl) ==
  \A s \in sl : ms[s.ctx] # Null /\ \E n \in Name : ms[s.ctx].cache[n] = s.func

Imports(ms) == [m \in Mod |-> IF ms[m] = Null THEN {} ELSE Elements(ms[m].imports)]
Acyclic(ms) == \A S \in SUBSET Mod : ~Cyclic(S, Imports(ms))

\* What holds of the objects a step makes, whether it releases some or not.
Whole(ms, fs, gl, hd, cx, sl, lk, lm, ll, cl, ld) ==
  /\ Types(ms, fs, gl, hd, cx, sl, lk, lm, ll, cl, ld)
  /\ References(ms, fs, Outer(hd, gl, lm, cl), ld)
  /\ Walks(ms, fs, cl)
  /\ Locks(lk, ll, cl, ld)
  /\ Contexts(ms, cx)
  /\ Loads(ms, ld)
  /\ Slots(ms, sl)
  /\ Acyclic(ms)

IInv ==
  /\ Whole(mods, funcs, globals, held, ctx, slots, lock, lib_map, lib_lock, call, load)
  /\ Registry(mods, lib_map, load)

-----------------------------------------------------------------------------
(* What a release leaves. *)

\* The objects kept are the roots and what the objects kept refer to.
LEMMA KeptFacts ==
  ASSUME NEW ms, NEW fs, NEW roots, roots \subseteq Allocated(ms, fs)
  PROVE  /\ roots \subseteq Kept(roots, ms, fs)
         /\ Kept(roots, ms, fs) \subseteq Allocated(ms, fs)
         /\ \A y \in Kept(roots, ms, fs) :
              Refs(ms, fs, y) \intersect Allocated(ms, fs) \subseteq Kept(roots, ms, fs)
         /\ \A x \in Kept(roots, ms, fs) \ roots :
              \E y \in Kept(roots, ms, fs) : x \in Refs(ms, fs, y)
  <1> DEFINE A == Allocated(ms, fs)
             R(y) == Refs(ms, fs, y)
             Good(S) == \A x \in S : \E y \in S \union roots : x \in R(y)
             K == roots \union UNION {S \in SUBSET (A \ roots) : Good(S)}
  <1>1. Kept(roots, ms, fs) = K
    BY DEF Kept
  <1>2. roots \subseteq K /\ K \subseteq A
    OBVIOUS
  <1>3. ASSUME NEW y \in K, NEW x \in R(y) \intersect A PROVE x \in K
    <2>1. CASE x \in roots
      BY <2>1
    <2>2. CASE x \notin roots /\ y \in roots
      <3>1. Good({x})
        BY <1>3, <2>2
      <3>2. {x} \in SUBSET (A \ roots)
        BY <1>3, <2>2
      <3> QED BY <3>1, <3>2
    <2>3. CASE x \notin roots /\ y \notin roots
      <3>1. PICK S \in SUBSET (A \ roots) : Good(S) /\ y \in S
        BY <2>3
      <3>2. Good(S \union {x})
        BY <3>1, <1>3
      <3>3. S \union {x} \in SUBSET (A \ roots)
        BY <3>1, <1>3, <2>3
      <3> QED BY <3>2, <3>3
    <2> QED BY <2>1, <2>2, <2>3
  <1>4. ASSUME NEW x \in K \ roots PROVE \E y \in K : x \in R(y)
    <2>1. PICK S \in SUBSET (A \ roots) : Good(S) /\ x \in S
      OBVIOUS
    <2>2. PICK y \in S \union roots : x \in R(y)
      BY <2>1
    <2>3. y \in K
      BY <2>1
    <2> QED BY <2>2, <2>3
  <1> HIDE DEF K
  <1> QED BY <1>1, <1>2, <1>3, <1>4

LEMMA SettleFacts ==
  ASSUME NEW ms, NEW fs, NEW sl, Settle(ms, fs, sl),
         Types(ms, fs, globals', held', ctx', sl, lock', lib_map', lib_lock', call', load'),
         References(ms, fs, Outer(held', globals', lib_map', call'), load')
  PROVE  LET kept == Allocated(mods', funcs')
         IN /\ Outer(held', globals', lib_map', call') \union Loading(load') \subseteq kept
            /\ kept \subseteq Allocated(ms, fs)
            /\ \A x \in kept : /\ Refs(mods', funcs', x) = Refs(ms, fs, x)
                               /\ Refs(ms, fs, x) \subseteq kept
            /\ \A m \in Mod : mods'[m] = IF m \in kept THEN ms[m] ELSE Null
            /\ \A f \in Func : funcs'[f] = IF f \in kept THEN fs[f] ELSE Null
            /\ slots' = {s \in sl : s.ctx \in kept}
  <1> DEFINE outer == Outer(held', globals', lib_map', call')
             roots == outer \union Loading(load')
             K == Kept(roots, ms, fs)
  <1>1. roots \subseteq Allocated(ms, fs)
    BY DEF References, Public
  <1>2. Roots' = roots
    BY DEF Roots, Outer, Loading
  <1>3. /\ mods' = [m \in Mod |-> IF m \in K THEN ms[m] ELSE Null]
        /\ funcs' = [f \in Func |-> IF f \in K THEN fs[f] ELSE Null]
        /\ slots' = {s \in sl : s.ctx \in K}
    BY <1>2 DEF Settle
  <1> HIDE DEF roots
  <1>4. /\ roots \subseteq K /\ K \subseteq Allocated(ms, fs)
        /\ \A y \in K : Refs(ms, fs, y) \intersect Allocated(ms, fs) \subseteq K
    BY <1>1, KeptFacts
  <1> HIDE DEF K
  <1>5. Allocated(mods', funcs') = K
    BY <1>3, <1>4 DEF Allocated
  <1>6. \A x \in K : Refs(mods', funcs', x) = Refs(ms, fs, x)
    BY <1>3, <1>4 DEF Refs, Allocated
  <1>7. \A x \in K : Refs(ms, fs, x) \subseteq K
    BY <1>4 DEF References, Public
  <1> QED
    BY <1>3, <1>4, <1>5, <1>6, <1>7 DEF roots

\* A release preserves the invariant, the registry aside.
LEMMA ReleasePreserves ==
  ASSUME NEW ms, NEW fs, NEW sl, Settle(ms, fs, sl),
         Whole(ms, fs, globals', held', ctx', sl, lock', lib_map', lib_lock', call', load')
  PROVE  Whole(mods, funcs, globals, held, ctx, slots, lock, lib_map, lib_lock, call, load)'
  <1> DEFINE outer == Outer(held', globals', lib_map', call')
             kept == Allocated(mods', funcs')
  <1>w. /\ Types(ms, fs, globals', held', ctx', sl, lock', lib_map', lib_lock', call', load')
        /\ References(ms, fs, outer, load')
        /\ Walks(ms, fs, call')
        /\ Locks(lock', lib_lock', call', load')
        /\ Contexts(ms, ctx')
        /\ Loads(ms, load')
        /\ Slots(ms, sl)
        /\ Acyclic(ms)
    BY DEF Whole
  <1>1. /\ outer \union Loading(load') \subseteq kept
        /\ kept \subseteq Allocated(ms, fs)
        /\ \A x \in kept : Refs(mods', funcs', x) = Refs(ms, fs, x)
        /\ \A x \in kept : Refs(ms, fs, x) \subseteq kept
        /\ \A m \in Mod : mods'[m] = IF m \in kept THEN ms[m] ELSE Null
        /\ \A f \in Func : funcs'[f] = IF f \in kept THEN fs[f] ELSE Null
        /\ slots' = {s \in sl : s.ctx \in kept}
    BY <1>w, SettleFacts
  <1>0. /\ mods' = [m \in Mod |-> IF m \in kept THEN ms[m] ELSE Null]
        /\ funcs' = [f \in Func |-> IF f \in kept THEN fs[f] ELSE Null]
    <2> DEFINE K == Kept(Roots', ms, fs)
    <2>1. /\ mods' = [m \in Mod |-> IF m \in K THEN ms[m] ELSE Null]
          /\ funcs' = [f \in Func |-> IF f \in K THEN fs[f] ELSE Null]
      BY DEF Settle
    <2> HIDE DEF K, kept
    <2> QED BY <2>1, <1>1
  <1> HIDE DEF kept
  <1>2. Types(mods', funcs', globals', held', ctx', slots', lock', lib_map', lib_lock', call', load')
    BY <1>w, <1>0, <1>1 DEF Types
  <1>3. References(mods', funcs', outer, load')
    <2>1. Public(mods', funcs', outer) \subseteq Public(ms, fs, outer) \intersect kept
      BY <1>1 DEF Public, kept, Allocated
    <2> QED BY <2>1, <1>1, <1>w DEF References, kept
  <1>4. Walks(mods', funcs', call')
    <2>1. ASSUME NEW t \in Thread, call'[t] # Null, call'[t].running # Null
          PROVE  /\ funcs'[call'[t].running].self = call'[t].mod
                 /\ mods'[call'[t].mod].cache[call'[t].name] = Null
      <3> DEFINE c == call'[t]
      <3>1. c.running \in Func /\ c.mod \in Mod
        BY <1>w, <2>1 DEF Types, Call
      <3>2. c.running \in outer
        BY <2>1 DEF Outer, CallRoots
      <3>3. c.running \in kept /\ funcs'[c.running] = fs[c.running]
        BY <3>1, <3>2, <1>1
      <3>4. fs[c.running].self = c.mod
        BY <1>w, <2>1 DEF Walks
      <3>5. c.mod \in kept
        BY <3>1, <3>3, <3>4, <1>1, ModuleAssumption DEF Refs
      <3>6. mods'[c.mod] = ms[c.mod]
        BY <3>1, <3>5, <1>1
      <3> QED BY <3>3, <3>4, <3>6, <1>w, <2>1 DEF Walks
    <2> QED BY <2>1, <1>w DEF Walks
  <1>5. Contexts(mods', ctx')
    BY <1>w, <1>1 DEF Contexts
  <1>6. Loads(mods', load')
    BY <1>w, <1>1 DEF Loads
  <1>7. Slots(mods', slots')
    <2> SUFFICES ASSUME NEW s \in slots'
                 PROVE  mods'[s.ctx] # Null /\ \E n \in Name : mods'[s.ctx].cache[n] = s.func
      BY DEF Slots
    <2>1. s \in sl /\ s.ctx \in kept
      BY <1>1
    <2>2. s.ctx \in Mod
      BY <2>1, <1>w DEF Types
    <2> QED BY <2>1, <2>2, <1>1, <1>w DEF Slots
  <1>8. Acyclic(mods')
    <2> SUFFICES ASSUME NEW S \in SUBSET Mod, Cyclic(S, Imports(mods')) PROVE FALSE
      BY DEF Acyclic
    <2>1. \A m \in Mod : Imports(mods')[m] \subseteq Imports(ms)[m]
      BY <1>1 DEF Imports
    <2>2. Cyclic(S, Imports(ms))
      BY <2>1 DEF Cyclic
    <2> QED BY <2>2, <1>w DEF Acyclic
  <1> QED
    BY <1>w, <1>2, <1>3, <1>4, <1>5, <1>6, <1>7, <1>8 DEF Whole

-----------------------------------------------------------------------------
(* What the parts of the invariant say of a state. *)

Reachable == Public(mods, funcs, Outer(held, globals, lib_map, call))

\* References still hold when the references there are now are old ones or to
\* N, and what is being loaded was so before or is new.
LEMMA ReferencesStep ==
  ASSUME NEW ms, NEW fs, NEW outer, NEW ld, NEW ms1, NEW fs1, NEW outer1, NEW ld1,
         NEW N, NEW M,
         References(ms, fs, outer, ld),
         Allocated(ms, fs) \subseteq Allocated(ms1, fs1),
         outer1 \subseteq Public(ms, fs, outer) \union N,
         \A x \in Allocated(ms1, fs1) : Refs(ms1, fs1, x) \subseteq Public(ms, fs, outer) \union N,
         N \subseteq Allocated(ms1, fs1), N \intersect Loading(ld1) = {},
         Loading(ld1) \subseteq Loading(ld) \union M,
         M \subseteq Allocated(ms1, fs1), M \intersect Allocated(ms, fs) = {}
  PROVE  References(ms1, fs1, outer1, ld1)
  <1>1. Public(ms1, fs1, outer1) \subseteq Public(ms, fs, outer) \union N
    BY DEF Public
  <1> QED
    BY <1>1 DEF References

LEMMA NothingNewLoaded ==
  ASSUME NEW ms, NEW fs, NEW outer, NEW ld, NEW ms1, NEW fs1, NEW outer1, NEW ld1, NEW N,
         References(ms, fs, outer, ld),
         Allocated(ms, fs) \subseteq Allocated(ms1, fs1),
         outer1 \subseteq Public(ms, fs, outer) \union N,
         \A x \in Allocated(ms1, fs1) : Refs(ms1, fs1, x) \subseteq Public(ms, fs, outer) \union N,
         N \subseteq Allocated(ms1, fs1), N \intersect Loading(ld1) = {},
         Loading(ld1) \subseteq Loading(ld)
  PROVE  References(ms1, fs1, outer1, ld1)
  <1>1. /\ Loading(ld1) \subseteq Loading(ld) \union {}
        /\ {} \subseteq Allocated(ms1, fs1) /\ {} \intersect Allocated(ms, fs) = {}
    OBVIOUS
  <1> QED
    BY <1>1, ReferencesStep

LEMMA Parts ==
  ASSUME IInv
  PROVE  /\ Types(mods, funcs, globals, held, ctx, slots, lock, lib_map, lib_lock, call, load)
         /\ References(mods, funcs, Outer(held, globals, lib_map, call), load)
         /\ Walks(mods, funcs, call)
         /\ Locks(lock, lib_lock, call, load)
         /\ Contexts(mods, ctx)
         /\ Loads(mods, load)
         /\ Slots(mods, slots)
         /\ Acyclic(mods)
         /\ Registry(mods, lib_map, load)
  BY DEF IInv, Whole

LEMMA ReachableFacts ==
  ASSUME IInv
  PROVE  /\ Outer(held, globals, lib_map, call) \subseteq Reachable
         /\ \A x \in Allocated(mods, funcs) : Refs(mods, funcs, x) \subseteq Reachable
         /\ Reachable \subseteq Allocated(mods, funcs)
         /\ Loading(load) \subseteq Allocated(mods, funcs)
         /\ Loading(load) \intersect Reachable = {}
         /\ \A m \in Mod \intersect Reachable : mods[m] # Null
         /\ \A f \in Func \intersect Reachable : funcs[f] # Null
  BY Parts, ModuleAssumption DEF Reachable, Public, References, Allocated

\* The same of a step from a state of the invariant.
LEMMA StaysReachable ==
  ASSUME IInv, NEW ms, NEW fs, NEW outer, NEW ld, NEW N,
         Allocated(mods, funcs) \subseteq Allocated(ms, fs),
         outer \subseteq Reachable \union N,
         \A x \in Allocated(ms, fs) : Refs(ms, fs, x) \subseteq Reachable \union N,
         N \subseteq Allocated(ms, fs), N \intersect Loading(ld) = {},
         Loading(ld) \subseteq Loading(load)
  PROVE  References(ms, fs, outer, ld)
  <1> DEFINE o == Outer(held, globals, lib_map, call)
  <1>1. References(mods, funcs, o, load) /\ Reachable = Public(mods, funcs, o)
    BY Parts DEF Reachable
  <1> HIDE DEF o
  <1> QED
    BY <1>1, NothingNewLoaded

\* With the new objects M that a load has made.
LEMMA GrowsReachable ==
  ASSUME IInv, NEW ms, NEW fs, NEW outer, NEW ld, NEW M,
         Allocated(mods, funcs) \subseteq Allocated(ms, fs),
         outer \subseteq Reachable,
         \A x \in Allocated(ms, fs) : Refs(ms, fs, x) \subseteq Reachable,
         Loading(ld) \subseteq Loading(load) \union M,
         M \subseteq Allocated(ms, fs), M \intersect Allocated(mods, funcs) = {}
  PROVE  References(ms, fs, outer, ld)
  <1>1. Public(ms, fs, outer) \subseteq Reachable
    BY DEF Public
  <1> QED
    BY <1>1, ReachableFacts DEF References

\* The modules on the stack of a walk exist, and so does the import at hand.
LEMMA WalkFacts ==
  ASSUME IInv, NEW t \in Thread, Walking(t)
  PROVE  /\ call[t] \in Call /\ Len(call[t].stack) \in Nat \ {0}
         /\ \A i \in DOMAIN call[t].stack : call[t].stack[i].mod \in Mod \intersect Reachable
         /\ call[t].mod \in Mod \intersect Reachable
         /\ call[t].running # Null => call[t].running \in Func \intersect Reachable
         /\ Top(t) \in Frame /\ Top(t).mod \in Mod \intersect Reachable
         /\ AtImport(t) => Import(t) \in Mod \intersect Reachable
  <1> DEFINE c == call[t]
  <1>1. c \in Call
    BY Parts DEF Types, Walking
  <1>2. c.mod \in Mod /\ c.running \in Func \union {Null} /\ c.stack \in Seq(Frame)
    BY <1>1 DEF Call
  <1>3. CallRoots(c) \subseteq Reachable
    BY ReachableFacts DEF Outer, Walking
  <1>4. c.running # Null => c.running \in Func \intersect Reachable
    BY <1>2, <1>3 DEF CallRoots
  <1>5. c.mod \in Reachable
    <2>1. CASE c.running = Null
      BY <2>1, <1>3 DEF CallRoots
    <2>2. CASE c.running # Null
      <3>1. funcs[c.running].self = c.mod
        BY <2>2, Parts DEF Walks, Walking
      <3>2. c.mod \in Refs(mods, funcs, c.running)
        BY <3>1, <2>2, <1>2, <1>4, ModuleAssumption DEF Refs
      <3> QED BY <3>2, <2>2, <1>4, ReachableFacts
    <2> QED BY <2>1, <2>2
  <1>6. c.stack # <<>> /\ c.stack[1].mod = c.mod
    BY Parts DEF Walks, Walking
  <1>7. Len(c.stack) \in Nat \ {0}
    BY <1>2, <1>6
  <1>8. ASSUME NEW i \in DOMAIN c.stack
        PROVE  c.stack[i] \in Frame /\ c.stack[i].mod \in Mod \intersect Reachable
    <2>1. c.stack[i] \in Frame
      BY <1>2
    <2>2. c.stack[i].mod \in Mod
      BY <2>1 DEF Frame
    <2>3. CASE i = 1
      BY <2>3, <2>1, <2>2, <1>6, <1>5
    <2>4. CASE i # 1
      <3>1. i \in 2 .. Len(c.stack)
        BY <2>4, <1>2
      <3>2. c.stack[i].mod \in CallRoots(c)
        BY <3>1 DEF CallRoots
      <3> QED BY <3>2, <2>1, <2>2, <1>3
    <2> QED BY <2>3, <2>4
  <1>9. Len(c.stack) \in DOMAIN c.stack
    BY <1>2, <1>7
  <1>10. Top(t) \in Frame /\ Top(t).mod \in Mod \intersect Reachable
    BY <1>8, <1>9 DEF Top
  <1>11. ASSUME AtImport(t) PROVE Import(t) \in Mod \intersect Reachable
    <2> DEFINE m == Top(t).mod
    <2>1. mods[m] \in ModuleObj
      BY <1>10, ReachableFacts, Parts DEF Types
    <2>2. mods[m].imports \in Seq(Mod)
      BY <2>1 DEF ModuleObj
    <2>3. Top(t).next \in DOMAIN mods[m].imports
      BY <1>10, <1>11, <2>2 DEF AtImport, Frame
    <2>4. Import(t) \in Mod /\ Import(t) \in Elements(mods[m].imports)
      BY <2>2, <2>3 DEF Import, Elements
    <2>5. Import(t) \in Refs(mods, funcs, m)
      BY <2>4, <1>10, ModuleAssumption DEF Refs
    <2> QED BY <2>4, <2>5, <1>10, ReachableFacts
  <1> QED
    BY <1>1, <1>4, <1>2, <1>5, <1>7, <1>8, <1>10, <1>11

-----------------------------------------------------------------------------
(* The steps of a lookup. *)

\* A walk that is of the right form, and has the lock if it has to, goes on.
LEMMA WalkGoesOn ==
  ASSUME IInv, NEW t \in Thread, NEW c \in Call,
         call' = [call EXCEPT ![t] = c],
         UNCHANGED <<mods, funcs, globals, held, ctx, slots, lib_map, lib_lock, load>>,
         c.running # Null => /\ c.running \in Reachable /\ funcs[c.running].self = c.mod
                             /\ mods[c.mod].cache[c.name] = Null
                             /\ lock \in {Null, t} /\ lock' = t,
         c.running = Null => lock' = lock /\ lock # t,
         c.mod \in Reachable, c.stack # <<>>, c.stack[1].mod = c.mod,
         \A i \in DOMAIN c.stack : c.stack[i].mod \in Reachable
  PROVE  IInv'
  <1>1. Types(mods, funcs, globals, held, ctx, slots, lock', lib_map, lib_lock, call', load)
    BY Parts DEF Types
  <1>2. References(mods, funcs, Outer(held, globals, lib_map, call'), load)
    <2>1. CallRoots(c) \subseteq Reachable
      <3>1. c.stack \in Seq(Frame)
        BY DEF Call
      <3>2. 2 .. Len(c.stack) \subseteq DOMAIN c.stack
        BY <3>1
      <3> QED BY <3>2 DEF CallRoots
    <2>2. Outer(held, globals, lib_map, call') \subseteq Outer(held, globals, lib_map, call) \union CallRoots(c)
      <3>1. \A u \in Thread : call'[u] = c \/ call'[u] = call[u]
        BY Parts DEF Types
      <3> QED BY <3>1 DEF Outer
    <2>3. Outer(held, globals, lib_map, call') \subseteq Reachable
      BY <2>1, <2>2, ReachableFacts
    <2> QED
      BY <2>3, Parts, ReachableFacts, ReferencesStep DEF Reachable, References, Public
  <1>3. Walks(mods, funcs, call')
    BY Parts DEF Walks, Types
  <1>4. Locks(lock', lib_lock, call', load)
    <2>1. c # Null
      BY ModuleAssumption
    <2>2. \A u \in Thread : u # t => call'[u] = call[u]
      BY DEF Types
    <2>3. call'[t] = c
      BY Parts DEF Types
    <2>4. t # Null
      BY ModuleAssumption
    <2>5. CASE c.running # Null
      <3>1. \A u \in Thread : u # t => lock # u
        BY <2>5, ModuleAssumption
      <3> QED BY <3>1, <2>1, <2>2, <2>3, <2>5, Parts DEF Locks
    <2>6. CASE c.running = Null
      BY <2>6, <2>1, <2>2, <2>3, Parts DEF Locks
    <2> QED BY <2>5, <2>6
  <1> QED
    BY <1>1, <1>2, <1>3, <1>4, Parts DEF IInv, Whole

LEMMA DeeperFacts ==
  ASSUME NEW s \in Seq(Frame), Len(s) \in Nat \ {0}, NEW m \in Mod
  PROVE  /\ Deeper(s, m) \in Seq(Frame) /\ Deeper(s, m) # <<>>
         /\ Deeper(s, m)[1].mod = s[1].mod
         /\ \A i \in DOMAIN Deeper(s, m) :
              Deeper(s, m)[i].mod = m \/ \E j \in DOMAIN s : Deeper(s, m)[i].mod = s[j].mod
  <1> DEFINE s1 == [s EXCEPT ![Len(s)].next = @ + 1]
             d == Append(s1, NewFrame(m))
  <1>1. s1 \in Seq(Frame) /\ Len(s1) = Len(s) /\ \A i \in 1 .. Len(s) : s1[i].mod = s[i].mod
    <2>1. s[Len(s)] \in Frame
      OBVIOUS
    <2>2. [s[Len(s)] EXCEPT !.next = @ + 1] \in Frame
      BY <2>1 DEF Frame
    <2> QED BY <2>1, <2>2 DEF Frame
  <1>2. NewFrame(m) \in Frame /\ NewFrame(m).mod = m
    BY DEF NewFrame, Frame
  <1> HIDE DEF s1
  <1>3. /\ d \in Seq(Frame) /\ Len(d) = Len(s) + 1 /\ d[Len(s) + 1] = NewFrame(m)
        /\ \A i \in 1 .. Len(s) : d[i] = s1[i]
    BY <1>1, <1>2
  <1>4. Deeper(s, m) = d
    BY DEF Deeper, s1
  <1> HIDE DEF d
  <1>5. DOMAIN d = 1 .. Len(s) + 1 /\ DOMAIN s = 1 .. Len(s) /\ 1 \in 1 .. Len(s)
    BY <1>3
  <1>6. \A i \in 1 .. Len(s) + 1 : i = Len(s) + 1 \/ i \in 1 .. Len(s)
    OBVIOUS
  <1> QED
    BY <1>1, <1>2, <1>3, <1>4, <1>5, <1>6

\* A record with another stack.
LEMMA CallWithStack ==
  ASSUME NEW c \in Call, NEW s \in Seq(Frame)
  PROVE  /\ [c EXCEPT !.stack = s] \in Call /\ [c EXCEPT !.stack = s].stack = s
         /\ [c EXCEPT !.stack = s].running = c.running
         /\ [c EXCEPT !.stack = s].mod = c.mod /\ [c EXCEPT !.stack = s].name = c.name
  BY DEF Call

\* A walk goes on with another stack of modules it may look at.
LEMMA StackChanges ==
  ASSUME IInv, NEW t \in Thread, Walking(t), NEW s \in Seq(Frame),
         call' = [call EXCEPT ![t] = [call[t] EXCEPT !.stack = s]],
         UNCHANGED <<mods, funcs, globals, held, ctx, slots, lock, lib_map, lib_lock, load>>,
         s # <<>>, s[1].mod = call[t].stack[1].mod,
         \A i \in DOMAIN s : s[i].mod \in Reachable
  PROVE  IInv'
  <1> DEFINE c == [call[t] EXCEPT !.stack = s]
  <1>1. call[t] \in Call
    BY WalkFacts
  <1>2. /\ c \in Call /\ c.stack = s /\ c.running = call[t].running
        /\ c.mod = call[t].mod /\ c.name = call[t].name
    BY <1>1, CallWithStack
  <1>3. /\ call[t].running # Null => /\ call[t].running \in Reachable
                                     /\ funcs[call[t].running].self = call[t].mod
                                     /\ mods[call[t].mod].cache[call[t].name] = Null
                                     /\ lock = t
        /\ call[t].running = Null => lock # t
        /\ call[t].mod \in Reachable /\ s[1].mod = call[t].mod
    BY WalkFacts, Parts DEF Walks, Walking, Locks
  <1>4. call' = [call EXCEPT ![t] = c]
    OBVIOUS
  <1>5. UNCHANGED <<mods, funcs, globals, held, ctx, slots, lib_map, lib_lock, load>> /\ lock' = lock
    OBVIOUS
  <1> HIDE DEF c
  <1>6. c.running # Null => /\ c.running \in Reachable /\ funcs[c.running].self = c.mod
                            /\ mods[c.mod].cache[c.name] = Null
                            /\ lock \in {Null, t} /\ lock' = t
    BY <1>2, <1>3, <1>5
  <1>7. c.running = Null => lock' = lock /\ lock # t
    BY <1>2, <1>3, <1>5
  <1>8. /\ c.mod \in Reachable /\ c.stack # <<>> /\ c.stack[1].mod = c.mod
        /\ \A i \in DOMAIN c.stack : c.stack[i].mod \in Reachable
    BY <1>2, <1>3
  <1> QED
    BY <1>2, <1>4, <1>5, <1>6, <1>7, <1>8, WalkGoesOn

LEMMA DescendStep ==
  ASSUME IInv, NEW t \in Thread, Descend(t)
  PROVE  IInv'
  <1> DEFINE s == call[t].stack
             d == Deeper(s, Import(t))
  <1>1. Walking(t) /\ AtImport(t)
    BY DEF Descend, AtImport
  <1>2. s \in Seq(Frame) /\ Len(s) \in Nat \ {0} /\ Import(t) \in Mod \intersect Reachable
    BY <1>1, WalkFacts DEF Call
  <1>3. /\ d \in Seq(Frame) /\ d # <<>> /\ d[1].mod = s[1].mod
        /\ \A i \in DOMAIN d : d[i].mod = Import(t) \/ \E j \in DOMAIN s : d[i].mod = s[j].mod
    BY <1>2, DeeperFacts
  <1>4. call' = [call EXCEPT ![t] = [call[t] EXCEPT !.stack = d]]
    BY DEF Descend
  <1> HIDE DEF d
  <1>5. \A i \in DOMAIN d : d[i].mod \in Reachable
    BY <1>1, <1>2, <1>3, WalkFacts
  <1>6. UNCHANGED <<mods, funcs, globals, held, ctx, slots, lock, lib_map, lib_lock, load>>
    BY DEF Descend
  <1> QED
    BY <1>1, <1>3, <1>4, <1>5, <1>6, StackChanges

LEMMA FrontFacts ==
  ASSUME NEW s \in Seq(Frame), Len(s) > 1
  PROVE  LET d == SubSeq(s, 1, Len(s) - 1)
         IN /\ d \in Seq(Frame) /\ d # <<>> /\ d[1] = s[1]
            /\ \A i \in DOMAIN d : i \in DOMAIN s /\ d[i] = s[i]
  <1> DEFINE n == Len(s) - 1
             d == SubSeq(s, 1, n)
  <1>1. n \in Nat /\ n >= 1 /\ DOMAIN s = 1 .. n + 1
    OBVIOUS
  <1>2. /\ d \in Seq(Frame) /\ Len(d) = n
        /\ \A i \in 1 .. n : d[i] = s[i]
    BY <1>1
  <1> HIDE DEF n
  <1>3. DOMAIN d = 1 .. n
    BY <1>2
  <1> HIDE DEF d
  <1>4. d # <<>> /\ 1 \in 1 .. n /\ 1 .. n \subseteq 1 .. n + 1
    BY <1>1, <1>2, <1>3
  <1> QED
    BY <1>1, <1>2, <1>3, <1>4 DEF d, n

LEMMA AscendStep ==
  ASSUME IInv, NEW t \in Thread, Ascend(t)
  PROVE  IInv'
  <1> DEFINE s == call[t].stack
             d == SubSeq(s, 1, Len(s) - 1)
  <1>1. Walking(t) /\ Len(s) > 1
    BY DEF Ascend
  <1>2. s \in Seq(Frame) /\ Len(s) \in Nat \ {0}
    BY <1>1, WalkFacts DEF Call
  <1>3. /\ d \in Seq(Frame) /\ d # <<>> /\ d[1] = s[1]
        /\ \A i \in DOMAIN d : i \in DOMAIN s /\ d[i] = s[i]
    BY <1>1, <1>2, FrontFacts
  <1>4. call' = [call EXCEPT ![t] = [call[t] EXCEPT !.stack = d]]
    BY DEF Ascend
  <1> HIDE DEF d
  <1>5. \A i \in DOMAIN d : d[i].mod \in Reachable
    BY <1>1, <1>3, WalkFacts
  <1>6. UNCHANGED <<mods, funcs, globals, held, ctx, slots, lock, lib_map, lib_lock, load>>
    BY DEF Ascend
  <1> QED
    BY <1>1, <1>3, <1>4, <1>5, <1>6, StackChanges

\* The functions fs are those there are and perhaps new ones, of which N get
\* references.
Serves(fs, N) ==
  /\ fs \in [Func -> FunctionObj \union {Null}]
  /\ \A g \in Func : funcs[g] # Null => fs[g] = funcs[g]
  /\ \A g \in Func : fs[g] # Null => fs[g].self \in Reachable \union {Null}
  /\ N \subseteq Func /\ \A g \in N : fs[g] # Null

LEMMA ServesFacts ==
  ASSUME IInv, NEW fs, NEW N, Serves(fs, N)
  PROVE  /\ Allocated(mods, funcs) \subseteq Allocated(mods, fs)
         /\ \A x \in Allocated(mods, fs) : Refs(mods, fs, x) \subseteq Reachable \union N
         /\ N \subseteq Allocated(mods, fs) /\ N \intersect Loading(load) = {}
         /\ Walks(mods, fs, call)
  <1>1. Allocated(mods, funcs) \subseteq Allocated(mods, fs) /\ N \subseteq Allocated(mods, fs)
    BY DEF Allocated, Serves
  <1>2. ASSUME NEW x \in Allocated(mods, fs) PROVE Refs(mods, fs, x) \subseteq Reachable
    <2>1. CASE x \in Mod
      <3>1. x \in Allocated(mods, funcs) /\ Refs(mods, fs, x) = Refs(mods, funcs, x)
        BY <2>1, ModuleAssumption DEF Allocated, Refs
      <3> QED BY <3>1, ReachableFacts
    <2>2. CASE x \notin Mod
      BY <2>2 DEF Allocated, Refs, Serves
    <2> QED BY <2>1, <2>2
  <1>3. N \intersect Loading(load) = {}
    <2>1. \A t \in Thread : load[t] # Null => load[t].loaded \in Seq(Mod)
      BY Parts DEF Types, Load
    <2>2. \A t \in Thread : load[t] # Null => Elements(load[t].loaded) \subseteq Mod
      BY <2>1 DEF Elements
    <2> QED BY <2>2, ModuleAssumption DEF Loading, Serves
  <1>4. Walks(mods, fs, call)
    <2> SUFFICES ASSUME NEW t \in Thread, call[t] # Null, call[t].running # Null
                 PROVE  fs[call[t].running].self = call[t].mod
      BY Parts DEF Walks
    <2>1. call[t].running \in Func \intersect Reachable
      BY WalkFacts DEF Walking
    <2> QED BY <2>1, ReachableFacts, Parts DEF Walks, Serves
  <1> QED
    BY <1>1, <1>2, <1>3, <1>4

LEMMA SameFunctions ==
  ASSUME IInv, NEW N, N \subseteq Func \intersect Reachable
  PROVE  Serves(funcs, N)
  <1>1. ASSUME NEW g \in Func, funcs[g] # Null PROVE funcs[g].self \in Reachable \union {Null}
    BY <1>1, ReachableFacts, ModuleAssumption DEF Allocated, Refs
  <1> QED
    BY <1>1, Parts, ReachableFacts DEF Serves, Types

LEMMA NewFunction ==
  ASSUME IInv, NEW f \in Func, funcs[f] = Null,
         NEW fo \in FunctionObj, fo.self \in Reachable \union {Null}
  PROVE  Serves([funcs EXCEPT ![f] = fo], {f})
  <1>1. Serves(funcs, {})
    BY SameFunctions
  <1> QED
    BY <1>1, ModuleAssumption DEF Serves

LEMMA ClosureType ==
  ASSUME IInv, NEW m \in Mod \intersect Reachable, NEW n \in Name
  PROVE  Closure(m, n) \in FunctionObj /\ Closure(m, n).self = m
  <1>1. mods[m] \in ModuleObj
    BY ReachableFacts, Parts DEF Types
  <1>2. CodeOf(m, n) \in Code \union {Null}
    BY <1>1, ModuleAssumption DEF CodeOf, ModuleObj, Code
  <1> QED
    BY <1>2 DEF Closure, FunctionObj

\* What holds before a release when only references change and functions come.
LEMMA FunctionsServed ==
  ASSUME IInv, NEW fs, NEW N, Serves(fs, N), NEW gl, NEW hd, NEW lk, NEW cl,
         gl \in [Name -> Func \union {Null}], hd \subseteq Mod \union Func,
         lk \in Thread \union {Null}, cl \in [Thread -> Call \union {Null}],
         Outer(hd, gl, lib_map, cl) \subseteq Reachable \union N,
         \A t \in Thread : cl[t] \in {call[t], Null},
         Locks(lk, lib_lock, cl, load)
  PROVE  Whole(mods, fs, gl, hd, ctx, slots, lk, lib_map, lib_lock, cl, load)
  <1>1. Types(mods, fs, gl, hd, ctx, slots, lk, lib_map, lib_lock, cl, load)
    BY Parts DEF Types, Serves
  <1>2. References(mods, fs, Outer(hd, gl, lib_map, cl), load)
    <2> DEFINE outer == Outer(hd, gl, lib_map, cl)
    <2>1. outer \subseteq Reachable \union N
      OBVIOUS
    <2>2. /\ Allocated(mods, funcs) \subseteq Allocated(mods, fs)
          /\ \A x \in Allocated(mods, fs) : Refs(mods, fs, x) \subseteq Reachable \union N
          /\ N \subseteq Allocated(mods, fs) /\ N \intersect Loading(load) = {}
      BY ServesFacts
    <2> HIDE DEF outer
    <2>3. References(mods, fs, outer, load)
      BY <2>1, <2>2, StaysReachable
    <2> QED BY <2>3 DEF outer
  <1>3. Walks(mods, fs, cl)
    BY ServesFacts DEF Walks
  <1> QED
    BY <1>1, <1>2, <1>3, Parts DEF Whole

\* The registry knows the modules that a release leaves.
LEMMA RegistryStays ==
  ASSUME IInv, NEW ms, NEW fs, NEW sl, Settle(ms, fs, sl),
         UNCHANGED <<lib_map, load>>,
         \A m \in Mod : ms[m] # Null => mods[m] # Null /\ ms[m].code = mods[m].code
  PROVE  Registry(mods, lib_map, load)'
  <1>1. \A m \in Mod : mods'[m] # Null => mods'[m] = ms[m]
    BY DEF Settle
  <1> QED
    BY <1>1, Parts DEF Registry

\* The end of a lookup of a thread, and no other change of references.
LEMMA OuterWhenCallEnds ==
  ASSUME IInv, NEW t \in Thread, NEW cl, cl = [call EXCEPT ![t] = Null]
  PROVE  /\ cl \in [Thread -> Call \union {Null}]
         /\ \A u \in Thread : cl[u] \in {call[u], Null}
         /\ \A hd, gl : Outer(hd, gl, lib_map, cl) \subseteq
                          hd \union (Elements(gl) \ {Null}) \union Reachable
  <1>1. /\ cl \in [Thread -> Call \union {Null}]
        /\ \A u \in Thread : cl[u] \in {call[u], Null}
    BY Parts DEF Types
  <1>2. UNION {CallRoots(cl[u]) : u \in {u \in Thread : cl[u] # Null}} \subseteq Reachable
    BY <1>1, ReachableFacts DEF Outer
  <1>3. Elements(lib_map) \ {Null} \subseteq Reachable
    BY ReachableFacts DEF Outer
  <1> QED
    BY <1>1, <1>2, <1>3 DEF Outer

\* The modules when the function f of the name n is put in the cache of m.
Cached(m, n, f) == [mods EXCEPT ![m].cache[n] = f]

LEMMA CacheFacts ==
  ASSUME IInv, NEW m \in Mod, mods[m] # Null, NEW n \in Name, NEW f \in Func, NEW ms,
         ms = Cached(m, n, f)
  PROVE  /\ ms \in [Mod -> ModuleObj \union {Null}]
         /\ \A x \in Mod : ms[x] # Null <=> mods[x] # Null
         /\ \A x \in Mod : mods[x] # Null => /\ ms[x].code = mods[x].code
                                             /\ ms[x].imports = mods[x].imports
         /\ \A x \in Mod : x # m => ms[x] = mods[x]
         /\ \A k \in Name : ms[m].cache[k] = IF k = n THEN f ELSE mods[m].cache[k]
  <1> DEFINE o == [mods[m] EXCEPT !.cache = [mods[m].cache EXCEPT ![n] = f]]
  <1>1. mods[m] \in ModuleObj
    BY Parts DEF Types
  <1>2. mods[m].cache \in [Name -> Func \union {Null}]
    BY <1>1 DEF ModuleObj
  <1>3. /\ o \in ModuleObj /\ o.code = mods[m].code /\ o.imports = mods[m].imports
        /\ o.cache = [mods[m].cache EXCEPT ![n] = f]
    BY <1>1, <1>2 DEF ModuleObj
  <1>4. ms = [mods EXCEPT ![m] = o]
    BY DEF Cached
  <1>5. o # Null
    BY <1>3, ModuleAssumption
  <1> HIDE DEF o
  <1>6. mods \in [Mod -> ModuleObj \union {Null}]
    BY Parts DEF Types
  <1>7. ms[m] = o /\ \A x \in Mod : x # m => ms[x] = mods[x]
    BY <1>4, <1>6
  <1>8. ms \in [Mod -> ModuleObj \union {Null}]
    BY <1>3, <1>4, <1>6
  <1>9. \A k \in Name : ms[m].cache[k] = IF k = n THEN f ELSE mods[m].cache[k]
    BY <1>2, <1>3, <1>7
  <1> QED
    BY <1>3, <1>5, <1>7, <1>8, <1>9

\* A new cache entry adds a reference to its function only.
LEMMA CacheRefs ==
  ASSUME IInv, NEW m \in Mod, mods[m] # Null, NEW n \in Name, NEW f \in Func, NEW ms, NEW fs,
         ms = Cached(m, n, f)
  PROVE  /\ Allocated(ms, fs) = Allocated(mods, fs)
         /\ \A x \in Allocated(mods, fs) : Refs(ms, fs, x) \subseteq Refs(mods, fs, x) \union {f}
  <1>1. Allocated(ms, fs) = Allocated(mods, fs)
    BY CacheFacts DEF Allocated
  <1>2. \A x \in Mod : x # m => ms[x] = mods[x]
    BY CacheFacts
  <1>3. ms[m].imports = mods[m].imports
    BY CacheFacts
  <1>4. Elements(ms[m].cache) \subseteq Elements(mods[m].cache) \union {f}
    <2>1. ms[m] \in ModuleObj /\ mods[m] \in ModuleObj
      <3>1. ms \in [Mod -> ModuleObj \union {Null}] /\ ms[m] # Null
        BY CacheFacts
      <3> QED BY <3>1, Parts DEF Types
    <2>2. DOMAIN ms[m].cache = Name /\ DOMAIN mods[m].cache = Name
      BY <2>1 DEF ModuleObj
    <2>3. \A k \in Name : ms[m].cache[k] = IF k = n THEN f ELSE mods[m].cache[k]
      BY CacheFacts
    <2> QED BY <2>2, <2>3 DEF Elements
  <1>5. ASSUME NEW x \in Allocated(mods, fs)
        PROVE  Refs(ms, fs, x) \subseteq Refs(mods, fs, x) \union {f}
    <2>1. CASE x = m
      BY <2>1, <1>3, <1>4 DEF Refs
    <2>2. CASE x # m
      BY <2>2, <1>2 DEF Refs
    <2> QED BY <2>1, <2>2
  <1> QED
    BY <1>1, <1>5

LEMMA HandOutStep ==
  ASSUME IInv, NEW t \in Thread, Walking(t), call[t].running # Null,
         NEW f \in Func, NEW fs, Serves(fs, {f}), HandOut(t, f, fs),
         UNCHANGED <<globals, ctx, lib_map, lib_lock, load>>
  PROVE  IInv'
  <1> DEFINE c == call[t]
             m == c.mod
             ms == Cached(m, c.name, f)
             sl == slots \union {[ctx |-> m, func |-> f]}
             outer1 == Outer(held, globals, lib_map, call')
  <1>1. /\ call' = [call EXCEPT ![t] = Null] /\ lock' = Null /\ held' = held
        /\ Settle(ms, fs, sl)
    BY DEF HandOut, Ends, Cached
  <1>2. m \in Mod \intersect Reachable /\ c.name \in Name
    BY WalkFacts DEF Call
  <1>3. mods[m] # Null /\ mods[m].cache[c.name] = Null
    BY <1>2, ReachableFacts, Parts DEF Walks, Walking
  <1>4. ms = Cached(m, c.name, f)
    OBVIOUS
  <1> HIDE DEF ms
  <1>5. /\ ms \in [Mod -> ModuleObj \union {Null}]
        /\ \A x \in Mod : ms[x] # Null <=> mods[x] # Null
        /\ \A x \in Mod : mods[x] # Null => /\ ms[x].code = mods[x].code
                                            /\ ms[x].imports = mods[x].imports
        /\ \A x \in Mod : x # m => ms[x] = mods[x]
        /\ \A k \in Name : ms[m].cache[k] = IF k = c.name THEN f ELSE mods[m].cache[k]
    BY <1>2, <1>3, <1>4, CacheFacts
  <1>6. /\ call' \in [Thread -> Call \union {Null}]
        /\ \A u \in Thread : call'[u] \in {call[u], Null}
        /\ outer1 \subseteq held \union (Elements(globals) \ {Null}) \union Reachable
    BY <1>1, OuterWhenCallEnds
  <1>7. \A u \in Thread : call'[u] = Null \/ (call[u].running = Null /\ call'[u] = call[u])
    <2>1. \A u \in Thread : u # t => call[u] = Null \/ call[u].running = Null
      BY Parts DEF Locks, Walking
    <2> QED BY <2>1, <1>1, <1>6, Parts DEF Types
  <1>8. Types(ms, fs, globals, held, ctx, sl, Null, lib_map, lib_lock, call', load)
    BY <1>2, <1>5, <1>6, Parts DEF Types, Serves
  <1>9. References(ms, fs, outer1, load)
    <2>1. outer1 \subseteq Reachable
      BY <1>6, ReachableFacts DEF Outer
    <2>2. /\ Allocated(mods, funcs) \subseteq Allocated(ms, fs)
          /\ {f} \subseteq Allocated(ms, fs)
          /\ \A x \in Allocated(ms, fs) : Refs(ms, fs, x) \subseteq Reachable \union {f}
      BY <1>2, <1>3, <1>4, CacheRefs, ServesFacts
    <2>3. {f} \intersect Loading(load) = {}
      BY ServesFacts
    <2> DEFINE N == {f}
    <2> HIDE DEF outer1
    <2>4. /\ outer1 \subseteq Reachable \union N
          /\ N \subseteq Allocated(ms, fs) /\ N \intersect Loading(load) = {}
          /\ \A x \in Allocated(ms, fs) : Refs(ms, fs, x) \subseteq Reachable \union N
      BY <2>1, <2>2, <2>3
    <2> HIDE DEF N
    <2> QED BY <2>2, <2>4, StaysReachable
  <1>10. Walks(ms, fs, call')
    BY <1>7, Parts DEF Walks
  <1>11. Locks(Null, lib_lock, call', load)
    BY <1>7, Parts, ModuleAssumption DEF Locks
  <1>12. Contexts(ms, ctx) /\ Loads(ms, load)
    BY <1>5, Parts DEF Contexts, Loads
  <1>13. Slots(ms, sl)
    <2> SUFFICES ASSUME NEW s \in sl
                 PROVE  ms[s.ctx] # Null /\ \E n \in Name : ms[s.ctx].cache[n] = s.func
      BY DEF Slots
    <2>1. CASE s \in slots
      <3>1. s.ctx \in Mod /\ s.func \in Func
        BY <2>1, Parts DEF Types
      <3>2. PICK n \in Name : mods[s.ctx] # Null /\ mods[s.ctx].cache[n] = s.func
        BY <2>1, Parts DEF Slots
      <3>3. ms[s.ctx].cache[n] = s.func
        BY <3>1, <3>2, <1>3, <1>5, ModuleAssumption
      <3> QED BY <3>1, <3>2, <3>3, <1>5
    <2>2. CASE s = [ctx |-> m, func |-> f]
      BY <2>2, <1>2, <1>3, <1>5
    <2> QED BY <2>1, <2>2
  <1>14. Acyclic(ms)
    <2>1. Imports(ms) = Imports(mods)
      BY <1>5 DEF Imports
    <2> QED BY <2>1, Parts DEF Acyclic
  <1> HIDE DEF sl
  <1>15. Whole(ms, fs, globals', held', ctx', sl, lock', lib_map', lib_lock', call', load')
    BY <1>1, <1>8, <1>9, <1>10, <1>11, <1>12, <1>13, <1>14 DEF Whole
  <1>16. Whole(mods, funcs, globals, held, ctx, slots, lock, lib_map, lib_lock, call, load)'
    BY <1>1, <1>15, ReleasePreserves
  <1>17. Registry(mods, lib_map, load)'
    BY <1>1, <1>5, RegistryStays
  <1> QED
    BY <1>16, <1>17 DEF IInv

\* A release when references change and functions come, and nothing else does.
LEMMA ServedRelease ==
  ASSUME IInv, NEW fs, NEW N, Serves(fs, N), Settle(mods, fs, slots),
         UNCHANGED <<ctx, lib_map, lib_lock, load>>,
         globals' \in [Name -> Func \union {Null}], held' \subseteq Mod \union Func,
         lock' \in Thread \union {Null}, call' \in [Thread -> Call \union {Null}],
         Outer(held', globals', lib_map, call') \subseteq Reachable \union N,
         \A t \in Thread : call'[t] \in {call[t], Null},
         Locks(lock', lib_lock, call', load)
  PROVE  IInv'
  <1>1. Whole(mods, fs, globals', held', ctx, slots, lock', lib_map, lib_lock, call', load)
    BY FunctionsServed
  <1>2. Whole(mods, fs, globals', held', ctx', slots, lock', lib_map', lib_lock', call', load')
    BY <1>1
  <1>3. Whole(mods, funcs, globals, held, ctx, slots, lock, lib_map, lib_lock, call, load)'
    BY <1>2, ReleasePreserves
  <1>4. Registry(mods, lib_map, load)'
    BY RegistryStays
  <1> QED
    BY <1>3, <1>4 DEF IInv

LEMMA GetFunctionStep ==
  ASSUME IInv, NEW t \in Thread, NEW m \in Mod, NEW n \in Name, NEW q \in BOOLEAN,
         GetFunction(t, m, n, q)
  PROVE  IInv'
  <1>1. m \in Mod \intersect Reachable /\ Idle(t)
    BY ReachableFacts DEF GetFunction, Outer
  <1>2. CASE CodeOf(m, n) # Null
    <2>1. PICK f \in Func : /\ funcs[f] = Null
                            /\ funcs' = [funcs EXCEPT ![f] = Closure(m, n)]
                            /\ held' = held \union {f}
      BY <1>2 DEF GetFunction
    <2>2. UNCHANGED <<mods, globals, ctx, slots, lock, lib_map, lib_lock, call, load>>
      BY <1>2 DEF GetFunction
    <2> DEFINE N == {f}
    <2>3. Serves(funcs', N)
      BY <1>1, <2>1, ClosureType, NewFunction
    <2>4. Outer(held', globals, lib_map, call) \subseteq Reachable \union N
      BY <2>1, ReachableFacts DEF Outer
    <2>5. held' \subseteq Mod \union Func
      BY <2>1, Parts DEF Types
    <2> HIDE DEF N
    <2>6. Whole(mods, funcs', globals, held', ctx, slots, lock, lib_map, lib_lock, call, load)
      BY <2>3, <2>4, <2>5, Parts, FunctionsServed DEF Types
    <2> QED BY <2>2, <2>6, Parts DEF IInv
  <1>3. CASE CodeOf(m, n) = Null
    <2> DEFINE c == [running |-> Null, mod |-> m, name |-> n, stack |-> <<NewFrame(m)>>]
    <2>1. call' = [call EXCEPT ![t] = c]
      BY <1>3 DEF GetFunction
    <2>2. UNCHANGED <<mods, funcs, globals, held, ctx, slots, lib_map, lib_lock, load>>
          /\ lock' = lock
      BY <1>3 DEF GetFunction
    <2>3. NewFrame(m) \in Frame /\ NewFrame(m).mod = m
      BY DEF NewFrame, Frame
    <2>4. /\ c \in Call /\ c.running = Null /\ c.mod = m
          /\ c.stack # <<>> /\ c.stack[1].mod = m
          /\ \A i \in DOMAIN c.stack : c.stack[i].mod = m
      BY <2>3 DEF Call
    <2>5. lock # t
      BY <1>1, Parts DEF Locks, Idle
    <2> HIDE DEF c
    <2> QED BY <1>1, <2>1, <2>2, <2>4, <2>5, WalkGoesOn
  <1> QED BY <1>2, <1>3

\* A library asks with the context of the module that its function holds.
LEMMA OwnModule ==
  ASSUME IInv, NEW f \in Func, OwnCode(f), f \in held
  PROVE  ctx[funcs[f].code] = funcs[f].self /\ funcs[f].self \in Mod \intersect Reachable
  <1>1. funcs[f] \in FunctionObj /\ funcs[f].self # Null
    BY Parts DEF OwnCode, Types
  <1>2. funcs[f].self \in Mod /\ f \in Reachable
    BY <1>1, ReachableFacts DEF FunctionObj, Outer
  <1>3. funcs[f].self \in Refs(mods, funcs, f)
    BY <1>1, <1>2, ModuleAssumption DEF Refs
  <1>4. funcs[f].self \in Mod \intersect Reachable
    BY <1>2, <1>3, ReachableFacts
  <1> QED
    BY <1>4, ReachableFacts, Parts DEF OwnCode, Contexts

LEMMA LookupStep ==
  ASSUME IInv, NEW t \in Thread, NEW f \in Func, NEW n \in Name, Lookup(t, f, n)
  PROVE  IInv'
  <1> DEFINE m == ctx[funcs[f].code]
  <1>1. /\ Idle(t) /\ f \in held /\ OwnCode(f) /\ lock = Null /\ LookupFrom(t, f, n)
        /\ UNCHANGED <<mods, funcs, globals, held, ctx, lib_map, lib_lock, load>>
    BY DEF Lookup
  <1>2. m = funcs[f].self /\ m \in Mod \intersect Reachable /\ f \in Reachable
    BY <1>1, OwnModule, ReachableFacts DEF Outer
  <1>3. mods[m] \in ModuleObj
    BY <1>2, ReachableFacts, Parts DEF Types
  <1>4. mods[m].cache \in [Name -> Func \union {Null}]
    BY <1>3 DEF ModuleObj
  <1>5. mods[m] # Null
    BY <1>2, ReachableFacts
  <1> HIDE DEF m
  <1>6. CASE mods[m].cache[n] # Null
    <2> DEFINE g == mods[m].cache[n]
    <2>1. /\ slots' = slots \union {[ctx |-> m, func |-> g]}
          /\ UNCHANGED <<mods, funcs, globals, held, ctx, lock, lib_map, lib_lock, call, load>>
      BY <1>1, <1>6 DEF LookupFrom, m
    <2>2. g \in Func
      BY <1>4, <1>6
    <2>3. Types(mods, funcs, globals, held, ctx, slots', lock, lib_map, lib_lock, call, load)
      BY <1>2, <2>1, <2>2, Parts DEF Types
    <2>4. Slots(mods, slots')
      BY <2>1, <1>5, Parts DEF Slots
    <2> QED BY <2>1, <2>3, <2>4, Parts DEF IInv, Whole
  <1>7. CASE mods[m].cache[n] = Null
    <2> DEFINE c == [running |-> f, mod |-> m, name |-> n, stack |-> <<NewFrame(m)>>]
    <2>1. call' = [call EXCEPT ![t] = c]
      BY <1>1, <1>7 DEF LookupFrom, m
    <2>2. UNCHANGED <<mods, funcs, globals, held, ctx, slots, lib_map, lib_lock, load>>
          /\ lock' = t
      BY <1>1, <1>7 DEF LookupFrom, m
    <2>3. NewFrame(m) \in Frame /\ NewFrame(m).mod = m
      BY <1>2 DEF NewFrame, Frame
    <2>4. /\ c \in Call /\ c.running = f /\ c.mod = m /\ c.name = n
          /\ c.stack # <<>> /\ c.stack[1].mod = m
          /\ \A i \in DOMAIN c.stack : c.stack[i].mod = m
      BY <1>2, <2>3 DEF Call
    <2>5. f # Null
      BY ModuleAssumption
    <2> HIDE DEF c
    <2> QED BY <1>1, <1>2, <1>7, <2>1, <2>2, <2>4, <2>5, WalkGoesOn
  <1> QED BY <1>6, <1>7

LEMMA FoundStep ==
  ASSUME IInv, NEW t \in Thread, Found(t)
  PROVE  IInv'
  <1> DEFINE c == call[t]
  <1>1. PICK f \in Func :
          LET fs == [funcs EXCEPT ![f] = Closure(Import(t), call[t].name)]
          IN /\ funcs[f] = Null
             /\ \/ call[t].running # Null /\ HandOut(t, f, fs)
                \/ /\ call[t].running = Null
                   /\ Ends(t) /\ held' = held \union {f} /\ UNCHANGED lock
                   /\ Settle(mods, fs, slots)
    BY DEF Found
  <1> DEFINE fs == [funcs EXCEPT ![f] = Closure(Import(t), call[t].name)]
             N == {f}
  <1>2. Walking(t) /\ AtImport(t) /\ UNCHANGED <<globals, ctx, lib_map, lib_lock, load>>
    BY DEF Found, AtImport
  <1>3. Import(t) \in Mod \intersect Reachable /\ c.name \in Name
    BY <1>2, WalkFacts DEF Call
  <1>4. Serves(fs, N)
    BY <1>1, <1>3, ClosureType, NewFunction
  <1>5. CASE c.running # Null
    <2>1. HandOut(t, f, fs)
      BY <1>1, <1>5
    <2>2. Serves(fs, {f})
      BY <1>4
    <2> HIDE DEF fs
    <2> QED BY <1>2, <1>5, <2>1, <2>2, HandOutStep
  <1>6. CASE c.running = Null
    <2>1. /\ call' = [call EXCEPT ![t] = Null] /\ held' = held \union N /\ lock' = lock
          /\ Settle(mods, fs, slots)
      BY <1>1, <1>6 DEF Ends
    <2> HIDE DEF fs
    <2>2. /\ call' \in [Thread -> Call \union {Null}]
          /\ \A u \in Thread : call'[u] \in {call[u], Null}
          /\ Outer(held', globals, lib_map, call') \subseteq
               held' \union (Elements(globals) \ {Null}) \union Reachable
      BY <2>1, OuterWhenCallEnds
    <2>3. Outer(held', globals, lib_map, call') \subseteq Reachable \union N
      BY <2>1, <2>2, ReachableFacts DEF Outer
    <2>4. held' \subseteq Mod \union Func
      BY <2>1, Parts DEF Types
    <2>5. Locks(lock', lib_lock, call', load)
      <3>1. \A u \in Thread : u # t => call'[u] = call[u]
        BY <2>1, Parts DEF Types
      <3>2. call'[t] = Null /\ lock # t
        BY <2>1, <1>6, Parts DEF Types, Locks
      <3> QED BY <2>1, <3>1, <3>2, Parts DEF Locks
    <2> HIDE DEF N
    <2>6. globals' \in [Name -> Func \union {Null}] /\ lock' \in Thread \union {Null}
      BY <1>2, <2>1, Parts DEF Types
    <2> QED BY <1>2, <1>4, <2>1, <2>2, <2>3, <2>4, <2>5, <2>6, ServedRelease
  <1> QED BY <1>5, <1>6

LEMMA NotFoundStep ==
  ASSUME IInv, NEW t \in Thread, NotFound(t)
  PROVE  IInv'
  <1> DEFINE c == call[t]
             f == globals[c.name]
  <1>1. /\ Walking(t) /\ UNCHANGED <<globals, ctx, lib_map, lib_lock, load>>
        /\ \/ c.running # Null /\ f # Null /\ HandOut(t, f, funcs)
           \/ /\ Ends(t) /\ lock' = (IF lock = t THEN Null ELSE lock) /\ UNCHANGED held
              /\ Settle(mods, funcs, slots)
    BY DEF NotFound
  <1>2. c.name \in Name
    BY <1>1, WalkFacts DEF Call
  <1>3. CASE c.running # Null /\ f # Null /\ HandOut(t, f, funcs)
    <2>1. f \in Func
      BY <1>2, <1>3, Parts DEF Types
    <2>2. f \in Reachable
      <3>1. DOMAIN globals = Name
        BY Parts DEF Types
      <3>2. f \in Elements(globals) \ {Null}
        BY <1>2, <1>3, <3>1 DEF Elements
      <3> QED BY <3>2, ReachableFacts DEF Outer
    <2> HIDE DEF f
    <2>3. Serves(funcs, {f})
      BY <2>1, <2>2, SameFunctions
    <2> QED BY <1>1, <1>3, <2>1, <2>3, HandOutStep
  <1>4. CASE /\ Ends(t) /\ lock' = (IF lock = t THEN Null ELSE lock) /\ UNCHANGED held
             /\ Settle(mods, funcs, slots)
    <2> DEFINE N == {}
    <2>1. call' = [call EXCEPT ![t] = Null] /\ held' = held
      BY <1>4 DEF Ends
    <2>2. /\ call' \in [Thread -> Call \union {Null}]
          /\ \A u \in Thread : call'[u] \in {call[u], Null}
          /\ Outer(held, globals, lib_map, call') \subseteq
               held \union (Elements(globals) \ {Null}) \union Reachable
      BY <2>1, OuterWhenCallEnds
    <2>3. Outer(held', globals', lib_map, call') \subseteq Reachable \union N
      BY <1>1, <2>1, <2>2, ReachableFacts DEF Outer
    <2>4. Locks(lock', lib_lock, call', load)
      <3>1. \A u \in Thread : u # t => call'[u] = call[u]
        BY <2>1, Parts DEF Types
      <3>2. call'[t] = Null /\ lock' # t /\ \A u \in Thread : u # t => (lock' = u <=> lock = u)
        BY <1>4, <2>1, Parts, ModuleAssumption DEF Types
      <3> QED BY <3>1, <3>2, Parts DEF Locks
    <2>5. Serves(funcs, N)
      BY SameFunctions
    <2> HIDE DEF N
    <2>6. /\ globals' \in [Name -> Func \union {Null}] /\ lock' \in Thread \union {Null}
          /\ held' \subseteq Mod \union Func
      BY <1>1, <1>4, <2>1, Parts DEF Types
    <2> QED BY <1>1, <1>4, <2>2, <2>3, <2>4, <2>5, <2>6, ServedRelease
  <1> QED BY <1>1, <1>3, <1>4

-----------------------------------------------------------------------------
(* Imports. *)

\* A change of imports is harmless when all imports exist and form no circle.
LEMMA ImportsChange ==
  ASSUME IInv, NEW ms \in [Mod -> ModuleObj \union {Null}],
         \A x \in Mod : ms[x] # Null <=> mods[x] # Null,
         \A x \in Mod : mods[x] # Null =>
           /\ ms[x].code = mods[x].code /\ ms[x].cache = mods[x].cache
           /\ Elements(ms[x].imports) \subseteq Reachable,
         Acyclic(ms)
  PROVE  Whole(ms, funcs, globals, held, ctx, slots, lock, lib_map, lib_lock, call, load)
  <1>1. Types(ms, funcs, globals, held, ctx, slots, lock, lib_map, lib_lock, call, load)
    BY Parts DEF Types
  <1>2. References(ms, funcs, Outer(held, globals, lib_map, call), load)
    <2> DEFINE outer == Outer(held, globals, lib_map, call)
               N == {}
    <2>1. outer \subseteq Reachable \union N
      BY ReachableFacts
    <2>2. Allocated(ms, funcs) = Allocated(mods, funcs)
      BY DEF Allocated
    <2>3. ASSUME NEW x \in Allocated(mods, funcs)
          PROVE  Refs(ms, funcs, x) \subseteq Reachable \union N
      <3>1. Refs(mods, funcs, x) \subseteq Reachable
        BY ReachableFacts
      <3>2. CASE x \in Mod
        <4>1. mods[x] # Null
          BY <3>2, ModuleAssumption DEF Allocated
        <4> QED BY <3>1, <3>2, <4>1 DEF Refs
      <3>3. CASE x \notin Mod
        BY <3>1, <3>3 DEF Refs
      <3> QED BY <3>2, <3>3
    <2>4. /\ Allocated(mods, funcs) \subseteq Allocated(ms, funcs)
          /\ N \subseteq Allocated(ms, funcs) /\ N \intersect Loading(load) = {}
          /\ \A x \in Allocated(ms, funcs) : Refs(ms, funcs, x) \subseteq Reachable \union N
      BY <2>2, <2>3
    <2> HIDE DEF outer, N
    <2>5. References(ms, funcs, outer, load)
      BY <2>1, <2>4, StaysReachable
    <2> QED BY <2>5 DEF outer
  <1>3. Walks(ms, funcs, call)
    <2> SUFFICES ASSUME NEW t \in Thread, call[t] # Null, call[t].running # Null
                 PROVE  ms[call[t].mod].cache[call[t].name] = Null
      BY Parts DEF Walks
    <2>1. call[t].mod \in Mod \intersect Reachable
      BY WalkFacts DEF Walking
    <2> QED BY <2>1, ReachableFacts, Parts DEF Walks
  <1>4. Contexts(ms, ctx) /\ Loads(ms, load)
    BY Parts DEF Contexts, Loads
  <1>5. Slots(ms, slots)
    BY Parts DEF Slots, Types
  <1> QED
    BY <1>1, <1>2, <1>3, <1>4, <1>5, Parts DEF Whole

\* An edge from m to other closes no circle when a set that the edges do not
\* leave has other but not m.
LEMMA EdgeClosesNoCycle ==
  ASSUME NEW imports, NEW imports1, NEW m \in Mod, NEW other \in Mod, NEW V \in SUBSET Mod,
         \A S \in SUBSET Mod : ~Cyclic(S, imports),
         other \in V, m \notin V, \A x \in V : imports[x] \subseteq V,
         \A x \in Mod : imports1[x] \subseteq (IF x = m THEN imports[x] \union {other}
                                               ELSE imports[x])
  PROVE  \A S \in SUBSET Mod : ~Cyclic(S, imports1)
  <1> SUFFICES ASSUME NEW S \in SUBSET Mod, Cyclic(S, imports1) PROVE FALSE
    OBVIOUS
  <1>1. S # {} /\ \A x \in S : \E y \in S : y \in imports1[x]
    BY DEF Cyclic
  <1>2. CASE S \intersect V # {}
    <2>1. \A x \in S \intersect V : \E y \in S \intersect V : y \in imports[x]
      BY <1>1
    <2>2. Cyclic(S \intersect V, imports)
      BY <1>2, <2>1 DEF Cyclic
    <2> QED BY <2>2
  <1>3. CASE S \intersect V = {}
    <2>1. \A x \in S : \E y \in S : y \in imports[x]
      BY <1>1, <1>3
    <2>2. Cyclic(S, imports)
      BY <1>1, <2>1 DEF Cyclic
    <2> QED BY <2>2
  <1> QED BY <1>2, <1>3

\* The objects when the imports of m become s.
WithImports(m, s) == [mods EXCEPT ![m].imports = s]

LEMMA WithImportsFacts ==
  ASSUME IInv, NEW m \in Mod, mods[m] # Null, NEW s \in Seq(Mod), NEW ms,
         ms = WithImports(m, s)
  PROVE  /\ ms \in [Mod -> ModuleObj \union {Null}]
         /\ \A x \in Mod : ms[x] # Null <=> mods[x] # Null
         /\ \A x \in Mod : mods[x] # Null => /\ ms[x].code = mods[x].code
                                             /\ ms[x].cache = mods[x].cache
         /\ \A x \in Mod : x # m => ms[x] = mods[x]
         /\ ms[m].imports = s
  <1> DEFINE o == [mods[m] EXCEPT !.imports = s]
  <1>1. mods[m] \in ModuleObj
    BY Parts DEF Types
  <1>2. /\ o \in ModuleObj /\ o.code = mods[m].code /\ o.cache = mods[m].cache
        /\ o.imports = s
    BY <1>1 DEF ModuleObj
  <1>3. ms = [mods EXCEPT ![m] = o]
    BY DEF WithImports
  <1>4. o # Null
    BY <1>2, ModuleAssumption
  <1> HIDE DEF o
  <1>5. mods \in [Mod -> ModuleObj \union {Null}]
    BY Parts DEF Types
  <1>6. ms[m] = o /\ \A x \in Mod : x # m => ms[x] = mods[x]
    BY <1>3, <1>5
  <1>7. ms \in [Mod -> ModuleObj \union {Null}]
    BY <1>2, <1>3, <1>5
  <1> QED
    BY <1>2, <1>4, <1>6, <1>7

LEMMA ImportedReachable ==
  ASSUME IInv, NEW m \in Mod, mods[m] # Null
  PROVE  Elements(mods[m].imports) \subseteq Mod \intersect Reachable
  <1>1. mods[m].imports \in Seq(Mod)
    BY Parts DEF Types, ModuleObj
  <1>2. Elements(mods[m].imports) \subseteq Mod
    BY <1>1 DEF Elements
  <1>3. Elements(mods[m].imports) \subseteq Refs(mods, funcs, m)
    BY <1>2, ModuleAssumption DEF Refs
  <1>4. m \in Allocated(mods, funcs)
    BY DEF Allocated
  <1> QED BY <1>2, <1>3, <1>4, ReachableFacts

LEMMA AppendElements ==
  ASSUME NEW s \in Seq(Mod), NEW m \in Mod
  PROVE  Append(s, m) \in Seq(Mod) /\ Elements(Append(s, m)) = Elements(s) \union {m}
  <1>1. /\ Append(s, m) \in Seq(Mod) /\ DOMAIN s = 1 .. Len(s)
        /\ DOMAIN Append(s, m) = 1 .. Len(s) + 1 /\ Len(s) \in Nat
    OBVIOUS
  <1>2. /\ Append(s, m)[Len(s) + 1] = m
        /\ \A i \in 1 .. Len(s) : Append(s, m)[i] = s[i]
    OBVIOUS
  <1>3. /\ \A i \in 1 .. Len(s) + 1 : i \in 1 .. Len(s) \/ i = Len(s) + 1
        /\ \A i \in 1 .. Len(s) : i \in 1 .. Len(s) + 1
        /\ Len(s) + 1 \in 1 .. Len(s) + 1
    BY <1>1
  <1> QED BY <1>1, <1>2, <1>3 DEF Elements

LEMMA ImportModuleStep ==
  ASSUME IInv, NEW m \in Mod, NEW other \in Mod, ImportModule(m, other)
  PROVE  IInv'
  <1> DEFINE s == Append(mods[m].imports, other)
             ms == WithImports(m, s)
  <1>1. /\ {m, other} \subseteq held /\ m \notin Visited(other)
        /\ UNCHANGED <<funcs, globals, held, ctx, slots, lock, lib_map, lib_lock, call, load>>
    BY DEF ImportModule
  <1>2. mods' = ms
    BY DEF ImportModule, WithImports
  <1>3. m \in Reachable /\ other \in Reachable
    BY <1>1, ReachableFacts DEF Outer
  <1>4. mods[m] # Null
    BY <1>3, ReachableFacts
  <1>5. mods[m].imports \in Seq(Mod)
    BY <1>4, Parts DEF Types, ModuleObj
  <1>6. s \in Seq(Mod) /\ Elements(s) = Elements(mods[m].imports) \union {other}
    BY <1>5, AppendElements
  <1> HIDE DEF s
  <1>7. /\ ms \in [Mod -> ModuleObj \union {Null}]
        /\ \A x \in Mod : ms[x] # Null <=> mods[x] # Null
        /\ \A x \in Mod : mods[x] # Null => /\ ms[x].code = mods[x].code
                                            /\ ms[x].cache = mods[x].cache
        /\ \A x \in Mod : x # m => ms[x] = mods[x]
        /\ ms[m].imports = s
    BY <1>4, <1>6, WithImportsFacts
  <1> HIDE DEF ms
  <1>8. \A x \in Mod : mods[x] # Null => Elements(ms[x].imports) \subseteq Reachable
    BY <1>3, <1>6, <1>7, ImportedReachable
  <1>9. Acyclic(ms)
    <2>1. PICK V \in SUBSET Mod : other \in V /\ m \notin V /\ \A x \in V : ImportsOf[x] \subseteq V
      BY <1>1 DEF Visited
    <2>2. ImportsOf = Imports(mods)
      BY DEF ImportsOf, Imports
    <2>3. \A x \in Mod : Imports(ms)[x] \subseteq (IF x = m THEN Imports(mods)[x] \union {other}
                                                   ELSE Imports(mods)[x])
      BY <1>4, <1>6, <1>7 DEF Imports
    <2>4. \A S \in SUBSET Mod : ~Cyclic(S, Imports(mods))
      BY Parts DEF Acyclic
    <2> DEFINE I == Imports(mods)
               J == Imports(ms)
    <2>5. /\ \A S \in SUBSET Mod : ~Cyclic(S, I)
          /\ \A x \in V : I[x] \subseteq V
          /\ \A x \in Mod : J[x] \subseteq (IF x = m THEN I[x] \union {other} ELSE I[x])
      BY <2>1, <2>2, <2>3, <2>4
    <2> HIDE DEF I, J
    <2>6. \A S \in SUBSET Mod : ~Cyclic(S, J)
      BY <2>1, <2>5, EdgeClosesNoCycle
    <2> QED BY <2>6 DEF Acyclic, J
  <1>10. Whole(ms, funcs, globals, held, ctx, slots, lock, lib_map, lib_lock, call, load)
    BY <1>7, <1>8, <1>9, ImportsChange
  <1>11. Registry(ms, lib_map, load)
    BY <1>7, Parts DEF Registry
  <1> QED
    BY <1>1, <1>2, <1>10, <1>11 DEF IInv

LEMMA ClearImportsStep ==
  ASSUME IInv, NEW m \in Mod, ClearImports(m)
  PROVE  IInv'
  <1> DEFINE s == <<>>
             ms == WithImports(m, s)
  <1>1. m \in held /\ UNCHANGED <<globals, held, ctx, lock, lib_map, lib_lock, call, load>>
    BY DEF ClearImports
  <1>2. Settle(ms, funcs, slots)
    BY DEF ClearImports, WithImports
  <1>3. m \in Reachable /\ mods[m] # Null
    BY <1>1, ReachableFacts DEF Outer
  <1>4. s \in Seq(Mod) /\ Elements(s) = {}
    BY DEF Elements
  <1> HIDE DEF s
  <1>5. /\ ms \in [Mod -> ModuleObj \union {Null}]
        /\ \A x \in Mod : ms[x] # Null <=> mods[x] # Null
        /\ \A x \in Mod : mods[x] # Null => /\ ms[x].code = mods[x].code
                                            /\ ms[x].cache = mods[x].cache
        /\ \A x \in Mod : x # m => ms[x] = mods[x]
        /\ ms[m].imports = s
    BY <1>3, <1>4, WithImportsFacts
  <1> HIDE DEF ms
  <1>6. \A x \in Mod : mods[x] # Null => Elements(ms[x].imports) \subseteq Elements(mods[x].imports)
    BY <1>4, <1>5
  <1>7. \A x \in Mod : mods[x] # Null => Elements(ms[x].imports) \subseteq Reachable
    BY <1>6, ImportedReachable
  <1>8. Acyclic(ms)
    <2> SUFFICES ASSUME NEW S \in SUBSET Mod, Cyclic(S, Imports(ms)) PROVE FALSE
      BY DEF Acyclic
    <2>1. \A x \in Mod : Imports(ms)[x] \subseteq Imports(mods)[x]
      BY <1>5, <1>6 DEF Imports
    <2>2. Cyclic(S, Imports(mods))
      BY <2>1 DEF Cyclic
    <2> QED BY <2>2, Parts DEF Acyclic
  <1>9. Whole(ms, funcs, globals, held, ctx, slots, lock, lib_map, lib_lock, call, load)
    BY <1>5, <1>7, <1>8, ImportsChange
  <1>10. Whole(ms, funcs, globals', held', ctx', slots, lock', lib_map', lib_lock', call', load')
    BY <1>1, <1>9
  <1>11. Whole(mods, funcs, globals, held, ctx, slots, lock, lib_map, lib_lock, call, load)'
    BY <1>2, <1>10, ReleasePreserves
  <1>12. Registry(mods, lib_map, load)'
    BY <1>1, <1>2, <1>5, RegistryStays
  <1> QED
    BY <1>11, <1>12 DEF IInv

-----------------------------------------------------------------------------
(* The global functions and the handles of the front end. *)

LEMMA OuterGrows ==
  ASSUME IInv, NEW hd, NEW gl, NEW N,
         hd \subseteq Reachable \union N, Elements(gl) \ {Null} \subseteq Reachable \union N
  PROVE  Outer(hd, gl, lib_map, call) \subseteq Reachable \union N
  <1>1. /\ Elements(lib_map) \ {Null} \subseteq Reachable
        /\ UNION {CallRoots(call[u]) : u \in {u \in Thread : call[u] # Null}} \subseteq Reachable
    BY ReachableFacts DEF Outer
  <1> QED
    BY <1>1 DEF Outer

LEMMA GlobalsFacts ==
  ASSUME IInv
  PROVE  /\ held \subseteq Reachable /\ Elements(globals) \ {Null} \subseteq Reachable
         /\ \A n \in Name : globals[n] # Null => globals[n] \in Func \intersect Reachable
         /\ \A n \in Name, f \in Func \union {Null} :
              /\ [globals EXCEPT ![n] = f] \in [Name -> Func \union {Null}]
              /\ Elements([globals EXCEPT ![n] = f]) \subseteq Elements(globals) \union {f}
  <1>1. globals \in [Name -> Func \union {Null}]
    BY Parts DEF Types
  <1>2. held \subseteq Reachable /\ Elements(globals) \ {Null} \subseteq Reachable
    BY ReachableFacts DEF Outer
  <1>3. \A n \in Name : globals[n] # Null => globals[n] \in Func \intersect Reachable
    BY <1>1, <1>2 DEF Elements
  <1>4. ASSUME NEW n \in Name, NEW f \in Func \union {Null}
        PROVE  /\ [globals EXCEPT ![n] = f] \in [Name -> Func \union {Null}]
               /\ Elements([globals EXCEPT ![n] = f]) \subseteq Elements(globals) \union {f}
    BY <1>1 DEF Elements
  <1> QED BY <1>2, <1>3, <1>4

\* A step of the front end that leaves the threads alone and then releases.
LEMMA FrontEndRelease ==
  ASSUME IInv, NEW fs, NEW N, Serves(fs, N), Settle(mods, fs, slots),
         UNCHANGED <<ctx, lock, lib_map, lib_lock, call, load>>,
         globals' \in [Name -> Func \union {Null}],
         held' \subseteq Mod \union Func, held' \subseteq Reachable \union N,
         Elements(globals') \ {Null} \subseteq Reachable \union N
  PROVE  IInv'
  <1>1. Outer(held', globals', lib_map, call') \subseteq Reachable \union N
    BY OuterGrows
  <1>2. /\ lock' \in Thread \union {Null} /\ call' \in [Thread -> Call \union {Null}]
        /\ \A t \in Thread : call'[t] \in {call[t], Null}
        /\ Locks(lock', lib_lock, call', load)
        /\ UNCHANGED <<ctx, lib_map, lib_lock, load>>
    BY Parts DEF Types
  <1> QED BY <1>1, <1>2, ServedRelease

\* A step of the front end that gets an object and nothing else.
LEMMA FrontEndHolds ==
  ASSUME IInv, NEW x \in (Mod \union Func) \intersect Reachable, held' = held \union {x},
         UNCHANGED <<mods, funcs, globals, ctx, slots, lock, lib_map, lib_lock, call, load>>
  PROVE  IInv'
  <1> DEFINE N == {}
  <1>1. Serves(funcs, N)
    BY SameFunctions
  <1>2. /\ held' \subseteq Mod \union Func /\ held' \subseteq Reachable \union N
        /\ Elements(globals) \ {Null} \subseteq Reachable \union N
    BY Parts, GlobalsFacts DEF Types
  <1> HIDE DEF N
  <1>3. Outer(held', globals, lib_map, call) \subseteq Reachable \union N
    BY <1>2, OuterGrows
  <1>4. Whole(mods, funcs, globals, held', ctx, slots, lock, lib_map, lib_lock, call, load)
    BY <1>1, <1>2, <1>3, Parts, FunctionsServed DEF Types
  <1> QED BY <1>4, Parts DEF IInv

LEMMA HoldImportStep ==
  ASSUME IInv, NEW m \in Mod, NEW other \in Mod, HoldImport(m, other)
  PROVE  IInv'
  <1>1. m \in Reachable /\ other \in ImportsOf[m]
    BY GlobalsFacts DEF HoldImport
  <1>2. other \in Reachable
    BY <1>1, ReachableFacts, ImportedReachable DEF ImportsOf
  <1> QED
    BY <1>2, FrontEndHolds DEF HoldImport

LEMMA GetGlobalStep ==
  ASSUME IInv, NEW n \in Name, GetGlobal(n)
  PROVE  IInv'
  BY GlobalsFacts, FrontEndHolds DEF GetGlobal

LEMMA RegisterStep ==
  ASSUME IInv, NEW n \in Name, NEW o \in BOOLEAN, Register(n, o)
  PROVE  IInv'
  <1> DEFINE fo == [self |-> Null, code |-> Null]
  <1>1. PICK f \in Func : /\ funcs[f] = Null
                          /\ globals' = [globals EXCEPT ![n] = f]
                          /\ Settle(mods, [funcs EXCEPT ![f] = fo], slots)
    BY DEF Register
  <1>2. UNCHANGED <<held, ctx, lock, lib_map, lib_lock, call, load>>
    BY DEF Register
  <1>3. fo \in FunctionObj /\ fo.self = Null
    BY DEF FunctionObj
  <1> DEFINE fs == [funcs EXCEPT ![f] = fo]
             N == {f}
  <1>4. Serves(fs, N)
    BY <1>1, <1>3, NewFunction
  <1>5. Settle(mods, fs, slots)
    BY <1>1
  <1> HIDE DEF fs
  <1>6. /\ globals' \in [Name -> Func \union {Null}]
        /\ held' \subseteq Mod \union Func /\ held' \subseteq Reachable \union N
        /\ Elements(globals') \ {Null} \subseteq Reachable \union N
    BY <1>1, <1>2, GlobalsFacts, Parts DEF Types
  <1> HIDE DEF N
  <1> QED BY <1>2, <1>4, <1>5, <1>6, FrontEndRelease

LEMMA SetGlobalStep ==
  ASSUME IInv, NEW n \in Name, NEW f \in Func, NEW o \in BOOLEAN, SetGlobal(n, f, o)
  PROVE  IInv'
  <1> DEFINE N == {}
  <1>1. /\ f \in held /\ globals' = [globals EXCEPT ![n] = f]
        /\ UNCHANGED <<held, ctx, lock, lib_map, lib_lock, call, load>>
        /\ Settle(mods, funcs, slots)
    BY DEF SetGlobal
  <1>2. Serves(funcs, N)
    BY SameFunctions
  <1>3. /\ globals' \in [Name -> Func \union {Null}]
        /\ held' \subseteq Mod \union Func /\ held' \subseteq Reachable \union N
        /\ Elements(globals') \ {Null} \subseteq Reachable \union N
    <2>1. /\ globals' \in [Name -> Func \union {Null}]
          /\ Elements(globals') \subseteq Elements(globals) \union {f}
      BY <1>1, GlobalsFacts
    <2>2. f \in Reachable
      BY <1>1, GlobalsFacts
    <2> QED BY <2>1, <2>2, <1>1, GlobalsFacts, Parts DEF Types
  <1> HIDE DEF N
  <1> QED BY <1>1, <1>2, <1>3, FrontEndRelease

LEMMA RemoveStep ==
  ASSUME IInv, NEW n \in Name, Remove(n)
  PROVE  IInv'
  <1> DEFINE N == {}
  <1>1. /\ globals' = [globals EXCEPT ![n] = Null]
        /\ UNCHANGED <<held, ctx, lock, lib_map, lib_lock, call, load>>
        /\ Settle(mods, funcs, slots)
    BY DEF Remove
  <1>2. Serves(funcs, N)
    BY SameFunctions
  <1>3. /\ globals' \in [Name -> Func \union {Null}]
        /\ held' \subseteq Mod \union Func /\ held' \subseteq Reachable \union N
        /\ Elements(globals') \ {Null} \subseteq Reachable \union N
    <2>1. /\ globals' \in [Name -> Func \union {Null}]
          /\ Elements(globals') \subseteq Elements(globals) \union {Null}
      BY <1>1, GlobalsFacts
    <2> QED BY <2>1, <1>1, GlobalsFacts, Parts DEF Types
  <1> HIDE DEF N
  <1> QED BY <1>1, <1>2, <1>3, FrontEndRelease

LEMMA ReleaseStep ==
  ASSUME IInv, NEW x \in Mod \union Func, Release(x)
  PROVE  IInv'
  <1> DEFINE N == {}
  <1>1. /\ held' = held \ {x}
        /\ UNCHANGED <<globals, ctx, lock, lib_map, lib_lock, call, load>>
        /\ Settle(mods, funcs, slots)
    BY DEF Release
  <1>2. Serves(funcs, N)
    BY SameFunctions
  <1>3. /\ globals' \in [Name -> Func \union {Null}]
        /\ held' \subseteq Mod \union Func /\ held' \subseteq Reachable \union N
        /\ Elements(globals') \ {Null} \subseteq Reachable \union N
    BY <1>1, GlobalsFacts, Parts DEF Types
  <1> HIDE DEF N
  <1> QED BY <1>1, <1>2, <1>3, FrontEndRelease

-----------------------------------------------------------------------------
(* Loading. *)

LEMMA BeginLoad ==
  ASSUME IInv, NEW t \in Thread, NEW lib \in Lib, load[t] = Null,
         load' = [load EXCEPT ![t] = [lib |-> lib, loaded |-> <<>>]],
         UNCHANGED <<mods, funcs, globals, held, ctx, slots, lock, lib_map, call>>,
         \A m \in Mod : mods[m] # Null => mods[m].code # lib,
         \A u \in Thread : load[u] # Null => load[u].lib # lib,
         lib \in SystemLib => lib_lock = Null /\ lib_lock' = t,
         lib \notin SystemLib => lib_lock' = lib_lock
  PROVE  IInv'
  <1> DEFINE l == [lib |-> lib, loaded |-> <<>>]
  <1>1. l \in Load /\ l # Null /\ l.lib = lib /\ l.loaded = <<>>
    <2>1. l \in Load
      BY DEF Load
    <2> QED BY <2>1, ModuleAssumption
  <1>2. load'[t] = l /\ \A u \in Thread : u # t => load'[u] = load[u]
    BY Parts DEF Types
  <1>3. load' \in [Thread -> Load \union {Null}]
    BY <1>1, Parts DEF Types
  <1> HIDE DEF l
  <1>4. Types(mods, funcs, globals, held, ctx, slots, lock, lib_map, lib_lock', call, load')
    BY <1>3, Parts DEF Types
  <1>5. References(mods, funcs, Outer(held, globals, lib_map, call), load')
    <2>1. Elements(l.loaded) = {}
      BY <1>1 DEF Elements
    <2>2. Loading(load') \subseteq Loading(load)
      BY <1>2, <2>1 DEF Loading
    <2> QED BY <2>2, Parts DEF References
  <1>6. Locks(lock, lib_lock', call, load')
    <2>1. t # Null
      BY ModuleAssumption
    <2>2. CASE lib \in SystemLib
      <3>1. \A u \in Thread : u # t => ~(load[u] # Null /\ load[u].lib \in SystemLib)
        BY <2>2, Parts, ModuleAssumption DEF Locks
      <3> QED BY <3>1, <2>1, <2>2, <1>1, <1>2, Parts DEF Locks
    <2>3. CASE lib \notin SystemLib
      BY <2>3, <1>1, <1>2, Parts DEF Locks
    <2> QED BY <2>2, <2>3
  <1>7. Loads(mods, load')
    <2>1. \A u \in Thread : load'[u] # Null => Len(load'[u].loaded) <= Len(Entries(load'[u].lib))
      <3>1. Len(l.loaded) <= Len(Entries(l.lib))
        BY <1>1, ModuleAssumption
      <3> QED BY <3>1, <1>2, Parts DEF Loads
    <2>2. \A u, v \in Thread : load'[u] # Null /\ load'[v] # Null =>
            /\ u # v => load'[u].lib # load'[v].lib
            /\ \A i \in DOMAIN load'[u].loaded, j \in DOMAIN load'[v].loaded :
                 load'[u].loaded[i] = load'[v].loaded[j] => u = v /\ i = j
      <3>1. DOMAIN l.loaded = {}
        BY <1>1
      <3> QED BY <3>1, <1>1, <1>2, Parts DEF Loads
    <2>3. \A u \in Thread, m \in Mod :
            load'[u] # Null /\ mods[m] # Null /\ mods[m].code = load'[u].lib =>
              \E i \in DOMAIN load'[u].loaded :
                load'[u].loaded[i] = m /\ Entries(load'[u].lib)[i] = LibEntry
      BY <1>1, <1>2, Parts DEF Loads
    <2> QED BY <2>1, <2>2, <2>3 DEF Loads
  <1>8. Registry(mods, lib_map, load')
    <2>1. \A u \in Thread : load[u] # Null => load'[u] = load[u]
      BY <1>2
    <2> QED BY <2>1, Parts DEF Registry
  <1> QED
    BY <1>4, <1>5, <1>6, <1>7, <1>8, Parts DEF IInv, Whole

LEMMA GetOrCreateModuleStep ==
  ASSUME IInv, NEW t \in Thread, NEW lib \in SystemLib, GetOrCreateModule(t, lib)
  PROVE  IInv'
  <1>1. /\ Idle(t) /\ lib_lock = Null /\ lib \in Lib
        /\ UNCHANGED <<mods, funcs, globals, ctx, slots, lock, lib_map, call>>
    BY ModuleAssumption DEF GetOrCreateModule
  <1>2. CASE lib_map[lib] # Null
    <2>1. held' = held \union {lib_map[lib]} /\ UNCHANGED <<lib_lock, load>>
      BY <1>2 DEF GetOrCreateModule
    <2>2. lib_map[lib] \in Mod /\ lib_map[lib] \in Elements(lib_map) \ {Null}
      BY <1>2, Parts DEF Types, Elements
    <2>3. lib_map[lib] \in (Mod \union Func) \intersect Reachable
      BY <2>2, ReachableFacts DEF Outer
    <2> QED BY <1>1, <2>1, <2>3, FrontEndHolds
  <1>3. CASE lib_map[lib] = Null
    <2>1. /\ load' = [load EXCEPT ![t] = [lib |-> lib, loaded |-> <<>>]]
          /\ lib_lock' = t /\ held' = held
      BY <1>3 DEF GetOrCreateModule
    <2>2. \A u \in Thread : load[u] # Null => load[u].lib # lib
      BY <1>1, Parts, ModuleAssumption DEF Locks
    <2>3. \A m \in Mod : mods[m] # Null => mods[m].code # lib
      BY <1>3, <2>2, Parts DEF Registry
    <2>4. load[t] = Null
      BY <1>1 DEF Idle
    <2> QED BY <1>1, <2>1, <2>2, <2>3, <2>4, BeginLoad
  <1> QED BY <1>2, <1>3

LEMMA LoadFromFileStep ==
  ASSUME IInv, NEW t \in Thread, NEW lib \in Lib \ SystemLib, LoadFromFile(t, lib)
  PROVE  IInv'
  BY BeginLoad DEF LoadFromFile, Idle

\* What the load of a thread looks like.
LEMMA LoadType ==
  ASSUME IInv, NEW t \in Thread, load[t] # Null
  PROVE  /\ load[t] \in Load /\ load[t].lib \in Lib /\ load[t].loaded \in Seq(Mod)
         /\ Entries(load[t].lib) \in Seq(Kind \union {LibEntry})
         /\ Len(load[t].loaded) \in Nat /\ Len(Entries(load[t].lib)) \in Nat \ {0}
         /\ Len(load[t].loaded) <= Len(Entries(load[t].lib))
         /\ Elements(load[t].loaded) \subseteq Mod \intersect Loading(load)
  <1>1. load[t] \in Load
    BY Parts DEF Types
  <1>2. load[t].lib \in Lib /\ load[t].loaded \in Seq(Mod)
    BY <1>1 DEF Load
  <1>3. Entries(load[t].lib) \in Seq(Kind \union {LibEntry}) /\ Entries(load[t].lib) # <<>>
    BY <1>2, ModuleAssumption
  <1>4. Elements(load[t].loaded) \subseteq Mod \intersect Loading(load)
    BY <1>2 DEF Elements, Loading
  <1>5. Len(load[t].loaded) <= Len(Entries(load[t].lib))
    BY Parts DEF Loads
  <1>6. Len(load[t].loaded) \in Nat
    BY <1>2
  <1>7. Len(Entries(load[t].lib)) \in Nat \ {0}
    BY <1>3
  <1> QED BY <1>1, <1>2, <1>3, <1>4, <1>5, <1>6, <1>7

\* What holds when a load ends: the modules it made need not be its own.
LEMMA LoadEnds ==
  ASSUME IInv, NEW t \in Thread, load[t] # Null, Unlocks(t)
  PROVE  /\ load'[t] = Null /\ \A u \in Thread : u # t => load'[u] = load[u]
         /\ load' \in [Thread -> Load \union {Null}] /\ lib_lock' \in Thread \union {Null}
         /\ Locks(lock, lib_lock', call, load')
         /\ Loading(load') \subseteq Loading(load)
         /\ Loading(load') \intersect Elements(load[t].loaded) = {}
         /\ Loads(mods, load')
  <1>1. load' = [load EXCEPT ![t] = Null] /\ lib_lock' = IF lib_lock = t THEN Null ELSE lib_lock
    BY DEF Unlocks
  <1>2. /\ load'[t] = Null /\ \A u \in Thread : u # t => load'[u] = load[u]
        /\ load' \in [Thread -> Load \union {Null}] /\ lib_lock' \in Thread \union {Null}
    BY <1>1, Parts DEF Types
  <1>3. \A u \in Thread : load'[u] # Null => u # t /\ load'[u] = load[u]
    BY <1>2
  <1>4. Locks(lock, lib_lock', call, load')
    BY <1>1, <1>2, Parts, ModuleAssumption DEF Locks
  <1>5. Loading(load') \subseteq Loading(load)
    BY <1>3 DEF Loading
  <1>6. Loading(load') \intersect Elements(load[t].loaded) = {}
    BY <1>3, Parts DEF Loading, Elements, Loads
  <1>7. Loads(mods, load')
    BY <1>3, Parts DEF Loads
  <1> QED BY <1>2, <1>4, <1>5, <1>6, <1>7

LEMMA LoadFailsStep ==
  ASSUME IInv, NEW t \in Thread, LoadFails(t)
  PROVE  IInv'
  <1> DEFINE outer == Outer(held, globals, lib_map, call)
  <1>1. /\ load[t] # Null /\ Unlocks(t) /\ Settle(mods, funcs, slots)
        /\ UNCHANGED <<globals, held, ctx, lock, lib_map, call>>
    BY DEF LoadFails, AtEntry
  <1>2. /\ load'[t] = Null /\ \A u \in Thread : u # t => load'[u] = load[u]
        /\ load' \in [Thread -> Load \union {Null}] /\ lib_lock' \in Thread \union {Null}
        /\ Locks(lock, lib_lock', call, load')
        /\ Loading(load') \subseteq Loading(load)
        /\ Loading(load') \intersect Elements(load[t].loaded) = {}
        /\ Loads(mods, load')
    BY <1>1, LoadEnds
  <1>3. Types(mods, funcs, globals, held, ctx, slots, lock, lib_map, lib_lock', call, load')
    BY <1>2, Parts DEF Types
  <1>4. References(mods, funcs, outer, load')
    BY <1>2, Parts DEF References
  <1>5. Whole(mods, funcs, globals, held, ctx, slots, lock, lib_map, lib_lock', call, load')
    BY <1>2, <1>3, <1>4, Parts DEF Whole
  <1>6. Whole(mods, funcs, globals', held', ctx', slots, lock', lib_map', lib_lock', call', load')
    BY <1>1, <1>5
  <1>7. Whole(mods, funcs, globals, held, ctx, slots, lock, lib_map, lib_lock, call, load)'
    BY <1>1, <1>6, ReleasePreserves
  <1>8. Registry(mods, lib_map, load)'
    <2> SUFFICES ASSUME NEW m \in Mod, mods'[m] # Null, mods'[m].code \in SystemLib,
                        lib_map[mods'[m].code] = Null
                 PROVE  \E u \in Thread : load'[u] # Null /\ load'[u].lib = mods'[m].code
      BY <1>1 DEF Registry
    <2> DEFINE roots == outer \union Loading(load')
               K == Kept(roots, mods, funcs)
    <2>1. Roots' = roots
      BY <1>1 DEF Roots, Outer, Loading
    <2>2. mods' = [x \in Mod |-> IF x \in K THEN mods[x] ELSE Null]
      BY <1>1, <2>1 DEF Settle
    <2>3. roots \subseteq Allocated(mods, funcs)
      BY <1>4 DEF References, Public
    <2>4. /\ K \subseteq Allocated(mods, funcs)
          /\ \A x \in K \ roots : \E y \in K : x \in Refs(mods, funcs, y)
      BY <2>3, KeptFacts
    <2> HIDE DEF K
    <2>5. m \in K /\ mods'[m] = mods[m]
      BY <2>2
    <2>6. PICK u \in Thread : load[u] # Null /\ load[u].lib = mods[m].code
      BY <2>5, Parts DEF Registry
    <2>7. CASE u # t
      BY <2>5, <2>6, <2>7, <1>2
    <2>8. CASE u = t
      <3>1. m \in Elements(load[t].loaded)
        <4>1. \E i \in DOMAIN load[t].loaded : load[t].loaded[i] = m
          BY <2>5, <2>6, <2>8, Parts DEF Loads
        <4> QED BY <4>1 DEF Elements
      <3>2. m \in Loading(load)
        BY <3>1, <1>1, LoadType
      <3>3. m \notin Reachable
        BY <3>2, ReachableFacts
      <3>4. m \notin roots
        BY <3>1, <3>3, <1>2, ReachableFacts
      <3>5. \E y \in Allocated(mods, funcs) : m \in Refs(mods, funcs, y)
        BY <3>4, <2>4, <2>5
      <3> QED BY <3>3, <3>5, ReachableFacts
    <2> QED BY <2>7, <2>8
  <1> QED
    BY <1>7, <1>8 DEF IInv

-----------------------------------------------------------------------------
(* The end of a load. *)

\* The imports of the modules a load has made are those of the library's tree.
LinksWithin(ms, l) ==
  \A i \in DOMAIN l.loaded : \A y \in Elements(ms[l.loaded[i]].imports) :
    \E j \in Elements(Children(l.lib, i)) : y = l.loaded[j]

LEMMA LinkedFacts ==
  ASSUME IInv, NEW t \in Thread, load[t] # Null, ~AtEntry(t), NEW ms, ms = Linked(t)
  PROVE  /\ ms \in [Mod -> ModuleObj \union {Null}]
         /\ \A x \in Mod : ms[x] # Null <=> mods[x] # Null
         /\ \A x \in Mod : mods[x] # Null => /\ ms[x].code = mods[x].code
                                             /\ ms[x].cache = mods[x].cache
         /\ \A x \in Mod \ Elements(load[t].loaded) : ms[x] = mods[x]
         /\ \A i \in DOMAIN load[t].loaded :
              /\ i \in DOMAIN Entries(load[t].lib)
              /\ Elements(Children(load[t].lib, i)) \subseteq DOMAIN load[t].loaded
         /\ LinksWithin(ms, load[t])
         /\ load[t].loaded[1] \in Elements(load[t].loaded)
  <1> DEFINE loaded == load[t].loaded
             lib == load[t].lib
             children(i) == Children(lib, i)
             imports(i) == [j \in DOMAIN children(i) |-> loaded[children(i)[j]]]
             index(m) == CHOOSE i \in DOMAIN loaded : loaded[i] = m
  <1>1. /\ lib \in Lib /\ loaded \in Seq(Mod) /\ Len(loaded) = Len(Entries(lib))
        /\ Len(loaded) \in Nat \ {0}
    BY LoadType DEF AtEntry
  <1>2. DOMAIN loaded = DOMAIN Entries(lib) /\ 1 \in DOMAIN loaded
    <2>1. Entries(lib) \in Seq(Kind \union {LibEntry})
      BY LoadType
    <2> QED BY <1>1, <2>1
  <1>3. ASSUME NEW i \in DOMAIN loaded
        PROVE  /\ children(i) \in Seq(DOMAIN loaded)
               /\ imports(i) \in Seq(Mod)
               /\ \A y \in Elements(imports(i)) : \E j \in Elements(children(i)) : y = loaded[j]
               /\ Elements(children(i)) \subseteq DOMAIN loaded
    <2>1. Layout[lib].children \in [DOMAIN Entries(lib) -> Seq(DOMAIN Entries(lib))]
      BY <1>1, ModuleAssumption
    <2>2. children(i) \in Seq(DOMAIN loaded)
      BY <2>1, <1>2 DEF Children
    <2> DEFINE ch == children(i)
    <2> HIDE DEF ch
    <2>3. \A j \in DOMAIN ch : ch[j] \in DOMAIN loaded /\ loaded[ch[j]] \in Mod
      BY <2>2, <1>1 DEF ch
    <2>4. DOMAIN ch = 1 .. Len(ch) /\ Len(ch) \in Nat
      BY <2>2 DEF ch
    <2>5. [j \in DOMAIN ch |-> loaded[ch[j]]] \in Seq(Mod)
      BY <2>3, <2>4
    <2>6. \A y \in Elements([j \in DOMAIN ch |-> loaded[ch[j]]]) : \E j \in Elements(ch) : y = loaded[j]
      BY DEF Elements
    <2>7. Elements(ch) \subseteq DOMAIN loaded
      BY <2>3 DEF Elements
    <2> QED BY <2>2, <2>5, <2>6, <2>7 DEF ch
  <1>4. ASSUME NEW i \in DOMAIN loaded PROVE index(loaded[i]) = i
    <2>1. \A j \in DOMAIN loaded : loaded[j] = loaded[i] => j = i
      BY Parts DEF Loads
    <2> QED BY <2>1
  <1>5. ms = [m \in Mod |-> IF m \in Elements(loaded)
                            THEN [mods[m] EXCEPT !.imports = imports(index(m))] ELSE mods[m]]
    BY DEF Linked
  <1> HIDE DEF imports, index
  <1>6. \A x \in Mod \ Elements(loaded) : ms[x] = mods[x]
    BY <1>5
  <1>7. ASSUME NEW i \in DOMAIN loaded
        PROVE  /\ ms[loaded[i]] \in ModuleObj /\ mods[loaded[i]] # Null
               /\ ms[loaded[i]].code = mods[loaded[i]].code
               /\ ms[loaded[i]].cache = mods[loaded[i]].cache
               /\ ms[loaded[i]].imports = imports(i)
    <2> DEFINE m == loaded[i]
    <2>1. m \in Mod /\ m \in Elements(loaded)
      BY <1>1 DEF Elements
    <2>2. m \in Loading(load)
      BY <2>1, LoadType
    <2>3. mods[m] # Null
      BY <2>1, <2>2, ReachableFacts, ModuleAssumption DEF Allocated
    <2>4. mods[m] \in ModuleObj
      BY <2>1, <2>3, Parts DEF Types
    <2>5. ms[m] = [mods[m] EXCEPT !.imports = imports(i)]
      BY <2>1, <1>4, <1>5
    <2>6. imports(i) \in Seq(Mod)
      BY <1>3 DEF imports
    <2> HIDE DEF m
    <2>7. /\ ms[m] \in ModuleObj /\ ms[m].code = mods[m].code /\ ms[m].cache = mods[m].cache
          /\ ms[m].imports = imports(i)
      BY <2>4, <2>5, <2>6 DEF ModuleObj
    <2> QED BY <2>3, <2>7 DEF m
  <1>8. \A m \in Elements(loaded) : \E i \in DOMAIN loaded : m = loaded[i]
    BY DEF Elements
  <1>9. \A m \in Elements(loaded) :
          /\ ms[m] \in ModuleObj /\ mods[m] # Null
          /\ ms[m].code = mods[m].code /\ ms[m].cache = mods[m].cache
    BY <1>7, <1>8
  <1>10. ms \in [Mod -> ModuleObj \union {Null}]
    <2>1. \A m \in Mod : ms[m] \in ModuleObj \union {Null}
      BY <1>6, <1>9, Parts DEF Types
    <2> QED BY <2>1, <1>5
  <1>11. \A i \in DOMAIN loaded : \A y \in Elements(ms[loaded[i]].imports) :
           \E j \in Elements(children(i)) : y = loaded[j]
    BY <1>3, <1>7
  <1>16. LinksWithin(ms, load[t])
    BY <1>11 DEF LinksWithin
  <1>12. loaded[1] \in Elements(loaded)
    BY <1>2 DEF Elements
  <1>13. \A x \in Mod : ms[x] # Null <=> mods[x] # Null
    BY <1>6, <1>9, ModuleAssumption
  <1>14. \A x \in Mod : mods[x] # Null => ms[x].code = mods[x].code /\ ms[x].cache = mods[x].cache
    BY <1>6, <1>9
  <1>15. \A i \in DOMAIN loaded : i \in DOMAIN Entries(lib) /\ Elements(children(i)) \subseteq DOMAIN loaded
    BY <1>2, <1>3
  <1> QED
    BY <1>6, <1>10, <1>12, <1>13, <1>14, <1>15, <1>16

LEMMA LinkedAcyclic ==
  ASSUME IInv, NEW t \in Thread, load[t] # Null, ~AtEntry(t), NEW ms, ms = Linked(t)
  PROVE  Acyclic(ms)
  <1> SUFFICES ASSUME NEW S \in SUBSET Mod, Cyclic(S, Imports(ms)) PROVE FALSE
    BY DEF Acyclic
  <1> DEFINE loaded == load[t].loaded
             lib == load[t].lib
             L == Elements(loaded)
             edges == [i \in DOMAIN Entries(lib) |-> Elements(Children(lib, i))]
  <1>1. /\ \A x \in Mod : ms[x] # Null <=> mods[x] # Null
        /\ \A x \in Mod \ L : ms[x] = mods[x]
        /\ \A i \in DOMAIN loaded :
             /\ i \in DOMAIN Entries(lib)
             /\ Elements(Children(lib, i)) \subseteq DOMAIN loaded
        /\ LinksWithin(ms, load[t])
    BY LinkedFacts
  <1>2. L \subseteq Mod /\ L \intersect Reachable = {}
    BY LoadType, ReachableFacts
  <1>3. S # {} /\ \A x \in S : \E y \in S : y \in Imports(ms)[x]
    BY DEF Cyclic
  <1>4. CASE S \intersect L = {}
    <2>1. \A x \in S : Imports(ms)[x] = Imports(mods)[x]
      BY <1>1, <1>4 DEF Imports
    <2>2. Cyclic(S, Imports(mods))
      BY <1>3, <2>1 DEF Cyclic
    <2> QED BY <2>2, Parts DEF Acyclic
  <1>5. CASE S \intersect L # {}
    <2> DEFINE I == {i \in DOMAIN loaded : loaded[i] \in S}
    <2>1. I # {} /\ I \in SUBSET DOMAIN Entries(lib)
      BY <1>1, <1>5 DEF Elements
    <2>2. ASSUME NEW i \in I PROVE \E j \in I : j \in edges[i]
      <3>1. PICK y \in S : y \in Imports(ms)[loaded[i]]
        BY <1>3
      <3>2. loaded[i] \in Mod
        BY <1>2 DEF Elements
      <3>3. y \in Elements(ms[loaded[i]].imports)
        BY <3>1, <3>2 DEF Imports
      <3>4. PICK j \in Elements(Children(lib, i)) : y = loaded[j]
        BY <1>1, <3>3 DEF LinksWithin
      <3>5. j \in DOMAIN loaded
        BY <1>1, <3>4
      <3>6. j \in I /\ j \in edges[i]
        BY <3>1, <3>4, <3>5, <1>1
      <3> QED BY <3>6
    <2>3. Cyclic(I, edges)
      BY <2>1, <2>2 DEF Cyclic
    <2>4. lib \in Lib
      BY LoadType
    <2>5. \A T \in SUBSET DOMAIN Entries(lib) : ~Cyclic(T, edges)
      BY <2>4, ModuleAssumption
    <2> HIDE DEF I, edges
    <2> QED BY <2>1, <2>3, <2>5
  <1> QED BY <1>4, <1>5

LEMMA LinkStep ==
  ASSUME IInv, NEW t \in Thread, Link(t)
  PROVE  IInv'
  <1> DEFINE N == Elements(load[t].loaded)
             lib == load[t].lib
             root == load[t].loaded[1]
             ms == Linked(t)
             outer == Outer(held', globals, lib_map', call)
  <1>1. /\ load[t] # Null /\ ~AtEntry(t) /\ Unlocks(t) /\ Settle(ms, funcs, slots)
        /\ held' = held \union {root}
        /\ lib_map' = IF lib \in SystemLib THEN [lib_map EXCEPT ![lib] = root] ELSE lib_map
        /\ UNCHANGED <<globals, ctx, lock, call>>
    BY DEF Link
  <1> HIDE DEF ms
  <1>2. /\ ms \in [Mod -> ModuleObj \union {Null}]
        /\ \A x \in Mod : ms[x] # Null <=> mods[x] # Null
        /\ \A x \in Mod : mods[x] # Null => /\ ms[x].code = mods[x].code
                                            /\ ms[x].cache = mods[x].cache
        /\ \A x \in Mod \ N : ms[x] = mods[x]
        /\ \A i \in DOMAIN load[t].loaded :
             Elements(Children(load[t].lib, i)) \subseteq DOMAIN load[t].loaded
        /\ LinksWithin(ms, load[t])
        /\ root \in N
    BY <1>1, LinkedFacts DEF ms
  <1>3. Acyclic(ms)
    BY <1>1, LinkedAcyclic DEF ms
  <1>4. /\ load'[t] = Null /\ \A u \in Thread : u # t => load'[u] = load[u]
        /\ load' \in [Thread -> Load \union {Null}] /\ lib_lock' \in Thread \union {Null}
        /\ Locks(lock, lib_lock', call, load')
        /\ Loading(load') \subseteq Loading(load)
        /\ Loading(load') \intersect N = {}
        /\ Loads(mods, load')
    BY <1>1, LoadEnds
  <1>5. N \subseteq Mod \intersect Loading(load)
    BY <1>1, LoadType
  <1>6. N \subseteq Allocated(mods, funcs)
    BY <1>5, ReachableFacts
  <1>7. /\ lib_map' \in [SystemLib -> Mod \union {Null}]
        /\ \A l \in SystemLib : lib_map'[l] = (IF l = lib THEN root ELSE lib_map[l])
    BY <1>1, <1>2, <1>5, Parts DEF Types
  <1>8. Types(ms, funcs, globals, held', ctx, slots, lock, lib_map', lib_lock', call, load')
    BY <1>1, <1>2, <1>4, <1>5, <1>7, Parts DEF Types
  <1>9. outer \subseteq Reachable \union N
    <2>1. Elements(lib_map') \subseteq Elements(lib_map) \union {root}
      BY <1>7, Parts DEF Types, Elements
    <2>2. Outer(held, globals, lib_map, call) \subseteq Reachable
      BY ReachableFacts
    <2>3. /\ held \subseteq Reachable /\ Elements(globals) \ {Null} \subseteq Reachable
          /\ Elements(lib_map) \ {Null} \subseteq Reachable
          /\ UNION {CallRoots(call[u]) : u \in {u \in Thread : call[u] # Null}} \subseteq Reachable
      BY <2>2 DEF Outer
    <2> HIDE DEF N
    <2> QED BY <2>1, <2>3, <1>1, <1>2 DEF Outer
  <1>10. Allocated(ms, funcs) = Allocated(mods, funcs)
    BY <1>2 DEF Allocated
  <1>11. ASSUME NEW x \in Allocated(mods, funcs)
         PROVE  Refs(ms, funcs, x) \subseteq Reachable \union N
    <2>1. Refs(mods, funcs, x) \subseteq Reachable
      BY ReachableFacts
    <2>2. CASE x \in Mod /\ x \in N
      <3>1. PICK i \in DOMAIN load[t].loaded : x = load[t].loaded[i]
        BY <2>2 DEF Elements
      <3>2. Elements(ms[x].imports) \subseteq N
        <4>1. \A j \in DOMAIN load[t].loaded : load[t].loaded[j] \in N
          BY DEF Elements
        <4> HIDE DEF N
        <4> QED BY <3>1, <4>1, <1>2 DEF LinksWithin
      <3>3. mods[x] # Null
        BY <2>2, ModuleAssumption DEF Allocated
      <3>4. ms[x].cache = mods[x].cache
        BY <2>2, <3>3, <1>2
      <3> HIDE DEF N
      <3> QED BY <2>1, <2>2, <3>2, <3>4 DEF Refs
    <2>3. CASE x \in Mod /\ x \notin N
      BY <2>1, <2>3, <1>2 DEF Refs
    <2>4. CASE x \notin Mod
      BY <2>1, <2>4 DEF Refs
    <2> QED BY <2>2, <2>3, <2>4
  <1> HIDE DEF N, outer
  <1>12. References(ms, funcs, outer, load')
    <2>1. \A x \in Allocated(ms, funcs) : Refs(ms, funcs, x) \subseteq Reachable \union N
      BY <1>10, <1>11
    <2>2. /\ Allocated(mods, funcs) \subseteq Allocated(ms, funcs)
          /\ N \subseteq Allocated(ms, funcs) /\ N \intersect Loading(load') = {}
      BY <1>4, <1>6, <1>10
    <2> QED BY <1>4, <1>9, <2>1, <2>2, StaysReachable
  <1>13. Walks(ms, funcs, call)
    <2> SUFFICES ASSUME NEW u \in Thread, call[u] # Null, call[u].running # Null
                 PROVE  ms[call[u].mod].cache[call[u].name] = Null
      BY Parts DEF Walks
    <2>1. call[u].mod \in Mod \intersect Reachable
      BY WalkFacts DEF Walking
    <2> QED BY <2>1, <1>2, ReachableFacts, Parts DEF Walks
  <1>14. Contexts(ms, ctx) /\ Loads(ms, load')
    BY <1>2, <1>4, Parts DEF Contexts, Loads
  <1>15. Slots(ms, slots)
    BY <1>2, Parts DEF Slots, Types
  <1>16. Whole(ms, funcs, globals, held', ctx, slots, lock, lib_map', lib_lock', call, load')
    BY <1>3, <1>4, <1>8, <1>12, <1>13, <1>14, <1>15 DEF Whole, outer
  <1>17. Whole(ms, funcs, globals', held', ctx', slots, lock', lib_map', lib_lock', call', load')
    BY <1>1, <1>16
  <1>18. Whole(mods, funcs, globals, held, ctx, slots, lock, lib_map, lib_lock, call, load)'
    BY <1>1, <1>17, ReleasePreserves
  <1>19. Registry(mods, lib_map, load)'
    <2> SUFFICES ASSUME NEW m \in Mod, mods'[m] # Null, mods'[m].code \in SystemLib
                 PROVE  \/ lib_map'[mods'[m].code] # Null
                        \/ \E u \in Thread : load'[u] # Null /\ load'[u].lib = mods'[m].code
      BY DEF Registry
    <2>1. mods'[m] = ms[m]
      BY <1>1 DEF Settle
    <2>2. mods[m] # Null /\ mods'[m].code = mods[m].code
      BY <2>1, <1>2
    <2>3. root # Null
      BY <1>2, <1>5, ModuleAssumption
    <2>4. CASE mods[m].code = lib
      BY <2>2, <2>3, <2>4, <1>7
    <2>5. CASE mods[m].code # lib
      <3>1. \/ lib_map[mods[m].code] # Null
            \/ \E u \in Thread : load[u] # Null /\ load[u].lib = mods[m].code
        BY <2>2, Parts DEF Registry
      <3> QED BY <3>1, <2>2, <2>5, <1>4, <1>7
    <2> QED BY <2>4, <2>5
  <1> QED
    BY <1>18, <1>19 DEF IInv

-----------------------------------------------------------------------------
(* The next entry of a library. *)

\* The load of thread t when it has made m too.
Longer(t, m) == [load[t] EXCEPT !.loaded = Append(@, m)]

LEMMA LongerFacts ==
  ASSUME IInv, NEW t \in Thread, load[t] # Null, NEW m \in Mod, NEW l, l = Longer(t, m)
  PROVE  /\ l \in Load /\ l # Null /\ l.lib = load[t].lib
         /\ Len(l.loaded) = Len(load[t].loaded) + 1
         /\ \A i \in DOMAIN l.loaded : i \in DOMAIN load[t].loaded \/ i = Len(load[t].loaded) + 1
         /\ DOMAIN load[t].loaded \subseteq DOMAIN l.loaded
         /\ Len(load[t].loaded) + 1 \in DOMAIN l.loaded
         /\ Len(load[t].loaded) + 1 \notin DOMAIN load[t].loaded
         /\ l.loaded[Len(load[t].loaded) + 1] = m
         /\ \A i \in DOMAIN load[t].loaded : l.loaded[i] = load[t].loaded[i]
         /\ Elements(l.loaded) = Elements(load[t].loaded) \union {m}
  <1> DEFINE s == load[t].loaded
             s1 == Append(s, m)
  <1>1. load[t] \in Load /\ load[t].lib \in Lib /\ s \in Seq(Mod) /\ Len(s) \in Nat
    BY LoadType
  <1>2. l = [load[t] EXCEPT !.loaded = s1]
    BY DEF Longer
  <1>3. s1 \in Seq(Mod) /\ Elements(s1) = Elements(s) \union {m}
    BY <1>1, AppendElements
  <1>4. /\ Len(s1) = Len(s) + 1 /\ s1[Len(s) + 1] = m
        /\ \A i \in 1 .. Len(s) : s1[i] = s[i]
        /\ DOMAIN s = 1 .. Len(s) /\ DOMAIN s1 = 1 .. Len(s) + 1
    BY <1>1
  <1> HIDE DEF s1
  <1>5. l \in Load /\ l.lib = load[t].lib /\ l.loaded = s1
    BY <1>1, <1>2, <1>3 DEF Load
  <1>6. 1 .. Len(s) + 1 = (1 .. Len(s)) \union {Len(s) + 1} /\ Len(s) + 1 \notin 1 .. Len(s)
    BY <1>1
  <1> QED
    BY <1>3, <1>4, <1>5, <1>6, ModuleAssumption

LEMMA LoadEntryStep ==
  ASSUME IInv, NEW t \in Thread, LoadEntry(t)
  PROVE  IInv'
  <1> DEFINE lib == load[t].lib
             s == load[t].loaded
             k == Len(s) + 1
             code == IF NextEntry(t) = LibEntry THEN lib ELSE NextEntry(t)
  <1>1. PICK m \in Mod :
          /\ mods[m] = Null
          /\ mods' = [mods EXCEPT ![m] = [code |-> code, imports |-> <<>>,
                                          cache |-> [n \in Name |-> Null]]]
          /\ ctx' = IF NextEntry(t) = LibEntry THEN [ctx EXCEPT ![lib] = m] ELSE ctx
          /\ load' = [load EXCEPT ![t] = Longer(t, m)]
    BY DEF LoadEntry, Longer
  <1>2. /\ load[t] # Null /\ Len(s) < Len(Entries(lib))
        /\ UNCHANGED <<funcs, globals, held, slots, lock, lib_map, lib_lock, call>>
    BY DEF LoadEntry, AtEntry
  <1> DEFINE l == Longer(t, m)
             o == [code |-> code, imports |-> <<>>, cache |-> [n \in Name |-> Null]]
  <1>3. /\ l \in Load /\ l # Null /\ l.lib = lib
        /\ Len(l.loaded) = Len(s) + 1
        /\ \A i \in DOMAIN l.loaded : i \in DOMAIN s \/ i = k
        /\ DOMAIN s \subseteq DOMAIN l.loaded /\ k \in DOMAIN l.loaded
        /\ k \notin DOMAIN s
        /\ l.loaded[k] = m
        /\ \A i \in DOMAIN s : l.loaded[i] = s[i]
        /\ Elements(l.loaded) = Elements(s) \union {m}
    <2>1. l = Longer(t, m) /\ k = Len(s) + 1
      OBVIOUS
    <2> HIDE DEF l, k
    <2>2. load[t] # Null
      BY <1>2
    <2>3. l \in Load /\ l # Null /\ l.lib = lib
      BY <2>1, <2>2, LongerFacts
    <2>4. Len(l.loaded) = Len(s) + 1
      BY <2>1, <2>2, LongerFacts
    <2>5. \A i \in DOMAIN l.loaded : i \in DOMAIN s \/ i = k
      BY <2>1, <2>2, LongerFacts
    <2>6. DOMAIN s \subseteq DOMAIN l.loaded /\ k \in DOMAIN l.loaded /\ k \notin DOMAIN s
      BY <2>1, <2>2, LongerFacts
    <2>7. l.loaded[k] = m /\ \A i \in DOMAIN s : l.loaded[i] = s[i]
      BY <2>1, <2>2, LongerFacts
    <2>8. Elements(l.loaded) = Elements(s) \union {m}
      BY <2>1, <2>2, LongerFacts
    <2> QED BY <2>3, <2>4, <2>5, <2>6, <2>7, <2>8
  <1>4. /\ lib \in Lib /\ Len(s) \in Nat /\ Len(Entries(lib)) \in Nat
        /\ Entries(lib) \in Seq(Kind \union {LibEntry})
        /\ k \in DOMAIN Entries(lib)
        /\ NextEntry(t) = Entries(lib)[k] /\ NextEntry(t) \in Kind \union {LibEntry}
    <2>1. /\ lib \in Lib /\ Len(s) \in Nat /\ Len(Entries(lib)) \in Nat
          /\ Entries(lib) \in Seq(Kind \union {LibEntry})
      BY <1>2, LoadType
    <2>2. k \in DOMAIN Entries(lib)
      BY <1>2, <2>1
    <2> QED BY <2>1, <2>2 DEF NextEntry
  <1>5. /\ code \in Code /\ (NextEntry(t) # LibEntry => code \notin Lib)
        /\ (NextEntry(t) = LibEntry => code = lib)
    BY <1>4, ModuleAssumption DEF Code
  <1> HIDE DEF l, code, k
  <1>6. /\ o \in ModuleObj /\ o # Null /\ o.code = code /\ Elements(o.imports) = {}
        /\ Elements(o.cache) \subseteq {Null}
    <2>1. o \in ModuleObj
      BY <1>5 DEF ModuleObj
    <2> QED BY <2>1, ModuleAssumption DEF Elements
  <1>7. /\ mods'[m] = o /\ (\A x \in Mod : x # m => mods'[x] = mods[x])
        /\ mods' \in [Mod -> ModuleObj \union {Null}]
    <2> HIDE DEF o
    <2> QED BY <1>1, <1>6, Parts DEF Types, o
  <1> HIDE DEF o
  <1>8. /\ load'[t] = l /\ (\A u \in Thread : u # t => load'[u] = load[u])
        /\ load' \in [Thread -> Load \union {Null}]
    BY <1>1, <1>3, Parts DEF Types, l
  <1>9. \A u \in Thread : load[u] # Null =>
          \A i \in DOMAIN load[u].loaded : /\ load[u].loaded[i] # m
                                           /\ load[u].loaded[i] \in Elements(load[u].loaded)
    <2>1. m \notin Allocated(mods, funcs)
      BY <1>1, ModuleAssumption DEF Allocated
    <2>2. \A u \in Thread : load[u] # Null => m \notin Elements(load[u].loaded)
      BY <2>1, LoadType, ReachableFacts
    <2> QED BY <2>2 DEF Elements
  <1>10. m \notin Reachable
    BY <1>1, ReachableFacts
  <1>11. ctx' \in [Lib -> Mod \union {Null}]
    BY <1>1, Parts DEF Types
  <1>12. Types(mods, funcs, globals, held, ctx, slots, lock, lib_map, lib_lock, call, load)'
    BY <1>2, <1>7, <1>8, <1>11, Parts DEF Types
  <1>13. References(mods', funcs, Outer(held, globals, lib_map, call), load')
    <2> DEFINE outer == Outer(held, globals, lib_map, call)
               M == {m}
    <2>1. Allocated(mods', funcs) = Allocated(mods, funcs) \union M
      BY <1>1, <1>6, <1>7 DEF Allocated
    <2>2. ASSUME NEW x \in Allocated(mods, funcs) \union M
          PROVE  Refs(mods', funcs, x) \subseteq Reachable
      <3>1. CASE x = m
        BY <3>1, <1>6, <1>7 DEF Refs
      <3>2. CASE x # m
        <4>1. Refs(mods', funcs, x) = Refs(mods, funcs, x)
          BY <3>2, <1>7 DEF Refs
        <4> QED BY <3>2, <4>1, ReachableFacts
      <3> QED BY <3>1, <3>2
    <2>3. Loading(load') \subseteq Loading(load) \union M
      <3>1. \A u \in Thread : load'[u] # Null =>
              IF u = t THEN Elements(load'[u].loaded) = Elements(load[t].loaded) \union M
                       ELSE load'[u] = load[u]
        BY <1>3, <1>8
      <3> HIDE DEF M
      <3> QED BY <3>1, <1>2 DEF Loading
    <2>4. M \intersect Allocated(mods, funcs) = {}
      BY <1>1, ModuleAssumption DEF Allocated
    <2>5. outer \subseteq Reachable
      BY ReachableFacts
    <2>6. /\ Allocated(mods, funcs) \subseteq Allocated(mods', funcs)
          /\ M \subseteq Allocated(mods', funcs)
          /\ \A x \in Allocated(mods', funcs) : Refs(mods', funcs, x) \subseteq Reachable
      BY <2>1, <2>2
    <2> HIDE DEF outer, M
    <2>7. References(mods', funcs, outer, load')
      BY <2>3, <2>4, <2>5, <2>6, GrowsReachable
    <2> QED BY <2>7 DEF outer
  <1>14. Walks(mods', funcs, call)
    <2> SUFFICES ASSUME NEW u \in Thread, call[u] # Null, call[u].running # Null
                 PROVE  mods'[call[u].mod].cache[call[u].name] = Null
      BY Parts DEF Walks
    <2>1. call[u].mod \in Mod \intersect Reachable
      BY WalkFacts DEF Walking
    <2> QED BY <2>1, <1>7, <1>10, Parts DEF Walks
  <1>15. Locks(lock, lib_lock, call, load')
    BY <1>2, <1>3, <1>8, Parts DEF Locks
  <1>16. \A x \in Mod, u \in Thread :
           mods[x] # Null /\ load[u] # Null /\ mods[x].code = load[u].lib =>
             \E i \in DOMAIN load[u].loaded :
               load[u].loaded[i] = x /\ Entries(load[u].lib)[i] = LibEntry
    BY Parts DEF Loads
  <1>17. Contexts(mods', ctx')
    <2> SUFFICES ASSUME NEW x \in Mod, mods'[x] # Null, mods'[x].code \in Lib
                 PROVE  ctx'[mods'[x].code] = x
      BY DEF Contexts
    <2>1. CASE x = m
      <3>1. NextEntry(t) = LibEntry /\ mods'[x].code = lib
        BY <2>1, <1>5, <1>6, <1>7
      <3> QED BY <2>1, <3>1, <1>1, <1>4, Parts DEF Types
    <2>2. CASE x # m
      <3>1. mods'[x] = mods[x] /\ ctx[mods[x].code] = x
        BY <2>2, <1>7, Parts DEF Contexts
      <3>2. CASE NextEntry(t) = LibEntry /\ mods[x].code = lib
        <4>1. PICK i \in DOMAIN s : Entries(lib)[i] = LibEntry
          BY <3>1, <3>2, <1>2, <1>16
        <4>2. i \in DOMAIN Entries(lib)
          BY <4>1, <1>2, <1>4, LoadType
        <4>3. i = k
          BY <4>1, <4>2, <3>2, <1>4, ModuleAssumption
        <4> QED BY <4>1, <4>3, <1>3
      <3>3. CASE ~(NextEntry(t) = LibEntry /\ mods[x].code = lib)
        BY <3>1, <3>3, <1>1, Parts DEF Types
      <3> QED BY <3>2, <3>3
    <2> QED BY <2>1, <2>2
  <1>18. Loads(mods', load')
    <2>1. \A u \in Thread : load'[u] # Null => Len(load'[u].loaded) <= Len(Entries(load'[u].lib))
      <3>1. Len(l.loaded) <= Len(Entries(l.lib))
        BY <1>2, <1>3, <1>4
      <3> QED BY <3>1, <1>8, Parts DEF Loads
    <2>2. \A u, v \in Thread : load'[u] # Null /\ load'[v] # Null /\ u # v =>
            load'[u].lib # load'[v].lib
      BY <1>2, <1>3, <1>8, Parts DEF Loads
    <2>3. ASSUME NEW u \in Thread, NEW v \in Thread, load'[u] # Null, load'[v] # Null,
                 NEW i \in DOMAIN load'[u].loaded, NEW j \in DOMAIN load'[v].loaded,
                 load'[u].loaded[i] = load'[v].loaded[j]
          PROVE  u = v /\ i = j
      <3>1. \A w \in Thread : load'[w] # Null => \A n \in DOMAIN load'[w].loaded :
              \/ w = t /\ n = k /\ load'[w].loaded[n] = m
              \/ /\ load[w] # Null /\ n \in DOMAIN load[w].loaded
                 /\ load'[w].loaded[n] = load[w].loaded[n]
        BY <1>2, <1>3, <1>8
      <3>2. CASE load'[u].loaded[i] = m
        <4>1. u = t /\ i = k
          BY <2>3, <3>1, <3>2, <1>9
        <4>2. load'[v].loaded[j] = m
          BY <2>3, <3>2
        <4>3. v = t /\ j = k
          BY <2>3, <3>1, <4>2, <1>9
        <4> QED BY <4>1, <4>3
      <3>3. CASE load'[u].loaded[i] # m
        BY <2>3, <3>1, <3>3, Parts DEF Loads
      <3> QED BY <3>2, <3>3
    <2>4. ASSUME NEW u \in Thread, NEW x \in Mod, load'[u] # Null, mods'[x] # Null,
                 mods'[x].code = load'[u].lib
          PROVE  \E i \in DOMAIN load'[u].loaded :
                   load'[u].loaded[i] = x /\ Entries(load'[u].lib)[i] = LibEntry
      <3>1. load'[u].lib \in Lib /\ load'[u].lib = load[u].lib /\ load[u] # Null
        BY <2>4, <1>2, <1>3, <1>4, <1>8, LoadType
      <3>2. CASE x = m
        <4>1. NextEntry(t) = LibEntry /\ load[u].lib = lib
          BY <2>4, <3>1, <3>2, <1>5, <1>6, <1>7
        <4>2. u = t
          BY <3>1, <4>1, <1>2, Parts DEF Loads
        <4> QED BY <3>2, <4>1, <4>2, <1>3, <1>4, <1>8
      <3>3. CASE x # m
        <4>1. PICK i \in DOMAIN load[u].loaded :
                load[u].loaded[i] = x /\ Entries(load[u].lib)[i] = LibEntry
          BY <2>4, <3>1, <3>3, <1>7, <1>16
        <4> QED BY <3>1, <4>1, <1>3, <1>8
      <3> QED BY <3>2, <3>3
    <2>5. \A u, v \in Thread : load'[u] # Null /\ load'[v] # Null =>
            \A i \in DOMAIN load'[u].loaded, j \in DOMAIN load'[v].loaded :
              load'[u].loaded[i] = load'[v].loaded[j] => u = v /\ i = j
      BY <2>3
    <2>6. \A u \in Thread, x \in Mod :
            load'[u] # Null /\ mods'[x] # Null /\ mods'[x].code = load'[u].lib =>
              \E i \in DOMAIN load'[u].loaded :
                load'[u].loaded[i] = x /\ Entries(load'[u].lib)[i] = LibEntry
      BY <2>4
    <2> QED BY <2>1, <2>2, <2>5, <2>6 DEF Loads
  <1>19. Slots(mods', slots)
    <2>1. \A x \in slots : x.ctx # m /\ x.ctx \in Mod
      BY <1>1, Parts DEF Slots, Types
    <2> QED BY <2>1, <1>7, Parts DEF Slots
  <1>20. Acyclic(mods')
    <2>1. Imports(mods') = Imports(mods)
      BY <1>1, <1>6, <1>7 DEF Imports
    <2> QED BY <2>1, Parts DEF Acyclic
  <1>21. Registry(mods', lib_map, load')
    <2> SUFFICES ASSUME NEW x \in Mod, mods'[x] # Null, mods'[x].code \in SystemLib,
                        lib_map[mods'[x].code] = Null
                 PROVE  \E u \in Thread : load'[u] # Null /\ load'[u].lib = mods'[x].code
      BY DEF Registry
    <2>1. CASE x = m
      <3>1. mods'[x].code = lib
        BY <2>1, <1>5, <1>6, <1>7, ModuleAssumption
      <3> QED BY <3>1, <1>3, <1>8
    <2>2. CASE x # m
      <3>1. PICK u \in Thread : load[u] # Null /\ load[u].lib = mods'[x].code
        BY <2>2, <1>7, Parts DEF Registry
      <3> QED BY <3>1, <1>3, <1>8
    <2> QED BY <2>1, <2>2
  <1> QED
    BY <1>2, <1>12, <1>13, <1>14, <1>15, <1>17, <1>18, <1>19, <1>20, <1>21 DEF IInv, Whole

-----------------------------------------------------------------------------
(* The invariant. *)

LEMMA InitIInv == Init => IInv
  <1> SUFFICES ASSUME Init PROVE IInv
    OBVIOUS
  <1>1. /\ mods = [m \in Mod |-> Null] /\ funcs = [f \in Func |-> Null]
        /\ globals = [n \in Name |-> Null] /\ held = {}
        /\ ctx = [lib \in Lib |-> Null] /\ slots = {}
        /\ lock = Null /\ lib_lock = Null /\ lib_map = [lib \in SystemLib |-> Null]
        /\ call = [t \in Thread |-> Null] /\ load = [t \in Thread |-> Null]
    BY DEF Init
  <1>2. Types(mods, funcs, globals, held, ctx, slots, lock, lib_map, lib_lock, call, load)
    BY <1>1 DEF Types
  <1>3. References(mods, funcs, Outer(held, globals, lib_map, call), load)
    <2>1. Elements(globals) \subseteq {Null} /\ Elements(lib_map) \subseteq {Null}
      BY <1>1 DEF Elements
    <2>2. Outer(held, globals, lib_map, call) = {} /\ Loading(load) = {}
      BY <1>1, <2>1 DEF Outer, Loading
    <2>3. Allocated(mods, funcs) = {}
      BY <1>1, ModuleAssumption DEF Allocated
    <2> QED BY <2>2, <2>3 DEF References, Public
  <1>4. Walks(mods, funcs, call) /\ Contexts(mods, ctx) /\ Loads(mods, load)
    BY <1>1 DEF Walks, Contexts, Loads
  <1>5. Locks(lock, lib_lock, call, load)
    BY <1>1, ModuleAssumption DEF Locks
  <1>6. Slots(mods, slots) /\ Registry(mods, lib_map, load)
    BY <1>1 DEF Slots, Registry
  <1>7. Acyclic(mods)
    BY <1>1 DEF Acyclic, Imports, Cyclic
  <1> QED BY <1>2, <1>3, <1>4, <1>5, <1>6, <1>7 DEF IInv, Whole

LEMMA NextIInv == IInv /\ [Next]_vars => IInv'
  <1> SUFFICES ASSUME IInv, [Next]_vars PROVE IInv'
    OBVIOUS
  <1>1. CASE UNCHANGED vars
    BY <1>1 DEF vars, IInv, Whole
  <1>2. CASE FrontEnd
    BY <1>2, ImportModuleStep, HoldImportStep, ClearImportsStep, RegisterStep, SetGlobalStep,
       RemoveStep, GetGlobalStep, ReleaseStep DEF FrontEnd
  <1>3. ASSUME NEW t \in Thread, Begin(t) PROVE IInv'
    BY <1>3, GetFunctionStep, LookupStep, GetOrCreateModuleStep, LoadFromFileStep DEF Begin
  <1>4. ASSUME NEW t \in Thread, Step(t) PROVE IInv'
    BY <1>4, DescendStep, AscendStep, FoundStep, NotFoundStep, LoadEntryStep, LoadFailsStep,
       LinkStep DEF Step
  <1> QED BY <1>1, <1>2, <1>3, <1>4 DEF Next

\* The inductive invariant holds in every state.
THEOREM ModuleInvariant == Spec => []IInv
  BY InitIInv, NextIInv, PTL DEF Spec

LEMMA IInvImplies ==
  IInv => HandedOutPointersLive /\ ContextIsTheModule /\ ImportsAcyclic /\ LocksAtWork
  <1> SUFFICES ASSUME IInv
               PROVE  HandedOutPointersLive /\ ContextIsTheModule /\ ImportsAcyclic /\ LocksAtWork
    OBVIOUS
  <1>1. HandedOutPointersLive
    <2> SUFFICES ASSUME NEW s \in slots PROVE funcs[s.func] # Null
      BY DEF HandedOutPointersLive
    <2>1. s.ctx \in Mod /\ s.func \in Func
      BY Parts DEF Types
    <2>2. PICK n \in Name : mods[s.ctx] # Null /\ mods[s.ctx].cache[n] = s.func
      BY Parts DEF Slots
    <2>3. mods[s.ctx].cache \in [Name -> Func \union {Null}]
      BY <2>1, <2>2, Parts DEF Types, ModuleObj
    <2>4. s.func \in Elements(mods[s.ctx].cache) \ {Null}
      BY <2>1, <2>2, <2>3, ModuleAssumption DEF Elements
    <2>5. s.ctx \in Allocated(mods, funcs) /\ s.func \in Refs(mods, funcs, s.ctx)
      BY <2>1, <2>2, <2>4 DEF Allocated, Refs
    <2> QED BY <2>1, <2>5, ReachableFacts
  <1>2. ContextIsTheModule
    <2> SUFFICES ASSUME NEW f \in Func, OwnCode(f) PROVE ctx[funcs[f].code] = funcs[f].self
      BY DEF ContextIsTheModule
    <2>1. funcs[f] \in FunctionObj /\ funcs[f].self # Null
      BY Parts DEF OwnCode, Types
    <2>2. funcs[f].self \in Mod
      BY <2>1 DEF FunctionObj
    <2>3. f \in Allocated(mods, funcs) /\ funcs[f].self \in Refs(mods, funcs, f)
      BY <2>1, <2>2, ModuleAssumption DEF Refs, Allocated, OwnCode
    <2>4. mods[funcs[f].self] # Null
      BY <2>2, <2>3, ReachableFacts
    <2> QED BY <2>2, <2>4, Parts DEF OwnCode, Contexts
  <1>3. ImportsAcyclic
    BY Parts DEF ImportsAcyclic, ImportsOf, Imports, Acyclic
  <1>4. LocksAtWork
    BY Parts DEF LocksAtWork, Locks, Walking
  <1> QED BY <1>1, <1>2, <1>3, <1>4

\* A function the code of a library looked up exists as long as the library's
\* module, whatever is imported, released or registered meanwhile: the cache
\* keeps it, and only the thread with the lock fills an entry, once.
THEOREM HandedOutFunctionsStay == Spec => []HandedOutPointersLive
  BY ModuleInvariant, IInvImplies, PTL

\* The context pointer of a library is the module its functions hold, because
\* a library is loaded by one thread, under the registry's lock or from a file
\* that no module has, and a failed load leaves no module of it behind.
THEOREM ContextsAreModules == Spec => []ContextIsTheModule
  BY ModuleInvariant, IInvImplies, PTL

\* No module imports itself over other modules: the search of ImportModule
\* finds every circle an import would close, and a load makes the tree that is
\* embedded in the library, of modules that nothing else refers to yet.
THEOREM NoImportCycles == Spec => []ImportsAcyclic
  BY ModuleInvariant, IInvImplies, PTL

\* The threads that hold the locks are those in a library's lookup and in the
\* load of a system library.
THEOREM LocksFollowTheWork == Spec => []LocksAtWork
  BY ModuleInvariant, IInvImplies, PTL
=============================================================================
