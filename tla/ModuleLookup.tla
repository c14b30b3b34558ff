---------------------------- MODULE ModuleLookup ----------------------------
(***************************************************************************)
(* Modules (src/ffi/extra/module.cpp, module_internal.h,                   *)
(* library_moodule.cpp, library_module_system_lib.cpp) and the global      *)
(* function table (src/ffi/function.cpp).  A module finds a function by    *)
(* name, in itself or in the modules it imports.  The code of a library    *)
(* keeps a bare pointer to its module and bare pointers to the functions   *)
(* it looked up, which "are cached/owned by the module" (c_env_api.h).     *)
(* Several threads look functions up and load libraries.                   *)
(***************************************************************************)
EXTENDS Integers, Sequences, FiniteSets

CONSTANTS
  Thread,
  Mod,         \* the addresses a ModuleObj may get; bound: no more than that
  Func,        \* the addresses a FunctionObj may get; likewise
  Name,        \* names of functions
  Lib,         \* libraries: code with a context pointer of its own
  SystemLib,   \* those linked into the process, by their symbol prefix
  DefaultLib,  \* the one whose prefix is empty
  Kind,        \* kinds of modules whose bytes a library may embed
  Symbols,     \* the functions that a library or a module of a kind defines
  Layout,      \* the import tree embedded in a library (library_bin)
  MaxImports,  \* bound: no import that would give a module more
  MaxHeld,     \* bound: the front end refers to no more objects
  Null

VARIABLES
  mods,      \* the ModuleObj at an address, or Null
  funcs,     \* the FunctionObj at an address, or Null
  globals,   \* the GlobalFunctionTable: a function for each name, or Null
  held,      \* the objects the front end has a reference to
  ctx,       \* __tvm_ffi__library_ctx of each library: a module, or Null
  slots,     \* the functions that the code of a library has looked up
  lock,      \* the thread that holds the mutex of GetFunctionFromImports, or Null
  lib_map,   \* SystemLibModuleRegistry: the module of each prefix, or Null
  lib_lock,  \* the thread that holds its mutex, or Null
  call,      \* the lookup a thread is in, or Null
  load       \* the CreateLibraryModule a thread is in, or Null

vars == <<mods, funcs, globals, held, ctx, slots, lock, lib_map, lib_lock, call, load>>

Code == Lib \union Kind

ModuleObj == [code : Code, imports : Seq(Mod), cache : [Name -> Func \union {Null}]]

\* self is what the closure of a LibraryModuleObj captures; code is whose
\* symbol it calls, Null for a function of the front end.
FunctionObj == [self : Mod \union {Null}, code : Code \union {Null}]

\* One loop over the imports of a module, at its next import.
Frame == [mod : Mod, next : Nat \ {0}]

\* A GetFunction by the front end, or a TVMFFIEnvModLookupFromImports by the
\* library function that is running; mod is the module it starts from.
Call == [running : Func \union {Null}, mod : Mod, name : Name, stack : Seq(Frame)]

\* A ProcessLibraryBin that has made the modules loaded.
Load == [lib : Lib, loaded : Seq(Mod)]

\* An entry of an import tree: the library itself, or a module of a kind.
\* Without library_bin a library is a tree of one entry.
LibEntry == "_lib"
Entries(lib) == Layout[lib].entries
Children(lib, i) == Layout[lib].children[i]

Elements(s) == {s[i] : i \in DOMAIN s}

\* A set of modules each of which imports another of them.
Cyclic(S, imports) == S # {} /\ \A x \in S : \E y \in S : y \in imports[x]

ASSUME ModuleAssumption ==
  /\ Mod \intersect Func = {} /\ Null \notin Mod \union Func
  /\ Lib \intersect Kind = {} /\ Null \notin Code /\ LibEntry \notin Kind
  /\ SystemLib \subseteq Lib /\ DefaultLib \in SystemLib
  /\ Null \notin Thread \union ModuleObj \union FunctionObj \union Call \union Load
  /\ Symbols \in [Code -> SUBSET Name]
  /\ \A lib \in Lib :
       /\ Entries(lib) \in Seq(Kind \union {LibEntry}) /\ Entries(lib) # <<>>
       /\ Layout[lib].children \in [DOMAIN Entries(lib) -> Seq(DOMAIN Entries(lib))]
       \* The exporter of a library writes acyclic trees; the loader does not
       \* check, and places the library once.
       /\ \A S \in SUBSET DOMAIN Entries(lib) :
            ~Cyclic(S, [i \in DOMAIN Entries(lib) |-> Elements(Children(lib, i))])
       /\ \A i, j \in DOMAIN Entries(lib) :
            Entries(lib)[i] = LibEntry /\ Entries(lib)[j] = LibEntry => i = j

-----------------------------------------------------------------------------
(* References.  An object goes when nothing refers to it, and then what only *)
(* it referred to; objects that refer to each other in a circle stay.        *)

Refs(ms, fs, x) ==
  (IF x \in Mod THEN Elements(ms[x].imports) \union Elements(ms[x].cache) ELSE {fs[x].self})
  \ {Null}

Allocated(ms, fs) == {x \in Mod : ms[x] # Null} \union {x \in Func : fs[x] # Null}

\* While a thread walks the imports, it holds the modules it has come to but
\* not the one it starts from: the caller does.
CallRoots(c) ==
  {IF c.running = Null THEN c.mod ELSE c.running}
  \union {c.stack[i].mod : i \in 2 .. Len(c.stack)}

Roots ==
  held \union (Elements(globals) \ {Null}) \union (Elements(lib_map) \ {Null})
  \union (UNION {CallRoots(call[t]) : t \in {t \in Thread : call[t] # Null}})
  \union (UNION {Elements(load[t].loaded) : t \in {t \in Thread : load[t] # Null}})

Kept(roots, ms, fs) ==
  roots \union UNION {S \in SUBSET (Allocated(ms, fs) \ roots) :
                        \A x \in S : \E y \in S \union roots : x \in Refs(ms, fs, y)}

\* The step ends with the objects ms and fs, without those that go.  What the
\* code of a library keeps matters as long as its module exists.
Settle(ms, fs, sl) ==
  LET kept == Kept(Roots', ms, fs)
  IN /\ mods' = [m \in Mod |-> IF m \in kept THEN ms[m] ELSE Null]
     /\ funcs' = [f \in Func |-> IF f \in kept THEN fs[f] ELSE Null]
     /\ slots' = {s \in sl : s.ctx \in kept}

Idle(t) == call[t] = Null /\ load[t] = Null

-----------------------------------------------------------------------------
(* Finding a function.                                                      *)

\* Whose symbol GetFunction(n) of module m finds, or Null.  The symbols of the
\* default prefix are found under every prefix (GetSymbolWithSymbolPrefix).
CodeOf(m, n) ==
  LET code == mods[m].code
  IN IF n \in Symbols[code] THEN code
     ELSE IF code \in SystemLib /\ n \in Symbols[DefaultLib] THEN DefaultLib
     ELSE Null

\* Every GetFunction makes a new closure.
Closure(m, n) == [self |-> m, code |-> CodeOf(m, n)]

NewFrame(m) == [mod |-> m, next |-> 1]

\* ModuleObj::GetFunction(name, query_imports) of the front end.
GetFunction(t, m, n, query_imports) ==
  /\ Idle(t) /\ m \in held
  /\ \/ /\ CodeOf(m, n) # Null
        /\ \E f \in Func : /\ funcs[f] = Null
                           /\ funcs' = [funcs EXCEPT ![f] = Closure(m, n)]
                           /\ held' = held \union {f}
        /\ UNCHANGED call
     \/ /\ CodeOf(m, n) = Null /\ query_imports
        /\ call' = [call EXCEPT ![t] = [running |-> Null, mod |-> m, name |-> n,
                                        stack |-> <<NewFrame(m)>>]]
        /\ UNCHANGED <<funcs, held>>
  /\ UNCHANGED <<mods, globals, ctx, slots, lock, lib_map, lib_lock, load>>

\* A call of TVMFFIEnvModLookupFromImports in the body of f, up to the walk;
\* the library gets its module from its context pointer.
LookupFrom(t, f, n) ==
  LET m == ctx[funcs[f].code]
  IN \/ /\ mods[m].cache[n] # Null
        /\ slots' = slots \union {[ctx |-> m, func |-> mods[m].cache[n]]}
        /\ UNCHANGED <<lock, call>>
     \/ /\ mods[m].cache[n] = Null
        /\ lock' = t
        /\ call' = [call EXCEPT ![t] = [running |-> f, mod |-> m, name |-> n,
                                        stack |-> <<NewFrame(m)>>]]
        /\ UNCHANGED slots

\* The functions whose code has a context pointer of the module they hold: a
\* function found under the prefix of another library has not.
OwnCode(f) ==
  funcs[f] # Null /\ funcs[f].self # Null /\ funcs[f].code \in Lib
  /\ mods[funcs[f].self].code = funcs[f].code

\* Fault: the lock is taken to change the cache only.
LookupUnlocked(t, f, n) ==
  /\ Idle(t) /\ f \in held /\ OwnCode(f)
  /\ LookupFrom(t, f, n)
  /\ UNCHANGED <<mods, funcs, globals, held, ctx, lib_map, lib_lock, load>>

Lookup(t, f, n) ==
  /\ Idle(t) /\ f \in held /\ OwnCode(f)
  /\ lock = Null
  /\ LookupFrom(t, f, n)
  /\ UNCHANGED <<mods, funcs, globals, held, ctx, lib_map, lib_lock, load>>

Top(t) == call[t].stack[Len(call[t].stack)]
Walking(t) == call[t] # Null
AtImport(t) == Walking(t) /\ Top(t).next <= Len(mods[Top(t).mod].imports)
Import(t) == mods[Top(t).mod].imports[Top(t).next]

\* The loop that was at m goes on with the next import afterwards.
Deeper(stack, m) == Append([stack EXCEPT ![Len(stack)].next = @ + 1], NewFrame(m))

\* The import at hand does not define the name: its own imports are next.
Descend(t) ==
  /\ AtImport(t) /\ CodeOf(Import(t), call[t].name) = Null
  /\ call' = [call EXCEPT ![t].stack = Deeper(@, Import(t))]
  /\ UNCHANGED <<mods, funcs, globals, held, ctx, slots, lock, lib_map, lib_lock, load>>

\* None of the imports of a module did.
Ascend(t) ==
  /\ Walking(t) /\ ~AtImport(t) /\ Len(call[t].stack) > 1
  /\ call' = [call EXCEPT ![t].stack = SubSeq(@, 1, Len(@) - 1)]
  /\ UNCHANGED <<mods, funcs, globals, held, ctx, slots, lock, lib_map, lib_lock, load>>

Ends(t) == call' = [call EXCEPT ![t] = Null]

\* The end of GetFunctionFromImports: f, of the functions fs, goes to the cache
\* and to the code that asked.
HandOut(t, f, fs) ==
  LET c == call[t]
  IN /\ Ends(t) /\ lock' = Null /\ UNCHANGED held
     /\ Settle([mods EXCEPT ![c.mod].cache[c.name] = f], fs,
               slots \union {[ctx |-> c.mod, func |-> f]})

Found(t) ==
  /\ AtImport(t) /\ CodeOf(Import(t), call[t].name) # Null
  /\ UNCHANGED <<globals, ctx, lib_map, lib_lock, load>>
  /\ \E f \in Func :
       LET fs == [funcs EXCEPT ![f] = Closure(Import(t), call[t].name)]
       IN /\ funcs[f] = Null
          /\ \/ call[t].running # Null /\ HandOut(t, f, fs)
             \/ /\ call[t].running = Null
                /\ Ends(t) /\ held' = held \union {f} /\ UNCHANGED lock
                /\ Settle(mods, fs, slots)

\* Fault: the lock is not released when the lookup throws.
NotFoundKeepsLock(t) ==
  /\ Walking(t) /\ ~AtImport(t) /\ Len(call[t].stack) = 1
  /\ UNCHANGED <<globals, ctx, lib_map, lib_lock, load>>
  /\ \/ call[t].running # Null /\ globals[call[t].name] # Null
          /\ HandOut(t, globals[call[t].name], funcs)
     \/ /\ call[t].running = Null \/ globals[call[t].name] = Null
        /\ Ends(t) /\ UNCHANGED <<held, lock>>
        /\ Settle(mods, funcs, slots)

\* A lookup tries the global functions at last, and throws; the front end gets
\* no function.
NotFound(t) ==
  /\ Walking(t) /\ ~AtImport(t) /\ Len(call[t].stack) = 1
  /\ UNCHANGED <<globals, ctx, lib_map, lib_lock, load>>
  /\ \/ call[t].running # Null /\ globals[call[t].name] # Null
          /\ HandOut(t, globals[call[t].name], funcs)
     \/ /\ call[t].running = Null \/ globals[call[t].name] = Null
        /\ Ends(t) /\ lock' = (IF lock = t THEN Null ELSE lock) /\ UNCHANGED held
        /\ Settle(mods, funcs, slots)

-----------------------------------------------------------------------------
(* Imports.  No module changes while a thread iterates over its imports: the *)
(* array has no lock.                                                        *)

Iterating(m) ==
  \E t \in Thread : Walking(t) /\ \E i \in DOMAIN call[t].stack : call[t].stack[i].mod = m

ImportsOf == [m \in Mod |-> IF mods[m] = Null THEN {} ELSE Elements(mods[m].imports)]

\* What the search of ImportModule has visited when it ends.
Visited(other) ==
  {m \in Mod : \A V \in SUBSET Mod :
     other \in V /\ (\A x \in V : ImportsOf[x] \subseteq V) => m \in V}

\* Fault: only the imports of the module to be imported are looked at.
ImportModuleShallow(m, other) ==
  /\ {m, other} \subseteq held /\ ~Iterating(m) /\ Len(mods[m].imports) < MaxImports
  /\ m # other /\ m \notin ImportsOf[other]
  /\ mods' = [mods EXCEPT ![m].imports = Append(@, other)]
  /\ UNCHANGED <<funcs, globals, held, ctx, slots, lock, lib_map, lib_lock, call, load>>

\* Refused with an error when it would close a cycle.
ImportModule(m, other) ==
  /\ {m, other} \subseteq held /\ ~Iterating(m) /\ Len(mods[m].imports) < MaxImports
  /\ m \notin Visited(other)
  /\ mods' = [mods EXCEPT ![m].imports = Append(@, other)]
  /\ UNCHANGED <<funcs, globals, held, ctx, slots, lock, lib_map, lib_lock, call, load>>

\* imports().
HoldImport(m, other) ==
  /\ m \in held /\ other \in ImportsOf[m]
  /\ held' = held \union {other}
  /\ UNCHANGED <<mods, funcs, globals, ctx, slots, lock, lib_map, lib_lock, call, load>>

\* The cache stays as it is.
ClearImports(m) ==
  /\ m \in held /\ ~Iterating(m)
  /\ UNCHANGED <<globals, held, ctx, lock, lib_map, lib_lock, call, load>>
  /\ Settle([mods EXCEPT ![m].imports = <<>>], funcs, slots)

-----------------------------------------------------------------------------
(* Loading a library.                                                       *)

\* Fault: the registry of system libraries has no lock.
SystemLibUnlocked(t, lib) ==
  /\ Idle(t)
  /\ \/ lib_map[lib] # Null /\ held' = held \union {lib_map[lib]} /\ UNCHANGED <<lib_lock, load>>
     \/ /\ lib_map[lib] = Null
        /\ load' = [load EXCEPT ![t] = [lib |-> lib, loaded |-> <<>>]]
        /\ UNCHANGED <<held, lib_lock>>
  /\ UNCHANGED <<mods, funcs, globals, ctx, slots, lock, lib_map, call>>

\* GetOrCreateModule.
GetOrCreateModule(t, lib) ==
  /\ Idle(t) /\ lib_lock = Null
  /\ \/ lib_map[lib] # Null /\ held' = held \union {lib_map[lib]} /\ UNCHANGED <<lib_lock, load>>
     \/ /\ lib_map[lib] = Null
        /\ load' = [load EXCEPT ![t] = [lib |-> lib, loaded |-> <<>>]]
        /\ lib_lock' = t
        /\ UNCHANGED held
  /\ UNCHANGED <<mods, funcs, globals, ctx, slots, lock, lib_map, call>>

\* "ffi.Module.load_from_file.so".  A file is loaded again only when its module
\* is gone: the two would share one context pointer.
LoadFromFile(t, lib) ==
  /\ Idle(t)
  /\ \A m \in Mod : mods[m] # Null => mods[m].code # lib
  /\ \A u \in Thread : load[u] # Null => load[u].lib # lib
  /\ load' = [load EXCEPT ![t] = [lib |-> lib, loaded |-> <<>>]]
  /\ UNCHANGED <<mods, funcs, globals, held, ctx, slots, lock, lib_map, lib_lock, call>>

NextEntry(t) == Entries(load[t].lib)[Len(load[t].loaded) + 1]
AtEntry(t) == load[t] # Null /\ Len(load[t].loaded) < Len(Entries(load[t].lib))

LoadEntry(t) ==
  /\ AtEntry(t)
  /\ \E m \in Mod :
       /\ mods[m] = Null
       /\ mods' = [mods EXCEPT ![m] =
            [code |-> IF NextEntry(t) = LibEntry THEN load[t].lib ELSE NextEntry(t),
             imports |-> <<>>, cache |-> [n \in Name |-> Null]]]
       /\ ctx' = IF NextEntry(t) = LibEntry THEN [ctx EXCEPT ![load[t].lib] = m] ELSE ctx
       /\ load' = [load EXCEPT ![t].loaded = Append(@, m)]
  /\ UNCHANGED <<funcs, globals, held, slots, lock, lib_map, lib_lock, call>>

Unlocks(t) ==
  /\ load' = [load EXCEPT ![t] = Null]
  /\ lib_lock' = IF lib_lock = t THEN Null ELSE lib_lock

\* There is no loader for the kind, or it throws.
LoadFails(t) ==
  /\ AtEntry(t) /\ NextEntry(t) \in Kind
  /\ Unlocks(t)
  /\ UNCHANGED <<globals, held, ctx, lock, lib_map, call>>
  /\ Settle(mods, funcs, slots)

\* The modules get their imports; the first of them is the result.
Linked(t) ==
  LET loaded == load[t].loaded
      children(i) == Children(load[t].lib, i)
      imports(i) == [j \in DOMAIN children(i) |-> loaded[children(i)[j]]]
  IN [m \in Mod |-> IF m \in Elements(loaded)
                    THEN [mods[m] EXCEPT !.imports = imports(CHOOSE i \in DOMAIN loaded : loaded[i] = m)]
                    ELSE mods[m]]

Link(t) ==
  /\ load[t] # Null /\ ~AtEntry(t)
  /\ LET root == load[t].loaded[1]
     IN /\ held' = held \union {root}
        /\ lib_map' = IF load[t].lib \in SystemLib THEN [lib_map EXCEPT ![load[t].lib] = root]
                      ELSE lib_map
  /\ Unlocks(t)
  /\ UNCHANGED <<globals, ctx, lock, call>>
  /\ Settle(Linked(t), funcs, slots)

-----------------------------------------------------------------------------
(* The global function table, and the handles of the front end.             *)

CanUpdate(n, can_override) == globals[n] = Null \/ can_override

\* A new function of the front end, or one it has, gets the name n.
Register(n, can_override) ==
  /\ CanUpdate(n, can_override)
  /\ \E f \in Func : /\ funcs[f] = Null
                     /\ globals' = [globals EXCEPT ![n] = f]
                     /\ UNCHANGED <<held, ctx, lock, lib_map, lib_lock, call, load>>
                     /\ Settle(mods, [funcs EXCEPT ![f] = [self |-> Null, code |-> Null]], slots)

SetGlobal(n, f, can_override) ==
  /\ CanUpdate(n, can_override) /\ f \in held
  /\ globals' = [globals EXCEPT ![n] = f]
  /\ UNCHANGED <<held, ctx, lock, lib_map, lib_lock, call, load>>
  /\ Settle(mods, funcs, slots)

Remove(n) ==
  /\ globals[n] # Null
  /\ globals' = [globals EXCEPT ![n] = Null]
  /\ UNCHANGED <<held, ctx, lock, lib_map, lib_lock, call, load>>
  /\ Settle(mods, funcs, slots)

GetGlobal(n) ==
  /\ globals[n] # Null
  /\ held' = held \union {globals[n]}
  /\ UNCHANGED <<mods, funcs, globals, ctx, slots, lock, lib_map, lib_lock, call, load>>

Release(x) ==
  /\ x \in held
  /\ held' = held \ {x}
  /\ UNCHANGED <<globals, ctx, lock, lib_map, lib_lock, call, load>>
  /\ Settle(mods, funcs, slots)

-----------------------------------------------------------------------------

Init ==
  /\ mods = [m \in Mod |-> Null] /\ funcs = [f \in Func |-> Null]
  /\ globals = [n \in Name |-> Null] /\ held = {}
  /\ ctx = [lib \in Lib |-> Null] /\ slots = {}
  /\ lock = Null /\ lib_lock = Null /\ lib_map = [lib \in SystemLib |-> Null]
  /\ call = [t \in Thread |-> Null] /\ load = [t \in Thread |-> Null]

\* What a thread does in a call that has begun.
Step(t) ==
  Descend(t) \/ Ascend(t) \/ Found(t) \/ NotFound(t) \/ LoadEntry(t) \/ LoadFails(t) \/ Link(t)

Begin(t) ==
  \/ \E m \in Mod, n \in Name, q \in BOOLEAN : GetFunction(t, m, n, q)
  \/ \E f \in Func, n \in Name : Lookup(t, f, n)
  \/ \E lib \in SystemLib : GetOrCreateModule(t, lib)
  \/ \E lib \in Lib \ SystemLib : LoadFromFile(t, lib)

FrontEnd ==
  \/ \E m, other \in Mod : ImportModule(m, other) \/ HoldImport(m, other)
  \/ \E m \in Mod : ClearImports(m)
  \/ \E n \in Name, o \in BOOLEAN : Register(n, o) \/ \E f \in Func : SetGlobal(n, f, o)
  \/ \E n \in Name : Remove(n) \/ GetGlobal(n)
  \/ \E x \in Mod \union Func : Release(x)

Next ==
  /\ FrontEnd \/ \E t \in Thread : Begin(t) \/ Step(t)
  /\ Cardinality(held') <= MaxHeld

Spec == Init /\ [][Next]_vars

-----------------------------------------------------------------------------
(* Properties. *)

\* A function that the code of a library was given exists as long as the
\* library's module does, although the code has no reference to it and
\* although the imports and the global functions it was found in may change:
\* "The returned function is a weak reference that is cached/owned by the
\* module" (c_env_api.h, GetFunctionFromImports).
HandedOutPointersLive ==
  \A s \in slots : mods[s.ctx] # Null => funcs[s.func] # Null

\* The context pointer of a library is the module that its functions keep
\* alive, in the face of loads that fail half-way and of concurrent calls for
\* the same system library (library_ctx_addr in CreateLibraryModule and
\* ProcessLibraryBin, the mutex of GetOrCreateModule).
ContextIsTheModule ==
  \A f \in Func : OwnCode(f) => ctx[funcs[f].code] = funcs[f].self

\* No module imports itself, directly or not, or its recursive lookups would
\* not end and it would never be released (the search in ImportModule).
ImportsAcyclic == \A S \in SUBSET Mod : ~Cyclic(S, ImportsOf)

\* A mutex is held by a thread that is in the work it protects, so that it is
\* given back whatever the lookup or load comes to, and no thread does that
\* work without it (the scoped locks of GetFunctionFromImports and
\* GetOrCreateModule).
LocksAtWork ==
  \A t \in Thread :
    /\ lock = t <=> Walking(t) /\ call[t].running # Null
    /\ lib_lock = t <=> load[t] # Null /\ load[t].lib \in SystemLib
=============================================================================
