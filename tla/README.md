# Verification of litetvm-ffi

TLA+ models of litetvm-ffi, the runtime that lets C++, C and other languages
share reference-counted objects, containers and functions: what its objects,
types and containers do, checked with TLC on small instances and, where the
prover reaches, proved for every value of the constants with TLAPS. Paths such
as `include/ffi/object.h` are those of the repository.

## 1. The system

| component | state | operations | interacts with |
|---|---|---|---|
| Object reference counting (`include/ffi/object.h`, `memory.h`) | one 64-bit word per object, strong count in the low half and weak count in the high one; a deleter | make_object, IncRef, DecRef, weak counterparts, TryPromoteWeakPtr, use_count/unique | everything: each reference, the copy-on-write of containers, the C API |
| Type table (`src/ffi/object.cpp`) | type key to index, entries with ancestors and reserved child slots, field and method descriptors, attribute columns | GetOrAllocTypeIndex, RegisterType*, lookups; IsObjectInstance in `object.h` reads it | every checked cast; reflection; structural equality, hash, serialization |
| Map (`include/ffi/container/map.h`) | SmallMapObj: at most 4 pairs in order; DenseMapObj: hash table of slots with collision chains as probe-distance bytes, and a doubly linked list in insertion order | Set, erase, Get/count, clear, copy, move, iteration, construction from a range | AnyHash/AnyEqual; the tables of the runtime are maps |
| Array (`include/ffi/container/array.h`) | a block of values with size and capacity, shared until written; the locals of a Map that is waiting for its callback | push/pop, insert, erase, resize, reserve, Set, Assign, Map, MutateByApply, casts | reference counting (unique), Any; the callback of Map may call anything |
| Structural equality and hash (`src/ffi/extra/structural_*.cpp`) | mappings lhs to rhs and back, hash memo, counters of free variables and graph nodes, pending flags | Equal, GetFirstMismatch, Hash | type table, Map, Array |
| Serialization (`src/ffi/extra/serialization.cpp`) | value to node index; node index to value | ToJSONGraph, FromJSONGraph | type table, Map, Array, JSON |
| FFI call boundary (`include/ffi/function.h`, `src/ffi/error.cpp`) | last error of a thread; result slot of a call; function cells | safe_call, CallPacked, set and move the raised error | Any, RValueRef, global function table |
| Any, AnyView, RValueRef, TypeTraits (`any.h`, `rvalue_ref.h`, `type_traits.h`, the containers) | a tagged value, owning or borrowed | copy, move, strict check, conversion, reference to a value that may be moved from | reference counting, calls, type table |
| Reflection (`include/ffi/reflection/*.h`) | vectors of fields and methods per type and the pointers published to them, attribute columns, metadata | ObjectDef, TypeAttrDef, lookup by name, getters and setters, creation from a map of fields | type table, TypeTraits, Map |
| Global function table (`src/ffi/function.cpp`) | name to function | register, override, remove, get, list | Map, modules |
| Modules (`src/ffi/extra/module*.cpp`, `library_*`) | imports and import lookup cache of a module, context pointer of a library, registry of system libraries, two mutexes | GetFunction, ImportModule, ClearImports, lookup from imports, loading a library with embedded modules, system library | call boundary, global functions |
| Environment (`src/ffi/extra/env_*.cpp`) | streams per thread, tensor allocator of thread and process, Python hooks | set and get, CheckSignals | Tensor |
| Tensor and DLPack (`container/tensor.h`, `src/ffi/tensor.cpp`) | a tensor and the managed tensor it came from or was exported as | FromDLPack, ToDLPack, deleters | reference counting, environment |
| JSON (`src/ffi/extra/json_*.cpp`), data types (`src/ffi/dtype.cpp`), base64 | a position in a text, a stack of values | Parse, Stringify, conversions to text and back | serialization, TypeTraits |
| Strings, shapes, optional/variant/tuple, stack traces | values | pure functions | all |

What is hard: lock-free counting by any number of threads, weak promotion
racing the last release, and the memory orders that make it sound; a hash table
that relocates entries and threads two lists through one array; index ranges
reserved ahead that every instance check relies on; comparisons whose verdict
depends on what earlier fields recorded; graphs saved in one process and loaded
in another with other classes; errors that wait in a slot of the thread across
a language boundary; library code that keeps bare pointers to functions it looked up; lookups under a
lock that call arbitrary code; pointers published to vectors that grow. There is no
persistence in this code and no network: crashes and lost messages do not occur.

What makes each component correct: a count equals the handles that exist and
destruction happens once, last and always; an instance check equals the class
hierarchy; a map is a finite function with an order of iteration, in both
layouts; an array is a sequence of its own whatever it shares; equal values have equal hashes and equality is an equivalence; what is
loaded is what was saved; an error reaches exactly the caller of the call that
raised it; a function that was handed out lives as long as the module that
asked; imports stay acyclic; a conversion yields what its type accepts as
stored; a reader of the reflection finds what was registered.

## 2. Modules

Component modules have one action per operation (or per atomic access where
threads interleave), `MC*` modules hold the instances, `*Proofs` the theorems.
Operators commented `Fault:` are plausible bugs that each property was tried
against; they are part of no specification.

* `RefCountWord`: the combined word and its four additions; both halves are
  numbers below `CountLimit` (2^32 in the code), and a carry or borrow crosses
  from the strong to the weak half as in the machine word.
* `ObjectRefCount`: one object and the handles (ObjectPtr and WeakObjectPtr
  variables) that may refer to it. A handle's state says what it is or which
  operation it is in the middle of. The fetch_sub of DecRef, the two deleter
  calls, the second fetch_sub, the load and each compare-exchange of
  TryPromoteWeakPtr are actions of their own, so every interleaving of the
  atomic accesses of any number of threads occurs. The memory of an object may
  be allocated again.
* `ObjectLifetime`: the abstract specification, sets of handles and no counter;
  `ObjectRefCount` implements it with `strong` and `weak` the sets of handles
  in those states.
* `RefCountMemoryOrder`: the memory orders on top of `ObjectRefCount`. `known[h]`
  is whose latest access happens before what h does next, `sync` what an
  acquire of the counter learns; release, acquire and relaxed operations update
  them as the C++ memory model prescribes for one location that only
  read-modify-writes modify.
* `TypeTable`: index allocation, in any order that registers parents first, for
  every declaration of classes the macros accept; IsObjectInstance as the
  compiled check computes it. The index of a key (`key2index`), the index a class
  was answered (`index`) and the slots of the table (`table`) are three things: a
  class whose key is known gets that key's index, and nothing else it declares is
  looked at (`KnownKey`), as when two libraries define one class or two classes
  were given one key; and an entry is written to its slot whatever is there
  (`Put`). A failed check ends the process, as
  TVM_FFI_LOG_EXCEPTION_CALL_END does (`include/ffi/macros.h:179`).
* `DenseMap`: the slots of a DenseMapObj, TryInsert with TrySpareListHead,
  Erase, the rehash and the iteration list, as pure operators on a table. A walk
  along a chain (`ChainWalk`) or along the list (`IterWalk`) is a function of the
  number of steps, and `Visited` cuts it where it ends. A loop is a function of
  the number of turns: `SpareTurn` is one turn of the loop of TrySpareListHead and
  `Spare` the table after n of them; `InsertTurn` takes the first of the pairs to
  be inserted, or rehashes and puts the items of the table in line before it,
  which is what the recursion of InsertMaybeReHash does, and `Inserting` is the
  table after n such turns. `MapContainer`: one handle of a map with
  copy-on-write (whether another handle shares the object is left open), the
  small layout, the switch of layout. `OrderedMap`: the abstract specification, a
  sequence of pairs; a key that is set again may stay or move to the end because
  the layouts differ (section 6).
* `StructuralEqual`, `StructuralHash`: the two recursive walks over a heap of
  objects. What a handler does with a value is a function from the handler's
  state to a result, and the walk is a recursive function of the object, which is
  well founded because an object is created after those it refers to
  (`IsHeap`). Bytes come as a small value and as an object (`HeapBytes`), which
  are equal (`Content`) and hash differently (`DataHash`); the data of a tensor
  may be unreadable, on a device or strided (`Readable`). `StructuralEqHash` asks all questions of a pair of values in one
  step.
* `Serialization`: ToJSONGraph and FromJSONGraph on a heap of objects, with
  steps in between that reorder the nodes, write the graph as a text and rewrite
  the text in ASCII, and a loader that has classes of its own. `PlainData`: data
  types, devices, shapes and bytes as JSON and back. `JSONText`: Stringify and
  Parse on bytes (numbers, escapes, surrogates, nesting, white space,
  indentation); `SignedChar` is the platform's plain char. `Ascii`: bytes and
  numerals.
* `ArrayContainer`: handles that refer to blocks of slots, one action per member
  function of Array. A slot holds an element or nothing, so an assignment to a
  raw slot or a construction over an element shows as `Junk`. Map and
  MutateByApply are a loop with one action per return of the callback, and any
  other action may happen while the callback runs. The count of a block is the
  set of roots that refer to it, which `ObjectRefCount` justifies. `ValueSequences`:
  the abstract specification, a sequence per handle and no block; a Map works on
  a snapshot.
* `ModuleLookup`: modules, functions, the global function table, the handles of
  the front end, and threads that look functions up. `mods[m].cache` is
  import_lookup_cache_, `ctx` the context pointer of a library, `slots` the bare
  pointers its code keeps, `lock` the mutex of GetFunctionFromImports and
  `lib_lock` that of the system library registry. A lookup walks the imports one
  module at a time (`Descend`, `Ascend`, `Found`, `NotFound`); a library loads
  its embedded modules one at a time and links them at the end. `Settle` ends
  every step that drops a reference: what nothing refers to goes, and then what
  only it referred to; circles stay.
* `TypeTraits`: for every C++ type the repository converts, what it accepts as
  stored (CheckAnyStrict) and what it converts (TryCastFromAnyView), with the
  conversions that optional, variant, tuple, array and map run on their parts.
  It asks `TypeTable` whether an object is an instance. `Outcome`: a value,
  std::nullopt or an exception, as conversions and look-ups answer.
* `ReflectionRegistry`, above `TypeTable`: registration of fields, methods,
  metadata and attribute columns, between the registrations of classes
  (`ReflectionNext`); vectors move to another block when they grow, and a reader
  has the pointer that was published last; look-up by name and by index.
  `ObjectCreator`, above that: objects created from a map of their fields. What
  the registered setters store is its variable `setter`, which no step changes,
  because the creator relies on nothing about it. `Reflection`, above both
  `ObjectCreator` and `TypeTraits`: getters, and the setters as `TypeTraits`
  converts, which is what `MCTypeTable` starts `setter` with.
* `CallBoundary`: one thread's stack of activations in C++ and in C. `Call` to
  `DropResult` are calls and their results, `Throw` to `SafeCallEnd` the C++
  side, `SetRaisedFromCStr` to `CheckSafeCall` the C side with the error slot of
  the thread (`raised` is last_error_). Which translation happens when an
  activation ends depends on its language and its caller's, as the four ways
  through `function.h` do. `ErrorPropagation`: the abstract specification, a
  pending error and no codes, no slot and no languages.

## 3. Runs

| run | shows | instance |
|---|---|---|
| `refcount` | exact counts, no dangling handle, no revival of a dead object, refinement of `ObjectLifetime` with its liveness, lock() gives up | 5 handles, `CountLimit` 6 |
| `memory_order` | all accesses happen before destruction and release | 4 handles, symmetric |
| `unique_relaxed` | violation: a relaxed count of one does not order the accesses of others | 3 handles |
| `type_table` | instance check exact, parents smaller, entries final; readers find what was registered, conversions settle, objects are created from what was given | every hierarchy of 4 classes below Object, 0 to 2 slots, static index or none, the last class never sealed, each class with a key of its own or one of the last two with that of an earlier class; two of them reflected |
| `map` | lookup agrees with iteration, chains and list partition the table, refinement of `OrderedMap` | 5 keys, 8 and 16 slots |
| `map_order` | violation: insertion order is not kept when a key is set again | the same |
| `array` | slots constructed exactly up to the size, refinement of `ValueSequences` | 2 handles, 3 blocks, up to 2 elements in an array, lengths -1, 0, 2, ranges of 0 and 2, 2 element types |
| `structural` | equality symmetric, in agreement with hash and with the first mismatch | 2 leaves, 2 containers, 2 values compared; bytes in both forms, tensors that can be read or not |
| `structural_symmetric` | violation: a variable as map key bound on one side only | the same |
| `serialization` | the loaded graph is isomorphic to the saved one; failures only for classes and the plain values named in section 6; texts read back; nodes in order | heaps of 3 objects, 45 plain values, 7 loaders, indent 0 and 2 |
| `call_boundary` | references conserved, no failure without an error, refinement of `ErrorPropagation` | 4 nested calls, 3 errors, 2 results |
| `modules` | handed-out functions live, context pointers right, imports acyclic, locks given back | 2 threads, 3 modules, 3 functions, 1 name, a system library that embeds a module and a library from a file |

Why the bounds are enough:

* Five handles are what DecRef racing DecWeakRef racing a promotion while a copy
  is made need; what depends on their number is proved for any (section 4).
  `CountLimit` exceeds the handles, because the code does not check for
  overflow: 2^32 handles to one object is assumed never to happen (assumption
  `HandleAssumption`). Symmetry is used with invariants
  and, in `array`, with a refinement that is symmetric itself and has no
  liveness part.
* Four classes below Object give chains, siblings, a full parent below a full
  parent, a reserved range inside a reserved range, and a key shared along a
  chain, by siblings and across branches. The reflected
  hierarchy is a chain of three with a fork, once with one key on both sides of
  the fork: fields are collected over two
  parents, the attribute column has holes, and vectors grow past one and two
  items while other classes register. Its fields and methods have a type of
  every kind that `TypeTraits` knows, and the values given to them one of every
  type index, nested where the type nests.
* Hashes and probe distances of `MCMapContainer` are chosen so that each of the
  three ways TryInsert runs out of probes occurs: behind a tail, before the
  first node of a foreign chain is moved, and after some have been. The switch
  on a load of 99% would need more keys than slots leave and is not reached at
  this size; it takes the same path (rehash) as those failures. The real probe
  table (`kNextProbeLocation`, 126 distances) is the constant `Probe`. A table
  stops growing at `MaxSlots`, and `MaxTurns` bounds the turns of one insertion
  (a rehash takes one for each item); what exceeds them becomes a table of twice
  `MaxSlots`, which no action accepts. 30 turns are more than an insertion into
  16 slots takes. Section 4 proves all six properties for any of these values.
* The heaps of `MCStructuralEqHash` have each kind of node as leaf or container,
  shared and copied, bound or free, with and without tensor contents; an object
  that cannot be compared and a tensor that cannot be read are among the leaves,
  bytes of either form are fields and map keys, and the values compared are
  functions, arrays, or maps of two entries filled in either order. Free
  variables are mapped from the start only where there is one.
* In `MCSerialization` the inline number of an object equals the number of an
  object and the index of a node, null is a value at every place, and the
  loaders lack a class, cannot construct one, drop, reorder, add with default
  and require a field. The plain values cover each code of a data type with
  lanes 1, several and scalable, each padding of base64, and each branch of the
  writer of floats; every text is also cut short at each length.
* Two handles and the map's own reference are the sharings that matter: alone,
  shared with a handle, shared with a map. Three blocks are one each and one to
  move to. Arrays of three lose an element in the middle. Section 4 proves both
  properties for any of these numbers.
* Three modules close a cycle of imports in more than one way and let a module
  be embedded in one that is imported; a third function is needed when one is
  held, one cached and one global. The bounds `MaxImports` and `MaxHeld` limit
  what the front end does, not what is reachable below it. An instance with a
  second system library and a third library (546,732 states) was explored
  without a violation; section 4 proves all four properties for any instance.
* Four activations give each sequence of two boundaries between C++ and C with a
  caller above them that goes on; three errors are one kept, one in the slot and
  one raised while the others exist. All three properties are proved for any
  depth and any objects.

Every property is listed with a fault in `PROJECT.json` that makes TLC report
it. `CHECK_DEADLOCK FALSE` is set where the system really ends: all classes
registered or the process gone (`type_table`), the questions answered
(`structural`, `structural_symmetric`), the value loaded (`serialization`).

**Fairness.** Only `refcount` assumes any: weak fairness of each step that a
thread inside DecRef, DecWeakRef or lock() still has to take. These steps block
on nothing, so a thread that is scheduled takes them. Nothing makes a program
copy or drop a handle, and no exchange is assumed to succeed: `LockGivesUp`
holds only once no strong handle is left, and until then a lock may retry as
long as others change the word.

## 4. Proofs

`tlapm` checks eight modules. Constants are arbitrary under their assumptions.

* `ObjectRefCountProofs`, its first part. `IInv` is inductive. `CountMatchesHandles` alone is
  not: a step of the deleter is fine only because nobody else can be in it
  (`SingleReleaser`), which holds because the stage of a handle and the memory
  determine each other (`StageMatchesMemory`), a handle about to free is the
  last (`LastReference`), and a promotion in progress keeps its weak handle and
  has seen a live counter (`LockPinsWeak`). From it: type correctness, exact
  counts, no use after free, one deleter at a time, no revival (an action
  property), and that each step is a step of `ObjectLifetime` or a stutter. The
  counting rests on lemmas on cardinalities of sets with one element more or
  less.
* `ObjectRefCountProofs`, its second part, on `RefCountMemoryOrder`. Every latest access is either released to the
  counter or known to a strong handle that has still to release it (`Covered`);
  with `IInv`, so that the last fetch_sub finds no other strong handle, this
  gives `ReleaseHappensLast`. Together they are `MOInv`.
* `TypeTableProofs`. `TInv` is inductive: the reserved ranges of two types are
  disjoint or nested along the hierarchy (`SlotsLaminar`), although
  AllocReserved takes a slot without looking at what the table holds there.
  Each entry was made for some class (`EntriesConsistent`), and keys, classes and
  slots name the same indices (`IndicesConsistent`). From it: the parent's index
  is smaller, and a key keeps its index and the slot there its entry
  (`EntriesStay`), since a range that is handed out lies in the free part of one
  that is reserved and so meets no entry. The instance check is exact
  for every hierarchy: the ancestors in an entry are, place by place, the declared
  lineage of each class with that key (`Aligned`, `LineageUp`, `LineageDown`).
  This concerns the classes in whose lineage no key stands for different
  declarations (`Sound`, `Alike`); of others the check is
  compiled from a declaration the table never saw. `RegistryInv` adds the reflection of any
  classes with any fields, methods and attributes: `VectorsPublished` says that a
  class publishes where its vectors are now and all they hold, which is the
  beginning of what it registers; `ColumnsConsistent` that a cell of a column
  holds what the type with its index defined and nothing else;
  `MetadataConsistent` that only the class whose metadata a type has registers
  there. It holds when
  classes register in between because entries stay, and when an attribute
  is set because two keys never share an index, which is
  `IndicesConsistent`. From it: readers find what was registered
  (`ReflectionReadsBack`). Assumed are that a C string compares equal to itself
  and that no column is the value `Unset` (`RegistryAssumption`).

  Creation from fields (`CreatesWhatWasGiven`) holds for whatever the setters do.
  `AncestorsChained`, a part of `TInv`, says that the table of ancestors of a
  class is its parent's with the parent added; so what the creator visits are the
  fields of the classes of the `Lineage`, each once (`EachField`). Then a field is
  assigned exactly once (`FilledFacts`), and the matches that the creator counts
  are as many as the given names only if each of these is the name of a field,
  because a field finds its name and no two have the same (`MatchedFacts`).

* `CallBoundaryProofs`. `IInv` adds to the types that a failure on its way is in
  the form its receiver understands (`FailureHasError`): the slot is written
  only by bodies that run, and none runs while a code or exception is on its
  way, so a code of -1 still has its error when the caller takes it. From it:
  the refinement of `ErrorPropagation`. Exact counts need one more idea: all
  that refers to objects is one function `held` on places, each action a few
  assignments to places, and an assignment changes the count by what it writes
  and overwrites (`PutCounts`, `AssignmentsCount`).

* `ArrayContainerProofs`. A block is `Sound` when exactly its first `size_` slots
  hold an element, and the lemmas on blocks say what InitRange, MoveElements*,
  EnlargeBy, ShrinkBy, CopyFrom and MoveFrom make of a sound block, in between
  possibly of an unsound one (an insertion moves elements over the defaults it
  constructed first). `Store` and `SwitchTo` change what one handle sees and
  nothing else, because a block that is written to is either new or referred to
  once. For a map in progress the invariant says what each of the three loops
  has done: nothing yet, the block taken over with one element out, or an output
  of its own. From it: every slot is constructed before it is used and destroyed
  once, and the refinement of `ValueSequences`, maps included.
* `ModuleLookupProofs`. `IInv` is the types and what they do not say:
  nothing refers to an object that is gone, and what is being loaded nobody but
  its load refers to (`References`); a walk starts at the module of the function
  that asked, whose cache lacks the name (`Walks`); what a library keeps is in the
  cache of its module (`Slots`); context pointers, locks, loads and the system libraries agree (`Contexts`, `Locks`, `Loads`, `Registry`);
  imports are acyclic (`Acyclic`). The parts are predicates of the objects, so
  that each action is shown to keep them before anything is released, and that a
  release keeps them is shown once (`KeptFacts`, `ReleasePreserves`).
  `EdgeClosesNoCycle` is why the search of ImportModule is enough,
  `LinkedAcyclic` why a load needs none.

* `DenseMapProofs` and `MapContainerProofs`, for every set of keys, every hash
  function, every table of probe distances and every `MaxSlots` and `MaxTurns`
  (`DenseMapAssumption`, `MapAssumption`): nothing is assumed of how keys collide.
  Five steps lead to the theorems.
  1. *The list.* `Listed(d, m, s)`: the links of table d run along the sequence s
     of slots. Unlinking cuts s, pushing back extends it, moving a node replaces
     one slot in it (`UnlinkFacts`, `PushBackFacts`, `MoveNodeFacts`), and
     iterating visits it (`ItemsFacts`).
  2. *The chains.* `Linked` gives each occupied slot a rank, the number of slots
     from the head of its chain on, which no field of the code has: that ranks
     rise along a chain is why a walk ends, and that no rank occurs twice why no
     slot is on two chains. A removed or moved slot changes it as
     `UnlinkLast` and `Relink` say. In the middle of TrySpareListHead a chain is
     in two pieces; the slot `loose` is where the second begins.
  3. *The table.* `Sound` joins both with the tags and the size. None of the
     properties of the run is inductive by itself: an erasure keeps the chains
     only if FindPrev finds its slot, keeps the list only if each slot is on it
     once, and a search is right only if the chains are. Together they say what
     `Sound` says, by the walks a reader makes; `Sound` says it by ranks and a
     sequence, which an operation changes in one place. `Half` is a table in which TryInsert
     has made room for a key; `Spares` holds between two turns of TrySpareListHead.
     `TryInsertFacts` says that TryInsert gives a `Half` table or, when it gives up,
     maybe halfway, one whose *list* is still whole: that is all the rehash reads.
     `DenseEraseFacts` covers both ways to erase.
  4. *Insertion with rehashes.* The items of the table followed by the pairs to be
     inserted are one list. A turn of the loop leaves it alone or drops from it a
     pair that a later one with the same key replaces (`Turned`, `Closed`), so
     after any number of rehashes the outcome is one of a known set
     (`DenseInsertFacts`, `DenseInsertAllFacts`).
  5. *The map.* `MInv` is that the object holds some list of pairs without a key
     twice, in any of the three layouts. `StepMap` says how the list changes with
     each action, also where the layout changes or a copy is made, and
     `StepRefines` that this is what `OrderedMap` allows. From it: type
     correctness, lookup in agreement with iteration, the chains, the list, no
     protected slot, and the refinement.

  An insertion that meets `MaxTurns` or `MaxSlots` is no step of the model, so
  the theorems say nothing of one that rehashes for ever: that insertion ends is
  not proved. With probe distances that reach no empty slot it would not end in
  the code either, until memory does.

* `StructuralEqualProofs`, for every heap of any size and every table of types.
  The walk is a recursive function of the object's number, so the proof first
  shows that it exists, by the least number at which partial walks would
  disagree (`Walk`), and then compares the traced and the silent walk in lock
  step, again up to the least object at which they differ: from the same state
  they give the same outcome and leave the same state behind, unless the traced
  one throws, which takes an object that cannot be compared or a tensor that
  cannot be read (`MismatchAgreesWithEqual`, `SomeRefused`). The early returns are harmless because
  a walk without them still ends with "different" at that place or before.

  Its second part is that the two values may change places (`EqualIsSymmetric`).
  Equality becomes a relation on mappings: `Eq` says that with m recorded two
  values are equal and n is recorded then, and `EqStep` that two objects are
  equal at once or pair by pair of their parts, in order. What is recorded is
  about objects no younger than the two compared (`Frame`), so the pair of an
  object itself is always new when it is added and the two maps stay inverse to
  each other. For everything but maps the mirrored walk then takes the same pairs
  in the same order. A map is walked in the order of the left one, so its pairs
  have to be put in the order of the right one. What was equal is equal again
  later and records nothing (`Again`); what was recorded is justified by its
  parts (`Explains`); hence the pairs can be found equal in any other order with
  less recorded, and they record the same in the end (`Follow`, `Reorder`). That
  argument fails where a definition lies below the map, because an entry then may
  be equal only thanks to a variable another entry has bound: this is the exception
  `BindsInMap`, which the proof needs at that place (`Tame`) and nowhere else.
  Keys that are objects (`ObjectKeys`) are excepted for the reason in section 6.

Only model-checked:

* liveness (`ImplementsFairLifetime`, `LockGivesUp`), outside the prover's reach;
* `EqualImpliesSameHash` and `SameHashImpliesEqual`: two walks that keep
  different state, one of which sorts the entries of maps by hash values that
  are structured terms;
* `ConversionsSettle`: conversions are recursive over types and values at once;
* `LoadsWhatWasSaved`, `FailsOnlyForClasses`, `TextReadsBack`: graphs, numerals and
  nested texts of any length, induction over data.

## 5. Assumptions and what is left out

* Object: the variant for MSVC (interlocked intrinsics) is not modelled. One
  handle is operated on by one thread at a time, as C++ requires, except that
  several threads may lock() the same WeakObjectPtr. The comment on
  TryPromoteWeakPtr asks the caller for a strong reference; its only caller,
  lock(), has a weak one, which suffices, and that is what is modelled.
* Type table: its comment (`src/ffi/object.cpp:20`) leaves serialising to the
  callers. `WellDeclared` states what the macros assert, and that a class with a
  static index is a child of Object without slots: all built-in ones are, and
  the table itself would accept others and hand out overlapping ranges. Classes
  may share a key, but no other class has Object's, and those that share one
  declare the same static index: a type with a static index is built in, and the
  early return for a known key (`src/ffi/object.cpp:95`) comes before the static
  index is compared. Of a class whose key stands for another class elsewhere, or
  whose parent's does, `InstanceCheckExact` promises nothing.
* Reflection: a class registers its metadata, fields, methods and attributes in
  this order, as ObjectDef and TypeAttrDef are written. A reader looks the
  pointers up again after a registration: a `FieldGetter` or `MethodInfo` that
  was kept from before dangles once the vector has moved. Type schemas are
  texts and access paths immutable records; both are left out. ObjectDef of a
  second class with the same key is refused at its metadata and registers nothing
  more.
* Conversions: integers narrower than 64 bits are excepted from
  `ConversionsSettle` as what they accept is not what they return, views and
  raw pointers as they cannot be stored. Floats hold whole numbers. The messages
  of GetMismatchTypeInfo, AnyHash and AnyEqual are left out. A reference that was
  moved from is not converted again.
* Array: a null array is not asked to reserve a negative capacity: nothing checks
  it, and the size of the allocation would wrap around. A range to insert is not
  part of the array itself, as for std::vector; positions are iterators of the array. A block is not shared 2^32 times. A
  range that is not const is moved from (`array.h:202`), which the caller sees and
  the model does not.
* Modules: no module changes its imports while a thread iterates them, since the
  array has no lock (`Iterating`). A file is loaded again only after its module
  has gone: otherwise two modules would share one context pointer. The trees
  embedded in libraries are acyclic, since ProcessLibraryBin does not check
  (`library_moodule.cpp:112`); and a loader the front end registers for a kind of
  embedded module makes a new module without imports, since one that returned a
  module in use could close a cycle that nothing searches for. A module class of
  the front end that looked functions up from inside GetFunction would lock the mutex twice on one thread;
  those of the repository do not. Code of the default system library that is found
  through another prefix keeps that other module alive and not its own; it makes no
  lookups in the model (`OwnCode`). Symbols registered after a system library
  was created are ignored. Circles of cache, function and module are never
  released, here as in the code. Writing modules, documentation and metadata of
  functions, and the operating system's loader are left out.
* Map: iterators that outlive a change are excluded, as in the code. A handle
  that was moved from is null: count and size answer 0, while find, Get, at and
  begin dereference null (`map.h:1481`) and are not called on it. A key stands for
  its content and type, by which AnyEqual and AnyHash tell keys apart.
* Structural: the properties except what the code decides otherwise. Maps whose
  keys are objects (`ObjectKeys`, all three properties of pairs), for the reason
  of finding 3. Maps of several entries below which variables are defined
  (`BindsInMap`): what an entry compares to depends on the entries before it, and
  equality takes them in the order the left map was filled, the hash in the order
  of the key hashes. Recorded nodes below a constant node or a unique instance
  (`StopsAtPointer`, only `EqualImpliesSameHash`): Equal stops at the address, the
  hash of a constant node walks on; and unique instances in
  `SameHashImpliesEqual`, since the hash does not look at their address. Free
  variables below constant nodes are ruled out by the documentation of
  kTVMFFISEqHashKindConstTreeNode. Objects of kind Unsupported are among the
  inputs: which of a difference and an exception is met first depends on the
  tracing and on the side, which `MismatchAgreesWithEqual` and `EqualIsSymmetric`
  allow, and nothing else. The custom callbacks `__s_equal__` and
  `__s_hash__` are represented by the flags of fields; paths by the fact that
  there is one. The hash is taken to be free of collisions: it is a structured
  value. The same bytes as a small value and as a Bytes object (`BytesInBothForms`,
  only `EqualImpliesSameHash`): they are equal and hash differently, see section
  6. Strings are in one form in the model, because their hash and their equality
  do not see the form. A key that is a NaN is left out. A tensor on a
  device or a strided one refuses to be compared and hashed unless its content is
  skipped; shape and data type are one value. The functor StructuralEqual() skips tensor contents where
  StructuralHash() does not (`structural_equal.h:54`); the model passes both the same flag.
* Serialization: heaps are acyclic (saving a cycle does not end in the code
  either), a field keeps its static type between saver and loader, and graphs
  that ToJSONGraph did not write are not loaded. What a setter answers is ignored
  by the code (`serialization.cpp:353`), which matters only where types changed. Integers and floats are known by
  their numerals. Two kinds of data type are not among the values: a handle whose
  bits or lanes are not the usual ones, which are not written
  (`dtype.cpp:164`), and a complex one, whose code has no name, so that saving
  throws (`dtype.h:89`). The order of a loaded map is
  that of the saved pairs because each key is set once (`map`). Metadata, which
  is copied through, and the custom data callbacks are left out.
* Calls: one thread, since all state but the objects is the thread's. Bodies are
  arbitrary within the convention of `c_api.h:367`: C returns -1 right after the
  slot was set, by itself or by the callee whose code it passes on. A call in
  between, even one that succeeds, may overwrite or clear the slot; the model
  has no such call. Each call gets an empty result, as Function::operator()
  makes; a result slot of C that still holds an object is passed to C++ callees
  only, which refuse it. The conversion of arguments is not modelled, its
  TypeError is a `Throw` of the callee.
* Not modelled: the environment context (setters and getters of thread-local
  tables without an invariant between them), Tensor and DLPack (a managed tensor
  holds one reference until its deleter runs, the lifetime of `ObjectRefCount`
  with a foreign deleter), support code (macros, encodings, stack traces, test
  fixtures), comparison and concatenation of strings, custom data type codes.

## 6. What the code does that its documentation does not say

1. `unique()` is a relaxed load (`object.h:219`), and containers mutate in place
   when it answers true (`array.h:806`). The thread that dropped the other
   handle released its accesses, but nothing acquires them. Run `unique_relaxed`.
2. A dense map moves a key that is set again to the end of its iteration order,
   a small one does not. `tests/cpp/test_map.cpp:267` says insertion order is
   preserved. Run `map_order`.
3. Structural equality looks a map key up on the right without asking whether
   that variable is bound there: f(y){y: 1} equals f(x){y: 1} but not the other
   way round. Run `structural_symmetric`. A map of several entries with
   definitions of variables below them violates symmetry as well, since the left
   operand's order of insertion decides.

Found by reading, without a run of their own. The properties in brackets state
what the code does; the others are outside the models.

* `structural_hash.cpp:46`, `:50`: small Bytes and a Bytes object hash under
  different type indices, while `structural_equal.cpp:47` to `:58` make them
  equal; only the two forms of strings share a hash (`:39`). [`EqualImpliesSameHash`
  excepts it as `BytesInBothForms`; without the exception TLC reports two equal
  maps, one keyed by small bytes and one by a Bytes object, with different hashes]
* `array.h:652`: resize(n) promises the size n, but a null array gets room for n
  elements and stays empty. [`ImplementsSequences`]
* `env_context.cpp:50`: SetDLPackTensorAllocator reports the original allocator
  after overwriting it; `c_env_api.h:49` promises the original one. `GetDLPackTensorAllocator`
  asks the thread before the process, `c_env_api.h:59` says the other way round.
* `json_writer.cpp:142`: whole floats from 2^53 on are written without ".0" and
  read back as integers, against the comment below it. [`TextReadsBack`]
* `json_parser.cpp:320`: a byte beyond ASCII is refused where char is signed,
  although the writer emits it; and strtod's ERANGE refuses denormal numbers.
  [`TextReadsBack`, `FailsOnlyForClasses`]
* `dtype.cpp:200`: small floats with scalable lanes, and DLPack's bool as
  "bool8", are written and not read. [`FailsOnlyForClasses`]
* `library_module_system_lib.cpp:60`: GetSymbol asks twice with the prefix where
  the comment promises with and without.
* `accessor.h:32`, `:128`: a name is compared over the length of the registered
  one, so a name finds a field that is its beginning. [`ReflectionReadsBack`
  excepts hidden names]
* `creator.h:53`, `:56`: what a setter answers is ignored, so a value of the wrong
  type leaves the member as it was. A field of the same name in parent and child
  makes the count of matches wrong (`:65`, `:85`). [`CreatesWhatWasGiven`]
* `function.h:723`: TypedFunction stores None when it is null and does not accept
  None as stored, against the convention at `type_traits.h:26`. [`ConversionsSettle`
  excepts it]
* `array.h:1044`: GetMismatchTypeInfo tests elements strictly and so may name an
  element that converts. `any.h:196`: a borrowed DLTensor* stays a bare pointer in
  an owning Any. `dtype.h:144`: a string that is no data type throws where the
  convention is nullopt. `map.h:1672`: two keys may become one in a conversion.
  `rvalue_ref.h:112`: a second conversion of a moved reference reads a null object.

## 7. What is left

1. The agreement of structural equality with the hash as a theorem, first for
   graphs without maps, and lemmas on the conversions of types without parts.
2. `ObjectRefCount` for several objects that refer to each other, from which the
   sets of roots in `ArrayContainer` and `ModuleLookup` would follow as a
   refinement and not as an argument.
3. Tensor and DLPack as objects with a foreign deleter; the environment context.
4. Iterators of a map that outlive a change, with the state marker of the debug
   build; a result slot that is used for a second call.
