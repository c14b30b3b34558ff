--------------------------- MODULE ObjectCreator ---------------------------
(***************************************************************************)
(* Objects created from a map of their fields (creator.h): the creator     *)
(* visits the fields that it finds through the type table, those of the    *)
(* classes above included, and calls the setter of each.                   *)
(***************************************************************************)
EXTENDS ReflectionRegistry

CONSTANT Given   \* the maps of fields that objects are created from

\* Object itself has no fields: ForEachFieldInfo starts below it.
ASSUME CreatorAssumption ==
  /\ FieldsOf[Root] = <<>>
  /\ \A given \in Given : IsFiniteSet(DOMAIN given)

\* What the setter of a field stores for each value that there is, or that it
\* does not convert.  The creator changes no class and relies on no conversion.
VARIABLE setter

\* Fault: the parent of the class is taken for the root object as well.
ForEachFieldInfoOwn(k) ==
  LET t == table[key2index[k]]
      above[i \in 0 .. t.depth] ==
        IF i <= 2 THEN <<>> ELSE above[i - 1] \o FieldInfos(table[t.ancestors[i - 1]].key)
  IN above[t.depth] \o FieldInfos(k)

\* The fields of the types above, from the top without Object, then its own.
ForEachFieldInfo(k) ==
  LET t == table[key2index[k]]
      above[i \in 0 .. t.depth] ==
        IF i <= 1 THEN <<>> ELSE above[i - 1] \o FieldInfos(table[t.ancestors[i - 1]].key)
  IN above[t.depth] \o FieldInfos(k)

Error(which) == [error |-> which]

\* The default constructor of the class: the members as it initialises them.
Created(infos) ==
  [n \in {infos[i].name : i \in DOMAIN infos} |->
     infos[CHOOSE i \in DOMAIN infos : infos[i].name = n].init]

\* A field that is not given has its default.
Source(f, given) == IF f.name \in DOMAIN given THEN given[f.name] ELSE f.default[1]

\* What a setter answers is not looked at.
Assigned(object, f, v) ==
  IF Ok(setter[f][v]) THEN [object EXCEPT ![f.name] = setter[f][v].value] ELSE object

Filled(infos, given) ==
  LET object[i \in 0 .. Len(infos)] ==
        IF i = 0 THEN Created(infos)
        ELSE Assigned(object[i - 1], infos[i], Source(infos[i], given))
  IN object[Len(infos)]

Required(f, given) == f.name \notin DOMAIN given /\ f.default = <<>>

\* ObjectCreator(k)(given).
CreateObject(k, given) ==
  LET infos == ForEachFieldInfo(k)
      matched == Cardinality({i \in DOMAIN infos : infos[i].name \in DOMAIN given})
  IN IF metadata[k] = Unset THEN Error("no reflection")
     ELSE IF metadata[k] \notin Creatable THEN Error("no default constructor")
     ELSE IF \E i \in DOMAIN infos : Required(infos[i], given) THEN Error("required")
     ELSE IF matched = Cardinality(DOMAIN given) THEN [object |-> Filled(infos, given)]
     ELSE IF \E n \in DOMAIN given : \A i \in DOMAIN infos : infos[i].name # n
       THEN Error("unknown")
     ELSE Error("unreachable")

-----------------------------------------------------------------------------
(* Properties.                                                             *)

\* The fields registered for a class and the classes above it: <<key, position>>.
Places(c) == UNION {{k} \X DOMAIN fields[k].items : k \in LineageKeys(c)}
FieldAt(p) == fields[p[1]].items[p[2]]

\* No field has the name of another one, of whichever of these classes.
NamesDiffer(c) ==
  \A p, q \in Places(c) : FieldAt(p).name = FieldAt(q).name => p = q

\* The values that are given exist.
Known(given, fs) == \A f \in fs, n \in DOMAIN given : given[n] \in DOMAIN setter[f]

\* A value of the wrong type leaves the member as the constructor made it.
Stored(f, given) ==
  LET set == setter[f][Source(f, given)] IN IF Ok(set) THEN set.value ELSE f.init

\* An object created from a map of fields has every field that was given, every
\* default that was not, and is refused when a field is missing or unknown; the
\* creator never gets to the end of its search for the wrong name.
CreatesWhatWasGiven ==
  \A c \in {b \in Sound : metadata[Key(b)] \in Creatable} :
    LET fs == {FieldAt(p) : p \in Places(c)}
        names == {f.name : f \in fs}
    IN NamesDiffer(c) =>
         \A given \in {g \in Given : Known(g, fs)} :
           LET result == CreateObject(Key(c), given)
               complete == \A f \in fs : ~Required(f, given)
           IN IF complete /\ DOMAIN given \subseteq names
                THEN /\ "object" \in DOMAIN result
                     /\ DOMAIN result.object = names
                     /\ \A f \in fs : result.object[f.name] = Stored(f, given)
                ELSE \E why \in {"required", "unknown"} : result = Error(why)
=============================================================================
