----------------------------- MODULE Reflection -----------------------------
(***************************************************************************)
(* The conversions behind the registered fields and methods (registry.h):  *)
(* the setter of a field, the arguments of a method.                       *)
(***************************************************************************)
EXTENDS ObjectCreator, TypeTraits

CONSTANT Values   \* the values that are given to fields and to methods

\* An object there can be.
Exists(v) ==
  /\ Is("obj", v) => v.obj \in Registered
  /\ Is("rvalue", v) /\ Is("obj", v.rvalue) => v.rvalue.obj \in Registered

\* A getter returns the member as an Any; a setter converts into its type.
FieldSetter(f, v) ==
  LET cast == TryCast(f.type, v) IN IF Ok(cast) THEN Value(Own(cast.value)) ELSE cast

\* The setters of the fields, on the values they may get.
Offered ==
  UNION {{given[n] : n \in DOMAIN given} : given \in Given}
    \union {f.default[1] : f \in {g \in FieldInfo : g.default # <<>>}}
Setters == [f \in FieldInfo |-> [v \in {x \in Offered : Exists(x)} |-> FieldSetter(f, v)]]

-----------------------------------------------------------------------------
(* Properties.                                                             *)

\* Types that narrow a number do not return the value they accept; a type
\* without storage is a parameter only; a null TypedFunction is stored as None,
\* which TypedFunction does not accept as stored.
Narrows(T) == T.is \in {"Int", "Enum"} /\ T.bits < 64
Storable(T) ==
  T.is \notin {"CStr", "ByteArray", "StdString", "DLTensor", "TensorView", "RValueRef",
               "ObjectPtr", "TypedFunction"}

\* Conversions settle: a value that a type accepts as stored converts to itself;
\* what a conversion returns converts to itself; and once it is stored in an Any
\* the type accepts it as it is ("A container array: Array<T> satisfies:
\* all(TypeTraits<T>::CheckAnyStrict(x) for x in the array)").
Settles(T, v) ==
  LET stored == TypeTraits(T, Own(v))
      cast == TryCast(T, v)
  IN /\ stored.strict /\ ~Narrows(T) => stored.cast = Value(Own(v))
     /\ Ok(cast) =>
          LET kept == TypeTraits(T, Own(cast.value))
          IN /\ TryCast(T, cast.value) = cast
             /\ Storable(T) => kept = Traits(TRUE, Value(Own(cast.value)))

\* For the fields and parameters that are registered, objects included, whose
\* classes the type table decides on.
ConversionsSettle ==
  \A k \in Keys :
    LET params == {m.params : m \in {MethodInfos(k)[i] : i \in DOMAIN MethodInfos(k)}}
        types == {FieldInfos(k)[i].type : i \in DOMAIN FieldInfos(k)}
                   \union UNION {{ts[j] : j \in DOMAIN ts} : ts \in params}
    IN \A T \in types, v \in Values : Exists(v) => Settles(T, v)
=============================================================================
