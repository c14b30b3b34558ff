----------------------------- MODULE TypeTraits -----------------------------
(***************************************************************************)
(* The conversions between Any and the C++ types (TypeTraits<T>): what a    *)
(* type accepts as it is stored (CheckAnyStrict) and what it can convert    *)
(* (TryCastFromAnyView), with the conversion nested types run inside a      *)
(* container.  An object reference asks the type table.                     *)
(*                                                                         *)
(* A value is a record with one field, which names its type index: none,   *)
(* bool, int, float, ptr, dtype, device, dltensor, rawstr, bytearray,      *)
(* rvalue, str, bytes, shape, array, map, tensor, fn or obj.  A C++ type   *)
(* is a record whose field "is" names the template.  Floats hold whole     *)
(* numbers here, which doubles hold exactly.                               *)
(***************************************************************************)
EXTENDS TypeTable, Outcome, Sequences

CONSTANT DataTypes   \* the texts StringToDLDataType understands

Is(kind, v) == kind \in DOMAIN v

\* Seven bytes fit into an Any; a longer text or byte string is an object.
Small(text) == Len(text) <= 7

\* type_index >= kTVMFFIStaticObjectBegin
IsObject(v) ==
  \/ Is("str", v) /\ ~Small(v.str)
  \/ Is("bytes", v) /\ ~Small(v.bytes)
  \/ \E kind \in {"shape", "array", "map", "tensor", "fn", "obj"} : Is(kind, v)

\* Any(AnyView): what a view does not own is copied or moved into an object.
\* A borrowed DLTensor* stays the pointer it is.
Own(v) ==
  CASE Is("rawstr", v) -> [str |-> v.rawstr]
    [] Is("bytearray", v) -> [bytes |-> v.bytearray]
    [] Is("rvalue", v) -> v.rvalue
    [] OTHER -> v

Traits(strict, cast) == [strict |-> strict, cast |-> cast]
If(accepted, v) == IF accepted THEN Value(v) ELSE Fails

-----------------------------------------------------------------------------
(* Values without parts.                                                   *)

\* static_cast to an integer of so many bits; v_int64 has 64.
Narrow(bits, n) ==
  IF bits = 64 THEN n ELSE ((n + 2 ^ (bits - 1)) % 2 ^ bits) - 2 ^ (bits - 1)

NullTraits(v) == Traits(Is("none", v), If(Is("none", v), v))
StrictBoolTraits(v) == Traits(Is("bool", v), If(Is("bool", v), v))

BoolTraits(v) ==
  Traits(Is("bool", v),
         IF Is("int", v) THEN Value([bool |-> v.int # 0]) ELSE If(Is("bool", v), v))

Number(v) == IF Is("bool", v) THEN IF v.bool THEN 1 ELSE 0 ELSE v.int
IsNumber(v) == Is("int", v) \/ Is("bool", v)

IntTraits(bits, v) ==
  Traits(Is("int", v),
         IF IsNumber(v) THEN Value([int |-> Narrow(bits, Number(v))]) ELSE Fails)

\* Nothing asks whether the number is one of the enumerators.
EnumTraits(bits, v) == IntTraits(bits, v)

FloatTraits(v) ==
  Traits(Is("float", v),
         IF IsNumber(v) THEN Value([float |-> Number(v)]) ELSE If(Is("float", v), v))

\* void*: None is the null pointer.
OpaquePtrTraits(v) ==
  Traits(Is("ptr", v),
         IF Is("none", v) THEN Value([ptr |-> 0]) ELSE If(Is("ptr", v), v))

DeviceTraits(v) == Traits(Is("device", v), If(Is("device", v), v))

\* DLTensor* is borrowed, also from a Tensor.
DLTensorTraits(v) ==
  Traits(Is("dltensor", v),
         IF Is("tensor", v) THEN Value([dltensor |-> v.tensor])
         ELSE If(Is("dltensor", v), v))

TensorViewTraits(v) == DLTensorTraits(v)

-----------------------------------------------------------------------------
(* Text and bytes.                                                         *)

BytesTraits(v) ==
  Traits(Is("bytes", v),
         If(Is("bytes", v) \/ Is("bytearray", v), Own(v)))

StringTraits(v) ==
  Traits(Is("str", v), If(Is("str", v) \/ Is("rawstr", v), Own(v)))

\* const char* and TVMFFIByteArray* are parameters only, never stored.
CStrTraits(v) == Traits(FALSE, If(Is("rawstr", v), v))
ByteArrayTraits(v) == Traits(FALSE, If(Is("bytearray", v), v))

\* FallbackOnlyTraitsBase: the first of the fallback conversions that succeeds.
FirstOf(casts) ==
  IF \E i \in DOMAIN casts : casts[i] # Fails
    THEN casts[CHOOSE i \in DOMAIN casts :
                 casts[i] # Fails /\ \A j \in 1 .. i - 1 : casts[j] = Fails]
    ELSE Fails

\* std::string, viewed as a const char*.
Text(v) == IF Is("rawstr", v) THEN v.rawstr
           ELSE IF Is("bytearray", v) THEN v.bytearray
           ELSE IF Is("bytes", v) THEN v.bytes ELSE v.str

StdStringTraits(v) ==
  LET source == FirstOf(<<CStrTraits(v).cast, ByteArrayTraits(v).cast,
                          BytesTraits(v).cast, StringTraits(v).cast>>)
  IN Traits(FALSE, IF Ok(source) THEN Value([rawstr |-> Text(source.value)])
                   ELSE source)

\* A text that is no data type throws instead of failing to convert.
DataTypeTraits(v) ==
  LET text == StdStringTraits(v).cast
  IN Traits(Is("dtype", v),
            IF Is("dtype", v) THEN Value(v)
            ELSE IF ~Ok(text) THEN text
            ELSE IF text.value.rawstr \in DataTypes
                   THEN Value([dtype |-> text.value.rawstr])
                 ELSE Throws)

-----------------------------------------------------------------------------
(* Objects.                                                                *)

\* IsObjectInstance on the type index of a value: the built-in containers are
\* children of Object.
InstanceOf(C, v) ==
  IsObject(v) /\ (C = Root \/ (Is("obj", v) /\ IsObjectInstance(C, index[v.obj])))

RefTraits(C, nullable, v) ==
  LET accepted == (nullable /\ Is("none", v)) \/ InstanceOf(C, v)
  IN Traits(accepted, If(accepted, v))

ObjectPtrTraits(C, v) == Traits(InstanceOf(C, v), If(InstanceOf(C, v), v))

\* TypedFunction: the Function below it is nullable and converts from None.
TypedFunctionTraits(v) ==
  Traits(Is("fn", v), If(Is("fn", v) \/ Is("none", v), v))

-----------------------------------------------------------------------------
(* Templates: their conversion runs the conversion of their parts.         *)

RECURSIVE TypeTraits(_, _)

OptionalTraits(T, v) ==
  IF Is("none", v) THEN Traits(TRUE, Value(v)) ELSE TypeTraits(T, v)

\* A value one of the types accepts as stored stays as it is; otherwise the
\* first type that converts it.
VariantTraits(Ts, v) ==
  LET parts == [i \in DOMAIN Ts |-> TypeTraits(Ts[i], v)]
      strict == \E i \in DOMAIN Ts : parts[i].strict
  IN Traits(strict, IF strict THEN Value(v)
                    ELSE FirstOf([i \in DOMAIN Ts |-> parts[i].cast]))

\* The outcomes of converting parts in order: the values, or the first failure.
AllOf(casts, Make(_)) ==
  IF \A i \in DOMAIN casts : Ok(casts[i])
    THEN Value(Make([i \in DOMAIN casts |-> casts[i].value]))
    ELSE casts[CHOOSE i \in DOMAIN casts :
                 ~Ok(casts[i]) /\ \A j \in 1 .. i - 1 : Ok(casts[j])]

AsArray(values) == [array |-> values]

TupleTraits(Ts, v) ==
  IF Is("array", v) /\ Len(v.array) = Len(Ts)
    THEN LET parts == [i \in DOMAIN Ts |-> TypeTraits(Ts[i], v.array[i])]
             strict == \A i \in DOMAIN Ts : parts[i].strict
         IN Traits(strict, IF strict THEN Value(v)
                           ELSE AllOf([i \in DOMAIN Ts |-> parts[i].cast], AsArray))
    ELSE Traits(FALSE, Fails)

\* Fault: elements are asked whether they convert, and kept as they are.
ArrayTraitsKeepElements(T, v) ==
  IF Is("array", v)
    THEN LET parts == [i \in DOMAIN v.array |-> TypeTraits(T, v.array[i])]
             casts == [i \in DOMAIN parts |-> parts[i].cast]
             As(values) == v
         IN Traits(\A i \in DOMAIN parts : parts[i].strict, AllOf(casts, As))
    ELSE Traits(FALSE, Fails)

ArrayTraits(T, v) ==
  IF Is("array", v)
    THEN LET parts == [i \in DOMAIN v.array |-> TypeTraits(T, v.array[i])]
             strict == \A i \in DOMAIN parts : parts[i].strict
         IN Traits(strict, IF strict THEN Value(v)
                           ELSE AllOf([i \in DOMAIN parts |-> parts[i].cast], AsArray))
    ELSE Traits(FALSE, Fails)

\* Map::Set of each pair in order: a key that is there keeps its place.
SetPair(pairs, k, x) ==
  IF \E i \in DOMAIN pairs : pairs[i][1] = k
    THEN [i \in DOMAIN pairs |-> IF pairs[i][1] = k THEN <<k, x>> ELSE pairs[i]]
    ELSE Append(pairs, <<k, x>>)

\* Keys that convert to the same key become one.
AsMap(values) ==
  LET n == Len(values) \div 2
      set[i \in 0 .. n] ==
        IF i = 0 THEN <<>> ELSE SetPair(set[i - 1], values[2 * i - 1], values[2 * i])
  IN [map |-> set[n]]

MapTraits(K, V, v) ==
  IF Is("map", v)
    THEN LET keys == [i \in DOMAIN v.map |-> TypeTraits(K, v.map[i][1])]
             values == [i \in DOMAIN v.map |-> TypeTraits(V, v.map[i][2])]
             strict == \A i \in DOMAIN v.map : keys[i].strict /\ values[i].strict
             \* both parts of a pair are converted before either is looked at
             casts == [j \in 1 .. 2 * Len(v.map) |->
                         LET i == (j + 1) \div 2 IN
                         IF j % 2 = 0 \/ (keys[i].cast = Fails /\ values[i].cast = Throws)
                           THEN values[i].cast ELSE keys[i].cast]
         IN Traits(strict, IF strict THEN Value(v) ELSE AllOf(casts, AsMap))
    ELSE Traits(FALSE, Fails)

\* Shape converts from Array<int64_t>, not the other way round.
ShapeTraits(v) ==
  LET ints == ArrayTraits([is |-> "Int", bits |-> 64], v).cast
  IN Traits(Is("shape", v),
            IF Is("shape", v) THEN Value(v)
            ELSE IF Ok(ints)
                   THEN Value([shape |-> [i \in DOMAIN ints.value.array |->
                                            ints.value.array[i].int]])
                 ELSE ints)

\* The object behind an rvalue reference is moved when its type fits and
\* converted into a copy otherwise.  Its caller must not have moved it yet.
RValueRefTraits(T, v) ==
  LET cast == TypeTraits(T, IF Is("rvalue", v) THEN v.rvalue ELSE v).cast
  IN Traits(FALSE, IF Ok(cast) THEN Value([rvalue |-> cast.value]) ELSE cast)

\* The specialisation of a type.  Any takes every value, and owns it.
TypeTraits(T, v) ==
  CASE T.is = "Any" -> Traits(TRUE, Value(Own(v)))
    [] T.is = "Null" -> NullTraits(v)
    [] T.is = "StrictBool" -> StrictBoolTraits(v)
    [] T.is = "Bool" -> BoolTraits(v)
    [] T.is = "Int" -> IntTraits(T.bits, v)
    [] T.is = "Enum" -> EnumTraits(T.bits, v)
    [] T.is = "Float" -> FloatTraits(v)
    [] T.is = "OpaquePtr" -> OpaquePtrTraits(v)
    [] T.is = "Device" -> DeviceTraits(v)
    [] T.is = "DataType" -> DataTypeTraits(v)
    [] T.is = "DLTensor" -> DLTensorTraits(v)
    [] T.is = "TensorView" -> TensorViewTraits(v)
    [] T.is = "Bytes" -> BytesTraits(v)
    [] T.is = "String" -> StringTraits(v)
    [] T.is = "CStr" -> CStrTraits(v)
    [] T.is = "ByteArray" -> ByteArrayTraits(v)
    [] T.is = "StdString" -> StdStringTraits(v)
    [] T.is = "Ref" -> RefTraits(T.class, T.nullable, v)
    [] T.is = "ObjectPtr" -> ObjectPtrTraits(T.class, v)
    [] T.is = "TypedFunction" -> TypedFunctionTraits(v)
    [] T.is = "Shape" -> ShapeTraits(v)
    [] T.is = "Optional" -> OptionalTraits(T.of, v)
    [] T.is = "Variant" -> VariantTraits(T.types, v)
    [] T.is = "Tuple" -> TupleTraits(T.types, v)
    [] T.is = "Array" -> ArrayTraits(T.of, v)
    [] T.is = "Map" -> MapTraits(T.key, T.of, v)
    [] T.is = "RValueRef" -> RValueRefTraits(T.of, v)

CheckAnyStrict(T, v) == TypeTraits(T, v).strict
TryCast(T, v) == TypeTraits(T, v).cast
=============================================================================
