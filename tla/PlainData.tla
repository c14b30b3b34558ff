----------------------------- MODULE PlainData -----------------------------
(***************************************************************************)
(* How ToJSONGraph writes values that are not objects as JSON and           *)
(* FromJSONGraph reads them (src/ffi/extra/serialization.cpp): data types   *)
(* as strings (src/ffi/dtype.cpp), bytes in base 64 (extra/base64.h).  A    *)
(* plain value is a record whose one field names its type, as in JSONText;  *)
(* integers are known by their numerals.                                    *)
(***************************************************************************)
EXTENDS JSONText

-----------------------------------------------------------------------------
(* Data types: [code, bits, lanes].  lanes is a uint16; as an int16 it is   *)
(* negative when the number of lanes is a multiple of the machine's vector. *)

Float8 == {"float8_e3m4", "float8_e4m3", "float8_e4m3b11fnuz", "float8_e4m3fn",
           "float8_e4m3fnuz", "float8_e5m2", "float8_e5m2fnuz", "float8_e8m0fnu"}
Float6 == {"float6_e2m3fn", "float6_e3m2fn"}
Float4 == {"float4_e2m1fn"}
SmallFloat == Float8 \union Float6 \union Float4

DLDataType(code, bits, lanes) == [code |-> code, bits |-> bits, lanes |-> lanes]
Void == DLDataType("handle", 0, 0)
Bool == DLDataType("uint", 1, 1)

Signed16(lanes) == IF lanes < 32768 THEN lanes ELSE lanes - 65536

\* A code beyond the known ones, "custom[...]", is left out.
DLDataTypeToString(d) ==
  LET lanes == Signed16(d.lanes)
      bits == IF d.code \in SmallFloat THEN <<>> ELSE Decimal(d.bits)
      vector == IF lanes > 1 THEN B("x") \o Decimal(lanes)
                ELSE IF lanes < -1 THEN B("xvscalex") \o Decimal(-lanes) ELSE <<>>
  IN IF d = Bool THEN B("bool")
     ELSE IF d = Void THEN <<>>
     ELSE IF d.code = "handle" THEN B("handle")
     ELSE B(d.code) \o bits \o vector

\* strtoul at cur: the number and the position after it.
NonDigit == {b \in 0 .. 255 : ~IsDigit(b)}
Strtoul(t, cur) ==
  LET after == FirstFrom(t, cur, NonDigit)
  IN [value |-> NumeralValue(SubSeq(t, cur, after - 1)), after |-> after]

\* The lanes that follow an x at cur, with the sign that a scalable type puts
\* before them; Refused when anything comes after.
Lanes(t, cur, sign, d) ==
  LET number == Strtoul(t, cur + 1)
      at_x == Sees(t, cur, "x")
  IN IF ~AtEnd(t, IF at_x THEN number.after ELSE cur) THEN Refused
     ELSE IF at_x THEN [d EXCEPT !.lanes = (sign * number.value) % 65536] ELSE d

\* The lambda parse_float: of the names the text begins with the longest.
ParseFloat(t, bits, names) ==
  LET fits == {n \in names : IsPrefix(B(n), t)}
      name == CHOOSE n \in fits : \A m \in fits : Len(m) <= Len(n)
  IN IF fits = {} THEN Refused
     ELSE Lanes(t, Len(name) + 1, 1, DLDataType(name, bits, 1))

\* The bits at cur, unless they are absent or 0, then the lanes.
BitsAndLanes(t, cur, d) ==
  LET number == Strtoul(t, cur)
      scalable == MatchLiteral(t, number.after, "xvscale")
      sized == IF number.value % 256 = 0 THEN d ELSE [d EXCEPT !.bits = number.value % 256]
  IN IF scalable = 0 THEN Lanes(t, number.after, 1, sized) ELSE Lanes(t, scalable, -1, sized)

StringToDLDataType(t) ==
  LET begins(s) == IsPrefix(B(s), t)
      scan(code, bits) == BitsAndLanes(t, Len(code) + 1, DLDataType(code, bits, 1))
  IN CASE t = <<>> \/ t = B("void") -> Void
       [] begins("int") -> scan("int", 32)
       [] begins("uint") -> scan("uint", 32)
       [] begins("float8_") -> ParseFloat(t, 8, Float8)
       [] begins("float6_") -> ParseFloat(t, 6, Float6)
       [] begins("float4_") -> ParseFloat(t, 4, Float4)
       [] begins("float") /\ ~\E s \in {"8_", "6_", "4_"} : begins("float" \o s) -> scan("float", 32)
       [] begins("handle") -> scan("handle", 64)
       [] t = B("bool") -> Bool
       [] begins("bfloat") -> scan("bfloat", 16)
       [] OTHER -> Refused

-----------------------------------------------------------------------------
(* Base 64: three bytes are four characters of six bits each. *)

Base64 == B("ABCDEFGHIJKLMNOPQRSTUVWXYZabcdefghijklmnopqrstuvwxyz0123456789+/")
Pad == Code["="]

Base64Encode(bytes) ==
  LET groups == (Len(bytes) + 2) \div 3
      at(i) == IF i > Len(bytes) THEN 0 ELSE bytes[i]
      i24(g) == at(3 * g - 2) * 65536 + at(3 * g - 1) * 256 + at(3 * g)
      char(g, k) == IF 3 * (g - 1) + k > Len(bytes) + 1 THEN Pad
                    ELSE Base64[((i24(g) \div 64 ^ (4 - k)) % 64) + 1]
  IN FlattenSeq([g \in 1 .. groups |-> [k \in 1 .. 4 |-> char(g, k)]])

\* A character outside the table counts as 0, the padding among them.
Base64Decode(t) ==
  LET sixbits(c) == IF Contains(Base64, c) THEN SelectInSeq(Base64, LAMBDA d : d = c) - 1 ELSE 0
      quad(g) == SubSeq(t, 4 * g - 3, 4 * g)
      i24(g) == FoldLeft(LAMBDA n, c : 64 * n + sixbits(c), 0, quad(g))
      kept(g) == SelectSeq(<<1, 2, 3>>, LAMBDA k : k = 1 \/ quad(g)[k + 1] # Pad)
      bytes(g) == [k \in DOMAIN kept(g) |-> (i24(g) \div 256 ^ (3 - kept(g)[k])) % 256]
  IN IF Len(t) % 4 # 0 THEN Refused
     ELSE [bytes |-> FlattenSeq([g \in 1 .. Len(t) \div 4 |-> bytes(g)])]

-----------------------------------------------------------------------------
(* The nodes of the graph that hold plain values. *)

JSONString(s) == [str |-> B(s)]
Pair2(key, v) == <<JSONString(key), v>>
Get(object, key) == LET at == SelectInSeq(object.object, LAMBDA p : p[1] = JSONString(key))
                    IN object.object[at][2]
Ints(numerals) == [array |-> [i \in DOMAIN numerals |-> [int |-> numerals[i]]]]

TypeKeys == [none |-> "None", bool |-> "bool", int |-> "int", float |-> "float",
             dtype |-> "DataType", device |-> "Device", str |-> "ffi.String",
             bytes |-> "ffi.Bytes", shape |-> "ffi.Shape"]
Kind(v) == CHOOSE k \in DOMAIN v : TRUE

\* GetOrCreateNodeIndex for a value that is not an object.
EncodePlain(v) ==
  LET data == CASE IsA("dtype", v) -> [str |-> DLDataTypeToString(v.dtype)]
                [] IsA("device", v) -> Ints(v.device)
                [] IsA("bytes", v) -> [str |-> Base64Encode(v.bytes)]
                [] IsA("shape", v) -> Ints(v.shape)
                [] OTHER -> v
      type == Pair2("type", JSONString(TypeKeys[Kind(v)]))
  IN [object |-> IF IsA("none", v) THEN <<type>> ELSE <<type, Pair2("data", data)>>]

\* DecodeNode for such a node.  A cast to double accepts an int.
DecodePlain(object) ==
  LET kind == CHOOSE k \in DOMAIN TypeKeys : Get(object, "type") = JSONString(TypeKeys[k])
      data == Get(object, "data")
      numerals == [i \in DOMAIN data.array |-> data.array[i].int]
      dataType(d) == IF d = Refused THEN Refused ELSE [dtype |-> d]
  IN CASE kind = "none" -> [none |-> TRUE]
       [] kind = "dtype" -> dataType(StringToDLDataType(data.str))
       [] kind = "device" -> [device |-> numerals]
       [] kind = "bytes" -> Base64Decode(data.str)
       [] kind = "shape" -> [shape |-> numerals]
       [] kind = "float" /\ IsA("int", data) ->
            [float |-> CHOOSE f \in DOMAIN Finite : Finite[f].general = data.int]
       [] OTHER -> data
=============================================================================
