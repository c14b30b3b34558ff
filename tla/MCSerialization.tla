--------------------------- MODULE MCSerialization ---------------------------
(***************************************************************************)
(* Heaps of three objects: an array, a pair or an object of a class without *)
(* metadata at the bottom, one of any type that may refer to it, and on top *)
(* one that refers to the second and perhaps to the first as well.          *)
(***************************************************************************)
EXTENDS Serialization

MCNode == 1 .. 3

MCFinite ==
  LET float(general, integral, below) ==
        [general |-> general, integral |-> integral, below |-> below, denormal |-> FALSE]
  IN ("1" :> float("1", TRUE, TRUE)) @@ ("-0" :> float("-0", TRUE, TRUE))
     @@ ("0.5" :> float("0.5", FALSE, TRUE))
     @@ ("2^53" :> float("9007199254740992", TRUE, FALSE))
     @@ ("1e20" :> float("1e+20", TRUE, FALSE))
     @@ ("tiny" :> [float("4.9406564584124654e-324", FALSE, TRUE) EXCEPT !.denormal = TRUE])

\* 101 is a text that needs escapes, the other
\* plain values (among them text in UTF-8) are saved alone.
PlainValues ==
  <<[bool |-> TRUE], [bool |-> FALSE], [int |-> "0"], [int |-> "-9223372036854775808"]>>
  \o [i \in 1 .. 3 |-> [float |-> <<"PosInf", "NegInf", "NaN">>[i]]]
  \o [i \in 1 .. 6 |-> [float |-> <<"1", "-0", "0.5", "2^53", "1e20", "tiny">>[i]]]
  \o [i \in 1 .. 4 |-> [bytes |-> SubSeq(<<255, 0, 62, 63>>, 1, i)]]
  \o <<[bytes |-> <<>>], [device |-> <<"1", "0">>], [shape |-> <<>>], [shape |-> <<"2", "-1", "3">>]>>
  \o <<[str |-> <<>>], [str |-> B("a/b\\")], [str |-> <<195, 169, 32, 240, 159, 152, 128, 34, 226, 130, 172>>],
       [str |-> <<0, 127, 10, 31>>]>>

Type(code, bits, lanes) == [dtype |-> DLDataType(code, bits, lanes)]
DataTypes ==
  <<[dtype |-> Void], [dtype |-> Bool], Type("handle", 64, 1), Type("bool", 8, 1),
    Type("int", 64, 1), Type("uint", 1, 4), Type("float", 32, 65532), Type("bfloat", 16, 4),
    Type("float8_e3m4", 8, 65532), Type("float8_e3m4", 8, 4), Type("float8_e4m3", 8, 1),
    Type("float8_e4m3b11fnuz", 8, 1), Type("float8_e4m3fn", 8, 2), Type("float8_e4m3fnuz", 8, 1),
    Type("float8_e5m2", 8, 4), Type("float8_e5m2fnuz", 8, 1), Type("float8_e8m0fnu", 8, 1),
    Type("float6_e2m3fn", 6, 1), Type("float6_e3m2fn", 6, 4), Type("float4_e2m1fn", 4, 2)>>

MCPlain ==
  LET values == PlainValues \o DataTypes
  IN (Null :> [none |-> TRUE]) @@ (101 :> [str |-> <<34, 92, 47, 10, 1, 97>>])
     @@ [v \in 201 .. 200 + Len(values) |-> values[v - 200]]

Field(name, how, default) == [name |-> name, how |-> how, default |-> default]

Object(type, content) == [type |-> type, content |-> content]
\* The number in a pair is that of an object and of a node: it must not be
\* taken for a reference.
Pair(v) == Object("Pair", [size |-> 2, item |-> v])
Cell(v) == Object("Cell", [next |-> v])

Refs(n) == (1 .. n - 1) \union {Null, 101}

Bottom == {Object("Array", <<>>), Pair(Null), Object("Handle", <<>>)}
Middle == {Object("Array", <<r, s>>) : r \in Refs(2), s \in Refs(2) \union {OpaquePtr}}
          \union {Object("Map", <<r, s>>) : r \in Refs(2), s \in Refs(2)}
          \union {f : f \in {Pair(r) : r \in Refs(2)} \union {Cell(r) : r \in Refs(2)}}
Top == {Object("Array", <<r, 2, s>>) : r \in Refs(3), s \in Refs(3)}
       \union {Object("Map", <<r, 2, s, 1>>) : r \in Refs(3), s \in Refs(3)}
       \union {Pair(2), Cell(2)}

\* The keys of a map are distinct.
MCHeaps ==
  {<<>>} \union
  {h \in {<<a, b, c>> : a \in Bottom, b \in Middle, c \in Top} :
     h[3].type = "Map" => h[3].content[1] # h[3].content[3]}

\* The plain values, and an array of a cell, a pair and text.
MCTexts == {<<>>, <<Pair(Null), Cell(1), Object("Array", <<101, 2, 1>>)>>}

Size == Field("size", "inline", Required)
Item == Field("item", "node", Required)
NextCell == Field("next", "node", Required)

MCSaver == [Pair |-> <<Size, Item>>, Cell |-> <<NextCell>>, Handle |-> Opaque]

Pairs(fields) == [Pair |-> fields, Cell |-> <<NextCell>>]
MCLoaders ==
  {MCSaver,
   [Cell |-> <<NextCell>>],
   [MCSaver EXCEPT !.Cell = Opaque],
   Pairs(<<Item>>),
   Pairs(<<Size>>),
   Pairs(<<Field("tag", "inline", 102), Item, Size>>),
   Pairs(<<Size, Item, Field("tag", "node", Required)>>)}
=============================================================================
