------------------------------ MODULE JSONText ------------------------------
(***************************************************************************)
(* json::Stringify (src/ffi/extra/json_writer.cpp) and json::Parse          *)
(* (src/ffi/extra/json_parser.cpp) on bytes.  A value is a record with the  *)
(* one field that names its kind: null, bool, int, float, str (its bytes),  *)
(* array (its elements), object (its pairs in order of insertion), or other *)
(* when it is no JSON value.  An int is known by its numeral, a float by    *)
(* its name in Finite or in Infinite.                                       *)
(***************************************************************************)
EXTENDS Ascii, SequencesExt

CONSTANTS
  SignedChar,  \* whether plain char is signed on the platform: x86 does, ARM does not
  Finite       \* the finite floats: name -> what WriteFloat and strtod tell apart

\* Finite[f].integral: modf leaves no fraction; .below: the magnitude is below
\* 2^53; .general: the numeral that "%.17g" gives; .denormal: strtod sets errno.
Infinite == [PosInf |-> "Infinity", NegInf |-> "-Infinity", NaN |-> "NaN"]

JSONNull == [null |-> TRUE]
IsA(kind, v) == kind \in DOMAIN v
Refused == [refused |-> TRUE]

Quote == 34
Backslash == 92
NewLine == 10
Space == 32

-----------------------------------------------------------------------------
(* The writer. *)

\* The escapes of one letter: byte -> letter.
Escape == (34 :> 34) @@ (92 :> 92) @@ (47 :> 47) @@ (8 :> 98) @@ (12 :> 102)
          @@ (10 :> 110) @@ (13 :> 114) @@ (9 :> 116)

HexDigit == B("0123456789abcdef")

EscapeString(bytes) ==
  LET escaped(b) ==
        IF b \in DOMAIN Escape THEN <<Backslash, Escape[b]>>
        ELSE IF b < 32 \/ b = 127
             THEN B("\\u00") \o <<HexDigit[(b \div 16) + 1], HexDigit[(b % 16) + 1]>>
        ELSE <<b>>
  IN <<Quote>> \o FlattenSeq([i \in DOMAIN bytes |-> escaped(bytes[i])]) \o <<Quote>>

\* An integral float gets a ".0", which keeps it apart from an int, as long as
\* it is below 2^53.
WriteFloat(f) ==
  IF f \in DOMAIN Infinite THEN B(Infinite[f])
  ELSE IF Finite[f].below /\ Finite[f].integral THEN B(f) \o B(".0")
  ELSE B(Finite[f].general)

WriteIndent(total) == <<NewLine>> \o [i \in 1 .. total |-> Space]

\* The text between two brackets: the items, set out one to a line unless
\* indent is 0.
Enclosed(open, items, close, indent, total) ==
  LET line(in) == IF indent = 0 THEN <<>> ELSE WriteIndent(in)
      item(i) == (IF i = 1 THEN <<>> ELSE B(",")) \o line(total + indent) \o items[i]
  IN B(open) \o FlattenSeq([i \in DOMAIN items |-> item(i)]) \o line(total) \o B(close)

\* A value that cannot be written raises an error, which Writable foresees.
RECURSIVE Writable(_)
Writable(v) ==
  /\ ~IsA("other", v)
  /\ IsA("array", v) => \A i \in DOMAIN v.array : Writable(v.array[i])
  /\ IsA("object", v) => \A i \in DOMAIN v.object :
                           IsA("str", v.object[i][1]) /\ Writable(v.object[i][2])

RECURSIVE WriteValue(_, _, _)
WriteValue(v, indent, total) ==
  LET within(w) == WriteValue(w, indent, total + indent)
      pair(p) == EscapeString(p[1].str) \o B(IF indent = 0 THEN ":" ELSE ": ") \o within(p[2])
  IN CASE IsA("null", v) -> B("null")
       [] IsA("bool", v) -> IF v.bool THEN B("true") ELSE B("false")
       [] IsA("int", v) -> B(v.int)
       [] IsA("float", v) -> WriteFloat(v.float)
       [] IsA("str", v) -> EscapeString(v.str)
       [] IsA("array", v) ->
            Enclosed("[", [i \in DOMAIN v.array |-> within(v.array[i])], "]", indent, total)
       [] IsA("object", v) ->
            Enclosed("{", [i \in DOMAIN v.object |-> pair(v.object[i])], "}", indent, total)

Stringify(v, indent) == IF Writable(v) THEN WriteValue(v, indent, 0) ELSE Refused

-----------------------------------------------------------------------------
(* The parser.  t is the text, cur the position in it, 1 past its end at    *)
(* the end; a string has a NUL there, which is read but is not part of it.  *)

AtEnd(t, cur) == cur > Len(t)
At(t, cur) == IF AtEnd(t, cur) THEN 0 ELSE t[cur]
Sees(t, cur, c) == ~AtEnd(t, cur) /\ t[cur] = Code[c]

\* The first position from cur on with one of these bytes, or the end.
RECURSIVE FirstFrom(_, _, _)
FirstFrom(t, cur, bytes) ==
  IF AtEnd(t, cur) \/ t[cur] \in bytes THEN cur ELSE FirstFrom(t, cur + 1, bytes)

NonSpace == 0 .. 255 \ {32, 9, 10, 13}
SkipSpaces(t, cur) == FirstFrom(t, cur, NonSpace)

\* The position after the literal; 0 when it is not there.
MatchLiteral(t, cur, literal) ==
  LET after == cur + Len(literal)
  IN IF after <= Len(t) + 1 /\ SubSeq(t, cur, after - 1) = B(literal) THEN after ELSE 0

\* The bytes for which *cur_ < ' ', where char may be signed.
Control == 0 .. 31 \union (IF SignedChar THEN 128 .. 255 ELSE {})
Special == Control \union {Quote, Backslash}

\* What one parse leaves: the position, the value, and the two stacks on which
\* the elements of all the arrays and objects that are open wait.
Parsed(st, cur, v) == [st EXCEPT !.cur = cur, !.value = v]
Error(st) == [st EXCEPT !.value = Refused]
Ok(st) == st.value # Refused

HexValue(b) ==
  CASE IsDigit(b) -> b - 48
    [] b \in 97 .. 102 -> b - 87
    [] b \in 65 .. 70 -> b - 55
    [] OTHER -> -1

\* The number of four hex digits from cur on; -1 when they are not there.
Parse4Hex(t, cur) ==
  LET hex == [i \in 1 .. 4 |-> HexValue(At(t, cur + i - 1))]
  IN IF -1 \in Range(hex) THEN -1 ELSE FoldLeft(LAMBDA n, d : 16 * n + d, 0, hex)

\* A code point in UTF-8: a first byte and continuation bytes of six bits each.
Utf8(cp) ==
  LET more(k) == 128 + ((cp \div 64 ^ k) % 64)
  IN CASE cp < 128 -> <<cp>>
       [] cp \in 128 .. 2047 -> <<192 + (cp \div 64), more(0)>>
       [] cp \in 2048 .. 65535 -> <<224 + (cp \div 64 ^ 2), more(1), more(0)>>
       [] OTHER -> <<240 + (cp \div 64 ^ 3), more(2), more(1), more(0)>>

\* The escape \uXXXX at cur, where XXXX begins; a high surrogate must be
\* followed by the escape of a low one.
Unicode(t, cur) ==
  LET first == Parse4Hex(t, cur)
      next == MatchLiteral(t, cur + 4, "\\u")
      second == Parse4Hex(t, next)
      high == first \in 55296 .. 56319
      low(n) == n \in 56320 .. 57343
  IN IF first = -1 \/ low(first) THEN Refused
     ELSE IF ~high THEN [bytes |-> Utf8(first), cur |-> cur + 4]
     ELSE IF next = 0 \/ ~low(second) THEN Refused
     ELSE [bytes |-> Utf8((first - 55296) * 1024 + (second - 56320) + 65536), cur |-> next + 4]

RECURSIVE FullString(_, _, _, _)

\* The string goes on behind the escape, when there is one.
AfterUnicode(st, t, escape, out) ==
  IF escape = Refused THEN Error(st) ELSE FullString(st, t, escape.cur, out \o escape.bytes)

\* NextStringWithFullHandling: out is what was read so far.
FullString(st, t, cur, out) ==
  LET letter == At(t, cur + 1)
      single == {b \in DOMAIN Escape : Escape[b] = letter}
  IN IF AtEnd(t, cur) \/ t[cur] \in Control THEN Error(st)
     ELSE IF t[cur] = Quote THEN Parsed(st, cur + 1, [str |-> out])
     ELSE IF t[cur] # Backslash THEN FullString(st, t, cur + 1, Append(out, t[cur]))
     ELSE IF single # {} THEN FullString(st, t, cur + 2, out \o SetToSeq(single))
     ELSE IF letter = Code["u"] THEN AfterUnicode(st, t, Unicode(t, cur + 2), out)
     ELSE Error(st)

\* NextString: a string without escapes is taken as it is.
NextString(st, t) ==
  LET stop == FirstFrom(t, st.cur + 1, Special)
      text == SubSeq(t, st.cur + 1, stop - 1)
  IN IF AtEnd(t, stop) THEN Error(st)
     ELSE IF t[stop] = Quote THEN Parsed(st, stop + 1, [str |-> text])
     ELSE FullString(st, t, stop, text)

\* External: strtoimax, which the numerals of Int64 suit, and strtod, which
\* fails with ERANGE on a float that is denormal.
Strtoimax(word) ==
  LET digits == IF word # <<>> /\ word[1] = Code["-"] THEN Tail(word) ELSE word
  IN IF digits # <<>> /\ \A i \in DOMAIN digits : IsDigit(digits[i])
     THEN [int |-> S(word)] ELSE Refused

Strtod(word) ==
  LET means(f) == word \in {B(Finite[f].general), B(f) \o B(".0")}
      names == {f \in DOMAIN Finite : means(f) /\ ~Finite[f].denormal}
  IN IF names = {} THEN Refused ELSE [float |-> CHOOSE f \in names : TRUE]

NonNumber == 0 .. 255 \ Range(B("0123456789eE+-."))

NextNumber(st, t) ==
  LET stop == FirstFrom(t, st.cur, NonNumber)
      word == SubSeq(t, st.cur, stop - 1)
      infinite == {f \in DOMAIN Infinite : MatchLiteral(t, st.cur, Infinite[f]) # 0}
      name == CHOOSE f \in infinite : TRUE
      maybe_int == Range(word) \intersect Range(B(".eE")) = {}
  IN IF infinite # {} THEN Parsed(st, MatchLiteral(t, st.cur, Infinite[name]), [float |-> name])
     ELSE IF word = <<>> THEN Error(st)
     ELSE IF maybe_int /\ Strtoimax(word) # Refused THEN Parsed(st, stop, Strtoimax(word))
     ELSE Parsed(st, stop, Strtod(word))

\* Map(begin, end): a key that comes again replaces the value of the first.
ObjectOf(pairs) ==
  LET set(object, p) ==
        LET at == SelectInSeq(object, LAMBDA q : q[1] = p[1])
        IN IF at = 0 THEN Append(object, p) ELSE [object EXCEPT ![at][2] = p[2]]
  IN [object |-> FoldLeft(set, <<>>, pairs)]

\* Fault: what the inner array took stays on the stack of elements.
CloseArrayKeepsStack(st, cur, top) ==
  Parsed(st, cur, [array |-> SubSeq(st.elements, top + 1, Len(st.elements))])

\* The end of an array whose elements lie above top.
CloseArray(st, cur, top) ==
  [Parsed(st, cur, [array |-> SubSeq(st.elements, top + 1, Len(st.elements))])
     EXCEPT !.elements = SubSeq(@, 1, top)]

CloseObject(st, cur, top) ==
  [Parsed(st, cur, ObjectOf(SubSeq(st.pairs, top + 1, Len(st.pairs))))
     EXCEPT !.pairs = SubSeq(@, 1, top)]

RECURSIVE ParseValue(_, _), ParseElements(_, _, _), ParsePairs(_, _, _)

\* What follows an element el of an array.
AfterElement(el, t, top) ==
  LET pushed == [el EXCEPT !.elements = Append(@, el.value)]
      next == SkipSpaces(t, el.cur)
  IN IF ~Ok(el) THEN el
     ELSE IF Sees(t, next, ",")
          THEN ParseElements([pushed EXCEPT !.cur = SkipSpaces(t, next + 1)], t, top)
     ELSE IF Sees(t, next, "]") THEN CloseArray(pushed, next + 1, top)
     ELSE Error(el)

\* The elements of an array that began when the stack had top of them.
ParseElements(st, t, top) == AfterElement(ParseValue(st, t), t, top)

\* What follows the pair of a key and val, which was read after it.
AfterPair(key, val, t, top) ==
  LET pushed == [val EXCEPT !.pairs = Append(@, <<key.value, val.value>>)]
      next == SkipSpaces(t, val.cur)
  IN IF ~Ok(val) THEN val
     ELSE IF Sees(t, next, "}") THEN CloseObject(pushed, next + 1, top)
     ELSE IF Sees(t, next, ",")
          THEN ParsePairs([pushed EXCEPT !.cur = SkipSpaces(t, next + 1)], t, top)
     ELSE Error(val)

AfterKey(key, t, top) ==
  LET colon == SkipSpaces(t, key.cur)
  IN IF ~Ok(key) \/ ~Sees(t, colon, ":") THEN Error(key)
     ELSE AfterPair(key, ParseValue([key EXCEPT !.cur = colon + 1], t), t, top)

ParsePairs(st, t, top) ==
  IF ~Sees(t, st.cur, "\"") THEN Error(st) ELSE AfterKey(NextString(st, t), t, top)

ParseArray(st, t) ==
  LET first == SkipSpaces(t, st.cur + 1)
  IN IF Sees(t, first, "]") THEN Parsed(st, first + 1, [array |-> <<>>])
     ELSE ParseElements([st EXCEPT !.cur = first], t, Len(st.elements))

ParseObject(st, t) ==
  LET first == SkipSpaces(t, st.cur + 1)
  IN IF Sees(t, first, "}") THEN Parsed(st, first + 1, [object |-> <<>>])
     ELSE ParsePairs([st EXCEPT !.cur = first], t, Len(st.pairs))

Literals == [true |-> [bool |-> TRUE], false |-> [bool |-> FALSE], null |-> JSONNull]

ParseValue(st, t) ==
  LET cur == SkipSpaces(t, st.cur)
      here == [st EXCEPT !.cur = cur]
      words == {w \in DOMAIN Literals : MatchLiteral(t, cur, w) # 0}
  IN CASE AtEnd(t, cur) -> Error(st)
       [] Sees(t, cur, "{") -> ParseObject(here, t)
       [] Sees(t, cur, "[") -> ParseArray(here, t)
       [] Sees(t, cur, "\"") -> NextString(here, t)
       [] words # {} -> LET w == CHOOSE w \in words : TRUE
                        IN Parsed(st, MatchLiteral(t, cur, w), Literals[w])
       [] OTHER -> NextNumber(here, t)

Parse(t) ==
  LET st == ParseValue([cur |-> 1, value |-> JSONNull, elements |-> <<>>, pairs |-> <<>>], t)
  IN IF Ok(st) /\ AtEnd(t, SkipSpaces(t, st.cur)) THEN st.value ELSE Refused
=============================================================================
