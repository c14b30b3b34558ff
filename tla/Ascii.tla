------------------------------- MODULE Ascii -------------------------------
(***************************************************************************)
(* Texts as the code handles them: sequences of bytes, 0 .. 255.  A text of *)
(* printable ASCII characters is written as a string; B gives its bytes.   *)
(***************************************************************************)
EXTENDS Integers, Sequences

Printable ==
  " !\"#$%&'()*+,-./0123456789:;<=>?@ABCDEFGHIJKLMNOPQRSTUVWXYZ[\\]^_\tabcdefghijklmnopqrstuvwxyz{|}~"

\* (A tab stands in the place of the backquote, which no text here needs.)
Char(s, i) == SubSeq(s, i, i)
Code == [c \in {Char(Printable, i) : i \in 1 .. Len(Printable)} |->
          31 + CHOOSE i \in 1 .. Len(Printable) : Char(Printable, i) = c]

\* The bytes of a string, and the character of a byte.
B(s) == [i \in 1 .. Len(s) |-> Code[Char(s, i)]]
C(byte) == Char(Printable, byte - 31)

\* The string with these bytes.
S(bytes) ==
  LET upTo[i \in 0 .. Len(bytes)] == IF i = 0 THEN "" ELSE upTo[i - 1] \o C(bytes[i])
  IN upTo[Len(bytes)]

\* The numeral of a natural number below 100000, as printf writes it.
Decimal(n) ==
  LET digits == CHOOSE k \in 1 .. 5 : n < 10 ^ k /\ (k = 1 \/ n >= 10 ^ (k - 1))
  IN [i \in 1 .. digits |-> 48 + ((n \div 10 ^ (digits - i)) % 10)]

IsDigit(byte) == byte \in 48 .. 57

\* The number a sequence of digits stands for.
NumeralValue(digits) ==
  LET upTo[i \in 0 .. Len(digits)] == IF i = 0 THEN 0 ELSE 10 * upTo[i - 1] + digits[i] - 48
  IN upTo[Len(digits)]
=============================================================================
