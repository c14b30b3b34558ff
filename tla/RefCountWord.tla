---------------------------- MODULE RefCountWord ----------------------------
(***************************************************************************)
(* The combined 64-bit reference count of TVMFFIObject: the low half is    *)
(* the strong count, the high half the weak count.  The word is kept as    *)
(* its two halves, and the operators are 64-bit addition and subtraction   *)
(* of one unit of a half: a carry out of the strong half reaches the weak  *)
(* half, exactly as it does in the machine word.                           *)
(***************************************************************************)
EXTENDS Naturals

CONSTANT CountLimit   \* values of one half of the word; 2^32 in the code

ASSUME CountLimitAssumption == CountLimit \in Nat \ {0, 1}

Half == 0 .. CountLimit - 1

Word == [s : Half, w : Half]

Zero     == [s |-> 0, w |-> 0]
BothOne  == [s |-> 1, w |-> 1]     \* kCombinedRefCountBothOne
WeakOne  == [s |-> 0, w |-> 1]     \* kCombinedRefCountWeakOne

Up(n)   == IF n = CountLimit - 1 THEN 0 ELSE n + 1
Down(n) == IF n = 0 THEN CountLimit - 1 ELSE n - 1

\* count + kCombinedRefCountWeakOne, count - kCombinedRefCountWeakOne
AddWeak(c) == [s |-> c.s, w |-> Up(c.w)]
SubWeak(c) == [s |-> c.s, w |-> Down(c.w)]

\* count + kCombinedRefCountStrongOne, count - kCombinedRefCountStrongOne
AddStrong(c) ==
  [s |-> Up(c.s), w |-> IF c.s = CountLimit - 1 THEN Up(c.w) ELSE c.w]
SubStrong(c) ==
  [s |-> Down(c.s), w |-> IF c.s = 0 THEN Down(c.w) ELSE c.w]
=============================================================================
