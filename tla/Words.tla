-------------------------------- MODULE Words --------------------------------
(***************************************************************************)
(* Machine words of W bits: what Dwarf_Unsigned, Dwarf_Signed and          *)
(* Dwarf_Addr do, at a width small enough to be enumerated.  A word is     *)
(* represented by its unsigned value; Signed gives its two's complement    *)
(* reading.                                                                *)
(***************************************************************************)
EXTENDS Integers, FiniteSetsExt

CONSTANTS W,        \* bits of a word (64 in the program)
          ByteBits  \* bits of a byte (8 in the program)

ASSUME WidthAssumption == W \in Nat \ {0} /\ ByteBits \in 1 .. W /\ W % ByteBits = 0

\* The laws of powers up to the width, which the provers do not know.
ASSUME PowerAssumption ==
  /\ 2 ^ 0 = 1 /\ 2 ^ 1 = 2
  /\ \A m, n \in 0 .. W : m + n <= W => 2 ^ (m + n) = 2 ^ m * 2 ^ n

Word == 0 .. (2 ^ W - 1)

WordBytes == W \div ByteBits        \* sizeof(Dwarf_Signed)
MaxUnsigned == 2 ^ W - 1            \* MAX_DWARF_UNSIGNED, MAX_DWARF_ADDR
MaxSigned == 2 ^ (W - 1) - 1        \* MAX_DWARF_SIGNED

Wrap(x) == x % (2 ^ W)

Signed(w) == IF w > MaxSigned THEN w - 2 ^ W ELSE w

Magnitude(x) == IF x < 0 THEN -x ELSE x

\* C++ integer division truncates towards zero.
Quotient(a, b) ==
  LET q == Magnitude(a) \div Magnitude(b)
  IN  IF (a < 0) # (b < 0) THEN -q ELSE q

Remainder(a, b) == a - b * Quotient(a, b)

Bit(w, k) == (w \div (2 ^ k)) % 2

\* The word whose bit k is set when Op holds of bit k of a and of b.
Bitwise2(Op(_, _), a, b) ==
  MapThenSumSet(LAMBDA k : IF Op(Bit(a, k) = 1, Bit(b, k) = 1) THEN 2 ^ k ELSE 0, 0 .. (W - 1))

BitAnd(a, b) == Bitwise2(LAMBDA x, y : x /\ y, a, b)
BitOr(a, b)  == Bitwise2(LAMBDA x, y : x \/ y, a, b)
BitXor(a, b) == Bitwise2(LAMBDA x, y : x # y, a, b)
BitNot(a)    == MaxUnsigned - a

\* Shifts by a word: the processor takes the count modulo the width (W is a
\* power of 2).  The right shift of a signed word is arithmetic.
ShiftLeft(a, n)  == Wrap(a * 2 ^ (n % W))
ShiftRight(a, n) == Wrap(Signed(a) \div 2 ^ (n % W))
=============================================================================
