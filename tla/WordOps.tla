------------------------------- MODULE WordOps -------------------------------
(***************************************************************************)
(* Registers as numbers and as bit patterns, the conversions the C++ makes *)
(* between integer types, and the masks of the rotate instructions.  Bit p *)
(* of a pattern is counted from the left, as MB and ME are.                *)
(***************************************************************************)
EXTENDS Numerals, FiniteSetsExt

CONSTANTS
  Bits,      \* 64
  WordBits   \* 32

ASSUME WordAssumption == WordBits \in Nat \ {0, 1} /\ Bits = 2 * WordBits

Word == 0 .. 2 ^^ Bits - 1
Wrap(x) == x % (2 ^^ Bits)
Pattern == 0 .. Bits - 1

(* uint32_t and uint16_t truncate; int32_t and int16_t truncate and extend. *)
Low(x, n) == x % (2 ^^ n)
High(x) == x \div (2 ^^ WordBits)
Negative(x, n) == Low(x, n) >= 2 ^^ (n - 1)
Signed(x, n) == Low(x, n) - (IF Negative(x, n) THEN 2 ^^ n ELSE 0)
SignExtend(x, n) == Wrap(Signed(x, n))

BitsOf(x) == {p \in Pattern : (x \div (2 ^^ (Bits - 1 - p))) % 2 = 1}
Value(S) == Numeral([d \in 1 .. Bits |-> IF d - 1 \in S THEN 1 ELSE 0], 2, Bits)

Not(x) == 2 ^^ Bits - 1 - x
And(x, y) == Value(BitsOf(x) \cap BitsOf(y))
Or(x, y) == Value(BitsOf(x) \cup BitsOf(y))
Xor(x, y) == Value(SymDiff(BitsOf(x), BitsOf(y)))

(* std::rotl of an n-bit number. *)
RotateLeft(x, by, n) ==
  LET s == by % n IN Low(x * 2 ^^ s, n) + Low(x, n) \div (2 ^^ (n - s))

(* GenerateMask64: an interval, all bits, or the two ends of the register. *)
Interval(MB, ME) == {p \in Pattern : MB <= p /\ p <= ME}
GenerateMask64(MB, ME) ==
  IF MB <= ME THEN Value(Interval(MB, ME))
  ELSE IF MB = ME + 1 THEN Not(0)
  ELSE Value(Interval(0, ME) \cup Interval(MB, Bits - 1))

(* The architecture's MASK: ones from bit mb on to bit me, past the end and *)
(* on from bit 0 if need be.                                                *)
MASK(mb, me) == {p \in Pattern : IF mb <= me THEN mb <= p /\ p <= me ELSE p >= mb \/ p <= me}
==============================================================================
