------------------------------- MODULE FloatOps -------------------------------
(***************************************************************************)
(* The host's float and double: IEEE 754 binary formats of any width, as   *)
(* bit patterns, rounded to nearest-even.  A NaN that an operation makes   *)
(* is the default one; conversions keep what fits of its payload and set   *)
(* the quiet bit, as x86 and ARM do.                                       *)
(***************************************************************************)
EXTENDS WordOps

CONSTANTS
  SingleExp, SingleFrac,   \* 8, 23
  DoubleExp, DoubleFrac    \* 11, 52

ASSUME FloatAssumption ==
  /\ {SingleExp, SingleFrac, DoubleExp, DoubleFrac} \subseteq Nat \ {0, 1}
  /\ 1 + SingleExp + SingleFrac = WordBits /\ 1 + DoubleExp + DoubleFrac = Bits
  /\ SingleExp < DoubleExp /\ DoubleFrac >= 2 * SingleFrac + 3

Single == [exp |-> SingleExp, frac |-> SingleFrac]
Double == [exp |-> DoubleExp, frac |-> DoubleFrac]

-----------------------------------------------------------------------------
(* Patterns of a format f: sign, exponent, fraction. *)
SignWeight(f) == 2 ^^ (f.exp + f.frac)
Patterns(f) == 0 .. 2 * SignWeight(f) - 1
Minus(f, x) == x >= SignWeight(f)
Magnitude(f, x) == x % SignWeight(f)
WithSign(f, minus, m) == m + (IF minus THEN SignWeight(f) ELSE 0)
Negated(f, x) == WithSign(f, ~Minus(f, x), Magnitude(f, x))

Infinity(f) == (2 ^^ f.exp - 1) * 2 ^^ f.frac
QuietBit(f) == 2 ^^ (f.frac - 1)
QuietNaN(f) == Infinity(f) + QuietBit(f)
IsNaN(f, x) == Magnitude(f, x) > Infinity(f)
IsInfinite(f, x) == Magnitude(f, x) = Infinity(f)
IsZero(f, x) == Magnitude(f, x) = 0
IsDenormal(f, x) == Magnitude(f, x) \in 1 .. 2 ^^ f.frac - 1
IsSignalling(f, x) == IsNaN(f, x) /\ (x \div QuietBit(f)) % 2 = 0

(* Not a NaN: patterns of one sign are ordered as their values are. *)
Rank(f, x) == IF Minus(f, x) THEN -Magnitude(f, x) ELSE Magnitude(f, x)

-----------------------------------------------------------------------------
(* Exact values: (-1)^minus * num / den * 2^exp. *)
Exactly(minus, num, den, exp) == [minus |-> minus, num |-> num, den |-> den, exp |-> exp]

(* The exponent of the last place of the least numbers. *)
Least(f) == 2 - 2 ^^ (f.exp - 1) - f.frac
Exact(f, x) ==
  LET e == Magnitude(f, x) \div 2 ^^ f.frac
      fraction == x % 2 ^^ f.frac IN
  IF e = 0 THEN Exactly(Minus(f, x), fraction, 1, Least(f))
           ELSE Exactly(Minus(f, x), fraction + 2 ^^ f.frac, 1, Least(f) + e - 1)

Numerator(v, exp) == (IF v.minus THEN -v.num ELSE v.num) * 2 ^^ (v.exp - exp)
Sum(v, w) ==
  LET exp == Min({v.exp, w.exp})
      n == Numerator(v, exp) + Numerator(w, exp) IN
  IF v.num = 0 /\ w.num > 0 THEN w
  ELSE IF v.num > 0 /\ w.num = 0 THEN v
  ELSE Exactly(IF n = 0 THEN v.minus /\ w.minus ELSE n < 0, IF n < 0 THEN -n ELSE n, 1, exp)
Product(v, w) == Exactly(v.minus # w.minus, v.num * w.num, 1, v.exp + w.exp)
Ratio(v, w) == Exactly(v.minus # w.minus, v.num, w.num, v.exp - w.exp)

(* Rounding to nearest, a tie to even; Log is the exponent of num / den. *)
Log(v) == IF v.num >= v.den THEN Log2(v.num \div v.den) ELSE -1 - Log2((v.den - 1) \div v.num)
NearestEven(n, d) ==
  LET up == 2 * (n % d) > d \/ (2 * (n % d) = d /\ (n \div d) % 2 = 1) IN
  n \div d + (IF up THEN 1 ELSE 0)
LastPlace(f, v) == Max({Least(f), Log(v) + v.exp - f.frac})
Round(f, v) ==
  LET last == LastPlace(f, v)
      shift == v.exp - last
      k == IF shift >= 0 THEN NearestEven(v.num * 2 ^^ shift, v.den)
                         ELSE NearestEven(v.num, v.den * 2 ^^ (-shift)) IN
  WithSign(f, v.minus, IF v.num = 0 THEN 0
                       ELSE Min({Infinity(f), (last - Least(f)) * 2 ^^ f.frac + k}))

FromNat(f, n) == Round(f, Exactly(FALSE, n, 1, 0))

-----------------------------------------------------------------------------
(* C++ arithmetic on patterns of one format. *)
Add(f, x, y) ==
  LET minus == Minus(f, x) IN
  IF IsNaN(f, x) \/ IsNaN(f, y) THEN QuietNaN(f)
  ELSE IF IsInfinite(f, x) /\ IsInfinite(f, y) /\ minus # Minus(f, y) THEN QuietNaN(f)
  ELSE IF IsInfinite(f, x) THEN x
  ELSE IF IsInfinite(f, y) THEN y
  ELSE Round(f, Sum(Exact(f, x), Exact(f, y)))

Subtract(f, x, y) == Add(f, x, Negated(f, y))

Multiply(f, x, y) ==
  LET minus == Minus(f, x) # Minus(f, y) IN
  IF IsNaN(f, x) \/ IsNaN(f, y) THEN QuietNaN(f)
  ELSE IF (IsInfinite(f, x) \/ IsInfinite(f, y)) /\ (IsZero(f, x) \/ IsZero(f, y)) THEN QuietNaN(f)
  ELSE IF IsInfinite(f, x) \/ IsInfinite(f, y) THEN WithSign(f, minus, Infinity(f))
  ELSE Round(f, Product(Exact(f, x), Exact(f, y)))

Divide(f, x, y) ==
  LET minus == Minus(f, x) # Minus(f, y) IN
  IF IsNaN(f, x) \/ IsNaN(f, y) THEN QuietNaN(f)
  ELSE IF (IsInfinite(f, x) /\ IsInfinite(f, y)) \/ (IsZero(f, x) /\ IsZero(f, y)) THEN QuietNaN(f)
  ELSE IF IsInfinite(f, x) \/ IsZero(f, y) THEN WithSign(f, minus, Infinity(f))
  ELSE IF IsInfinite(f, y) THEN WithSign(f, minus, 0)
  ELSE Round(f, Ratio(Exact(f, x), Exact(f, y)))

(* x * y + z, as two operations or fused into one by the compiler. *)
MultiplyAdd(f, fused, x, y, z) ==
  IF ~fused \/ (\E v \in {x, y, z} : IsNaN(f, v) \/ IsInfinite(f, v))
    THEN Add(f, Multiply(f, x, y), z)
    ELSE Round(f, Sum(Product(Exact(f, x), Exact(f, y)), Exact(f, z)))

(* std::sqrt: the number whose neighbours' midpoints enclose the root. *)
AtMost(v, w) == LET exp == Min({v.exp, w.exp}) IN Numerator(v, exp) <= Numerator(w, exp)
Midpoint(f, x) ==
  LET v == Sum(Exact(f, x), Exact(f, x + 1)) IN Exactly(FALSE, v.num, 1, v.exp - 1)
Sqrt(f, x) ==
  IF IsNaN(f, x) \/ (Minus(f, x) /\ ~IsZero(f, x)) THEN QuietNaN(f)
  ELSE IF IsZero(f, x) \/ IsInfinite(f, x) THEN x
  ELSE CHOOSE r \in 1 .. Infinity(f) - 2 :
         /\ AtMost(Product(Midpoint(f, r - 1), Midpoint(f, r - 1)), Exact(f, x))
         /\ ~AtMost(Product(Midpoint(f, r), Midpoint(f, r)), Exact(f, x))

(* float to double and back. *)
Payload(from, to, x) ==
  LET fraction == x % QuietBit(from) IN
  IF from.frac <= to.frac THEN fraction * 2 ^^ (to.frac - from.frac)
                          ELSE fraction \div 2 ^^ (from.frac - to.frac)
Convert(from, to, x) ==
  IF IsNaN(from, x) THEN WithSign(to, Minus(from, x), QuietNaN(to) + Payload(from, to, x))
  ELSE IF IsInfinite(from, x) THEN WithSign(to, Minus(from, x), Infinity(to))
  ELSE Round(to, Exact(from, x))

(* std::round: to an integer, halves away from zero; its magnitude. *)
Whole(f, x) ==
  LET v == Exact(f, x) IN
  IF v.exp >= 0 THEN v.num * 2 ^^ v.exp
                ELSE (2 * v.num + 2 ^^ (-v.exp)) \div (2 * 2 ^^ (-v.exp))
StdRound(f, x) ==
  IF IsNaN(f, x) \/ IsInfinite(f, x) THEN x
  ELSE WithSign(f, Minus(f, x), FromNat(f, Whole(f, x)))
==============================================================================
