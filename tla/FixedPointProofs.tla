--------------------------- MODULE FixedPointProofs ---------------------------
(***************************************************************************)
(* Proofs about FixedPoint and LoadStore for words of any width.           *)
(*                                                                         *)
(* A bit is the parity of a quotient by a power of two.  The bits of a     *)
(* word determine it (SameWord), and every set of positions is the ones of *)
(* one word (ValueBits): an operation on words is right when it is right   *)
(* bit by bit, and so the logical operators, GenerateMask64 (MaskBits),    *)
(* rotates (DoubleRotates, WordRotates) and counts of zeros are the        *)
(* architecture's.  Sums, products and extensions are numbers modulo       *)
(* 2^Bits (WrapSame).  The rotate of an algebraic shift puts what is lost  *)
(* over what is kept; the mask separates them (Masked), and filling with   *)
(* ones subtracts a power of two.  Quotients are characterised by their    *)
(* remainder (QuotientIs).                                                 *)
(*                                                                         *)
(* Ends joins the lemmas of the instructions: a step completes with the    *)
(* right result, is the one division that traps, or fails.                 *)
(*                                                                         *)
(* A register loaded is the numeral of the bytes of memory (LoadedIs), and *)
(* a store writes its digits (StoredIs).  Addresses agree modulo 2^Bits    *)
(* (AddressIs), and the mapped region is made of blocks of 16 bytes        *)
(* (Blocks), so the halves of a vector are mapped together (Halves).       *)
(***************************************************************************)
EXTENDS FixedPoint, VectorUnit, NumeralProofs

USE DEF ^^

-----------------------------------------------------------------------------
(* Division twice over, and the digits of a numeral. *)

(* Division by one factor and then by the other. *)
LEMMA DivisionTwice ==
  ASSUME NEW a \in Nat \ {0}, NEW b \in Nat \ {0}, NEW x \in Int
  PROVE  (x \div a) \div b = x \div (a * b)
<1> DEFINE q == x \div a
           r == x % a
           d == q \div b
           e == q % b
           m == a * b
           s == a * e + r
<1>1. x = a * q + r /\ r \in 0 .. a - 1 /\ q \in Int
  BY Division
<1>2. q = b * d + e /\ e \in 0 .. b - 1 /\ d \in Int
  <2> HIDE DEF q
  <2> QED  BY <1>1, Division
<1> HIDE DEF q, r, d, e
<1>3. s \in 0 .. m - 1 /\ m \in Nat \ {0}
  <2>1. a * e \in Nat /\ a * b = a * (b - 1) + a /\ a * b \in Nat \ {0}
    BY <1>2
  <2>2. a * e <= a * (b - 1)
    BY <1>2
  <2>3. a * (b - 1) \in Nat
    OBVIOUS
  <2> QED  BY <1>1, <2>1, <2>2, <2>3
<1>4. x = m * d + s
  <2>1. a * (b * d + e) = (a * b) * d + a * e
    BY <1>2
  <2> QED  BY <1>1, <1>2, <2>1
<1> HIDE DEF m, s
<1>5. x \div m = d
  BY <1>2, <1>3, <1>4, Remains
<1> QED  BY <1>5 DEF d, m, q

(* The remainder of a larger modulus keeps that of a factor. *)
LEMMA RemainsTwice ==
  ASSUME NEW a \in Nat \ {0}, NEW b \in Nat \ {0}, NEW x \in Int
  PROVE  /\ x % (a * b) = (a * ((x \div a) % b)) + (x % a)
         /\ (x % (a * b)) % a = x % a
         /\ (x % (a * b)) \div a = (x \div a) % b
<1> DEFINE q == x \div a
           r == x % a
           d == q \div b
           e == q % b
           m == a * b
           s == a * e + r
<1>1. x = a * q + r /\ r \in 0 .. a - 1 /\ q \in Int
  BY Division
<1>2. q = b * d + e /\ e \in 0 .. b - 1 /\ d \in Int
  <2> HIDE DEF q
  <2> QED  BY <1>1, Division
<1> HIDE DEF q, r, d, e
<1>3. s \in 0 .. m - 1 /\ m \in Nat \ {0}
  <2>1. a * e \in Nat /\ a * b = a * (b - 1) + a /\ a * b \in Nat \ {0}
    BY <1>2
  <2>2. a * e <= a * (b - 1)
    BY <1>2
  <2>3. a * (b - 1) \in Nat
    OBVIOUS
  <2> QED  BY <1>1, <2>1, <2>2, <2>3
<1>4. x = m * d + s
  <2>1. a * (b * d + e) = (a * b) * d + a * e
    BY <1>2
  <2> QED  BY <1>1, <1>2, <2>1
<1>5. s = a * e + r /\ s \in Int /\ e \in Int
  BY <1>1, <1>2, <1>3
<1> HIDE DEF m, s
<1>6. x % m = s
  BY <1>2, <1>3, <1>4, Remains
<1>7. s % a = r /\ s \div a = e
  BY <1>1, <1>5, Remains
<1>8. x % m = a * e + r /\ (x % m) % a = r /\ (x % m) \div a = e
  BY <1>5, <1>6, <1>7
<1> QED  BY <1>8 DEF e, m, q, r

(* The digits of a numeral are what remains of its quotients by powers of   *)
(* the radix.                                                              *)
LEMMA NumeralDigit ==
  ASSUME NEW radix \in Nat \ {0}, NEW n \in Nat, NEW c \in Counters(radix, n), NEW d \in 1 .. n
  PROVE  (Numeral(c, radix, n) \div Power(radix, n - d)) % radix = c[d]
<1>1. PICK u : IsValues(u, c, radix, n) /\ Numeral(c, radix, n) = u[n]
  BY NumeralIs
<1>2. ASSUME NEW k \in 0 .. n PROVE u[k] \in Nat
  <2>1. u[k] \in 0 .. Power(radix, k) - 1 /\ Power(radix, k) \in Nat
    BY <1>1, PrefixBound, PowerType
  <2> QED  BY <2>1
<1>3. ASSUME NEW k \in 1 .. n
      PROVE  u[k] \div radix = u[k - 1] /\ u[k] % radix = c[k]
  <2> DEFINE a == u[k - 1]  b == u[k]  e == c[k]
  <2>1. b = a * radix + e /\ e \in 0 .. radix - 1 /\ a \in Nat /\ b \in Nat
    BY <1>1, <1>2 DEF IsValues, Counters
  <2> HIDE DEF a, b, e
  <2>2. b = radix * a + e /\ b \in Int /\ a \in Int
    BY <2>1
  <2>3. b \div radix = a /\ b % radix = e
    BY <2>1, <2>2, Remains
  <2> QED  BY <2>3 DEF a, b, e
<1> DEFINE P == {k \in Nat : k <= n => u[n] \div Power(radix, k) = u[n - k]}
<1>4. 0 \in P
  <2>1. Power(radix, 0) = 1 /\ u[n] \in Nat /\ n - 0 = n
    BY <1>2, PowerSteps
  <2> DEFINE x == u[n]
  <2>2. x \in Nat
    BY <2>1
  <2> HIDE DEF x
  <2>3. x \div 1 = x
    BY <2>2
  <2> QED  BY <2>1, <2>3 DEF x
<1>5. ASSUME NEW k \in Nat, k \in P PROVE k + 1 \in P
  <2>1. SUFFICES ASSUME k + 1 <= n PROVE u[n] \div Power(radix, k + 1) = u[n - (k + 1)]
    OBVIOUS
  <2> DEFINE p == Power(radix, k)
             x == u[n]
  <2>2. p \in Nat \ {0} /\ Power(radix, k + 1) = radix * p
    BY PowerType, PowerSteps
  <2>3. x \in Nat /\ x \div p = u[n - k]
    BY <1>2, <1>5, <2>1
  <2>4. u[n - k] \div radix = u[(n - k) - 1] /\ (n - k) - 1 = n - (k + 1)
    BY <1>3, <2>1
  <2> HIDE DEF p, x
  <2>5. (x \div p) \div radix = x \div (p * radix) /\ p * radix = radix * p
    BY <2>2, <2>3, DivisionTwice
  <2>6. x \div Power(radix, k + 1) = u[n - (k + 1)]
    BY <2>2, <2>3, <2>4, <2>5
  <2> QED  BY <2>6 DEF x
<1> HIDE DEF P
<1>6. Nat \subseteq P
  BY <1>4, <1>5, Induction
<1>7. n - d \in Nat /\ n - d <= n /\ n - (n - d) = d
  OBVIOUS
<1>8. u[n] \div Power(radix, n - d) = u[n - (n - d)]
  BY <1>6, <1>7 DEF P
<1> QED  BY <1>1, <1>3, <1>7, <1>8

-----------------------------------------------------------------------------
(* The bits of a number, counted from the right. *)

(* A bit. *)
Bit(x, n) == (x \div Power(2, n)) % 2

(* A bit is zero or one. *)
LEMMA BitType ==
  ASSUME NEW x \in Int, NEW n \in Nat
  PROVE  Bit(x, n) \in {0, 1}
<1> DEFINE p == Power(2, n)
           q == x \div p
<1>1. p \in Nat \ {0}
  BY Twos
<1> HIDE DEF p
<1>2. q \in Int
  BY <1>1, Division
<1> HIDE DEF q
<1>3. q % 2 \in {0, 1}
  BY <1>2
<1> QED  BY <1>3 DEF Bit, q, p

(* One more low bit. *)
LEMMA LowStep ==
  ASSUME NEW x \in Int, NEW n \in Nat
  PROVE  x % Power(2, n + 1) = (Power(2, n) * Bit(x, n)) + (x % Power(2, n))
<1> DEFINE p == Power(2, n)
<1>1. p \in Nat \ {0} /\ Power(2, n + 1) = 2 * p
  BY Twos, PowerSteps
<1> HIDE DEF p
<1> DEFINE b == 2
<1>2. b \in Nat \ {0} /\ p * b = 2 * p
  BY <1>1
<1> HIDE DEF b
<1>3. x % (p * b) = (p * ((x \div p) % b)) + (x % p)
  BY <1>1, <1>2, RemainsTwice
<1> QED  BY <1>1, <1>2, <1>3 DEF Bit, p, b

(* Numbers with the same low bits are the same modulo a power of two. *)
LEMMA LowBits ==
  ASSUME NEW x \in Int, NEW y \in Int, NEW n \in Nat,
         \A k \in 0 .. n - 1 : Bit(x, k) = Bit(y, k)
  PROVE  x % Power(2, n) = y % Power(2, n)
<1> DEFINE P == {m \in Nat : m <= n => x % Power(2, m) = y % Power(2, m)}
<1>1. 0 \in P
  <2>1. Power(2, 0) = 1 /\ x % 1 = 0 /\ y % 1 = 0
    BY PowerSteps
  <2> QED  BY <2>1
<1>2. ASSUME NEW m \in Nat, m \in P PROVE m + 1 \in P
  <2>1. SUFFICES ASSUME m + 1 <= n PROVE x % Power(2, m + 1) = y % Power(2, m + 1)
    OBVIOUS
  <2>2. Bit(x, m) = Bit(y, m) /\ x % Power(2, m) = y % Power(2, m)
    BY <1>2, <2>1
  <2>3. /\ x % Power(2, m + 1) = (Power(2, m) * Bit(x, m)) + (x % Power(2, m))
        /\ y % Power(2, m + 1) = (Power(2, m) * Bit(y, m)) + (y % Power(2, m))
    BY LowStep
  <2> QED  BY <2>2, <2>3
<1> HIDE DEF P
<1>3. Nat \subseteq P
  BY <1>1, <1>2, Induction
<1> QED  BY <1>3 DEF P

(* Shifting right renumbers the bits. *)
LEMMA BitOfQuotient ==
  ASSUME NEW x \in Int, NEW s \in Nat, NEW k \in Nat
  PROVE  Bit(x \div Power(2, s), k) = Bit(x, k + s)
<1> DEFINE p == Power(2, s)
           q == Power(2, k)
<1>1. p \in Nat \ {0} /\ q \in Nat \ {0}
  BY Twos
<1>2. Power(2, s + k) = p * q /\ s + k = k + s
  BY TwosAdd
<1> HIDE DEF p, q
<1>3. (x \div p) \div q = x \div (p * q)
  BY <1>1, DivisionTwice
<1>4. x \div (p * q) = x \div Power(2, k + s)
  BY <1>2
<1> QED  BY <1>3, <1>4 DEF Bit, p, q

(* The bits of a number whose low s are y's and the others x's. *)
LEMMA BitOfJoin ==
  ASSUME NEW x \in Int, NEW s \in Nat, NEW y \in 0 .. Power(2, s) - 1, NEW k \in Nat
  PROVE  Bit((Power(2, s) * x) + y, k) = IF k < s THEN Bit(y, k) ELSE Bit(x, k - s)
<1> DEFINE p == Power(2, s)
           z == (p * x) + y
<1>1. p \in Nat \ {0} /\ y \in 0 .. p - 1
  BY Twos
<1>2. z \in Int /\ z = (p * x) + y
  BY <1>1
<1> HIDE DEF p, z
<1>3. z % p = y /\ z \div p = x
  BY <1>1, <1>2, Remains
<1>4. CASE k >= s
  <2>1. k - s \in Nat /\ (k - s) + s = k
    BY <1>4
  <2>2. Bit(z \div p, k - s) = Bit(z, k)
    BY <1>2, <2>1, BitOfQuotient DEF p
  <2> QED  BY <1>3, <1>4, <2>2 DEF p, z
<1>5. CASE k < s
  <2> DEFINE q == Power(2, k)
             t == Power(2, (s - k) - 1)
             r == 2 * t
  <2>1. k \in Nat /\ s - k \in Nat /\ (s - k) - 1 \in Nat /\ k + (s - k) = s /\ s - k # 0
    BY <1>5
  <2>2. q \in Nat \ {0} /\ t \in Nat \ {0} /\ Power(2, s - k) = 2 * t
    BY <2>1, Twos
  <2>3. p = q * Power(2, s - k)
    BY <2>1, TwosAdd DEF p
  <2> HIDE DEF q, t
  <2>4. r \in Nat \ {0} /\ p = q * r
    BY <2>2, <2>3
  <2> HIDE DEF r
  <2>5. (z % (q * r)) \div q = (z \div q) % r
    BY <1>2, <2>2, <2>4, RemainsTwice
  <2> DEFINE w == z \div q
  <2>6. w \in Int
    BY <1>2, <2>2, Division
  <2> HIDE DEF w
  <2>7. (w % (2 * t)) % 2 = w % 2
    <3> DEFINE b == 2
    <3>1. b \in Nat \ {0}
      OBVIOUS
    <3> HIDE DEF b
    <3>2. (w % (b * t)) % b = w % b
      BY <2>2, <2>6, <3>1, RemainsTwice
    <3> QED  BY <3>2 DEF b
  <2>8. y \div q = w % r
    BY <1>3, <2>4, <2>5 DEF w
  <2>9. (y \div q) % 2 = w % 2
    BY <2>7, <2>8 DEF r
  <2> QED  BY <1>5, <2>9 DEF Bit, w, q, z, p
<1> QED  BY <1>4, <1>5

(* A small number has no high bits. *)
LEMMA BitOfSmall ==
  ASSUME NEW n \in Nat, NEW x \in 0 .. Power(2, n) - 1, NEW k \in Nat, k >= n
  PROVE  Bit(x, k) = 0
<1> DEFINE p == Power(2, k)
<1>1. Power(2, n) <= p /\ p \in Nat \ {0} /\ Power(2, n) \in Nat
  BY TwosGrow, Twos
<1> HIDE DEF p
<1>2. x \in 0 .. p - 1 /\ x \in Int /\ x = p * 0 + x /\ 0 \in Int
  BY <1>1
<1>3. x \div p = 0
  BY ONLY <1>1, <1>2, Remains
<1> QED  BY <1>3 DEF Bit, p

(* Truncation clears the high bits. *)
LEMMA BitOfLow ==
  ASSUME NEW x \in Int, NEW n \in Nat, NEW k \in Nat
  PROVE  Bit(x % Power(2, n), k) = IF k < n THEN Bit(x, k) ELSE 0
<1> DEFINE p == Power(2, n)
           q == x \div p
           r == x % p
<1>1. p \in Nat \ {0}
  BY Twos
<1> HIDE DEF p
<1>2. x = (p * q) + r /\ r \in 0 .. p - 1 /\ q \in Int
  BY <1>1, Division
<1> HIDE DEF q, r
<1>3. r \in 0 .. Power(2, n) - 1 /\ x = (Power(2, n) * q) + r
  BY <1>2 DEF p
<1>4. Bit((Power(2, n) * q) + r, k) = IF k < n THEN Bit(r, k) ELSE Bit(q, k - n)
  BY <1>2, <1>3, BitOfJoin
<1>5. Bit(x, k) = IF k < n THEN Bit(r, k) ELSE Bit(q, k - n)
  BY <1>3, <1>4
<1>6. k >= n => Bit(r, k) = 0
  BY <1>3, BitOfSmall
<1> QED  BY <1>5, <1>6 DEF r, p

(* A number above its low s bits alone. *)
LEMMA BitOfTimes ==
  ASSUME NEW x \in Int, NEW s \in Nat, NEW k \in Nat
  PROVE  Bit(Power(2, s) * x, k) = IF k < s THEN 0 ELSE Bit(x, k - s)
<1>1. Power(2, s) \in Nat \ {0} /\ 0 \in 0 .. Power(2, s) - 1
  BY Twos
<1>2. Bit((Power(2, s) * x) + 0, k) = IF k < s THEN Bit(0, k) ELSE Bit(x, k - s)
  BY <1>1, BitOfJoin
<1>3. (Power(2, s) * x) + 0 = Power(2, s) * x
  BY <1>1
<1>4. Power(2, 0) = 1 /\ 0 \in 0 .. Power(2, 0) - 1
  BY PowerSteps
<1>5. Bit(0, k) = 0
  BY <1>4, BitOfSmall
<1> QED  BY <1>2, <1>3, <1>5

(* Complement to n bits. *)
LEMMA BitOfNot ==
  ASSUME NEW n \in Nat, NEW x \in Int, NEW k \in 0 .. n - 1
  PROVE  Bit(Power(2, n) - 1 - x, k) = 1 - Bit(x, k)
<1> DEFINE p == Power(2, k)
           t == Power(2, (n - k) - 1)
           q == x \div p
           r == x % p
           z == Power(2, n) - 1 - x
           e == 2 * t - 1 - q
           s == p - 1 - r
<1>1. k \in Nat /\ n - k \in Nat /\ (n - k) - 1 \in Nat /\ k + (n - k) = n /\ n - k # 0
  OBVIOUS
<1>2. p \in Nat \ {0} /\ t \in Nat \ {0} /\ Power(2, n - k) = 2 * t
  BY <1>1, Twos
<1>3. Power(2, n) = p * (2 * t)
  BY <1>1, <1>2, TwosAdd
<1> HIDE DEF p, t
<1>4. x = (p * q) + r /\ r \in 0 .. p - 1 /\ q \in Int
  BY <1>2, Division
<1> HIDE DEF q, r
<1>5. e \in Int /\ s \in 0 .. p - 1
  BY <1>2, <1>4
<1>6. z = p * e + s /\ z \in Int
  <2>1. p * (2 * t - 1 - q) = p * (2 * t) - p - p * q
    BY <1>2, <1>4
  <2> QED  BY <1>2, <1>3, <1>4, <2>1
<1>7. e % 2 = 1 - (q % 2)
  BY <1>2, <1>4
<1> HIDE DEF e, s, z
<1>8. z \div p = e
  BY <1>2, <1>5, <1>6, Remains
<1>9. (z \div p) % 2 = 1 - (q % 2)
  BY <1>7, <1>8
<1> QED  BY <1>9 DEF Bit, z, p, q

-----------------------------------------------------------------------------
(* Words and the sets of their ones. *)

(* What the assumptions say of the widths. *)
LEMMA Sizes ==
  /\ Bits \in Nat \ {0} /\ WordBits \in Nat \ {0, 1} /\ Bits = 2 * WordBits
  /\ ImmBits \in Nat \ {0} /\ ImmBits < WordBits
  /\ Power(2, Bits) \in Nat \ {0} /\ Power(2, WordBits) \in Nat \ {0}
  /\ Power(2, Bits) = Power(2, WordBits) * Power(2, WordBits)
  /\ Word = 0 .. Power(2, Bits) - 1 /\ 0 \in Word
<1>1. /\ Bits \in Nat \ {0} /\ WordBits \in Nat \ {0, 1} /\ Bits = 2 * WordBits
      /\ ImmBits \in Nat \ {0} /\ ImmBits < WordBits
  BY WordAssumption, OneStepAssumption
<1>2. Power(2, Bits) \in Nat \ {0} /\ Power(2, WordBits) \in Nat \ {0}
  BY <1>1, Twos
<1>3. WordBits + WordBits = Bits /\ WordBits \in Nat
  BY <1>1
<1>4. Power(2, WordBits + WordBits) = Power(2, WordBits) * Power(2, WordBits)
  BY <1>3, TwosAdd
<1> QED  BY <1>1, <1>2, <1>3, <1>4 DEF Word

(* A word is a natural below 2^Bits. *)
LEMMA InWord ==
  ASSUME NEW x \in Word
  PROVE  x \in Nat /\ x < Power(2, Bits) /\ x % Power(2, Bits) = x
<1>1. x \in 0 .. Power(2, Bits) - 1 /\ Power(2, Bits) \in Nat \ {0}
  BY Sizes
<1> QED  BY <1>1, ModSmall

(* uint64_t arithmetic forgets multiples of 2^Bits. *)
LEMMA WrapIs ==
  ASSUME NEW x \in Int
  PROVE  Wrap(x) \in Word /\ \A q \in Int : Wrap(x + Power(2, Bits) * q) = Wrap(x)
<1>1. x % Power(2, Bits) \in 0 .. Power(2, Bits) - 1
  BY Sizes, Division
<1>2. ASSUME NEW q \in Int PROVE (x + Power(2, Bits) * q) % Power(2, Bits) = x % Power(2, Bits)
  BY Sizes, Units
<1> QED  BY <1>1, <1>2, Sizes DEF Wrap

(* Patterns count from the left, Bit from the right. *)
LEMMA OneBits ==
  ASSUME NEW x, NEW p \in Pattern
  PROVE  p \in BitsOf(x) <=> Bit(x, Bits - 1 - p) = 1
BY DEF BitsOf, Bit

(* A set of positions is the ones of a number bit by bit. *)
LEMMA OnesAre ==
  ASSUME NEW x, NEW S, S \subseteq Pattern,
         \A k \in 0 .. Bits - 1 : Bit(x, k) = 1 <=> Bits - 1 - k \in S
  PROVE  BitsOf(x) = S
<1>1. ASSUME NEW p \in Pattern PROVE p \in BitsOf(x) <=> p \in S
  <2>1. Bits - 1 - p \in 0 .. Bits - 1 /\ Bits - 1 - (Bits - 1 - p) = p
    BY Sizes DEF Pattern
  <2> QED  BY <2>1, OneBits
<1>2. BitsOf(x) \subseteq Pattern
  BY DEF BitsOf
<1> QED  BY <1>1, <1>2

(* The ones determine the number modulo 2^Bits. *)
LEMMA SameBits ==
  ASSUME NEW x \in Int, NEW y \in Int, BitsOf(x) = BitsOf(y)
  PROVE  x % Power(2, Bits) = y % Power(2, Bits)
<1>1. ASSUME NEW k \in 0 .. Bits - 1 PROVE Bit(x, k) = Bit(y, k)
  <2>1. Bits - 1 - k \in Pattern /\ Bits - 1 - (Bits - 1 - k) = k /\ k \in Nat
    BY Sizes DEF Pattern
  <2>2. Bit(x, k) = 1 <=> Bit(y, k) = 1
    BY <2>1, OneBits
  <2>3. Bit(x, k) \in {0, 1} /\ Bit(y, k) \in {0, 1}
    BY <2>1, BitType
  <2> QED  BY <2>2, <2>3
<1>2. Bits \in Nat
  BY Sizes
<1> QED  BY <1>1, <1>2, LowBits

(* The ones determine the word. *)
LEMMA SameWord ==
  ASSUME NEW x \in Word, NEW y \in Word, BitsOf(x) = BitsOf(y)
  PROVE  x = y
<1>1. x \in Int /\ y \in Int /\ x % Power(2, Bits) = x /\ y % Power(2, Bits) = y
  BY InWord
<1> QED  BY <1>1, SameBits

(* The number of a set of ones has them. *)
LEMMA ValueBits ==
  ASSUME NEW S, S \subseteq Pattern
  PROVE  Value(S) \in Word /\ BitsOf(Value(S)) = S
<1> DEFINE c == [d \in 1 .. Bits |-> IF d - 1 \in S THEN 1 ELSE 0]
           v == Numeral(c, 2, Bits)
           r == 2
<1>1. r \in Nat \ {0} /\ Bits \in Nat /\ c \in Counters(r, Bits)
  BY Sizes DEF Counters
<1>2. Numeral(c, r, Bits) \in 0 .. Power(r, Bits) - 1
  <2> HIDE DEF r, c
  <2> QED  BY <1>1, NumeralBound
<1>3. ASSUME NEW d \in 1 .. Bits PROVE (Numeral(c, r, Bits) \div Power(r, Bits - d)) % r = c[d]
  <2> HIDE DEF r, c
  <2> QED  BY <1>1, NumeralDigit
<1>4. ASSUME NEW p \in Pattern PROVE p \in BitsOf(v) <=> p \in S
  <2>1. p + 1 \in 1 .. Bits /\ Bits - (p + 1) = Bits - 1 - p /\ (p + 1) - 1 = p
    BY Sizes DEF Pattern
  <2>2. c[p + 1] = IF p \in S THEN 1 ELSE 0
    BY <2>1
  <2>3. (v \div Power(2, Bits - 1 - p)) % 2 = c[p + 1]
    <3> HIDE DEF c
    <3>1. (Numeral(c, r, Bits) \div Power(r, Bits - (p + 1))) % r = c[p + 1]
      BY <1>3, <2>1
    <3> QED  BY <2>1, <3>1
  <2> HIDE DEF c, v
  <2> QED  BY <2>2, <2>3 DEF BitsOf
<1>5. BitsOf(v) \subseteq Pattern
  BY DEF BitsOf
<1>6. v \in Word
  <2> HIDE DEF c
  <2> QED  BY <1>2, Sizes
<1>7. Value(S) = v
  BY DEF Value
<1> HIDE DEF v
<1> QED  BY <1>4, <1>5, <1>6, <1>7

(* The logical operators are those of sets. *)
LEMMA LogicBits ==
  ASSUME NEW x, NEW y
  PROVE  /\ And(x, y) \in Word /\ BitsOf(And(x, y)) = BitsOf(x) \cap BitsOf(y)
         /\ Or(x, y) \in Word /\ BitsOf(Or(x, y)) = BitsOf(x) \cup BitsOf(y)
         /\ Xor(x, y) \in Word /\ BitsOf(Xor(x, y)) = (BitsOf(x) \cup BitsOf(y)) \ (BitsOf(x) \cap BitsOf(y))
<1>1. BitsOf(x) \subseteq Pattern /\ BitsOf(y) \subseteq Pattern
  BY DEF BitsOf
<1>2. /\ BitsOf(x) \cap BitsOf(y) \subseteq Pattern
      /\ BitsOf(x) \cup BitsOf(y) \subseteq Pattern
      /\ SymDiff(BitsOf(x), BitsOf(y)) \subseteq Pattern
      /\ SymDiff(BitsOf(x), BitsOf(y)) = (BitsOf(x) \cup BitsOf(y)) \ (BitsOf(x) \cap BitsOf(y))
  BY <1>1 DEF SymDiff
<1> QED  BY <1>2, ValueBits DEF And, Or, Xor

(* The complement of a word has the other ones. *)
LEMMA NotBits ==
  ASSUME NEW x \in Word
  PROVE  Not(x) \in Word /\ BitsOf(Not(x)) = Pattern \ BitsOf(x)
<1> DEFINE t == Power(2, Bits)
<1>0. x \in 0 .. t - 1 /\ x \in Int /\ t \in Nat \ {0} /\ Word = 0 .. t - 1 /\ Not(x) = t - 1 - x
  BY Sizes DEF Not
<1>1. Not(x) \in Word
  <2> HIDE DEF t
  <2> QED  BY <1>0
<1>2. ASSUME NEW k \in 0 .. Bits - 1
      PROVE  Bit(Not(x), k) = 1 <=> Bits - 1 - k \in Pattern \ BitsOf(x)
  <2>1. Bits - 1 - k \in Pattern /\ Bits - 1 - (Bits - 1 - k) = k /\ k \in Nat
    BY Sizes DEF Pattern
  <2>2. Bit(t - 1 - x, k) = 1 - Bit(x, k)
    BY <1>0, Sizes, BitOfNot
  <2>3. Bit(x, k) \in {0, 1}
    BY <1>0, <2>1, BitType
  <2> HIDE DEF t
  <2> QED  BY <1>0, <2>1, <2>2, <2>3, OneBits
<1>3. Pattern \ BitsOf(x) \subseteq Pattern
  OBVIOUS
<1> QED  BY <1>1, <1>2, <1>3, OnesAre

(* No ones and all ones. *)
LEMMA ZeroBits == BitsOf(0) = {} /\ Not(0) \in Word /\ BitsOf(Not(0)) = Pattern
<1>1. ASSUME NEW k \in 0 .. Bits - 1 PROVE Bit(0, k) = 0
  <2>1. 0 \in Nat /\ 0 \in 0 .. Power(2, 0) - 1 /\ k \in Nat /\ k >= 0
    BY FirstTwos
  <2> QED  BY <2>1, BitOfSmall
<1>2. ASSUME NEW p \in Pattern PROVE p \notin BitsOf(0)
  <2>1. Bits - 1 - p \in 0 .. Bits - 1
    BY Sizes DEF Pattern
  <2> QED  BY <1>1, <2>1, OneBits
<1>3. BitsOf(0) = {}
  <2>1. BitsOf(0) \subseteq Pattern
    BY DEF BitsOf
  <2> QED  BY <1>2, <2>1
<1> QED  BY <1>3, NotBits, Sizes

(* GenerateMask64 is the architecture's mask. *)
LEMMA MaskBits ==
  ASSUME NEW mb \in Pattern, NEW me \in Pattern
  PROVE  GenerateMask64(mb, me) \in Word /\ BitsOf(GenerateMask64(mb, me)) = MASK(mb, me)
<1> DEFINE S == IF mb <= me THEN Interval(mb, me) ELSE Interval(0, me) \cup Interval(mb, Bits - 1)
<1>1. mb \in Nat /\ me \in Nat /\ mb < Bits /\ me < Bits /\ Bits \in Nat
  BY Sizes DEF Pattern
<1>2. S = MASK(mb, me) /\ S \subseteq Pattern
  BY <1>1 DEF Interval, MASK, Pattern
<1>3. CASE mb <= me
  BY <1>2, <1>3, ValueBits DEF GenerateMask64
<1>4. CASE mb = me + 1
  <2>1. ASSUME NEW p \in Pattern PROVE p \in S
    BY <1>1, <1>4 DEF Interval, Pattern
  <2>2. S = Pattern
    BY <1>2, <2>1
  <2> HIDE DEF S
  <2> QED  BY <1>1, <1>2, <1>4, <2>2, ZeroBits DEF GenerateMask64
<1>5. CASE ~(mb <= me) /\ mb # me + 1
  BY <1>2, <1>5, ValueBits DEF GenerateMask64
<1> QED  BY <1>3, <1>4, <1>5

-----------------------------------------------------------------------------
(* Rotates. *)

(* A rotate exchanges the quotient and the remainder of a power of two. *)
LEMMA RotateIs ==
  ASSUME NEW x \in Int, NEW n \in Nat \ {0}, NEW by \in Nat
  PROVE  LET s == by % n IN
         /\ s \in 0 .. n - 1 /\ n - s \in Nat \ {0}
         /\ RotateLeft(x, by, n)
              = (Power(2, s) * (x % Power(2, n - s))) + ((x \div Power(2, n - s)) % Power(2, s))
<1> DEFINE s == by % n
           m == n - s
           a == Power(2, s)
           b == Power(2, m)
           y == a * x
<1>1. s \in 0 .. n - 1
  BY Division
<1>2. RotateLeft(x, by, n) = ((x * a) % Power(2, n)) + ((x % Power(2, n)) \div b)
  BY DEF RotateLeft, Low
<1> HIDE DEF s
<1>3. s \in Nat /\ m \in Nat \ {0} /\ s + m = n /\ m + s = n
  BY <1>1
<1>4. a \in Nat \ {0} /\ b \in Nat \ {0}
  <2> HIDE DEF m
  <2> QED  BY <1>3, Twos
<1>5. Power(2, n) = a * b
  <2> HIDE DEF m
  <2> QED  BY <1>3, TwosAdd
<1>6. a * b = b * a /\ y \in Int /\ x * a = y
  <2> HIDE DEF a, b
  <2> QED  BY <1>4
<1> HIDE DEF a, b, m
<1>7. y = (a * x) + 0 /\ 0 \in 0 .. a - 1
  BY <1>4
<1>8. y \div a = x /\ y % a = 0
  <2> HIDE DEF y
  <2> QED  BY <1>4, <1>6, <1>7, Remains
<1> HIDE DEF y
<1>9. y % (a * b) = (a * ((y \div a) % b)) + (y % a)
  BY <1>4, <1>6, RemainsTwice
<1>10. (x % (b * a)) \div b = (x \div b) % a
  BY <1>4, RemainsTwice
<1>11. x % b \in Int
  BY <1>4, Division
<1>12. a * (x % b) \in Int
  <2> DEFINE r == x % b
  <2>1. r \in Int
    BY <1>11
  <2> HIDE DEF r
  <2>2. a * r \in Int
    BY <1>4, <2>1
  <2> QED  BY <2>2 DEF r
<1>13. y % (a * b) = a * (x % b)
  BY <1>8, <1>9, <1>12
<1>14. RotateLeft(x, by, n) = (a * (x % b)) + ((x \div b) % a)
  BY <1>2, <1>5, <1>6, <1>10, <1>13
<1> QED  BY <1>1, <1>3, <1>14 DEF a, b, m, s

(* The bits of a rotated number. *)
LEMMA RotateBits ==
  ASSUME NEW x \in Int, NEW n \in Nat \ {0}, NEW by \in Nat
  PROVE  LET s == by % n IN
         /\ RotateLeft(x, by, n) \in 0 .. Power(2, n) - 1
         /\ \A k \in 0 .. n - 1 :
              Bit(RotateLeft(x, by, n), k) = IF k < s THEN Bit(x, k + (n - s)) ELSE Bit(x, k - s)
<1> DEFINE s == by % n
           m == n - s
           a == Power(2, s)
           b == Power(2, m)
           h == x % b
           q == x \div b
           l == q % a
           z == RotateLeft(x, by, n)
<1>1. s \in 0 .. n - 1 /\ m \in Nat \ {0} /\ z = (a * h) + l
  BY RotateIs
<1> HIDE DEF s, z
<1>2. s \in Nat /\ s + m = n
  BY <1>1
<1> HIDE DEF m
<1>3. a \in Nat \ {0} /\ b \in Nat \ {0} /\ Power(2, n) = a * b
  BY <1>1, <1>2, Twos, TwosAdd
<1>4. h \in 0 .. b - 1 /\ q \in Int
  <2> HIDE DEF b
  <2> QED  BY <1>3, Division
<1>5. l \in 0 .. a - 1
  <2> HIDE DEF a, q
  <2> QED  BY <1>3, <1>4, Division
<1>6. z \in 0 .. Power(2, n) - 1
  <2> HIDE DEF h, l, a, b
  <2>1. h + 1 <= b
    BY <1>3, <1>4
  <2>2. a * (h + 1) <= a * b
    BY <1>3, <1>4, <2>1
  <2>3. a * (h + 1) = a * h + a
    BY <1>3, <1>4
  <2>4. a * h \in Nat /\ a * b \in Nat
    BY <1>3, <1>4
  <2> QED  BY <1>1, <1>3, <1>4, <1>5, <2>2, <2>3, <2>4
<1>7. ASSUME NEW k \in 0 .. n - 1
      PROVE  Bit(z, k) = IF k < s THEN Bit(x, k + m) ELSE Bit(x, k - s)
  <2>1. k \in Nat /\ h \in Int /\ Power(2, s) * h = a * h
    BY <1>4
  <2>2. Bit((Power(2, s) * h) + l, k) = IF k < s THEN Bit(l, k) ELSE Bit(h, k - s)
    <3> HIDE DEF h, l
    <3> QED  BY <1>2, <1>5, <2>1, BitOfJoin
  <2>3. CASE k < s
    <3>1. Bit(q % Power(2, s), k) = Bit(q, k)
      <4> HIDE DEF q
      <4> QED  BY <1>2, <1>4, <2>1, <2>3, BitOfLow
    <3>2. m \in Nat
      BY <1>1
    <3>3. Bit(x \div Power(2, m), k) = Bit(x, k + m)
      BY <2>1, <3>2, BitOfQuotient
    <3>4. Bit(l, k) = Bit(x, k + m)
      BY <3>1, <3>3
    <3> HIDE DEF h, l
    <3> QED  BY <1>1, <2>2, <2>3, <3>4
  <2>4. CASE k >= s
    <3>1. k - s \in Nat /\ k - s < m /\ m \in Nat /\ ~(k < s)
      BY <1>1, <1>2, <2>4
    <3>2. Bit(x % Power(2, m), k - s) = Bit(x, k - s)
      BY <3>1, BitOfLow
    <3>3. Bit(h, k - s) = Bit(x, k - s)
      BY <3>2
    <3> HIDE DEF h, l
    <3> QED  BY <1>1, <2>2, <3>1, <3>3
  <2> QED  BY <1>2, <2>1, <2>3, <2>4
<1> QED  BY <1>6, <1>7 DEF s, z, m

(* A position moved round a word. *)
LEMMA SumModulo ==
  ASSUME NEW n \in Nat \ {0}, NEW p \in 0 .. n - 1, NEW s \in 0 .. n - 1
  PROVE  /\ (p + s) % n = IF p + s < n THEN p + s ELSE p + s - n
         /\ (n + p + s) % n = IF p + s < n THEN p + s ELSE p + s - n
<1> DEFINE x == p + s
           y == n + p + s
<1>1. CASE p + s < n
  <2>1. x \in 0 .. n - 1 /\ x \in Int /\ y \in Int /\ x = n * 0 + x /\ y = n * 1 + x /\ 0 \in Int /\ 1 \in Int
    BY <1>1
  <2> HIDE DEF x, y
  <2>2. x % n = x /\ y % n = x
    BY <2>1, Remains
  <2> QED  BY <1>1, <2>2 DEF x, y
<1>2. CASE p + s >= n
  <2> DEFINE r == (p + s) - n
  <2>1. /\ r \in 0 .. n - 1 /\ x \in Int /\ y \in Int /\ 2 \in Int /\ 1 \in Int
        /\ x = n * 1 + r /\ y = n * 2 + r
    BY <1>2
  <2> HIDE DEF x, y, r
  <2>2. x % n = r /\ y % n = r
    BY <2>1, Remains
  <2> QED  BY <1>2, <2>2 DEF x, y, r
<1> QED  BY <1>1, <1>2

(* RotateLeft of a doubleword moves every one to the left, round the end. *)
LEMMA DoubleRotates ==
  ASSUME NEW x \in Word, NEW sh \in Pattern
  PROVE  /\ RotateLeft(x, sh, Bits) \in Word
         /\ BitsOf(RotateLeft(x, sh, Bits)) = {p \in Pattern : (p + sh) % Bits \in BitsOf(x)}
<1> DEFINE z == RotateLeft(x, sh, Bits)
           S == {p \in Pattern : (p + sh) % Bits \in BitsOf(x)}
<1>1. Bits \in Nat \ {0} /\ sh \in 0 .. Bits - 1 /\ sh \in Nat /\ x \in Int /\ Pattern = 0 .. Bits - 1
  BY Sizes, InWord DEF Pattern
<1> DEFINE s == sh % Bits
<1>2. s = sh
  BY <1>1, ModSmall
<1>3. /\ z \in 0 .. Power(2, Bits) - 1
      /\ \A k \in 0 .. Bits - 1 : Bit(z, k) = IF k < sh THEN Bit(x, k + (Bits - sh)) ELSE Bit(x, k - sh)
  <2>1. /\ z \in 0 .. Power(2, Bits) - 1
        /\ \A k \in 0 .. Bits - 1 : Bit(z, k) = IF k < s THEN Bit(x, k + (Bits - s)) ELSE Bit(x, k - s)
    BY <1>1, RotateBits
  <2> HIDE DEF s, z
  <2> QED  BY <1>2, <2>1
<1> HIDE DEF z, s
<1>4. ASSUME NEW k \in 0 .. Bits - 1 PROVE Bit(z, k) = 1 <=> Bits - 1 - k \in S
  <2> DEFINE p == Bits - 1 - k
             t == (p + sh) % Bits
  <2>1. p \in 0 .. Bits - 1 /\ p \in Pattern
    BY <1>1
  <2>2. t = IF p + sh < Bits THEN p + sh ELSE p + sh - Bits
    <3> HIDE DEF p
    <3> QED  BY <1>1, <2>1, SumModulo
  <2> HIDE DEF t
  <2>3. CASE k < sh
    <3>1. t \in Pattern /\ Bits - 1 - t = k + (Bits - sh)
      BY <1>1, <2>2, <2>3
    <3>2. t \in BitsOf(x) <=> Bit(x, Bits - 1 - t) = 1
      BY <3>1, OneBits
    <3>3. Bit(z, k) = Bit(x, Bits - 1 - t)
      BY <1>3, <2>3, <3>1
    <3> QED  BY <2>1, <3>2, <3>3 DEF t
  <2>4. CASE k >= sh
    <3>1. t \in Pattern /\ Bits - 1 - t = k - sh /\ ~(k < sh)
      BY <1>1, <2>2, <2>4
    <3>2. t \in BitsOf(x) <=> Bit(x, Bits - 1 - t) = 1
      BY <3>1, OneBits
    <3>3. Bit(z, k) = Bit(x, Bits - 1 - t)
      BY <1>3, <3>1
    <3> QED  BY <2>1, <3>2, <3>3 DEF t
  <2> QED  BY <1>1, <2>3, <2>4
<1>5. S \subseteq Pattern
  OBVIOUS
<1> HIDE DEF S
<1>6. BitsOf(z) = S
  BY <1>4, <1>5, OnesAre
<1> QED  BY <1>3, <1>6, Sizes DEF z, S

(* RotateLeft of a word leaves the rotated ones in the low half. *)
LEMMA WordRotates ==
  ASSUME NEW x \in Word, NEW sh \in 0 .. WordBits - 1
  PROVE  LET z == RotateLeft(Low(x, WordBits), sh, WordBits) IN
         /\ z \in Word
         /\ BitsOf(z) = {p \in Pattern : p >= WordBits /\ WordBits + ((p + sh) % WordBits) \in BitsOf(x)}
<1> DEFINE l == Low(x, WordBits)
           z == RotateLeft(l, sh, WordBits)
           S == {p \in Pattern : p >= WordBits /\ WordBits + ((p + sh) % WordBits) \in BitsOf(x)}
<1>1. /\ WordBits \in Nat \ {0} /\ Bits = WordBits + WordBits /\ sh \in Nat /\ x \in Int
      /\ Pattern = 0 .. Bits - 1
  BY Sizes, InWord DEF Pattern
<1>2. l \in 0 .. Power(2, WordBits) - 1 /\ l \in Int
  <2> DEFINE t == Power(2, WordBits)
  <2>1. t \in Nat \ {0} /\ l = x % t
    BY Sizes DEF Low
  <2> HIDE DEF t, l
  <2>2. x % t \in 0 .. t - 1
    BY <1>1, <2>1, Division
  <2> QED  BY <2>1, <2>2 DEF t
<1> DEFINE s == sh % WordBits
<1>3. s = sh
  BY <1>1, ModSmall
<1>4. /\ z \in 0 .. Power(2, WordBits) - 1
      /\ \A k \in 0 .. WordBits - 1 : Bit(z, k) = IF k < sh THEN Bit(l, k + (WordBits - sh)) ELSE Bit(l, k - sh)
  <2> HIDE DEF l
  <2>1. /\ z \in 0 .. Power(2, WordBits) - 1
        /\ \A k \in 0 .. WordBits - 1 : Bit(z, k) = IF k < s THEN Bit(l, k + (WordBits - s)) ELSE Bit(l, k - s)
    BY <1>1, <1>2, RotateBits
  <2> HIDE DEF s, z
  <2> QED  BY <1>3, <2>1
<1>5. ASSUME NEW k \in 0 .. WordBits - 1 PROVE Bit(l, k) = Bit(x, k)
  <2>1. k \in Nat /\ k < WordBits /\ WordBits \in Nat
    BY <1>1
  <2>2. Bit(x % Power(2, WordBits), k) = Bit(x, k)
    BY <1>1, <2>1, BitOfLow
  <2> QED  BY <2>2 DEF Low
<1>6. Power(2, WordBits) <= Power(2, Bits)
  <2>1. WordBits \in Nat /\ Bits \in Nat /\ WordBits <= Bits
    BY <1>1
  <2> QED  BY <2>1, TwosGrow
<1>7. z \in Word
  <2> HIDE DEF z
  <2> QED  BY <1>4, <1>6, Sizes
<1> HIDE DEF z, l, s
<1>8. ASSUME NEW k \in 0 .. Bits - 1 PROVE Bit(z, k) = 1 <=> Bits - 1 - k \in S
  <2> DEFINE p == Bits - 1 - k
             o == p - WordBits
             t == (p + sh) % WordBits
  <2>1. p \in 0 .. Bits - 1 /\ p \in Pattern /\ k \in Nat
    BY <1>1
  <2>2. CASE k >= WordBits
    <3>1. ~(p >= WordBits)
      BY <1>1, <2>2
    <3>2. Bit(z, k) = 0
      BY <1>1, <1>4, <2>1, <2>2, BitOfSmall
    <3> QED  BY <3>1, <3>2
  <2>3. CASE k < WordBits
    <3>1. o \in 0 .. WordBits - 1 /\ p = WordBits + o /\ p >= WordBits /\ WordBits + o + sh = p + sh
      BY <1>1, <2>3
    <3>2. t = IF o + sh < WordBits THEN o + sh ELSE o + sh - WordBits
      <4> HIDE DEF o, p
      <4>1. (WordBits + o + sh) % WordBits = IF o + sh < WordBits THEN o + sh ELSE o + sh - WordBits
        BY <1>1, <3>1, SumModulo
      <4> QED  BY <3>1, <4>1
    <3> HIDE DEF t
    <3> DEFINE u == WordBits + t
    <3>3. Bits - 1 - k \in S <=> u \in BitsOf(x)
      BY <2>1, <3>1 DEF t
    <3>4. CASE k < sh
      <4>1. u \in Pattern /\ Bits - 1 - u = k + (WordBits - sh) /\ k + (WordBits - sh) \in 0 .. WordBits - 1
        BY <1>1, <3>1, <3>2, <3>4
      <4>2. u \in BitsOf(x) <=> Bit(x, Bits - 1 - u) = 1
        BY <4>1, OneBits
      <4>3. Bit(z, k) = Bit(l, k + (WordBits - sh))
        BY <1>1, <1>4, <2>1, <2>3, <3>4
      <4>4. Bit(z, k) = Bit(x, Bits - 1 - u)
        BY <1>5, <4>1, <4>3
      <4> QED  BY <3>3, <4>2, <4>4
    <3>5. CASE k >= sh
      <4>1. u \in Pattern /\ Bits - 1 - u = k - sh /\ k - sh \in 0 .. WordBits - 1 /\ ~(k < sh)
        BY <1>1, <2>3, <3>1, <3>2, <3>5
      <4>2. u \in BitsOf(x) <=> Bit(x, Bits - 1 - u) = 1
        BY <4>1, OneBits
      <4>3. Bit(z, k) = Bit(l, k - sh)
        BY <1>1, <1>4, <2>1, <2>3, <4>1
      <4>4. Bit(z, k) = Bit(x, Bits - 1 - u)
        BY <1>5, <4>1, <4>3
      <4> QED  BY <3>3, <4>2, <4>4
    <3> QED  BY <1>1, <2>1, <3>4, <3>5
  <2> QED  BY <1>1, <2>1, <2>2, <2>3
<1>9. S \subseteq Pattern
  OBVIOUS
<1> HIDE DEF S
<1>10. BitsOf(z) = S
  BY <1>8, <1>9, OnesAre
<1> QED  BY <1>7, <1>10 DEF z, S, l

-----------------------------------------------------------------------------
(* Instructions and what is claimed of them. *)

(* The instruction is one that may be executed, or none. *)
Fetched == ir \in Instr \cup {NoInstr}

(* The operands of a fetched instruction have the widths of its form. *)
LEMMA Operands ==
  ASSUME Fetched
  PROVE  /\ ir.op \in XOForms => ir.a \in Word /\ ir.b \in Word /\ ir.rc \in BOOLEAN /\ ir.oe \in BOOLEAN
         /\ ir.op \in XForms => ir.a \in Word /\ ir.b \in Word /\ ir.rc \in BOOLEAN
         /\ ir.op = "srawi" => ir.b < WordBits
         /\ ir.op \in DForms => ir.a \in Word /\ ir.b \in 0 .. Power(2, ImmBits) - 1
         /\ ir.op \in MForms => /\ ir.a \in Word /\ ir.old \in Word /\ ir.rc \in BOOLEAN
                                /\ ir.sh \in 0 .. WordBits - 1
                                /\ ir.mb \in 0 .. WordBits - 1 /\ ir.me \in 0 .. WordBits - 1
         /\ ir.op \in MDForms => /\ ir.a \in Word /\ ir.old \in Word /\ ir.rc \in BOOLEAN
                                 /\ ir.sh \in Pattern /\ ir.mb \in Pattern
<1>1. CASE ir = NoInstr
  BY <1>1 DEF NoInstr, XOForms, XForms, DForms, MForms, MDForms
<1>2. CASE ir \in Instr
  <2>1. \/ ir.op \in XOForms /\ {ir.a, ir.b} \subseteq Word /\ {ir.oe, ir.rc} \subseteq BOOLEAN
        \/ ir.op \in XForms /\ {ir.a, ir.b} \subseteq Word /\ ir.rc \in BOOLEAN
             /\ (ir.op = "srawi" => ir.b < WordBits)
        \/ ir.op \in DForms /\ ir.a \in Word /\ ir.b \in 0 .. 2 ^^ ImmBits - 1
        \/ ir.op \in MForms /\ {ir.a, ir.old} \subseteq Word /\ ir.rc \in BOOLEAN
             /\ {ir.sh, ir.mb, ir.me} \subseteq 0 .. WordBits - 1
        \/ ir.op \in MDForms /\ {ir.a, ir.old} \subseteq Word /\ ir.rc \in BOOLEAN
             /\ {ir.sh, ir.mb} \subseteq Pattern
    BY <1>2, FixedPointAssumption
  <2>2. CASE ir.op \in XOForms /\ {ir.a, ir.b} \subseteq Word /\ {ir.oe, ir.rc} \subseteq BOOLEAN
    BY <2>2 DEF XOForms, XForms, DForms, MForms, MDForms
  <2>3. CASE ir.op \in XForms /\ {ir.a, ir.b} \subseteq Word /\ ir.rc \in BOOLEAN
             /\ (ir.op = "srawi" => ir.b < WordBits)
    BY <2>3 DEF XOForms, XForms, DForms, MForms, MDForms
  <2>4. CASE ir.op \in DForms /\ ir.a \in Word /\ ir.b \in 0 .. 2 ^^ ImmBits - 1
    BY <2>4 DEF XOForms, XForms, DForms, MForms, MDForms
  <2>5. CASE ir.op \in MForms /\ {ir.a, ir.old} \subseteq Word /\ ir.rc \in BOOLEAN
             /\ {ir.sh, ir.mb, ir.me} \subseteq 0 .. WordBits - 1
    BY <2>5 DEF XOForms, XForms, DForms, MForms, MDForms
  <2>6. CASE ir.op \in MDForms /\ {ir.a, ir.old} \subseteq Word /\ ir.rc \in BOOLEAN
             /\ {ir.sh, ir.mb} \subseteq Pattern
    BY <2>6 DEF XOForms, XForms, DForms, MForms, MDForms
  <2> QED  BY <2>1, <2>2, <2>3, <2>4, <2>5, <2>6
<1> QED  BY <1>1, <1>2 DEF Fetched

(* What is claimed of a bitwise instruction. *)
LEMMA BitwiseClaim ==
  ASSUME ir.op \in Bitwise, NEW r, BitsOf(r) = BitResult
  PROVE  AsArchitected(r)
BY DEF AsArchitected, Bitwise, MForms, MDForms

(* Instructions whose result is a number modulo 2^Bits. *)
ArithmeticForms == {"add", "subf", "neg", "addi", "li", "addis", "lis", "addc", "subfc", "addic", "subfic",
                    "mulld", "mullw", "mulli", "extsb", "extsh", "extsw",
                    "slw", "srw", "srd", "sraw", "srawi"}

(* What is claimed of an arithmetic instruction or a shift. *)
LEMMA ArithmeticClaim ==
  ASSUME ir.op \in ArithmeticForms, NEW r, r = Wrap(Arithmetic)
  PROVE  AsArchitected(r)
BY DEF AsArchitected, Bitwise, MForms, MDForms, ArithmeticForms, Quotients, HighProducts

(* Where a result goes, the state of a step that delivers r, and that it is  *)
(* the right one.                                                          *)
Leaves(r) == IF ir.op \in DForms \cup {"andc"} THEN Plain(r) ELSE Recorded(r)
Delivers(r) ==
  /\ r \in Word /\ rt' = r
  /\ cr0' = IF ir.op \notin DForms /\ ir.op # "andc" /\ ir.rc THEN Sign(r) ELSE cr0
Right(r) == Delivers(r) /\ (Conforming => AsArchitected(r))

(* setGPR and setCR0 deliver the result and its sign. *)
LEMMA Delivered ==
  ASSUME NEW r \in Word, Leaves(r)
  PROVE  Delivers(r)
BY DEF Leaves, Plain, Recorded, Delivers

(* A bitwise result with the right ones is right. *)
LEMMA BitwiseRight ==
  ASSUME NEW r, ir.op \in Bitwise, Leaves(r), r \in Word, Conforming => BitsOf(r) = BitResult
  PROVE  Right(r)
BY Delivered, BitwiseClaim DEF Right

(* An arithmetic result with the right number is right. *)
LEMMA ArithmeticRight ==
  ASSUME NEW r, ir.op \in ArithmeticForms, Leaves(r), r \in Word, Conforming => r = Wrap(Arithmetic)
  PROVE  Right(r)
BY Delivered, ArithmeticClaim DEF Right

-----------------------------------------------------------------------------
(* Logic and rotates. *)

(* and, nor, andc, or, xor. *)
LEMMA LogicalStep ==
  ASSUME Fetched, Logical
  PROVE  \E r : Right(r)
<1>1. CASE ir.op = "and"
  <2> DEFINE r == And(ir.a, ir.b)
  <2>1. Leaves(r)
    BY <1>1 DEF Logical, Is, Leaves, DForms
  <2>2. r \in Word /\ BitsOf(r) = BitResult
    BY <1>1, LogicBits DEF BitResult, OnesA, OnesB
  <2> HIDE DEF r
  <2>3. Right(r)
    BY <1>1, <2>1, <2>2, BitwiseRight DEF Bitwise
  <2> QED  BY <2>3
<1>2. CASE ir.op = "nor"
  <2> DEFINE r == Not(Or(ir.a, ir.b))
  <2>1. Leaves(r)
    BY <1>2 DEF Logical, Is, Leaves, DForms
  <2>2. r \in Word /\ BitsOf(r) = BitResult
    <3>1. Or(ir.a, ir.b) \in Word /\ BitsOf(Or(ir.a, ir.b)) = OnesA \cup OnesB
      BY LogicBits DEF OnesA, OnesB
    <3>2. BitResult = Pattern \ (OnesA \cup OnesB)
      BY <1>2 DEF BitResult
    <3> QED  BY <3>1, <3>2, NotBits
  <2> HIDE DEF r
  <2>3. Right(r)
    BY <1>2, <2>1, <2>2, BitwiseRight DEF Bitwise
  <2> QED  BY <2>3
<1>3. CASE ir.op = "andc"
  <2> DEFINE r == And(ir.a, Not(ir.b))
  <2>1. Leaves(r)
    BY <1>3 DEF Logical, Is, Leaves, DForms
  <2>2. r \in Word /\ BitsOf(r) = BitResult
    <3>1. ir.b \in Word
      BY <1>3, Operands DEF XForms
    <3>2. BitsOf(Not(ir.b)) = Pattern \ OnesB
      BY <3>1, NotBits DEF OnesB
    <3>3. r \in Word /\ BitsOf(r) = OnesA \cap BitsOf(Not(ir.b))
      BY LogicBits DEF OnesA
    <3>4. BitResult = OnesA \ OnesB /\ OnesA \subseteq Pattern
      BY <1>3 DEF BitResult, OnesA, BitsOf
    <3> QED  BY <3>2, <3>3, <3>4
  <2> HIDE DEF r
  <2>3. Right(r)
    BY <1>3, <2>1, <2>2, BitwiseRight DEF Bitwise
  <2> QED  BY <2>3
<1>4. CASE ir.op = "or"
  <2> DEFINE r == Or(ir.a, ir.b)
  <2>1. Leaves(r)
    BY <1>4 DEF Logical, Is, Leaves, DForms
  <2>2. r \in Word /\ BitsOf(r) = BitResult
    BY <1>4, LogicBits DEF BitResult, OnesA, OnesB
  <2> HIDE DEF r
  <2>3. Right(r)
    BY <1>4, <2>1, <2>2, BitwiseRight DEF Bitwise
  <2> QED  BY <2>3
<1>5. CASE ir.op = "xor"
  <2> DEFINE r == Xor(ir.a, ir.b)
  <2>1. Leaves(r)
    BY <1>5 DEF Logical, Is, Leaves, DForms
  <2>2. r \in Word /\ BitsOf(r) = BitResult
    BY <1>5, LogicBits DEF BitResult, OnesA, OnesB
  <2> HIDE DEF r
  <2>3. Right(r)
    BY <1>5, <2>1, <2>2, BitwiseRight DEF Bitwise
  <2> QED  BY <2>3
<1> QED  BY <1>1, <1>2, <1>3, <1>4, <1>5 DEF Logical, Is

(* ori, oris, xori. *)
LEMMA LogicalImmediateStep ==
  ASSUME Fetched, LogicalImmediate
  PROVE  \E r : Right(r)
<1>1. CASE ir.op = "ori"
  <2> DEFINE r == Or(ir.a, ir.b)
  <2>1. Leaves(r)
    BY <1>1 DEF LogicalImmediate, Is, Leaves, DForms
  <2>2. r \in Word /\ BitsOf(r) = BitResult
    BY <1>1, LogicBits DEF BitResult, OnesA, OnesB
  <2> HIDE DEF r
  <2>3. Right(r)
    BY <1>1, <2>1, <2>2, BitwiseRight DEF Bitwise
  <2> QED  BY <2>3
<1>2. CASE ir.op = "oris"
  <2> DEFINE r == Or(ir.a, ir.b * Power(2, ImmBits))
  <2>1. Leaves(r)
    BY <1>2 DEF LogicalImmediate, Is, Leaves, DForms
  <2>2. r \in Word /\ BitsOf(r) = BitResult
    BY <1>2, LogicBits DEF BitResult, OnesA, Immediately
  <2> HIDE DEF r
  <2>3. Right(r)
    BY <1>2, <2>1, <2>2, BitwiseRight DEF Bitwise
  <2> QED  BY <2>3
<1>3. CASE ir.op = "xori"
  <2> DEFINE r == Xor(ir.a, ir.b)
  <2>1. Leaves(r)
    BY <1>3 DEF LogicalImmediate, Is, Leaves, DForms
  <2>2. r \in Word /\ BitsOf(r) = BitResult
    BY <1>3, LogicBits DEF BitResult, OnesA, OnesB
  <2> HIDE DEF r
  <2>3. Right(r)
    BY <1>3, <2>1, <2>2, BitwiseRight DEF Bitwise
  <2> QED  BY <2>3
<1> QED  BY <1>1, <1>2, <1>3 DEF LogicalImmediate, Is

(* A rotate under a mask, and one that inserts. *)
LEMMA InsertBits ==
  ASSUME NEW r, NEW m \in Word
  PROVE  /\ Insert(r, m) \in Word
         /\ BitsOf(Insert(r, m)) = (BitsOf(r) \cap BitsOf(m)) \cup (Old \ BitsOf(m))
<1>1. BitsOf(Not(m)) = Pattern \ BitsOf(m)
  BY NotBits
<1>2. /\ BitsOf(And(r, m)) = BitsOf(r) \cap BitsOf(m)
      /\ BitsOf(And(ir.old, Not(m))) = Old \cap BitsOf(Not(m))
  BY LogicBits DEF Old
<1>3. Old \subseteq Pattern
  BY DEF Old, BitsOf
<1>4. /\ Insert(r, m) \in Word
      /\ BitsOf(Insert(r, m)) = BitsOf(And(r, m)) \cup BitsOf(And(ir.old, Not(m)))
  BY LogicBits DEF Insert
<1> QED  BY <1>1, <1>2, <1>3, <1>4

(* The mask of a word rotate lies in the low half unless it wraps. *)
LEMMA WordMaskIs ==
  ASSUME Fetched, ir.op \in MForms
  PROVE  /\ WordMask \in Word /\ BitsOf(WordMask) = RLWMask
         /\ Conforming => RLWMask \subseteq WordBits .. Bits - 1
<1>1. ir.mb \in 0 .. WordBits - 1 /\ ir.me \in 0 .. WordBits - 1
  BY Operands
<1>2. ir.mb + WordBits \in Pattern /\ ir.me + WordBits \in Pattern
  BY <1>1, Sizes DEF Pattern
<1>3. WordMask \in Word /\ BitsOf(WordMask) = RLWMask
  BY <1>2, MaskBits DEF WordMask, RLWMask
<1>4. ASSUME Conforming PROVE RLWMask \subseteq WordBits .. Bits - 1
  <2>1. ir.mb <= ir.me
    BY <1>4 DEF Conforming
  <2>2. ir.mb + WordBits <= ir.me + WordBits
    BY <1>1, <2>1, Sizes
  <2> QED  BY <1>1, <2>2, Sizes DEF RLWMask, MASK, Pattern
<1> QED  BY <1>3, <1>4

(* rlwinm, rlwimi. *)
LEMMA RotateWordStep ==
  ASSUME Fetched, RotateWord
  PROVE  \E r : Right(r)
<1>1. ir.op \in MForms /\ ir.op \in Bitwise /\ ir.op \notin DForms \cup {"andc"}
  BY DEF RotateWord, Is, MForms, Bitwise, DForms
<1>2. ir.a \in Word /\ ir.sh \in 0 .. WordBits - 1
  BY <1>1, Operands
<1>3. /\ RotatedWord \in Word
      /\ BitsOf(RotatedWord)
           = {p \in Pattern : p >= WordBits /\ WordBits + ((p + ir.sh) % WordBits) \in BitsOf(ir.a)}
  BY <1>2, WordRotates DEF RotatedWord
<1>4. ASSUME Conforming PROVE BitsOf(RotatedWord) \cap RLWMask = ROTL32 \cap RLWMask
  <2>1. ASSUME NEW p \in RLWMask PROVE p \in BitsOf(RotatedWord) <=> p \in ROTL32
    <3>1. p \in Pattern /\ p >= WordBits
      BY <1>1, <1>4, <2>1, WordMaskIs, Sizes DEF Pattern
    <3> QED  BY <1>3, <3>1 DEF ROTL32, OnesA
  <2> QED  BY <2>1
<1>5. CASE ir.op = "rlwinm"
  <2> DEFINE r == And(RotatedWord, WordMask)
  <2>1. Leaves(r)
    BY <1>1, <1>5 DEF RotateWord, Is, Leaves
  <2>2. r \in Word /\ BitsOf(r) = BitsOf(RotatedWord) \cap RLWMask
    BY <1>1, LogicBits, WordMaskIs
  <2>3. BitResult = ROTL32 \cap RLWMask
    BY <1>5 DEF BitResult
  <2> HIDE DEF r
  <2>4. Right(r)
    BY <1>1, <1>4, <2>1, <2>2, <2>3, BitwiseRight
  <2> QED  BY <2>4
<1>6. CASE ir.op = "rlwimi"
  <2> DEFINE r == Insert(RotatedWord, WordMask)
  <2>1. Leaves(r)
    BY <1>1, <1>6 DEF RotateWord, Is, Leaves
  <2>2. r \in Word /\ BitsOf(r) = (BitsOf(RotatedWord) \cap RLWMask) \cup (Old \ RLWMask)
    BY <1>1, InsertBits, WordMaskIs
  <2>3. BitResult = (ROTL32 \cap RLWMask) \cup (Old \ RLWMask)
    BY <1>6 DEF BitResult
  <2> HIDE DEF r
  <2>4. Right(r)
    BY <1>1, <1>4, <2>1, <2>2, <2>3, BitwiseRight
  <2> QED  BY <2>4
<1> QED  BY <1>5, <1>6 DEF RotateWord, Is

(* rldicl, rldicr, rldic, rldimi. *)
LEMMA RotateDoubleStep ==
  ASSUME Fetched, RotateDouble
  PROVE  \E r : Right(r)
<1>1. ir.op \in MDForms /\ ir.op \in Bitwise /\ ir.op \notin DForms \cup {"andc"}
  BY DEF RotateDouble, Is, MDForms, Bitwise, DForms
<1>2. ir.a \in Word /\ ir.sh \in Pattern /\ ir.mb \in Pattern
  BY <1>1, Operands
<1>3. BitsOf(RotatedDouble) = ROTL64
  BY <1>2, DoubleRotates DEF RotatedDouble, ROTL64, OnesA
<1>4. 0 \in Pattern /\ Bits - 1 \in Pattern /\ Bits - 1 - ir.sh \in Pattern
  BY <1>2, Sizes DEF Pattern
<1>5. UpTo \in Word /\ BitsOf(UpTo) = RLDMask
  BY <1>2, <1>4, MaskBits DEF UpTo, RLDMask
<1>6. CASE ir.op = "rldicl"
  <2> DEFINE r == And(RotatedDouble, GenerateMask64(ir.mb, Bits - 1))
  <2>1. Leaves(r)
    BY <1>1, <1>6 DEF RotateDouble, Is, Leaves
  <2>2. r \in Word /\ BitsOf(r) = ROTL64 \cap MASK(ir.mb, Bits - 1)
    BY <1>2, <1>3, <1>4, LogicBits, MaskBits
  <2>3. BitResult = ROTL64 \cap MASK(ir.mb, Bits - 1)
    BY <1>6 DEF BitResult
  <2> HIDE DEF r
  <2>4. Right(r)
    BY <1>1, <2>1, <2>2, <2>3, BitwiseRight
  <2> QED  BY <2>4
<1>7. CASE ir.op = "rldicr"
  <2> DEFINE r == And(RotatedDouble, GenerateMask64(0, ir.mb))
  <2>1. Leaves(r)
    BY <1>1, <1>7 DEF RotateDouble, Is, Leaves
  <2>2. r \in Word /\ BitsOf(r) = ROTL64 \cap MASK(0, ir.mb)
    BY <1>2, <1>3, <1>4, LogicBits, MaskBits
  <2>3. BitResult = ROTL64 \cap MASK(0, ir.mb)
    BY <1>7 DEF BitResult
  <2> HIDE DEF r
  <2>4. Right(r)
    BY <1>1, <2>1, <2>2, <2>3, BitwiseRight
  <2> QED  BY <2>4
<1>8. CASE ir.op = "rldic"
  <2> DEFINE r == And(RotatedDouble, UpTo)
  <2>1. Leaves(r)
    BY <1>1, <1>8 DEF RotateDouble, Is, Leaves
  <2>2. r \in Word /\ BitsOf(r) = ROTL64 \cap RLDMask
    BY <1>2, <1>3, <1>4, LogicBits, <1>5
  <2>3. BitResult = ROTL64 \cap RLDMask
    BY <1>8 DEF BitResult
  <2> HIDE DEF r
  <2>4. Right(r)
    BY <1>1, <2>1, <2>2, <2>3, BitwiseRight
  <2> QED  BY <2>4
<1>9. CASE ir.op = "rldimi"
  <2> DEFINE r == Insert(RotatedDouble, UpTo)
  <2>1. Leaves(r)
    BY <1>1, <1>9 DEF RotateDouble, Is, Leaves
  <2>2. r \in Word /\ BitsOf(r) = (ROTL64 \cap RLDMask) \cup (Old \ RLDMask)
    BY <1>2, <1>3, <1>4, InsertBits, <1>5
  <2>3. BitResult = (ROTL64 \cap RLDMask) \cup (Old \ RLDMask)
    BY <1>9 DEF BitResult
  <2> HIDE DEF r
  <2>4. Right(r)
    BY <1>1, <2>1, <2>2, <2>3, BitwiseRight
  <2> QED  BY <2>4
<1> QED  BY <1>6, <1>7, <1>8, <1>9 DEF RotateDouble, Is

-----------------------------------------------------------------------------
(* Sums, products and extensions: the same number modulo 2^Bits. *)

(* Sign extension delivers an integer. *)
LEMMA SignedType ==
  ASSUME NEW x \in Int, NEW n \in Nat
  PROVE  Signed(x, n) \in Int
<1> DEFINE p == Power(2, n)
           r == x % p
<1>1. p \in Nat \ {0}
  BY Twos
<1>2. Signed(x, n) = r - (IF Negative(x, n) THEN p ELSE 0)
  BY DEF Signed, Low
<1> HIDE DEF p
<1>3. r \in Int
  BY <1>1, Division
<1> HIDE DEF r
<1> QED  BY <1>1, <1>2, <1>3

(* Numbers that differ by a multiple of 2^Bits wrap to the same word. *)
LEMMA WrapSame ==
  ASSUME NEW x \in Int, NEW y \in Int, NEW q \in Int, x = y + Power(2, Bits) * q
  PROVE  Wrap(x) = Wrap(y)
BY WrapIs

(* A wrapped addend may be unwrapped. *)
LEMMA WrapSum ==
  ASSUME NEW a \in Int, NEW d \in Int
  PROVE  /\ Wrap(d) \in Word /\ Wrap(a + Wrap(d)) \in Word
         /\ Wrap(a + Wrap(d)) = Wrap(a + d)
<1> DEFINE t == Power(2, Bits)
           q == d \div t
           w == Wrap(d)
<1>1. w \in Word /\ w \in Int
  BY WrapIs, InWord
<1>2. d = t * q + w /\ q \in Int /\ t \in Nat
  <2>1. t \in Nat \ {0} /\ w = d % t
    BY Sizes DEF Wrap
  <2> HIDE DEF t, w
  <2> QED  BY <2>1, Division
<1> DEFINE x == a + w
           y == a + d
           z == 0 - q
<1> HIDE DEF w, q
<1>3. x \in Int /\ y \in Int /\ z \in Int /\ x = y + t * z
  <2> HIDE DEF t
  <2>1. t * (0 - q) = 0 - t * q
    BY <1>2
  <2> QED  BY <1>1, <1>2, <2>1
<1> HIDE DEF x, y, z
<1>4. Wrap(x) = Wrap(y) /\ Wrap(x) \in Word
  BY <1>3, WrapSame, WrapIs
<1> QED  BY <1>1, <1>4 DEF x, y, w

(* So may a wrapped factor. *)
LEMMA WrapTimes ==
  ASSUME NEW d \in Int, NEW p \in Int
  PROVE  Wrap(Wrap(d) * p) \in Word /\ Wrap(Wrap(d) * p) = Wrap(d * p)
<1> DEFINE t == Power(2, Bits)
           q == d \div t
           w == Wrap(d)
<1>1. w \in Word /\ w \in Int
  BY WrapIs, InWord
<1>2. d = t * q + w /\ q \in Int /\ t \in Nat
  <2>1. t \in Nat \ {0} /\ w = d % t
    BY Sizes DEF Wrap
  <2> HIDE DEF t, w
  <2> QED  BY <2>1, Division
<1> DEFINE x == w * p
           y == d * p
           z == (0 - q) * p
<1> HIDE DEF w, q
<1>3. x \in Int /\ y \in Int /\ z \in Int /\ x = y + t * z
  <2> HIDE DEF t
  <2>1. (t * q + w) * p = t * (q * p) + w * p
    BY <1>1, <1>2
  <2>2. t * ((0 - q) * p) = 0 - t * (q * p)
    BY <1>2
  <2>3. q * p \in Int /\ (0 - q) * p \in Int /\ t * (q * p) \in Int /\ w * p \in Int /\ d * p \in Int
    BY <1>1, <1>2
  <2> QED  BY <1>1, <1>2, <2>1, <2>2, <2>3
<1> HIDE DEF x, y, z
<1>4. Wrap(x) = Wrap(y) /\ Wrap(x) \in Word
  BY <1>3, WrapSame, WrapIs
<1> QED  BY <1>4 DEF x, y, w

(* Complement, add and increment subtract. *)
LEMMA DifferenceIs ==
  ASSUME NEW a \in Word, NEW b \in Int
  PROVE  Difference(a, b) \in Word /\ Difference(a, b) = Wrap(b - a)
<1> DEFINE t == Power(2, Bits)
           x == Not(a) + b + 1
           y == b - a
           z == 1
<1>1. a \in Int /\ t \in Nat /\ Not(a) = t - 1 - a
  BY InWord, Sizes DEF Not
<1>2. x \in Int /\ y \in Int /\ z \in Int /\ x = y + t * z
  <2> HIDE DEF t
  <2> QED  BY <1>1
<1>3. Difference(a, b) = Wrap(x)
  BY DEF Difference
<1> HIDE DEF x, y, z
<1>4. Wrap(x) = Wrap(y) /\ Wrap(x) \in Word
  BY <1>2, WrapSame, WrapIs
<1> QED  BY <1>3, <1>4 DEF y

(* Complement and increment negate. *)
LEMMA NegationIs ==
  ASSUME NEW a \in Word
  PROVE  Wrap(Not(a) + 1) \in Word /\ Wrap(Not(a) + 1) = Wrap(-a)
<1> DEFINE t == Power(2, Bits)
           x == Not(a) + 1
           y == -a
           z == 1
<1>1. a \in Int /\ t \in Nat /\ Not(a) = t - 1 - a
  BY InWord, Sizes DEF Not
<1>2. x \in Int /\ y \in Int /\ z \in Int /\ x = y + t * z
  <2> HIDE DEF t
  <2> QED  BY <1>1
<1> HIDE DEF x, y, z
<1>3. Wrap(x) = Wrap(y) /\ Wrap(x) \in Word
  BY <1>2, WrapSame, WrapIs
<1> QED  BY <1>3 DEF x, y

(* Operands are integers. *)
LEMMA IntegerOperands ==
  ASSUME Fetched
  PROVE  /\ ir.op \in XOForms \cup XForms => ir.a \in Int /\ ir.b \in Int
         /\ ir.op \in DForms => ir.a \in Int /\ ir.b \in Int /\ Displacement \in Int
         /\ Power(2, ImmBits) \in Int
<1>1. Power(2, ImmBits) \in Nat
  BY Sizes, Twos
<1>2. ASSUME ir.op \in XOForms \cup XForms PROVE ir.a \in Int /\ ir.b \in Int
  BY <1>2, Operands, InWord
<1>3. ASSUME ir.op \in DForms PROVE ir.a \in Int /\ ir.b \in Int
  BY <1>1, <1>3, Operands, InWord
<1>4. ASSUME ir.op \in DForms PROVE Displacement \in Int
  BY <1>3, <1>4, SignedType, Sizes DEF Displacement
<1> QED  BY <1>1, <1>2, <1>3, <1>4

(* add, subf, neg. *)
LEMMA AddStep ==
  ASSUME Fetched, AddRegisters
  PROVE  \E r : Right(r)
<1>1. CASE ir.op = "add"
  <2> DEFINE r == Wrap(ir.a + ir.b)
  <2>1. Leaves(r)
    BY <1>1 DEF AddRegisters, XO, Is, Leaves, DForms
  <2>2. r \in Word /\ r = Wrap(Arithmetic)
    <3>1. Arithmetic = ir.a + ir.b
      BY <1>1 DEF Arithmetic
    <3>2. ir.a \in Int /\ ir.b \in Int /\ ir.a \in Word
      BY <1>1, IntegerOperands, Operands DEF XOForms
    <3>3. ir.a + ir.b \in Int
      BY <3>2
    <3> QED  BY <3>1, <3>3, WrapIs
  <2> HIDE DEF r
  <2>3. Right(r)
    BY <1>1, <2>1, <2>2, ArithmeticRight DEF ArithmeticForms
  <2> QED  BY <2>3
<1>2. CASE ir.op = "subf"
  <2> DEFINE r == Difference(ir.a, ir.b)
  <2>1. Leaves(r)
    BY <1>2 DEF AddRegisters, XO, Is, Leaves, DForms
  <2>2. r \in Word /\ r = Wrap(Arithmetic)
    <3>1. Arithmetic = ir.b - ir.a
      BY <1>2 DEF Arithmetic
    <3>2. ir.a \in Int /\ ir.b \in Int /\ ir.a \in Word
      BY <1>2, IntegerOperands, Operands DEF XOForms
    <3> QED  BY <3>1, <3>2, DifferenceIs
  <2> HIDE DEF r
  <2>3. Right(r)
    BY <1>2, <2>1, <2>2, ArithmeticRight DEF ArithmeticForms
  <2> QED  BY <2>3
<1>3. CASE ir.op = "neg"
  <2> DEFINE r == Wrap(Not(ir.a) + 1)
  <2>1. Leaves(r)
    BY <1>3 DEF AddRegisters, XO, Is, Leaves, DForms
  <2>2. r \in Word /\ r = Wrap(Arithmetic)
    <3>1. Arithmetic = -ir.a
      BY <1>3 DEF Arithmetic
    <3>2. ir.a \in Int /\ ir.b \in Int /\ ir.a \in Word
      BY <1>3, IntegerOperands, Operands DEF XOForms
    <3> QED  BY <3>1, <3>2, NegationIs
  <2> HIDE DEF r
  <2>3. Right(r)
    BY <1>3, <2>1, <2>2, ArithmeticRight DEF ArithmeticForms
  <2> QED  BY <2>3
<1> QED  BY <1>1, <1>2, <1>3 DEF AddRegisters, XO, Is

(* addi, li, addis, lis. *)
LEMMA AddImmediateStep ==
  ASSUME Fetched, AddImmediate
  PROVE  \E r : Right(r)
<1>1. CASE ir.op = "addi"
  <2> DEFINE r == Wrap(ir.a + ImmediateWord)
  <2>1. Leaves(r)
    BY <1>1 DEF AddImmediate, XO, Is, Leaves, DForms
  <2>2. r \in Word /\ r = Wrap(Arithmetic)
    <3>1. Arithmetic = ir.a + Signed(ir.b, ImmBits)
      BY <1>1 DEF Arithmetic
    <3>2. ir.a \in Int /\ ir.a \in Word /\ Displacement \in Int /\ Power(2, ImmBits) \in Int
      BY <1>1, IntegerOperands, Operands DEF DForms
    <3> QED  BY <3>1, <3>2, WrapSum DEF ImmediateWord, Displacement
  <2> HIDE DEF r
  <2>3. Right(r)
    BY <1>1, <2>1, <2>2, ArithmeticRight DEF ArithmeticForms
  <2> QED  BY <2>3
<1>2. CASE ir.op = "li"
  <2> DEFINE r == ImmediateWord
  <2>1. Leaves(r)
    BY <1>2 DEF AddImmediate, XO, Is, Leaves, DForms
  <2>2. r \in Word /\ r = Wrap(Arithmetic)
    <3>1. Arithmetic = Signed(ir.b, ImmBits)
      BY <1>2 DEF Arithmetic
    <3>2. ir.a \in Int /\ ir.a \in Word /\ Displacement \in Int /\ Power(2, ImmBits) \in Int
      BY <1>2, IntegerOperands, Operands DEF DForms
    <3> QED  BY <3>1, <3>2, WrapIs DEF ImmediateWord, Displacement
  <2> HIDE DEF r
  <2>3. Right(r)
    BY <1>2, <2>1, <2>2, ArithmeticRight DEF ArithmeticForms
  <2> QED  BY <2>3
<1>3. CASE ir.op = "addis"
  <2> DEFINE r == Wrap(ir.a + ImmediateWord * Power(2, ImmBits))
  <2>1. Leaves(r)
    BY <1>3 DEF AddImmediate, XO, Is, Leaves, DForms
  <2>2. r \in Word /\ r = Wrap(Arithmetic)
    <3>1. Arithmetic = ir.a + Signed(ir.b, ImmBits) * Power(2, ImmBits)
      BY <1>3 DEF Arithmetic
    <3>2. ir.a \in Int /\ ir.a \in Word /\ Displacement \in Int /\ Power(2, ImmBits) \in Int
      BY <1>3, IntegerOperands, Operands DEF DForms
    <3> DEFINE d == Displacement  p == Power(2, ImmBits)
    <3>3. d \in Int /\ p \in Int /\ ir.a \in Int
      BY <3>2
    <3>4. r = Wrap(ir.a + Wrap(d) * p) /\ Arithmetic = ir.a + d * p
      BY <3>1 DEF ImmediateWord, Displacement
    <3> HIDE DEF d, p
    <3>5. d * p \in Int /\ Wrap(d) * p \in Int
      BY <3>3, WrapIs, InWord
    <3> DEFINE y == d * p
               x == Wrap(d) * p
    <3>6. x \in Int /\ y \in Int /\ Wrap(x) = Wrap(y)
      BY <3>3, <3>5, WrapTimes
    <3> HIDE DEF x, y
    <3>7. Wrap(ir.a + Wrap(x)) = Wrap(ir.a + x) /\ Wrap(ir.a + Wrap(x)) \in Word
      BY <3>3, <3>6, WrapSum
    <3>8. Wrap(ir.a + Wrap(y)) = Wrap(ir.a + y)
      BY <3>3, <3>6, WrapSum
    <3> QED  BY <3>4, <3>6, <3>7, <3>8 DEF x, y
  <2> HIDE DEF r
  <2>3. Right(r)
    BY <1>3, <2>1, <2>2, ArithmeticRight DEF ArithmeticForms
  <2> QED  BY <2>3
<1>4. CASE ir.op = "lis"
  <2> DEFINE r == Wrap(ImmediateWord * Power(2, ImmBits))
  <2>1. Leaves(r)
    BY <1>4 DEF AddImmediate, XO, Is, Leaves, DForms
  <2>2. r \in Word /\ r = Wrap(Arithmetic)
    <3>1. Arithmetic = Signed(ir.b, ImmBits) * Power(2, ImmBits)
      BY <1>4 DEF Arithmetic
    <3>2. ir.a \in Int /\ ir.a \in Word /\ Displacement \in Int /\ Power(2, ImmBits) \in Int
      BY <1>4, IntegerOperands, Operands DEF DForms
    <3> QED  BY <3>1, <3>2, WrapTimes DEF ImmediateWord, Displacement
  <2> HIDE DEF r
  <2>3. Right(r)
    BY <1>4, <2>1, <2>2, ArithmeticRight DEF ArithmeticForms
  <2> QED  BY <2>3
<1> QED  BY <1>1, <1>2, <1>3, <1>4 DEF AddImmediate, XO, Is

(* addc, subfc. *)
LEMMA AddCarryingStep ==
  ASSUME Fetched, AddCarrying
  PROVE  \E r : Right(r)
<1>1. CASE ir.op = "addc"
  <2> DEFINE r == Wrap(ir.a + ir.b)
  <2>1. Leaves(r)
    BY <1>1 DEF AddCarrying, XO, Is, Leaves, DForms
  <2>2. r \in Word /\ r = Wrap(Arithmetic)
    <3>1. Arithmetic = ir.a + ir.b
      BY <1>1 DEF Arithmetic
    <3>2. ir.a \in Int /\ ir.b \in Int /\ ir.a \in Word
      BY <1>1, IntegerOperands, Operands DEF XOForms
    <3>3. ir.a + ir.b \in Int
      BY <3>2
    <3> QED  BY <3>1, <3>3, WrapIs
  <2> HIDE DEF r
  <2>3. Right(r)
    BY <1>1, <2>1, <2>2, ArithmeticRight DEF ArithmeticForms
  <2> QED  BY <2>3
<1>2. CASE ir.op = "subfc"
  <2> DEFINE r == Difference(ir.a, ir.b)
  <2>1. Leaves(r)
    BY <1>2 DEF AddCarrying, XO, Is, Leaves, DForms
  <2>2. r \in Word /\ r = Wrap(Arithmetic)
    <3>1. Arithmetic = ir.b - ir.a
      BY <1>2 DEF Arithmetic
    <3>2. ir.a \in Int /\ ir.b \in Int /\ ir.a \in Word
      BY <1>2, IntegerOperands, Operands DEF XOForms
    <3> QED  BY <3>1, <3>2, DifferenceIs
  <2> HIDE DEF r
  <2>3. Right(r)
    BY <1>2, <2>1, <2>2, ArithmeticRight DEF ArithmeticForms
  <2> QED  BY <2>3
<1> QED  BY <1>1, <1>2 DEF AddCarrying, XO, Is

(* addic, subfic. *)
LEMMA AddImmediateCarryingStep ==
  ASSUME Fetched, AddImmediateCarrying
  PROVE  \E r : Right(r)
<1>1. CASE ir.op = "addic"
  <2> DEFINE r == Wrap(ir.a + ImmediateWord)
  <2>1. Leaves(r)
    BY <1>1 DEF AddImmediateCarrying, XO, Is, Leaves, DForms
  <2>2. r \in Word /\ r = Wrap(Arithmetic)
    <3>1. Arithmetic = ir.a + Signed(ir.b, ImmBits)
      BY <1>1 DEF Arithmetic
    <3>2. ir.a \in Int /\ ir.a \in Word /\ Displacement \in Int /\ Power(2, ImmBits) \in Int
      BY <1>1, IntegerOperands, Operands DEF DForms
    <3> QED  BY <3>1, <3>2, WrapSum DEF ImmediateWord, Displacement
  <2> HIDE DEF r
  <2>3. Right(r)
    BY <1>1, <2>1, <2>2, ArithmeticRight DEF ArithmeticForms
  <2> QED  BY <2>3
<1>2. CASE ir.op = "subfic"
  <2> DEFINE r == Difference(ir.a, ImmediateWord)
  <2>1. Leaves(r)
    BY <1>2 DEF AddImmediateCarrying, XO, Is, Leaves, DForms
  <2>2. r \in Word /\ r = Wrap(Arithmetic)
    <3>1. Arithmetic = Signed(ir.b, ImmBits) - ir.a
      BY <1>2 DEF Arithmetic
    <3>2. ir.a \in Int /\ ir.a \in Word /\ Displacement \in Int /\ Power(2, ImmBits) \in Int
      BY <1>2, IntegerOperands, Operands DEF DForms
    <3> DEFINE x == Wrap(Displacement) - ir.a
               y == Displacement - ir.a
               w == Wrap(Displacement)
               z == 0 - ir.a
    <3>3. w \in Word /\ w \in Int
      BY <3>2, WrapIs, InWord
    <3>4. Difference(ir.a, w) = Wrap(w - ir.a) /\ Difference(ir.a, w) \in Word
      <4> HIDE DEF w
      <4> QED  BY <3>2, <3>3, DifferenceIs
    <3>5. z \in Int /\ w - ir.a = z + w /\ Displacement - ir.a = z + Displacement
      <4> HIDE DEF w
      <4> QED  BY <3>2, <3>3
    <3> HIDE DEF z
    <3>6. Wrap(z + w) = Wrap(z + Displacement)
      BY <3>2, <3>5, WrapSum
    <3>7. r = Difference(ir.a, w) /\ Arithmetic = Displacement - ir.a
      BY <3>1 DEF ImmediateWord, Displacement
    <3> HIDE DEF w, r
    <3> QED  BY <3>4, <3>5, <3>6, <3>7
  <2> HIDE DEF r
  <2>3. Right(r)
    BY <1>2, <2>1, <2>2, ArithmeticRight DEF ArithmeticForms
  <2> QED  BY <2>3
<1> QED  BY <1>1, <1>2 DEF AddImmediateCarrying, XO, Is

(* mulld, mullw. *)
LEMMA MultiplyStep ==
  ASSUME Fetched, MultiplyRegisters
  PROVE  \E r : Right(r)
<1>1. CASE ir.op = "mulld"
  <2> DEFINE r == Wrap(Signed(ir.a, Bits) * Signed(ir.b, Bits))
  <2>1. Leaves(r)
    BY <1>1 DEF MultiplyRegisters, XO, Is, Leaves, DForms
  <2>2. r \in Word /\ r = Wrap(Arithmetic)
    <3>1. Arithmetic = Signed(ir.a, Bits) * Signed(ir.b, Bits)
      BY <1>1 DEF Arithmetic, SignedA
    <3> DEFINE x == Signed(ir.a, Bits)  y == Signed(ir.b, Bits)
    <3>2. x \in Int /\ y \in Int
      BY <1>1, IntegerOperands, SignedType, Sizes DEF XOForms
    <3>3. r = Wrap(x * y) /\ Arithmetic = x * y
      BY <3>1 DEF LowWord, SignedA
    <3> HIDE DEF x, y
    <3>4. x * y \in Int
      BY <3>2
    <3> QED  BY <3>3, <3>4, WrapIs
  <2> HIDE DEF r
  <2>3. Right(r)
    BY <1>1, <2>1, <2>2, ArithmeticRight DEF ArithmeticForms
  <2> QED  BY <2>3
<1>2. CASE ir.op = "mullw"
  <2> DEFINE r == Wrap(LowWord(ir.a) * LowWord(ir.b))
  <2>1. Leaves(r)
    BY <1>2 DEF MultiplyRegisters, XO, Is, Leaves, DForms
  <2>2. r \in Word /\ r = Wrap(Arithmetic)
    <3>1. Arithmetic = Signed(ir.a, WordBits) * Signed(ir.b, WordBits)
      BY <1>2 DEF Arithmetic
    <3> DEFINE x == Signed(ir.a, WordBits)  y == Signed(ir.b, WordBits)
    <3>2. x \in Int /\ y \in Int
      BY <1>2, IntegerOperands, SignedType, Sizes DEF XOForms
    <3>3. r = Wrap(x * y) /\ Arithmetic = x * y
      BY <3>1 DEF LowWord, SignedA
    <3> HIDE DEF x, y
    <3>4. x * y \in Int
      BY <3>2
    <3> QED  BY <3>3, <3>4, WrapIs
  <2> HIDE DEF r
  <2>3. Right(r)
    BY <1>2, <2>1, <2>2, ArithmeticRight DEF ArithmeticForms
  <2> QED  BY <2>3
<1> QED  BY <1>1, <1>2 DEF MultiplyRegisters, XO, Is

(* mulli. *)
LEMMA MultiplyImmediateStep ==
  ASSUME Fetched, MultiplyImmediate
  PROVE  \E r : Right(r)
<1>1. CASE ir.op = "mulli"
  <2> DEFINE r == Wrap(Signed(ir.a, Bits) * Signed(ir.b, ImmBits))
  <2>1. Leaves(r)
    BY <1>1 DEF MultiplyImmediate, XO, Is, Leaves, DForms
  <2>2. r \in Word /\ r = Wrap(Arithmetic)
    <3>1. Arithmetic = Signed(ir.a, Bits) * Signed(ir.b, ImmBits)
      BY <1>1 DEF Arithmetic, SignedA
    <3> DEFINE x == Signed(ir.a, Bits)  y == Signed(ir.b, ImmBits)
    <3>2. x \in Int /\ y \in Int
      BY <1>1, IntegerOperands, SignedType, Sizes DEF DForms
    <3>3. r = Wrap(x * y) /\ Arithmetic = x * y
      BY <3>1 DEF LowWord, SignedA
    <3> HIDE DEF x, y
    <3>4. x * y \in Int
      BY <3>2
    <3> QED  BY <3>3, <3>4, WrapIs
  <2> HIDE DEF r
  <2>3. Right(r)
    BY <1>1, <2>1, <2>2, ArithmeticRight DEF ArithmeticForms
  <2> QED  BY <2>3
<1> QED  BY <1>1 DEF MultiplyImmediate, XO, Is

(* extsb, extsh, extsw. *)
LEMMA ExtendStep ==
  ASSUME Fetched, Extend
  PROVE  \E r : Right(r)
<1>1. CASE ir.op = "extsb"
  <2> DEFINE r == SignExtend(ir.a, ImmBits \div 2)
  <2>1. Leaves(r)
    BY <1>1 DEF Extend, XO, Is, Leaves, DForms
  <2>2. r \in Word /\ r = Wrap(Arithmetic)
    <3>1. Arithmetic = Signed(ir.a, ImmBits \div 2)
      BY <1>1 DEF Arithmetic
    <3>2. ir.a \in Int /\ ImmBits \div 2 \in Nat
      BY <1>1, IntegerOperands, Sizes DEF XForms
    <3>3. Signed(ir.a, ImmBits \div 2) \in Int
      BY <3>2, SignedType
    <3> QED  BY <3>1, <3>3, WrapIs DEF SignExtend
  <2> HIDE DEF r
  <2>3. Right(r)
    BY <1>1, <2>1, <2>2, ArithmeticRight DEF ArithmeticForms
  <2> QED  BY <2>3
<1>2. CASE ir.op = "extsh"
  <2> DEFINE r == SignExtend(ir.a, ImmBits)
  <2>1. Leaves(r)
    BY <1>2 DEF Extend, XO, Is, Leaves, DForms
  <2>2. r \in Word /\ r = Wrap(Arithmetic)
    <3>1. Arithmetic = Signed(ir.a, ImmBits)
      BY <1>2 DEF Arithmetic
    <3>2. ir.a \in Int /\ ImmBits \in Nat
      BY <1>2, IntegerOperands, Sizes DEF XForms
    <3>3. Signed(ir.a, ImmBits) \in Int
      BY <3>2, SignedType
    <3> QED  BY <3>1, <3>3, WrapIs DEF SignExtend
  <2> HIDE DEF r
  <2>3. Right(r)
    BY <1>2, <2>1, <2>2, ArithmeticRight DEF ArithmeticForms
  <2> QED  BY <2>3
<1>3. CASE ir.op = "extsw"
  <2> DEFINE r == SignExtend(ir.a, WordBits)
  <2>1. Leaves(r)
    BY <1>3 DEF Extend, XO, Is, Leaves, DForms
  <2>2. r \in Word /\ r = Wrap(Arithmetic)
    <3>1. Arithmetic = Signed(ir.a, WordBits)
      BY <1>3 DEF Arithmetic
    <3>2. ir.a \in Int /\ WordBits \in Nat
      BY <1>3, IntegerOperands, Sizes DEF XForms
    <3>3. Signed(ir.a, WordBits) \in Int
      BY <3>2, SignedType
    <3> QED  BY <3>1, <3>3, WrapIs DEF SignExtend
  <2> HIDE DEF r
  <2>3. Right(r)
    BY <1>3, <2>1, <2>2, ArithmeticRight DEF ArithmeticForms
  <2> QED  BY <2>3
<1> QED  BY <1>1, <1>2, <1>3 DEF Extend, XO, Is

(* The high products: no claim. *)
LEMMA HighType ==
  ASSUME NEW x \in Word
  PROVE  High(x) \in Nat
<1> DEFINE p == Power(2, WordBits)
<1>1. p \in Nat \ {0} /\ x \in Nat
  BY Sizes, InWord
<1> HIDE DEF p
<1>2. x \div p \in Nat
  BY <1>1
<1> QED  BY <1>2 DEF High, p

(* mulhw, mulhwu. *)
LEMMA MultiplyHighStep ==
  ASSUME Fetched, MultiplyHigh
  PROVE  \E r : Right(r)
<1>1. ir.op \in {"mulhw", "mulhwu"} /\ ~Conforming
  BY DEF MultiplyHigh, Is, Conforming, HighProducts
<1>2. ir.a \in Word /\ ir.b \in Word
  BY <1>1, Operands DEF XForms
<1>3. High(ir.a) \in Int /\ High(ir.b) \in Int
  BY <1>2, HighType
<1>4. LowWord(High(ir.a)) \in Int /\ LowWord(High(ir.b)) \in Int
  BY <1>3, SignedType, Sizes DEF LowWord
<1> DEFINE x == IF ir.op = "mulhw" THEN LowWord(High(ir.a)) ELSE High(ir.a)
           y == IF ir.op = "mulhw" THEN LowWord(High(ir.b)) ELSE High(ir.b)
<1>5. x \in Int /\ y \in Int
  BY <1>3, <1>4
<1>6. Leaves(Wrap(x * y))
  BY <1>1 DEF MultiplyHigh, Is, Leaves, DForms
<1> HIDE DEF x, y
<1>7. x * y \in Int
  BY <1>5
<1>8. Wrap(x * y) \in Word
  BY <1>7, WrapIs
<1>9. Right(Wrap(x * y))
  BY <1>1, <1>6, <1>8, Delivered DEF Right
<1> QED  BY <1>9

-----------------------------------------------------------------------------
(* Leading zeros. *)

(* A power of two exceeds its exponent, so that a count of zeros is a word. *)
LEMMA TwosAbove ==
  ASSUME NEW n \in Nat
  PROVE  n < Power(2, n)
<1> DEFINE P == {m \in Nat : m < Power(2, m)}
<1>1. 0 \in P
  BY FirstTwos
<1>2. ASSUME NEW m \in Nat, m \in P PROVE m + 1 \in P
  <2>1. Power(2, m) \in Nat /\ Power(2, m + 1) = 2 * Power(2, m)
    BY Twos, PowerSteps
  <2> QED  BY <1>2, <2>1
<1> HIDE DEF P
<1>3. Nat \subseteq P
  BY <1>1, <1>2, Induction
<1> QED  BY <1>3 DEF P

(* A number is small when its upper bits are zeros. *)
LEMMA SmallBits ==
  ASSUME NEW x \in Int, NEW m \in Nat, NEW j \in 0 .. m
  PROVE  x % Power(2, m) < Power(2, j) <=> \A k \in j .. m - 1 : Bit(x, k) = 0
<1> DEFINE y == x % Power(2, m)
           z == x % Power(2, j)
<1>0. j \in Nat /\ j <= m /\ Power(2, m) \in Nat \ {0} /\ Power(2, j) \in Nat \ {0} /\ Power(2, j) <= Power(2, m)
  BY Twos, TwosGrow
<1>1. y \in Nat /\ z \in 0 .. Power(2, j) - 1
  <2> DEFINE p == Power(2, m)
             q == Power(2, j)
  <2>1. p \in Nat \ {0} /\ q \in Nat \ {0}
    BY <1>0
  <2> HIDE DEF p, q
  <2>2. x % p \in 0 .. p - 1 /\ x % q \in 0 .. q - 1
    BY <2>1, Division
  <2>3. x % p \in Nat
    BY <2>1, <2>2
  <2> QED  BY <2>2, <2>3 DEF p, q
<1>2. ASSUME y < Power(2, j), NEW k \in j .. m - 1 PROVE Bit(x, k) = 0
  <2>1. k \in Nat /\ k < m /\ k >= j /\ y \in 0 .. Power(2, j) - 1
    BY <1>0, <1>1, <1>2
  <2>2. Bit(x % Power(2, m), k) = Bit(x, k)
    BY <2>1, BitOfLow
  <2> HIDE DEF y
  <2>3. Bit(y, k) = 0
    BY <1>0, <2>1, BitOfSmall
  <2> QED  BY <2>2, <2>3 DEF y
<1>3. ASSUME \A k \in j .. m - 1 : Bit(x, k) = 0 PROVE y < Power(2, j)
  <2>1. ASSUME NEW k \in 0 .. m - 1 PROVE Bit(x, k) = Bit(z, k)
    <3>1. k \in Nat /\ (k < j \/ k \in j .. m - 1)
      BY <1>0
    <3>2. Bit(x % Power(2, j), k) = IF k < j THEN Bit(x, k) ELSE 0
      BY <1>0, <3>1, BitOfLow
    <3> QED  BY <1>0, <1>3, <3>1, <3>2
  <2>2. z \in Int /\ z \in 0 .. Power(2, m) - 1
    BY <1>0, <1>1
  <2> HIDE DEF z
  <2>3. x % Power(2, m) = z % Power(2, m)
    BY <2>1, <2>2, LowBits
  <2>4. z % Power(2, m) = z
    BY <1>0, <2>2, ModSmall
  <2> QED  BY <1>0, <1>1, <2>3, <2>4
<1> QED  BY <1>2, <1>3 DEF y

(* The counts of leading zeros, by the size of the number. *)
LEMMA ZerosAre ==
  ASSUME NEW from \in 0 .. Bits, ir.a \in Int
  PROVE  \A n \in Int :
           n \in Zeros(from) <=> n \in 0 .. Bits - from /\ Low(ir.a, Bits - from) < Power(2, Bits - from - n)
<1> DEFINE m == Bits - from
<1>0. m \in Nat /\ Bits \in Nat /\ from \in Nat /\ Pattern = 0 .. Bits - 1
  BY Sizes DEF Pattern
<1>1. SUFFICES ASSUME NEW n \in 0 .. m
               PROVE  n \in Zeros(from) <=> Low(ir.a, m) < Power(2, m - n)
  BY DEF Zeros
<1>2. Low(ir.a, m) < Power(2, m - n) <=> \A k \in m - n .. m - 1 : Bit(ir.a, k) = 0
  <2>1. m - n \in 0 .. m
    BY <1>0
  <2> HIDE DEF m
  <2> QED  BY <1>0, <2>1, SmallBits DEF Low
<1>3. ASSUME NEW p \in from .. from + n - 1
      PROVE  p \in Pattern /\ Bits - 1 - p \in m - n .. m - 1 /\ (p \notin OnesA <=> Bit(ir.a, Bits - 1 - p) = 0)
  <2>1. p \in Pattern /\ Bits - 1 - p \in m - n .. m - 1 /\ Bits - 1 - p \in Nat
    BY <1>0
  <2>2. Bit(ir.a, Bits - 1 - p) \in {0, 1}
    BY <2>1, BitType
  <2> QED  BY <2>1, <2>2, OneBits DEF OnesA
<1>4. ASSUME NEW k \in m - n .. m - 1
      PROVE  Bits - 1 - k \in from .. from + n - 1 /\ Bits - 1 - (Bits - 1 - k) = k
  BY <1>0
<1>5. n \in Zeros(from) <=> \A p \in from .. from + n - 1 : p \notin OnesA
  BY <1>0 DEF Zeros
<1>6. ASSUME \A k \in m - n .. m - 1 : Bit(ir.a, k) = 0, NEW p \in from .. from + n - 1
      PROVE  p \notin OnesA
  BY <1>3, <1>6
<1>7. ASSUME \A p \in from .. from + n - 1 : p \notin OnesA, NEW k \in m - n .. m - 1
      PROVE  Bit(ir.a, k) = 0
  <2> DEFINE p == Bits - 1 - k
  <2>1. p \in from .. from + n - 1 /\ Bits - 1 - p = k
    BY <1>4
  <2> HIDE DEF p
  <2> QED  BY <1>3, <1>7, <2>1
<1> QED  BY <1>2, <1>5, <1>6, <1>7

(* The count by size is the largest count by bits. *)
LEMMA ZerosCounted ==
  ASSUME NEW from \in 0 .. Bits, ir.a \in Int
  PROVE  LET m == Bits - from IN
         /\ LeadingZeros(Low(ir.a, m), m) = Max(Zeros(from))
         /\ Max(Zeros(from)) \in Word
<1> DEFINE m == Bits - from
           x == Low(ir.a, m)
           D == {m - n : n \in Zeros(from)}
<1>0. m \in Nat /\ Bits \in Nat
  BY Sizes
<1>1. \A n \in Int : n \in Zeros(from) <=> n \in 0 .. m /\ x < Power(2, m - n)
  BY ZerosAre
<1>2. x < Power(2, m) /\ x \in Nat
  <2>1. Power(2, m) \in Nat \ {0}
    BY <1>0, Twos
  <2>2. ir.a % Power(2, m) \in 0 .. Power(2, m) - 1
    BY <2>1, Division
  <2> QED  BY <2>1, <2>2 DEF Low
<1> HIDE DEF x
<1>3. 0 \in Zeros(from)
  <2>1. m - 0 = m /\ 0 \in 0 .. m /\ 0 \in Int
    BY <1>0
  <2> QED  BY <1>1, <1>2, <2>1
<1>4. Zeros(from) \subseteq 0 .. m
  BY DEF Zeros
<1>5. PICK d \in D : \A e \in D : d <= e
  <2>1. D \subseteq Nat /\ D # {}
    BY <1>0, <1>3, <1>4
  <2> HIDE DEF D
  <2> QED  BY <2>1, LeastNumber
<1>6. PICK z \in Zeros(from) : d = m - z
  BY <1>5
<1>7. ASSUME NEW n \in Zeros(from) PROVE z >= n
  <2>1. m - n \in D
    BY <1>7
  <2>2. m - z <= m - n
    BY <1>5, <1>6, <2>1
  <2> QED  BY <1>0, <1>4, <1>6, <1>7, <2>2
<1> HIDE DEF m
<1>8. z \in 0 .. m /\ z \in Nat /\ x < Power(2, m - z)
  BY <1>0, <1>1, <1>4, <1>6
<1>9. ASSUME NEW y \in 0 .. m PROVE (y < m => x >= Power(2, m - y - 1)) <=> (y < m => y + 1 \notin Zeros(from))
  <2>1. SUFFICES ASSUME y < m PROVE x >= Power(2, m - y - 1) <=> y + 1 \notin Zeros(from)
    OBVIOUS
  <2>2. y + 1 \in 0 .. m /\ y + 1 \in Int /\ m - (y + 1) = m - y - 1 /\ m - y - 1 \in Nat
    BY <1>0, <2>1
  <2>3. Power(2, m - y - 1) \in Nat
    BY <2>2, Twos
  <2>4. y + 1 \in Zeros(from) <=> x < Power(2, m - (y + 1))
    BY <1>1, <2>2
  <2> QED  BY <1>2, <2>2, <2>3, <2>4
<1>10. z + 1 \notin Zeros(from)
  BY <1>7, <1>8
<1>11. x < Power(2, m - z) /\ (z < m => x >= Power(2, m - z - 1))
  BY <1>8, <1>9, <1>10
<1>12. ASSUME NEW y \in 0 .. m, x < Power(2, m - y), y < m => x >= Power(2, m - y - 1) PROVE y = z
  <2>1. y \in Zeros(from) /\ y <= z
    BY <1>1, <1>7, <1>12
  <2>2. SUFFICES ASSUME y < z PROVE FALSE
    BY <1>8, <2>1
  <2>3. y < m /\ m - y - 1 \in Nat /\ m - z \in Nat /\ m - z <= m - y - 1
    BY <1>0, <1>8, <2>2
  <2>4. Power(2, m - z) <= Power(2, m - y - 1) /\ Power(2, m - z) \in Nat /\ Power(2, m - y - 1) \in Nat
    BY <2>3, TwosGrow, Twos
  <2> QED  BY <1>2, <1>8, <1>12, <2>3, <2>4
<1>13. LeadingZeros(x, m) = z
  BY <1>8, <1>11, <1>12 DEF LeadingZeros
<1>14. Max(Zeros(from)) = z
  <2>1. ASSUME NEW y \in Zeros(from), \A n \in Zeros(from) : y >= n PROVE y = z
    <3>1. y >= z /\ z >= y /\ y \in Nat
      BY <1>0, <1>4, <1>6, <1>7, <2>1
    <3> QED  BY <1>8, <3>1
  <2> QED  BY <1>6, <1>7, <2>1 DEF Max
<1>15. z \in Word
  <2>1. Bits < Power(2, Bits) /\ Power(2, Bits) \in Nat
    BY <1>0, TwosAbove, Twos
  <2>2. z <= Bits
    BY <1>0, <1>8 DEF m
  <2> QED  BY <1>0, <1>8, <2>1, <2>2, Sizes
<1> QED  BY <1>13, <1>14, <1>15 DEF x, m

(* cntlzw, cntlzd. *)
LEMMA CountZerosStep ==
  ASSUME Fetched, CountZeros
  PROVE  \E r : Right(r)
<1>1. ir.op \in {"cntlzw", "cntlzd"} /\ ir.op \in XForms /\ ir.op \notin DForms \cup {"andc"} /\ ir.op \in Bitwise
  BY DEF CountZeros, Is, XForms, DForms, Bitwise
<1>2. ir.a \in Word /\ ir.a \in Int /\ Low(ir.a, Bits) = ir.a
  BY <1>1, Operands, InWord DEF Low
<1>3. CASE ir.op = "cntlzw"
  <2> DEFINE r == LeadingZeros(Low(ir.a, WordBits), WordBits)
  <2>1. Leaves(r)
    BY <1>1, <1>3 DEF CountZeros, Is, Leaves
  <2>2. WordBits \in 0 .. Bits /\ Bits - WordBits = WordBits
    BY Sizes
  <2>3. r = Max(Zeros(WordBits)) /\ r \in Word
    <3> DEFINE m == Bits - WordBits
    <3>1. LeadingZeros(Low(ir.a, m), m) = Max(Zeros(WordBits)) /\ Max(Zeros(WordBits)) \in Word
      BY <1>2, <2>2, ZerosCounted
    <3>2. m = WordBits
      BY <2>2
    <3> HIDE DEF m
    <3> QED  BY <3>1, <3>2
  <2>4. BitResult = BitsOf(Max(Zeros(WordBits)))
    BY <1>3 DEF BitResult
  <2> HIDE DEF r
  <2>5. Right(r)
    BY <1>1, <2>1, <2>3, <2>4, BitwiseRight
  <2> QED  BY <2>5
<1>4. CASE ir.op = "cntlzd"
  <2> DEFINE r == LeadingZeros(ir.a, Bits)
  <2>1. Leaves(r)
    BY <1>1, <1>4 DEF CountZeros, Is, Leaves
  <2>2. 0 \in 0 .. Bits /\ Bits - 0 = Bits
    BY Sizes
  <2>3. r = Max(Zeros(0)) /\ r \in Word
    <3> DEFINE m == Bits - 0
    <3>1. LeadingZeros(Low(ir.a, m), m) = Max(Zeros(0)) /\ Max(Zeros(0)) \in Word
      BY <1>2, <2>2, ZerosCounted
    <3>2. m = Bits
      BY <2>2
    <3> HIDE DEF m
    <3> QED  BY <1>2, <3>1, <3>2
  <2>4. BitResult = BitsOf(Max(Zeros(0)))
    BY <1>4 DEF BitResult
  <2> HIDE DEF r
  <2>5. Right(r)
    BY <1>1, <2>1, <2>3, <2>4, BitwiseRight
  <2> QED  BY <2>5
<1> QED  BY <1>1, <1>3, <1>4

-----------------------------------------------------------------------------
(* Shifts.  A count that is small modulo a multiple of the word is the same *)
(* modulo the word.                                                        *)
LEMMA CountIs ==
  ASSUME NEW b \in Nat, NEW k \in Nat \ {0}, NEW n \in Nat \ {0}, b % (n * k) < n
  PROVE  b % n = b % (n * k)
<1> DEFINE m == n * k
           r == b % m
<1>1. m \in Nat \ {0} /\ m = n * k /\ b \in Int
  OBVIOUS
<1>3. r % n = b % n
  BY <1>1, RemainsTwice
<1> HIDE DEF m
<1>2. r \in 0 .. m - 1
  BY <1>1, Division
<1> HIDE DEF r
<1>4. r \in 0 .. n - 1
  BY <1>1, <1>2 DEF r, m
<1>5. r % n = r
  BY <1>4, ModSmall
<1> QED  BY <1>3, <1>5 DEF r, m

(* A count is less than a word. *)
LEMMA CountType == ASSUME ir.b \in Word PROVE Count \in 0 .. WordBits - 1 /\ Count \in Nat
<1>1. ir.b \in Int /\ WordBits \in Nat \ {0}
  BY InWord, Sizes
<1>2. ir.b % WordBits \in 0 .. WordBits - 1
  BY <1>1, Division
<1> QED  BY <1>1, <1>2 DEF Count

(* The count used is the count of the architecture where that is less than a word. *)
LEMMA CountSmall ==
  ASSUME ir.b \in Word
  PROVE  /\ ir.b % Bits < WordBits => Count = ir.b % Bits
         /\ ir.b % (2 * Bits) < WordBits =>
              Count = ir.b % (2 * Bits) /\ Count = ir.b % Bits /\ (ir.b \div Bits) % 2 = 0
<1>1. ir.b \in Nat /\ WordBits \in Nat \ {0} /\ Bits = WordBits * 2 /\ 2 * Bits = WordBits * 4 /\ Bits \in Nat \ {0}
  BY InWord, Sizes
<1>2. ASSUME NEW k \in Nat \ {0}, ir.b % (WordBits * k) < WordBits
      PROVE  ir.b % WordBits = ir.b % (WordBits * k)
  BY <1>1, <1>2, CountIs
<1> DEFINE two == 2
           four == 4
<1>3. two \in Nat \ {0} /\ four \in Nat \ {0} /\ Bits = WordBits * two /\ 2 * Bits = WordBits * four /\ 2 * Bits = Bits * two
  BY <1>1
<1> HIDE DEF two, four
<1>4. ir.b % Bits < WordBits => Count = ir.b % Bits
  BY <1>2, <1>3 DEF Count
<1>5. ir.b % (2 * Bits) < WordBits => Count = ir.b % (2 * Bits)
  BY <1>2, <1>3 DEF Count
<1>6. ASSUME ir.b % (2 * Bits) < WordBits PROVE Count = ir.b % Bits /\ (ir.b \div Bits) % 2 = 0
  <2> DEFINE q == (ir.b \div Bits) % two
             r == ir.b % Bits
  <2>0. ir.b \in Int
    BY <1>1
  <2>1. ir.b % (Bits * two) = (Bits * q) + r
    BY <1>1, <1>3, <2>0, RemainsTwice
  <2>2. ir.b \div Bits \in Int /\ r \in 0 .. Bits - 1
    BY <1>1, <2>0, Division
  <2> DEFINE d == ir.b \div Bits
  <2>3. d \in Int
    BY <2>2
  <2> HIDE DEF d
  <2>4. d % two \in 0 .. two - 1
    BY <1>3, <2>3, Division
  <2>5. q \in {0, 1}
    BY <2>4 DEF d, two
  <2> HIDE DEF q, r
  <2>6. q = 0
    BY <1>1, <1>3, <1>6, <2>1, <2>2, <2>5
  <2>7. r < WordBits
    BY <1>1, <1>3, <1>6, <2>1, <2>2, <2>6
  <2> QED  BY <1>4, <2>6, <2>7 DEF q, r, two
<1> QED  BY <1>4, <1>5, <1>6

(* The range of a truncated number. *)
LEMMA LowType ==
  ASSUME NEW x \in Int, NEW n \in Nat
  PROVE  Low(x, n) \in 0 .. Power(2, n) - 1 /\ Low(x, n) \in Nat
<1> DEFINE p == Power(2, n)
<1>1. p \in Nat \ {0}
  BY Twos
<1> HIDE DEF p
<1>2. x % p \in 0 .. p - 1
  BY <1>1, Division
<1> QED  BY <1>1, <1>2 DEF Low, p

(* The low word is a word. *)
LEMMA LowWordType ==
  ASSUME NEW x \in Int
  PROVE  Low(x, WordBits) \in Word
<1>1. WordBits \in Nat /\ Bits \in Nat /\ WordBits <= Bits
  BY Sizes
<1>2. Power(2, WordBits) <= Power(2, Bits)
  BY <1>1, TwosGrow
<1>3. Low(x, WordBits) \in 0 .. Power(2, WordBits) - 1
  BY <1>1, LowType
<1> QED  BY <1>2, <1>3, Sizes

(* A quotient of a word is one. *)
LEMMA QuotientType ==
  ASSUME NEW x \in Word, NEW d \in Nat \ {0}
  PROVE  x \div d \in Word
<1>1. x \in Nat /\ Power(2, Bits) \in Nat /\ x < Power(2, Bits)
  BY InWord, Sizes
<1> DEFINE q == x \div d
           r == x % d
<1>2. x = d * q + r /\ r \in 0 .. d - 1 /\ q \in Int
  BY <1>1, Division
<1> HIDE DEF q, r
<1>3. q >= 0
  <2>1. SUFFICES ASSUME q <= -1 PROVE FALSE
    BY <1>2
  <2>2. d * q <= -d
    BY <1>2, <2>1
  <2> QED  BY <1>1, <1>2, <2>2
<1>4. q <= x
  <2>1. d * q >= q
    BY <1>2, <1>3
  <2> QED  BY <1>1, <1>2, <2>1
<1> QED  BY <1>1, <1>2, <1>3, <1>4, Sizes DEF q

(* A word wraps to itself. *)
LEMMA WordWraps ==
  ASSUME NEW x \in Word
  PROVE  Wrap(x) = x
BY InWord DEF Wrap

(* slw. *)
LEMMA ShiftLeftStep ==
  ASSUME Fetched, ShiftLeft
  PROVE  \E r : Right(r)
<1> DEFINE r == Low(ir.a * Power(2, Count), WordBits)
           s == ir.a * Power(2, Count)
<1>1. ir.op = "slw"
  BY DEF ShiftLeft, Is
<1>2. ir.a \in Word /\ ir.b \in Word /\ ir.a \in Nat
  BY <1>1, Operands, InWord DEF XForms
<1>3. Leaves(r)
  BY <1>1 DEF ShiftLeft, Is, Leaves, DForms
<1>4. s \in Int
  <2>1. Power(2, Count) \in Nat
    BY <1>2, CountType, Twos
  <2> DEFINE p == Power(2, Count)
  <2> HIDE DEF p
  <2>2. ir.a * p \in Int
    BY <1>2, <2>1 DEF p
  <2> QED  BY <2>2 DEF p
<1>5. r \in Word
  <2> HIDE DEF s
  <2>1. Low(s, WordBits) \in Word
    BY <1>4, LowWordType
  <2> QED  BY <2>1 DEF s
<1>6. ASSUME Conforming PROVE r = Wrap(Arithmetic)
  <2>1. ir.b % Bits < WordBits
    BY <1>1, <1>6 DEF Conforming, ShiftInRange
  <2>2. ir.b % Bits = Count
    BY <1>2, <2>1, CountSmall
  <2>3. ~(ir.b % Bits >= WordBits)
    BY <1>2, <2>1, <2>2, CountType, Sizes
  <2>4. Arithmetic = Low(ir.a * Power(2, ir.b % Bits), WordBits)
    BY <1>1, <2>3 DEF Arithmetic
  <2>5. Arithmetic = r
    BY <2>2, <2>4
  <2> HIDE DEF r
  <2> QED  BY <1>5, <2>5, WordWraps
<1> HIDE DEF r
<1>7. Right(r)
  BY <1>1, <1>3, <1>5, <1>6, ArithmeticRight DEF ArithmeticForms
<1> QED  BY <1>7

(* srw, srd. *)
LEMMA ShiftRightStep ==
  ASSUME Fetched, ShiftRight
  PROVE  \E r : Right(r)
<1>1. ir.op \in {"srw", "srd"}
  BY DEF ShiftRight, Is
<1>2. ir.a \in Word /\ ir.b \in Word /\ ir.a \in Int
  BY <1>1, Operands, InWord DEF XForms
<1>3. Power(2, Count) \in Nat \ {0}
  BY <1>2, CountType, Twos
<1>4. CASE ir.op = "srw"
  <2> DEFINE l == Low(ir.a, WordBits)
             r == l \div Power(2, Count)
  <2>1. Leaves(r)
    BY <1>4 DEF ShiftRight, Is, Leaves, DForms
  <2>2. l \in Word
    BY <1>2, LowWordType
  <2>3. r \in Word
    <3> HIDE DEF l
    <3> QED  BY <1>3, <2>2, QuotientType
  <2>4. ASSUME Conforming PROVE r = Wrap(Arithmetic)
    <3>1. ir.b % Bits < WordBits
      BY <1>4, <2>4 DEF Conforming, ShiftInRange
    <3>2. ir.b % Bits = Count
      BY <1>2, <3>1, CountSmall
    <3>3. Arithmetic = l \div Power(2, ir.b % Bits)
      BY <1>4 DEF Arithmetic
    <3>4. Arithmetic = r
      BY <3>2, <3>3
    <3> HIDE DEF r
    <3> QED  BY <2>3, <3>4, WordWraps
  <2> HIDE DEF r
  <2>5. Right(r)
    BY <1>4, <2>1, <2>3, <2>4, ArithmeticRight DEF ArithmeticForms
  <2> QED  BY <2>5
<1>5. CASE ir.op = "srd"
  <2> DEFINE r == ir.a \div Power(2, Count)
  <2>1. Leaves(r)
    BY <1>5 DEF ShiftRight, Is, Leaves, DForms
  <2>2. r \in Word
    BY <1>2, <1>3, QuotientType
  <2>3. ASSUME Conforming PROVE r = Wrap(Arithmetic)
    <3>1. ir.b % (2 * Bits) < WordBits
      BY <1>5, <2>3 DEF Conforming, ShiftInRange
    <3>2. ir.b % (2 * Bits) = Count
      BY <1>2, <3>1, CountSmall
    <3>3. Arithmetic = ir.a \div Power(2, ir.b % (2 * Bits))
      BY <1>5 DEF Arithmetic
    <3>4. Arithmetic = r
      BY <3>2, <3>3
    <3> HIDE DEF r
    <3> QED  BY <2>2, <3>4, WordWraps
  <2> HIDE DEF r
  <2>4. Right(r)
    BY <1>5, <2>1, <2>2, <2>3, ArithmeticRight DEF ArithmeticForms
  <2> QED  BY <2>4
<1> QED  BY <1>1, <1>4, <1>5

-----------------------------------------------------------------------------
(* The algebraic shift.  The low word rotated is what is lost, h, over what *)
(* is kept, q; the mask separates them.                                    *)

(* The count of an algebraic shift within the limits. *)
LEMMA AlgebraicCount ==
  ASSUME Fetched, ir.op \in {"sraw", "srawi"}, Conforming
  PROVE  Count = ir.b % Bits /\ ~Emptied
<1>1. ir.b \in Word /\ ir.b \in Nat
  BY Operands, InWord DEF XForms
<1>2. CASE ir.op = "sraw"
  <2>1. ir.b % (2 * Bits) < WordBits
    BY <1>2 DEF Conforming, ShiftInRange
  <2>2. Count = ir.b % Bits /\ (ir.b \div Bits) % 2 = 0
    BY <1>1, <2>1, CountSmall
  <2> QED  BY <2>2 DEF Emptied
<1>3. CASE ir.op = "srawi"
  <2>1. ir.b < WordBits /\ WordBits <= Bits /\ WordBits \in Nat \ {0} /\ Bits \in Nat \ {0}
    BY <1>3, Operands, Sizes
  <2>2. ir.b \in 0 .. WordBits - 1 /\ ir.b \in 0 .. Bits - 1
    BY <1>1, <2>1
  <2>3. ir.b % WordBits = ir.b /\ ir.b % Bits = ir.b
    BY <2>1, <2>2, ModSmall
  <2> QED  BY <1>3, <2>3 DEF Count, Emptied
<1> QED  BY <1>2, <1>3

(* The fill of a word that is small or sign-extended follows its sign. *)
LEMMA FilledIs ==
  ASSUME Fetched, ir.op \in {"sraw", "srawi"}, Conforming
  PROVE  Filled <=> Negative(ir.a, WordBits)
<1> DEFINE t == Power(2, WordBits)
           h == Power(2, WordBits - 1)
           l == Low(ir.a, WordBits)
           q == ir.a \div t
           d == ir.a \div h
           e == ir.a % h
<1>1. ir.a \in Nat /\ ir.a \in Int
  BY Operands, InWord DEF XForms
<1>2. WordBits \in Nat /\ WordBits # 0 /\ WordBits - 1 \in Nat
  BY Sizes
<1>3. t \in Nat \ {0} /\ h \in Nat \ {0} /\ t = 2 * h
  BY <1>2, Twos
<1>4. /\ Filled <=> d # 0
      /\ Negative(ir.a, WordBits) <=> l >= h
      /\ l = ir.a % t
      /\ High(ir.a) = q
  BY DEF Filled, Negative, Low, High
<1>5. q = 0 \/ l >= h
  BY <1>4 DEF Conforming, ShiftInRange
<1> HIDE DEF t, h
<1>6. ir.a = t * q + (ir.a % t) /\ ir.a % t \in 0 .. t - 1 /\ q \in Int
  BY <1>1, <1>3, Division
<1>7. ir.a = h * d + e /\ e \in 0 .. h - 1 /\ d \in Int
  BY <1>1, <1>3, Division
<1> HIDE DEF q, d, e, l
<1>8. CASE l >= h
  <2>1. ir.a >= h
    <3>1. q >= 0
      <4>1. SUFFICES ASSUME q <= -1 PROVE FALSE
        BY <1>6
      <4>2. t * q <= -t
        BY <1>3, <1>6, <4>1
      <4> QED  BY <1>1, <1>3, <1>6, <4>2
    <3>2. t * q >= 0
      BY <1>3, <1>6, <3>1
    <3> QED  BY <1>1, <1>3, <1>4, <1>6, <1>8, <3>2
  <2>2. d # 0
    BY <1>1, <1>3, <1>7, <2>1
  <2> QED  BY <1>4, <1>8, <2>2
<1>9. CASE ~(l >= h)
  <2>1. q = 0
    BY <1>5, <1>9
  <2>2. ir.a = l /\ ir.a < h
    BY <1>1, <1>3, <1>4, <1>6, <1>9, <2>1
  <2>3. ir.a \in 0 .. h - 1 /\ 0 \in Int /\ ir.a = h * 0 + ir.a
    BY <1>1, <1>3, <2>2
  <2>4. ir.a \div h = 0
    BY <1>1, <1>3, <2>3, Remains
  <2> QED  BY <1>4, <1>9, <2>4 DEF d
<1> QED  BY <1>8, <1>9

(* The rotated word: the lost bits above the kept ones. *)
LEMMA RotatedIs ==
  ASSUME ir.a \in Word, ir.b \in Word
  PROVE  LET l == Low(ir.a, WordBits)
             m == WordBits - Count
             q == l \div Power(2, Count)
             h == l % Power(2, Count) IN
         /\ m \in Nat \ {0} /\ m <= WordBits
         /\ q \in 0 .. Power(2, m) - 1 /\ h \in 0 .. Power(2, Count) - 1
         /\ l = Power(2, Count) * q + h
         /\ Power(2, WordBits) = Power(2, Count) * Power(2, m)
         /\ Rotated = Power(2, m) * h + q
<1> DEFINE l == Low(ir.a, WordBits)
           m == WordBits - Count
           c == Power(2, Count)
           p == Power(2, m)
           t == Power(2, WordBits)
           q == l \div c
           h == l % c
           by == 2 * WordBits - Count
           s == by % WordBits
<1>1. Count \in Nat /\ WordBits \in Nat \ {0} /\ m \in Nat \ {0} /\ m <= WordBits /\ Count + m = WordBits /\ by \in Nat
  BY CountType, Sizes
<1>2. c \in Nat \ {0} /\ p \in Nat \ {0} /\ t = c * p
  <2> HIDE DEF m
  <2> QED  BY <1>1, Twos, TwosAdd
<1>0. t \in Nat \ {0}
  BY Sizes
<1>3. l \in 0 .. t - 1 /\ l \in Int
  <2>1. ir.a \in Int /\ WordBits \in Nat
    BY InWord, Sizes
  <2> QED  BY <2>1, LowType
<1> HIDE DEF l
<1>4. l = c * q + h /\ h \in 0 .. c - 1 /\ q \in Int
  <2> HIDE DEF c
  <2> QED  BY <1>2, <1>3, Division
<1>5. q \in 0 .. p - 1
  <2> HIDE DEF c, p, q, h, t
  <2>1. q >= 0
    <3>1. SUFFICES ASSUME q <= -1 PROVE FALSE
      BY <1>4
    <3>2. c * q <= -c
      BY <1>2, <1>4, <3>1
    <3> QED  BY <1>2, <1>3, <1>4, <3>2
  <2>2. q < p
    <3>1. SUFFICES ASSUME q >= p PROVE FALSE
      BY <1>2, <1>4
    <3>2. c * q >= c * p
      BY <1>2, <1>4, <3>1
    <3>3. c * p \in Nat /\ c * q \in Int
      BY <1>2, <1>4
    <3> QED  BY <1>2, <1>3, <1>4, <3>2, <3>3
  <2> QED  BY <1>2, <1>4, <2>1, <2>2
<1> DEFINE n == WordBits - s
<1>6. Rotated = (Power(2, s) * (l % Power(2, n))) + ((l \div Power(2, n)) % Power(2, s))
  <2>1. Rotated = RotateLeft(l, by, WordBits)
    BY DEF Rotated, l
  <2> HIDE DEF l, by
  <2>2. RotateLeft(l, by, WordBits) = (Power(2, s) * (l % Power(2, n))) + ((l \div Power(2, n)) % Power(2, s))
    BY <1>1, <1>3, RotateIs
  <2> QED  BY <2>1, <2>2
<1>7. CASE Count = 0
  <2>1. s = 0
    <3>1. by = WordBits * 2 + 0 /\ 0 \in 0 .. WordBits - 1 /\ by \in Int /\ 2 \in Int
      BY <1>1, <1>7
    <3> HIDE DEF by
    <3> QED  BY <1>1, <3>1, Remains
  <2> HIDE DEF s
  <2>2. n = WordBits /\ m = WordBits /\ c = 1 /\ Power(2, s) = 1
    BY <1>1, <1>7, <2>1, FirstTwos
  <2> HIDE DEF n, m
  <2>3. Rotated = (1 * (l % t)) + ((l \div t) % 1)
    BY <1>6, <2>2
  <2>4. l % t = l
    <3> HIDE DEF t
    <3> QED  BY <1>0, <1>3, ModSmall
  <2>5. (l \div t) % 1 = 0
    <3> DEFINE x == l \div t
    <3>1. x \in Int
      <4> HIDE DEF t
      <4> QED  BY <1>0, <1>3, Division
    <3> HIDE DEF x
    <3>2. x % 1 = 0
      BY <3>1
    <3> QED  BY <3>2 DEF x
  <2> HIDE DEF q, h, c, t
  <2>6. q = l /\ h = 0
    BY <1>3, <1>4, <2>2
  <2>7. p * h = 0
    BY <1>2, <2>6
  <2>8. Rotated = p * h + q
    BY <1>3, <2>3, <2>4, <2>5, <2>6, <2>7
  <2> QED  BY <1>1, <1>2, <1>4, <1>5, <2>8 DEF l, m, c, p, t, q, h
<1>8. CASE Count # 0
  <2>1. s = m
    <3>1. by = WordBits * 1 + m /\ m \in 0 .. WordBits - 1 /\ by \in Int /\ 1 \in Int
      BY <1>1, <1>8
    <3> HIDE DEF by, m
    <3> QED  BY <1>1, <3>1, Remains
  <2> HIDE DEF s
  <2>2. n = Count
    BY <1>1, <2>1
  <2> HIDE DEF n
  <2>3. Rotated = (p * h) + (q % p)
    BY <1>6, <2>1, <2>2
  <2>4. q % p = q
    <3> HIDE DEF q, p
    <3> QED  BY <1>2, <1>5, ModSmall
  <2>5. Rotated = p * h + q
    BY <2>3, <2>4
  <2> QED  BY <1>1, <1>2, <1>4, <1>5, <2>5 DEF l, m, c, p, t, q, h
<1> QED  BY <1>7, <1>8

(* The mask of the lowest m bits, and its complement. *)
LEMMA LowMask ==
  ASSUME NEW m \in 1 .. WordBits
  PROVE  LET M == GenerateMask64(Bits - m, Bits - 1) IN
         /\ M \in Word /\ Not(M) \in Word
         /\ \A k \in 0 .. Bits - 1 : /\ Bits - 1 - k \in Pattern
                                     /\ Bits - 1 - k \in BitsOf(M) <=> k < m
                                     /\ Bits - 1 - k \in BitsOf(Not(M)) <=> k >= m
<1> DEFINE M == GenerateMask64(Bits - m, Bits - 1)
           b == Bits - m
           e == Bits - 1
<1>1. m \in Nat /\ Bits \in Nat \ {0} /\ b \in Pattern /\ e \in Pattern /\ b <= e /\ Pattern = 0 .. Bits - 1
  BY Sizes DEF Pattern
<1>2. M \in Word /\ BitsOf(M) = MASK(b, e)
  <2> HIDE DEF b, e
  <2>1. GenerateMask64(b, e) \in Word /\ BitsOf(GenerateMask64(b, e)) = MASK(b, e)
    BY <1>1, MaskBits
  <2> QED  BY <2>1 DEF b, e
<1> HIDE DEF M
<1>3. Not(M) \in Word /\ BitsOf(Not(M)) = Pattern \ BitsOf(M)
  BY <1>2, NotBits
<1>4. ASSUME NEW k \in 0 .. Bits - 1
      PROVE  Bits - 1 - k \in Pattern /\ (Bits - 1 - k \in BitsOf(M) <=> k < m)
  BY <1>1, <1>2 DEF MASK
<1>5. ASSUME NEW k \in 0 .. Bits - 1
      PROVE  Bits - 1 - k \in BitsOf(Not(M)) <=> k >= m
  BY <1>1, <1>3, <1>4
<1> QED  BY <1>2, <1>3, <1>4, <1>5 DEF M

(* What the mask leaves of p * h + q, and what fills it up. *)
LEMMA Masked ==
  ASSUME NEW m \in 1 .. WordBits, NEW h \in Nat, NEW q \in 0 .. Power(2, m) - 1,
         Power(2, m) * h + q \in Word
  PROVE  LET M == GenerateMask64(Bits - m, Bits - 1)
             x == Power(2, m) * h + q IN
         /\ And(x, M) = q
         /\ And(x, Not(M)) = Power(2, m) * h
         /\ Or(q, Not(M)) = Wrap(q - Power(2, m))
<1> DEFINE M == GenerateMask64(Bits - m, Bits - 1)
           p == Power(2, m)
           x == p * h + q
           n == Bits - m
           r == Power(2, n)
           f == r - 1 - 0
           z == p * f + q
<1>1. m \in Nat \ {0} /\ n \in Nat /\ Bits \in Nat \ {0} /\ m + n = Bits /\ m <= Bits /\ Pattern = 0 .. Bits - 1
  BY Sizes DEF Pattern
<1>2. p \in Nat \ {0} /\ r \in Nat \ {0} /\ p * r = Power(2, Bits)
  <2> HIDE DEF n
  <2> QED  BY <1>1, Twos, TwosAdd
<1>3. /\ M \in Word /\ Not(M) \in Word
      /\ \A k \in 0 .. Bits - 1 : /\ Bits - 1 - k \in Pattern
                                  /\ Bits - 1 - k \in BitsOf(M) <=> k < m
                                  /\ Bits - 1 - k \in BitsOf(Not(M)) <=> k >= m
  BY LowMask
<1> HIDE DEF M
<1>4. q \in Nat /\ q < p /\ q \in Int /\ h \in Int /\ f \in Int /\ f = r - 1
  BY <1>2
<1>5. p * h \in Nat /\ p * h <= x /\ q <= x /\ x \in Nat /\ x < Power(2, Bits)
  <2> HIDE DEF p
  <2>1. p * h \in Nat
    BY <1>2
  <2>2. p * h + q < Power(2, Bits)
    BY Sizes DEF p
  <2> QED  BY <1>4, <2>1, <2>2
<1>6. q \in Word /\ p * h \in Word
  <2> HIDE DEF p, x
  <2> QED  BY <1>4, <1>5, Sizes
<1>7. z = q - p + Power(2, Bits) * 1 /\ z \in Int /\ z \in Word
  <2> HIDE DEF p, r
  <2>1. p * (r - 1) = p * r - p
    BY <1>2, <1>4
  <2>2. z = p * r - p + q /\ p * r \in Nat
    BY <1>2, <1>4, <2>1
  <2>3. p * r >= p
    <3>1. r >= 1
      BY <1>2
    <3>2. p * r >= p * 1
      BY <1>2, <3>1
    <3> QED  BY <1>2, <3>2
  <2> HIDE DEF z
  <2>4. z \in 0 .. p * r - 1
    BY <1>2, <1>4, <2>2, <2>3
  <2>5. z = q - p + p * r * 1
    BY <1>2, <1>4, <2>2
  <2> QED  BY <1>2, <2>4, <2>5, Sizes
<1>8. ASSUME NEW k \in 0 .. Bits - 1
      PROVE  /\ Bit(x, k) = IF k < m THEN Bit(q, k) ELSE Bit(h, k - m)
             /\ Bit(p * h, k) = IF k < m THEN 0 ELSE Bit(h, k - m)
             /\ Bit(q, k) = IF k < m THEN Bit(q, k) ELSE 0
             /\ Bit(z, k) = IF k < m THEN Bit(q, k) ELSE 1
  <2>1. k \in Nat /\ m \in Nat
    BY <1>1
  <2>2. Bit(Power(2, m) * h + q, k) = IF k < m THEN Bit(q, k) ELSE Bit(h, k - m)
    BY <1>4, <2>1, BitOfJoin
  <2>3. Bit(Power(2, m) * h, k) = IF k < m THEN 0 ELSE Bit(h, k - m)
    BY <1>4, <2>1, BitOfTimes
  <2>4. k >= m => Bit(q, k) = 0
    BY <1>1, <2>1, BitOfSmall
  <2>5. Bit(Power(2, m) * f + q, k) = IF k < m THEN Bit(q, k) ELSE Bit(f, k - m)
    <3> HIDE DEF f
    <3> QED  BY <1>4, <2>1, BitOfJoin
  <2>6. k >= m => Bit(f, k - m) = 1
    <3>1. SUFFICES ASSUME k >= m PROVE Bit(f, k - m) = 1
      OBVIOUS
    <3>2. k - m \in 0 .. n - 1 /\ k - m \in Nat /\ 0 \in Int
      BY <1>1, <3>1
    <3>3. Bit(Power(2, n) - 1 - 0, k - m) = 1 - Bit(0, k - m)
      <4> HIDE DEF n
      <4> QED  BY <1>1, <3>2, BitOfNot
    <3>4. 0 \in 0 .. Power(2, 0) - 1 /\ 0 \in Nat /\ k - m >= 0
      BY <3>2, FirstTwos
    <3>5. Bit(0, k - m) = 0
      BY <3>2, <3>4, BitOfSmall
    <3> QED  BY <3>3, <3>5
  <2> HIDE DEF n, f
  <2> QED  BY <1>1, <2>1, <2>2, <2>3, <2>4, <2>5, <2>6
<1>9. ASSUME NEW y, NEW k \in 0 .. Bits - 1
      PROVE  Bits - 1 - k \in BitsOf(y) <=> Bit(y, k) = 1
  <2>1. Bits - 1 - k \in Pattern /\ Bits - 1 - (Bits - 1 - k) = k
    BY <1>1
  <2> QED  BY <2>1, OneBits
<1> HIDE DEF p, x, z, n, r, f
<1>10. BitsOf(q) = BitsOf(x) \cap BitsOf(M)
  <2> DEFINE S == BitsOf(x) \cap BitsOf(M)
  <2>1. ASSUME NEW k \in 0 .. Bits - 1 PROVE Bit(q, k) = 1 <=> Bits - 1 - k \in S
    BY <1>1, <1>3, <1>8, <1>9
  <2>2. S \subseteq Pattern
    BY DEF BitsOf
  <2> HIDE DEF S
  <2>3. BitsOf(q) = S
    BY <2>1, <2>2, OnesAre
  <2> QED  BY <2>3 DEF S
<1>11. BitsOf(p * h) = BitsOf(x) \cap BitsOf(Not(M))
  <2> DEFINE S == BitsOf(x) \cap BitsOf(Not(M))
             y == p * h
  <2>1. ASSUME NEW k \in 0 .. Bits - 1 PROVE Bit(y, k) = 1 <=> Bits - 1 - k \in S
    BY <1>1, <1>3, <1>8, <1>9
  <2>2. S \subseteq Pattern
    BY DEF BitsOf
  <2> HIDE DEF S, y
  <2>3. BitsOf(y) = S
    BY <2>1, <2>2, OnesAre
  <2> QED  BY <2>3 DEF S, y
<1>12. BitsOf(z) = BitsOf(q) \cup BitsOf(Not(M))
  <2> DEFINE S == BitsOf(q) \cup BitsOf(Not(M))
  <2>1. ASSUME NEW k \in 0 .. Bits - 1 PROVE Bit(z, k) = 1 <=> Bits - 1 - k \in S
    BY <1>1, <1>3, <1>8, <1>9
  <2>2. S \subseteq Pattern
    BY DEF BitsOf
  <2> HIDE DEF S
  <2>3. BitsOf(z) = S
    BY <2>1, <2>2, OnesAre
  <2> QED  BY <2>3 DEF S
<1>13. And(x, M) = q
  <2> DEFINE y == And(x, M)
  <2>1. y \in Word /\ BitsOf(y) = BitsOf(q)
    BY <1>10, LogicBits
  <2> HIDE DEF y
  <2>2. y = q
    BY <1>6, <2>1, SameWord
  <2> QED  BY <2>2 DEF y
<1>14. And(x, Not(M)) = p * h
  <2> DEFINE y == p * h
  <2>1. y \in Word /\ BitsOf(y) = BitsOf(x) \cap BitsOf(Not(M))
    BY <1>6, <1>11
  <2> HIDE DEF y
  <2>2. And(x, Not(M)) = y
    BY <2>1, LogicBits, SameWord
  <2> QED  BY <2>2 DEF y
<1>15. Or(q, Not(M)) = z
  <2> DEFINE y == Or(q, Not(M))
  <2>1. y \in Word /\ BitsOf(y) = BitsOf(z)
    BY <1>12, LogicBits
  <2> HIDE DEF y
  <2>2. y = z
    BY <1>7, <2>1, SameWord
  <2> QED  BY <2>2 DEF y
<1>16. z = Wrap(q - p)
  <2> DEFINE y == q - p
             e == 1
  <2>1. y \in Int /\ e \in Int /\ z = y + Power(2, Bits) * e
    BY <1>2, <1>4, <1>7
  <2> HIDE DEF y, e
  <2>2. Wrap(z) = Wrap(y)
    BY <1>7, <2>1, WrapSame
  <2> QED  BY <1>7, <2>2, WordWraps DEF y
<1> QED  BY <1>13, <1>14, <1>15, <1>16 DEF p, x, M

(* What the mask of an algebraic shift keeps, loses and fills. *)
LEMMA AlgebraicParts ==
  ASSUME Fetched, ir.op \in {"sraw", "srawi"}, Conforming
  PROVE  LET l == Low(ir.a, WordBits)
             c == Power(2, Count)
             p == Power(2, WordBits - Count)
             q == l \div c
             h == l % c IN
         /\ c \in Nat \ {0} /\ p \in Nat \ {0} /\ Power(2, WordBits) = c * p
         /\ l = c * q + h /\ h \in 0 .. c - 1 /\ q \in Nat /\ q \in Word
         /\ And(Rotated, ShiftMask) = q
         /\ Or(q, Not(ShiftMask)) = Wrap(q - p)
         /\ Lost <=> h # 0
<1> DEFINE l == Low(ir.a, WordBits)
           m == WordBits - Count
           c == Power(2, Count)
           p == Power(2, m)
           q == l \div c
           h == l % c
           M == GenerateMask64(Bits - m, Bits - 1)
           x == p * h + q
<1>1. ir.a \in Word /\ ir.b \in Word
  BY Operands DEF XForms
<1>2. Count \in Nat /\ Count < WordBits /\ WordBits \in Nat /\ Bits = 2 * WordBits /\ m \in 1 .. WordBits /\ m \in Nat
  BY <1>1, CountType, Sizes
<1>3. c \in Nat \ {0} /\ p \in Nat \ {0}
  <2> HIDE DEF m
  <2> QED  BY <1>2, Twos
<1>4. /\ q \in 0 .. p - 1 /\ h \in 0 .. c - 1
      /\ l = c * q + h
      /\ Power(2, WordBits) = c * p
      /\ Rotated = x
  BY <1>1, RotatedIs
<1>5. ShiftMask = M
  <2>1. Count + WordBits = Bits - m
    BY <1>2
  <2> QED  BY <2>1, AlgebraicCount DEF ShiftMask
<1>6. Low(ir.a, WordBits) \in Word
  BY <1>1, InWord, LowWordType
<1> HIDE DEF l, h, q
<1>7. /\ p * h \in Nat /\ x \in Nat /\ p * h + q < c * p
      /\ p * h = 0 <=> h = 0
  <2> HIDE DEF c, p, x
  <2>1. p * h \in Nat /\ c * p \in Nat
    BY <1>3, <1>4
  <2>2. p * (h + 1) <= p * c
    BY <1>3, <1>4
  <2>3. p * (h + 1) = p * h + p /\ p * c = c * p
    BY <1>3, <1>4
  <2>4. h # 0 => p * h >= p
    BY <1>3, <1>4
  <2> QED  BY <1>3, <1>4, <2>1, <2>2, <2>3, <2>4 DEF x
<1>8. Power(2, WordBits) <= Power(2, Bits)
  BY <1>2, TwosGrow
<1>9. x \in Word /\ q \in Word /\ h \in Nat /\ q \in Nat
  <2>1. x < Power(2, Bits) /\ q < Power(2, Bits)
    <3> HIDE DEF c, p
    <3>1. Power(2, Bits) \in Nat /\ Power(2, WordBits) \in Nat
      BY Sizes
    <3>2. p * h + q < Power(2, Bits)
      BY <1>3, <1>4, <1>7, <1>8, <3>1
    <3> QED  BY <1>3, <1>4, <1>7, <3>1, <3>2
  <2> HIDE DEF x, p, c
  <2> QED  BY <1>3, <1>4, <1>7, <2>1, Sizes
<1>10. /\ And(x, M) = q
       /\ And(x, Not(M)) = p * h
       /\ Or(q, Not(M)) = Wrap(q - p)
  <2> HIDE DEF m
  <2> QED  BY <1>2, <1>4, <1>9, Masked
<1>11. Low(p * h, WordBits) = p * h
  <2> DEFINE y == p * h
             t == Power(2, WordBits)
  <2>1. y \in 0 .. t - 1 /\ t \in Nat \ {0}
    <3>1. t \in Nat \ {0}
      BY Sizes
    <3> HIDE DEF c, p, x, t
    <3> QED  BY <1>3, <1>4, <1>7, <3>1 DEF t
  <2> HIDE DEF y, t
  <2>2. y % t = y
    BY <2>1, ModSmall
  <2> QED  BY <2>2 DEF y, t, Low
<1> HIDE DEF x, p, M
<1>12. Lost <=> h # 0
  BY <1>4, <1>5, <1>7, <1>10, <1>11 DEF Lost
<1> QED  BY <1>3, <1>4, <1>5, <1>9, <1>10, <1>12 DEF l, h, q, p, m

(* The quotient by a power of two, rounded down. *)
LEMMA AlgebraicResult ==
  ASSUME Fetched, ir.op \in {"sraw", "srawi"}, Conforming
  PROVE  Or(And(Rotated, ShiftMask), IF Filled THEN Not(ShiftMask) ELSE 0) = Wrap(Arithmetic)
<1> DEFINE l == Low(ir.a, WordBits)
           c == Power(2, Count)
           p == Power(2, WordBits - Count)
           q == l \div c
           h == l % c
           s == Signed(ir.a, WordBits)
           t == Power(2, WordBits)
<1>1. /\ c \in Nat \ {0} /\ p \in Nat \ {0} /\ t = c * p
      /\ l = c * q + h /\ h \in 0 .. c - 1 /\ q \in Nat /\ q \in Word
      /\ And(Rotated, ShiftMask) = q
      /\ Or(q, Not(ShiftMask)) = Wrap(q - p)
  BY AlgebraicParts
<1>2. Arithmetic = s \div c
  <2>1. Arithmetic = Signed(ir.a, WordBits) \div Power(2, ir.b % Bits)
    BY DEF Arithmetic
  <2> QED  BY <2>1, AlgebraicCount
<1>3. s = IF Filled THEN l - t ELSE l
  <2>1. s = l - (IF Negative(ir.a, WordBits) THEN t ELSE 0)
    BY DEF Signed
  <2>2. l \in Int
    BY <1>1
  <2> HIDE DEF l, s, t
  <2> QED  BY <2>1, <2>2, FilledIs
<1> HIDE DEF l, q, h, s, t
<1>4. CASE Filled
  <2> DEFINE e == q - p
  <2>1. e \in Int /\ s = c * e + h /\ s \in Int
    <3> HIDE DEF c, p
    <3>1. c * (q - p) = c * q - c * p
      BY <1>1
    <3> QED  BY <1>1, <1>3, <1>4, <3>1
  <2> HIDE DEF c, e
  <2>2. s \div c = e
    BY <1>1, <2>1, Remains
  <2> QED  BY <1>1, <1>2, <1>4, <2>2 DEF e
<1>5. CASE ~Filled
  <2> HIDE DEF c
  <2>1. s = c * q + h /\ s \in Int /\ q \in Int
    BY <1>1, <1>3, <1>5
  <2>2. s \div c = q
    BY <1>1, <2>1, Remains
  <2> DEFINE r == Or(q, 0)
  <2>3. r \in Word /\ BitsOf(r) = BitsOf(q)
    BY LogicBits, ZeroBits
  <2> HIDE DEF r
  <2>4. r = q
    BY <1>1, <2>3, SameWord
  <2>5. Wrap(q) = q
    BY <1>1, WordWraps
  <2> QED  BY <1>1, <1>2, <1>5, <2>2, <2>4, <2>5 DEF r
<1> QED  BY <1>4, <1>5

(* sraw, srawi. *)
LEMMA ShiftAlgebraicStep ==
  ASSUME Fetched, ShiftAlgebraic
  PROVE  \E r : Right(r)
<1> DEFINE r == Or(And(Rotated, ShiftMask), IF Filled THEN Not(ShiftMask) ELSE 0)
<1>1. ir.op \in {"sraw", "srawi"}
  BY DEF ShiftAlgebraic, Is
<1>2. Leaves(r)
  BY <1>1 DEF ShiftAlgebraic, Leaves, DForms
<1>3. r \in Word
  BY LogicBits
<1>4. Conforming => r = Wrap(Arithmetic)
  BY <1>1, AlgebraicResult
<1> HIDE DEF r
<1>5. Right(r)
  BY <1>1, <1>2, <1>3, <1>4, ArithmeticRight DEF ArithmeticForms
<1> QED  BY <1>5

(* The carry of sraw and srawi. *)
LEMMA ShiftAlgebraicCarry ==
  ASSUME Fetched, ShiftAlgebraic
  PROVE  /\ ca' \in BOOLEAN
         /\ Conforming => (ca' <=> Negative(ir.a, WordBits) /\ Low(ir.a, WordBits) % Power(2, Count) # 0)
<1>1. ir.op \in {"sraw", "srawi"} /\ ca' = (Filled /\ Lost)
  BY DEF ShiftAlgebraic, Is
<1>2. ASSUME Conforming PROVE Lost <=> Low(ir.a, WordBits) % Power(2, Count) # 0
  BY <1>1, <1>2, AlgebraicParts
<1>3. Conforming => (Filled <=> Negative(ir.a, WordBits))
  BY <1>1, FilledIs
<1> QED  BY <1>1, <1>2, <1>3

-----------------------------------------------------------------------------
(* Division. *)

(* The quotient of naturals and what remains. *)
LEMMA NaturalQuotient ==
  ASSUME NEW x \in Nat, NEW y \in Nat \ {0}
  PROVE  LET q == x \div y IN q \in 0 .. x /\ q * y <= x /\ x - q * y \in 0 .. y - 1
<1> DEFINE q == x \div y
           r == x % y
<1>1. x = y * q + r /\ r \in 0 .. y - 1 /\ q \in Int /\ x \in Int
  <2>1. x \in Int
    OBVIOUS
  <2> QED  BY <2>1, Division
<1> HIDE DEF q, r
<1>2. y * q = q * y
  BY <1>1
<1>3. q >= 0
  <2>1. SUFFICES ASSUME q <= -1 PROVE FALSE
    BY <1>1
  <2>2. y * q <= -y
    BY <1>1, <2>1
  <2> QED  BY <1>1, <2>2
<1>4. y * q >= q
  BY <1>1, <1>3
<1>5. q \in 0 .. x /\ q * y <= x /\ x - q * y \in 0 .. y - 1
  BY <1>1, <1>2, <1>3, <1>4
<1> QED  BY <1>5 DEF q

(* Squares order naturals as they are ordered. *)
LEMMA SquaresGrow ==
  ASSUME NEW r \in Nat, NEW y \in Nat, r < y
  PROVE  r * r < y * y
<1>1. r * r <= r * y
  OBVIOUS
<1>2. (r + 1) * y <= y * y /\ (r + 1) * y = r * y + y
  OBVIOUS
<1>3. r * r \in Nat /\ r * y \in Nat /\ y * y \in Nat
  OBVIOUS
<1> QED  BY <1>1, <1>2, <1>3

(* Division towards zero leaves a remainder with the sign of the dividend, smaller *)
(* than the divisor; only most negative by minus one leaves the range.             *)
LEMMA QuotientIs ==
  ASSUME NEW x \in Int, NEW y \in Int \ {0}
  PROVE  LET q == Quotient(x, y) IN
         /\ q \in Int /\ DividesTo(x, y, q)
         /\ \A h \in Nat : x \in -h .. h - 1 /\ ~(x = -h /\ y = -1) => q \in -h .. h - 1
<1> DEFINE u == IF x < 0 THEN -x ELSE x
           v == IF y < 0 THEN -y ELSE y
           k == u \div v
           q == IF (x < 0) # (y < 0) THEN -k ELSE k
           r == u - k * v
<1>1. Quotient(x, y) = q
  BY DEF Quotient
<1>2. u \in Nat /\ v \in Nat \ {0}
  OBVIOUS
<1>3. k \in 0 .. u /\ k * v <= u /\ r \in 0 .. v - 1
  <2> HIDE DEF u, v
  <2> QED  BY <1>2, NaturalQuotient
<1> HIDE DEF k
<1>4. k \in Nat /\ k * v \in Nat /\ r \in Nat /\ r <= u /\ q \in Int
  <2> HIDE DEF u, v
  <2>1. k * v \in Nat
    BY <1>2, <1>3
  <2> QED  BY <1>2, <1>3, <2>1
<1>5. r * r < v * v
  <2> HIDE DEF u, v, r
  <2> QED  BY <1>2, <1>3, <1>4, SquaresGrow
<1>6. v * v = y * y
  BY <1>2
<1>7. x - q * y = IF x < 0 THEN -r ELSE r
  <2>1. CASE x < 0 /\ y < 0
    <3>1. q = k /\ k * (-y) = -(k * y)
      BY <1>4, <2>1
    <3> QED  BY <1>4, <2>1, <3>1
  <2>2. CASE x < 0 /\ y > 0
    <3>1. q = -k /\ (-k) * y = -(k * y)
      BY <1>4, <2>2
    <3> QED  BY <1>4, <2>2, <3>1
  <2>3. CASE x >= 0 /\ y < 0
    <3>1. q = -k /\ (-k) * y = k * (-y)
      BY <1>4, <2>3
    <3> QED  BY <1>4, <2>3, <3>1
  <2>4. CASE x >= 0 /\ y > 0
    <3>1. q = k
      BY <1>4, <2>4
    <3> QED  BY <1>4, <2>4, <3>1
  <2> QED  BY <2>1, <2>2, <2>3, <2>4
<1>8. DividesTo(x, y, q)
  <2> DEFINE z == x - q * y
  <2>1. z = IF x < 0 THEN -r ELSE r
    BY <1>7
  <2>2. r \in 0 .. u
    BY <1>2, <1>4
  <2>3. (-r) * (-r) = r * r
    BY <1>4
  <2>4. z * z = r * r
    BY <2>1, <2>3, <1>4
  <2>5. DividesTo(x, y, q) <=> (x >= 0 => z \in 0 .. x) /\ (x < 0 => z \in x .. 0) /\ z * z < y * y
    BY DEF DividesTo
  <2> HIDE DEF z, r
  <2> QED  BY <1>4, <1>5, <1>6, <2>1, <2>2, <2>4, <2>5
<1>9. ASSUME NEW h \in Nat, x \in -h .. h - 1, ~(x = -h /\ y = -1) PROVE q \in -h .. h - 1
  <2>1. k <= h
    BY <1>3, <1>9
  <2>2. CASE (x < 0) # (y < 0)
    BY <1>4, <1>9, <2>1, <2>2
  <2>3. CASE x >= 0 /\ y >= 0
    BY <1>3, <1>9, <2>3
  <2>4. CASE x < 0 /\ y < 0
    <3>1. SUFFICES ASSUME k = h PROVE FALSE
      BY <1>4, <2>1, <2>4
    <3>2. x = -h /\ h # 0
      BY <1>3, <1>9, <2>4, <3>1
    <3>3. h * v <= h
      BY <1>3, <3>1, <3>2
    <3>4. v = 1
      <4> HIDE DEF v
      <4>1. v >= 2 => h * v >= h * 2
        BY <1>2
      <4> QED  BY <1>2, <3>2, <3>3, <4>1
    <3> QED  BY <1>9, <2>4, <3>2, <3>4
  <2> QED  BY <2>2, <2>3, <2>4
<1> HIDE DEF q
<1> QED  BY <1>1, <1>4, <1>8, <1>9

(* The signed value of a word. *)
LEMMA SignedRange ==
  ASSUME NEW x \in Word
  PROVE  LET h == Power(2, Bits - 1) IN
         /\ h \in Nat \ {0} /\ Power(2, Bits) = 2 * h
         /\ Signed(x, Bits) \in -h .. h - 1
         /\ Signed(x, Bits) = IF x >= h THEN x - 2 * h ELSE x
<1> DEFINE h == Power(2, Bits - 1)
<1>1. h \in Nat \ {0} /\ Power(2, Bits) = 2 * h
  <2>1. Bits \in Nat /\ Bits # 0 /\ Bits - 1 \in Nat
    BY Sizes
  <2> QED  BY <2>1, Twos
<1>2. x \in 0 .. 2 * h - 1 /\ Low(x, Bits) = x
  BY <1>1, Sizes, InWord DEF Low
<1>3. Signed(x, Bits) = x - (IF x >= h THEN 2 * h ELSE 0)
  BY <1>1, <1>2 DEF Signed, Negative
<1> HIDE DEF h
<1>4. Signed(x, Bits) \in -h .. h - 1 /\ Signed(x, Bits) = IF x >= h THEN x - 2 * h ELSE x
  BY <1>1, <1>2, <1>3
<1> QED  BY <1>1, <1>4 DEF h

(* A value in the signed range survives wrapping. *)
LEMMA SignedWraps ==
  ASSUME NEW v \in Int, v \in -Power(2, Bits - 1) .. Power(2, Bits - 1) - 1
  PROVE  Signed(Wrap(v), Bits) = v
<1> DEFINE h == Power(2, Bits - 1)
           w == Wrap(v)
           t == Power(2, Bits)
           q == IF v < 0 THEN -1 ELSE 0
           r == v - t * q
<1>1. w \in Word
  BY WrapIs
<1>2. /\ h \in Nat \ {0} /\ t = 2 * h
      /\ Signed(w, Bits) = IF w >= h THEN w - 2 * h ELSE w
  <2> HIDE DEF w
  <2> QED  BY <1>1, SignedRange
<1>3. v \in -h .. h - 1
  OBVIOUS
<1>4. w = v % t
  BY DEF Wrap
<1> HIDE DEF h, t, w
<1>5. /\ t \in Nat \ {0} /\ q \in Int
      /\ r = IF v < 0 THEN v + t ELSE v
      /\ r \in 0 .. t - 1 /\ v = t * q + r
  BY <1>2, <1>3
<1> HIDE DEF q, r
<1>6. v % t = r
  <2>1. v \in Int
    OBVIOUS
  <2>2. t \in Nat \ {0} /\ q \in Int /\ r \in 0 .. t - 1 /\ v = t * q + r
    BY <1>5
  <2> QED  BY <2>1, <2>2, Remains
<1> QED  BY <1>2, <1>3, <1>4, <1>5, <1>6 DEF w

(* divd, where the quotient is defined. *)
LEMMA DivdIs ==
  ASSUME Fetched, ir.op = "divd", ~HostTraps
  PROVE  Divided \in Word /\ AsArchitected(Divided)
<1> DEFINE x == Signed(ir.a, Bits)
           y == Signed(ir.b, Bits)
           h == Power(2, Bits - 1)
           q == Quotient(x, y)
<1>1. ir.a \in Word /\ ir.b \in Word
  BY Operands DEF XOForms
<1>2. ir.b # 0 /\ ~(x = -h /\ y = -1)
  BY DEF HostTraps, Divisor, Unrepresentable
<1>3. /\ h \in Nat \ {0} /\ x \in -h .. h - 1 /\ y \in -h .. h - 1
      /\ Power(2, Bits) = 2 * h /\ y = IF ir.b >= h THEN ir.b - 2 * h ELSE ir.b
  BY <1>1, SignedRange
<1>4. ir.b \in 0 .. 2 * h - 1
  BY <1>1, <1>3, Sizes
<1> HIDE DEF x, y, h
<1>5. x \in Int /\ y \in Int \ {0}
  BY <1>2, <1>3, <1>4
<1>6. q \in Int /\ DividesTo(x, y, q) /\ q \in -h .. h - 1
  BY <1>2, <1>3, <1>5, QuotientIs
<1> HIDE DEF q
<1>7. Divided = Wrap(q)
  BY DEF Divided, x, y, q
<1>8. Signed(Wrap(q), Bits) = q /\ Wrap(q) \in Word
  BY <1>6, SignedWraps, WrapIs DEF h
<1>9. DividesTo(SignedA, Signed(ir.b, Bits), q)
  BY <1>6 DEF SignedA, x, y
<1>10. AsArchitected(Wrap(q))
  BY <1>8, <1>9 DEF AsArchitected
<1> QED  BY <1>7, <1>8, <1>10

(* The unsigned quotient. *)
LEMMA DividedUnsigned ==
  ASSUME NEW x \in Word, NEW y \in Word, y # 0
  PROVE  LET q == x \div y IN q \in Word /\ q <= x /\ DividesTo(x, y, q)
<1> DEFINE q == x \div y
           r == x - q * y
<1>1. x \in Nat /\ y \in Nat \ {0}
  BY InWord
<1>2. q \in 0 .. x /\ q * y <= x /\ r \in 0 .. y - 1
  BY <1>1, NaturalQuotient
<1> HIDE DEF q
<1>3. q * y \in Nat /\ r \in 0 .. x
  BY <1>1, <1>2
<1>4. r * r < y * y
  <2> HIDE DEF r
  <2> QED  BY <1>1, <1>2, SquaresGrow
<1>5. DividesTo(x, y, q)
  BY <1>1, <1>3, <1>4 DEF DividesTo
<1>6. q \in Word
  BY <1>1, <1>2, Sizes, InWord
<1> QED  BY <1>1, <1>2, <1>5, <1>6 DEF q

(* divdu, where the divisor is not zero. *)
LEMMA DivduIs ==
  ASSUME Fetched, ir.op = "divdu", ~HostTraps
  PROVE  Divided \in Word /\ AsArchitected(Divided)
<1> DEFINE q == ir.a \div ir.b
<1>1. ir.a \in Word /\ ir.b \in Word /\ ir.b # 0
  BY Operands DEF XOForms, HostTraps, Divisor
<1>2. q \in Word /\ DividesTo(ir.a, ir.b, q)
  BY <1>1, DividedUnsigned
<1>3. Divided = q
  BY DEF Divided
<1> HIDE DEF q
<1> QED  BY <1>2, <1>3 DEF AsArchitected

(* divwu, where the low word of the divisor is not zero. *)
LEMMA DivwuIs ==
  ASSUME Fetched, ir.op = "divwu", ~HostTraps
  PROVE  Divided \in Word /\ AsArchitected(Divided)
<1> DEFINE l == Low(ir.a, WordBits)
           d == Low(ir.b, WordBits)
           q == l \div d
           t == Power(2, WordBits)
<1>1. ir.a \in Int /\ ir.b \in Int /\ WordBits \in Nat
  BY Operands, InWord, Sizes DEF XOForms
<1>2. l \in Word /\ d \in Word /\ d # 0 /\ l \in 0 .. t - 1 /\ t \in Nat \ {0}
  <2>1. l \in Word /\ d \in Word /\ l \in 0 .. t - 1
    BY <1>1, LowWordType, LowType
  <2>2. d # 0
    BY DEF HostTraps, Divisor
  <2> QED  BY <2>1, <2>2, Sizes
<1>3. Divided = q
  BY DEF Divided, Divisor
<1>4. q \in Word /\ q <= l /\ DividesTo(l, d, q)
  <2> HIDE DEF l, d
  <2> QED  BY <1>2, DividedUnsigned
<1> HIDE DEF q
<1>5. Low(q, WordBits) = q
  <2>1. q \in 0 .. t - 1
    <3> HIDE DEF l, t
    <3> QED  BY <1>2, <1>4, InWord
  <2> HIDE DEF t
  <2>2. q % t = q
    BY <1>2, <2>1, ModSmall
  <2> QED  BY <2>2 DEF Low, t
<1>6. DividesTo(l, d, Low(q, WordBits))
  BY <1>4, <1>5
<1>7. AsArchitected(q)
  BY <1>6 DEF AsArchitected, l, d
<1> QED  BY <1>3, <1>4, <1>7

(* divd, divdu, divwu: a result, or the trap of the one quotient without an int64_t. *)
LEMMA DivideStep ==
  ASSUME Fetched, DivideRegisters
  PROVE  \/ status' = status /\ \E r : Right(r)
         \/ status' = "trapped" /\ ir.op = "divd" /\ Unrepresentable /\ UNCHANGED <<rt, cr0>>
<1>1. ir.op \in {"divdu", "divwu", "divd"} /\ ir.op \in XOForms /\ ir.op \notin DForms \cup {"andc"}
  BY DEF DivideRegisters, Divides, XO, Is, XOForms, DForms
<1>2. ASSUME NEW r \in Word, Recorded(r), HostTraps PROVE Right(r)
  BY <1>1, <1>2, Delivered DEF Leaves, Right, Conforming, Quotients
<1>3. CASE Replaced /\ Recorded(Not(0)) /\ UNCHANGED status
  BY <1>2, <1>3, ZeroBits DEF Replaced, HostTraps
<1>4. CASE ~Replaced /\ ~HostTraps /\ Recorded(Divided) /\ UNCHANGED status
  <2>1. Divided \in Word /\ AsArchitected(Divided)
    BY <1>1, <1>4, DivdIs, DivduIs, DivwuIs
  <2>2. Right(Divided)
    BY <1>1, <1>4, <2>1, Delivered DEF Leaves, Right
  <2> QED  BY <1>4, <2>2
<1>5. CASE ~Replaced /\ Unrepresentable /\ ir.op = "divd" /\ Recorded(ir.a) /\ UNCHANGED status
  <2>1. ir.a \in Word
    BY <1>1, Operands
  <2> QED  BY <1>2, <1>5, <2>1 DEF HostTraps
<1>6. CASE ~Replaced /\ HostTraps /\ status' = "trapped" /\ UNCHANGED <<rt, cr0>>
  BY <1>6 DEF Replaced, HostTraps
<1> QED  BY <1>3, <1>4, <1>5, <1>6 DEF DivideRegisters

-----------------------------------------------------------------------------
(* The theorems. *)

(* Registers, carry, condition field and status have their types, and the     *)
(* instruction to execute is one that may be executed.                        *)
TypeOK ==
  /\ rt \in Word /\ ca \in BOOLEAN /\ cr0 \in {"lt", "gt", "eq"}
  /\ status \in {"running", "failed", "trapped"}
  /\ Fetched

(* How a step may end. *)
Succeeds == status = "running" /\ status' = "running" /\ ir' = NoInstr /\ \E r : Right(r)
Traps == /\ status' = "trapped" /\ ir' = NoInstr /\ ir.op = "divd" /\ Unrepresentable
         /\ UNCHANGED <<rt, cr0>>
Fails == status' = "failed" /\ UNCHANGED <<rt, ca, cr0, ir>>

(* How every step ends. *)
LEMMA Ends ==
  ASSUME TypeOK, Next
  PROVE  Succeeds \/ Traps \/ Fails
<1>1. Fetched
  BY DEF TypeOK
<1>2. ASSUME ir' = NoInstr, Running, \E r : Right(r) PROVE Succeeds
  BY <1>2 DEF Running, Succeeds
<1>3. CASE Running /\ AddRegisters
  BY <1>1, <1>2, <1>3, AddStep DEF AddRegisters, XO, Is
<1>4. CASE Running /\ AddImmediate
  BY <1>1, <1>2, <1>4, AddImmediateStep DEF AddImmediate, Is
<1>5. CASE Running /\ AddCarrying
  BY <1>1, <1>2, <1>5, AddCarryingStep DEF AddCarrying, XO, Is
<1>6. CASE Running /\ AddImmediateCarrying
  BY <1>1, <1>2, <1>6, AddImmediateCarryingStep DEF AddImmediateCarrying, Is
<1>7. CASE Running /\ MultiplyRegisters
  BY <1>1, <1>2, <1>7, MultiplyStep DEF MultiplyRegisters, XO, Is
<1>8. CASE Running /\ MultiplyImmediate
  BY <1>1, <1>2, <1>8, MultiplyImmediateStep DEF MultiplyImmediate, Is
<1>9. CASE Running /\ MultiplyHigh
  BY <1>1, <1>2, <1>9, MultiplyHighStep DEF MultiplyHigh, Is
<1>10. CASE Running /\ Logical
  BY <1>1, <1>2, <1>10, LogicalStep DEF Logical, Is
<1>11. CASE Running /\ LogicalImmediate
  BY <1>1, <1>2, <1>11, LogicalImmediateStep DEF LogicalImmediate, Is
<1>12. CASE Running /\ Extend
  BY <1>1, <1>2, <1>12, ExtendStep DEF Extend, Is
<1>13. CASE Running /\ CountZeros
  BY <1>1, <1>2, <1>13, CountZerosStep DEF CountZeros, Is
<1>14. CASE Running /\ ShiftLeft
  BY <1>1, <1>2, <1>14, ShiftLeftStep DEF ShiftLeft, Is
<1>15. CASE Running /\ ShiftRight
  BY <1>1, <1>2, <1>15, ShiftRightStep DEF ShiftRight, Is
<1>16. CASE Running /\ ShiftAlgebraic
  BY <1>1, <1>2, <1>16, ShiftAlgebraicStep DEF ShiftAlgebraic, Is
<1>17. CASE Running /\ RotateWord
  BY <1>1, <1>2, <1>17, RotateWordStep DEF RotateWord, Is
<1>18. CASE Running /\ RotateDouble
  BY <1>1, <1>2, <1>18, RotateDoubleStep DEF RotateDouble, Is
<1>19. CASE status = "running" /\ DivideRegisters
  <2>1. ir' = NoInstr
    BY <1>19 DEF DivideRegisters, Divides, XO, Is
  <2> QED  BY <1>1, <1>19, <2>1, DivideStep DEF Succeeds, Traps
<1>20. CASE status = "running" /\ Unimplemented
  BY <1>20 DEF Unimplemented, Fails
<1> QED  BY <1>3, <1>4, <1>5, <1>6, <1>7, <1>8, <1>9, <1>10, <1>11, <1>12, <1>13, <1>14, <1>15, <1>16,
            <1>17, <1>18, <1>19, <1>20 DEF Next

(* The carry a step leaves. *)
Shifts == {"sraw", "srawi"}
Carrying == {"addc", "subfc", "addic", "subfic"}
CarryIs ==
  /\ ca' \in BOOLEAN
  /\ IF ir.op \in Shifts
       THEN Conforming => (ca' <=> Negative(ir.a, WordBits) /\ Low(ir.a, WordBits) % Power(2, Count) # 0)
       ELSE ir.op \in Carrying \/ ca' = ca

(* An instruction that leaves the carry alone. *)
LEMMA Unshifted ==
  ASSUME TypeOK, ir.op \notin Shifts, UNCHANGED ca
  PROVE  CarryIs
BY DEF CarryIs, TypeOK

(* The carry of a sum is a carry. *)
LEMMA CarryOfSums ==
  ASSUME NEW x, NEW y, ca' \in Carries(x, y)
  PROVE  ca' \in BOOLEAN
<1> DEFINE from == Signed(x, Bits)
           negative == y < 0
           less == Signed(from + y, Bits) < from
<1>1. Carries(x, y) = {negative, less}
  BY Zenon DEF Carries
<1>2. negative \in BOOLEAN /\ less \in BOOLEAN
  OBVIOUS
<1> HIDE DEF negative, less
<1> QED  BY <1>1, <1>2, Zenon

(* The carry every executed instruction leaves. *)
LEMMA CarryStep ==
  ASSUME TypeOK, Next, ir' = NoInstr
  PROVE  CarryIs
<1>1. CASE ShiftAlgebraic
  <2>1. Fetched /\ ir.op \in Shifts
    BY <1>1 DEF TypeOK, ShiftAlgebraic, Is, Shifts
  <2> QED  BY <1>1, <2>1, ShiftAlgebraicCarry DEF CarryIs
<1>2. CASE AddCarrying
  <2>1. ir.op \in Carrying /\ ir.op \notin Shifts
    BY <1>2 DEF AddCarrying, XO, Is, Carrying, Shifts
  <2>2. ca' \in BOOLEAN
    BY <1>2, CarryOfSums DEF AddCarrying
  <2> QED  BY <2>1, <2>2 DEF CarryIs
<1>3. CASE AddImmediateCarrying
  <2>1. ir.op \in Carrying /\ ir.op \notin Shifts
    BY <1>3 DEF AddImmediateCarrying, Is, Carrying, Shifts
  <2>2. ca' \in BOOLEAN
    BY <1>3, CarryOfSums DEF AddImmediateCarrying
  <2> QED  BY <2>1, <2>2 DEF CarryIs
<1>4. CASE Unimplemented
  <2>1. ir.op \notin Shifts
    BY <1>4 DEF Unimplemented, OEForm, XOForms, Shifts
  <2> QED  BY <1>4, <2>1, Unshifted DEF Unimplemented
<1>5. CASE AddRegisters \/ MultiplyRegisters \/ DivideRegisters
  <2>1. ir.op \notin Shifts
    BY <1>5 DEF AddRegisters, MultiplyRegisters, DivideRegisters, Divides, XO, Is, Shifts
  <2> QED  BY <1>5, <2>1, Unshifted DEF AddRegisters, MultiplyRegisters, DivideRegisters
<1>6. CASE AddImmediate \/ MultiplyImmediate \/ LogicalImmediate
  <2>1. ir.op \notin Shifts
    BY <1>6 DEF AddImmediate, MultiplyImmediate, LogicalImmediate, Is, Shifts
  <2> QED  BY <1>6, <2>1, Unshifted DEF AddImmediate, MultiplyImmediate, LogicalImmediate
<1>7. CASE MultiplyHigh \/ Logical \/ Extend \/ CountZeros
  <2>1. ir.op \notin Shifts
    BY <1>7 DEF MultiplyHigh, Logical, Extend, CountZeros, Is, Shifts
  <2> QED  BY <1>7, <2>1, Unshifted DEF MultiplyHigh, Logical, Extend, CountZeros
<1>8. CASE ShiftLeft \/ ShiftRight \/ RotateWord \/ RotateDouble
  <2>1. ir.op \notin Shifts
    BY <1>8 DEF ShiftLeft, ShiftRight, RotateWord, RotateDouble, Is, Shifts
  <2> QED  BY <1>8, <2>1, Unshifted DEF ShiftLeft, ShiftRight, RotateWord, RotateDouble
<1> QED  BY <1>1, <1>2, <1>3, <1>4, <1>5, <1>6, <1>7, <1>8 DEF Next

(* The initial states have the types. *)
LEMMA TypeInit == Init => TypeOK
<1>1. 0 \in Word
  BY Sizes, InWord
<1> QED  BY <1>1 DEF Init, TypeOK, Fetched

(* The sign is a value of field 0. *)
LEMMA SignIs ==
  ASSUME NEW x
  PROVE  Sign(x) \in {"lt", "gt", "eq"}
BY DEF Sign

(* Every step keeps the types. *)
LEMMA TypeNext == TypeOK /\ [Next]_vars => TypeOK'
<1>1. ASSUME TypeOK, Next PROVE TypeOK'
  <2>1. Fetched' /\ (ir' = NoInstr \/ UNCHANGED ca)
    BY <1>1, Ends DEF TypeOK, Fetched, Succeeds, Traps, Fails
  <2>2. ca' \in BOOLEAN
    BY <1>1, <2>1, CarryStep DEF CarryIs, TypeOK
  <2>3. rt' \in Word /\ cr0' \in {"lt", "gt", "eq"} /\ status' \in {"running", "failed", "trapped"}
    <3>1. CASE Succeeds
      <4>1. PICK r : Right(r)
        BY <3>1 DEF Succeeds
      <4>2. r \in Word /\ rt' = r /\ (cr0' = Sign(r) \/ cr0' = cr0)
        BY <4>1 DEF Right, Delivers
      <4> QED  BY <1>1, <3>1, <4>2, SignIs DEF Succeeds, TypeOK
    <3>2. CASE Traps \/ Fails
      BY <1>1, <3>2 DEF Traps, Fails, TypeOK
    <3> QED  BY <1>1, <3>1, <3>2, Ends
  <2> QED  BY <2>1, <2>2, <2>3 DEF TypeOK
<1>2. ASSUME TypeOK, UNCHANGED vars PROVE TypeOK'
  BY <1>2 DEF vars, TypeOK, Fetched
<1> QED  BY <1>1, <1>2

(* All reachable states have the types. *)
LEMMA Typed == Spec => []TypeOK
BY TypeInit, TypeNext, PTL DEF Spec

(* A step that traps is the one division. *)
LEMMA DivisionStep ==
  TypeOK /\ [Next]_vars => [status' = "trapped" => ir.op = "divd" /\ Unrepresentable]_vars
BY Ends DEF Succeeds, Traps, Fails, vars

(* Guest division stops the host for no operands but the most negative       *)
(* doubleword and minus one: a zero divisor is replaced by a result before   *)
(* the host divides.                                                          *)
THEOREM DivisionCorrect == Spec => DivisionSurvives
BY Typed, DivisionStep, PTL DEF Spec, DivisionSurvives

(* The sign a step records. *)
LEMMA RecordStep ==
  TypeOK /\ [Next]_vars =>
    [Executed /\ status' = "running" /\ ir.op # "andc" =>
       cr0' = IF ir.op \notin DForms /\ ir.rc THEN Sign(rt') ELSE cr0]_vars
<1>1. SUFFICES ASSUME TypeOK, Next, Executed, status' = "running", ir.op # "andc"
               PROVE  cr0' = IF ir.op \notin DForms /\ ir.rc THEN Sign(rt') ELSE cr0
  BY DEF vars
<1>2. Succeeds
  BY <1>1, Ends DEF Traps, Fails
<1>3. PICK r : Right(r)
  BY <1>2 DEF Succeeds
<1> QED  BY <1>1, <1>3 DEF Right, Delivers

(* Every record form but andc. leaves the sign of its 64-bit result in        *)
(* condition field 0 (setCR0 after setGPR), and every other form leaves the   *)
(* field alone.                                                               *)
THEOREM RecordsCorrect == Spec => RecordsSign
BY Typed, RecordStep, PTL DEF Spec, RecordsSign

(* The carry a step leaves, as the property states it. *)
LEMMA CarryKept ==
  TypeOK /\ [Next]_vars =>
    [Executed /\ Conforming =>
       IF ir.op \in {"sraw", "srawi"}
         THEN ca' <=> Negative(ir.a, WordBits) /\ Low(ir.a, WordBits) % (2 ^^ Count) # 0
         ELSE ir.op \in {"addc", "subfc", "addic", "subfic"} \/ ca' = ca]_vars
<1>1. SUFFICES ASSUME TypeOK, Next, Executed, Conforming
               PROVE  IF ir.op \in {"sraw", "srawi"}
                        THEN ca' <=> Negative(ir.a, WordBits) /\ Low(ir.a, WordBits) % (2 ^^ Count) # 0
                        ELSE ir.op \in {"addc", "subfc", "addic", "subfic"} \/ ca' = ca
  BY DEF vars
<1>2. CarryIs
  BY <1>1, CarryStep DEF Executed
<1> QED  BY <1>1, <1>2 DEF CarryIs, Shifts, Carrying

(* sraw and srawi set the carry exactly when the word is negative and a       *)
(* one-bit is shifted out, for every count below a word; no instruction but   *)
(* the carrying sums changes the carry otherwise.                             *)
THEOREM CarryCorrect == Spec => CarryOfShifts
BY Typed, CarryKept, PTL DEF Spec, CarryOfShifts

(* The result a step delivers. *)
LEMMA ResultStep ==
  TypeOK /\ [Next]_vars =>
    [Executed /\ status' = "running" /\ Conforming => AsArchitected(rt')]_vars
<1>1. SUFFICES ASSUME TypeOK, Next, Executed, status' = "running", Conforming
               PROVE  AsArchitected(rt')
  BY DEF vars
<1>2. Succeeds
  BY <1>1, Ends DEF Traps, Fails
<1>3. PICK r : Right(r)
  BY <1>2 DEF Succeeds
<1>4. rt' = r /\ AsArchitected(r)
  BY <1>1, <1>3 DEF Right, Delivers
<1> QED  BY <1>4

(* Every fixed-point instruction delivers the architecture's result, for all  *)
(* register widths, operands, counts and masks, within the limits Conforming  *)
(* names.                                                                      *)
THEOREM ResultCorrect == Spec => ResultAsArchitected
BY Typed, ResultStep, PTL DEF Spec, ResultAsArchitected

-----------------------------------------------------------------------------
(* Loads and stores: bytes, blocks and addresses. *)

(* What the assumptions say of bytes and of the mapped region. *)
LEMMA StorageSizes ==
  /\ ByteBits \in Nat \ {0} /\ DsBits \in Nat \ {0} /\ Bits = 8 * ByteBits
  /\ Power(2, ByteBits) \in Nat \ {0} /\ Byte = 0 .. Power(2, ByteBits) - 1
  /\ Region \subseteq Word
  /\ \E u \in Nat \ {0} : Power(2, Bits) = 16 * u
<1>1. ByteBits \in Nat \ {0} /\ DsBits \in Nat \ {0} /\ Bits = 8 * ByteBits /\ Region \subseteq Word
  BY LoadStoreAssumption
<1>2. Power(2, ByteBits) \in Nat \ {0}
  BY <1>1, Twos
<1>3. \E u \in Nat \ {0} : Power(2, Bits) = 16 * u
  <2> DEFINE n == Bits - 4
             u == Power(2, n)
  <2>1. n \in Nat /\ 4 \in Nat /\ Bits = 4 + n
    BY <1>1
  <2> HIDE DEF n
  <2>2. u \in Nat \ {0} /\ Power(2, Bits) = Power(2, 4) * u
    BY <2>1, Twos, TwosAdd
  <2>3. Power(2, Bits) = 16 * u
    BY <2>2, FirstTwos
  <2> QED  BY <2>2, <2>3
<1> QED  BY <1>1, <1>2, <1>3 DEF Byte

(* The powers of a byte's radix. *)
LEMMA BytePowers == \A n \in Nat : Power(Power(2, ByteBits), n) = Power(2, ByteBits * n)
<1> DEFINE r == Power(2, ByteBits)
           P == {n \in Nat : Power(r, n) = Power(2, ByteBits * n)}
<1>1. 0 \in P
  <2>1. ByteBits * 0 = 0
    BY StorageSizes
  <2>2. Power(r, 0) = 1 /\ Power(2, 0) = 1
    BY PowerSteps, FirstTwos
  <2> QED  BY <2>1, <2>2
<1>2. ASSUME NEW n \in Nat, n \in P PROVE n + 1 \in P
  <2> DEFINE s == ByteBits * n
  <2>1. s \in Nat /\ ByteBits \in Nat /\ ByteBits * (n + 1) = ByteBits + s
    BY StorageSizes
  <2> HIDE DEF s
  <2>2. Power(2, ByteBits + s) = r * Power(2, s)
    BY <2>1, TwosAdd
  <2>3. Power(r, n + 1) = r * Power(r, n)
    BY PowerSteps
  <2>4. Power(r, n) = Power(2, s)
    BY <1>2 DEF s
  <2> QED  BY <2>1, <2>2, <2>3, <2>4
<1> HIDE DEF P
<1>3. Nat \subseteq P
  BY <1>1, <1>2, Induction
<1> QED  BY <1>3 DEF P

(* The bytes of a register loaded with n bytes, big-endian and zero-extended. *)
LEMMA LoadedBytes ==
  ASSUME NEW n \in 1 .. 8, NEW c \in [1 .. n -> Byte]
  PROVE  LET x == Numeral(c, Power(2, ByteBits), n) IN
         /\ x \in Word
         /\ \A j \in 0 .. 7 : RegByte(x, j) = IF j >= 8 - n THEN c[j - (8 - n) + 1] ELSE 0
<1> DEFINE r == Power(2, ByteBits)
           x == Numeral(c, r, n)
<1>1. r \in Nat \ {0} /\ n \in Nat /\ ByteBits \in Nat \ {0} /\ Bits = 8 * ByteBits
  BY StorageSizes
<1>2. c \in Counters(r, n)
  BY StorageSizes DEF Counters
<1>3. x \in 0 .. Power(r, n) - 1
  <2> HIDE DEF r
  <2> QED  BY <1>1, <1>2, NumeralBound
<1>4. \A m \in Nat : Power(r, m) = Power(2, ByteBits * m) /\ Power(r, m) \in Nat \ {0}
  <2>1. \A m \in Nat : Power(r, m) = Power(2, ByteBits * m)
    BY BytePowers
  <2> HIDE DEF r
  <2> QED  BY <1>1, <2>1, PowerType
<1>5. ASSUME NEW m \in Nat, n <= m PROVE x < Power(r, m)
  <2>1. ByteBits * n \in Nat /\ ByteBits * m \in Nat /\ ByteBits * n <= ByteBits * m
    BY <1>1, <1>5
  <2>2. Power(2, ByteBits * n) <= Power(2, ByteBits * m)
    BY <2>1, TwosGrow
  <2>3. Power(r, n) <= Power(r, m) /\ Power(r, m) \in Nat /\ Power(r, n) \in Nat
    BY <1>1, <1>4, <2>2
  <2> HIDE DEF x, r
  <2> QED  BY <1>3, <2>3
<1>6. x \in Word
  <2>1. 8 \in Nat /\ n <= 8
    OBVIOUS
  <2>2. x < Power(r, 8) /\ Power(r, 8) = Power(2, ByteBits * 8)
    BY <1>4, <1>5, <2>1
  <2>3. ByteBits * 8 = Bits
    BY <1>1
  <2>4. x < Power(2, Bits) /\ x \in Nat
    <3>1. Power(r, n) \in Nat
      BY <1>1, <1>4
    <3> HIDE DEF x, r
    <3> QED  BY <1>3, <2>2, <2>3, <3>1
  <2> HIDE DEF x
  <2> QED  BY <2>4, Sizes
<1>7. ASSUME NEW j \in 0 .. 7
      PROVE  RegByte(x, j) = IF j >= 8 - n THEN c[j - (8 - n) + 1] ELSE 0
  <2> DEFINE m == 7 - j
  <2>1. m \in Nat
    OBVIOUS
  <2> HIDE DEF m
  <2>2. RegByte(x, j) = (x \div Power(r, m)) % r
    <3>1. RegByte(x, j) = (x \div Power(2, ByteBits * m)) % r
      BY DEF RegByte, m
    <3>2. Power(2, ByteBits * m) = Power(r, m)
      BY <1>4, <2>1
    <3> QED  BY <3>1, <3>2
  <2>3. CASE j >= 8 - n
    <3> DEFINE d == j - (8 - n) + 1
    <3>1. d \in 1 .. n /\ m = n - d
      BY <2>3 DEF m
    <3> HIDE DEF d, r
    <3>2. (x \div Power(r, n - d)) % r = c[d]
      BY <1>1, <1>2, <3>1, NumeralDigit
    <3>3. RegByte(x, j) = c[d]
      BY <2>2, <3>1, <3>2
    <3> QED  BY <2>3, <3>3 DEF d
  <2>4. CASE j < 8 - n
    <3>1. n <= m
      BY <2>4 DEF m
    <3>2. x < Power(r, m) /\ Power(r, m) \in Nat \ {0}
      BY <1>4, <1>5, <2>1, <3>1
    <3>3. x \in Nat
      <4>1. Power(r, n) \in Nat
        BY <1>1, <1>4
      <4> HIDE DEF x, r
      <4> QED  BY <1>3, <4>1
    <3> DEFINE p == Power(r, m)
    <3>4. x \in Int /\ 0 \in Int /\ x \in 0 .. p - 1 /\ x = p * 0 + x /\ p \in Nat \ {0}
      <4> HIDE DEF x, p
      <4> QED  BY <3>2, <3>3 DEF p
    <3>5. x \div p = 0
      <4> HIDE DEF x, p
      <4> QED  BY <3>4, Remains
    <3>6. 0 % r = 0
      <4>1. 0 \in 0 .. r - 1
        <5> HIDE DEF r
        <5> QED  BY <1>1
      <4> HIDE DEF r
      <4> QED  BY <1>1, <4>1, ModSmall
    <3> QED  BY <2>2, <2>4, <3>5, <3>6
  <2> QED  BY <2>3, <2>4
<1> QED  BY <1>6, <1>7

(* A block of 16 bytes is mapped whole or not at all. *)
LEMMA Blocks ==
  ASSUME NEW a \in Word
  PROVE  /\ a % 16 \in 0 .. 15 /\ a - (a % 16) \in Word
         /\ \A r \in 0 .. 15 : /\ (a - (a % 16)) + r \in Word
                               /\ (a - (a % 16)) + r \in Region <=> a \in Region
<1> DEFINE q == a \div 16
           s == a % 16
<1>1. a \in Nat /\ a = 16 * q + s /\ s \in 0 .. 15 /\ q \in Int
  <2>1. a \in Nat
    BY InWord
  <2> QED  BY <2>1, Division
<1>2. PICK u \in Nat \ {0} : Power(2, Bits) = 16 * u
  BY StorageSizes
<1>3. Word = 0 .. 16 * u - 1
  BY <1>2, Sizes
<1>4. \A x \in Region : {y \in Word : y \div 16 = x \div 16} \subseteq Region
  BY LoadStoreAssumption
<1> HIDE DEF q, s
<1>5. q >= 0 /\ q < u
  BY <1>1, <1>3
<1>6. a - s = 16 * q
  BY <1>1
<1>7. ASSUME NEW r \in 0 .. 15
      PROVE  16 * q + r \in Word /\ (16 * q + r \in Region <=> a \in Region)
  <2> DEFINE y == 16 * q + r
  <2>1. y \in Int /\ 16 \in Nat \ {0} /\ y \in Word
    BY <1>1, <1>3, <1>5
  <2>2. y \div 16 = q
    <3>1. r \in 0 .. 16 - 1 /\ y = 16 * q + r
      OBVIOUS
    <3> HIDE DEF y
    <3> QED  BY <1>1, <2>1, <3>1, Remains
  <2>3. y \div 16 = a \div 16
    BY <2>2 DEF q
  <2> HIDE DEF y
  <2>4. y \in Region <=> a \in Region
    BY <1>4, <2>1, <2>3
  <2> QED  BY <2>1, <2>4 DEF y
<1>8. 16 * q \in Word
  BY <1>3, <1>1, <1>5
<1> QED  BY <1>1, <1>6, <1>7, <1>8 DEF s

(* A run of up to eight bytes that begins and ends in the region lies in it. *)
LEMMA Runs ==
  ASSUME NEW a \in Region, NEW n \in 1 .. 8, a + n - 1 \in Region, NEW k \in 0 .. n - 1
  PROVE  a + k \in Region
<1> DEFINE s == a % 16
           b == a - s
           e == a + n - 1
           f == e - (e % 16)
<1>1. a \in Word /\ e \in Word /\ e \in Region /\ a \in Int
  BY StorageSizes, InWord
<1>2. s \in 0 .. 15 /\ \A r \in 0 .. 15 : b + r \in Region
  BY <1>1, Blocks
<1>3. e % 16 \in 0 .. 15 /\ \A r \in 0 .. 15 : f + r \in Region
  <2> HIDE DEF e
  <2> QED  BY <1>1, Blocks
<1>4. CASE s + k <= 15
  <2>1. b + (s + k) = a + k
    BY <1>1, <1>2
  <2> QED  BY <1>2, <1>4, <2>1
<1>5. CASE s + k > 15
  <2> DEFINE q == a \div 16
             t == e - (16 * q + 16)
  <2>1. a = 16 * q + s /\ q \in Int
    BY <1>1, Division
  <2>2. t \in 0 .. 15 /\ e = 16 * (q + 1) + t /\ e \in Int /\ q + 1 \in Int
    <3> HIDE DEF q, s
    <3> QED  BY <1>1, <1>2, <1>5, <2>1
  <2>3. e % 16 = t
    <3>1. 16 \in Nat \ {0} /\ t \in 0 .. 16 - 1
      BY <2>2
    <3> DEFINE d == q + 1
    <3>2. d \in Int /\ e = 16 * d + t
      BY <2>2
    <3> HIDE DEF e, t, d
    <3> QED  BY <2>2, <3>1, <3>2, Remains
  <2>4. f = 16 * q + 16
    <3>1. f = e - t
      BY <2>3
    <3> HIDE DEF q, f
    <3> QED  BY <2>1, <1>1, <3>1
  <2>5. a + k - (16 * q + 16) \in 0 .. 15
    <3> HIDE DEF q, s
    <3> QED  BY <1>1, <1>2, <1>5, <2>1
  <2>6. f + (a + k - (16 * q + 16)) = a + k
    <3> HIDE DEF q, f
    <3> QED  BY <1>1, <2>1, <2>4
  <2> QED  BY <1>3, <2>5, <2>6
<1> HIDE DEF s
<1> QED  BY <1>2, <1>4, <1>5

-----------------------------------------------------------------------------
(* Loads and stores: the instruction and its address. *)

(* Registers, vectors and memory hold words and bytes, and the instruction is *)
(* one that may be executed.                                                  *)
StorageTypes ==
  /\ gpr \in [Regs -> Word] /\ vr \in [Regs -> Word \X Word] /\ mem \in [Region -> Byte]
  /\ eq \in BOOLEAN /\ status \in {"running", "failed"}
  /\ ir = NoInstr \/ \E n \in DOMAIN Start : ir \in Start[n].instr

(* The fields of a storage instruction. *)
LEMMA StorageFields ==
  ASSUME StorageTypes, ir.op \in Storage
  PROVE  /\ ir.rt \in Regs /\ ir.ra \in Regs
         /\ ir.op \in Indexed \cup Vector => ir.rb \in Regs
         /\ ir.op \in Displaced => ir.d \in 0 .. Power(2, ImmBits) - 1
         /\ ir.op \in DSForms => ir.d \in 0 .. Power(2, DsBits) - 1
         /\ ir.op \in Indexed \cup Vector \cup Displaced \cup DSForms
<1>1. ir # NoInstr
  BY DEF NoInstr, Storage, Loads, Stores, Vector
<1>2. PICK n \in DOMAIN Start : ir \in Start[n].instr
  BY <1>1 DEF StorageTypes
<1>3. /\ ir.rt \in Regs /\ ir.ra \in Regs
      /\ \/ ir.op \in Indexed \cup Vector /\ ir.rb \in Regs
         \/ ir.op \in Displaced /\ ir.d \in 0 .. Power(2, ImmBits) - 1
         \/ ir.op \in DSForms /\ ir.d \in 0 .. Power(2, DsBits) - 1
  BY <1>2, LoadStoreAssumption
<1> QED  BY <1>3 DEF Indexed, Vector, Displaced, DSForms

(* A displacement is sign-extended, scaled or not. *)
LEMMA DisplacementIs ==
  ASSUME NEW n \in Nat \ {0}, NEW d \in 0 .. Power(2, n) - 1
  PROVE  /\ Signed(d, n) \in Int /\ Signed(d, n) = Exts(d, n)
         /\ 4 * Signed(d, n) = Exts(d * 4, n + 2)
<1> DEFINE p == Power(2, n)
           h == Power(2, n - 1)
           m == n + 2
<1>1. h \in Nat \ {0} /\ p = 2 * h /\ d \in 0 .. p - 1 /\ p \in Nat \ {0}
  <2>1. n - 1 \in Nat /\ n \in Nat /\ n # 0
    OBVIOUS
  <2> QED  BY <2>1, Twos
<1>2. Power(2, m) = 4 * p /\ Power(2, m - 1) = 2 * p
  <2>1. m = 2 + n /\ m - 1 = 1 + n /\ 1 \in Nat /\ 2 \in Nat /\ n \in Nat
    OBVIOUS
  <2> HIDE DEF m
  <2>2. Power(2, 2 + n) = Power(2, 2) * p /\ Power(2, 1 + n) = Power(2, 1) * p
    BY <2>1, TwosAdd
  <2> QED  BY <2>1, <2>2, FirstTwos
<1>3. Low(d, n) = d
  <2> HIDE DEF p
  <2>1. d % p = d
    BY <1>1, ModSmall
  <2> QED  BY <2>1 DEF Low, p
<1>4. Signed(d, n) = IF d < h THEN d ELSE d - p
  BY <1>1, <1>3 DEF Signed, Negative
<1>5. Exts(d, n) = IF d < h THEN d ELSE d - p
  BY DEF Exts
<1>6. Exts(d * 4, m) = IF d * 4 < 2 * p THEN d * 4 ELSE d * 4 - 4 * p
  <2> HIDE DEF m, p
  <2> QED  BY <1>2 DEF Exts
<1> HIDE DEF p, h
<1>7. /\ Signed(d, n) \in Int /\ Signed(d, n) = Exts(d, n)
      /\ 4 * Signed(d, n) = Exts(d * 4, m)
  BY <1>1, <1>4, <1>5, <1>6
<1> QED  BY <1>7 DEF m

(* The base register and the offset are numbers. *)
LEMMA AddressParts ==
  ASSUME StorageTypes, ir.op \in Storage
  PROVE  Base \in Int /\ Offset \in Int
<1>1. \A r \in Regs : gpr[r] \in Word /\ gpr[r] \in Int
  BY InWord DEF StorageTypes
<1>2. Base \in Int
  BY <1>1, StorageFields DEF Base
<1>3. CASE ir.op = "lwzx"
  <2>1. ir.rb \in Regs
    BY <1>3, StorageFields DEF Indexed
  <2>2. gpr[ir.rb] \in Int /\ WordBits \in Nat
    BY <1>1, <2>1, Sizes
  <2>3. Signed(gpr[ir.rb], WordBits) \in Int
    BY <2>2, SignedType
  <2> QED  BY <1>2, <1>3, <2>3 DEF Offset
<1>4. CASE ir.op # "lwzx" /\ ir.op \in Indexed \cup Vector
  <2>1. Offset = gpr[ir.rb]
    BY <1>4 DEF Offset
  <2>2. ir.rb \in Regs
    BY <1>4, StorageFields
  <2> QED  BY <1>1, <1>2, <2>1, <2>2
<1>5. CASE ir.op \in DSForms
  <2>1. Offset = 4 * Signed(ir.d, DsBits)
    BY <1>5 DEF Offset, Scaled, DSForms, Indexed, Vector
  <2>2. Signed(ir.d, DsBits) \in Int
    BY <1>5, StorageFields, StorageSizes, DisplacementIs
  <2>3. 4 * Signed(ir.d, DsBits) \in Int
    BY <2>2
  <2> QED  BY <1>2, <2>1, <2>3
<1>6. CASE ir.op \in Displaced
  <2>1. Offset = Signed(ir.d, ImmBits)
    BY <1>6 DEF Offset, Displaced, DSForms, Indexed, Vector
  <2>2. Signed(ir.d, ImmBits) \in Int
    BY <1>6, StorageFields, Sizes, DisplacementIs
  <2> QED  BY <1>2, <2>1, <2>2
<1> QED  BY <1>3, <1>4, <1>5, <1>6, StorageFields

(* The effective address is the architecture's, unless lwzx extends its index. *)
LEMMA AddressIs ==
  ASSUME StorageTypes, ir.op \in Storage
  PROVE  EA \in Word /\ (~IndexExtended => EA = ArchEA)
<1> DEFINE index == IF ir.op \in Indexed \cup Vector THEN gpr[ir.rb]
                    ELSE IF ir.op \in DSForms THEN Exts(ir.d * 4, DsBits + 2)
                    ELSE Exts(ir.d, ImmBits)
           base == IF ir.op \in Updates \/ ir.ra # 0 THEN gpr[ir.ra] ELSE 0
<1>1. ArchEA = Wrap(base + index)
  BY DEF ArchEA, Wrap
<1>2. Base = base
  BY DEF Base
<1>3. EA = Wrap(Base + Offset)
  BY DEF EA
<1>4. Base \in Int /\ Offset \in Int
  BY AddressParts
<1>5. EA \in Word
  <2>1. Base + Offset \in Int
    BY <1>4
  <2> QED  BY <1>3, <2>1, WrapIs
<1>6. CASE ir.op = "lwzx"
  <2>1. SUFFICES ASSUME ~IndexExtended PROVE EA = ArchEA
    BY <1>5
  <2>2. index = gpr[ir.rb] /\ Offset = Signed(gpr[ir.rb], WordBits)
    BY <1>6 DEF Indexed, Offset
  <2>3. index = Wrap(Offset)
    BY <1>6, <2>1, <2>2 DEF IndexExtended, SignExtend
  <2> HIDE DEF index, base
  <2>4. Wrap(Base + Wrap(Offset)) = Wrap(Base + Offset)
    BY <1>4, WrapSum
  <2> QED  BY <1>1, <1>2, <1>3, <2>3, <2>4
<1>7. CASE ir.op # "lwzx" /\ ir.op \in Indexed \cup Vector
  <2>1. index = Offset
    BY <1>7 DEF Offset
  <2> HIDE DEF index, base
  <2> QED  BY <1>1, <1>2, <1>3, <1>5, <2>1
<1>8. CASE ir.op \in DSForms
  <2>1. Offset = 4 * Signed(ir.d, DsBits) /\ index = Exts(ir.d * 4, DsBits + 2)
    BY <1>8 DEF Offset, Scaled, DSForms, Indexed, Vector
  <2>2. 4 * Signed(ir.d, DsBits) = Exts(ir.d * 4, DsBits + 2)
    BY <1>8, StorageFields, StorageSizes, DisplacementIs
  <2> HIDE DEF index, base
  <2> QED  BY <1>1, <1>2, <1>3, <1>5, <2>1, <2>2
<1>9. CASE ir.op \in Displaced
  <2>1. Offset = Signed(ir.d, ImmBits) /\ index = Exts(ir.d, ImmBits)
    BY <1>9 DEF Offset, Displaced, DSForms, Indexed, Vector
  <2>2. Signed(ir.d, ImmBits) = Exts(ir.d, ImmBits)
    BY <1>9, StorageFields, Sizes, DisplacementIs
  <2> HIDE DEF index, base
  <2> QED  BY <1>1, <1>2, <1>3, <1>5, <2>1, <2>2
<1> QED  BY <1>6, <1>7, <1>8, <1>9, StorageFields

-----------------------------------------------------------------------------
(* Loads and stores: what an access moves. *)

(* How many bytes an access moves. *)
LEMMA Widths == Width(ir.op) \in {1, 2, 4, 8} /\ Width(ir.op) \in 1 .. 8
BY DEF Width

(* The bytes of an access that begins in the region. *)
LEMMA AccessBytes ==
  ASSUME NEW a \in Region, NEW n \in 1 .. 8, Contained(a, n)
  PROVE  \A k \in 0 .. n - 1 : a + k \in Region
<1>1. a + n - 1 \in Region
  BY DEF Contained, Translates
<1> QED  BY <1>1, Runs

(* The bytes a load puts into a register. *)
LEMMA LoadedIs ==
  ASSUME StorageTypes, NEW a \in Int, NEW n \in 1 .. 8, \A k \in 0 .. n - 1 : a + k \in Region
  PROVE  /\ Loaded(a, n) \in Word
         /\ \A j \in 0 .. 7 : RegByte(Loaded(a, n), j) = IF j >= 8 - n THEN mem[a + (j - (8 - n))] ELSE 0
<1> DEFINE c == [k \in 1 .. n |-> mem[a + k - 1]]
<1>1. c \in [1 .. n -> Byte]
  <2>1. ASSUME NEW k \in 1 .. n PROVE mem[a + k - 1] \in Byte
    <3>1. k - 1 \in 0 .. n - 1 /\ a + (k - 1) = a + k - 1
      OBVIOUS
    <3> QED  BY <3>1 DEF StorageTypes
  <2> QED  BY <2>1
<1>2. \A j \in 8 - n .. 7 : c[j - (8 - n) + 1] = mem[a + (j - (8 - n))]
  <2>1. ASSUME NEW j \in 8 - n .. 7
        PROVE  j - (8 - n) + 1 \in 1 .. n /\ a + (j - (8 - n) + 1) - 1 = a + (j - (8 - n))
    OBVIOUS
  <2> QED  BY <2>1
<1>3. Loaded(a, n) = Numeral(c, Power(2, ByteBits), n)
  BY DEF Loaded
<1> HIDE DEF c
<1>4. /\ Loaded(a, n) \in Word
      /\ \A j \in 0 .. 7 : RegByte(Loaded(a, n), j) = IF j >= 8 - n THEN c[j - (8 - n) + 1] ELSE 0
  BY <1>1, <1>3, LoadedBytes
<1> QED  BY <1>2, <1>4

(* The bytes a store leaves in memory. *)
LEMMA StoredIs ==
  ASSUME NEW m \in [Region -> Byte], NEW a \in Int, NEW n \in 1 .. 8, NEW x \in Word
  PROVE  /\ Stored(m, a, n, x) \in [Region -> Byte]
         /\ \A b \in Region : Stored(m, a, n, x)[b] =
              IF b - a \in 0 .. n - 1 THEN RegByte(x, (8 - n) + (b - a)) ELSE m[b]
<1> DEFINE r == Power(2, ByteBits)
<1>1. r \in Nat \ {0} /\ Byte = 0 .. r - 1 /\ ByteBits \in Nat /\ x \in Int
  BY StorageSizes, InWord
<1>2. ASSUME NEW k \in 0 .. n - 1
      PROVE  ByteOf(x, n, k) \in Byte /\ ByteOf(x, n, k) = RegByte(x, (8 - n) + k)
  <2> DEFINE e == ByteBits * (n - 1 - k)
             p == Power(2, e)
             q == x \div p
  <2>1. n - 1 - k = 7 - ((8 - n) + k) /\ n - 1 - k \in Nat /\ e \in Nat
    BY <1>1
  <2>2. p \in Nat \ {0}
    <3> HIDE DEF e
    <3> QED  BY <2>1, Twos
  <2>3. q \in Int
    <3> HIDE DEF p
    <3> QED  BY <1>1, <2>2, Division
  <2>4. q % r \in 0 .. r - 1
    <3> HIDE DEF q, r
    <3> QED  BY <1>1, <2>3, Division
  <2>5. ByteOf(x, n, k) = q % r
    BY DEF ByteOf
  <2>6. RegByte(x, (8 - n) + k) = q % r
    <3>1. ByteBits * (7 - ((8 - n) + k)) = e
      BY <2>1
    <3> HIDE DEF e
    <3> QED  BY <3>1 DEF RegByte
  <2> QED  BY <1>1, <2>4, <2>5, <2>6
<1>3. \A b \in Region : b \in Int
  BY StorageSizes, InWord
<1>4. ASSUME NEW b \in Region
      PROVE  /\ Stored(m, a, n, x)[b] \in Byte
             /\ Stored(m, a, n, x)[b] = IF b - a \in 0 .. n - 1 THEN RegByte(x, (8 - n) + (b - a)) ELSE m[b]
  BY <1>2 DEF Stored
<1>5. DOMAIN Stored(m, a, n, x) = Region /\ Stored(m, a, n, x) = [b \in Region |-> Stored(m, a, n, x)[b]]
  BY DEF Stored
<1> QED  BY <1>4, <1>5

(* The halves of a vector are in the block of the address. *)
LEMMA Halves ==
  ASSUME EA \in Word
  PROVE  /\ Upper \in Int /\ Upper = EA - (EA % 16) /\ Lower = Upper + 8
         /\ \A k \in 0 .. 15 : Upper + k \in Region <=> EA \in Region
         /\ Translates(Upper) <=> EA \in Region
         /\ Translates(Lower) <=> EA \in Region
<1>1. /\ EA % 16 \in 0 .. 15 /\ EA - (EA % 16) \in Word
      /\ \A r \in 0 .. 15 : /\ (EA - (EA % 16)) + r \in Word
                            /\ (EA - (EA % 16)) + r \in Region <=> EA \in Region
  BY Blocks
<1>2. Upper = EA - (EA % 16)
  BY DEF Upper, Aligned
<1>3. Upper \in Word /\ \A r \in 0 .. 15 : Upper + r \in Word /\ (Upper + r \in Region <=> EA \in Region)
  BY <1>1, <1>2
<1>4. Upper \in Int
  BY <1>3, InWord
<1>5. Lower = Upper + 8 /\ Upper + 8 \in Word
  <2>1. Upper + 8 \in Word
    BY <1>3
  <2> QED  BY <2>1, WordWraps DEF Lower
<1>6. Upper + 0 = Upper
  BY <1>4
<1> QED  BY <1>2, <1>3, <1>4, <1>5, <1>6 DEF Translates

(* The bytes of the two halves of a vector. *)
LEMMA HalfIs ==
  ASSUME StorageTypes, EA \in Region
  PROVE  /\ Loaded(Upper, 8) \in Word /\ Loaded(Lower, 8) \in Word
         /\ \A k \in 0 .. 7 : /\ RegByte(Loaded(Upper, 8), k) = mem[Upper + k]
                              /\ RegByte(Loaded(Lower, 8), k) = mem[Upper + (8 + k)]
<1>1. EA \in Word
  BY StorageSizes
<1>2. Upper \in Int /\ Lower \in Int /\ Lower = Upper + 8 /\ \A k \in 0 .. 15 : Upper + k \in Region
  BY <1>1, Halves
<1>3. \A k \in 0 .. 7 : Upper + k \in Region /\ Lower + k \in Region /\ Lower + k = Upper + (8 + k)
  <2>1. ASSUME NEW k \in 0 .. 7 PROVE Upper + (8 + k) \in Region /\ Lower + k = Upper + (8 + k)
    <3>1. 8 + k \in 0 .. 15
      OBVIOUS
    <3> QED  BY <1>2, <3>1
  <2> QED  BY <1>2, <2>1
<1> DEFINE n == 8
<1>4. n \in 1 .. 8 /\ n - 1 = 7 /\ 8 - n = 0
  OBVIOUS
<1>5. n = 8
  OBVIOUS
<1> HIDE DEF n
<1>6. ASSUME NEW a \in Int, \A k \in 0 .. 7 : a + k \in Region
      PROVE  Loaded(a, 8) \in Word /\ \A k \in 0 .. 7 : RegByte(Loaded(a, 8), k) = mem[a + k]
  <2>1. \A k \in 0 .. n - 1 : a + k \in Region
    BY <1>4, <1>6
  <2>2. /\ Loaded(a, n) \in Word
        /\ \A j \in 0 .. 7 : RegByte(Loaded(a, n), j) = IF j >= 8 - n THEN mem[a + (j - (8 - n))] ELSE 0
    BY <1>4, <2>1, LoadedIs
  <2>3. \A j \in 0 .. 7 : j >= 8 - n /\ j - (8 - n) = j
    BY <1>4
  <2> QED  BY <1>5, <2>2, <2>3
<1>7. Loaded(Upper, 8) \in Word /\ \A k \in 0 .. 7 : RegByte(Loaded(Upper, 8), k) = mem[Upper + k]
  BY <1>2, <1>3, <1>6
<1>8. Loaded(Lower, 8) \in Word /\ \A k \in 0 .. 7 : RegByte(Loaded(Lower, 8), k) = mem[Lower + k]
  BY <1>2, <1>3, <1>6
<1> QED  BY <1>3, <1>7, <1>8

-----------------------------------------------------------------------------
(* Loads and stores: the steps. *)

(* The initial states are typed. *)
LEMMA StorageTypesInit == StorageInit => StorageTypes
<1> SUFFICES ASSUME StorageInit PROVE StorageTypes
  OBVIOUS
<1>1. PICK n \in DOMAIN Start :
        /\ ir \in Start[n].instr
        /\ gpr \in Start[n].files /\ vr \in Start[n].vectors /\ mem \in Start[n].images
  BY DEF StorageInit
<1>2. gpr \in [Regs -> Word] /\ vr \in [Regs -> Word \X Word] /\ mem \in [Region -> Byte]
  BY <1>1, LoadStoreAssumption
<1> QED  BY <1>1, <1>2 DEF StorageInit, StorageTypes

(* An update form's register file. *)
LEMMA UpdatedIs ==
  ASSUME StorageTypes, ir.op \in Storage, NEW f \in [Regs -> Word]
  PROVE  /\ Updated(f) \in [Regs -> Word]
         /\ \A r \in Regs : Updated(f)[r] = IF ir.op \in Updates /\ r = ir.ra THEN EA ELSE f[r]
<1>1. EA \in Word /\ ir.ra \in Regs
  BY AddressIs, StorageFields
<1> QED  BY <1>1 DEF Updated

(* The architecture's operand is at the effective address. *)
LEMMA OperandIs ==
  ASSUME StorageTypes, ir.op \in Storage, ~IndexExtended
  PROVE  /\ ir.op \notin Vector =>
              /\ DOMAIN Operand = 8 - Width(ir.op) .. 7
              /\ \A k \in 8 - Width(ir.op) .. 7 : Operand[k] = EA + (k - (8 - Width(ir.op)))
         /\ ir.op \in Vector => DOMAIN Operand = 0 .. 15 /\ \A k \in 0 .. 15 : Operand[k] = Upper + k
<1> DEFINE w == Width(ir.op)
<1>1. EA = ArchEA /\ EA \in Int /\ w \in 1 .. 8
  BY AddressIs, InWord, Widths
<1>2. CASE ir.op \notin Vector
  <2>1. Operand = [k \in 8 - w .. 7 |-> EA + k - (8 - w)]
    BY <1>1, <1>2 DEF Operand
  <2> HIDE DEF w
  <2>2. \A k \in 8 - w .. 7 : EA + k - (8 - w) = EA + (k - (8 - w))
    BY <1>1
  <2>3. DOMAIN Operand = 8 - w .. 7 /\ \A k \in 8 - w .. 7 : Operand[k] = EA + (k - (8 - w))
    BY <2>1, <2>2
  <2> QED  BY <1>2, <2>3 DEF w
<1>3. CASE ir.op \in Vector
  <2>1. Operand = [k \in 0 .. 15 |-> Upper + k]
    BY <1>1, <1>3 DEF Operand, Upper, Aligned
  <2> QED  BY <1>3, <2>1
<1> QED  BY <1>2, <1>3

(* A failed access has done nothing, and the first byte is not mapped. *)
LEMMA FailedAccessIs ==
  ASSUME StorageTypes, ir.op \in Loads \cup Stores, FailedAccess
  PROVE  /\ StorageTypes' /\ UNCHANGED <<gpr, vr, mem, eq>> /\ status' = "failed"
         /\ IndexExtended \/ \E k \in DOMAIN Operand : Operand[k] \notin Region
<1>1. UNCHANGED <<gpr, vr, mem, eq>> /\ status' = "failed" /\ ir' = NoInstr /\ EA \notin Region
  BY DEF FailedAccess, Untouched, Failure, Translates
<1>2. StorageTypes'
  BY <1>1 DEF StorageTypes
<1>3. ASSUME ~IndexExtended PROVE \E k \in DOMAIN Operand : Operand[k] \notin Region
  <2> DEFINE w == Width(ir.op)
  <2>1. w \in 1 .. 8 /\ ir.op \in Storage /\ ir.op \notin Vector /\ EA \in Int
    BY Widths, AddressIs, InWord DEF Storage, Loads, Stores, Vector
  <2>2. DOMAIN Operand = 8 - w .. 7 /\ \A k \in 8 - w .. 7 : Operand[k] = EA + (k - (8 - w))
    BY <1>3, <2>1, OperandIs
  <2> HIDE DEF w
  <2>3. 8 - w \in 8 - w .. 7 /\ EA + ((8 - w) - (8 - w)) = EA
    BY <2>1
  <2> QED  BY <1>1, <2>2, <2>3
<1> QED  BY <1>1, <1>2, <1>3

(* What a load that completes has done. *)
LEMMA LoadIs ==
  ASSUME StorageTypes, Load, ~FailedAccess
  PROVE  LET w == Width(ir.op) IN
         /\ StorageTypes' /\ UNCHANGED <<vr, mem, eq, status>>
         /\ EA \in Region
         /\ \A k \in 0 .. w - 1 : EA + k \in Region
         /\ \A r \in Regs : gpr'[r] = IF ir.op \in Updates /\ r = ir.ra THEN EA
                                      ELSE IF r = ir.rt THEN Loaded(EA, w) ELSE gpr[r]
<1> DEFINE w == Width(ir.op)
           g == [gpr EXCEPT ![ir.rt] = Loaded(EA, w)]
<1>1. /\ ir.op \in Storage /\ EA \in Region /\ Contained(EA, w) /\ w \in 1 .. 8
      /\ gpr' = Updated(g) /\ UNCHANGED <<vr, mem, eq, status>> /\ ir' = NoInstr
  BY Widths DEF Load, Finish, Translates, Storage
<1>2. EA \in Int /\ ir.rt \in Regs
  BY <1>1, AddressIs, InWord, StorageFields
<1> HIDE DEF w
<1>3. \A k \in 0 .. w - 1 : EA + k \in Region
  BY <1>1, AccessBytes
<1>4. Loaded(EA, w) \in Word
  BY <1>1, <1>2, <1>3, LoadedIs
<1>5. g \in [Regs -> Word] /\ \A r \in Regs : g[r] = IF r = ir.rt THEN Loaded(EA, w) ELSE gpr[r]
  BY <1>2, <1>4 DEF StorageTypes
<1> HIDE DEF g
<1>6. /\ gpr' \in [Regs -> Word]
      /\ \A r \in Regs : gpr'[r] = IF ir.op \in Updates /\ r = ir.ra THEN EA ELSE g[r]
  BY <1>1, <1>5, UpdatedIs
<1>7. StorageTypes'
  BY <1>1, <1>6 DEF StorageTypes
<1>8. \A r \in Regs : gpr'[r] = IF ir.op \in Updates /\ r = ir.ra THEN EA
                                ELSE IF r = ir.rt THEN Loaded(EA, w) ELSE gpr[r]
  BY <1>5, <1>6
<1> QED  BY <1>1, <1>3, <1>7, <1>8 DEF w

(* What a store that completes has done. *)
LEMMA StoreIs ==
  ASSUME StorageTypes, Store, ~FailedAccess
  PROVE  LET w == Width(ir.op) IN
         /\ StorageTypes' /\ UNCHANGED <<vr, status>>
         /\ EA \in Region
         /\ \A k \in 0 .. w - 1 : EA + k \in Region
         /\ \A b \in Region : mem'[b] = IF b - EA \in 0 .. w - 1
                                          THEN RegByte(gpr[ir.rt], (8 - w) + (b - EA)) ELSE mem[b]
         /\ \A r \in Regs : gpr'[r] = IF ir.op \in Updates /\ r = ir.ra THEN EA ELSE gpr[r]
<1> DEFINE w == Width(ir.op)
<1>1. /\ ir.op \in Storage /\ EA \in Region /\ Contained(EA, w) /\ w \in 1 .. 8
      /\ gpr' = Updated(gpr) /\ mem' = Stored(mem, EA, w, gpr[ir.rt])
      /\ eq' = (eq \/ ir.op = "stwcx") /\ UNCHANGED <<vr, status>> /\ ir' = NoInstr
  BY Widths DEF Store, Finish, Translates, Storage
<1>2. EA \in Int /\ ir.rt \in Regs /\ gpr \in [Regs -> Word] /\ mem \in [Region -> Byte] /\ gpr[ir.rt] \in Word
  BY <1>1, AddressIs, InWord, StorageFields DEF StorageTypes
<1> HIDE DEF w
<1>3. \A k \in 0 .. w - 1 : EA + k \in Region
  BY <1>1, AccessBytes
<1>4. /\ mem' \in [Region -> Byte]
      /\ \A b \in Region : mem'[b] = IF b - EA \in 0 .. w - 1
                                       THEN RegByte(gpr[ir.rt], (8 - w) + (b - EA)) ELSE mem[b]
  BY <1>1, <1>2, StoredIs
<1>5. /\ gpr' \in [Regs -> Word]
      /\ \A r \in Regs : gpr'[r] = IF ir.op \in Updates /\ r = ir.ra THEN EA ELSE gpr[r]
  BY <1>1, <1>2, UpdatedIs
<1>6. eq' \in BOOLEAN
  BY <1>1
<1>7. StorageTypes'
  BY <1>1, <1>4, <1>5, <1>6 DEF StorageTypes
<1> QED  BY <1>1, <1>3, <1>4, <1>5, <1>7 DEF w

(* What lvx does: both doublewords, or nothing. *)
LEMMA LoadVectorIs ==
  ASSUME StorageTypes, LoadVector
  PROVE  /\ StorageTypes' /\ UNCHANGED <<gpr, mem, eq>>
         /\ \A r \in Regs : r # ir.rt => vr'[r] = vr[r]
         /\ EA \in Region => /\ UNCHANGED status
                             /\ vr'[ir.rt] = <<Loaded(Upper, 8), Loaded(Lower, 8)>>
         /\ EA \notin Region => status' = "failed" /\ UNCHANGED vr
<1>1. ir.op = "lvx" /\ ir.op \in Storage /\ ir.rt \in Regs /\ UNCHANGED <<gpr, mem, eq>>
  BY StorageFields DEF LoadVector, Storage, Vector
<1>2. EA \in Word /\ (Translates(Upper) <=> EA \in Region) /\ (Translates(Lower) <=> EA \in Region)
  BY <1>1, AddressIs, Halves
<1>3. vr \in [Regs -> Word \X Word]
  BY DEF StorageTypes
<1>4. CASE EA \in Region
  <2>1. vr' = [vr EXCEPT ![ir.rt] = <<Loaded(Upper, 8), Loaded(Lower, 8)>>]
    BY <1>2, <1>4 DEF LoadVector
  <2>2. ir' = NoInstr /\ UNCHANGED status
    BY <1>2, <1>4 DEF LoadVector, Finish
  <2>3. Loaded(Upper, 8) \in Word /\ Loaded(Lower, 8) \in Word
    BY <1>4, HalfIs
  <2>4. vr' \in [Regs -> Word \X Word] /\ vr'[ir.rt] = <<Loaded(Upper, 8), Loaded(Lower, 8)>>
    BY <1>1, <1>3, <2>1, <2>3
  <2>5. \A r \in Regs : r # ir.rt => vr'[r] = vr[r]
    BY <1>1, <1>3, <2>1
  <2>6. StorageTypes'
    BY <1>1, <2>2, <2>4 DEF StorageTypes
  <2> QED  BY <1>1, <1>4, <2>2, <2>4, <2>5, <2>6
<1>5. CASE EA \notin Region
  <2>1. vr' = [vr EXCEPT ![ir.rt] = <<vr[ir.rt][1], vr[ir.rt][2]>>]
    BY <1>2, <1>5 DEF LoadVector
  <2>2. ir' = NoInstr /\ status' = "failed"
    BY <1>2, <1>5 DEF LoadVector, Failure
  <2>3. vr[ir.rt] \in Word \X Word
    BY <1>1, <1>3
  <2>4. vr[ir.rt] = <<vr[ir.rt][1], vr[ir.rt][2]>>
    BY <2>3
  <2>5. vr' = vr
    BY <1>1, <1>3, <2>1, <2>4
  <2>6. StorageTypes'
    BY <1>1, <2>2, <2>5 DEF StorageTypes
  <2> QED  BY <1>1, <1>5, <2>2, <2>5, <2>6
<1> QED  BY <1>4, <1>5

(* A doubleword stored. *)
LEMMA DoublewordStored ==
  ASSUME NEW m \in [Region -> Byte], NEW a \in Int, NEW x \in Word
  PROVE  /\ Stored(m, a, 8, x) \in [Region -> Byte]
         /\ \A b \in Region : Stored(m, a, 8, x)[b] = IF b - a \in 0 .. 7 THEN RegByte(x, b - a) ELSE m[b]
<1> DEFINE n == 8
<1>1. n \in 1 .. 8 /\ n - 1 = 7 /\ 8 - n = 0 /\ n = 8
  OBVIOUS
<1> HIDE DEF n
<1>2. /\ Stored(m, a, n, x) \in [Region -> Byte]
      /\ \A b \in Region : Stored(m, a, n, x)[b] =
           IF b - a \in 0 .. n - 1 THEN RegByte(x, (8 - n) + (b - a)) ELSE m[b]
  BY <1>1, StoredIs
<1>3. \A b \in Region : (8 - n) + (b - a) = b - a
  BY <1>1, StorageSizes, InWord
<1> QED  BY <1>1, <1>2, <1>3

(* What stvx does: both doublewords, or nothing. *)
LEMMA StoreVectorIs ==
  ASSUME StorageTypes, StoreVector
  PROVE  /\ StorageTypes' /\ UNCHANGED <<gpr, vr, eq>>
         /\ EA \in Region =>
              /\ UNCHANGED status
              /\ \A b \in Region : mem'[b] = IF b - Upper \in 0 .. 15
                                               THEN VRByte(vr[ir.rt], b - Upper) ELSE mem[b]
         /\ EA \notin Region => status' = "failed" /\ UNCHANGED mem
<1>1. ir.op = "stvx" /\ ir.op \in Storage /\ ir.rt \in Regs /\ UNCHANGED <<gpr, vr, eq>>
  BY StorageFields DEF StoreVector, Storage, Vector
<1>2. /\ EA \in Word /\ (Translates(Upper) <=> EA \in Region) /\ (Translates(Lower) <=> EA \in Region)
      /\ Upper \in Int /\ Lower = Upper + 8
  BY <1>1, AddressIs, Halves
<1>3. mem \in [Region -> Byte] /\ vr[ir.rt] \in Word \X Word
  BY <1>1 DEF StorageTypes
<1>4. CASE EA \in Region
  <2> DEFINE x == vr[ir.rt][1]
             y == vr[ir.rt][2]
             first == Stored(mem, Upper, 8, x)
  <2>1. mem' = Stored(first, Lower, 8, y)
    BY <1>2, <1>4 DEF StoreVector
  <2>2. ir' = NoInstr /\ UNCHANGED status
    BY <1>2, <1>4 DEF StoreVector, Finish
  <2>3. x \in Word /\ y \in Word
    BY <1>3
  <2>4. Lower \in Int
    BY <1>2
  <2>5. \A b \in Region : VRByte(vr[ir.rt], b - Upper) =
          IF b - Upper < 8 THEN RegByte(x, b - Upper) ELSE RegByte(y, (b - Upper) - 8)
    BY DEF VRByte
  <2> HIDE DEF x, y
  <2>6. /\ first \in [Region -> Byte]
        /\ \A b \in Region : first[b] = IF b - Upper \in 0 .. 7 THEN RegByte(x, b - Upper) ELSE mem[b]
    BY <1>2, <1>3, <2>3, DoublewordStored
  <2> HIDE DEF first
  <2>7. /\ mem' \in [Region -> Byte]
        /\ \A b \in Region : mem'[b] = IF b - Lower \in 0 .. 7 THEN RegByte(y, b - Lower) ELSE first[b]
    BY <2>1, <2>3, <2>4, <2>6, DoublewordStored
  <2>8. ASSUME NEW b \in Region
        PROVE  mem'[b] = IF b - Upper \in 0 .. 15 THEN VRByte(vr[ir.rt], b - Upper) ELSE mem[b]
    <3>1. b \in Int
      BY StorageSizes, InWord
    <3>2. b - Lower = (b - Upper) - 8
      BY <1>2, <3>1
    <3> DEFINE d == b - Upper
    <3>3. d \in Int
      BY <1>2, <3>1
    <3>4. /\ VRByte(vr[ir.rt], d) = IF d < 8 THEN RegByte(x, d) ELSE RegByte(y, d - 8)
          /\ first[b] = IF d \in 0 .. 7 THEN RegByte(x, d) ELSE mem[b]
          /\ mem'[b] = IF d - 8 \in 0 .. 7 THEN RegByte(y, d - 8) ELSE first[b]
      BY <2>5, <2>6, <2>7, <3>2
    <3> HIDE DEF d
    <3>5. mem'[b] = IF d \in 0 .. 15 THEN VRByte(vr[ir.rt], d) ELSE mem[b]
      BY <3>3, <3>4
    <3> QED  BY <3>5 DEF d
  <2>9. StorageTypes'
    BY <1>1, <2>2, <2>7 DEF StorageTypes
  <2> QED  BY <1>1, <1>4, <2>2, <2>8, <2>9
<1>5. CASE EA \notin Region
  <2>1. mem' = mem
    BY <1>2, <1>5 DEF StoreVector
  <2>2. ir' = NoInstr /\ status' = "failed"
    BY <1>2, <1>5 DEF StoreVector, Failure
  <2>3. StorageTypes'
    BY <1>1, <2>1, <2>2 DEF StorageTypes
  <2> QED  BY <1>1, <1>5, <2>1, <2>2, <2>3
<1> QED  BY <1>4, <1>5

(* lvlx leaves words, and leaves a doubleword it need not shift as it is. *)
LEMMA ShiftedIs ==
  ASSUME EA \in Word, NEW x \in Word, NEW y \in Shifted(x)
  PROVE  y \in Word /\ (Skew = 0 => y = x)
<1> DEFINE e == ByteBits * (Skew % 8)
           p == Power(2, e)
<1>1. y = Wrap(x * p) \/ (Skew >= 8 /\ y = 0)
  BY DEF Shifted
<1>2. Skew \in Nat /\ ByteBits \in Nat
  <2>1. EA % 16 \in 0 .. 15
    BY Blocks
  <2> QED  BY <2>1, StorageSizes DEF Skew
<1>3. e \in Nat /\ (Skew = 0 => e = 0)
  <2>1. Skew % 8 \in 0 .. 7 /\ (Skew = 0 => Skew % 8 = 0)
    BY <1>2
  <2> DEFINE s == Skew % 8
  <2> HIDE DEF s
  <2>2. s \in 0 .. 7 /\ (Skew = 0 => s = 0)
    BY <2>1 DEF s
  <2>3. ByteBits * s \in Nat /\ (s = 0 => ByteBits * s = 0)
    BY <1>2, <2>2
  <2> QED  BY <2>2, <2>3 DEF s
<1>4. p \in Nat /\ (Skew = 0 => p = 1)
  <2> HIDE DEF e
  <2> QED  BY <1>3, Twos, FirstTwos
<1> HIDE DEF p
<1>5. x * p \in Int /\ (Skew = 0 => x * p = x)
  BY <1>4, InWord
<1>6. Wrap(x * p) \in Word /\ (Skew = 0 => Wrap(x * p) = x)
  BY <1>5, WrapIs, WordWraps
<1>7. 0 \in Word
  BY Sizes
<1> QED  BY <1>1, <1>2, <1>6, <1>7

(* What lvlx does: from a mapped multiple of 16, both doublewords. *)
LEMMA LoadVectorLeftIs ==
  ASSUME StorageTypes, LoadVectorLeft
  PROVE  /\ StorageTypes' /\ UNCHANGED <<gpr, mem, eq, status>>
         /\ \A r \in Regs : r # ir.rt => vr'[r] = vr[r]
         /\ EA \in Region /\ EA % 16 = 0 => \A k \in 0 .. 15 : VRByte(vr'[ir.rt], k) = mem[Upper + k]
<1>1. /\ ir.op = "lvlx" /\ ir.op \in Storage /\ ir.rt \in Regs
      /\ UNCHANGED <<gpr, mem, eq, status>> /\ ir' = NoInstr
  BY StorageFields DEF LoadVectorLeft, Finish, Storage, Vector
<1>2. EA \in Word /\ EA \in Int /\ mem \in [Region -> Byte] /\ vr \in [Regs -> Word \X Word]
  BY <1>1, AddressIs, InWord DEF StorageTypes
<1> DEFINE c(u, k) == [j \in 1 .. 8 |-> Buffer(u)[k + j - 1]]
           half(u, k) == Numeral(c(u, k), Power(2, ByteBits), 8)
<1>3. PICK junk \in Byte :
        \E upper \in Shifted(half(junk, 0)), lower \in Shifted(half(junk, 8)) :
          vr' = [vr EXCEPT ![ir.rt] = <<upper, lower>>]
  BY DEF LoadVectorLeft
<1>4. PICK upper \in Shifted(half(junk, 0)), lower \in Shifted(half(junk, 8)) :
        vr' = [vr EXCEPT ![ir.rt] = <<upper, lower>>]
  BY <1>3
<1>5. ASSUME NEW k \in 0 .. 15
      PROVE  /\ Buffer(junk)[k] \in Byte
             /\ EA \in Region /\ Skew = 0 => Buffer(junk)[k] = mem[EA + k]
  <2>1. Buffer(junk)[k] = IF k < 16 - Skew /\ EA \in Region THEN mem[EA + k] ELSE junk
    BY DEF Buffer, Translates
  <2>2. Skew \in 0 .. 15 /\ Skew = EA % 16
    BY <1>2, Blocks DEF Skew
  <2>3. ASSUME k < 16 - Skew, EA \in Region PROVE EA + k \in Region
    <3>1. Skew + k \in 0 .. 15
      BY <2>2, <2>3
    <3>2. (EA - (EA % 16)) + (Skew + k) \in Region
      BY <1>2, <2>3, <3>1, Blocks
    <3>3. (EA - (EA % 16)) + (Skew + k) = EA + k
      BY <1>2, <2>2
    <3> QED  BY <3>2, <3>3
  <2> QED  BY <1>2, <2>1, <2>2, <2>3
<1>6. ASSUME NEW k \in {0, 8}
      PROVE  /\ half(junk, k) \in Word
             /\ \A j \in 0 .. 7 : RegByte(half(junk, k), j) = Buffer(junk)[k + j]
  <2> DEFINE n == 8
             d == c(junk, k)
  <2>1. n \in 1 .. 8 /\ 8 - n = 0 /\ n = 8
    OBVIOUS
  <2>2. \A j \in 1 .. 8 : k + j - 1 \in 0 .. 15 /\ d[j] = Buffer(junk)[k + j - 1]
    OBVIOUS
  <2>3. d \in [1 .. 8 -> Byte]
    <3>1. \A j \in 1 .. 8 : Buffer(junk)[k + j - 1] \in Byte
      BY <1>5, <2>2
    <3> QED  BY <3>1
  <2>4. \A j \in 0 .. 7 : d[j + 1] = Buffer(junk)[k + j]
    <3>1. ASSUME NEW j \in 0 .. 7 PROVE j + 1 \in 1 .. 8 /\ k + (j + 1) - 1 = k + j
      OBVIOUS
    <3> HIDE DEF d
    <3> QED  BY <2>2, <3>1
  <2> HIDE DEF d, n
  <2>5. LET x == Numeral(d, Power(2, ByteBits), n) IN
        /\ x \in Word
        /\ \A j \in 0 .. 7 : RegByte(x, j) = IF j >= 8 - n THEN d[j - (8 - n) + 1] ELSE 0
    <3>1. d \in [1 .. n -> Byte]
      BY <2>1, <2>3
    <3> QED  BY <2>1, <3>1, LoadedBytes
  <2>6. \A j \in 0 .. 7 : j >= 8 - n /\ j - (8 - n) + 1 = j + 1
    BY <2>1
  <2>7. half(junk, k) = Numeral(d, Power(2, ByteBits), n)
    BY <2>1 DEF d
  <2> QED  BY <2>4, <2>5, <2>6, <2>7
<1> HIDE DEF half
<1>7. half(junk, 0) \in Word /\ half(junk, 8) \in Word
  BY <1>6
<1>8. /\ upper \in Word /\ lower \in Word
      /\ Skew = 0 => upper = half(junk, 0) /\ lower = half(junk, 8)
  BY <1>2, <1>4, <1>7, ShiftedIs
<1>9. vr' \in [Regs -> Word \X Word] /\ vr'[ir.rt] = <<upper, lower>>
  BY <1>1, <1>2, <1>4, <1>8
<1>10. \A r \in Regs : r # ir.rt => vr'[r] = vr[r]
  BY <1>1, <1>2, <1>4
<1>11. StorageTypes'
  BY <1>1, <1>9 DEF StorageTypes
<1>12. ASSUME EA \in Region, EA % 16 = 0, NEW k \in 0 .. 15
       PROVE  VRByte(vr'[ir.rt], k) = mem[Upper + k]
  <2>1. Skew = 0 /\ Upper = EA
    BY <1>2, <1>12 DEF Skew, Upper, Aligned
  <2>2. Buffer(junk)[k] = mem[EA + k]
    BY <1>5, <1>12, <2>1
  <2>3. CASE k < 8
    <3>1. VRByte(vr'[ir.rt], k) = RegByte(upper, k)
      BY <1>9, <2>3 DEF VRByte
    <3>2. RegByte(half(junk, 0), k) = Buffer(junk)[0 + k] /\ 0 + k = k
      BY <1>6, <2>3
    <3> QED  BY <1>8, <2>1, <2>2, <3>1, <3>2
  <2>4. CASE k >= 8
    <3>1. VRByte(vr'[ir.rt], k) = RegByte(lower, k - 8)
      BY <1>9, <2>4 DEF VRByte
    <3>2. k - 8 \in 0 .. 7 /\ 8 + (k - 8) = k
      BY <2>4
    <3>3. RegByte(half(junk, 8), k - 8) = Buffer(junk)[k]
      BY <1>6, <3>2
    <3> QED  BY <1>8, <2>1, <2>2, <3>1, <3>3
  <2> QED  BY <2>3, <2>4
<1> QED  BY <1>1, <1>10, <1>11, <1>12

(* Every step keeps the types. *)
LEMMA StorageTypesNext == StorageTypes /\ [StorageNext]_storageVars => StorageTypes'
<1> SUFFICES ASSUME StorageTypes, [StorageNext]_storageVars PROVE StorageTypes'
  OBVIOUS
<1>1. CASE Load
  <2>1. CASE FailedAccess
    BY <1>1, <2>1, FailedAccessIs DEF Load
  <2> QED  BY <1>1, <2>1, LoadIs
<1>2. CASE Store
  <2>1. CASE FailedAccess
    BY <1>2, <2>1, FailedAccessIs DEF Store
  <2> QED  BY <1>2, <2>1, StoreIs
<1>3. CASE LoadVector
  BY <1>3, LoadVectorIs
<1>4. CASE StoreVector
  BY <1>4, StoreVectorIs
<1>5. CASE LoadVectorLeft
  BY <1>5, LoadVectorLeftIs
<1>6. CASE SkipUnknown
  BY <1>6 DEF SkipUnknown, Finish, StorageTypes
<1>7. CASE UNCHANGED storageVars
  BY <1>7 DEF storageVars, StorageTypes
<1> QED  BY <1>1, <1>2, <1>3, <1>4, <1>5, <1>6, <1>7 DEF StorageNext

(* A vector instruction leaves none to execute: while there is one, registers, *)
(* vectors and memory hold words and bytes.                                    *)
StorageReady == ir = NoInstr \/ StorageTypes

LEMMA StorageTyped == VSpec => []StorageReady
<1>1. VInit => StorageReady
  BY StorageTypesInit DEF VInit, StorageReady
<1>2. StorageReady /\ [VNext]_vvars => StorageReady'
  <2> SUFFICES ASSUME StorageReady, [VNext]_vvars PROVE StorageReady'
    OBVIOUS
  <2>1. CASE StorageNext
    BY <2>1, StorageTypesNext DEF StorageNext, StorageReady
  <2>2. CASE Compute
    BY <2>2 DEF Compute, Finish, StorageReady
  <2>3. CASE UnknownVector
    BY <2>3 DEF UnknownVector, Failure, StorageReady
  <2>4. CASE UNCHANGED vvars
    BY <2>4 DEF vvars, storageVars, StorageReady, StorageTypes
  <2> QED  BY <2>1, <2>2, <2>3, <2>4 DEF VNext
<1> QED  BY <1>1, <1>2, PTL DEF VSpec

(* No vector instruction is a load or store. *)
LEMMA OthersCompute ==
  ASSUME Compute \/ UnknownVector
  PROVE  ir.op \notin Storage
BY DEF Compute, UnknownVector, VectorOps, Storage, Loads, Stores, Vector

-----------------------------------------------------------------------------
(* The failed steps. *)

(* Neither half of a vector access is mapped when the address is not. *)
LEMMA VectorFails ==
  ASSUME StorageTypes, ir.op \in Vector, EA \notin Region
  PROVE  \E k \in DOMAIN Operand : Operand[k] \notin Region
<1>1. ir.op \in Storage /\ ~IndexExtended
  BY DEF Storage, Vector, IndexExtended
<1>2. DOMAIN Operand = 0 .. 15 /\ \A k \in 0 .. 15 : Operand[k] = Upper + k
  BY <1>1, OperandIs
<1>3. \A k \in 0 .. 15 : Upper + k \notin Region
  BY <1>1, AddressIs, Halves
<1>4. 0 \in 0 .. 15
  OBVIOUS
<1> QED  BY <1>2, <1>3, <1>4

(* A load or store of PowerProcessor.cpp that fails has changed no register  *)
(* and no byte, the vector ones with their two accesses included, and a byte *)
(* of its operand is not mapped: for words, registers and regions of any     *)
(* size that are mapped in blocks of a vector.                               *)
THEOREM FailureCorrect == VSpec => FailureIsPrecise
<1> DEFINE Precise == ir.op \in Storage /\ status' = "failed" =>
                        /\ UNCHANGED <<gpr, vr, mem, eq>>
                        /\ IndexExtended \/ \E k \in DOMAIN Operand : Operand[k] \notin Region
<1>1. StorageTypes /\ StorageNext => Precise
  <2> SUFFICES ASSUME StorageTypes, StorageNext, ir.op \in Storage, status' = "failed"
               PROVE  /\ UNCHANGED <<gpr, vr, mem, eq>>
                      /\ IndexExtended \/ \E k \in DOMAIN Operand : Operand[k] \notin Region
    OBVIOUS
  <2>1. status = "running" /\ status # "failed"
    BY DEF StorageNext
  <2>2. CASE Load
    BY <2>1, <2>2, FailedAccessIs, LoadIs DEF Load
  <2>3. CASE Store
    BY <2>1, <2>3, FailedAccessIs, StoreIs DEF Store
  <2>4. CASE LoadVector
    <3>1. EA \notin Region /\ UNCHANGED <<gpr, vr, mem, eq>> /\ ir.op \in Vector
      BY <2>1, <2>4, LoadVectorIs DEF LoadVector, Vector
    <3> QED  BY <3>1, VectorFails
  <2>5. CASE StoreVector
    <3>1. EA \notin Region /\ UNCHANGED <<gpr, vr, mem, eq>> /\ ir.op \in Vector
      BY <2>1, <2>5, StoreVectorIs DEF StoreVector, Vector
    <3> QED  BY <3>1, VectorFails
  <2>6. CASE LoadVectorLeft
    BY <2>1, <2>6, LoadVectorLeftIs
  <2>7. CASE SkipUnknown
    BY <2>1, <2>7 DEF SkipUnknown, Finish
  <2> QED  BY <2>2, <2>3, <2>4, <2>5, <2>6, <2>7 DEF StorageNext
<1>2. StorageReady /\ [VNext]_vvars => [Precise]_storageVars
  <2> SUFFICES ASSUME StorageReady, [VNext]_vvars PROVE [Precise]_storageVars
    OBVIOUS
  <2>1. CASE StorageNext
    BY <1>1, <2>1 DEF StorageNext, StorageReady
  <2>2. CASE Compute \/ UnknownVector
    BY <2>2, OthersCompute
  <2>3. CASE UNCHANGED vvars
    BY <2>3 DEF vvars
  <2> QED  BY <2>1, <2>2, <2>3 DEF VNext
<1> HIDE DEF Precise
<1>3. VSpec => [][Precise]_storageVars
  BY <1>2, StorageTyped, PTL DEF VSpec
<1> QED  BY <1>3 DEF FailureIsPrecise, Precise

-----------------------------------------------------------------------------
(* The steps that complete. *)

(* A load puts the operand into RT. *)
LEMMA LoadMoves ==
  ASSUME StorageTypes, Load, ~FailedAccess, ~IndexExtended
  PROVE  Moved /\ OthersKept /\ (ir.op \in Updates => gpr'[ir.ra] = ArchEA)
<1> DEFINE w == Width(ir.op)
<1>1. /\ ir.op \in Loads /\ ir.op \in Storage /\ ir.op \notin Vector /\ w \in 1 .. 8
      /\ ir.op \notin Stores /\ ir.op \notin {"lvx", "lvlx", "stvx"}
  BY Widths DEF Load, Storage, Loads, Stores, Vector
<1>2. /\ UNCHANGED <<vr, mem>> /\ EA \in Region
      /\ \A k \in 0 .. w - 1 : EA + k \in Region
      /\ \A r \in Regs : gpr'[r] = IF ir.op \in Updates /\ r = ir.ra THEN EA
                                   ELSE IF r = ir.rt THEN Loaded(EA, w) ELSE gpr[r]
  BY LoadIs
<1>3. /\ EA = ArchEA /\ EA \in Int /\ ir.rt \in Regs /\ ir.ra \in Regs
      /\ DOMAIN Operand = 8 - w .. 7 /\ \A k \in 8 - w .. 7 : Operand[k] = EA + (k - (8 - w))
  BY <1>1, AddressIs, InWord, StorageFields, OperandIs
<1> HIDE DEF w
<1>4. \A j \in 0 .. 7 : RegByte(Loaded(EA, w), j) = IF j >= 8 - w THEN mem[EA + (j - (8 - w))] ELSE 0
  BY <1>1, <1>2, <1>3, LoadedIs
<1>5. \A j \in 0 .. 7 : j \in DOMAIN Operand <=> j >= 8 - w
  BY <1>1, <1>3
<1>6. ASSUME ~(ir.op \in Updates /\ ir.rt = ir.ra), NEW j \in 0 .. 7
      PROVE  RegByte(gpr'[ir.rt], j) = IF j \in DOMAIN Operand THEN mem[Operand[j]] ELSE 0
  <2>1. gpr'[ir.rt] = Loaded(EA, w)
    BY <1>2, <1>3, <1>6
  <2>2. j >= 8 - w => j \in 8 - w .. 7
    BY <1>1
  <2> QED  BY <1>3, <1>4, <1>5, <2>1, <2>2
<1>7. Moved
  BY <1>1, <1>6 DEF Moved
<1>8. OthersKept
  BY <1>1, <1>2 DEF OthersKept
<1> QED  BY <1>2, <1>3, <1>7, <1>8

(* A store puts RT into the operand. *)
LEMMA StoreMoves ==
  ASSUME StorageTypes, Store, ~FailedAccess, ~IndexExtended
  PROVE  Moved /\ OthersKept /\ (ir.op \in Updates => gpr'[ir.ra] = ArchEA)
<1> DEFINE w == Width(ir.op)
<1>1. /\ ir.op \in Stores /\ ir.op \in Storage /\ ir.op \notin Vector /\ ir.op \notin Loads /\ w \in 1 .. 8
      /\ ir.op \notin {"lvx", "lvlx", "stvx"}
  BY Widths DEF Store, Storage, Stores, Loads, Vector
<1>2. /\ UNCHANGED vr /\ EA \in Region
      /\ \A k \in 0 .. w - 1 : EA + k \in Region
      /\ \A b \in Region : mem'[b] = IF b - EA \in 0 .. w - 1
                                       THEN RegByte(gpr[ir.rt], (8 - w) + (b - EA)) ELSE mem[b]
      /\ \A r \in Regs : gpr'[r] = IF ir.op \in Updates /\ r = ir.ra THEN EA ELSE gpr[r]
  BY StoreIs
<1>3. /\ EA = ArchEA /\ EA \in Int /\ ir.ra \in Regs
      /\ DOMAIN Operand = 8 - w .. 7 /\ \A k \in 8 - w .. 7 : Operand[k] = EA + (k - (8 - w))
  BY <1>1, AddressIs, InWord, StorageFields, OperandIs
<1> HIDE DEF w
<1>4. ASSUME NEW j \in DOMAIN Operand
      PROVE  mem'[Operand[j]] = RegByte(gpr[ir.rt], j)
  <2>1. j \in 8 - w .. 7 /\ Operand[j] = EA + (j - (8 - w)) /\ j - (8 - w) \in 0 .. w - 1
    BY <1>1, <1>3
  <2>2. Operand[j] \in Region
    BY <1>2, <2>1
  <2>3. Operand[j] - EA = j - (8 - w) /\ (8 - w) + (j - (8 - w)) = j
    BY <1>1, <1>3, <2>1
  <2> QED  BY <1>2, <2>1, <2>2, <2>3
<1>5. Moved
  BY <1>1, <1>4 DEF Moved
<1>6. ASSUME NEW a \in Region PROVE mem'[a] = mem[a] \/ a \in {Operand[k] : k \in DOMAIN Operand}
  <2>1. CASE a - EA \in 0 .. w - 1
    <3> DEFINE k == (8 - w) + (a - EA)
    <3>1. a \in Int
      BY StorageSizes, InWord
    <3>2. k \in 8 - w .. 7 /\ EA + (k - (8 - w)) = a
      BY <1>1, <1>3, <2>1, <3>1
    <3> HIDE DEF k
    <3>3. k \in DOMAIN Operand /\ Operand[k] = a
      BY <1>3, <3>2
    <3> QED  BY <3>3
  <2> QED  BY <1>2, <2>1
<1>7. OthersKept
  BY <1>1, <1>2, <1>6 DEF OthersKept
<1> QED  BY <1>2, <1>3, <1>5, <1>7

(* A vector load that completes. *)
LEMMA LoadVectorMoves ==
  ASSUME StorageTypes, LoadVector, EA \in Region
  PROVE  Moved /\ OthersKept
<1>1. /\ ir.op = "lvx" /\ ir.op \in Storage /\ ir.op \in Vector /\ ~IndexExtended
      /\ ir.op \notin Loads /\ ir.op \notin Stores
  BY DEF LoadVector, Storage, Vector, IndexExtended, Loads, Stores
<1>2. /\ UNCHANGED <<gpr, mem>> /\ \A r \in Regs : r # ir.rt => vr'[r] = vr[r]
      /\ vr'[ir.rt] = <<Loaded(Upper, 8), Loaded(Lower, 8)>>
  BY LoadVectorIs
<1>3. DOMAIN Operand = 0 .. 15 /\ \A k \in 0 .. 15 : Operand[k] = Upper + k
  BY <1>1, OperandIs
<1>4. \A k \in 0 .. 7 : /\ RegByte(Loaded(Upper, 8), k) = mem[Upper + k]
                        /\ RegByte(Loaded(Lower, 8), k) = mem[Upper + (8 + k)]
  BY HalfIs
<1>5. ASSUME NEW j \in 0 .. 15 PROVE VRByte(vr'[ir.rt], j) = mem[Upper + j]
  <2>1. VRByte(vr'[ir.rt], j) = IF j < 8 THEN RegByte(Loaded(Upper, 8), j) ELSE RegByte(Loaded(Lower, 8), j - 8)
    BY <1>2 DEF VRByte
  <2>2. j >= 8 => j - 8 \in 0 .. 7 /\ 8 + (j - 8) = j
    OBVIOUS
  <2> QED  BY <1>4, <2>1, <2>2
<1>6. Moved
  BY <1>1, <1>3, <1>5 DEF Moved
<1>7. OthersKept
  BY <1>1, <1>2 DEF OthersKept
<1> QED  BY <1>6, <1>7

(* A vector store that completes. *)
LEMMA StoreVectorMoves ==
  ASSUME StorageTypes, StoreVector, EA \in Region
  PROVE  Moved /\ OthersKept
<1>1. /\ ir.op = "stvx" /\ ir.op \in Storage /\ ir.op \in Vector /\ ~IndexExtended
      /\ ir.op \notin Loads /\ ir.op \notin Stores
  BY DEF StoreVector, Storage, Vector, IndexExtended, Loads, Stores
<1>2. /\ UNCHANGED <<gpr, vr>>
      /\ \A b \in Region : mem'[b] = IF b - Upper \in 0 .. 15 THEN VRByte(vr[ir.rt], b - Upper) ELSE mem[b]
  BY StoreVectorIs
<1>3. DOMAIN Operand = 0 .. 15 /\ \A k \in 0 .. 15 : Operand[k] = Upper + k
  BY <1>1, OperandIs
<1>4. Upper \in Int /\ \A k \in 0 .. 15 : Upper + k \in Region
  BY <1>1, AddressIs, Halves
<1>5. ASSUME NEW j \in 0 .. 15 PROVE mem'[Upper + j] = VRByte(vr[ir.rt], j)
  <2>1. (Upper + j) - Upper = j
    BY <1>4
  <2> QED  BY <1>2, <1>4, <2>1
<1>6. Moved
  BY <1>1, <1>3, <1>5 DEF Moved
<1>7. ASSUME NEW a \in Region PROVE mem'[a] = mem[a] \/ a \in {Operand[k] : k \in DOMAIN Operand}
  <2>1. CASE a - Upper \in 0 .. 15
    <3> DEFINE k == a - Upper
    <3>1. a \in Int
      BY StorageSizes, InWord
    <3>2. k \in 0 .. 15 /\ Upper + k = a
      BY <1>4, <2>1, <3>1
    <3> HIDE DEF k
    <3>3. k \in DOMAIN Operand /\ Operand[k] = a
      BY <1>3, <3>2
    <3> QED  BY <3>3
  <2> QED  BY <1>2, <2>1
<1>8. OthersKept
  BY <1>1, <1>2, <1>7 DEF OthersKept
<1> QED  BY <1>6, <1>8

(* lvlx, from a mapped multiple of 16. *)
LEMMA LoadVectorLeftMoves ==
  ASSUME StorageTypes, LoadVectorLeft
  PROVE  (LvlxShifts \/ Moved) /\ OthersKept
<1>1. /\ ir.op = "lvlx" /\ ir.op \in Storage /\ ir.op \in Vector /\ ~IndexExtended
      /\ ir.op \notin Loads /\ ir.op \notin Stores
  BY DEF LoadVectorLeft, Storage, Vector, IndexExtended, Loads, Stores
<1>2. UNCHANGED <<gpr, mem>> /\ \A r \in Regs : r # ir.rt => vr'[r] = vr[r]
  BY LoadVectorLeftIs
<1>3. /\ DOMAIN Operand = 0 .. 15 /\ \A k \in 0 .. 15 : Operand[k] = Upper + k
      /\ EA = ArchEA
  BY <1>1, OperandIs, AddressIs
<1>4. ASSUME ~LvlxShifts PROVE Moved
  <2>1. EA \in Region /\ EA % 16 = 0
    BY <1>1, <1>3, <1>4 DEF LvlxShifts
  <2>2. \A k \in 0 .. 15 : VRByte(vr'[ir.rt], k) = mem[Upper + k]
    BY <2>1, LoadVectorLeftIs
  <2> QED  BY <1>1, <1>3, <2>2 DEF Moved
<1>5. OthersKept
  BY <1>1, <1>2 DEF OthersKept
<1> QED  BY <1>4, <1>5

(* A load or store of PowerProcessor.cpp that completes moves the bytes the   *)
(* architecture names, in its order, and no others, and an update form leaves *)
(* the address in RA: at every address, mapped region and register contents.  *)
THEOREM MovesCorrect == VSpec => MovesOperand
<1> DEFINE Moves == Completes /\ ~IndexExtended =>
                      (LvlxShifts \/ Moved) /\ OthersKept /\ (ir.op \in Updates => gpr'[ir.ra] = ArchEA)
<1>1. StorageTypes /\ StorageNext => Moves
  <2> SUFFICES ASSUME StorageTypes, StorageNext, Completes, ~IndexExtended
               PROVE  (LvlxShifts \/ Moved) /\ OthersKept /\ (ir.op \in Updates => gpr'[ir.ra] = ArchEA)
    OBVIOUS
  <2>1. ir.op \in Storage /\ status' = "running"
    BY DEF Completes
  <2>2. CASE Load
    <3>1. ~FailedAccess
      BY <2>1 DEF FailedAccess, Failure
    <3> QED  BY <2>2, <3>1, LoadMoves
  <2>3. CASE Store
    <3>1. ~FailedAccess
      BY <2>1 DEF FailedAccess, Failure
    <3> QED  BY <2>3, <3>1, StoreMoves
  <2>4. CASE LoadVector
    <3>1. EA \in Region /\ ir.op \notin Updates
      BY <2>1, <2>4, LoadVectorIs DEF LoadVector, Updates
    <3> QED  BY <2>4, <3>1, LoadVectorMoves
  <2>5. CASE StoreVector
    <3>1. EA \in Region /\ ir.op \notin Updates
      BY <2>1, <2>5, StoreVectorIs DEF StoreVector, Updates
    <3> QED  BY <2>5, <3>1, StoreVectorMoves
  <2>6. CASE LoadVectorLeft
    <3>1. ir.op \notin Updates
      BY <2>6 DEF LoadVectorLeft, Updates
    <3> QED  BY <2>6, <3>1, LoadVectorLeftMoves
  <2>7. CASE SkipUnknown
    BY <2>1, <2>7 DEF SkipUnknown, Storage, Loads, Stores, Vector
  <2> QED  BY <2>2, <2>3, <2>4, <2>5, <2>6, <2>7 DEF StorageNext
<1>2. StorageReady /\ [VNext]_vvars => [Moves]_storageVars
  <2> SUFFICES ASSUME StorageReady, [VNext]_vvars PROVE [Moves]_storageVars
    OBVIOUS
  <2>1. CASE StorageNext
    BY <1>1, <2>1 DEF StorageNext, StorageReady
  <2>2. CASE Compute \/ UnknownVector
    BY <2>2, OthersCompute DEF Completes
  <2>3. CASE UNCHANGED vvars
    BY <2>3 DEF vvars
  <2> QED  BY <2>1, <2>2, <2>3 DEF VNext
<1> HIDE DEF Moves
<1>3. VSpec => [][Moves]_storageVars
  BY <1>2, StorageTyped, PTL DEF VSpec
<1> QED  BY <1>3 DEF MovesOperand, Moves
==============================================================================
