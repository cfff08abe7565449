----------------------------- MODULE FloatProofs -----------------------------
(***************************************************************************)
(* Proofs about FloatUnit for formats of any width.                        *)
(*                                                                         *)
(* A number of a format is n units of some place d above the least, n less  *)
(* than twice the weight of the hidden bit: ExactIs reads a pattern so, and *)
(* RoundExact says that rounding an exact value a format holds gives its    *)
(* pattern.  A float is such a number of the double format, which is why a  *)
(* word survives the way through a register.                               *)
(*                                                                         *)
(* Rounding to a double and then to a float is rounding to a float unless   *)
(* the double is a tie between floats that the exact value is not           *)
(* (RoundTwice); a double has bits enough that no sum, product or float     *)
(* result of two floats is rounded to one: NoTieSum, NoTieFew, NoTieSingle. *)
(***************************************************************************)
EXTENDS FloatUnit, NumeralProofs

USE DEF ^^

-----------------------------------------------------------------------------
(* Formats. *)

IsFormat(f) == f.exp \in Nat \ {0, 1} /\ f.frac \in Nat \ {0, 1}

LEMMA Formats ==
  /\ IsFormat(Single) /\ IsFormat(Double)
  /\ Single.exp < Double.exp /\ Single.frac < Double.frac
BY FloatAssumption DEF IsFormat, Single, Double

(* The weights of the fields: t patterns of an exponent, u of a fraction. *)
LEMMA Weights ==
  ASSUME NEW f, IsFormat(f)
  PROVE  \E t, u, q \in Nat \ {0} :
           /\ t = Power(2, f.exp) /\ u = Power(2, f.frac) /\ q = QuietBit(f) /\ u = 2 * q
           /\ t >= 4 /\ SignWeight(f) = t * u /\ Infinity(f) = (t - 1) * u
           /\ \E h \in Nat \ {0} : h = Power(2, f.exp - 1) /\ t = 2 * h /\ Least(f) = 2 - h - f.frac
<1> DEFINE t == Power(2, f.exp)
           u == Power(2, f.frac)
           q == Power(2, f.frac - 1)
           h == Power(2, f.exp - 1)
<1>1. /\ f.exp \in Nat /\ f.exp # 0 /\ f.exp - 1 \in Nat
      /\ f.frac \in Nat /\ f.frac # 0 /\ f.frac - 1 \in Nat /\ 2 \in Nat /\ 2 <= f.exp
  BY DEF IsFormat
<1>2. t \in Nat \ {0} /\ u \in Nat \ {0} /\ q \in Nat \ {0} /\ h \in Nat \ {0} /\ u = 2 * q /\ t = 2 * h
  BY <1>1, Twos
<1>3. t >= 4
  BY <1>1, FirstTwos, TwosGrow
<1>4. SignWeight(f) = t * u
  BY <1>1, TwosAdd DEF SignWeight
<1>5. Infinity(f) = (t - 1) * u /\ QuietBit(f) = q /\ Least(f) = 2 - h - f.frac
  BY DEF Infinity, QuietBit, Least
<1> HIDE DEF t, u, q, h
<1> QED  BY <1>2, <1>3, <1>4, <1>5 DEF t, u, q, h

(* A pattern is a sign and a magnitude. *)
LEMMA SignsAre ==
  ASSUME NEW f, IsFormat(f), NEW x \in Patterns(f)
  PROVE  /\ Magnitude(f, x) \in 0 .. SignWeight(f) - 1 /\ SignWeight(f) \in Nat \ {0}
         /\ Minus(f, x) \in BOOLEAN /\ WithSign(f, Minus(f, x), Magnitude(f, x)) = x
<1> DEFINE w == SignWeight(f)
<1>1. w \in Nat \ {0}
  <2>1. PICK t, u \in Nat \ {0} : SignWeight(f) = t * u
    BY Weights
  <2>2. t * u \in Nat \ {0}
    BY <2>1
  <2> QED  BY <2>1, <2>2
<1>2. x \in 0 .. 2 * w - 1 /\ x \in Int
  BY <1>1 DEF Patterns
<1>3. Minus(f, x) <=> x >= w
  BY DEF Minus
<1>4. Magnitude(f, x) = x % w
  BY DEF Magnitude
<1>5. WithSign(f, Minus(f, x), Magnitude(f, x)) = (x % w) + (IF x >= w THEN w ELSE 0)
  BY <1>4 DEF WithSign, Minus
<1> HIDE DEF w
<1>6. CASE x < w
  <2>1. x \in 0 .. w - 1
    BY <1>1, <1>2, <1>6
  <2>2. x % w = x
    BY <1>1, <2>1, ModSmall
  <2>3. ~(x >= w) /\ x + 0 = x
    BY <1>1, <1>2, <1>6
  <2>4. Minus(f, x) = FALSE
    BY <1>3, <2>3 DEF Minus
  <2>5. WithSign(f, Minus(f, x), Magnitude(f, x)) = x
    BY <1>5, <2>2, <2>3
  <2> QED  BY <1>1, <1>4, <2>1, <2>2, <2>4, <2>5 DEF w
<1>7. CASE x >= w
  <2> DEFINE r == x - w
  <2>1. x = w * 1 + r /\ r \in 0 .. w - 1 /\ 1 \in Int
    BY <1>1, <1>2, <1>7
  <2>2. x % w = r
    <3> HIDE DEF r
    <3> QED  BY <1>1, <1>2, <2>1, Remains
  <2>3. r + w = x
    BY <1>1, <1>2
  <2>4. Minus(f, x) = TRUE
    BY <1>3, <1>7 DEF Minus
  <2>5. WithSign(f, Minus(f, x), Magnitude(f, x)) = x
    BY <1>5, <1>7, <2>2, <2>3
  <2>6. Magnitude(f, x) \in 0 .. w - 1
    BY <1>4, <2>1, <2>2
  <2> QED  BY <1>1, <2>4, <2>5, <2>6 DEF w
<1> QED  BY <1>1, <1>2, <1>6, <1>7

LEMMA SignedIs ==
  ASSUME NEW f, IsFormat(f), NEW minus \in BOOLEAN, NEW m \in 0 .. SignWeight(f) - 1
  PROVE  /\ WithSign(f, minus, m) \in Patterns(f)
         /\ Minus(f, WithSign(f, minus, m)) <=> minus
         /\ Magnitude(f, WithSign(f, minus, m)) = m
<1> DEFINE w == SignWeight(f)
           x == WithSign(f, minus, m)
<1>1. w \in Nat \ {0}
  <2>1. PICK t, u \in Nat \ {0} : SignWeight(f) = t * u
    BY Weights
  <2>2. t * u \in Nat \ {0}
    BY <2>1
  <2> QED  BY <2>1, <2>2
<1>2. x = m + (IF minus THEN w ELSE 0) /\ m \in 0 .. w - 1
  BY DEF WithSign
<1>3. Patterns(f) = 0 .. 2 * w - 1 /\ (Minus(f, x) <=> x >= w) /\ Magnitude(f, x) = x % w
  BY DEF Patterns, Minus, Magnitude
<1> HIDE DEF w, x
<1>4. x % w = m
  <2>1. CASE minus
    <3>1. x = w * 1 + m /\ 1 \in Int /\ x \in Int
      BY <1>1, <1>2, <2>1
    <3> QED  BY <1>1, <1>2, <3>1, Remains
  <2>2. CASE ~minus
    BY <1>1, <1>2, <2>2, ModSmall
  <2> QED  BY <2>1, <2>2
<1> QED  BY <1>1, <1>2, <1>3, <1>4 DEF x

(* The low bits of a pattern are those of its magnitude. *)
LEMMA LowBits ==
  ASSUME NEW f, IsFormat(f), NEW x \in Patterns(f), NEW n \in Nat, n <= f.exp + f.frac
  PROVE  x % Power(2, n) = Magnitude(f, x) % Power(2, n)
<1> DEFINE m == Magnitude(f, x)
           p == Power(2, n)
           r == Power(2, (f.exp + f.frac) - n)
<1>1. m \in Int /\ x = m + (IF Minus(f, x) THEN SignWeight(f) ELSE 0)
  BY SignsAre DEF WithSign
<1>2. SignWeight(f) = p * r /\ p \in Nat \ {0} /\ r \in Nat \ {0}
  <2>1. n \in Nat /\ (f.exp + f.frac) - n \in Nat /\ n + ((f.exp + f.frac) - n) = f.exp + f.frac
    BY DEF IsFormat
  <2>2. Power(2, n + ((f.exp + f.frac) - n)) = p * r
    BY <2>1, TwosAdd
  <2>3. p \in Nat \ {0} /\ r \in Nat \ {0}
    BY <2>1, Twos
  <2>4. SignWeight(f) = p * r
    BY <2>1, <2>2 DEF SignWeight
  <2> QED  BY <2>3, <2>4
<1> HIDE DEF m, p, r
<1>3. x = m \/ x = m + p * r
  BY <1>1, <1>2
<1>4. (m + p * r) % p = m % p
  <2>1. r \in Int
    BY <1>2
  <2> QED  BY <1>1, <1>2, <2>1, Units
<1> QED  BY <1>3, <1>4 DEF m, p

-----------------------------------------------------------------------------
(* Numbers: n units of place d. *)

(* n is written with the hidden bit, or in the lowest place. *)
IsNumber(f, d, n) ==
  /\ d \in Nat /\ n \in 0 .. 2 * Power(2, f.frac) - 1
  /\ d > 0 => n >= Power(2, f.frac)

LEMMA ExactIs ==
  ASSUME NEW f, IsFormat(f), NEW x \in Patterns(f), Magnitude(f, x) < Infinity(f)
  PROVE  \E d, n \in Nat :
           /\ IsNumber(f, d, n) /\ d + 3 <= Power(2, f.exp)
           /\ Magnitude(f, x) = d * Power(2, f.frac) + n
           /\ Exact(f, x) = Exactly(Minus(f, x), n, 1, Least(f) + d)
<1> DEFINE m == Magnitude(f, x)
           u == Power(2, f.frac)
           t == Power(2, f.exp)
           e == m \div u
           r == m % u
<1>1. u \in Nat \ {0} /\ t \in Nat /\ t >= 4 /\ Infinity(f) = (t - 1) * u /\ Least(f) \in Int
  <2>1. PICK t1, u1, q1 \in Nat \ {0} :
           /\ t1 = t /\ u1 = u /\ t1 >= 4 /\ Infinity(f) = (t1 - 1) * u1
           /\ \E h \in Nat \ {0} : Least(f) = 2 - h - f.frac
    BY Weights
  <2>2. f.frac \in Int
    BY DEF IsFormat
  <2>3. Least(f) \in Int
    BY <2>1, <2>2
  <2> QED  BY <2>1, <2>3
<1>2. m \in Nat /\ m < Infinity(f) /\ m \in Int
  <2>1. SignWeight(f) \in Nat \ {0} /\ m \in 0 .. SignWeight(f) - 1
    BY SignsAre
  <2> QED  BY <2>1
<1>3. x % u = r
  <2>1. f.frac \in Nat /\ f.frac <= f.exp + f.frac
    BY DEF IsFormat
  <2> QED  BY <2>1, LowBits
<1>4. Exact(f, x) = IF e = 0 THEN Exactly(Minus(f, x), r, 1, Least(f))
                    ELSE Exactly(Minus(f, x), r + u, 1, Least(f) + e - 1)
  BY <1>3 DEF Exact
<1> HIDE DEF m, u, t
<1>5. m = u * e + r /\ r \in 0 .. u - 1 /\ e \in Int
  BY <1>1, <1>2, Division
<1> HIDE DEF e, r
<1>6. e >= 0
  <2>1. SUFFICES ASSUME e <= -1 PROVE FALSE
    BY <1>5
  <2>2. u * e <= u * (-1)
    BY <1>1, <1>5, <2>1
  <2> QED  BY <1>1, <1>2, <1>5, <2>2
<1>7. e <= t - 2
  <2>1. SUFFICES ASSUME e >= t - 1 PROVE FALSE
    BY <1>1, <1>5
  <2>2. u * e >= (t - 1) * u
    BY <1>1, <1>5, <2>1
  <2> QED  BY <1>1, <1>2, <1>5, <2>2
<1>8. CASE e = 0
  <2>1. /\ 0 \in Nat /\ r \in Nat /\ r \in 0 .. 2 * u - 1 /\ 0 + 3 <= t /\ m = 0 * u + r
        /\ Least(f) + 0 = Least(f) /\ ~(0 > 0)
    BY <1>1, <1>5, <1>8
  <2>2. Exact(f, x) = Exactly(Minus(f, x), r, 1, Least(f) + 0)
    BY <1>4, <1>8, <2>1
  <2>3. IsNumber(f, 0, r)
    BY <2>1 DEF IsNumber, u
  <2> QED  BY <2>1, <2>2, <2>3 DEF m, u, t
<1>9. CASE e >= 1
  <2> DEFINE d == e - 1
             n == r + u
  <2>1. /\ d \in Nat /\ n \in Nat /\ n \in 0 .. 2 * u - 1 /\ n >= u /\ d + 3 <= t
        /\ Least(f) + d = Least(f) + e - 1 /\ e # 0
    BY <1>1, <1>5, <1>7, <1>9
  <2>2. m = d * u + n
    BY <1>1, <1>5
  <2>3. Exact(f, x) = Exactly(Minus(f, x), n, 1, Least(f) + d)
    BY <1>4, <2>1
  <2> HIDE DEF d, n
  <2>4. IsNumber(f, d, n)
    BY <2>1 DEF IsNumber, u
  <2> QED  BY <2>1, <2>2, <2>3, <2>4 DEF m, u, t
<1> QED  BY <1>5, <1>6, <1>8, <1>9

(* The pattern of a number reads as that number. *)
LEMMA ExactFrom ==
  ASSUME NEW f, IsFormat(f), NEW minus \in BOOLEAN, NEW d \in Nat, NEW n \in Nat,
         IsNumber(f, d, n), d + 3 <= Power(2, f.exp)
  PROVE  LET m == d * Power(2, f.frac) + n
             x == WithSign(f, minus, m) IN
         /\ m \in Nat /\ m < Infinity(f) /\ x \in Patterns(f)
         /\ Minus(f, x) = minus /\ Magnitude(f, x) = m
         /\ Exact(f, x) = Exactly(minus, n, 1, Least(f) + d)
<1> DEFINE u == Power(2, f.frac)
           t == Power(2, f.exp)
           m == d * u + n
           x == WithSign(f, minus, m)
<1>1. /\ u \in Nat \ {0} /\ t \in Nat /\ t >= 4 /\ Infinity(f) = (t - 1) * u /\ Least(f) \in Int
      /\ SignWeight(f) = t * u
  <2>1. PICK t1, u1, q1 \in Nat \ {0} :
           /\ t1 = t /\ u1 = u /\ t1 >= 4 /\ Infinity(f) = (t1 - 1) * u1 /\ SignWeight(f) = t1 * u1
           /\ \E h \in Nat \ {0} : Least(f) = 2 - h - f.frac
    BY Weights
  <2>2. f.frac \in Int
    BY DEF IsFormat
  <2>3. Least(f) \in Int
    BY <2>1, <2>2
  <2> QED  BY <2>1, <2>3
<1>2. n \in 0 .. 2 * u - 1 /\ (d > 0 => n >= u) /\ d + 3 <= t
  BY DEF IsNumber
<1> HIDE DEF u, t
<1>3. m \in Nat /\ m < Infinity(f) /\ m < SignWeight(f)
  <2>1. d * u <= (t - 3) * u /\ d * u \in Nat
    BY <1>1, <1>2
  <2>2. (t - 3) * u + 2 * u = (t - 1) * u /\ (t - 1) * u + u = t * u
    BY <1>1
  <2>3. (t - 3) * u \in Int /\ (t - 1) * u \in Int /\ t * u \in Int
    BY <1>1
  <2> QED  BY <1>1, <1>2, <2>1, <2>2, <2>3
<1> HIDE DEF m
<1>4. m \in 0 .. SignWeight(f) - 1
  <2>1. SignWeight(f) \in Int
    BY <1>1
  <2> QED  BY <1>3, <2>1
<1>5. x \in Patterns(f) /\ (Minus(f, x) <=> minus) /\ Magnitude(f, x) = m
  BY <1>4, SignedIs
<1>6. Minus(f, x) = minus
  BY <1>5 DEF Minus
<1> HIDE DEF x
<1>7. x % u = m % u
  <2>1. f.frac \in Nat /\ f.frac <= f.exp + f.frac
    BY DEF IsFormat
  <2> QED  BY <1>5, <2>1, LowBits DEF u
<1>8. Exact(f, x) = IF m \div u = 0 THEN Exactly(minus, m % u, 1, Least(f))
                    ELSE Exactly(minus, (m % u) + u, 1, Least(f) + (m \div u) - 1)
  BY <1>5, <1>6, <1>7 DEF Exact, u
<1>9. CASE n < u
  <2>1. d = 0 /\ d \in Int /\ n \in 0 .. u - 1 /\ m = u * d + n /\ m \in Int
    BY <1>1, <1>2, <1>9 DEF m
  <2>2. m % u = n /\ m \div u = d
    BY <1>1, <2>1, Remains
  <2>3. Least(f) + d = Least(f)
    BY <1>1, <2>1
  <2> QED  BY <1>3, <1>5, <1>6, <1>8, <2>1, <2>2, <2>3 DEF m, x, u
<1>10. CASE n >= u
  <2> DEFINE r == n - u
             e == d + 1
  <2>1. r \in 0 .. u - 1 /\ m = u * e + r /\ m \in Int /\ e \in Int /\ e # 0
    BY <1>1, <1>2, <1>10 DEF m
  <2>2. r + u = n /\ Least(f) + e - 1 = Least(f) + d
    BY <1>1
  <2> HIDE DEF r, e
  <2>3. m % u = r /\ m \div u = e
    BY <1>1, <2>1, Remains
  <2> QED  BY <1>3, <1>5, <1>6, <1>8, <2>1, <2>2, <2>3 DEF m, x, u
<1> QED  BY <1>1, <1>2, <1>9, <1>10

-----------------------------------------------------------------------------
(* Rounding. *)

LEMMA Extremes ==
  ASSUME NEW a \in Int, NEW b \in Int
  PROVE  /\ Max({a, b}) = IF a >= b THEN a ELSE b
         /\ Min({a, b}) = IF a <= b THEN a ELSE b
BY DEF Max, Min

(* Doubling a number moves its leading bit. *)
LEMMA ScaleLeads ==
  ASSUME NEW n \in Nat \ {0}, NEW l \in Nat, Leads(l, n), NEW s \in Nat
  PROVE  Leads(l + s, n * Power(2, s)) /\ n * Power(2, s) \in Nat \ {0}
<1> DEFINE p == Power(2, s)
           a == Power(2, l)
           b == Power(2, l + 1)
<1>1. l + 1 \in Nat /\ l + s \in Nat /\ (l + s) + 1 = (l + 1) + s
  OBVIOUS
<1>2. Power(2, l + s) = a * p /\ Power(2, (l + 1) + s) = b * p
  BY <1>1, TwosAdd
<1>3. p \in Nat \ {0} /\ a \in Nat /\ b \in Nat
  BY <1>1, Twos
<1>4. a <= n /\ n < b
  BY DEF Leads
<1> HIDE DEF p, a, b
<1>5. a * p <= n * p /\ n * p < b * p /\ n * p \in Nat \ {0}
  BY <1>3, <1>4
<1>6. Power(2, l + s) <= n * p /\ n * p < Power(2, (l + s) + 1)
  BY <1>1, <1>2, <1>5
<1> QED  BY <1>1, <1>5, <1>6 DEF Leads, p

(* A multiple of d divides by d, without a tie to break. *)
LEMMA NearestExact ==
  ASSUME NEW d \in Nat \ {0}, NEW n \in Nat
  PROVE  NearestEven(n * d, d) = n
<1>1. n * d = d * n + 0 /\ n * d \in Int /\ 0 \in 0 .. d - 1 /\ n \in Int
  OBVIOUS
<1> DEFINE x == n * d
           z == 0
<1>2. x = d * n + z /\ x \in Int /\ z \in 0 .. d - 1 /\ n \in Int
  BY <1>1
<1>3. x % d = z /\ x \div d = n
  <2> HIDE DEF x, z
  <2> QED  BY <1>2, Remains
<1>4. ~(2 * (x % d) > d) /\ ~(2 * (x % d) = d)
  <2> HIDE DEF x
  <2> QED  BY <1>3
<1> HIDE DEF x
<1>5. NearestEven(x, d) = n
  BY <1>3, <1>4 DEF NearestEven
<1> QED  BY <1>5 DEF x

(* A number rounds to its own pattern: num at 2^e is rounded at place d, and is exactly n units of it. *)
Fits(f, minus, num, e, d, n) ==
  LET z == Least(f) + d IN
  /\ LastPlace(f, Exactly(minus, num, 1, e)) = z
  /\ e >= z => n = num * Power(2, e - z)
  /\ e < z => num = n * Power(2, z - e)

LEMMA RoundExact ==
  ASSUME NEW f, IsFormat(f), NEW minus \in BOOLEAN, NEW num \in Nat \ {0}, NEW e \in Int,
         NEW d \in Nat, NEW n \in Nat, Least(f) \in Int,
         IsNumber(f, d, n), d + 3 <= Power(2, f.exp), Fits(f, minus, num, e, d, n)
  PROVE  Round(f, Exactly(minus, num, 1, e)) = WithSign(f, minus, d * Power(2, f.frac) + n)
<1> DEFINE z == Least(f) + d
           v == Exactly(minus, num, 1, e)
           k == IF e - z >= 0 THEN NearestEven(num * Power(2, e - z), 1)
                              ELSE NearestEven(num, 1 * Power(2, -(e - z)))
<1>1. v.num = num /\ v.den = 1 /\ v.exp = e /\ v.minus = minus
  BY DEF Exactly
<1>2. Round(f, v) = WithSign(f, minus, Min({Infinity(f), (z - Least(f)) * Power(2, f.frac) + k}))
  BY <1>1 DEF Round, Fits
<1>3. z - Least(f) = d /\ z \in Int
  OBVIOUS
<1>5. (e >= z => n = num * Power(2, e - z)) /\ (e < z => num = n * Power(2, z - e))
  BY DEF Fits
<1> HIDE DEF v, z
<1>4. k = n
  <2>1. CASE e >= z
    <3>1. e - z >= 0 /\ n = num * Power(2, e - z)
      BY <1>3, <1>5, <2>1
    <3>2. n * 1 = n /\ 1 \in Nat \ {0}
      OBVIOUS
    <3>3. NearestEven(n * 1, 1) = n
      BY <3>2, NearestExact
    <3> QED  BY <3>1, <3>2, <3>3
  <2>2. CASE e < z
    <3>1. ~(e - z >= 0) /\ -(e - z) = z - e /\ z - e \in Nat
      BY <1>3, <2>2
    <3>2. num = n * Power(2, z - e)
      BY <1>5, <2>2
    <3>3. Power(2, z - e) \in Nat \ {0}
      BY <3>1, Twos
    <3>4. NearestEven(num, Power(2, z - e)) = n
      BY <3>2, <3>3, NearestExact
    <3>5. 1 * Power(2, z - e) = Power(2, z - e)
      BY <3>3
    <3> QED  BY <3>1, <3>4, <3>5
  <2> QED  BY <1>3, <2>1, <2>2
<1> HIDE DEF k
<1> DEFINE m == d * Power(2, f.frac) + n
           inf == Infinity(f)
<1>6. Round(f, v) = WithSign(f, minus, Min({inf, m}))
  BY <1>2, <1>3, <1>4
<1>7. m \in Nat /\ m < inf
  BY ExactFrom
<1>8. inf \in Int
  <2>1. PICK t, u \in Nat \ {0} : Infinity(f) = (t - 1) * u
    BY Weights
  <2> QED  BY <2>1
<1> HIDE DEF m, inf
<1>9. m \in Int /\ ~(inf <= m)
  BY <1>7, <1>8
<1>10. Min({inf, m}) = m
  BY <1>8, <1>9, Extremes
<1> QED  BY <1>6, <1>10 DEF m, v

(* The place of the last bit kept. *)
LEMMA LastPlaceIs ==
  ASSUME NEW f, NEW low \in Int, Least(f) = low, NEW m \in Nat, f.frac = m,
         NEW minus \in BOOLEAN, NEW num \in Nat \ {0}, NEW e \in Int, NEW l \in Nat, Leads(l, num)
  PROVE  LastPlace(f, Exactly(minus, num, 1, e))
           = IF low >= l + e - m THEN low ELSE l + e - m
<1> DEFINE v == Exactly(minus, num, 1, e)
<1>1. v.num = num /\ v.den = 1 /\ v.exp = e
  BY DEF Exactly
<1>2. num \div 1 = num /\ num >= 1
  OBVIOUS
<1>3. Log(v) = l
  BY <1>1, <1>2, OneLeads DEF Log
<1>4. LastPlace(f, v) = Max({low, l + e - m})
  BY <1>1, <1>3 DEF LastPlace
<1>5. l + e - m \in Int
  OBVIOUS
<1> QED  BY <1>4, <1>5, Extremes

-----------------------------------------------------------------------------
(* A float and the double that holds it. *)

(* The range of a double holds that of a float, with room for its places. *)
LEMMA Ranges ==
  \E hs, hd \in Nat \ {0} :
    /\ hs < hd /\ Power(2, Single.exp) = 2 * hs /\ Power(2, Double.exp) = 2 * hd
    /\ Least(Single) = 2 - hs - Single.frac /\ Least(Double) = 2 - hd - Double.frac
    /\ Least(Single) \in Int /\ Least(Double) \in Int
    /\ Single.frac \in Nat /\ Double.frac \in Nat /\ Single.frac < Double.frac
    /\ hs >= 2 /\ 2 * hs <= hd /\ Double.frac >= 2 * Single.frac + 3
<1> DEFINE hs == Power(2, Single.exp - 1)
           hd == Power(2, Double.exp - 1)
<1>1. /\ Single.exp \in Nat \ {0} /\ Double.exp \in Nat \ {0} /\ Single.exp < Double.exp
      /\ Single.frac \in Nat /\ Double.frac \in Nat /\ Single.frac < Double.frac
  BY Formats DEF IsFormat
<1>2. /\ Single.exp - 1 \in Nat /\ (Single.exp - 1) + 1 \in Nat /\ Double.exp - 1 \in Nat
      /\ (Single.exp - 1) + 1 <= Double.exp - 1
  BY <1>1
<1>3. hs \in Nat \ {0} /\ Power(2, (Single.exp - 1) + 1) = 2 * hs
  BY <1>2, Twos, PowerSteps
<1>4. hd \in Nat \ {0} /\ Power(2, (Single.exp - 1) + 1) <= hd
  BY <1>2, Twos, TwosGrow
<1>5. Power(2, Single.exp) = 2 * hs /\ Power(2, Double.exp) = 2 * hd
  BY <1>1, Twos
<1>6. /\ Least(Single) = 2 - hs - Single.frac /\ Least(Double) = 2 - hd - Double.frac
      /\ Double.frac >= 2 * Single.frac + 3
  BY FloatAssumption DEF Least, Single, Double
<1>9. hs >= 2
  <2>1. 1 \in Nat /\ 1 <= Single.exp - 1
    BY <1>2, Formats DEF IsFormat
  <2> QED  BY <1>2, <2>1, TwosGrow, FirstTwos
<1> HIDE DEF hs, hd
<1>7. hs < hd /\ 2 * hs <= hd
  BY <1>3, <1>4
<1>8. Least(Single) \in Int /\ Least(Double) \in Int
  BY <1>1, <1>3, <1>4, <1>6
<1> QED  BY <1>1, <1>3, <1>4, <1>5, <1>6, <1>7, <1>8, <1>9

(* The number n of place d of a float, its leading bit l, is the number k of *)
(* place c of a double.                                                      *)
LEMMA Places ==
  ASSUME NEW minus \in BOOLEAN, NEW d \in Nat, NEW n \in Nat \ {0}, IsNumber(Single, d, n), d + 3 <= Power(2, Single.exp)
  PROVE  \E l, c, s \in Nat, k \in Nat \ {0} :
           /\ Leads(l, n) /\ Leads(l + s, k) /\ k = n * Power(2, s)
           /\ (Least(Double) + c) + s = Least(Single) + d
           /\ IsNumber(Double, c, k) /\ c + 3 <= Power(2, Double.exp)
           /\ LastPlace(Double, Exactly(minus, n, 1, Least(Single) + d)) = Least(Double) + c
           /\ LastPlace(Single, Exactly(minus, k, 1, Least(Double) + c)) = Least(Single) + d
<1>1. PICK hs, hd \in Nat \ {0} :
        /\ hs < hd /\ Power(2, Single.exp) = 2 * hs /\ Power(2, Double.exp) = 2 * hd
        /\ Least(Single) = 2 - hs - Single.frac /\ Least(Double) = 2 - hd - Double.frac
        /\ Least(Single) \in Int /\ Least(Double) \in Int
        /\ Single.frac \in Nat /\ Double.frac \in Nat /\ Single.frac < Double.frac
  BY Ranges
<1> DEFINE l == Log2(n)
           e == Least(Single) + d
           ms == Single.frac
           md == Double.frac
           z == IF Least(Double) >= l + e - md THEN Least(Double) ELSE l + e - md
           c == z - Least(Double)
           s == e - z
           k == n * Power(2, s)
<1>2. l \in Nat /\ Leads(l, n)
  BY Log2Leads DEF Leads
<1>3. e \in Int /\ d + 3 <= 2 * hs
  BY <1>1
<1> HIDE DEF l
(* n is below twice the hidden bit, and above it but in the least place. *)
<1>4. l <= ms /\ (d > 0 => l = ms)
  <2>1. ms + 1 \in Nat /\ l + 1 \in Nat /\ Power(2, ms + 1) = 2 * Power(2, ms) /\ Power(2, ms) \in Nat
    BY <1>1, <1>2, Twos, PowerSteps
  <2>2. n < Power(2, ms + 1) /\ (d > 0 => n >= Power(2, ms))
    BY <2>1 DEF IsNumber
  <2>3. Power(2, l) \in Nat /\ Power(2, l + 1) \in Nat /\ Power(2, l) <= n /\ n < Power(2, l + 1)
    BY <1>2, <2>1, Twos DEF Leads
  <2>4. l <= ms
    <3>1. SUFFICES ASSUME ms + 1 <= l PROVE FALSE
      BY <1>1, <1>2
    <3>2. Power(2, ms + 1) <= Power(2, l)
      BY <1>2, <2>1, <3>1, TwosGrow
    <3> QED  BY <2>1, <2>2, <2>3, <3>2
  <2>5. ASSUME d > 0, l + 1 <= ms PROVE FALSE
    <3>1. Power(2, l + 1) <= Power(2, ms)
      BY <1>1, <2>1, <2>5, TwosGrow
    <3> QED  BY <2>1, <2>2, <2>3, <2>5, <3>1
  <2>6. d > 0 => l = ms
    BY <1>1, <1>2, <2>4, <2>5
  <2> QED  BY <2>4, <2>6
<1>5. /\ z \in Int /\ c \in Nat /\ s \in Nat /\ z + s = e /\ Least(Double) + c = z
      /\ l + s <= md /\ (c > 0 => l + s = md) /\ c + 3 <= 2 * hd
  <2> DEFINE low == Least(Single)
             lowest == Least(Double)
  <2>1. /\ hs \in Nat /\ hd \in Nat /\ hs < hd /\ ms \in Nat /\ md \in Nat /\ ms < md
        /\ low = 2 - hs - ms /\ lowest = 2 - hd - md /\ e = low + d
        /\ l \in Nat /\ l <= ms /\ (d > 0 => l = ms) /\ d + 3 <= 2 * hs
        /\ low \in Int /\ lowest \in Int /\ e \in Int
    BY <1>1, <1>2, <1>3, <1>4
  <2> HIDE DEF low, lowest, ms, md, e
  <2>2. CASE lowest >= l + e - md
    <3>1. z = lowest
      BY <2>2 DEF lowest
    <3> HIDE DEF z
    <3>2. c = 0 /\ s = e - lowest
      BY <2>1, <3>1 DEF lowest
    <3> HIDE DEF c, s
    <3>3. e >= lowest /\ l + (e - lowest) <= md
      BY <2>1, <2>2
    <3>4. z \in Int /\ c \in Nat /\ s \in Nat /\ z + s = e /\ lowest + c = z
      BY <2>1, <3>1, <3>2, <3>3
    <3>5. l + s <= md /\ (c > 0 => l + s = md) /\ c + 3 <= 2 * hd
      BY <2>1, <3>2, <3>3
    <3> QED  BY <3>4, <3>5 DEF lowest
  <2>3. CASE ~(lowest >= l + e - md)
    <3>1. z = l + e - md
      BY <2>3 DEF lowest
    <3> HIDE DEF z
    <3>2. c = (l + e - md) - lowest /\ s = e - (l + e - md)
      BY <2>1, <3>1 DEF lowest
    <3> HIDE DEF c, s
    <3>3. z \in Int /\ c \in Nat /\ s \in Nat /\ z + s = e /\ lowest + c = z
      BY <2>1, <2>3, <3>1, <3>2
    <3>4. l + s = md /\ c + 3 <= 2 * hd
      BY <2>1, <3>2
    <3> QED  BY <2>1, <3>3, <3>4 DEF lowest
  <2> QED  BY <2>2, <2>3
<1>6. (IF Least(Single) >= l + e - ms THEN Least(Single) ELSE l + e - ms) = e
  BY <1>1, <1>2, <1>3, <1>4
<1>7. (l + s) + z - ms = l + e - ms
  <2>1. ms \in Int
    BY <1>1
  <2> HIDE DEF e, z, c, s, ms
  <2> QED  BY <1>2, <1>3, <1>5, <2>1
<1> HIDE DEF e, z, c, s
<1>8. Leads(l + s, k) /\ k \in Nat \ {0} /\ l + s \in Nat
  BY <1>2, <1>5, ScaleLeads
<1>9. IsNumber(Double, c, k)
  <2>1. md + 1 \in Nat /\ (l + s) + 1 \in Nat /\ Power(2, md + 1) = 2 * Power(2, md) /\ Power(2, md) \in Nat
    BY <1>1, <1>8, Twos, PowerSteps
  <2>2. (l + s) + 1 <= md + 1 /\ (c > 0 => Power(2, l + s) = Power(2, md))
    BY <1>1, <1>5, <1>8
  <2>3. /\ Power(2, (l + s) + 1) <= Power(2, md + 1) /\ Power(2, (l + s) + 1) \in Nat
        /\ Power(2, l + s) \in Nat
    BY <1>8, <2>1, <2>2, TwosGrow, Twos
  <2>4. Power(2, l + s) <= k /\ k < Power(2, (l + s) + 1)
    BY <1>8 DEF Leads
  <2> HIDE DEF k
  <2>5. k \in 0 .. 2 * Power(2, md) - 1 /\ (c > 0 => k >= Power(2, md))
    BY <1>8, <2>1, <2>2, <2>3, <2>4
  <2> QED  BY <1>5, <2>5 DEF IsNumber
<1>10. LastPlace(Double, Exactly(minus, n, 1, e)) = z
  <2> DEFINE low == Least(Double)
  <2>1. low \in Int /\ Least(Double) = low /\ md \in Nat /\ Double.frac = md
    BY <1>1
  <2> HIDE DEF low, md
  <2>2. LastPlace(Double, Exactly(minus, n, 1, e)) = IF low >= l + e - md THEN low ELSE l + e - md
    BY <1>2, <1>3, <2>1, LastPlaceIs
  <2> QED  BY <2>2 DEF z, low
<1>11. LastPlace(Single, Exactly(minus, k, 1, z)) = e
  <2> HIDE DEF k
  <2> DEFINE j == l + s
  <2>1. j \in Nat /\ Leads(j, k)
    BY <1>8
  <2>2. j + z - ms = l + e - ms
    BY <1>7
  <2> DEFINE low == Least(Single)
  <2>3. low \in Int /\ Least(Single) = low /\ ms \in Nat /\ Single.frac = ms
    BY <1>1
  <2> HIDE DEF j, low, ms
  <2>4. LastPlace(Single, Exactly(minus, k, 1, z)) = IF low >= j + z - ms THEN low ELSE j + z - ms
    BY <1>5, <1>8, <2>1, <2>3, LastPlaceIs
  <2> QED  BY <1>6, <2>2, <2>4 DEF low
<1> HIDE DEF k
<1>12. (Least(Double) + c) + s = e /\ c + 3 <= Power(2, Double.exp)
  BY <1>1, <1>5
<1> QED  BY <1>2, <1>5, <1>8, <1>9, <1>10, <1>11, <1>12 DEF e, k

LEMMA ZeroRounds ==
  ASSUME NEW f, NEW minus \in BOOLEAN, NEW e
  PROVE  Round(f, Exactly(minus, 0, 1, e)) = WithSign(f, minus, 0)
BY DEF Round, Exactly

LEMMA FiniteSurvives ==
  ASSUME NEW w \in Patterns(Single), Magnitude(Single, w) < Infinity(Single)
  PROVE  Narrow(Widen(w)) = w
<1> DEFINE minus == Minus(Single, w)
<1>1. PICK d, n \in Nat :
        /\ IsNumber(Single, d, n) /\ d + 3 <= Power(2, Single.exp)
        /\ Magnitude(Single, w) = d * Power(2, Single.frac) + n
        /\ Exact(Single, w) = Exactly(minus, n, 1, Least(Single) + d)
  BY Formats, ExactIs
<1>2. /\ Least(Single) \in Int /\ Least(Double) \in Int
      /\ Power(2, Single.frac) \in Nat \ {0} /\ Power(2, Double.frac) \in Nat \ {0}
      /\ Power(2, Double.exp) \in Nat /\ Power(2, Double.exp) >= 3
  <2>1. Single.frac \in Nat /\ Double.frac \in Nat /\ Least(Single) \in Int /\ Least(Double) \in Int
    BY Ranges
  <2>2. PICK t \in Nat \ {0} : t = Power(2, Double.exp) /\ t >= 4
    BY Formats, Weights
  <2> QED  BY <2>1, <2>2, Twos
<1>3. minus \in BOOLEAN /\ WithSign(Single, minus, Magnitude(Single, w)) = w
  BY Formats, SignsAre
<1>4. Infinity(Single) \in Int /\ Magnitude(Single, w) \in Int
  <2>1. PICK t, u \in Nat \ {0} : Infinity(Single) = (t - 1) * u
    BY Formats, Weights
  <2>2. SignWeight(Single) \in Nat \ {0} /\ Magnitude(Single, w) \in 0 .. SignWeight(Single) - 1
    BY Formats, SignsAre
  <2> QED  BY <2>1, <2>2
<1>5. Widen(w) = Round(Double, Exactly(minus, n, 1, Least(Single) + d))
  <2>1. ~IsNaN(Single, w) /\ ~IsInfinite(Single, w)
    BY <1>4 DEF IsNaN, IsInfinite
  <2> QED  BY <1>1, <2>1 DEF Widen, Convert
<1> HIDE DEF minus
<1>6. ASSUME NEW y \in Patterns(Double), Magnitude(Double, y) \in Nat,
             Magnitude(Double, y) < Infinity(Double)
      PROVE  Narrow(y) = Round(Single, Exact(Double, y))
  <2>1. Infinity(Double) \in Int
    <3>1. PICK t, u \in Nat \ {0} : Infinity(Double) = (t - 1) * u
      BY Formats, Weights
    <3> QED  BY <3>1
  <2>2. ~IsNaN(Double, y) /\ ~IsInfinite(Double, y)
    BY <1>6, <2>1 DEF IsNaN, IsInfinite
  <2> QED  BY <2>2 DEF Narrow, Convert
<1>7. CASE n = 0
  <2>1. d = 0
    BY <1>1, <1>2, <1>7 DEF IsNumber
  <2>2. IsNumber(Double, 0, 0) /\ 0 + 3 <= Power(2, Double.exp)
    BY <1>2 DEF IsNumber
  <2>3. 0 * Power(2, Double.frac) + 0 = 0 /\ 0 * Power(2, Single.frac) + 0 = 0
    BY <1>2
  <2> DEFINE y == WithSign(Double, minus, 0)
  <2>4. /\ y \in Patterns(Double) /\ Magnitude(Double, y) = 0 /\ 0 < Infinity(Double)
        /\ Exact(Double, y) = Exactly(minus, 0, 1, Least(Double) + 0)
    BY <1>3, <2>2, <2>3, Formats, ExactFrom
  <2>5. Widen(w) = y
    BY <1>3, <1>5, <1>7, ZeroRounds
  <2> HIDE DEF y
  <2>6. Narrow(y) = WithSign(Single, minus, 0)
    BY <1>3, <1>6, <2>4, ZeroRounds
  <2> QED  BY <1>1, <1>3, <1>7, <2>1, <2>3, <2>5, <2>6
<1>8. CASE n # 0
  <2> DEFINE e == Least(Single) + d
  <2>1. PICK l, c, s \in Nat, k \in Nat \ {0} :
          /\ Leads(l, n) /\ Leads(l + s, k) /\ k = n * Power(2, s)
          /\ (Least(Double) + c) + s = e
          /\ IsNumber(Double, c, k) /\ c + 3 <= Power(2, Double.exp)
          /\ LastPlace(Double, Exactly(minus, n, 1, e)) = Least(Double) + c
          /\ LastPlace(Single, Exactly(minus, k, 1, Least(Double) + c)) = e
    BY <1>1, <1>3, <1>8, Places
  <2> DEFINE z == Least(Double) + c
  <2>2. e \in Int /\ z \in Int /\ e >= z /\ e - z = s
    BY <1>2, <2>1
  <2>3. n \in Nat \ {0} /\ k \in Nat
    BY <1>8
  <2> DEFINE y == WithSign(Double, minus, c * Power(2, Double.frac) + k)
  <2>4. Widen(w) = y
    <3>1. (e >= z => k = n * Power(2, e - z)) /\ ~(e < z)
      BY <2>1, <2>2
    <3>2. Fits(Double, minus, n, e, c, k)
      BY <2>1, <3>1 DEF Fits
    <3> HIDE DEF e
    <3>3. Round(Double, Exactly(minus, n, 1, e)) = y
      BY <1>2, <1>3, <2>1, <2>2, <2>3, <3>2, Formats, RoundExact
    <3> QED  BY <1>5, <3>3 DEF e
  <2>5. /\ y \in Patterns(Double) /\ Magnitude(Double, y) \in Nat
        /\ Magnitude(Double, y) < Infinity(Double)
        /\ Exact(Double, y) = Exactly(minus, k, 1, z)
    BY <1>3, <2>1, <2>3, Formats, ExactFrom
  <2> HIDE DEF y
  <2>6. Fits(Single, minus, k, z, d, n)
    <3>1. CASE z = e
      <4>1. s = 0 /\ Power(2, s) = 1
        BY <2>2, <3>1, FirstTwos
      <4> QED  BY <2>1, <2>2, <2>3, <3>1, <4>1 DEF Fits
    <3>2. CASE z # e
      <4>1. ~(z >= e) /\ k = n * Power(2, e - z)
        BY <2>1, <2>2, <3>2
      <4> QED  BY <2>1, <4>1 DEF Fits
    <3> QED  BY <3>1, <3>2
  <2>7. Round(Single, Exactly(minus, k, 1, z)) = WithSign(Single, minus, d * Power(2, Single.frac) + n)
    <3> HIDE DEF z, e
    <3> QED  BY <1>1, <1>2, <1>3, <2>2, <2>6, Formats, RoundExact
  <2>8. Narrow(y) = WithSign(Single, minus, Magnitude(Single, w))
    BY <1>1, <1>6, <2>5, <2>7
  <2> QED  BY <1>3, <2>4, <2>8
<1> QED  BY <1>7, <1>8

(* An infinity is converted to an infinity. *)
LEMMA InfinitySurvives ==
  ASSUME NEW w \in Patterns(Single), Magnitude(Single, w) = Infinity(Single)
  PROVE  Narrow(Widen(w)) = w
<1> DEFINE minus == Minus(Single, w)
           y == WithSign(Double, minus, Infinity(Double))
<1>1. minus \in BOOLEAN /\ WithSign(Single, minus, Infinity(Single)) = w
  BY Formats, SignsAre
<1>2. \A f : IsFormat(f) => Infinity(f) \in 0 .. SignWeight(f) - 1
  <2> SUFFICES ASSUME NEW f, IsFormat(f) PROVE Infinity(f) \in 0 .. SignWeight(f) - 1
    OBVIOUS
  <2>1. PICK t, u \in Nat \ {0} : t >= 4 /\ SignWeight(f) = t * u /\ Infinity(f) = (t - 1) * u
    BY Weights
  <2>2. (t - 1) * u + u = t * u /\ (t - 1) * u \in Nat /\ t * u \in Nat
    BY <2>1
  <2> QED  BY <2>1, <2>2
<1>3. Infinity(Single) \in Int /\ Infinity(Double) \in Int
  BY <1>2, Formats, Weights
<1>4. Widen(w) = y
  BY <1>3 DEF Widen, Convert, IsNaN, IsInfinite
<1> HIDE DEF minus
<1>5. (Minus(Double, y) <=> minus) /\ Magnitude(Double, y) = Infinity(Double)
  BY <1>1, <1>2, Formats, SignedIs
<1>6. Minus(Double, y) = minus
  BY <1>1, <1>5 DEF Minus
<1> HIDE DEF y
<1>7. Narrow(y) = WithSign(Single, minus, Infinity(Single))
  BY <1>3, <1>5, <1>6 DEF Narrow, Convert, IsNaN, IsInfinite
<1> QED  BY <1>1, <1>4, <1>7

(* A quiet NaN is the default one and a payload below the quiet bit. *)
LEMMA QuietIs ==
  ASSUME NEW f, IsFormat(f), NEW x \in Patterns(f), IsNaN(f, x), ~IsSignalling(f, x)
  PROVE  /\ x % QuietBit(f) \in 0 .. QuietBit(f) - 1
         /\ Magnitude(f, x) = QuietNaN(f) + (x % QuietBit(f))
<1> DEFINE m == Magnitude(f, x)
           w == SignWeight(f)
           p == x % QuietBit(f)
           e == x \div QuietBit(f)
<1>1. PICK t, u, q \in Nat \ {0} :
        /\ u = Power(2, f.frac) /\ q = QuietBit(f) /\ u = 2 * q /\ t >= 4
        /\ w = t * u /\ Infinity(f) = (t - 1) * u
  BY Weights
<1>2. w \in Nat \ {0} /\ m \in 0 .. w - 1 /\ x = m + (IF Minus(f, x) THEN w ELSE 0) /\ x \in Int
  <2>1. w \in Nat \ {0} /\ m \in 0 .. w - 1 /\ x = m + (IF Minus(f, x) THEN w ELSE 0)
    BY SignsAre DEF WithSign
  <2>2. x \in Int
    BY <2>1 DEF Patterns
  <2> QED  BY <2>1, <2>2
<1>3. m > (t - 1) * u /\ e % 2 # 0
  <2>1. m > (t - 1) * u
    BY <1>1 DEF IsNaN
  <2>2. ~((x \div QuietBit(f)) % 2 = 0)
    BY DEF IsSignalling
  <2> QED  BY <2>1, <2>2
<1>4. x = q * e + p /\ p \in 0 .. q - 1 /\ e \in Int
  BY <1>1, <1>2, Division
<1>5. QuietNaN(f) = (t - 1) * u + q
  BY <1>1 DEF QuietNaN
<1> HIDE DEF m, w, p, e
<1>6. PICK a \in Int : e = 2 * a + 1
  <2>1. 2 \in Nat \ {0} /\ e \in Int
    BY <1>4
  <2>2. e = 2 * (e \div 2) + (e % 2) /\ e % 2 \in 0 .. 2 - 1 /\ e \div 2 \in Int
    BY <2>1, Division
  <2> QED  BY <1>3, <2>2
<1>7. x = u * a + (q + p) /\ q + p \in 0 .. u - 1
  <2>1. q * (2 * a + 1) = (2 * q) * a + q
    BY <1>1, <1>6
  <2> QED  BY <1>1, <1>4, <1>6, <2>1
(* m and u * b + q + p lie in the topmost u. *)
<1>8. \E b \in Int : m = u * b + (q + p)
  <2>1. CASE Minus(f, x)
    <3>1. x = m + t * u
      BY <1>1, <1>2, <2>1
    <3>2. u * a = u * (a - t) + t * u /\ a - t \in Int /\ u * (a - t) \in Int /\ t * u \in Int
      BY <1>1, <1>6
    <3>3. m \in Int /\ q + p \in Int
      BY <1>1, <1>2, <1>4
    <3>4. m = u * (a - t) + (q + p)
      BY <1>7, <3>1, <3>2, <3>3
    <3> QED  BY <3>2, <3>4
  <2>2. CASE ~Minus(f, x)
    <3>1. x = m
      BY <1>2, <2>2
    <3> QED  BY <1>6, <1>7, <3>1
  <2> QED  BY <2>1, <2>2
<1>9. PICK b \in Int : m = u * b + (q + p)
  BY <1>8
<1>10. b = t - 1
  <2>1. ASSUME b <= t - 2 PROVE FALSE
    <3>1. u * b <= u * (t - 2)
      BY <1>1, <2>1
    <3>2. u * (t - 2) + u = (t - 1) * u /\ u * (t - 2) \in Int /\ u * b \in Int /\ (t - 1) * u \in Int
      BY <1>1
    <3> QED  BY <1>1, <1>2, <1>3, <1>7, <1>9, <3>1, <3>2
  <2>2. ASSUME b >= t PROVE FALSE
    <3>1. u * b >= u * t /\ u * t = t * u /\ u * b \in Int /\ u * t \in Int
      BY <1>1, <2>2
    <3> QED  BY <1>1, <1>2, <1>7, <1>9, <3>1
  <2> QED  BY <1>1, <2>1, <2>2
<1>11. m = ((t - 1) * u + q) + p
  <2>1. u * (t - 1) = (t - 1) * u /\ (t - 1) * u \in Int
    BY <1>1
  <2>2. m = (t - 1) * u + (q + p)
    BY <1>9, <1>10, <2>1
  <2> QED  BY <1>1, <1>4, <2>1, <2>2
<1> QED  BY <1>1, <1>4, <1>5, <1>11 DEF m, p

(* A quiet NaN keeps its payload in a double, above zeros. *)
LEMMA QuietSurvives ==
  ASSUME NEW w \in Patterns(Single), IsNaN(Single, w), ~IsSignalling(Single, w)
  PROVE  Narrow(Widen(w)) = w
<1> DEFINE minus == Minus(Single, w)
           p == w % QuietBit(Single)
           r == Power(2, Double.frac - Single.frac)
           q == QuietBit(Double)
           m == QuietNaN(Double) + p * r
           y == WithSign(Double, minus, m)
<1>1. minus \in BOOLEAN /\ WithSign(Single, minus, Magnitude(Single, w)) = w
  BY Formats, SignsAre
<1>2. p \in 0 .. QuietBit(Single) - 1 /\ Magnitude(Single, w) = QuietNaN(Single) + p
  BY Formats, QuietIs
<1>3. /\ Single.frac \in Nat /\ Double.frac \in Nat /\ Single.frac - 1 \in Nat
      /\ Double.frac - Single.frac \in Nat /\ Single.frac <= Double.frac /\ ~(Double.frac <= Single.frac)
      /\ Double.frac - 1 \in Nat /\ Double.frac - 1 = (Single.frac - 1) + (Double.frac - Single.frac)
  BY Formats DEF IsFormat
<1>4. QuietBit(Double) = QuietBit(Single) * r
  BY <1>3, TwosAdd DEF QuietBit
<1>5. r \in Nat \ {0} /\ QuietBit(Single) \in Nat \ {0}
  BY <1>3, Twos DEF QuietBit
<1>6. Widen(w) = y
  BY <1>3 DEF Widen, Convert, Payload
<1>7. PICK t, u \in Nat \ {0} :
        /\ t >= 4 /\ u = 2 * q /\ q \in Nat \ {0} /\ SignWeight(Double) = t * u /\ Infinity(Double) = (t - 1) * u
  <2>1. PICK t, u, v \in Nat \ {0} :
          /\ t >= 4 /\ u = 2 * v /\ v = q /\ SignWeight(Double) = t * u /\ Infinity(Double) = (t - 1) * u
    BY Formats, Weights
  <2> QED  BY <2>1
<1>8. QuietNaN(Double) = (t - 1) * u + q
  BY <1>7 DEF QuietNaN
<1> HIDE DEF p, r, minus, q
<1>9. p * r \in 0 .. q - 1
  <2>1. p + 1 <= QuietBit(Single) /\ p \in Nat
    BY <1>2, <1>5
  <2>2. (p + 1) * r <= QuietBit(Single) * r
    BY <1>5, <2>1
  <2>3. (p + 1) * r = p * r + r /\ p * r \in Nat
    BY <1>5, <2>1
  <2>4. p * r + r <= q
    BY <1>4, <2>2, <2>3 DEF q
  <2> QED  BY <1>5, <1>7, <2>3, <2>4
<1>10. m \in 0 .. SignWeight(Double) - 1 /\ m > Infinity(Double) /\ m = u * (t - 1) + (q + p * r)
  <2> DEFINE s == p * r
             i == (t - 1) * u
  <2>1. i + u = t * u /\ i \in Nat /\ t * u \in Nat /\ u * (t - 1) = i
    BY <1>7
  <2>2. m = (i + q) + s /\ s \in 0 .. q - 1
    BY <1>8, <1>9
  <2> HIDE DEF m, s, i
  <2>3. m \in 0 .. (t * u) - 1 /\ m > i /\ m = i + (q + s)
    BY <1>7, <2>1, <2>2
  <2> QED  BY <1>7, <2>1, <2>3 DEF s, i
<1> HIDE DEF m
<1>11. y \in Patterns(Double) /\ (Minus(Double, y) <=> minus) /\ Magnitude(Double, y) = m
  BY <1>1, <1>10, Formats, SignedIs
<1>12. Minus(Double, y) = minus
  BY <1>1, <1>11 DEF Minus
<1> HIDE DEF y
<1>13. y % q = p * r
  <2>1. y % Power(2, Double.frac - 1) = m % Power(2, Double.frac - 1)
    <3>1. Double.frac - 1 <= Double.exp + Double.frac
      BY Formats DEF IsFormat
    <3> QED  BY <1>3, <1>11, <3>1, Formats, LowBits
  <2> DEFINE a == 2 * (t - 1) + 1
             s == p * r
  <2>2. m = q * a + s /\ a \in Int /\ m \in Int
    <3>1. u * (t - 1) = (2 * q) * (t - 1) /\ (2 * q) * (t - 1) + q = q * (2 * (t - 1) + 1)
      BY <1>7
    <3>2. (2 * q) * (t - 1) \in Int /\ s \in Int
      BY <1>7, <1>9
    <3>3. u * (t - 1) + (q + s) = q * a + s
      <4> HIDE DEF s
      <4> QED  BY <1>7, <3>1, <3>2
    <3> QED  BY <1>7, <1>10, <3>3
  <2>3. s \in 0 .. q - 1
    BY <1>9
  <2> HIDE DEF a, s
  <2>4. m % q = s
    BY <1>7, <2>2, <2>3, Remains
  <2> QED  BY <2>1, <2>4 DEF q, QuietBit, s
<1>14. (p * r) \div r = p
  <2>1. p * r = r * p + 0 /\ p * r \in Int /\ p \in Int
    BY <1>2, <1>5
  <2> DEFINE x == p * r
             z == 0
  <2>2. x = r * p + z /\ z \in 0 .. r - 1 /\ x \in Int /\ p \in Int
    BY <1>5, <2>1
  <2> HIDE DEF x, z
  <2>3. x \div r = p
    BY <1>5, <2>2, Remains
  <2> QED  BY <2>3 DEF x
<1>15. Narrow(y) = WithSign(Single, minus, QuietNaN(Single) + p)
  <2>1. IsNaN(Double, y)
    BY <1>10, <1>11 DEF IsNaN
  <2>2. Payload(Double, Single, y) = p
    BY <1>3, <1>13, <1>14 DEF Payload, q, r
  <2> QED  BY <1>12, <2>1, <2>2 DEF Narrow, Convert
<1> QED  BY <1>1, <1>2, <1>6, <1>15 DEF p

(* Of every float but a signalling NaN, for formats of any width. *)
LEMMA FloatSurvives ==
  ASSUME NEW w \in Patterns(Single), ~IsSignalling(Single, w)
  PROVE  Narrow(Widen(w)) = w
<1>1. Magnitude(Single, w) \in Int /\ Infinity(Single) \in Int
  <2>1. PICK t, u \in Nat \ {0} : Infinity(Single) = (t - 1) * u
    BY Formats, Weights
  <2>2. SignWeight(Single) \in Nat \ {0} /\ Magnitude(Single, w) \in 0 .. SignWeight(Single) - 1
    BY Formats, SignsAre
  <2> QED  BY <2>1, <2>2
<1>2. CASE Magnitude(Single, w) < Infinity(Single)
  BY <1>2, FiniteSurvives
<1>3. CASE Magnitude(Single, w) = Infinity(Single)
  BY <1>3, InfinitySurvives
<1>4. CASE Magnitude(Single, w) > Infinity(Single)
  BY <1>4, QuietSurvives DEF IsNaN
<1> QED  BY <1>1, <1>2, <1>3, <1>4

-----------------------------------------------------------------------------
(* Types: what arithmetic makes of patterns is a pattern. *)

IsExact(v) == v.minus \in BOOLEAN /\ v.num \in Nat /\ v.den \in Nat \ {0} /\ v.exp \in Int

LEMMA Bounds ==
  ASSUME NEW f, IsFormat(f)
  PROVE  /\ Least(f) \in Int /\ Power(2, f.frac) \in Nat \ {0}
         /\ SignWeight(f) \in Nat \ {0} /\ Infinity(f) \in Nat \ {0} /\ Infinity(f) < SignWeight(f)
         /\ QuietBit(f) \in Nat \ {0} /\ QuietNaN(f) \in Nat /\ QuietNaN(f) > Infinity(f)
         /\ QuietNaN(f) + QuietBit(f) = SignWeight(f)
<1>1. PICK t, u, q \in Nat \ {0} :
        /\ u = Power(2, f.frac) /\ q = QuietBit(f) /\ u = 2 * q /\ t >= 4
        /\ SignWeight(f) = t * u /\ Infinity(f) = (t - 1) * u
        /\ \E h \in Nat \ {0} : Least(f) = 2 - h - f.frac
  BY Weights
<1>2. Least(f) \in Int
  BY <1>1 DEF IsFormat
<1>3. QuietNaN(f) = (t - 1) * u + q
  BY <1>1 DEF QuietNaN
<1> DEFINE i == (t - 1) * u
<1>4. i + u = t * u /\ i \in Nat \ {0} /\ t * u \in Nat
  BY <1>1
<1> HIDE DEF i
<1>5. /\ i < t * u /\ i + q \in Nat /\ i + q > i /\ (i + q) + q = t * u /\ t * u \in Nat \ {0}
  BY <1>1, <1>4
<1> QED  BY <1>1, <1>2, <1>3, <1>4, <1>5 DEF i

LEMMA PatternTyped ==
  ASSUME NEW f, IsFormat(f), NEW x \in Patterns(f)
  PROVE  /\ x \in Nat /\ Magnitude(f, x) \in Nat /\ Minus(f, x) \in BOOLEAN
         /\ Negated(f, x) \in Patterns(f)
         /\ Magnitude(f, Negated(f, x)) = Magnitude(f, x) /\ Minus(f, Negated(f, x)) = ~Minus(f, x)
<1>1. /\ Magnitude(f, x) \in 0 .. SignWeight(f) - 1 /\ SignWeight(f) \in Nat \ {0}
      /\ Minus(f, x) \in BOOLEAN
  BY SignsAre
<1>2. x \in Nat /\ Magnitude(f, x) \in Nat
  BY <1>1 DEF Patterns
<1>3. /\ Negated(f, x) \in Patterns(f) /\ (Minus(f, Negated(f, x)) <=> ~Minus(f, x))
      /\ Magnitude(f, Negated(f, x)) = Magnitude(f, x)
  BY <1>1, SignedIs DEF Negated
<1> QED  BY <1>1, <1>2, <1>3 DEF Minus

LEMMA SignedTyped ==
  ASSUME NEW f, IsFormat(f), NEW minus \in BOOLEAN, NEW m \in Nat, m <= Infinity(f)
  PROVE  WithSign(f, minus, m) \in Patterns(f)
<1>1. m \in 0 .. SignWeight(f) - 1
  BY Bounds
<1> QED  BY <1>1, SignedIs

LEMMA ExactTyped ==
  ASSUME NEW f, IsFormat(f), NEW x \in Patterns(f)
  PROVE  IsExact(Exact(f, x))
<1> DEFINE u == Power(2, f.frac)
           m == Magnitude(f, x)
           e == m \div u
           r == x % u
           low == Least(f)
<1>1. u \in Nat \ {0} /\ x \in Nat /\ m \in Nat /\ Minus(f, x) \in BOOLEAN /\ low \in Int
  BY PatternTyped, Bounds
<1>2. Exact(f, x) = IF e = 0 THEN Exactly(Minus(f, x), r, 1, low)
                             ELSE Exactly(Minus(f, x), r + u, 1, low + e - 1)
  BY DEF Exact
<1> HIDE DEF u, m, low
<1>3. e \in Int /\ r \in Nat
  <2>1. m \in Int /\ x \in Int
    BY <1>1
  <2>2. m \div u \in Int /\ x % u \in 0 .. u - 1
    BY <1>1, <2>1, Division
  <2> QED  BY <1>1, <2>2
<1> HIDE DEF e, r
<1>4. r + u \in Nat /\ low + e - 1 \in Int /\ 1 \in Nat \ {0}
  BY <1>1, <1>3
<1> QED  BY <1>1, <1>2, <1>3, <1>4 DEF IsExact, Exactly

LEMMA NumeratorTyped ==
  ASSUME NEW v, IsExact(v), NEW e \in Int, e <= v.exp
  PROVE  Numerator(v, e) \in Int
<1>1. v.exp - e \in Nat /\ v.num \in Int /\ -v.num \in Int
  BY DEF IsExact
<1>2. Power(2, v.exp - e) \in Int
  BY <1>1, Twos
<1> QED  BY <1>1, <1>2 DEF Numerator

LEMMA SumTyped ==
  ASSUME NEW v, IsExact(v), NEW w, IsExact(w)
  PROVE  IsExact(Sum(v, w))
<1> DEFINE e == Min({v.exp, w.exp})
           n == Numerator(v, e) + Numerator(w, e)
           sign == IF n = 0 THEN v.minus /\ w.minus ELSE n < 0
           size == IF n < 0 THEN -n ELSE n
<1>1. e \in Int /\ e <= v.exp /\ e <= w.exp
  <2>1. v.exp \in Int /\ w.exp \in Int
    BY DEF IsExact
  <2>2. e = IF v.exp <= w.exp THEN v.exp ELSE w.exp
    BY <2>1, Extremes
  <2> HIDE DEF e
  <2> QED  BY <2>1, <2>2
<1>2. Sum(v, w) = IF v.num = 0 /\ w.num > 0 THEN w
                  ELSE IF v.num > 0 /\ w.num = 0 THEN v ELSE Exactly(sign, size, 1, e)
  BY DEF Sum
<1> HIDE DEF e
<1>3. n \in Int
  BY <1>1, NumeratorTyped
<1> HIDE DEF n
<1>4. size \in Nat /\ 1 \in Nat \ {0}
  BY <1>3
<1>5. sign \in BOOLEAN
  <2>1. CASE n = 0
    <3>1. sign = (v.minus /\ w.minus)
      BY <2>1
    <3> QED  BY <3>1
  <2>2. CASE n # 0
    <3>1. CASE n < 0
      <4>1. sign = TRUE
        BY <2>2, <3>1
      <4> QED  BY <4>1
    <3>2. CASE ~(n < 0)
      <4>1. sign = FALSE
        BY <2>2, <3>2
      <4> QED  BY <4>1
    <3> QED  BY <3>1, <3>2
  <2> QED  BY <2>1, <2>2
<1> HIDE DEF size, sign
<1>6. IsExact(Exactly(sign, size, 1, e))
  BY <1>1, <1>4, <1>5 DEF IsExact, Exactly
<1> QED  BY <1>2, <1>6

LEMMA ProductTyped ==
  ASSUME NEW v, IsExact(v), NEW w, IsExact(w)
  PROVE  /\ IsExact(Product(v, w))
         /\ w.num # 0 => IsExact(Ratio(v, w))
<1> DEFINE sign == v.minus # w.minus
<1>1. sign \in BOOLEAN
  OBVIOUS
<1> HIDE DEF sign
<1>2. /\ v.num * w.num \in Nat /\ v.exp + w.exp \in Int /\ v.exp - w.exp \in Int /\ v.num \in Nat
      /\ w.num # 0 => w.num \in Nat \ {0}
      /\ 1 \in Nat \ {0}
  BY DEF IsExact
<1>3. IsExact(Exactly(sign, v.num * w.num, 1, v.exp + w.exp))
  BY <1>1, <1>2 DEF IsExact, Exactly
<1>4. w.num # 0 => IsExact(Exactly(sign, v.num, w.num, v.exp - w.exp))
  BY <1>1, <1>2 DEF IsExact, Exactly
<1> QED  BY <1>3, <1>4 DEF Product, Ratio, sign

LEMMA NearestTyped ==
  ASSUME NEW n \in Nat, NEW d \in Nat \ {0}
  PROVE  /\ NearestEven(n, d) \in Nat
         /\ NearestEven(n, d) \in {n \div d, n \div d + 1}
<1>1. n \in Int /\ n = d * (n \div d) + (n % d) /\ n % d \in 0 .. d - 1 /\ n \div d \in Int
  BY Division
<1> DEFINE a == n \div d
<1>2. NearestEven(n, d) = a \/ NearestEven(n, d) = a + 1
  <2>1. NearestEven(n, d) = a + 1 \/ NearestEven(n, d) = a + 0
    BY DEF NearestEven
  <2>2. a + 0 = a
    BY <1>1
  <2> QED  BY <2>1, <2>2
<1> HIDE DEF a
<1>3. a >= 0
  <2>1. SUFFICES ASSUME a <= -1 PROVE FALSE
    BY <1>1 DEF a
  <2>2. d * a <= d * (-1)
    BY <1>1, <2>1 DEF a
  <2> QED  BY <1>1, <2>1, <2>2 DEF a
<1> QED  BY <1>1, <1>2, <1>3 DEF a

LEMMA LogTyped ==
  ASSUME NEW v, IsExact(v), v.num # 0
  PROVE  Log(v) \in Int
<1>1. v.num \in Nat \ {0} /\ v.den \in Nat \ {0}
  BY DEF IsExact
<1>2. \A n \in Nat : Log2(n) \in Int
  <2> SUFFICES ASSUME NEW n \in Nat PROVE Log2(n) \in Int
    OBVIOUS
  <2>1. CASE n = 0
    <3>1. PICK p : IsLogs(p, 0) /\ Log2(0) = p[0]
      <4>1. \E p : IsLogs(p, 0)
        BY LogsExist
      <4> QED  BY <4>1 DEF Log2, IsLogs
    <3>2. p[0] = 0
      BY <3>1 DEF IsLogs
    <3> QED  BY <2>1, <3>1, <3>2
  <2>2. CASE n # 0
    BY <2>2, Log2Leads DEF Leads
  <2> QED  BY <2>1, <2>2
<1>3. \A a \in Nat, b \in Nat \ {0} : a \div b \in Nat
  OBVIOUS
<1>4. v.num \div v.den \in Nat /\ (v.den - 1) \div v.num \in Nat
  <2>1. v.den - 1 \in Nat /\ v.num \in Nat
    BY <1>1
  <2> QED  BY <1>1, <1>3, <2>1
<1>5. Log2(v.num \div v.den) \in Int /\ Log2((v.den - 1) \div v.num) \in Int
  BY <1>2, <1>4
<1>6. -1 - Log2((v.den - 1) \div v.num) \in Int
  BY <1>5
<1> QED  BY <1>5, <1>6 DEF Log

LEMMA LastPlaceTyped ==
  ASSUME NEW f, IsFormat(f), NEW v, IsExact(v), v.num # 0
  PROVE  LastPlace(f, v) \in Int /\ LastPlace(f, v) >= Least(f)
<1> DEFINE a == Least(f)
           b == Log(v) + v.exp - f.frac
<1>1. a \in Int /\ b \in Int
  <2>1. Log(v) \in Int /\ v.exp \in Int /\ f.frac \in Int /\ Least(f) \in Int
    BY LogTyped, Bounds DEF IsExact, IsFormat
  <2> QED  BY <2>1
<1>2. LastPlace(f, v) = Max({a, b})
  BY DEF LastPlace
<1> HIDE DEF a, b
<1>3. LastPlace(f, v) = IF a >= b THEN a ELSE b
  BY <1>1, <1>2, Extremes
<1>4. LastPlace(f, v) \in Int /\ LastPlace(f, v) >= a
  BY <1>1, <1>3
<1> QED  BY <1>4 DEF a

LEMMA RoundIs ==
  ASSUME NEW f, IsFormat(f), NEW v, IsExact(v)
  PROVE  \E m \in Nat : m <= Infinity(f) /\ Round(f, v) = WithSign(f, v.minus, m)
<1> DEFINE last == LastPlace(f, v)
           shift == v.exp - last
           k == IF shift >= 0 THEN NearestEven(v.num * Power(2, shift), v.den)
                              ELSE NearestEven(v.num, v.den * Power(2, -shift))
           u == Power(2, f.frac)
           inf == Infinity(f)
           m == (last - Least(f)) * u + k
<1>1. Round(f, v) = WithSign(f, v.minus, IF v.num = 0 THEN 0 ELSE Min({inf, m}))
  BY DEF Round
<1>2. v.minus \in BOOLEAN /\ inf \in Nat /\ u \in Nat \ {0} /\ Least(f) \in Int
  BY Bounds DEF IsExact
<1>3. CASE v.num = 0
  <2>1. 0 \in Nat /\ 0 <= inf
    BY <1>2
  <2> QED  BY <1>1, <1>3, <2>1 DEF inf
<1>4. CASE v.num # 0
  <2>1. last \in Int /\ last >= Least(f)
    BY <1>4, LastPlaceTyped
  <2> HIDE DEF last
  <2>2. shift \in Int /\ v.num \in Nat /\ v.den \in Nat \ {0}
    BY <2>1 DEF IsExact
  <2> HIDE DEF shift
  <2>3. k \in Nat
    <3>1. CASE shift >= 0
      <4>1. shift \in Nat
        BY <2>2, <3>1
      <4>2. Power(2, shift) \in Nat
        BY <4>1, Twos
      <4>3. v.num * Power(2, shift) \in Nat
        BY <2>2, <4>2
      <4> QED  BY <2>2, <3>1, <4>3, NearestTyped
    <3>2. CASE ~(shift >= 0)
      <4>1. -shift \in Nat
        BY <2>2, <3>2
      <4>2. Power(2, -shift) \in Nat \ {0}
        BY <4>1, Twos
      <4>3. v.den * Power(2, -shift) \in Nat \ {0}
        BY <2>2, <4>2
      <4> QED  BY <2>2, <3>2, <4>3, NearestTyped
    <3> QED  BY <3>1, <3>2
  <2> HIDE DEF k
  <2>4. m \in Nat
    <3>1. last - Least(f) \in Nat
      BY <1>2, <2>1
    <3>2. (last - Least(f)) * u \in Nat
      BY <1>2, <3>1
    <3> QED  BY <2>3, <3>2
  <2> HIDE DEF m, inf
  <2>5. Min({inf, m}) = IF inf <= m THEN inf ELSE m
    <3>1. inf \in Int /\ m \in Int
      BY <1>2, <2>4
    <3> QED  BY <3>1, Extremes
  <2>6. Min({inf, m}) \in Nat /\ Min({inf, m}) <= inf
    BY <1>2, <2>4, <2>5
  <2> QED  BY <1>1, <1>4, <2>6 DEF inf
<1> QED  BY <1>3, <1>4

LEMMA RoundTyped ==
  ASSUME NEW f, IsFormat(f), NEW v, IsExact(v)
  PROVE  Round(f, v) \in Patterns(f)
<1>1. v.minus \in BOOLEAN
  BY DEF IsExact
<1> QED  BY <1>1, RoundIs, SignedTyped

LEMMA AddTyped ==
  ASSUME NEW f, IsFormat(f), NEW x \in Patterns(f), NEW y \in Patterns(f)
  PROVE  Add(f, x, y) \in Patterns(f) /\ Subtract(f, x, y) \in Patterns(f) /\ QuietNaN(f) \in Patterns(f)
<1>1. QuietNaN(f) \in Patterns(f)
  BY Bounds DEF Patterns
<1>2. \A z \in Patterns(f) : Add(f, x, z) \in Patterns(f)
  <2> SUFFICES ASSUME NEW z \in Patterns(f) PROVE Add(f, x, z) \in Patterns(f)
    OBVIOUS
  <2>1. Round(f, Sum(Exact(f, x), Exact(f, z))) \in Patterns(f)
    BY ExactTyped, SumTyped, RoundTyped
  <2> QED  BY <1>1, <2>1 DEF Add
<1>3. Negated(f, y) \in Patterns(f)
  BY PatternTyped
<1> QED  BY <1>1, <1>2, <1>3 DEF Subtract

LEMMA MultiplyTyped ==
  ASSUME NEW f, IsFormat(f), NEW x \in Patterns(f), NEW y \in Patterns(f)
  PROVE  Multiply(f, x, y) \in Patterns(f)
<1>1. QuietNaN(f) \in Patterns(f)
  BY AddTyped
<1>2. Round(f, Product(Exact(f, x), Exact(f, y))) \in Patterns(f)
  BY ExactTyped, ProductTyped, RoundTyped
<1>3. WithSign(f, Minus(f, x) # Minus(f, y), Infinity(f)) \in Patterns(f)
  <2>1. (Minus(f, x) # Minus(f, y)) \in BOOLEAN /\ Infinity(f) \in Nat /\ Infinity(f) <= Infinity(f)
    BY Bounds
  <2> QED  BY <2>1, SignedTyped
<1> QED  BY <1>1, <1>2, <1>3 DEF Multiply

(* A pattern that is not zero is no zero. *)
LEMMA NotZero ==
  ASSUME NEW f, IsFormat(f), NEW x \in Patterns(f), ~IsZero(f, x)
  PROVE  Exact(f, x).num # 0
<1> DEFINE u == Power(2, f.frac)
           m == Magnitude(f, x)
           e == m \div u
<1>1. u \in Nat \ {0} /\ x \in Nat /\ m \in Nat /\ m # 0
  BY PatternTyped, Bounds DEF IsZero
<1>2. x % u = m % u
  <2>1. f.frac \in Nat /\ f.frac <= f.exp + f.frac
    BY DEF IsFormat
  <2> QED  BY <2>1, LowBits
<1>3. Exact(f, x).num = IF e = 0 THEN m % u ELSE (m % u) + u
  BY <1>2 DEF Exact, Exactly
<1> HIDE DEF u, m
<1>4. m = u * e + (m % u) /\ m % u \in 0 .. u - 1 /\ e \in Int
  <2>1. m \in Int
    BY <1>1
  <2> QED  BY <1>1, <2>1, Division
<1> DEFINE r == m % u
<1> HIDE DEF e, r
<1>5. CASE e = 0
  <2>1. m = r
    BY <1>1, <1>4, <1>5 DEF r
  <2> QED  BY <1>1, <1>3, <1>5, <2>1 DEF r
<1>6. CASE e # 0
  <2>1. r + u # 0
    BY <1>1, <1>4 DEF r
  <2> QED  BY <1>3, <1>6, <2>1 DEF r
<1> QED  BY <1>5, <1>6

LEMMA DivideTyped ==
  ASSUME NEW f, IsFormat(f), NEW x \in Patterns(f), NEW y \in Patterns(f)
  PROVE  Divide(f, x, y) \in Patterns(f)
<1>1. QuietNaN(f) \in Patterns(f)
  BY AddTyped
<1>2. ~IsZero(f, y) => Round(f, Ratio(Exact(f, x), Exact(f, y))) \in Patterns(f)
  BY ExactTyped, NotZero, ProductTyped, RoundTyped
<1>3. /\ WithSign(f, Minus(f, x) # Minus(f, y), Infinity(f)) \in Patterns(f)
      /\ WithSign(f, Minus(f, x) # Minus(f, y), 0) \in Patterns(f)
  <2>1. /\ (Minus(f, x) # Minus(f, y)) \in BOOLEAN /\ Infinity(f) \in Nat /\ Infinity(f) <= Infinity(f)
        /\ 0 \in Nat /\ 0 <= Infinity(f)
    BY Bounds
  <2> QED  BY <2>1, SignedTyped
<1> QED  BY <1>1, <1>2, <1>3 DEF Divide

LEMMA MultiplyAddTyped ==
  ASSUME NEW f, IsFormat(f), NEW fused \in BOOLEAN,
         NEW x \in Patterns(f), NEW y \in Patterns(f), NEW z \in Patterns(f)
  PROVE  MultiplyAdd(f, fused, x, y, z) \in Patterns(f)
<1>1. Add(f, Multiply(f, x, y), z) \in Patterns(f)
  BY MultiplyTyped, AddTyped
<1>2. Round(f, Sum(Product(Exact(f, x), Exact(f, y)), Exact(f, z))) \in Patterns(f)
  BY ExactTyped, ProductTyped, SumTyped, RoundTyped
<1> QED  BY <1>1, <1>2 DEF MultiplyAdd

(* What is left of a payload stays below the quiet bit. *)
LEMMA ConvertTyped ==
  ASSUME NEW from, IsFormat(from), NEW to, IsFormat(to), NEW x \in Patterns(from)
  PROVE  Convert(from, to, x) \in Patterns(to)
<1> DEFINE p == x % QuietBit(from)
           q == QuietBit(from)
           r == QuietBit(to)
<1>1. Minus(from, x) \in BOOLEAN /\ x \in Int /\ q \in Nat \ {0} /\ r \in Nat \ {0}
  BY PatternTyped, Bounds
<1>2. p \in 0 .. q - 1
  BY <1>1, Division
<1>3. Payload(from, to, x) \in 0 .. r - 1
  <2>1. from.frac \in Nat /\ to.frac \in Nat /\ from.frac - 1 \in Nat /\ to.frac - 1 \in Nat
    BY DEF IsFormat
  <2>2. CASE from.frac <= to.frac
    <3> DEFINE s == Power(2, to.frac - from.frac)
    <3>1. to.frac - from.frac \in Nat /\ to.frac - 1 = (from.frac - 1) + (to.frac - from.frac)
      BY <2>1, <2>2
    <3>2. r = q * s /\ s \in Nat \ {0}
      BY <2>1, <3>1, TwosAdd, Twos DEF QuietBit
    <3>3. Payload(from, to, x) = p * s
      BY <2>2 DEF Payload
    <3> HIDE DEF p, q, r, s
    <3>4. (p + 1) * s <= q * s /\ (p + 1) * s = p * s + s /\ p * s \in Nat
      BY <1>1, <1>2, <3>2
    <3> QED  BY <1>1, <3>2, <3>3, <3>4 DEF r
  <2>3. CASE ~(from.frac <= to.frac)
    <3> DEFINE s == Power(2, from.frac - to.frac)
               d == p \div s
               e == p % s
    <3>1. from.frac - to.frac \in Nat /\ from.frac - 1 = (to.frac - 1) + (from.frac - to.frac)
      BY <2>1, <2>3
    <3>2. q = r * s /\ s \in Nat \ {0}
      BY <2>1, <3>1, TwosAdd, Twos DEF QuietBit
    <3>3. Payload(from, to, x) = d
      BY <2>3 DEF Payload
    <3> HIDE DEF p, q, r, s
    <3>4. p \in Int /\ p = s * d + e /\ e \in 0 .. s - 1 /\ d \in Int
      BY <1>2, <3>2, Division
    <3> HIDE DEF d, e
    <3>5. ASSUME d >= r PROVE FALSE
      <4>1. s * d >= s * r /\ s * r = q /\ s * d \in Int
        BY <1>1, <3>2, <3>4, <3>5
      <4> QED  BY <1>1, <1>2, <3>4, <4>1
    <3>6. ASSUME d <= -1 PROVE FALSE
      <4>1. s * d <= s * (-1) /\ s * d \in Int
        BY <3>2, <3>4, <3>6
      <4> QED  BY <1>2, <3>2, <3>4, <4>1
    <3> QED  BY <1>1, <3>3, <3>4, <3>5, <3>6 DEF r
  <2> QED  BY <2>2, <2>3
<1> HIDE DEF r
<1>4. QuietNaN(to) + Payload(from, to, x) \in 0 .. SignWeight(to) - 1
  BY <1>1, <1>3, Bounds DEF r
<1>5. WithSign(to, Minus(from, x), QuietNaN(to) + Payload(from, to, x)) \in Patterns(to)
  BY <1>1, <1>4, SignedIs
<1>6. WithSign(to, Minus(from, x), Infinity(to)) \in Patterns(to)
  <2>1. Infinity(to) \in Nat /\ Infinity(to) <= Infinity(to)
    BY Bounds
  <2> QED  BY <1>1, <2>1, SignedTyped
<1>7. Round(to, Exact(from, x)) \in Patterns(to)
  BY ExactTyped, RoundTyped
<1> QED  BY <1>5, <1>6, <1>7 DEF Convert

LEMMA FromNatTyped ==
  ASSUME NEW f, IsFormat(f), NEW n \in Nat
  PROVE  FromNat(f, n) \in Patterns(f)
<1>1. IsExact(Exactly(FALSE, n, 1, 0))
  BY DEF IsExact, Exactly
<1> QED  BY <1>1, RoundTyped DEF FromNat

LEMMA WholeTyped ==
  ASSUME NEW f, IsFormat(f), NEW x \in Patterns(f)
  PROVE  Whole(f, x) \in Nat /\ StdRound(f, x) \in Patterns(f)
<1> DEFINE v == Exact(f, x)
<1>1. v.num \in Nat /\ v.exp \in Int
  BY ExactTyped DEF IsExact
<1>2. Whole(f, x) = IF v.exp >= 0 THEN v.num * Power(2, v.exp)
                    ELSE (2 * v.num + Power(2, -v.exp)) \div (2 * Power(2, -v.exp))
  BY DEF Whole
<1> HIDE DEF v
<1>3. \A a \in Nat, b \in Nat \ {0} : a \div b \in Nat
  OBVIOUS
<1>4. Whole(f, x) \in Nat
  <2>1. CASE v.exp >= 0
    <3>1. v.exp \in Nat
      BY <1>1, <2>1
    <3>2. Power(2, v.exp) \in Nat
      BY <3>1, Twos
    <3> QED  BY <1>1, <1>2, <2>1, <3>2
  <2>2. CASE ~(v.exp >= 0)
    <3>1. -v.exp \in Nat
      BY <1>1, <2>2
    <3>2. Power(2, -v.exp) \in Nat \ {0}
      BY <3>1, Twos
    <3>3. 2 * v.num + Power(2, -v.exp) \in Nat /\ 2 * Power(2, -v.exp) \in Nat \ {0}
      BY <1>1, <3>2
    <3> QED  BY <1>2, <1>3, <2>2, <3>3
  <2> QED  BY <2>1, <2>2
<1>5. PICK m \in Nat : m <= Infinity(f) /\ FromNat(f, Whole(f, x)) = m
  <2> DEFINE w == Exactly(FALSE, Whole(f, x), 1, 0)
  <2>1. IsExact(w) /\ w.minus = FALSE
    BY <1>4 DEF IsExact, Exactly
  <2> HIDE DEF w
  <2>2. PICK m \in Nat : m <= Infinity(f) /\ Round(f, w) = WithSign(f, w.minus, m)
    BY <2>1, RoundIs
  <2>3. WithSign(f, FALSE, m) = m
    BY DEF WithSign
  <2> QED  BY <2>1, <2>2, <2>3 DEF FromNat, w
<1>6. Minus(f, x) \in BOOLEAN
  BY PatternTyped
<1>7. WithSign(f, Minus(f, x), FromNat(f, Whole(f, x))) \in Patterns(f)
  BY <1>5, <1>6, SignedTyped
<1> QED  BY <1>4, <1>7 DEF StdRound

-----------------------------------------------------------------------------
(* The state's types. *)

LEMMA ProgramsAre ==
  ASSUME IsProgram(prog), at \in Nat \ {0}, ~Done
  PROVE  at \in DOMAIN prog /\ IsInstruction(ir) /\ DOMAIN prog = 1 .. Len(prog) /\ Len(prog) \in Nat
<1>1. prog \in Seq({prog[k] : k \in DOMAIN prog})
  BY DEF IsProgram
<1>2. DOMAIN prog = 1 .. Len(prog) /\ Len(prog) \in Nat
  BY <1>1
<1>3. at \in DOMAIN prog
  BY <1>2 DEF Done
<1> QED  BY <1>2, <1>3 DEF IsProgram, ir

LEMMA OperandsAre ==
  ASSUME IsInstruction(ir)
  PROVE  /\ ir.op \in Arithmetic \cup Moves =>
              ir.t \in Reg /\ ir.a \in Reg /\ ir.b \in Reg /\ ir.c \in Reg /\ ir.rc \in BOOLEAN
         /\ ir.op \in Memory => ir.t \in Reg
         /\ ir.op = "fcmpu" => ir.bf \in Field /\ ir.a \in Reg /\ ir.b \in Reg
<1> DEFINE op == ir.op
<1>1. \/ op \in Arithmetic \cup Moves /\ {ir.t, ir.a, ir.b, ir.c} \subseteq Reg /\ ir.rc \in BOOLEAN
      \/ op \in Memory /\ ir.t \in Reg
      \/ op = "fcmpu" /\ ir.bf \in Field /\ {ir.a, ir.b} \subseteq Reg
      \/ op = "unimplemented"
  BY DEF IsInstruction
<1> HIDE DEF op
<1>2. /\ op \in Arithmetic \cup Moves => op \notin Memory /\ op # "fcmpu" /\ op # "unimplemented"
      /\ op \in Memory => op \notin Arithmetic \cup Moves /\ op # "fcmpu" /\ op # "unimplemented"
  BY DEF Arithmetic, Moves, Memory
<1>3. op = "fcmpu" => op \notin Arithmetic \cup Moves /\ op \notin Memory /\ op # "unimplemented"
  BY DEF Arithmetic, Moves, Memory
<1> QED  BY <1>1, <1>2, <1>3 DEF op

LEMMA WidthsAre ==
  /\ Patterns(Single) = 0 .. Power(2, WordBits) - 1
  /\ Patterns(Double) = 0 .. Power(2, Bits) - 1
  /\ WordBits \in Nat \ {0} /\ Bits \in Nat \ {0} /\ WordBits - 1 \in Nat /\ Bits - 1 \in Nat
<1>1. /\ WordBits \in Nat \ {0} /\ Bits \in Nat \ {0} /\ WordBits - 1 \in Nat /\ Bits - 1 \in Nat
      /\ SingleExp + SingleFrac = WordBits - 1 /\ DoubleExp + DoubleFrac = Bits - 1
  BY WordAssumption, FloatAssumption
<1>2. Power(2, WordBits) = 2 * Power(2, WordBits - 1) /\ Power(2, Bits) = 2 * Power(2, Bits - 1)
  BY <1>1, Twos
<1> QED  BY <1>1, <1>2 DEF Patterns, SignWeight, Single, Double

(* A number made of bits is a register's. *)
LEMMA ValueTyped ==
  ASSUME NEW S
  PROVE  Value(S) \in Patterns(Double)
<1> DEFINE c == [d \in 1 .. Bits |-> IF d - 1 \in S THEN 1 ELSE 0]
<1>1. c \in Counters(2, Bits)
  BY DEF Counters
<1> HIDE DEF c
<1>2. Numeral(c, 2, Bits) \in 0 .. Power(2, Bits) - 1
  <2>1. 2 \in Nat \ {0} /\ Bits \in Nat
    BY WidthsAre
  <2> QED  BY <1>1, <2>1, NumeralBound
<1> QED  BY <1>2, WidthsAre DEF Value, c

(* Numbers that fctiwz and fctidz convert back to double. *)
LEMMA ConvertedTyped ==
  ASSUME NEW x \in Patterns(Double), NEW n \in ToUnsigned(x)
  PROVE  n \in Nat /\ Clamped(x, n) \in Nat
<1>1. n \in Nat
  <2>1. /\ Power(2, Bits - 1) \in Nat /\ Power(2, Bits) \in Nat \ {0}
    BY WidthsAre, Twos
  <2>2. Not(0) \in Nat
    BY <2>1 DEF Not
  <2>3. Whole(Double, x) \in Nat
    BY Formats, WholeTyped
  <2>4. Wrap(Whole(Double, x)) \in Nat /\ Wrap(-Whole(Double, x)) \in Nat
    <3>1. \A a \in Int : Wrap(a) \in Nat
      <4> SUFFICES ASSUME NEW a \in Int PROVE a % Power(2, Bits) \in Nat
        BY DEF Wrap
      <4>1. a % Power(2, Bits) \in 0 .. Power(2, Bits) - 1
        BY <2>1, Division
      <4> QED  BY <2>1, <4>1
    <3>2. Whole(Double, x) \in Int /\ -Whole(Double, x) \in Int
      BY <2>3
    <3> QED  BY <3>1, <3>2
  <2> QED  BY <2>1, <2>2, <2>3, <2>4 DEF ToUnsigned
<1>2. \A m : Or(n, m) \in Nat
  BY ValueTyped, Formats, PatternTyped DEF Or
<1> QED  BY <1>1, <1>2 DEF Clamped

LEMMA ResultsTyped ==
  ASSUME TypeOK, ~Done, ir.op \in Arithmetic, NEW x \in Results
  PROVE  x \in Patterns(Double)
<1>1. A \in Patterns(Double) /\ B \in Patterns(Double) /\ C \in Patterns(Double)
  BY ProgramsAre, OperandsAre DEF TypeOK, A, B, C
<1>2. /\ \A y \in Patterns(Double) : Narrow(y) \in Patterns(Single)
      /\ \A y \in Patterns(Single) : Widen(y) \in Patterns(Double)
  BY Formats, ConvertTyped DEF Narrow, Widen
<1>3. Narrow(A) \in Patterns(Single) /\ Narrow(B) \in Patterns(Single) /\ Narrow(C) \in Patterns(Single)
  BY <1>1, <1>2
<1> DEFINE op == ir.op
<1>4. op \in {"fadds", "fmuls", "fmadds", "fsub", "fmul", "fdiv", "frsp", "fctiwz", "fctidz", "fcfid"}
  BY DEF Arithmetic
<1>5. Results = CASE op = "fadds" -> {RoundedSum}
    [] op = "fmuls" -> {Widen(Narrow(Multiply(Double, A, C)))}
    [] op = "fmadds" -> {Widen(y) : y \in MulAdd(Narrow(A), Narrow(C), Narrow(A))}
    [] op = "fsub" -> {Widen(Subtract(Single, Narrow(A), Narrow(B)))}
    [] op = "fmul" -> {Widen(Multiply(Single, Narrow(A), Narrow(C)))}
    [] op = "fdiv" -> {Widen(Divide(Single, Narrow(A), Narrow(B)))}
    [] op = "frsp" -> {Widen(StdRound(Single, Narrow(B)))}
    [] op = "fctiwz" -> {FromNat(Double, Clamped(B, n)) : n \in ToUnsigned(B)}
    [] op = "fctidz" -> {FromNat(Double, n) : n \in ToUnsigned(B)}
    [] op = "fcfid" -> {Integer}
  BY DEF Results
<1> HIDE DEF op
<1>6. CASE op = "fadds"
  BY <1>1, <1>2, <1>5, <1>6, Formats, AddTyped DEF RoundedSum
<1>7. CASE op = "fmuls"
  BY <1>1, <1>2, <1>5, <1>7, Formats, MultiplyTyped
<1>8. CASE op = "fmadds"
  <2>1. MulAdd(Narrow(A), Narrow(C), Narrow(A)) \subseteq Patterns(Single)
    BY <1>3, Formats, MultiplyAddTyped DEF MulAdd
  <2>2. Results = {Widen(y) : y \in MulAdd(Narrow(A), Narrow(C), Narrow(A))}
    BY <1>5, <1>8
  <2> QED  BY <1>2, <2>1, <2>2
<1>9. CASE op = "fsub"
  BY <1>2, <1>3, <1>5, <1>9, Formats, AddTyped
<1>10. CASE op = "fmul"
  BY <1>2, <1>3, <1>5, <1>10, Formats, MultiplyTyped
<1>11. CASE op = "fdiv"
  BY <1>2, <1>3, <1>5, <1>11, Formats, DivideTyped
<1>12. CASE op = "frsp"
  BY <1>2, <1>3, <1>5, <1>12, Formats, WholeTyped
<1>13. CASE op = "fctiwz"
  <2>1. PICK n \in ToUnsigned(B) : x = FromNat(Double, Clamped(B, n))
    BY <1>5, <1>13
  <2> QED  BY <1>1, <2>1, Formats, ConvertedTyped, FromNatTyped
<1>14. CASE op = "fctidz"
  <2>1. PICK n \in ToUnsigned(B) : x = FromNat(Double, n)
    BY <1>5, <1>14
  <2> QED  BY <1>1, <2>1, Formats, ConvertedTyped, FromNatTyped
<1>15. CASE op = "fcfid"
  <2>1. B \in Nat
    BY <1>1, Formats, PatternTyped
  <2> QED  BY <1>5, <1>15, <2>1, Formats, FromNatTyped DEF Integer
<1> QED  BY <1>4, <1>6, <1>7, <1>8, <1>9, <1>10, <1>11, <1>12, <1>13, <1>14, <1>15

LEMMA TypeInit == Init => TypeOK
<1> SUFFICES ASSUME Init PROVE TypeOK
  OBVIOUS
<1>1. PICK n \in DOMAIN Start :
        /\ prog = Start[n].prog /\ fpr \in Start[n].fprs
        /\ word \in Start[n].words /\ dword \in Start[n].dwords
  BY DEF Init
<1>2. /\ IsProgram(prog) /\ fpr \in [Reg -> Patterns(Double)]
      /\ word \in Patterns(Single) /\ dword \in Patterns(Double)
  BY <1>1, FloatUnitAssumption
<1>3. found.word = word /\ found.dword = dword /\ at = 1 /\ fprf = 0 /\ fr = FALSE /\ failed = FALSE
  BY DEF Init
<1>4. cr \in [Field -> SUBSET (0 .. 3)]
  BY DEF Init
<1>5. 0 \in 0 .. 31 /\ 1 \in Nat \ {0} /\ FALSE \in BOOLEAN
  OBVIOUS
<1>6. /\ fprf \in 0 .. 31 /\ fr \in BOOLEAN /\ at \in Nat \ {0} /\ failed \in BOOLEAN
      /\ found.word \in Patterns(Single) /\ found.dword \in Patterns(Double)
  BY <1>2, <1>3, <1>5
<1> QED  BY <1>2, <1>4, <1>6 DEF TypeOK

LEMMA TypeNext == TypeOK /\ [Next]_vars => TypeOK'
<1> SUFFICES ASSUME TypeOK, [Next]_vars PROVE TypeOK'
  OBVIOUS
<1>1. CASE UNCHANGED <<fpr, fprf, fr, cr, word, dword, prog, at, found>> /\ failed' \in BOOLEAN
  BY <1>1 DEF TypeOK
<1>2. CASE Step
  <2>1. /\ IsProgram(prog)' /\ (at \in Nat \ {0})' /\ (failed \in BOOLEAN)'
        /\ (found.word \in Patterns(Single))' /\ (found.dword \in Patterns(Double))'
    <3>1. prog' = prog /\ found' = found /\ failed' = failed /\ at' = at + 1
      BY <1>2 DEF Step, Goes
    <3> QED  BY <3>1 DEF TypeOK, IsProgram
  <2>2. ~Done /\ IsInstruction(ir)
    BY <1>2, ProgramsAre DEF TypeOK, Step, Goes
  <2>3. \A x : Record(x) => (cr \in [Field -> SUBSET (0 .. 3)])'
    <3> SUFFICES ASSUME NEW x, Record(x) PROVE cr' \in [Field -> SUBSET (0 .. 3)]
      OBVIOUS
    <3>1. ResultBits(x) \in SUBSET (0 .. 3)
      BY DEF ResultBits
    <3> HIDE DEF ResultBits
    <3> QED  BY <3>1 DEF Record, TypeOK
  <2>4. CASE Compute
    <3>1. PICK x \in Results : SetFPR(x) /\ Record(x) /\ fprf' = Class(x)
                               /\ fr' = IF ir.op \in {"fadds", "fmuls", "fmadds"} THEN fr ELSE Less(0, x)
      BY <2>4 DEF Compute
    <3>2. x \in Patterns(Double)
      BY <2>2, <2>4, ResultsTyped DEF Compute
    <3>3. fpr' \in [Reg -> Patterns(Double)]
      BY <3>1, <3>2 DEF SetFPR, TypeOK
    <3>4. Class(x) \in 0 .. 31
      BY DEF Class
    <3>5. fr' \in BOOLEAN
      BY <3>1 DEF TypeOK, Less
    <3>6. UNCHANGED <<word, dword>>
      BY <2>4 DEF Compute
    <3> QED  BY <2>1, <2>3, <3>1, <3>3, <3>4, <3>5, <3>6 DEF TypeOK
  <2>5. CASE Move
    <3>1. ir.t \in Reg /\ B \in Patterns(Double)
      BY <2>2, <2>5, OperandsAre DEF Move, B, TypeOK
    <3>2. PICK x \in Patterns(Double) : SetFPR(x) /\ Record(x)
      BY <2>5, <3>1, Formats, PatternTyped DEF Move
    <3>3. fpr' \in [Reg -> Patterns(Double)]
      BY <3>2 DEF SetFPR, TypeOK
    <3>4. UNCHANGED <<fprf, fr, word, dword>>
      BY <2>5 DEF Move
    <3> QED  BY <2>1, <2>3, <3>2, <3>3, <3>4 DEF TypeOK
  <2>6. CASE Compare
    <3>1. cr' \in [Field -> SUBSET (0 .. 3)]
      <4>1. PICK v \in SUBSET (0 .. 3) : cr' = [cr EXCEPT ![ir.bf] = v]
        <5>1. {0} \in SUBSET (0 .. 3) /\ {1} \in SUBSET (0 .. 3)
              /\ {2} \in SUBSET (0 .. 3) /\ {3} \in SUBSET (0 .. 3)
          OBVIOUS
        <5> QED  BY <2>6, <5>1 DEF Compare
      <4> QED  BY <4>1 DEF TypeOK
    <3>2. UNCHANGED <<fpr, fprf, fr, word, dword>>
      BY <2>6 DEF Compare
    <3> QED  BY <2>1, <3>1, <3>2 DEF TypeOK
  <2>7. CASE Load
    <3>1. PICK x \in Patterns(Double) : SetFPR(x)
      BY <2>7, Formats, ConvertTyped DEF Load, Widen, TypeOK
    <3>2. fpr' \in [Reg -> Patterns(Double)]
      BY <3>1 DEF SetFPR, TypeOK
    <3>3. UNCHANGED <<fprf, fr, cr, word, dword>>
      BY <2>7 DEF Load
    <3> QED  BY <2>1, <3>2, <3>3 DEF TypeOK
  <2>8. CASE Store
    <3> DEFINE x == fpr[ir.t]
    <3>1. x \in Patterns(Double)
      <4>1. ir.op \in Memory
        BY <2>8 DEF Store, Memory
      <4> QED  BY <2>2, <4>1, OperandsAre DEF TypeOK
    <3>2. FloatBits(x) \in Patterns(Single)
      BY <3>1, Formats, ConvertTyped DEF FloatBits, Narrow
    <3>3. LowWord(x) \in Patterns(Single)
      <4>1. x \in Int /\ Power(2, WordBits) \in Nat \ {0}
        <5>1. x \in Nat
          BY <3>1, Formats, PatternTyped
        <5> HIDE DEF x
        <5>2. WordBits \in Nat
          BY WidthsAre
        <5> QED  BY <5>1, <5>2, Twos
      <4> HIDE DEF x
      <4>2. x % Power(2, WordBits) \in 0 .. Power(2, WordBits) - 1
        BY <4>1, Division
      <4> QED  BY <4>2, WidthsAre DEF LowWord, Low
    <3>4. word' \in Patterns(Single) /\ dword' \in Patterns(Double) /\ UNCHANGED <<fpr, fprf, fr, cr>>
      BY <2>8, <3>1, <3>2, <3>3 DEF Store, TypeOK
    <3> QED  BY <2>1, <3>4 DEF TypeOK
  <2> QED  BY <1>2, <2>4, <2>5, <2>6, <2>7, <2>8 DEF Step
<1> QED  BY <1>1, <1>2 DEF Next, Fail, vars, TypeOK

(* Arithmetic, conversions and moves leave patterns of a double in the     *)
(* registers, and stores patterns of a float in the word.                  *)
THEOREM TypeCorrect == Spec => []TypeOK
BY TypeInit, TypeNext, PTL DEF Spec

-----------------------------------------------------------------------------
(* Programs that copy, and programs that convert an integer. *)

IsCopy(load, store) ==
  /\ Len(prog) = 3
  /\ prog[1].op = load /\ prog[2].op = "fmr" /\ prog[3].op = store
  /\ prog[2].b = prog[1].t /\ prog[3].t = prog[2].t
IsConversion ==
  /\ Len(prog) = 2
  /\ prog[1].op = "lfd" /\ prog[2].op = "fcfid" /\ prog[2].b = prog[1].t

(* Where the word is, after each instruction. *)
WordCopied ==
  IsCopy("lfs", "stfs") =>
    /\ at \in 1 .. 4
    /\ at # 4 => word = found.word
    /\ at = 2 => fpr[prog[1].t] = Widen(found.word)
    /\ at = 3 => fpr[prog[2].t] = Widen(found.word)
    /\ at = 4 => word = Narrow(Widen(found.word))
DwordCopied ==
  IsCopy("lfd", "stfd") =>
    /\ at \in 1 .. 4
    /\ dword = found.dword
    /\ at = 2 => fpr[prog[1].t] = found.dword
    /\ at = 3 => fpr[prog[2].t] = found.dword
IntegerConverted ==
  IsConversion =>
    /\ at \in 1 .. 3
    /\ dword = found.dword
    /\ at = 2 => fpr[prog[1].t] = found.dword
    /\ at = 3 => fpr[prog[2].t] = FromNat(Double, found.dword)

CopyInv ==
  /\ TypeOK
  /\ WordCopied /\ DwordCopied /\ IntegerConverted

LEMMA CopyInit == Init => CopyInv
<1> SUFFICES ASSUME Init PROVE CopyInv
  OBVIOUS
<1>1. found.word = word /\ found.dword = dword /\ at = 1
  BY DEF Init
<1>2. WordCopied /\ DwordCopied /\ IntegerConverted
  BY <1>1 DEF WordCopied, DwordCopied, IntegerConverted
<1> QED  BY <1>2, TypeInit DEF CopyInv

(* What the four instructions of these programs do. *)
LEMMA Effects ==
  ASSUME TypeOK, Step
  PROVE  /\ at' = at + 1 /\ UNCHANGED <<prog, found>>
         /\ prog[at].op = "lfs" /\ prog[at].t \in Reg =>
              fpr'[prog[at].t] = Widen(word) /\ UNCHANGED <<word, dword>>
         /\ prog[at].op = "lfd" /\ prog[at].t \in Reg =>
              fpr'[prog[at].t] = dword /\ UNCHANGED <<word, dword>>
         /\ prog[at].op = "fmr" /\ prog[at].t \in Reg =>
              fpr'[prog[at].t] = fpr[prog[at].b] /\ UNCHANGED <<word, dword>>
         /\ prog[at].op = "fcfid" /\ prog[at].t \in Reg =>
              fpr'[prog[at].t] = FromNat(Double, fpr[prog[at].b]) /\ UNCHANGED <<word, dword>>
         /\ prog[at].op = "stfs" => word' = Narrow(fpr[prog[at].t]) /\ UNCHANGED dword
         /\ prog[at].op = "stfd" => dword' = fpr[prog[at].t]
<1>1. at' = at + 1 /\ UNCHANGED <<prog, found>> /\ (Compute \/ Move \/ Compare \/ Load \/ Store)
  BY DEF Step, Goes
<1>2. DOMAIN fpr = Reg
  BY DEF TypeOK
<1>3. CASE Compute
  <2>1. PICK x \in Results : fpr' = [fpr EXCEPT ![prog[at].t] = x]
    BY <1>3 DEF Compute, SetFPR, ir
  <2>2. UNCHANGED <<word, dword>> /\ prog[at].op \in Arithmetic
    BY <1>3 DEF Compute, ir
  <2>3. prog[at].op = "fcfid" => x = FromNat(Double, fpr[prog[at].b])
    BY <2>1 DEF Results, ir, Integer, B
  <2> QED  BY <1>1, <1>2, <2>1, <2>2, <2>3 DEF Arithmetic
<1>4. CASE Move
  <2>1. PICK x : /\ fpr' = [fpr EXCEPT ![prog[at].t] = x]
                 /\ prog[at].op = "fmr" => x = fpr[prog[at].b]
    BY <1>4 DEF Move, SetFPR, ir, B
  <2>2. UNCHANGED <<word, dword>> /\ prog[at].op \in Moves
    BY <1>4 DEF Move, ir
  <2> QED  BY <1>1, <1>2, <2>1, <2>2 DEF Moves
<1>5. CASE Compare
  BY <1>1, <1>2, <1>5 DEF Compare, ir
<1>6. CASE Load
  BY <1>1, <1>2, <1>6 DEF Load, SetFPR, ir
<1>7. CASE Store
  BY <1>1, <1>2, <1>7 DEF Store, ir, FloatBits
<1> QED  BY <1>1, <1>3, <1>4, <1>5, <1>6, <1>7

LEMMA CopyNext == CopyInv /\ [Next]_vars => CopyInv'
<1> SUFFICES ASSUME CopyInv, [Next]_vars PROVE CopyInv'
  OBVIOUS
<1>1. CASE UNCHANGED <<prog, at, fpr, found, word, dword>>
  <2>1. TypeOK'
    BY TypeNext DEF CopyInv
  <2> QED  BY <1>1, <2>1 DEF CopyInv, WordCopied, DwordCopied, IntegerConverted, IsCopy, IsConversion
<1>2. CASE Step
  <2>1. TypeOK /\ TypeOK'
    BY TypeNext DEF CopyInv
  <2>2. DOMAIN prog = 1 .. Len(prog) /\ ~(at > Len(prog))
    BY <1>2, <2>1, ProgramsAre DEF TypeOK, Step, Goes, Done
  <2>7. \A k \in DOMAIN prog : prog[k].op \in {"lfs", "lfd", "fmr", "fcfid"} => prog[k].t \in Reg
    <3> SUFFICES ASSUME NEW k \in DOMAIN prog, prog[k].op \in {"lfs", "lfd", "fmr", "fcfid"}
                 PROVE  prog[k].t \in Reg
      OBVIOUS
    <3>1. IsInstruction(prog[k])
      BY <2>1 DEF TypeOK, IsProgram
    <3> QED  BY <3>1 DEF IsInstruction, Arithmetic, Moves, Memory
  <2>3. /\ at' = at + 1 /\ prog' = prog /\ found' = found
        /\ (IsCopy("lfs", "stfs"))' = IsCopy("lfs", "stfs")
        /\ (IsCopy("lfd", "stfd"))' = IsCopy("lfd", "stfd")
        /\ IsConversion' = IsConversion
    BY <1>2, <2>1, Effects DEF IsCopy, IsConversion
  <2>4. WordCopied'
    <3> SUFFICES ASSUME IsCopy("lfs", "stfs")
                 PROVE  /\ at' \in 1 .. 4
                        /\ at' # 4 => word' = found.word
                        /\ at' = 2 => fpr'[prog[1].t] = Widen(found.word)
                        /\ at' = 3 => fpr'[prog[2].t] = Widen(found.word)
                        /\ at' = 4 => word' = Narrow(Widen(found.word))
      BY <2>3 DEF WordCopied
    <3>1. at \in 1 .. 3 /\ 1 \in DOMAIN prog /\ 2 \in DOMAIN prog /\ 3 \in DOMAIN prog
      BY <2>2 DEF CopyInv, WordCopied, IsCopy
    <3>2. prog[1].t \in Reg /\ prog[2].t \in Reg
      BY <2>7, <3>1 DEF IsCopy
    <3>3. CASE at = 1
      BY <1>2, <2>1, <2>3, <3>2, <3>3, Effects DEF CopyInv, WordCopied, IsCopy
    <3>4. CASE at = 2
      BY <1>2, <2>1, <2>3, <3>2, <3>4, Effects DEF CopyInv, WordCopied, IsCopy
    <3>5. CASE at = 3
      BY <1>2, <2>1, <2>3, <3>2, <3>5, Effects DEF CopyInv, WordCopied, IsCopy
    <3> QED  BY <3>1, <3>3, <3>4, <3>5
  <2>5. DwordCopied'
    <3> SUFFICES ASSUME IsCopy("lfd", "stfd")
                 PROVE  /\ at' \in 1 .. 4
                        /\ dword' = found.dword
                        /\ at' = 2 => fpr'[prog[1].t] = found.dword
                        /\ at' = 3 => fpr'[prog[2].t] = found.dword
      BY <2>3 DEF DwordCopied
    <3>1. at \in 1 .. 3 /\ 1 \in DOMAIN prog /\ 2 \in DOMAIN prog /\ 3 \in DOMAIN prog
      BY <2>2 DEF CopyInv, DwordCopied, IsCopy
    <3>2. prog[1].t \in Reg /\ prog[2].t \in Reg
      BY <2>7, <3>1 DEF IsCopy
    <3>3. CASE at = 1
      BY <1>2, <2>1, <2>3, <3>2, <3>3, Effects DEF CopyInv, DwordCopied, IsCopy
    <3>4. CASE at = 2
      BY <1>2, <2>1, <2>3, <3>2, <3>4, Effects DEF CopyInv, DwordCopied, IsCopy
    <3>5. CASE at = 3
      BY <1>2, <2>1, <2>3, <3>2, <3>5, Effects DEF CopyInv, DwordCopied, IsCopy
    <3> QED  BY <3>1, <3>3, <3>4, <3>5
  <2>6. IntegerConverted'
    <3> SUFFICES ASSUME IsConversion
                 PROVE  /\ at' \in 1 .. 3
                        /\ dword' = found.dword
                        /\ at' = 2 => fpr'[prog[1].t] = found.dword
                        /\ at' = 3 => fpr'[prog[2].t] = FromNat(Double, found.dword)
      BY <2>3 DEF IntegerConverted
    <3>1. at \in 1 .. 2 /\ 1 \in DOMAIN prog /\ 2 \in DOMAIN prog
      BY <2>2 DEF CopyInv, IntegerConverted, IsConversion
    <3>2. prog[1].t \in Reg /\ prog[2].t \in Reg
      BY <2>7, <3>1 DEF IsConversion
    <3>3. CASE at = 1
      BY <1>2, <2>1, <2>3, <3>2, <3>3, Effects DEF CopyInv, IntegerConverted, IsConversion
    <3>4. CASE at = 2
      BY <1>2, <2>1, <2>3, <3>2, <3>4, Effects DEF CopyInv, IntegerConverted, IsConversion
    <3> QED  BY <3>1, <3>3, <3>4
  <2> QED  BY <2>1, <2>4, <2>5, <2>6 DEF CopyInv
<1> QED  BY <1>1, <1>2 DEF Next, Fail, vars

LEMMA CopyImplies == CopyInv => MemoryRoundTrips
<1> SUFFICES ASSUME CopyInv PROVE MemoryRoundTrips
  OBVIOUS
<1>1. ASSUME Copies("lfs", "stfs"), ~IsSignalling(Single, found.word)
      PROVE  word = found.word
  <2>1. IsCopy("lfs", "stfs") /\ at > 3
    BY <1>1 DEF Copies, IsCopy, Done
  <2>2. word = Narrow(Widen(found.word))
    BY <2>1 DEF CopyInv, WordCopied
  <2> QED  BY <1>1, <2>2, FloatSurvives DEF CopyInv, TypeOK
<1>2. ASSUME Copies("lfd", "stfd") PROVE dword = found.dword
  BY <1>2 DEF Copies, IsCopy, CopyInv, DwordCopied
<1>3. ASSUME Converted PROVE fpr[prog[2].t] = Round(Double, Exactly(FALSE, found.dword, 1, 0))
  <2>1. IsConversion /\ at > 2
    BY <1>3 DEF Converted, IsConversion, Done
  <2>2. at = 3
    BY <2>1 DEF CopyInv, IntegerConverted
  <2>3. fpr[prog[2].t] = FromNat(Double, found.dword)
    BY <2>1, <2>2 DEF CopyInv, IntegerConverted
  <2> QED  BY <2>3 DEF FromNat
<1> QED  BY <1>1, <1>2, <1>3 DEF MemoryRoundTrips

(* What compiled code sends through memory to the floating-point unit comes *)
(* out right, whatever the widths of the formats: lfs, fmr and stfs keep    *)
(* every word but a signalling NaN, because a double holds every float and  *)
(* narrowing it is exact; lfd, fmr and stfd keep every doubleword; lfd and  *)
(* fcfid deliver the double nearest to a non-negative integer.              *)
THEOREM RoundTripsCorrect == Spec => []MemoryRoundTrips
BY CopyInit, CopyNext, CopyImplies, PTL DEF Spec

-----------------------------------------------------------------------------
(* The class of a result. *)

LEMMA ZeroIs ==
  /\ 0 \in Patterns(Double) /\ Magnitude(Double, 0) = 0 /\ Minus(Double, 0) = FALSE
  /\ Rank(Double, 0) = 0 /\ ~IsNaN(Double, 0)
<1>1. SignWeight(Double) \in Nat \ {0} /\ Infinity(Double) \in Nat \ {0}
  BY Formats, Bounds
<1>2. 0 \in Patterns(Double) /\ ~(0 >= SignWeight(Double))
  BY <1>1 DEF Patterns
<1>3. Magnitude(Double, 0) = 0
  <2>1. 0 \in 0 .. SignWeight(Double) - 1
    BY <1>1
  <2> QED  BY <1>1, <2>1, ModSmall DEF Magnitude
<1>4. Minus(Double, 0) = FALSE
  BY <1>2 DEF Minus
<1> QED  BY <1>1, <1>2, <1>3, <1>4 DEF Rank, IsNaN

LEMMA ClassDescribes ==
  ASSUME NEW x \in Patterns(Double)
  PROVE  Describes(Class(x), x)
<1> DEFINE bit(c, n) == (c \div n) % 2 = 1
           minus == Minus(Double, x)
           m == Magnitude(Double, x)
           nan == IsNaN(Double, x)
           infinite == IsInfinite(Double, x)
           zero == IsZero(Double, x)
           denormal == IsDenormal(Double, x)
           code == Class(x)
<1>1. /\ bit(17, 16) /\ ~bit(17, 8) /\ ~bit(17, 4) /\ ~bit(17, 2) /\ bit(17, 1)
      /\ ~bit(9, 16) /\ bit(9, 8) /\ ~bit(9, 4) /\ ~bit(9, 2) /\ bit(9, 1)
      /\ ~bit(5, 16) /\ ~bit(5, 8) /\ bit(5, 4) /\ ~bit(5, 2) /\ bit(5, 1)
      /\ bit(18, 16) /\ ~bit(18, 8) /\ ~bit(18, 4) /\ bit(18, 2) /\ ~bit(18, 1)
      /\ ~bit(2, 16) /\ ~bit(2, 8) /\ ~bit(2, 4) /\ bit(2, 2) /\ ~bit(2, 1)
      /\ bit(24, 16) /\ bit(24, 8) /\ ~bit(24, 4) /\ ~bit(24, 2) /\ ~bit(24, 1)
      /\ bit(20, 16) /\ ~bit(20, 8) /\ bit(20, 4) /\ ~bit(20, 2) /\ ~bit(20, 1)
      /\ ~bit(8, 16) /\ bit(8, 8) /\ ~bit(8, 4) /\ ~bit(8, 2) /\ ~bit(8, 1)
      /\ ~bit(4, 16) /\ ~bit(4, 8) /\ bit(4, 4) /\ ~bit(4, 2) /\ ~bit(4, 1)
  OBVIOUS
<1>2. m \in Nat /\ minus \in BOOLEAN /\ Infinity(Double) \in Nat \ {0}
  BY Formats, PatternTyped, Bounds
<1>3. /\ nan <=> m > Infinity(Double)
      /\ infinite <=> m = Infinity(Double)
      /\ zero <=> m = 0
      /\ denormal <=> m \in 1 .. Power(2, Double.frac) - 1
  BY DEF IsNaN, IsInfinite, IsZero, IsDenormal
<1>4. ~nan /\ ~zero => (Less(x, 0) <=> minus)
  BY <1>2, <1>3, ZeroIs DEF Less, Rank
(* No finite number but a denormal one is below the hidden bit. *)
<1>5. denormal => ~nan /\ ~infinite /\ ~zero
  <2>1. PICK t, u \in Nat \ {0} : t >= 4 /\ u = Power(2, Double.frac) /\ Infinity(Double) = (t - 1) * u
    BY Formats, Weights
  <2>2. (t - 1) * u >= 1 * u /\ (t - 1) * u \in Int
    BY <2>1
  <2> QED  BY <1>2, <1>3, <2>1, <2>2
<1>6. code = IF nan THEN 17
             ELSE IF infinite THEN IF minus THEN 9 ELSE 5
             ELSE IF zero THEN IF minus THEN 18 ELSE 2
             ELSE IF denormal THEN IF minus THEN 24 ELSE 20
             ELSE IF minus THEN 8 ELSE 4
  BY <1>4 DEF Class
<1>7. ~(infinite /\ nan) /\ ~(infinite /\ zero) /\ ~(nan /\ zero)
  BY <1>2, <1>3
<1>8. Describes(code, x) <=>
        /\ bit(code, 16) <=> nan \/ denormal \/ (zero /\ minus)
        /\ bit(code, 8) <=> ~nan /\ ~zero /\ minus
        /\ bit(code, 4) <=> ~nan /\ ~zero /\ ~minus
        /\ bit(code, 2) <=> zero
        /\ bit(code, 1) <=> nan \/ infinite
  BY DEF Describes, Finite
<1> HIDE DEF bit, minus, m, nan, infinite, zero, denormal, code
<1>9. \/ nan \/ infinite \/ zero \/ denormal
      \/ ~nan /\ ~infinite /\ ~zero /\ ~denormal
  OBVIOUS
<1>10. CASE nan
  <2>1. code = 17 /\ ~infinite /\ ~zero /\ ~denormal
    BY <1>5, <1>6, <1>7, <1>10
  <2>2. Describes(code, x)
    BY <1>1, <1>8, <1>10, <2>1
  <2> QED  BY <2>2 DEF code
<1>11. CASE infinite
  <2>1. code = (IF minus THEN 9 ELSE 5) /\ ~nan /\ ~zero /\ ~denormal
    BY <1>5, <1>6, <1>7, <1>11
  <2>2. Describes(code, x)
    BY <1>1, <1>8, <1>11, <2>1
  <2> QED  BY <2>2 DEF code
<1>12. CASE zero
  <2>1. code = (IF minus THEN 18 ELSE 2) /\ ~nan /\ ~infinite /\ ~denormal
    BY <1>5, <1>6, <1>7, <1>12
  <2>2. Describes(code, x)
    BY <1>1, <1>8, <1>12, <2>1
  <2> QED  BY <2>2 DEF code
<1>13. CASE denormal
  <2>1. code = (IF minus THEN 24 ELSE 20) /\ ~nan /\ ~infinite /\ ~zero
    BY <1>5, <1>6, <1>7, <1>13
  <2>2. Describes(code, x)
    BY <1>1, <1>8, <1>13, <2>1
  <2> QED  BY <2>2 DEF code
<1>14. CASE ~nan /\ ~infinite /\ ~zero /\ ~denormal
  <2>1. code = IF minus THEN 8 ELSE 4
    BY <1>6, <1>14
  <2>2. Describes(code, x)
    BY <1>1, <1>8, <1>14, <2>1
  <2> QED  BY <2>2 DEF code
<1> QED  BY <1>9, <1>10, <1>11, <1>12, <1>13, <1>14 DEF code

LEMMA ClassStep ==
  ASSUME TypeOK, [Next]_vars
  PROVE  [at' # at => IF ir.op \in Arithmetic THEN Describes(fprf', fpr'[ir.t]) ELSE fprf' = fprf]_vars
<1>1. CASE Step
  <2>1. ~Done /\ IsInstruction(ir)
    BY <1>1, ProgramsAre DEF TypeOK, Step, Goes
  <2>2. CASE Compute
    <3>1. PICK x \in Results : SetFPR(x) /\ fprf' = Class(x)
      BY <2>2 DEF Compute
    <3>2. ir.op \in Arithmetic /\ ir.t \in Reg
      BY <2>1, <2>2, OperandsAre DEF Compute
    <3>3. fpr'[ir.t] = x
      BY <3>1, <3>2 DEF SetFPR, TypeOK
    <3>4. x \in Patterns(Double)
      BY <2>1, <3>2, ResultsTyped
    <3> QED  BY <3>1, <3>2, <3>3, <3>4, ClassDescribes
  <2>3. CASE Move \/ Compare \/ Load \/ Store
    <3>1. fprf' = fprf
      BY <2>3 DEF Move, Compare, Load, Store
    <3>2. ir.op \notin Arithmetic
      BY <2>3 DEF Move, Compare, Load, Store, Arithmetic, Moves
    <3> QED  BY <3>1, <3>2
  <2> QED  BY <1>1, <2>2, <2>3 DEF Step
<1>2. CASE at' = at
  BY <1>2
<1> QED  BY <1>1, <1>2 DEF Next, Fail, vars

(* FPRF describes the double that arithmetic left in FRT, of any format,    *)
(* and nothing but arithmetic changes it.                                   *)
THEOREM ClassCorrect == Spec => ClassOfResult
BY TypeInit, TypeNext, ClassStep, PTL DEF Spec, ClassOfResult

-----------------------------------------------------------------------------
(* Compares: patterns are ordered as the numbers they stand for. *)

(* A number of a higher place is greater, as long as the places are normal. *)
LEMMA HigherIsGreater ==
  ASSUME NEW u \in Nat \ {0}, NEW d \in Nat, NEW n \in 0 .. 2 * u - 1,
         NEW e \in Nat, NEW m \in 0 .. 2 * u - 1, d < e, m >= u
  PROVE  /\ d * u + n < e * u + m
         /\ n < m * Power(2, e - d)
<1>1. d * u + n < e * u + m
  <2>1. e * u >= (d + 1) * u /\ (d + 1) * u = d * u + u /\ d * u \in Nat /\ e * u \in Nat
    OBVIOUS
  <2> QED  BY <2>1
<1>2. n < m * Power(2, e - d)
  <2> DEFINE p == Power(2, e - d)
  <2>1. p >= 2 /\ p \in Nat
    <3>1. 1 \in Nat /\ e - d \in Nat /\ 1 <= e - d
      OBVIOUS
    <3> QED  BY <3>1, TwosGrow, FirstTwos, Twos
  <2> HIDE DEF p
  <2>2. m * p >= m * 2 /\ m * p \in Nat
    BY <2>1
  <2> QED  BY <2>2 DEF p
<1> QED  BY <1>1, <1>2

LEMMA NumbersOrdered ==
  ASSUME NEW f, IsFormat(f), NEW d \in Nat, NEW n \in Nat, IsNumber(f, d, n),
         NEW e \in Nat, NEW m \in Nat, IsNumber(f, e, m)
  PROVE  LET u == Power(2, f.frac)
             p == n * Power(2, IF d <= e THEN 0 ELSE d - e)
             q == m * Power(2, IF d <= e THEN e - d ELSE 0) IN
         /\ p \in Nat /\ q \in Nat /\ (p = 0 <=> n = 0) /\ (q = 0 <=> m = 0)
         /\ (n = 0 <=> d * u + n = 0) /\ (m = 0 <=> e * u + m = 0)
         /\ d * u + n < e * u + m => p < q
         /\ d * u + n > e * u + m => p > q
         /\ d * u + n = e * u + m => p = q
<1> DEFINE u == Power(2, f.frac)
           i == IF d <= e THEN 0 ELSE d - e
           j == IF d <= e THEN e - d ELSE 0
           p == n * Power(2, i)
           q == m * Power(2, j)
<1>1. u \in Nat \ {0} /\ n \in 0 .. 2 * u - 1 /\ m \in 0 .. 2 * u - 1
      /\ (d > 0 => n >= u) /\ (e > 0 => m >= u)
  BY Bounds DEF IsNumber
<1>2. i \in Nat /\ j \in Nat
  OBVIOUS
<1>3. Power(2, i) \in Nat \ {0} /\ Power(2, j) \in Nat \ {0}
  BY <1>2, Twos
<1>4. p \in Nat /\ q \in Nat /\ (p = 0 <=> n = 0) /\ (q = 0 <=> m = 0)
  BY <1>3
<1> HIDE DEF u
<1>5. (n = 0 <=> d * u + n = 0) /\ (m = 0 <=> e * u + m = 0)
  <2>1. d * u \in Nat /\ e * u \in Nat
    BY <1>1
  <2>2. (d = 0 => d * u = 0) /\ (e = 0 => e * u = 0)
    BY <1>1
  <2> QED  BY <1>1, <2>1, <2>2
<1>6. CASE d < e
  <2>1. d * u + n < e * u + m /\ n < m * Power(2, e - d)
    <3>1. m >= u
      BY <1>1, <1>6
    <3> QED  BY <1>1, <1>6, <3>1, HigherIsGreater
  <2>2. i = 0 /\ j = e - d
    BY <1>6
  <2>3. p = n /\ q = m * Power(2, e - d)
    BY <2>2, FirstTwos
  <2> HIDE DEF p, q, i, j
  <2>4. p < q
    BY <2>1, <2>3
  <2> DEFINE a == d * u + n
             b == e * u + m
  <2>5. a \in Nat /\ b \in Nat /\ a < b
    BY <1>1, <2>1
  <2> HIDE DEF a, b
  <2>6. ~(a > b) /\ ~(a = b)
    BY <2>5
  <2> QED  BY <1>4, <1>5, <2>4, <2>6 DEF a, b, p, q, i, j, u
<1>7. CASE d > e
  <2>1. e * u + m < d * u + n /\ m < n * Power(2, d - e)
    <3>1. n >= u /\ e < d
      BY <1>1, <1>7
    <3> QED  BY <1>1, <3>1, HigherIsGreater
  <2>2. j = 0 /\ i = d - e
    BY <1>7
  <2>3. q = m /\ p = n * Power(2, d - e)
    BY <2>2, FirstTwos
  <2> HIDE DEF p, q, i, j
  <2>4. p > q
    BY <1>4, <2>1, <2>3
  <2> DEFINE a == d * u + n
             b == e * u + m
  <2>5. a \in Nat /\ b \in Nat /\ b < a
    BY <1>1, <2>1
  <2> HIDE DEF a, b
  <2>6. ~(a < b) /\ ~(a = b) /\ a > b
    BY <2>5
  <2> QED  BY <1>4, <1>5, <2>4, <2>6 DEF a, b, p, q, i, j, u
<1>8. CASE d = e
  <2>1. i = 0 /\ j = 0
    BY <1>8
  <2>2. p = n /\ q = m
    BY <2>1, FirstTwos
  <2> HIDE DEF p, q, i, j
  <2>3. d * u \in Nat /\ e * u = d * u
    BY <1>1, <1>8
  <2> QED  BY <1>4, <1>5, <2>2, <2>3 DEF p, q, i, j, u
<1> QED  BY <1>6, <1>7, <1>8

(* The sign of the exact difference of two finite numbers. *)
LEMMA DifferenceSign ==
  ASSUME NEW f, IsFormat(f), NEW x \in Patterns(f), NEW y \in Patterns(f),
         Magnitude(f, x) < Infinity(f), Magnitude(f, y) < Infinity(f)
  PROVE  SignOf(Sum(Exact(f, x), Exact(f, Negated(f, y))))
           = IF Rank(f, x) < Rank(f, y) THEN {0} ELSE IF Rank(f, y) < Rank(f, x) THEN {1} ELSE {2}
<1> DEFINE s == Sum(Exact(f, x), Exact(f, Negated(f, y)))
           mx == Minus(f, x)
           my == Minus(f, y)
           a == Magnitude(f, x)
           b == Magnitude(f, y)
           u == Power(2, f.frac)
           low == Least(f)
           rx == Rank(f, x)
           ry == Rank(f, y)
<1>1. /\ mx \in BOOLEAN /\ my \in BOOLEAN /\ a \in Nat /\ b \in Nat /\ low \in Int
      /\ rx = (IF mx THEN -a ELSE a) /\ ry = (IF my THEN -b ELSE b)
  BY PatternTyped, Bounds DEF Rank
<1>2. PICK d, n \in Nat : IsNumber(f, d, n) /\ a = d * u + n /\ Exact(f, x) = Exactly(mx, n, 1, low + d)
  BY ExactIs
<1>3. /\ Negated(f, y) \in Patterns(f) /\ Magnitude(f, Negated(f, y)) = b
      /\ Minus(f, Negated(f, y)) = ~my
  BY PatternTyped
<1>4. PICK e, m \in Nat :
        /\ IsNumber(f, e, m) /\ b = e * u + m
        /\ Exact(f, Negated(f, y)) = Exactly(~my, m, 1, low + e)
  BY <1>3, ExactIs
<1> DEFINE z == IF low + d <= low + e THEN low + d ELSE low + e
           p == n * Power(2, (low + d) - z)
           q == m * Power(2, (low + e) - z)
<1>5. z \in Int /\ z = IF low + d <= low + e THEN low + d ELSE low + e
  BY <1>1
<1>14. /\ (low + d) - z = IF d <= e THEN 0 ELSE d - e
       /\ (low + e) - z = IF d <= e THEN e - d ELSE 0
  BY <1>1
<1>6. /\ p \in Nat /\ q \in Nat /\ (p = 0 <=> n = 0) /\ (q = 0 <=> m = 0)
      /\ (n = 0 <=> a = 0) /\ (m = 0 <=> b = 0)
      /\ a < b => p < q
      /\ a > b => p > q
      /\ a = b => p = q
  <2> HIDE DEF z, low, a, b
  <2> DEFINE p1 == n * Power(2, IF d <= e THEN 0 ELSE d - e)
             q1 == m * Power(2, IF d <= e THEN e - d ELSE 0)
  <2>1. /\ p1 \in Nat /\ q1 \in Nat /\ (p1 = 0 <=> n = 0) /\ (q1 = 0 <=> m = 0)
        /\ (n = 0 <=> d * u + n = 0) /\ (m = 0 <=> e * u + m = 0)
        /\ d * u + n < e * u + m => p1 < q1
        /\ d * u + n > e * u + m => p1 > q1
        /\ d * u + n = e * u + m => p1 = q1
    BY <1>2, <1>4, NumbersOrdered
  <2>2. p1 = p /\ q1 = q
    BY <1>14
  <2> HIDE DEF p, q, p1, q1, u
  <2> QED  BY <1>2, <1>4, <2>1, <2>2
<1>7. Min({low + d, low + e}) = z
  <2>1. low + d \in Int /\ low + e \in Int
    BY <1>1
  <2> QED  BY <2>1, Extremes
<1> DEFINE k == (IF mx THEN -n ELSE n) * Power(2, (low + d) - z)
                + (IF ~my THEN -m ELSE m) * Power(2, (low + e) - z)
<1>8. s = IF n = 0 /\ m > 0 THEN Exactly(~my, m, 1, low + e)
          ELSE IF n > 0 /\ m = 0 THEN Exactly(mx, n, 1, low + d)
          ELSE Exactly(IF k = 0 THEN mx /\ ~my ELSE k < 0, IF k < 0 THEN -k ELSE k, 1, z)
  <2> DEFINE v == Exact(f, x)
             w == Exact(f, Negated(f, y))
  <2>1. /\ v = Exactly(mx, n, 1, low + d) /\ v.num = n /\ v.minus = mx /\ v.exp = low + d
        /\ w = Exactly(~my, m, 1, low + e) /\ w.num = m /\ w.minus = ~my /\ w.exp = low + e
    BY <1>2, <1>4 DEF Exactly
  <2>2. s = Sum(v, w)
    OBVIOUS
  <2> HIDE DEF v, w, s, mx, my, z
  <2>3. Min({v.exp, w.exp}) = z
    BY <1>7, <2>1
  <2>4. Numerator(v, z) + Numerator(w, z) = k
    BY <2>1 DEF Numerator
  <2> HIDE DEF k
  <2> QED  BY <2>1, <2>2, <2>3, <2>4 DEF Sum
<1>9. k = (IF mx THEN -p ELSE p) + (IF my THEN q ELSE -q)
  <2>1. Power(2, (low + d) - z) \in Nat /\ Power(2, (low + e) - z) \in Nat
    <3>1. (low + d) - z \in Nat /\ (low + e) - z \in Nat
      BY <1>1
    <3> QED  BY <3>1, Twos
  <2>2. /\ (-n) * Power(2, (low + d) - z) = -p
        /\ (-m) * Power(2, (low + e) - z) = -q
    BY <2>1
  <2> QED  BY <1>1, <2>2
<1> HIDE DEF s, mx, my, a, b, u, low, rx, ry, z, p, q, k
<1>10. SignOf(s) = IF s.num = 0 THEN {2} ELSE IF s.minus THEN {0} ELSE {1}
  BY DEF SignOf
<1>11. CASE n = 0 /\ m > 0
  <2>1. s.num # 0 /\ s.minus = ~my
    BY <1>8, <1>11 DEF Exactly
  <2>2. rx = 0 /\ b > 0 /\ (my => ry < rx) /\ (~my => rx < ry) /\ rx \in Int /\ ry \in Int
    <3>1. a = 0 /\ b > 0
      BY <1>1, <1>6, <1>11
    <3>2. CASE mx = TRUE
      <4>1. -a = 0 - a
        BY <1>1
      <4>2. rx = 0 - a
        BY <1>1, <3>2, <4>1
      <4>3. rx = 0
        BY <3>1, <4>2
      <4> QED  BY <1>1, <3>1, <4>3
    <3>3. CASE mx = FALSE
      BY <1>1, <3>1, <3>3
    <3> QED  BY <1>1, <3>2, <3>3
  <2>3. CASE my = TRUE
    <3>2. s.minus = FALSE
      BY <2>1, <2>3
    <3>1. s.minus = FALSE /\ ry < rx /\ ~(rx < ry)
      BY <2>2, <2>3, <3>2
    <3> QED  BY <1>10, <2>1, <3>1 DEF s, rx, ry
  <2>4. CASE my = FALSE
    BY <1>10, <2>1, <2>2, <2>4 DEF s, rx, ry
  <2> QED  BY <1>1, <2>3, <2>4
<1>12. CASE n > 0 /\ m = 0
  <2>1. s.num # 0 /\ s.minus = mx
    BY <1>8, <1>12 DEF Exactly
  <2>2. ry = 0 /\ a > 0 /\ (mx => rx < ry) /\ (~mx => ry < rx) /\ rx \in Int /\ ry \in Int
    <3>1. a > 0 /\ b = 0
      BY <1>1, <1>6, <1>12
    <3>2. CASE my = TRUE
      <4>1. -b = 0 - b
        BY <1>1
      <4>2. ry = 0 - b
        BY <1>1, <3>2, <4>1
      <4>3. ry = 0
        BY <3>1, <4>2
      <4> QED  BY <1>1, <3>1, <4>3
    <3>3. CASE my = FALSE
      BY <1>1, <3>1, <3>3
    <3> QED  BY <1>1, <3>2, <3>3
  <2>3. CASE mx
    BY <1>10, <2>1, <2>2, <2>3 DEF s, rx, ry
  <2>4. CASE ~mx
    BY <1>10, <2>1, <2>2, <2>4 DEF s, rx, ry
  <2> QED  BY <2>3, <2>4
<1>13. CASE ~(n = 0 /\ m > 0) /\ ~(n > 0 /\ m = 0)
  <2>1. k \in Int /\ rx \in Int /\ ry \in Int
    BY <1>1, <1>6, <1>9
  <2>2. /\ rx < ry => k < 0
        /\ ry < rx => k > 0
        /\ rx = ry => k = 0
    <3>1. CASE mx /\ my
      BY <1>1, <1>6, <1>9, <3>1
    <3>2. CASE mx /\ ~my
      BY <1>1, <1>6, <1>9, <1>13, <3>2
    <3>3. CASE ~mx /\ my
      BY <1>1, <1>6, <1>9, <1>13, <3>3
    <3>4. CASE ~mx /\ ~my
      BY <1>1, <1>6, <1>9, <3>4
    <3> QED  BY <1>1, <3>1, <3>2, <3>3, <3>4
  <2>3. /\ s.num = (IF k < 0 THEN -k ELSE k)
        /\ k < 0 => s.minus = TRUE
        /\ k > 0 => s.minus = FALSE
    <3>1. s = Exactly(IF k = 0 THEN mx /\ ~my ELSE k < 0, IF k < 0 THEN -k ELSE k, 1, z)
      BY <1>8, <1>13
    <3>2. s.num = (IF k < 0 THEN -k ELSE k) /\ s.minus = (IF k = 0 THEN mx /\ ~my ELSE k < 0)
      BY <3>1 DEF Exactly
    <3>3. ASSUME k < 0 PROVE s.minus = TRUE
      <4>1. k # 0
        BY <2>1, <3>3
      <4> QED  BY <3>2, <3>3, <4>1
    <3>4. ASSUME k > 0 PROVE s.minus = FALSE
      <4>1. k # 0 /\ ~(k < 0)
        BY <2>1, <3>4
      <4>2. s.minus = (k < 0) /\ (k < 0) = FALSE
        BY <3>2, <4>1
      <4> QED  BY <4>2
    <3> QED  BY <3>2, <3>3, <3>4
  <2>4. CASE rx < ry
    <3>1. k < 0 /\ s.num # 0 /\ s.minus = TRUE
      BY <2>1, <2>2, <2>3, <2>4
    <3> QED  BY <1>10, <2>4, <3>1 DEF s, rx, ry
  <2>5. CASE ry < rx
    <3>1. k > 0 /\ s.num # 0 /\ s.minus = FALSE /\ ~(rx < ry)
      BY <2>1, <2>2, <2>3, <2>5
    <3> QED  BY <1>10, <2>5, <3>1 DEF s, rx, ry
  <2>6. CASE rx = ry
    <3>1. k = 0 /\ s.num = 0 /\ ~(rx < ry) /\ ~(ry < rx)
      BY <2>1, <2>2, <2>3, <2>6
    <3> QED  BY <1>10, <3>1 DEF s, rx, ry
  <2> QED  BY <2>1, <2>4, <2>5, <2>6
<1> QED  BY <1>11, <1>12, <1>13

LEMMA CompareStep ==
  ASSUME TypeOK, [Next]_vars
  PROVE  [at' # at =>
            /\ ir.op = "fcmpu" /\ (IsNaN(Double, A) \/ IsNaN(Double, B)) => cr'[ir.bf] = {3}
            /\ ir.op = "fcmpu" /\ IsSingle(A) /\ IsSingle(B) =>
                 cr'[ir.bf] = SignOf(Sum(Exact(Double, A), Exact(Double, Negated(Double, B))))
            /\ \A f \in Field : cr'[f] # cr[f] =>
                 \/ ir.op = "fcmpu" /\ f = ir.bf
                 \/ ir.op \in Arithmetic \cup Moves /\ ir.rc /\ f = 0]_vars
<1>1. CASE Step
  <2>1. ~Done /\ IsInstruction(ir)
    BY <1>1, ProgramsAre DEF TypeOK, Step, Goes
  <2>2. CASE Compare
    <3>1. ir.op = "fcmpu" /\ ir.bf \in Field /\ A \in Patterns(Double) /\ B \in Patterns(Double)
      BY <2>1, <2>2, OperandsAre DEF Compare, A, B, TypeOK
    <3>2. cr'[ir.bf] = IF Unordered THEN {3} ELSE IF Less(A, B) THEN {0}
                       ELSE IF Less(B, A) THEN {1} ELSE {2}
      BY <2>2, <3>1 DEF Compare, TypeOK
    <3>3. \A f \in Field : cr'[f] # cr[f] => f = ir.bf
      BY <2>2 DEF Compare, TypeOK
    <3>4. ASSUME IsSingle(A), IsSingle(B)
          PROVE  cr'[ir.bf] = SignOf(Sum(Exact(Double, A), Exact(Double, Negated(Double, B))))
      <4>1. ~Unordered /\ Finite(A) /\ Finite(B)
        BY <3>4 DEF IsSingle, Finite, Unordered
      <4>2. Magnitude(Double, A) < Infinity(Double) /\ Magnitude(Double, B) < Infinity(Double)
        <5>1. /\ Magnitude(Double, A) \in Nat /\ Magnitude(Double, B) \in Nat /\ Infinity(Double) \in Nat
          BY <3>1, Formats, PatternTyped, Bounds
        <5> QED  BY <4>1, <5>1 DEF Finite, IsNaN, IsInfinite
      <4>3. (Less(A, B) <=> Rank(Double, A) < Rank(Double, B))
            /\ (Less(B, A) <=> Rank(Double, B) < Rank(Double, A))
        BY <4>1 DEF Less, Finite
      <4>4. SignOf(Sum(Exact(Double, A), Exact(Double, Negated(Double, B))))
              = IF Rank(Double, A) < Rank(Double, B) THEN {0}
                ELSE IF Rank(Double, B) < Rank(Double, A) THEN {1} ELSE {2}
        BY <3>1, <4>2, Formats, DifferenceSign
      <4> QED  BY <3>2, <4>1, <4>3, <4>4
    <3> QED  BY <3>1, <3>2, <3>3, <3>4 DEF Unordered
  <2>3. CASE Compute \/ Move
    <3>1. ir.op # "fcmpu" /\ ir.op \in Arithmetic \cup Moves /\ ir.rc \in BOOLEAN
      <4>1. ir.op \in Arithmetic \cup Moves
        BY <2>3 DEF Compute, Move
      <4> QED  BY <2>1, <4>1, OperandsAre DEF Arithmetic, Moves
    <3>2. PICK x : Record(x)
      BY <2>3 DEF Compute, Move
    <3>3. \A f \in Field : cr'[f] # cr[f] => ir.rc /\ f = 0
      BY <3>1, <3>2 DEF Record, TypeOK
    <3> QED  BY <3>1, <3>3
  <2>4. CASE Load \/ Store
    <3>1. ir.op # "fcmpu" /\ cr' = cr
      BY <2>4 DEF Load, Store
    <3> QED  BY <3>1
  <2> QED  BY <1>1, <2>2, <2>3, <2>4 DEF Step
<1>2. CASE at' = at
  BY <1>2
<1> QED  BY <1>1, <1>2 DEF Next, Fail, vars

(* fcmpu sets the bit of the sign of the exact difference, of equality for  *)
(* the two zeros and of unordered for a NaN, and no other field of CR       *)
(* changes, but for field 0 under a record form.                            *)
THEOREM ComparesCorrect == Spec => ComparesAsOrdered
BY TypeInit, TypeNext, CompareStep, PTL DEF Spec, ComparesAsOrdered

-----------------------------------------------------------------------------
(* Rounding twice: what NearestEven returns, of scaled and of rounded numbers. *)

LEMMA NearestIs ==
  ASSUME NEW n \in Nat, NEW d \in Nat \ {0}
  PROVE  \E q \in Nat, r \in 0 .. d - 1 :
           /\ n = d * q + r /\ q = n \div d /\ r = n % d
           /\ 2 * r < d => NearestEven(n, d) = q
           /\ 2 * r > d => NearestEven(n, d) = q + 1
           /\ NearestEven(n, d) \in {q, q + 1}
<1> DEFINE q == n \div d
           r == n % d
<1>1. n = d * q + r /\ r \in 0 .. d - 1 /\ q \in Int
  BY Division
<1>2. q \in Nat /\ NearestEven(n, d) \in {q, q + 1}
  <2>1. \A a \in Nat, b \in Nat \ {0} : a \div b \in Nat
    OBVIOUS
  <2> QED  BY <2>1, NearestTyped
<1>3. NearestEven(n, d) = q + (IF 2 * r > d \/ (2 * r = d /\ q % 2 = 1) THEN 1 ELSE 0)
  BY DEF NearestEven
<1> DEFINE k == NearestEven(n, d)
<1>4. ASSUME 2 * r < d PROVE k = q
  <2> HIDE DEF q, r, k
  <2>1. ~(2 * r > d) /\ ~(2 * r = d) /\ q + 0 = q
    BY <1>1, <1>2, <1>4
  <2> QED  BY <1>3, <2>1 DEF k
<1>5. ASSUME 2 * r > d PROVE k = q + 1
  BY <1>3, <1>5
<1> HIDE DEF k, q, r
<1> QED  BY <1>1, <1>2, <1>4, <1>5 DEF k, q, r

(* The nearest multiple of d is at most half of d away, between any two *)
(* multiples that n is between.                                         *)
LEMMA NearestWithin ==
  ASSUME NEW n \in Nat, NEW d \in Nat \ {0}
  PROVE  LET k == NearestEven(n, d) IN
         /\ k \in Nat /\ 2 * n <= 2 * (k * d) + d /\ 2 * (k * d) <= 2 * n + d
         /\ \A a \in Nat : a * d <= n => a <= k
         /\ \A b \in Nat : n <= b * d => k <= b
<1> DEFINE k == NearestEven(n, d)
<1>1. PICK q \in Nat, r \in 0 .. d - 1 :
        /\ n = d * q + r
        /\ 2 * r < d => k = q
        /\ 2 * r > d => k = q + 1
        /\ k \in {q, q + 1}
  BY NearestIs
<1> HIDE DEF k
<1>2. k \in Nat /\ d * q \in Nat
  BY <1>1
<1>3. 2 * n <= 2 * (k * d) + d /\ 2 * (k * d) <= 2 * n + d
  <2>1. CASE k = q
    <3>1. 2 * r <= d
      BY <1>1, <2>1
    <3>2. k * d = d * q
      BY <1>1, <2>1
    <3> QED  BY <1>1, <1>2, <3>1, <3>2
  <2>2. CASE k = q + 1
    <3>1. 2 * r >= d
      BY <1>1, <2>2
    <3>2. k * d = d * q + d
      BY <1>1, <2>2
    <3> QED  BY <1>1, <1>2, <3>1, <3>2
  <2> QED  BY <1>1, <2>1, <2>2
<1>4. ASSUME NEW a \in Nat, a * d <= n PROVE a <= k
  <2>1. SUFFICES ASSUME a >= q + 1 PROVE FALSE
    BY <1>1, <1>2
  <2>2. a * d >= (q + 1) * d /\ (q + 1) * d = d * q + d /\ a * d \in Nat
    BY <2>1
  <2> QED  BY <1>1, <1>2, <1>4, <2>2
<1>5. ASSUME NEW b \in Nat, n <= b * d PROVE k <= b
  <2>1. b >= q
    <3>1. SUFFICES ASSUME b + 1 <= q PROVE FALSE
      BY <1>1
    <3>2. (b + 1) * d <= q * d /\ (b + 1) * d = b * d + d /\ q * d = d * q /\ b * d \in Nat
      BY <3>1
    <3> QED  BY <1>1, <1>2, <1>5, <3>2
  <2>2. CASE b = q
    <3>1. b * d = d * q
      BY <1>1, <2>2
    <3>2. r = 0
      BY <1>1, <1>2, <1>5, <3>1
    <3>3. 2 * r < d
      BY <3>2
    <3> QED  BY <1>1, <2>2, <3>3
  <2> QED  BY <1>1, <1>2, <2>1, <2>2
<1> QED  BY <1>2, <1>3, <1>4, <1>5 DEF k

(* Less than half of d away is nearest. *)
LEMMA NearestUnique ==
  ASSUME NEW n \in Nat, NEW d \in Nat \ {0}, NEW k \in Nat,
         2 * n < 2 * (k * d) + d, 2 * (k * d) < 2 * n + d
  PROVE  NearestEven(n, d) = k
<1> DEFINE j == NearestEven(n, d)
<1>1. j \in Nat /\ 2 * n <= 2 * (j * d) + d /\ 2 * (j * d) <= 2 * n + d
  BY NearestWithin
<1> HIDE DEF j
<1>2. j * d \in Nat /\ k * d \in Nat
  BY <1>1
<1>3. ASSUME k + 1 <= j PROVE FALSE
  <2>1. (k + 1) * d <= j * d /\ (k + 1) * d = k * d + d
    BY <1>1, <1>3
  <2> QED  BY <1>1, <1>2, <2>1
<1>4. ASSUME j + 1 <= k PROVE FALSE
  <2>1. (j + 1) * d <= k * d /\ (j + 1) * d = j * d + d
    BY <1>1, <1>4
  <2> QED  BY <1>1, <1>2, <2>1
<1>5. j = k
  BY <1>1, <1>3, <1>4
<1> QED  BY <1>5 DEF j

LEMMA NearestScale ==
  ASSUME NEW n \in Nat, NEW d \in Nat \ {0}, NEW c \in Nat \ {0}
  PROVE  NearestEven(n * c, d * c) = NearestEven(n, d) /\ d * c \in Nat \ {0} /\ n * c \in Nat
<1> DEFINE q == n \div d
           r == n % d
           x == n * c
           e == d * c
           s == r * c
<1>1. n = d * q + r /\ r \in 0 .. d - 1 /\ q \in Int
  BY Division
<1>2. e \in Nat \ {0} /\ x \in Nat
  OBVIOUS
<1> HIDE DEF q, r
<1>3. (d * q + r) * c = (d * c) * q + r * c
  BY <1>1
<1>4. x = e * q + s
  BY <1>1, <1>3
<1>5. s \in 0 .. e - 1
  <2>1. r * c \in Nat /\ (r + 1) * c <= d * c /\ (r + 1) * c = r * c + c
    BY <1>1
  <2> QED  BY <1>2, <2>1
<1>6. /\ 2 * s > e <=> 2 * r > d
      /\ 2 * s = e <=> 2 * r = d
  <2> DEFINE a == 2 * r
  <2>1. 2 * s = a * c
    BY <1>1
  <2>2. a \in Nat
    BY <1>1
  <2> HIDE DEF a
  <2>3. /\ a > d => a * c > d * c
        /\ a = d => a * c = d * c
        /\ a < d => a * c < d * c
    BY <2>2
  <2>4. a * c \in Nat
    BY <2>2
  <2> HIDE DEF s, e
  <2>5. /\ a * c > e <=> a > d
        /\ a * c = e <=> a = d
    BY <1>2, <2>2, <2>3, <2>4 DEF e
  <2> QED  BY <2>1, <2>5 DEF a
<1> HIDE DEF x, e, s
<1>7. x % e = s /\ x \div e = q
  BY <1>1, <1>2, <1>4, <1>5, Remains
<1>8. NearestEven(x, e) = q + (IF 2 * s > e \/ (2 * s = e /\ q % 2 = 1) THEN 1 ELSE 0)
  BY <1>7 DEF NearestEven
<1>9. NearestEven(n, d) = q + (IF 2 * r > d \/ (2 * r = d /\ q % 2 = 1) THEN 1 ELSE 0)
  BY DEF NearestEven, q, r
<1> QED  BY <1>2, <1>6, <1>8, <1>9 DEF x, e

(* Rounding to multiples of d first loses nothing for multiples of 2 * h * d, *)
(* unless it makes a tie.                                                 *)
LEMMA NearestTwice ==
  ASSUME NEW n \in Nat, NEW d \in Nat \ {0}, NEW h \in Nat \ {0},
         NearestEven(n, d) % (2 * h) = h => n = NearestEven(n, d) * d
  PROVE  NearestEven(NearestEven(n, d), 2 * h) = NearestEven(n, d * (2 * h))
<1> DEFINE g == 2 * h
           k == NearestEven(n, d)
           j == NearestEven(k, g)
           left == k % g
<1>1. k \in Nat /\ 2 * n <= 2 * (k * d) + d /\ 2 * (k * d) <= 2 * n + d
  BY NearestWithin
<1>2. left = h => n = k * d
  OBVIOUS
<1> HIDE DEF k
<1>3. g \in Nat \ {0} /\ g = 2 * h /\ d * g \in Nat \ {0} /\ k * d \in Nat
  BY <1>1
<1>4. PICK q \in Nat, r \in 0 .. g - 1 :
        /\ k = g * q + r /\ r = left
        /\ 2 * r < g => j = q
        /\ 2 * r > g => j = q + 1
        /\ j \in {q, q + 1}
  <2>1. g \in Nat \ {0}
    BY <1>3
  <2> HIDE DEF g
  <2> QED  BY <1>1, <2>1, NearestIs
<1> HIDE DEF left, g
<1>5. CASE r = h
  <2>1. n = k * d /\ g * d = d * g
    BY <1>1, <1>2, <1>3, <1>4, <1>5
  <2>2. NearestEven(k * d, g * d) = NearestEven(k, g)
    BY <1>1, <1>3, NearestScale
  <2> QED  BY <2>1, <2>2 DEF k, g
<1>6. CASE r # h
  <2> HIDE DEF j
  <2>1. /\ j \in Nat /\ g * q \in Nat
        /\ k + 1 <= j * g + h /\ j * g + 1 <= k + h
    <3>1. CASE 2 * r < g
      <4>1. j = q /\ j * g = g * q /\ g * q \in Nat
        BY <1>3, <1>4, <3>1
      <4> QED  BY <1>3, <1>4, <3>1, <4>1
    <3>2. CASE ~(2 * r < g)
      <4>1. j = q + 1 /\ j * g = g * q + g /\ g * q \in Nat
        BY <1>3, <1>4, <1>6, <3>2
      <4> QED  BY <1>3, <1>4, <1>6, <3>2, <4>1
    <3> QED  BY <3>1, <3>2
  <2> DEFINE a == j * g
             x == k * d
             y == a * d
             w == h * d
  <2>2. a \in Nat /\ k + 1 <= a + h /\ a + 1 <= k + h
    BY <1>3, <2>1
  <2> HIDE DEF a
  <2>3. (k + 1) * d <= (a + h) * d /\ (a + 1) * d <= (k + h) * d
    BY <1>1, <2>2
  <2>4. /\ (k + 1) * d = x + d /\ (a + h) * d = y + w /\ (a + 1) * d = y + d /\ (k + h) * d = x + w
        /\ x \in Nat /\ y \in Nat /\ w \in Nat /\ d * g = 2 * w
    BY <1>1, <1>3, <2>2
  <2>5. j * (d * g) = y
    BY <1>3, <2>1 DEF a
  <2>6. 2 * n <= 2 * x + d /\ 2 * x <= 2 * n + d
    BY <1>1
  <2> HIDE DEF x, y, w
  <2>7. 2 * n < 2 * y + 2 * w /\ 2 * y < 2 * n + 2 * w
    BY <2>3, <2>4, <2>6
  <2> DEFINE e == d * g
  <2>8. e \in Nat \ {0} /\ 2 * n < 2 * (j * e) + e /\ 2 * (j * e) < 2 * n + e
    BY <1>3, <2>4, <2>5, <2>7
  <2> HIDE DEF e
  <2>9. NearestEven(n, e) = j
    BY <2>1, <2>8, NearestUnique
  <2> QED  BY <2>9 DEF j, k, e, g
<1> QED  BY <1>5, <1>6

-----------------------------------------------------------------------------
(* The place of a rounding, counted from low: the exponent of one unit. *)

(* The value of v in units of 2^low, times its denominator. *)
Size(v, low) == v.num * Power(2, v.exp - low)

(* In these units z is the place of the last of m + 1 bits of n / d, but p *)
(* at the least.                                                           *)
IsPlace(m, p, n, d, z) ==
  /\ z \in Nat /\ z >= p
  /\ n < d * Power(2, z + m + 1)
  /\ z > p => d * Power(2, z + m) <= n

Rounds(f, p, n, d, z) == (z - p) * Power(2, f.frac) + NearestEven(n, d * Power(2, z))
Capped(f, m) == IF Infinity(f) <= m THEN Infinity(f) ELSE m

(* Products keep an order. *)
LEMMA TimesGrow ==
  ASSUME NEW a \in Nat, NEW b \in Nat, a <= b, NEW c \in Nat
  PROVE  a * c <= b * c /\ c * a <= c * b /\ a * c \in Nat /\ c * a \in Nat /\ a * c = c * a
OBVIOUS

LEMMA TimesLess ==
  ASSUME NEW a \in Nat, NEW b \in Nat, a < b, NEW c \in Nat \ {0}
  PROVE  a * c < b * c /\ c * a < c * b
OBVIOUS

LEMMA QuotientIs ==
  ASSUME NEW n \in Nat, NEW d \in Nat \ {0}
  PROVE  LET q == n \div d IN
         q \in Nat /\ d * q <= n /\ n < d * (q + 1) /\ (n >= d => q # 0)
<1> DEFINE q == n \div d
           r == n % d
<1>1. n = d * q + r /\ r \in 0 .. d - 1 /\ q \in Int
  <2>1. n \in Int
    OBVIOUS
  <2> QED  BY <2>1, Division
<1>2. q \in Nat
  <2>1. \A a \in Nat, b \in Nat \ {0} : a \div b \in Nat
    OBVIOUS
  <2> QED  BY <2>1
<1> HIDE DEF q, r
<1>3. d * (q + 1) = d * q + d /\ d * q \in Nat /\ (q = 0 => d * q = 0)
  BY <1>2
<1> QED  BY <1>1, <1>2, <1>3 DEF q

(* Log gives the leading bit of a value, or a negative number below one. *)
LEMMA LogLeads ==
  ASSUME NEW v, IsExact(v), v.num # 0, NEW low \in Int, low <= v.exp
  PROVE  \E l \in Int :
           /\ l = Log(v) + v.exp - low
           /\ l >= 0 => v.den * Power(2, l) <= Size(v, low) /\ Size(v, low) < v.den * Power(2, l + 1)
           /\ l < 0 => Size(v, low) < v.den
<1> DEFINE n == v.num
           d == v.den
           x == v.exp - low
           p == Power(2, x)
           s == Size(v, low)
<1>1. n \in Nat \ {0} /\ d \in Nat \ {0} /\ v.exp \in Int /\ x \in Nat
  BY DEF IsExact
<1>2. p \in Nat \ {0} /\ s = n * p
  BY <1>1, Twos DEF Size
<1>3. CASE n >= d
  <2> DEFINE q == n \div d
             k == Log2(q)
             a == Power(2, k)
             b == Power(2, k + 1)
  <2>2. q \in Nat \ {0} /\ d * q <= n /\ n < d * (q + 1)
    BY <1>1, <1>3, QuotientIs
  <2>3. k \in Nat /\ a <= q /\ q < b
    <3> HIDE DEF q
    <3> QED  BY <2>2, Log2Leads DEF Leads
  <2>4. Log(v) = k
    BY <1>3 DEF Log
  <2> HIDE DEF k
  <2>5. a \in Nat /\ b \in Nat
    BY <2>3, Twos
  <2>6. d * a <= n /\ n < d * b
    <3> HIDE DEF a, b, q, n, d
    <3>2. d * a <= d * q /\ d * (q + 1) <= d * b
      BY <1>1, <2>2, <2>3, <2>5
    <3>3. d * a \in Nat /\ d * q \in Nat /\ d * b \in Nat /\ d * (q + 1) \in Nat
      BY <1>1, <2>2, <2>5
    <3> QED  BY <1>1, <2>2, <3>2, <3>3
  <2>7. Power(2, k + x) = a * p /\ Power(2, (k + 1) + x) = b * p
    <3>1. k + 1 \in Nat
      BY <2>3
    <3> QED  BY <1>1, <2>3, <3>1, TwosAdd
  <2>8. (d * a) * p <= n * p /\ n * p < (d * b) * p
    <3>1. d * a \in Nat /\ d * b \in Nat
      BY <1>1, <2>5
    <3> HIDE DEF a, b, p, n, d
    <3> QED  BY <1>1, <1>2, <2>6, <3>1
  <2>9. d * (a * p) = (d * a) * p /\ d * (b * p) = (d * b) * p
    <3> HIDE DEF a, b, p, n, d
    <3> QED  BY <1>1, <1>2, <2>5
  <2> DEFINE l == k + x
  <2>10. l \in Nat /\ l = Log(v) + v.exp - low /\ (k + 1) + x = l + 1
    BY <1>1, <2>3, <2>4
  <2>11. d * Power(2, l) <= s /\ s < d * Power(2, l + 1)
    BY <1>2, <2>7, <2>8, <2>9, <2>10
  <2> HIDE DEF l, s
  <2> QED  BY <2>10, <2>11 DEF s
<1>4. CASE n < d
  <2> DEFINE q == (d - 1) \div n
             k == Log2(q)
             a == Power(2, k)
             b == Power(2, k + 1)
  <2>2. q \in Nat \ {0} /\ n * q <= d - 1 /\ d - 1 < n * (q + 1)
    <3>1. d - 1 \in Nat /\ d - 1 >= n
      BY <1>1, <1>4
    <3> QED  BY <1>1, <3>1, QuotientIs
  <2>3. k \in Nat /\ a <= q /\ q < b
    <3> HIDE DEF q
    <3> QED  BY <2>2, Log2Leads DEF Leads
  <2>4. Log(v) = -1 - k
    BY <1>1, <1>4 DEF Log
  <2> HIDE DEF k
  <2>5. a \in Nat \ {0} /\ b \in Nat \ {0}
    BY <2>3, Twos
  <2>6. n * a < d /\ d <= n * b
    <3> HIDE DEF a, b, q, n, d
    <3>2. n * a <= n * q /\ n * (q + 1) <= n * b
      BY <1>1, <2>2, <2>3, <2>5
    <3>3. n * a \in Nat /\ n * q \in Nat /\ n * b \in Nat /\ n * (q + 1) \in Nat
      BY <1>1, <2>2, <2>5
    <3> QED  BY <1>1, <2>2, <3>2, <3>3
  <2> DEFINE l == x - (k + 1)
  <2>7. l \in Int /\ l = Log(v) + v.exp - low
    BY <1>1, <2>3, <2>4
  <2>8. ASSUME l >= 0 PROVE d * Power(2, l) <= s /\ s < d * Power(2, l + 1)
    <3> DEFINE c == Power(2, l)
               e == Power(2, l + 1)
    <3>1. l \in Nat /\ l + 1 \in Nat /\ k + 1 \in Nat /\ (k + 1) + l = x /\ k + (l + 1) = x
      BY <1>1, <2>3, <2>7, <2>8
    <3> HIDE DEF l
    <3>2. c \in Nat \ {0} /\ e \in Nat \ {0} /\ p = b * c /\ p = a * e
      BY <2>3, <3>1, Twos, TwosAdd
    <3> HIDE DEF a, b, c, e, p, n, d
    <3>3. d * c <= (n * b) * c /\ (n * a) * e < d * e
      <4>1. n * a \in Nat /\ n * b \in Nat
        BY <1>1, <2>5
      <4> QED  BY <1>1, <2>6, <3>2, <4>1
    <3>4. (n * b) * c = n * p /\ (n * a) * e = n * p
      BY <1>1, <2>5, <3>2
    <3> QED  BY <1>2, <3>3, <3>4 DEF c, e
  <2>9. ASSUME l < 0 PROVE s < d
    <3>1. x <= k
      BY <1>1, <2>3, <2>9
    <3>2. p <= a
      BY <1>1, <2>3, <3>1, TwosGrow
    <3>3. n * p <= n * a /\ n * p \in Nat /\ n * a \in Nat
      <4> HIDE DEF a, p, n
      <4> QED  BY <1>1, <1>2, <2>5, <3>2
    <3> QED  BY <1>1, <1>2, <2>6, <3>3
  <2> HIDE DEF l, s
  <2> QED  BY <2>7, <2>8, <2>9 DEF s
<1> QED  BY <1>1, <1>3, <1>4

LEMMA PlaceUnique ==
  ASSUME NEW m \in Nat, NEW p \in Nat, NEW n \in Nat, NEW d \in Nat \ {0},
         NEW y, NEW z, IsPlace(m, p, n, d, y), IsPlace(m, p, n, d, z)
  PROVE  y = z
<1>1. ASSUME NEW a, NEW b, IsPlace(m, p, n, d, a), IsPlace(m, p, n, d, b), a < b PROVE FALSE
  <2>1. a \in Nat /\ b \in Nat /\ n < d * Power(2, a + m + 1) /\ d * Power(2, b + m) <= n
    BY <1>1 DEF IsPlace
  <2>2. a + m + 1 \in Nat /\ b + m \in Nat /\ a + m + 1 <= b + m
    BY <1>1, <2>1
  <2> DEFINE s == Power(2, a + m + 1)
             t == Power(2, b + m)
  <2>3. s <= t /\ s \in Nat /\ t \in Nat
    BY <2>2, TwosGrow, Twos
  <2> HIDE DEF s, t
  <2>4. d * s <= d * t /\ d * s \in Nat /\ d * t \in Nat
    BY <2>3
  <2> QED  BY <2>1, <2>4 DEF s, t
<1>2. y \in Nat /\ z \in Nat
  BY DEF IsPlace
<1> QED  BY <1>1, <1>2

LEMMA PlaceScale ==
  ASSUME NEW m \in Nat, NEW p \in Nat, NEW n \in Nat, NEW d \in Nat \ {0}, NEW c \in Nat \ {0},
         NEW z, IsPlace(m, p, n, d, z)
  PROVE  IsPlace(m, p, n * c, d * c, z)
<1>1. /\ z \in Nat /\ z >= p /\ n < d * Power(2, z + m + 1)
      /\ z > p => d * Power(2, z + m) <= n
  BY DEF IsPlace
<1> DEFINE s == Power(2, z + m)
           t == Power(2, z + m + 1)
<1>2. s \in Nat /\ t \in Nat
  <2>1. z + m \in Nat /\ z + m + 1 \in Nat
    BY <1>1
  <2> QED  BY <2>1, Twos
<1> HIDE DEF s, t
<1>3. n * c < (d * t) * c /\ (d * s <= n => (d * s) * c <= n * c)
  <2>1. d * t \in Nat /\ d * s \in Nat /\ n < d * t
    BY <1>1, <1>2 DEF t
  <2> QED  BY <2>1
<1>4. (d * t) * c = (d * c) * t /\ (d * s) * c = (d * c) * s
  BY <1>2
<1> QED  BY <1>1, <1>3, <1>4 DEF IsPlace, s, t

(* Rounding, in units of 2^low. *)
LEMMA RoundAt ==
  ASSUME NEW f, IsFormat(f), NEW v, IsExact(v), v.num # 0, NEW low \in Int, low <= v.exp, low <= Least(f)
  PROVE  LET p == Least(f) - low
             n == Size(v, low) IN
         /\ p \in Nat /\ n \in Nat \ {0}
         /\ \E z \in Nat :
              /\ IsPlace(f.frac, p, n, v.den, z)
              /\ Round(f, v) = WithSign(f, v.minus, Capped(f, Rounds(f, p, n, v.den, z)))
              /\ Rounds(f, p, n, v.den, z) \in Nat
<1> DEFINE p == Least(f) - low
           n == Size(v, low)
           d == v.den
           m == f.frac
           u == Power(2, f.frac)
           last == LastPlace(f, v)
           z == last - low
           x == v.exp - low
           shift == v.exp - last
           k == IF shift >= 0 THEN NearestEven(v.num * Power(2, shift), d)
                              ELSE NearestEven(v.num, d * Power(2, -shift))
<1>1. /\ v.num \in Nat \ {0} /\ d \in Nat \ {0} /\ v.exp \in Int /\ x \in Nat /\ v.minus \in BOOLEAN
      /\ Least(f) \in Int /\ m \in Nat /\ u \in Nat \ {0} /\ p \in Nat /\ Infinity(f) \in Nat
  BY Bounds DEF IsExact, IsFormat
<1>2. n = v.num * Power(2, x) /\ Power(2, x) \in Nat \ {0} /\ n \in Nat \ {0}
  <2>1. Power(2, x) \in Nat \ {0} /\ n = v.num * Power(2, x)
    BY <1>1, Twos DEF Size
  <2> DEFINE s == Power(2, x)
  <2> HIDE DEF s, n
  <2> QED  BY <1>1, <2>1 DEF s
<1>3. PICK l \in Int :
        /\ l = Log(v) + v.exp - low
        /\ l >= 0 => d * Power(2, l) <= n /\ n < d * Power(2, l + 1)
        /\ l < 0 => n < d
  BY LogLeads
<1>4. /\ last \in Int /\ z \in Nat /\ z >= p /\ x - z = shift
      /\ z = IF p >= l - m THEN p ELSE l - m
  <2>1. Log(v) \in Int
    BY LogTyped
  <2> DEFINE a == Least(f)
             b == Log(v) + v.exp - m
  <2>2. a \in Int /\ b \in Int /\ last = Max({a, b})
    BY <1>1, <2>1 DEF LastPlace
  <2>3. b = (l - m) + low
    BY <1>1, <1>3, <2>1
  <2>4. p = a - low
    OBVIOUS
  <2>8. l - m \in Int /\ (l - m) + low \in Int
    BY <1>1
  <2> HIDE DEF a, b, last, p, m
  <2>5. last = IF a >= b THEN a ELSE b
    BY <2>2, Extremes
  <2>6. last \in Int /\ z = IF p >= l - m THEN p ELSE l - m
    <3>1. CASE a >= b
      <4>1. last = a /\ p >= l - m
        BY <1>1, <2>2, <2>3, <2>4, <2>5, <3>1
      <4> QED  BY <2>2, <2>4, <4>1
    <3>2. CASE ~(a >= b)
      <4>1. last = b /\ ~(p >= l - m)
        BY <2>2, <2>3, <2>4, <2>5, <2>8, <3>2
      <4>2. last - low = l - m
        BY <2>3, <2>8, <4>1
      <4> QED  BY <2>2, <4>1, <4>2
    <3> QED  BY <3>1, <3>2
  <2>7. z >= p
    BY <1>1, <2>6
  <2> QED  BY <1>1, <2>6, <2>7
<1>5. Round(f, v) = WithSign(f, v.minus, Min({Infinity(f), (last - Least(f)) * u + k}))
  <2>1. Round(f, v) = WithSign(f, v.minus, IF v.num = 0 THEN 0
                                           ELSE Min({Infinity(f), (last - Least(f)) * u + k}))
    BY DEF Round
  <2> HIDE DEF last, k, u
  <2> QED  BY <2>1
<1> HIDE DEF last
<1>6. (last - Least(f)) = z - p
  BY <1>1, <1>4
<1> HIDE DEF n, p, z, x, u
<1>7. IsPlace(m, p, n, d, z)
  <2>1. /\ z + m + 1 \in Nat /\ z + m \in Nat
    BY <1>1, <1>4
  <2> DEFINE t == Power(2, z + m + 1)
  <2>2. t \in Nat \ {0}
    BY <2>1, Twos
  <2>3. CASE p >= l - m
    <3>1. z = p
      BY <1>4, <2>3
    <3>2. CASE l >= 0
      <4>1. l + 1 \in Nat /\ l + 1 <= z + m + 1
        BY <1>1, <1>3, <2>3, <3>1, <3>2
      <4> DEFINE s == Power(2, l + 1)
      <4>2. s <= t /\ s \in Nat
        BY <2>1, <4>1, TwosGrow, Twos
      <4>3. n < d * s
        BY <1>3, <3>2
      <4> HIDE DEF s, t
      <4>4. n < d * t
        BY <1>1, <1>2, <2>2, <4>2, <4>3, TimesGrow
      <4> QED  BY <1>4, <3>1, <4>4 DEF IsPlace, t
    <3>3. CASE l < 0
      <4> HIDE DEF t
      <4>1. d * 1 <= d * t /\ d * t \in Nat
        BY <1>1, <2>2
      <4>2. n < d * t
        BY <1>1, <1>2, <1>3, <3>3, <4>1
      <4> QED  BY <1>4, <3>1, <4>2 DEF IsPlace, t
    <3> QED  BY <1>3, <3>2, <3>3
  <2>4. CASE ~(p >= l - m)
    <3>1. z = l - m /\ z + m = l /\ z + m + 1 = l + 1 /\ l >= 0
      BY <1>1, <1>3, <1>4, <2>4
    <3> QED  BY <1>3, <1>4, <3>1 DEF IsPlace
  <2> QED  BY <2>3, <2>4
<1>8. k = NearestEven(n, d * Power(2, z))
  <2>1. CASE shift >= 0
    <3>1. shift \in Nat /\ x = shift + z
      BY <1>1, <1>4, <2>1
    <3> DEFINE a == Power(2, shift)
               b == Power(2, z)
    <3>2. a \in Nat \ {0} /\ b \in Nat \ {0} /\ Power(2, x) = a * b
      BY <1>4, <3>1, Twos, TwosAdd
    <3>3. k = NearestEven(v.num * a, d)
      BY <2>1
    <3> HIDE DEF a, b, shift, k, d
    <3>4. (v.num * a) * b = n /\ v.num * a \in Nat
      BY <1>1, <1>2, <3>2
    <3>5. NearestEven((v.num * a) * b, d * b) = NearestEven(v.num * a, d)
      BY <1>1, <3>2, <3>4, NearestScale
    <3> QED  BY <3>3, <3>4, <3>5 DEF b
  <2>2. CASE ~(shift >= 0)
    <3>1. -shift \in Nat /\ z = (-shift) + x
      BY <1>1, <1>4, <2>2
    <3> DEFINE a == Power(2, -shift)
               b == Power(2, x)
    <3>2. a \in Nat \ {0} /\ b \in Nat \ {0} /\ Power(2, z) = a * b
      BY <1>1, <3>1, Twos, TwosAdd
    <3>3. k = NearestEven(v.num, d * a)
      BY <2>2
    <3>6. n = v.num * b
      BY <1>2
    <3> HIDE DEF a, b, shift, k, d
    <3>4. (d * a) * b = d * (a * b) /\ d * a \in Nat \ {0} /\ v.num \in Nat
      BY <1>1, <3>2
    <3>5. NearestEven(v.num * b, (d * a) * b) = NearestEven(v.num, d * a)
      BY <3>2, <3>4, NearestScale
    <3> QED  BY <3>2, <3>3, <3>4, <3>5, <3>6
  <2> QED  BY <2>1, <2>2
<1> DEFINE r == Rounds(f, p, n, d, z)
<1>9. r = (z - p) * u + k
  BY <1>8 DEF Rounds, u
<1>10. r \in Nat
  <2>1. z - p \in Nat
    BY <1>1, <1>4
  <2>2. (z - p) * u \in Nat
    BY <1>1, <2>1
  <2>3. NearestEven(n, d * Power(2, z)) \in Nat
    <3> DEFINE b == Power(2, z)
    <3>1. b \in Nat \ {0}
      BY <1>4, Twos
    <3> HIDE DEF b, d
    <3>2. d * b \in Nat \ {0}
      BY <1>1, <3>1
    <3>3. n \in Nat
      BY <1>2
    <3>4. NearestEven(n, d * b) \in Nat
      BY <3>2, <3>3, NearestTyped
    <3> QED  BY <3>4 DEF b, d
  <2> QED  BY <1>8, <1>9, <2>2, <2>3
<1>11. Round(f, v) = WithSign(f, v.minus, Capped(f, r))
  <2>1. Round(f, v) = WithSign(f, v.minus, Min({Infinity(f), r}))
    BY <1>5, <1>6, <1>9
  <2> HIDE DEF r
  <2>2. Min({Infinity(f), r}) = Capped(f, r)
    <3>1. r \in Int /\ Infinity(f) \in Int
      BY <1>1, <1>10
    <3> QED  BY <3>1, Extremes DEF Capped
  <2> QED  BY <2>1, <2>2
<1> QED  BY <1>1, <1>2, <1>4, <1>7, <1>10, <1>11 DEF p, n

(* Rounding sees the value only: not in which terms it is written. *)
LEMMA RoundSame ==
  ASSUME NEW f, IsFormat(f), NEW v, IsExact(v), NEW w, IsExact(w), v.minus = w.minus,
         NEW low \in Int, low <= v.exp, low <= w.exp, low <= Least(f),
         NEW c \in Nat \ {0}, Size(v, low) = Size(w, low) * c, v.den = w.den * c
  PROVE  Round(f, v) = Round(f, w)
<1>1. /\ v.num \in Nat /\ w.num \in Nat /\ v.den \in Nat \ {0} /\ w.den \in Nat \ {0}
      /\ Power(2, v.exp - low) \in Nat \ {0} /\ Power(2, w.exp - low) \in Nat \ {0}
  <2>1. v.exp - low \in Nat /\ w.exp - low \in Nat
    BY DEF IsExact
  <2> QED  BY <2>1, Twos DEF IsExact
<1>2. /\ v.num = 0 <=> Size(v, low) = 0
      /\ w.num = 0 <=> Size(w, low) = 0
      /\ Size(w, low) \in Nat
  <2> DEFINE a == Power(2, v.exp - low)
             b == Power(2, w.exp - low)
             i == v.num
             j == w.num
  <2>1. a \in Nat \ {0} /\ b \in Nat \ {0} /\ Size(v, low) = i * a /\ Size(w, low) = j * b
    BY <1>1 DEF Size
  <2>2. i \in Nat /\ j \in Nat
    BY <1>1
  <2> HIDE DEF a, b, i, j
  <2> QED  BY <2>1, <2>2 DEF i, j
<1>3. CASE v.num = 0
  <2>1. w.num = 0
    BY <1>2, <1>3
  <2> QED  BY <1>3, <2>1 DEF Round
<1>4. CASE v.num # 0
  <2>1. w.num # 0
    BY <1>2, <1>4
  <2> DEFINE p == Least(f) - low
             n == Size(w, low)
             d == w.den
  <2>2. /\ p \in Nat /\ n \in Nat /\ d \in Nat \ {0} /\ f.frac \in Nat /\ n * c \in Nat /\ d * c \in Nat \ {0}
    <3>1. p \in Nat /\ f.frac \in Nat
      BY Bounds DEF IsFormat
    <3> HIDE DEF n, d
    <3> QED  BY <1>1, <1>2, <3>1 DEF n, d
  <2>3. PICK z \in Nat :
          /\ IsPlace(f.frac, p, n, d, z)
          /\ Round(f, w) = WithSign(f, w.minus, Capped(f, Rounds(f, p, n, d, z)))
    BY <2>1, RoundAt
  <2>4. PICK y \in Nat :
          /\ IsPlace(f.frac, p, n * c, d * c, y)
          /\ Round(f, v) = WithSign(f, v.minus, Capped(f, Rounds(f, p, n * c, d * c, y)))
    BY <1>4, RoundAt
  <2> HIDE DEF p, n, d
  <2>5. y = z
    <3>1. IsPlace(f.frac, p, n * c, d * c, z)
      BY <2>2, <2>3, PlaceScale
    <3> QED  BY <2>2, <2>4, <3>1, PlaceUnique
  <2>6. Rounds(f, p, n * c, d * c, z) = Rounds(f, p, n, d, z)
    <3> DEFINE b == Power(2, z)
    <3>1. b \in Nat \ {0}
      BY Twos
    <3> HIDE DEF b
    <3>2. (d * c) * b = (d * b) * c /\ d * b \in Nat \ {0}
      BY <2>2, <3>1
    <3>3. NearestEven(n * c, (d * b) * c) = NearestEven(n, d * b)
      BY <2>2, <3>2, NearestScale
    <3> QED  BY <3>2, <3>3 DEF Rounds, b
  <2> QED  BY <2>3, <2>4, <2>5, <2>6
<1> QED  BY <1>3, <1>4

(* A pattern below infinity splits in one way into a place and a number, but *)
(* that twice the hidden bit is the hidden bit of the next place.            *)
LEMMA SameNumber ==
  ASSUME NEW u \in Nat \ {0}, NEW d \in Nat, NEW e \in Nat, NEW k \in Nat, NEW n \in Nat,
         k <= 2 * u, n < 2 * u, d > 0 => k >= u, e > 0 => n >= u, d * u + k = e * u + n
  PROVE  (e = d /\ n = k) \/ (e = d + 1 /\ n = u /\ k = 2 * u)
<1>1. d * u \in Nat /\ e * u \in Nat
  OBVIOUS
<1>2. CASE e >= d + 2
  <2>1. e * u >= (d + 2) * u /\ (d + 2) * u = d * u + 2 * u
    BY <1>2
  <2> QED  BY <1>1, <1>2, <2>1
<1>3. CASE e = d + 1
  <2>1. e * u = d * u + u
    BY <1>3
  <2> QED  BY <1>1, <1>3, <2>1
<1>4. CASE e = d
  <2>1. e * u = d * u
    BY <1>4
  <2> QED  BY <1>1, <1>4, <2>1
<1>5. CASE e + 1 <= d
  <2>1. d * u >= (e + 1) * u /\ (e + 1) * u = e * u + u
    BY <1>5
  <2> QED  BY <1>1, <1>5, <2>1
<1> QED  BY <1>2, <1>3, <1>4, <1>5

LEMMA PatternSize ==
  ASSUME NEW f, IsFormat(f), NEW minus \in BOOLEAN, NEW d \in Nat, NEW k \in Nat,
         k <= 2 * Power(2, f.frac), d > 0 => k >= Power(2, f.frac),
         d * Power(2, f.frac) + k < Infinity(f)
  PROVE  LET y == WithSign(f, minus, d * Power(2, f.frac) + k)
             w == Exact(f, y) IN
         /\ y \in Patterns(f) /\ Magnitude(f, y) \in Nat /\ Magnitude(f, y) < Infinity(f)
         /\ IsExact(w) /\ w.minus = minus /\ w.den = 1 /\ w.exp >= Least(f)
         /\ \A low \in Int : low <= Least(f) => Size(w, low) = k * Power(2, d + (Least(f) - low))
<1> DEFINE u == Power(2, f.frac)
           m == d * u + k
           y == WithSign(f, minus, m)
           w == Exact(f, y)
<1>1. /\ u \in Nat \ {0} /\ Least(f) \in Int /\ k <= 2 * u /\ (d > 0 => k >= u) /\ m < Infinity(f)
      /\ Infinity(f) \in Nat /\ SignWeight(f) \in Nat /\ Infinity(f) < SignWeight(f)
  BY Bounds
<1>2. m \in Nat /\ m \in 0 .. SignWeight(f) - 1
  <2> HIDE DEF u
  <2>1. m \in Nat
    BY <1>1
  <2> HIDE DEF m
  <2> QED  BY <1>1, <2>1
<1> HIDE DEF m
<1>3. y \in Patterns(f) /\ (Minus(f, y) <=> minus) /\ Magnitude(f, y) = m
  BY <1>2, SignedIs
<1>4. Minus(f, y) = minus
  BY <1>3 DEF Minus
<1> HIDE DEF y
<1>5. PICK e, n \in Nat :
        /\ IsNumber(f, e, n)
        /\ m = e * u + n
        /\ w = Exactly(Minus(f, y), n, 1, Least(f) + e)
  BY <1>1, <1>3, ExactIs
<1>6. (e = d /\ n = k) \/ (e = d + 1 /\ n = u /\ k = 2 * u)
  <2>1. n < 2 * u /\ (e > 0 => n >= u)
    BY <1>1, <1>5 DEF IsNumber
  <2>2. d * u + k = e * u + n
    BY <1>5 DEF m
  <2> HIDE DEF u
  <2> QED  BY <1>1, <2>1, <2>2, SameNumber
<1>7. w.num = n /\ w.minus = minus /\ w.den = 1 /\ w.exp = Least(f) + e
  BY <1>4, <1>5 DEF Exactly
<1>8. IsExact(w) /\ w.exp >= Least(f)
  BY <1>1, <1>7 DEF IsExact
<1> HIDE DEF w, u
<1>9. ASSUME NEW low \in Int, low <= Least(f)
      PROVE  Size(w, low) = k * Power(2, d + (Least(f) - low))
  <2> DEFINE i == d + (Least(f) - low)
             p == Power(2, i)
  <2>1. i \in Nat
    BY <1>1, <1>9
  <2>2. p \in Nat \ {0} /\ Power(2, i + 1) = 2 * p
    BY <2>1, Twos, PowerSteps
  <2>3. CASE e = d /\ n = k
    <3>1. w.exp - low = i
      BY <1>1, <1>7, <2>3
    <3> QED  BY <1>7, <2>3, <3>1 DEF Size
  <2>4. CASE e = d + 1 /\ n = u /\ k = 2 * u
    <3>1. w.exp - low = i + 1
      BY <1>1, <1>7, <2>4
    <3>2. Size(w, low) = u * (2 * p)
      BY <1>7, <2>2, <2>4, <3>1 DEF Size
    <3> HIDE DEF p
    <3>3. u * (2 * p) = k * p
      BY <1>1, <2>2, <2>4
    <3> QED  BY <3>2, <3>3 DEF p
  <2> QED  BY <1>6, <2>3, <2>4
<1> QED  BY <1>1, <1>2, <1>3, <1>7, <1>8, <1>9 DEF w, y, m, u

(* The number that rounding keeps. *)
LEMMA KeptIs ==
  ASSUME NEW m \in Nat, NEW p \in Nat, NEW n \in Nat, NEW d \in Nat \ {0}, NEW z, IsPlace(m, p, n, d, z)
  PROVE  LET k == NearestEven(n, d * Power(2, z)) IN
         /\ z \in Nat /\ d * Power(2, z) \in Nat \ {0} /\ k \in Nat /\ k <= 2 * Power(2, m)
         /\ z > p => k >= Power(2, m)
<1> DEFINE t == Power(2, z)
           u == Power(2, m)
           e == d * t
           k == NearestEven(n, e)
<1>1. /\ z \in Nat /\ z >= p /\ n < d * Power(2, z + m + 1)
      /\ z > p => d * Power(2, z + m) <= n
  BY DEF IsPlace
<1>2. /\ t \in Nat \ {0} /\ u \in Nat \ {0} /\ Power(2, z + m) = t * u
      /\ Power(2, z + m + 1) = (t * u) * 2
  <2>1. z + m \in Nat /\ (z + m) + 1 = z + m + 1
    BY <1>1
  <2>2. Power(2, (z + m) + 1) = 2 * Power(2, z + m) /\ Power(2, z + m) = t * u
    BY <1>1, <2>1, PowerSteps, TwosAdd
  <2>3. t \in Nat \ {0} /\ u \in Nat \ {0}
    BY <1>1, Twos
  <2> HIDE DEF t, u
  <2>4. 2 * (t * u) = (t * u) * 2
    BY <2>3
  <2> QED  BY <2>1, <2>2, <2>3, <2>4
<1> HIDE DEF t, u
<1>3. e \in Nat \ {0} /\ d * (t * u) = u * e /\ d * ((t * u) * 2) = (2 * u) * e
  BY <1>2
<1> HIDE DEF e
<1>4. n <= (2 * u) * e /\ (z > p => u * e <= n) /\ 2 * u \in Nat
  <2>1. (2 * u) * e \in Nat /\ n < (2 * u) * e
    BY <1>1, <1>2, <1>3
  <2> QED  BY <1>1, <1>2, <1>3, <2>1
<1>5. k \in Nat /\ k <= 2 * u /\ (z > p => u <= k)
  BY <1>2, <1>3, <1>4, NearestWithin
<1> HIDE DEF k
<1>6. z > p => k >= u
  BY <1>2, <1>5
<1> QED  BY <1>1, <1>3, <1>5, <1>6 DEF e, t, u, k

(* The leading bit of n / d, unless it lies below the least place, is the same *)
(* for every format.                                                          *)
LEMMA SameLead ==
  ASSUME NEW a \in Nat, NEW b \in Nat, NEW p \in Nat, NEW q \in Nat, NEW n \in Nat, NEW d \in Nat \ {0},
         NEW y, NEW z, IsPlace(a, p, n, d, y), IsPlace(b, q, n, d, z), y > p
  PROVE  y \in Nat /\ z \in Nat /\ y + a <= z + b
<1>1. /\ y \in Nat /\ d * Power(2, y + a) <= n
      /\ z \in Nat /\ n < d * Power(2, z + b + 1)
  BY DEF IsPlace
<1>2. ASSUME z + b + 1 <= y + a PROVE FALSE
  <2>1. z + b + 1 \in Nat /\ y + a \in Nat
    BY <1>1
  <2> DEFINE s == Power(2, z + b + 1)
             t == Power(2, y + a)
  <2>2. s <= t /\ s \in Nat /\ t \in Nat
    BY <1>2, <2>1, TwosGrow, Twos
  <2> HIDE DEF s, t
  <2>3. d * s <= d * t /\ d * s \in Nat /\ d * t \in Nat
    BY <2>2
  <2> QED  BY <1>1, <2>3 DEF s, t
<1> QED  BY <1>1, <1>2

(* The coarser format keeps fewer places. *)
LEMMA PlacesApart ==
  ASSUME NEW fs \in Nat, NEW fd \in Nat, fs < fd, NEW ps \in Nat, NEW pd \in Nat, pd < ps,
         NEW n \in Nat, NEW d \in Nat \ {0}, NEW zs, NEW zd,
         IsPlace(fs, ps, n, d, zs), IsPlace(fd, pd, n, d, zd)
  PROVE  zs \in Nat /\ zd \in Nat /\ zd < zs
<1>1. zs \in Nat /\ zs >= ps /\ zd \in Nat /\ zd >= pd
  BY DEF IsPlace
<1>2. zd > pd => zd + fd <= zs + fs
  BY SameLead
<1> QED  BY <1>1, <1>2

-----------------------------------------------------------------------------
(* A double is rounded to a float as what it was rounded from, unless it is a *)
(* tie between floats.                                                       *)

(* What is left when n / d has been rounded to whole units of 2^zd. *)
Kept(n, d, zd) == NearestEven(n, d * Power(2, zd))

(* The finer rounding does not put n / d on a tie of the coarser, unless it is there. *)
NoTie(n, d, zd, zs) ==
  Kept(n, d, zd) % Power(2, zs - zd) = Power(2, (zs - zd) - 1) => n = Kept(n, d, zd) * (d * Power(2, zd))

LEMMA CoarseOfFine ==
  ASSUME NEW fs \in Nat, NEW ps \in Nat, NEW n \in Nat, NEW d \in Nat \ {0}, NEW zd \in Nat, NEW zs \in Nat,
         zd < zs, IsPlace(fs, ps, n, d, zs), NoTie(n, d, zd, zs)
  PROVE  LET k == Kept(n, d, zd) * Power(2, zd)
             u == Power(2, fs) IN
         /\ k \in Nat
         /\ \E z \in Nat :
              /\ IsPlace(fs, ps, k, 1, z)
              /\ (z - ps) * u + NearestEven(k, 1 * Power(2, z))
                   = (zs - ps) * u + NearestEven(n, d * Power(2, zs))
         /\ zs > ps => k >= Power(2, zs + fs)
<1> DEFINE x == Kept(n, d, zd)
           t == Power(2, zd)
           z == Power(2, zs)
           g == zs - zd
           h == Power(2, g - 1)
           u == Power(2, fs)
           j == NearestEven(n, d * z)
           k == x * t
           e == d * t
           w == Power(2, zs + fs + 1)
<1>1. /\ zs >= ps /\ n < d * w
      /\ zs > ps => d * Power(2, zs + fs) <= n
  BY DEF IsPlace
<1>2. g \in Nat \ {0} /\ g - 1 \in Nat /\ zs = zd + g
  OBVIOUS
<1>3. /\ t \in Nat \ {0} /\ h \in Nat \ {0} /\ u \in Nat \ {0} /\ Power(2, g) = 2 * h /\ z = t * (2 * h)
  <2>1. Power(2, zd + g) = t * Power(2, g) /\ Power(2, g) = 2 * h /\ h \in Nat \ {0}
    BY <1>2, Twos, TwosAdd
  <2> QED  BY <1>2, <2>1, Twos
<1>4. Power(2, zs + fs) = z * u /\ w = 2 * (z * u)
  <2>1. zs + fs \in Nat /\ (zs + fs) + 1 = zs + fs + 1
    OBVIOUS
  <2> QED  BY <2>1, PowerSteps, TwosAdd
<1>5. x % (2 * h) = h => n = x * e
  BY <1>3 DEF NoTie
<1> HIDE DEF t, z, g, h, u, w
<1>6. e \in Nat \ {0} /\ d * z = e * (2 * h) /\ z \in Nat \ {0} /\ 2 * h \in Nat \ {0}
  BY <1>3
<1>7. x = NearestEven(n, e)
  BY DEF Kept, t
<1> HIDE DEF x, e
<1>8. x \in Nat /\ (\A a \in Nat : a * e <= n => a <= x) /\ (\A b \in Nat : n <= b * e => x <= b)
  BY <1>6, <1>7, NearestWithin
<1>9. NearestEven(x, 2 * h) = j
  <2>1. NearestEven(NearestEven(n, e), 2 * h) = NearestEven(n, e * (2 * h))
    BY <1>3, <1>5, <1>6, <1>7, NearestTwice
  <2> QED  BY <1>6, <1>7, <2>1
<1>10. NearestEven(k, z) = j /\ k \in Nat
  <2>1. NearestEven(x * t, (2 * h) * t) = NearestEven(x, 2 * h) /\ (2 * h) * t = t * (2 * h)
    BY <1>3, <1>6, <1>8, NearestScale
  <2>2. k \in Nat
    BY <1>3, <1>8
  <2> QED  BY <1>3, <1>9, <2>1, <2>2
<1>11. k <= w /\ w \in Nat \ {0}
  <2> DEFINE q == 2 * ((2 * h) * u)
  <2>1. q \in Nat /\ q \in Int
    BY <1>3
  <2>2. q * e = d * w /\ w = q * t /\ w \in Nat \ {0} /\ d * w \in Nat
    <3>1. w = 2 * ((t * (2 * h)) * u)
      BY <1>3, <1>4
    <3>2. 2 * ((t * (2 * h)) * u) = q * t
      BY <1>3
    <3>3. q * (d * t) = d * (q * t)
      <4> HIDE DEF q
      <4> QED  BY <1>3, <2>1
    <3>4. q # 0
      BY <1>3
    <3> HIDE DEF q
    <3>5. q * t \in Nat \ {0}
      BY <1>3, <2>1, <3>4
    <3>6. d * w \in Nat
      BY <3>1, <3>2, <3>5
    <3> QED  BY <3>1, <3>2, <3>3, <3>5, <3>6 DEF e
  <2> HIDE DEF q
  <2>3. x <= q
    BY <1>1, <1>8, <2>1, <2>2
  <2>4. x * t <= q * t
    BY <1>3, <1>8, <2>1, <2>3
  <2> QED  BY <2>2, <2>4
<1>12. ASSUME zs > ps PROVE k >= Power(2, zs + fs)
  <2> DEFINE q == (2 * h) * u
  <2>1. q \in Nat
    BY <1>3
  <2>2. q * e = d * (z * u) /\ z * u = q * t
    <3>1. z * u = (t * (2 * h)) * u
      BY <1>3
    <3>2. (t * (2 * h)) * u = q * t
      BY <1>3
    <3>3. q * (d * t) = d * (q * t)
      <4> HIDE DEF q
      <4> QED  BY <1>3, <2>1
    <3> QED  BY <3>1, <3>2, <3>3 DEF e
  <2>5. d * (z * u) <= n
    BY <1>1, <1>4, <1>12
  <2> HIDE DEF q
  <2>3. q <= x
    BY <1>8, <2>1, <2>2, <2>5
  <2>4. q * t <= x * t /\ q * t \in Nat
    BY <1>3, <1>8, <2>1, <2>3
  <2> QED  BY <1>4, <1>10, <2>2, <2>4
<1> HIDE DEF k, j
<1>13. CASE k < w
  <2>1. IsPlace(fs, ps, k, 1, zs)
    <3>1. 1 * w = w /\ 1 * Power(2, zs + fs) = Power(2, zs + fs) /\ Power(2, zs + fs) \in Nat
      <4>1. Power(2, zs + fs) \in Nat
        BY <1>3, <1>4, <1>6
      <4> QED  BY <1>11, <4>1
    <3> QED  BY <1>1, <1>10, <1>12, <1>13, <3>1 DEF IsPlace, w
  <2>2. 1 * z = z
    BY <1>6
  <2>3. (zs - ps) * u + NearestEven(k, 1 * z) = (zs - ps) * u + j
    BY <1>10, <2>2
  <2> QED  BY <1>10, <1>12, <2>1, <2>3 DEF k, u, j, z, x, t
<1>14. CASE k = w
  <2> DEFINE y == zs + 1
             v == Power(2, y)
  <2>1. /\ y \in Nat /\ y >= ps /\ y > zs /\ y + fs + 1 = (zs + fs + 1) + 1 /\ y + fs = zs + fs + 1
        /\ zs + fs + 1 \in Nat
    BY <1>1
  <2>2. v = 2 * z /\ v \in Nat \ {0} /\ Power(2, y + fs + 1) = 2 * w
    BY <2>1, PowerSteps, Twos DEF w, z
  <2> HIDE DEF v
  <2>3. IsPlace(fs, ps, k, 1, y)
    <3>1. k < 1 * Power(2, y + fs + 1) /\ 1 * Power(2, y + fs) <= k
      BY <1>11, <1>14, <2>1, <2>2 DEF w
    <3> QED  BY <2>1, <3>1 DEF IsPlace
  <2>4. k = u * v /\ k = (2 * u) * z
    BY <1>3, <1>4, <1>6, <1>14, <2>2
  <2>5. NearestEven(k, 1 * v) = u
    <3>1. 1 * v = v
      BY <2>2
    <3> QED  BY <1>3, <2>2, <2>4, <3>1, NearestExact
  <2>6. j = 2 * u
    <3>1. 2 * u \in Nat
      BY <1>3
    <3>2. NearestEven((2 * u) * z, z) = 2 * u
      BY <1>6, <3>1, NearestExact
    <3> QED  BY <1>10, <2>4, <3>2
  <2>7. (y - ps) * u + u = (zs - ps) * u + 2 * u
    <3>1. y - ps = (zs - ps) + 1 /\ zs - ps \in Nat
      BY <1>1
    <3> DEFINE a == zs - ps
    <3>2. (a + 1) * u + u = a * u + 2 * u
      <4>1. a \in Nat
        BY <3>1
      <4> HIDE DEF a
      <4> QED  BY <1>3, <4>1
    <3> QED  BY <3>1, <3>2
  <2> HIDE DEF y
  <2> QED  BY <1>10, <1>12, <2>1, <2>3, <2>5, <2>6, <2>7 DEF k, u, j, z, x, t, v
<1> QED  BY <1>10, <1>11, <1>13, <1>14

LEMMA NarrowIs ==
  ASSUME NEW y \in Patterns(Double)
  PROVE  /\ Magnitude(Double, y) < Infinity(Double) => Narrow(y) = Round(Single, Exact(Double, y))
         /\ Magnitude(Double, y) = Infinity(Double) =>
              Narrow(y) = WithSign(Single, Minus(Double, y), Infinity(Single))
<1>1. Magnitude(Double, y) \in Nat /\ Infinity(Double) \in Nat
  BY Formats, PatternTyped, Bounds
<1>2. ASSUME Magnitude(Double, y) < Infinity(Double) PROVE ~IsNaN(Double, y) /\ ~IsInfinite(Double, y)
  BY <1>1, <1>2 DEF IsNaN, IsInfinite
<1>3. ASSUME Magnitude(Double, y) = Infinity(Double) PROVE ~IsNaN(Double, y) /\ IsInfinite(Double, y)
  BY <1>1, <1>3 DEF IsNaN, IsInfinite
<1> QED  BY <1>2, <1>3 DEF Narrow, Convert

(* What overflows the finer format overflows the coarser. *)
LEMMA Overflows ==
  ASSUME NEW low \in Int, low <= Least(Double), NEW n \in Nat, NEW d \in Nat \ {0}, NEW zd \in Nat, NEW zs \in Nat,
         IsPlace(Double.frac, Least(Double) - low, n, d, zd),
         IsPlace(Single.frac, Least(Single) - low, n, d, zs),
         Infinity(Double) <= Rounds(Double, Least(Double) - low, n, d, zd),
         Rounds(Single, Least(Single) - low, n, d, zs) \in Nat
  PROVE  Infinity(Single) <= Rounds(Single, Least(Single) - low, n, d, zs)
<1>1. PICK hs, hd \in Nat \ {0} :
    /\ hs < hd /\ Power(2, Single.exp) = 2 * hs /\ Power(2, Double.exp) = 2 * hd
    /\ Least(Single) = 2 - hs - Single.frac /\ Least(Double) = 2 - hd - Double.frac
    /\ Least(Single) \in Int /\ Least(Double) \in Int
    /\ Single.frac \in Nat /\ Double.frac \in Nat /\ Single.frac < Double.frac
    /\ hs >= 2 /\ 2 * hs <= hd /\ Double.frac >= 2 * Single.frac + 3
  BY Ranges
<1> DEFINE ps == Least(Single) - low
           pd == Least(Double) - low
           us == Power(2, Single.frac)
           ud == Power(2, Double.frac)
           k == NearestEven(n, d * Power(2, zd))
           j == NearestEven(n, d * Power(2, zs))
<1>2. us \in Nat \ {0} /\ ud \in Nat \ {0} /\ ps \in Nat /\ pd \in Nat
  BY <1>1, Twos
<1>3. Infinity(Single) = (2 * hs - 1) * us /\ Infinity(Double) = (2 * hd - 1) * ud
  BY <1>1 DEF Infinity
<1>4. k \in Nat /\ k <= 2 * ud /\ zd >= pd
  <2>1. zd >= pd
    BY DEF IsPlace
  <2> QED  BY <1>1, <1>2, <2>1, KeptIs
<1>5. (2 * hd - 1) * ud <= (zd - pd) * ud + k
  BY <1>3 DEF Rounds
<1>6. j \in Nat /\ zs >= ps
  <2>1. zs >= ps
    BY DEF IsPlace
  <2> QED  BY <1>1, <1>2, <2>1, KeptIs
<1>7. zd - pd >= 2 * hd - 3
  <2> DEFINE c == zd - pd
  <2>1. c \in Nat
    BY <1>2, <1>4
  <2> HIDE DEF c, ud, k
  <2>2. ASSUME c + 3 <= 2 * hd - 1 PROVE FALSE
    <3>1. (c + 3) * ud <= (2 * hd - 1) * ud /\ (c + 3) * ud = c * ud + 3 * ud /\ c * ud \in Nat
      BY <1>2, <2>1, <2>2
    <3> QED  BY <1>2, <1>4, <1>5, <3>1 DEF c
  <2>3. c + 3 > 2 * hd - 1
    BY <1>1, <2>1, <2>2
  <2>4. c >= 2 * hd - 3
    BY <1>1, <2>1, <2>3
  <2> QED  BY <2>4 DEF c
<1>8. zd + Double.frac <= zs + Single.frac
  <2>1. zd > pd
    BY <1>1, <1>2, <1>7
  <2> QED  BY <1>1, <1>2, <2>1, SameLead
<1>9. zs - ps >= 2 * hs - 1 /\ zs - ps \in Nat
  <2> DEFINE fs == Single.frac
             fd == Double.frac
             ls == Least(Single)
             ld == Least(Double)
  <2>1. /\ ls = 2 - hs - fs /\ ld = 2 - hd - fd /\ fs \in Nat /\ fd \in Nat /\ hs >= 2 /\ 2 * hs <= hd
        /\ zd + fd <= zs + fs /\ zd - (ld - low) >= 2 * hd - 3
    BY <1>1, <1>7, <1>8
  <2> HIDE DEF fs, fd, ls, ld
  <2>2. zs - (ls - low) >= 2 * hs - 1
    BY <1>1, <2>1
  <2> QED  BY <1>2, <1>6, <2>2 DEF ls
<1> DEFINE c == zs - ps
<1>10. c \in Nat /\ c >= 2 * hs - 1
  BY <1>9
<1>11. Rounds(Single, Least(Single) - low, n, d, zs) = c * us + j
  BY DEF Rounds
<1> HIDE DEF c, us, j
<1>12. (2 * hs - 1) * us <= c * us /\ c * us \in Nat /\ (2 * hs - 1) * us \in Nat
  BY <1>1, <1>2, <1>10
<1>13. (2 * hs - 1) * us <= c * us + j
  BY <1>6, <1>12
<1> QED  BY <1>3, <1>11, <1>13

(* Rounding to a double and then to a float is rounding to a float, as long as *)
(* the double is no tie between floats.                                       *)
LEMMA RoundTwice ==
  ASSUME NEW v, IsExact(v), v.num # 0, NEW low \in Int, low <= v.exp, low <= Least(Double),
         \A zd \in Nat, zs \in Nat :
           /\ IsPlace(Double.frac, Least(Double) - low, Size(v, low), v.den, zd)
           /\ IsPlace(Single.frac, Least(Single) - low, Size(v, low), v.den, zs)
           /\ zd < zs
           => NoTie(Size(v, low), v.den, zd, zs)
  PROVE  Narrow(Round(Double, v)) = Round(Single, v)
<1> DEFINE pd == Least(Double) - low
           ps == Least(Single) - low
           fd == Double.frac
           fs == Single.frac
           n == Size(v, low)
           d == v.den
           minus == v.minus
<1>1. /\ pd < ps /\ fs < fd /\ fs \in Nat /\ fd \in Nat /\ pd \in Nat /\ ps \in Nat
      /\ low <= Least(Single) /\ Least(Double) \in Int /\ Least(Single) \in Int
  <2>1. PICK hs, hd \in Nat \ {0} :
      /\ hs < hd /\ Power(2, Single.exp) = 2 * hs /\ Power(2, Double.exp) = 2 * hd
      /\ Least(Single) = 2 - hs - fs /\ Least(Double) = 2 - hd - fd
      /\ Least(Single) \in Int /\ Least(Double) \in Int
      /\ fs \in Nat /\ fd \in Nat /\ fs < fd
      /\ hs >= 2 /\ 2 * hs <= hd /\ fd >= 2 * fs + 3
    BY Ranges
  <2> HIDE DEF fs, fd
  <2>2. Least(Double) < Least(Single)
    BY <2>1
  <2> QED  BY <2>1, <2>2
<1>2. d \in Nat \ {0} /\ minus \in BOOLEAN
  BY DEF IsExact
<1>3. PICK zd \in Nat :
        /\ IsPlace(fd, pd, n, d, zd)
        /\ Round(Double, v) = WithSign(Double, minus, Capped(Double, Rounds(Double, pd, n, d, zd)))
        /\ Rounds(Double, pd, n, d, zd) \in Nat
  BY Formats, RoundAt
<1>4. PICK zs \in Nat :
        /\ IsPlace(fs, ps, n, d, zs)
        /\ Round(Single, v) = WithSign(Single, minus, Capped(Single, Rounds(Single, ps, n, d, zs)))
        /\ Rounds(Single, ps, n, d, zs) \in Nat
  BY <1>1, Formats, RoundAt
<1>5. n \in Nat
  BY Formats, RoundAt
<1>6. zd < zs
  BY <1>1, <1>2, <1>3, <1>4, <1>5, PlacesApart
<1>7. NoTie(n, d, zd, zs)
  BY <1>3, <1>4, <1>6
<1>20. \E z \in Nat :
          /\ IsPlace(fs, ps, Kept(n, d, zd) * Power(2, zd), 1, z)
          /\ (z - ps) * Power(2, fs) + NearestEven(Kept(n, d, zd) * Power(2, zd), 1 * Power(2, z))
               = (zs - ps) * Power(2, fs) + NearestEven(n, d * Power(2, zs))
  <2> HIDE DEF fs, ps, n, d
  <2>1. IsPlace(fs, ps, n, d, zs)
    BY <1>4
  <2>2. fs \in Nat /\ ps \in Nat /\ n \in Nat /\ d \in Nat \ {0} /\ zd \in Nat /\ zs \in Nat /\ zd < zs
    BY <1>1, <1>2, <1>3, <1>4, <1>5, <1>6
  <2>3. NoTie(n, d, zd, zs)
    BY <1>7
  <2> QED  BY <2>1, <2>2, <2>3, CoarseOfFine
<1> DEFINE x == Kept(n, d, zd)
           t == Power(2, zd)
           r == Rounds(Double, pd, n, d, zd)
           y == Round(Double, v)
           c == zd - pd
<1> HIDE DEF n, d, minus
<1>8. /\ x \in Nat /\ x <= 2 * Power(2, fd) /\ (zd > pd => x >= Power(2, fd)) /\ zd >= pd
      /\ t \in Nat \ {0}
  <2>1. zd >= pd
    BY <1>3 DEF IsPlace
  <2> QED  BY <1>1, <1>2, <1>3, <1>5, <2>1, KeptIs, Twos DEF Kept
<1>9. r = c * Power(2, fd) + x
  BY DEF Rounds, Kept
<1>10. Infinity(Double) \in Nat \ {0} /\ Infinity(Single) \in Nat \ {0}
  BY Formats, Bounds
<1>11. CASE r < Infinity(Double)
  <2>1. y = WithSign(Double, minus, c * Power(2, fd) + x)
    <3>1. Capped(Double, r) = r
      BY <1>3, <1>10, <1>11 DEF Capped
    <3> QED  BY <1>3, <1>9, <3>1
  <2> DEFINE w == Exact(Double, y)
  <2>2. c \in Nat /\ (c > 0 => x >= Power(2, fd))
    BY <1>1, <1>8
  <2>3. /\ y \in Patterns(Double) /\ Magnitude(Double, y) < Infinity(Double)
        /\ IsExact(w) /\ w.minus = minus /\ w.den = 1 /\ w.exp >= Least(Double)
        /\ Size(w, low) = x * Power(2, c + (Least(Double) - low))
    <3> HIDE DEF x, c
    <3> QED  BY <1>2, <1>8, <1>9, <1>11, <2>1, <2>2, Formats, PatternSize
  <2>4. Size(w, low) = x * t
    <3>1. c + (Least(Double) - low) = zd
      BY <1>1
    <3> QED  BY <2>3, <3>1
  <2>5. Narrow(y) = Round(Single, w)
    BY <2>3, NarrowIs
  <2> HIDE DEF w, y, x, r, c
  <2>6. PICK z \in Nat :
          /\ IsPlace(fs, ps, x * t, 1, z)
          /\ (z - ps) * Power(2, fs) + NearestEven(x * t, 1 * Power(2, z))
               = (zs - ps) * Power(2, fs) + NearestEven(n, d * Power(2, zs))
    BY <1>20 DEF x
  <2>7. Rounds(Single, ps, x * t, 1, z) = Rounds(Single, ps, n, d, zs)
    BY <2>6 DEF Rounds
  <2>8. x * t \in Nat /\ low <= w.exp /\ w.exp \in Int /\ (x = 0 <=> x * t = 0)
    <3>1. x * t \in Nat /\ (x = 0 <=> x * t = 0)
      <4> HIDE DEF t
      <4> QED  BY <1>8
    <3> QED  BY <1>1, <2>3, <3>1 DEF IsExact
  <2>9. CASE x # 0
    <3>1. w.num # 0
      <4>1. w.exp - low \in Nat
        BY <2>8
      <4> DEFINE q == Power(2, w.exp - low)
      <4>2. q \in Nat /\ Size(w, low) = w.num * q
        BY <4>1, Twos DEF Size
      <4> HIDE DEF q
      <4> QED  BY <2>4, <2>8, <2>9, <4>2
    <3>2. PICK z2 \in Nat :
            /\ IsPlace(fs, ps, x * t, 1, z2)
            /\ Round(Single, w) = WithSign(Single, minus, Capped(Single, Rounds(Single, ps, x * t, 1, z2)))
      BY <1>1, <2>3, <2>4, <2>8, <3>1, Formats, RoundAt
    <3>3. z2 = z
      <4> HIDE DEF t
      <4>1. 1 \in Nat \ {0}
        OBVIOUS
      <4> QED  BY <1>1, <2>6, <2>8, <3>2, <4>1, PlaceUnique
    <3> QED  BY <1>4, <2>5, <2>7, <3>2, <3>3 DEF y
  <2>10. CASE x = 0
    <3>1. w.num = 0
      <4>1. w.exp - low \in Nat /\ w.num \in Nat
        BY <2>3, <2>8 DEF IsExact
      <4> DEFINE q == Power(2, w.exp - low)
                 a == w.num
      <4>2. q \in Nat \ {0} /\ a * q = 0 /\ a \in Nat
        BY <2>4, <2>8, <2>10, <4>1, Twos DEF Size
      <4> HIDE DEF q, a
      <4>3. a = 0
        BY <4>2
      <4> QED  BY <4>3 DEF a
    <3>2. Round(Single, w) = WithSign(Single, minus, 0)
      BY <2>3, <3>1 DEF Round
    <3>3. Rounds(Single, ps, x * t, 1, z) = 0
      <4> DEFINE b == Power(2, z)
                 u == Power(2, fs)
      <4>1. b \in Nat \ {0} /\ u \in Nat
        BY <1>1, Twos
      <4>2. x * t = 0
        BY <2>8, <2>10
      <4>3. z = ps
        <5>1. z >= ps /\ (z > ps => 1 * Power(2, z + fs) <= 0)
          BY <2>6, <4>2 DEF IsPlace
        <5>2. z + fs \in Nat
          BY <1>1
        <5>3. Power(2, z + fs) \in Nat \ {0}
          BY <5>2, Twos
        <5> QED  BY <1>1, <5>1, <5>3
      <4>4. NearestEven(0, b) = 0
        <5> HIDE DEF b
        <5>1. 0 * b = 0
          BY <4>1
        <5>2. NearestEven(0 * b, b) = 0
          BY <4>1, NearestExact
        <5> QED  BY <5>1, <5>2
      <4>5. 1 * b = b
        BY <4>1
      <4>6. Rounds(Single, ps, x * t, 1, z) = 0 * u + NearestEven(0, b)
        <5>1. z - ps = 0
          BY <1>1, <4>3
        <5> QED  BY <4>2, <4>5, <5>1 DEF Rounds
      <4> QED  BY <4>1, <4>4, <4>6
    <3>4. Capped(Single, 0) = 0
      BY <1>10 DEF Capped
    <3> QED  BY <1>4, <2>5, <2>7, <3>2, <3>3, <3>4 DEF y
  <2> QED  BY <2>9, <2>10
<1>12. CASE Infinity(Double) <= r
  <2>1. y = WithSign(Double, minus, Infinity(Double))
    BY <1>3, <1>12 DEF Capped
  <2>2. Infinity(Double) \in 0 .. SignWeight(Double) - 1
    BY Formats, Bounds
  <2>3. /\ y \in Patterns(Double) /\ Magnitude(Double, y) = Infinity(Double)
        /\ (Minus(Double, y) <=> minus)
    <3> HIDE DEF y
    <3> QED  BY <1>2, <2>1, <2>2, Formats, SignedIs
  <2>4. Minus(Double, y) = minus
    BY <1>2, <2>3 DEF Minus
  <2>5. Narrow(y) = WithSign(Single, minus, Infinity(Single))
    BY <2>3, <2>4, NarrowIs
  <2>6. Infinity(Single) <= Rounds(Single, ps, n, d, zs)
    BY <1>2, <1>3, <1>4, <1>5, <1>12, Overflows
  <2> QED  BY <1>4, <2>5, <2>6 DEF Capped
<1> QED  BY <1>3, <1>10, <1>11, <1>12

-----------------------------------------------------------------------------
(* A float is the same number in double format. *)

(* One number, written in smaller units by w. *)
IsSame(v, w) ==
  /\ IsExact(v) /\ IsExact(w) /\ v.minus = w.minus /\ v.den = 1 /\ w.den = 1
  /\ w.exp <= v.exp /\ w.num = v.num * Power(2, v.exp - w.exp)

LEMMA SameSize ==
  ASSUME NEW v, NEW w, IsSame(v, w), NEW low \in Int, low <= w.exp
  PROVE  Size(v, low) = Size(w, low) /\ low <= v.exp /\ Size(v, low) \in Nat
<1> DEFINE a == v.exp
           b == w.exp
<1>1. a \in Int /\ b \in Int /\ b <= a /\ low <= b /\ v.num \in Nat /\ w.num = v.num * Power(2, a - b)
  BY DEF IsSame, IsExact
<1> HIDE DEF a, b
<1>2. a - b \in Nat /\ b - low \in Nat /\ (a - b) + (b - low) = a - low /\ low <= a
  BY <1>1
<1> DEFINE p == Power(2, a - b)
           q == Power(2, b - low)
<1>3. Power(2, a - low) = p * q /\ p \in Nat /\ q \in Nat
  <2>1. Power(2, (a - b) + (b - low)) = p * q
    BY <1>2, TwosAdd
  <2> QED  BY <1>2, <2>1, Twos
<1> DEFINE n == v.num
<1>4. Size(v, low) = n * (p * q) /\ Size(w, low) = (n * p) * q
  BY <1>1, <1>3 DEF Size, a, b
<1> HIDE DEF p, q, n
<1>5. n \in Nat
  BY <1>1 DEF n
<1>6. n * (p * q) = (n * p) * q /\ n * (p * q) \in Nat
  BY <1>3, <1>5
<1> QED  BY <1>2, <1>4, <1>6 DEF a

LEMMA NegatedExact ==
  ASSUME NEW f, IsFormat(f), NEW x \in Patterns(f)
  PROVE  LET v == Exact(f, x)
             w == Exact(f, Negated(f, x)) IN
         /\ v.minus = Minus(f, x) /\ w.minus = ~Minus(f, x)
         /\ w.num = v.num /\ w.den = v.den /\ w.exp = v.exp
<1> DEFINE y == Negated(f, x)
<1>1. y \in Patterns(f) /\ Magnitude(f, y) = Magnitude(f, x) /\ Minus(f, y) = ~Minus(f, x)
  BY PatternTyped
<1>2. f.frac \in Nat /\ f.frac <= f.exp + f.frac
  BY DEF IsFormat
<1>3. x % Power(2, f.frac) = y % Power(2, f.frac)
  <2> HIDE DEF y
  <2>1. x % Power(2, f.frac) = Magnitude(f, x) % Power(2, f.frac)
    BY <1>2, LowBits
  <2>2. y % Power(2, f.frac) = Magnitude(f, y) % Power(2, f.frac)
    BY <1>1, <1>2, LowBits
  <2> QED  BY <1>1, <2>1, <2>2
<1> QED  BY <1>1, <1>3 DEF Exact, Exactly

(* A float widened is the same number. *)
LEMMA WidenExact ==
  ASSUME NEW w \in Patterns(Single), Magnitude(Single, w) < Infinity(Single)
  PROVE  LET v == Exact(Single, w)
             x == Widen(w)
             y == Exact(Double, x) IN
         /\ IsSame(v, y) /\ v.minus = Minus(Single, w)
         /\ v.exp >= Least(Single) /\ y.exp >= Least(Double) /\ v.num < 2 * Power(2, Single.frac)
         /\ x \in Patterns(Double) /\ Magnitude(Double, x) < Infinity(Double)
<1> DEFINE minus == Minus(Single, w)
<1>1. PICK d, n \in Nat :
        /\ IsNumber(Single, d, n) /\ d + 3 <= Power(2, Single.exp)
        /\ Magnitude(Single, w) = d * Power(2, Single.frac) + n
        /\ Exact(Single, w) = Exactly(minus, n, 1, Least(Single) + d)
  BY Formats, ExactIs
<1>2. /\ Least(Single) \in Int /\ Least(Double) \in Int /\ Least(Double) <= Least(Single)
      /\ Power(2, Single.frac) \in Nat \ {0} /\ Power(2, Double.frac) \in Nat \ {0}
      /\ Power(2, Double.exp) \in Nat /\ Power(2, Double.exp) >= 3
  <2>1. PICK hs, hd \in Nat \ {0} :
      /\ hs < hd /\ Power(2, Single.exp) = 2 * hs /\ Power(2, Double.exp) = 2 * hd
      /\ Least(Single) = 2 - hs - Single.frac /\ Least(Double) = 2 - hd - Double.frac
      /\ Least(Single) \in Int /\ Least(Double) \in Int
      /\ Single.frac \in Nat /\ Double.frac \in Nat /\ Single.frac < Double.frac
    BY Ranges
  <2> DEFINE fs == Single.frac
             fd == Double.frac
  <2>3. fs \in Nat /\ fd \in Nat /\ fs < fd /\ Least(Single) = 2 - hs - fs /\ Least(Double) = 2 - hd - fd
    BY <2>1
  <2> HIDE DEF fs, fd
  <2>4. Least(Double) <= Least(Single)
    BY <2>1, <2>3
  <2>2. PICK t \in Nat \ {0} : t = Power(2, Double.exp) /\ t >= 4
    BY Formats, Weights
  <2> QED  BY <2>1, <2>2, <2>4, Twos
<1>3. minus \in BOOLEAN
  BY Formats, SignsAre
<1>4. n < 2 * Power(2, Single.frac)
  BY <1>1, <1>2 DEF IsNumber
<1>5. Widen(w) = Round(Double, Exactly(minus, n, 1, Least(Single) + d))
  <2>1. Infinity(Single) \in Nat /\ Magnitude(Single, w) \in Nat
    BY Formats, Bounds, PatternTyped
  <2>2. ~IsNaN(Single, w) /\ ~IsInfinite(Single, w)
    BY <2>1 DEF IsNaN, IsInfinite
  <2> QED  BY <1>1, <2>2 DEF Widen, Convert
<1> DEFINE e == Least(Single) + d
           v == Exact(Single, w)
<1>6. e \in Int /\ e >= Least(Single) /\ IsExact(v)
  BY <1>2, Formats, ExactTyped
<1>7. v.minus = minus /\ v.num = n /\ v.den = 1 /\ v.exp = e
  BY <1>1 DEF Exactly
<1> HIDE DEF minus, e, v
<1>8. SUFFICES \E y \in Patterns(Double), k \in Nat, z \in Int :
                 /\ y = Widen(w) /\ Magnitude(Double, y) < Infinity(Double)
                 /\ Exact(Double, y) = Exactly(minus, k, 1, z)
                 /\ z >= Least(Double) /\ z <= e /\ k = n * Power(2, e - z)
  <2>1. PICK y \in Patterns(Double), k \in Nat, z \in Int :
                 /\ y = Widen(w) /\ Magnitude(Double, y) < Infinity(Double)
                 /\ Exact(Double, y) = Exactly(minus, k, 1, z)
                 /\ z >= Least(Double) /\ z <= e /\ k = n * Power(2, e - z)
    BY <1>8
  <2> DEFINE r == Exact(Double, y)
  <2>2. r.minus = minus /\ r.num = k /\ r.den = 1 /\ r.exp = z /\ IsExact(r)
    BY <2>1, Formats, ExactTyped DEF Exactly
  <2> HIDE DEF r
  <2>3. IsSame(v, r)
    BY <1>6, <1>7, <2>1, <2>2 DEF IsSame
  <2> QED  BY <1>4, <1>6, <1>7, <2>1, <2>2, <2>3 DEF v, r, minus
<1>9. CASE n = 0
  <2>1. IsNumber(Double, 0, 0) /\ 0 + 3 <= Power(2, Double.exp)
    BY <1>2 DEF IsNumber
  <2>2. 0 * Power(2, Double.frac) + 0 = 0
    BY <1>2
  <2> DEFINE y == WithSign(Double, minus, 0)
  <2>3. /\ y \in Patterns(Double) /\ Magnitude(Double, y) = 0 /\ 0 < Infinity(Double)
        /\ Exact(Double, y) = Exactly(minus, 0, 1, Least(Double) + 0)
    BY <1>3, <2>1, <2>2, Formats, ExactFrom
  <2>4. Widen(w) = y
    BY <1>3, <1>5, <1>9, ZeroRounds
  <2> HIDE DEF y
  <2> DEFINE z == Least(Double) + 0
  <2>5. z \in Int /\ z >= Least(Double) /\ z <= e /\ e - z \in Nat
    BY <1>2, <1>6
  <2>6. 0 = n * Power(2, e - z)
    <3> DEFINE q == Power(2, e - z)
    <3>1. q \in Nat
      BY <2>5, Twos
    <3> HIDE DEF q
    <3>2. 0 = n * q
      BY <1>9, <3>1
    <3> QED  BY <3>2 DEF q
  <2> HIDE DEF z
  <2>7. 0 \in Nat
    OBVIOUS
  <2> QED  BY <2>3, <2>4, <2>5, <2>6, <2>7 DEF z
<1>10. CASE n # 0
  <2>1. PICK l, c, s \in Nat, k \in Nat \ {0} :
          /\ k = n * Power(2, s)
          /\ (Least(Double) + c) + s = e
          /\ IsNumber(Double, c, k) /\ c + 3 <= Power(2, Double.exp)
          /\ LastPlace(Double, Exactly(minus, n, 1, e)) = Least(Double) + c
    <3>1. n \in Nat \ {0}
      BY <1>10
    <3>2. PICK l, c, s \in Nat, k \in Nat \ {0} :
           /\ Leads(l, n) /\ Leads(l + s, k) /\ k = n * Power(2, s)
           /\ (Least(Double) + c) + s = Least(Single) + d
           /\ IsNumber(Double, c, k) /\ c + 3 <= Power(2, Double.exp)
           /\ LastPlace(Double, Exactly(minus, n, 1, Least(Single) + d)) = Least(Double) + c
           /\ LastPlace(Single, Exactly(minus, k, 1, Least(Double) + c)) = Least(Single) + d
      BY <1>1, <1>3, <3>1, Places
    <3> QED  BY <3>2 DEF e
  <2> DEFINE z == Least(Double) + c
  <2>2. z \in Int /\ z >= Least(Double) /\ z <= e /\ e - z = s
    BY <1>2, <1>6, <2>1
  <2>3. n \in Nat \ {0} /\ k \in Nat
    BY <1>10
  <2> DEFINE y == WithSign(Double, minus, c * Power(2, Double.frac) + k)
  <2>4. Widen(w) = y
    <3>1. (e >= z => k = n * Power(2, e - z)) /\ ~(e < z)
      BY <1>6, <2>1, <2>2
    <3>2. Fits(Double, minus, n, e, c, k)
      BY <2>1, <3>1 DEF Fits
    <3>3. Round(Double, Exactly(minus, n, 1, e)) = y
      BY <1>2, <1>3, <1>6, <2>1, <2>3, <3>2, Formats, RoundExact
    <3> QED  BY <1>5, <3>3 DEF e
  <2>5. /\ y \in Patterns(Double) /\ Magnitude(Double, y) < Infinity(Double)
        /\ Exact(Double, y) = Exactly(minus, k, 1, z)
    BY <1>3, <2>1, <2>3, Formats, ExactFrom
  <2> HIDE DEF y, z
  <2>6. k = n * Power(2, e - z)
    BY <2>1, <2>2
  <2> QED  BY <2>2, <2>3, <2>4, <2>5, <2>6
<1> QED  BY <1>9, <1>10

(* A double that is a float. *)
LEMMA SingleIs ==
  ASSUME NEW x \in Patterns(Double), IsSingle(x)
  PROVE  LET w == Narrow(x) IN
         /\ w \in Patterns(Single) /\ Magnitude(Single, w) < Infinity(Single) /\ x = Widen(w)
         /\ Magnitude(Double, x) < Infinity(Double)
         /\ ~IsNaN(Single, w) /\ ~IsInfinite(Single, w)
<1> DEFINE w == Narrow(x)
<1>1. /\ Magnitude(Double, x) \in Nat /\ Infinity(Double) \in Nat \ {0}
      /\ Infinity(Single) \in Nat \ {0} /\ Infinity(Single) < SignWeight(Single)
      /\ SignWeight(Single) \in Nat /\ Infinity(Double) < SignWeight(Double) /\ SignWeight(Double) \in Nat
  BY Formats, PatternTyped, Bounds
<1>2. Magnitude(Double, x) < Infinity(Double)
  BY <1>1 DEF IsSingle, Finite, IsNaN, IsInfinite
<1>3. w = Round(Single, Exact(Double, x)) /\ IsExact(Exact(Double, x))
  BY <1>2, Formats, NarrowIs, ExactTyped
<1>4. PICK m \in Nat : m <= Infinity(Single) /\ w = WithSign(Single, Exact(Double, x).minus, m)
  <2> DEFINE v == Exact(Double, x)
  <2> HIDE DEF v, w
  <2> QED  BY <1>3, Formats, RoundIs DEF v
<1>5. Exact(Double, x).minus \in BOOLEAN /\ m \in 0 .. SignWeight(Single) - 1
  BY <1>1, <1>3, <1>4 DEF IsExact
<1>6. w \in Patterns(Single) /\ Magnitude(Single, w) = m
  <2> DEFINE s == Exact(Double, x).minus
  <2> HIDE DEF s, w
  <2> QED  BY <1>4, <1>5, Formats, SignedIs DEF s
<1>7. x = Widen(w)
  BY DEF IsSingle
<1> HIDE DEF w
<1>8. m # Infinity(Single)
  <2> SUFFICES ASSUME m = Infinity(Single) PROVE FALSE
    OBVIOUS
  <2>1. ~IsNaN(Single, w) /\ IsInfinite(Single, w)
    BY <1>1, <1>6 DEF IsNaN, IsInfinite
  <2>2. x = WithSign(Double, Minus(Single, w), Infinity(Double))
    BY <1>7, <2>1 DEF Widen, Convert
  <2>3. Minus(Single, w) \in BOOLEAN /\ Infinity(Double) \in 0 .. SignWeight(Double) - 1
    BY <1>1, <1>6, Formats, PatternTyped
  <2>4. Magnitude(Double, x) = Infinity(Double)
    BY <2>2, <2>3, Formats, SignedIs
  <2> QED  BY <1>1, <1>2, <2>4
<1>9. Magnitude(Single, w) < Infinity(Single)
  BY <1>1, <1>4, <1>6, <1>8
<1>10. ~IsNaN(Single, w) /\ ~IsInfinite(Single, w)
  BY <1>1, <1>6, <1>9 DEF IsNaN, IsInfinite
<1> QED  BY <1>2, <1>6, <1>7, <1>9, <1>10 DEF w

-----------------------------------------------------------------------------
(* Sums, products and quotients of the same numbers are rounded alike. *)

(* The number of a sign and a size, and the size of a number. *)
Oriented(minus, n) == IF minus THEN 0 - n ELSE n
Amount(n) == IF n < 0 THEN 0 - n ELSE n

LEMMA SignedScale ==
  ASSUME NEW s \in Int, NEW t \in Int, NEW c \in Nat \ {0}
  PROVE  /\ s * c + t * c = (s + t) * c /\ (s + t) * c \in Int
         /\ Amount(s + t) \in Nat /\ Amount(s + t) * c = Amount(s * c + t * c)
         /\ (s + t = 0 <=> s * c + t * c = 0) /\ (s + t < 0 <=> s * c + t * c < 0)
<1> DEFINE n == s + t
           x == n * c
<1>1. n \in Int /\ s * c + t * c = n * c
  OBVIOUS
<1> HIDE DEF n
<1>2. x \in Int /\ (n > 0 => x >= c) /\ (n = 0 => x = 0) /\ (n < 0 => x < 0) /\ (0 - n) * c = 0 - x
  <2>1. x \in Int /\ (n = 0 => x = 0) /\ (0 - n) * c = 0 - x
    BY <1>1
  <2>2. ASSUME n > 0 PROVE x >= c
    <3>1. n \in Nat /\ 1 <= n /\ 1 \in Nat /\ c \in Nat
      BY <1>1, <2>2
    <3>2. 1 * c <= n * c
      BY <3>1, TimesGrow
    <3> QED  BY <3>2
  <2>3. ASSUME n < 0 PROVE x < 0
    <3> DEFINE k == 0 - n
    <3>1. k \in Nat /\ 1 <= k /\ 1 \in Nat /\ c \in Nat
      BY <1>1, <2>3
    <3> HIDE DEF k
    <3>2. 1 * c <= k * c /\ k * c \in Nat
      BY <3>1, TimesGrow
    <3>3. k * c = 0 - x
      BY <2>1 DEF k
    <3> HIDE DEF x
    <3> QED  BY <2>1, <3>2, <3>3
  <2> QED  BY <2>1, <2>2, <2>3
<1> HIDE DEF x
<1>3. Amount(n) \in Nat /\ Amount(n) * c = Amount(x)
  <2>1. CASE n < 0
    BY <1>1, <1>2, <2>1 DEF Amount
  <2>2. CASE ~(n < 0)
    BY <1>1, <1>2, <2>2 DEF Amount, x
  <2> QED  BY <2>1, <2>2
<1> QED  BY <1>1, <1>2, <1>3 DEF n, x

(* The size and the sign of a sum. *)
LEMMA SumIs ==
  ASSUME NEW v, IsExact(v), v.den = 1, NEW w, IsExact(w), w.den = 1,
         NEW low \in Int, low <= v.exp, low <= w.exp
  PROVE  LET n == Oriented(v.minus, Size(v, low)) + Oriented(w.minus, Size(w, low))
             s == Sum(v, w) IN
         /\ IsExact(s) /\ s.den = 1 /\ low <= s.exp /\ n \in Int
         /\ Size(s, low) = Amount(n)
         /\ s.minus = IF n = 0 THEN v.minus /\ w.minus ELSE n < 0
<1> DEFINE e == IF v.exp <= w.exp THEN v.exp ELSE w.exp
           a == v.exp
           b == w.exp
           m == v.minus
           k == w.minus
           x == v.num
           y == w.num
           p == Power(2, a - e)
           q == Power(2, b - e)
           c == Power(2, e - low)
<1>1. /\ a \in Int /\ b \in Int /\ x \in Nat /\ y \in Nat /\ m \in BOOLEAN /\ k \in BOOLEAN
      /\ e \in Int /\ e = Min({a, b}) /\ e \in {a, b} /\ low <= a /\ low <= b
  <2>1. a \in Int /\ b \in Int /\ x \in Nat /\ y \in Nat /\ m \in BOOLEAN /\ k \in BOOLEAN
    BY DEF IsExact
  <2> QED  BY <2>1, Extremes
<1>2. a - e \in Nat /\ b - e \in Nat /\ e - low \in Nat /\ low <= e
  BY <1>1
<1>3. p \in Nat \ {0} /\ q \in Nat \ {0} /\ c \in Nat \ {0} /\ Power(2, a - low) = p * c /\ Power(2, b - low) = q * c
  <2>1. (a - e) + (e - low) = a - low /\ (b - e) + (e - low) = b - low
    BY <1>1, <1>2
  <2>2. Power(2, (a - e) + (e - low)) = p * c
    BY <1>2, TwosAdd
  <2>3. Power(2, (b - e) + (e - low)) = q * c
    BY <1>2, TwosAdd
  <2>4. p \in Nat \ {0}
    BY <1>2, Twos
  <2>5. q \in Nat \ {0}
    BY <1>2, Twos
  <2>6. c \in Nat \ {0}
    BY <1>2, Twos
  <2> HIDE DEF a, b, e
  <2> QED  BY <2>1, <2>2, <2>3, <2>4, <2>5, <2>6
<1> DEFINE s == Oriented(m, x) * p
           t == Oriented(k, y) * q
<1>4. Numerator(v, e) = s /\ Numerator(w, e) = t
  <2>1. -x = 0 - x /\ -y = 0 - y
    BY <1>1
  <2> QED  BY <2>1 DEF Numerator, Oriented
<1>5. Size(v, low) = x * (p * c) /\ Size(w, low) = y * (q * c)
  BY <1>3 DEF Size
<1> HIDE DEF x, y, p, q, c, m, k
<1>6. s \in Int /\ t \in Int /\ Oriented(m, x * (p * c)) = s * c /\ Oriented(k, y * (q * c)) = t * c
  <2>1. x * (p * c) = (x * p) * c /\ y * (q * c) = (y * q) * c
    BY <1>1, <1>3
  <2>2. (0 - x) * p \in Int /\ ((0 - x) * p) * c = 0 - (x * p) * c /\ x * p \in Int
    BY <1>1, <1>3
  <2>3. (0 - y) * q \in Int /\ ((0 - y) * q) * c = 0 - (y * q) * c /\ y * q \in Int
    BY <1>1, <1>3
  <2>4. s \in Int /\ Oriented(m, x * (p * c)) = s * c
    BY <2>1, <2>2 DEF Oriented
  <2>5. t \in Int /\ Oriented(k, y * (q * c)) = t * c
    BY <2>1, <2>3 DEF Oriented
  <2> QED  BY <2>4, <2>5
<1>7. (x = 0 => s = 0 /\ x * (p * c) = 0) /\ (y = 0 => t = 0 /\ y * (q * c) = 0)
  <2>1. 0 * (p * c) = 0 /\ 0 * (q * c) = 0 /\ 0 * p = 0 /\ 0 * q = 0 /\ 0 - 0 = 0
    BY <1>3
  <2> QED  BY <2>1 DEF Oriented
<1>8. (x > 0 => s # 0 /\ (s < 0 <=> m) /\ x * (p * c) \in Nat /\ Amount(s) * c = x * (p * c))
  <2> SUFFICES ASSUME x > 0 PROVE s # 0 /\ (s < 0 <=> m) /\ x * (p * c) \in Nat /\ Amount(s) * c = x * (p * c)
    OBVIOUS
  <2> DEFINE u == x * p
  <2>1. u \in Nat \ {0} /\ (0 - x) * p = 0 - u /\ x * (p * c) = u * c
    BY <1>1, <1>3
  <2>2. s = IF m THEN 0 - u ELSE u
    BY <2>1 DEF Oriented
  <2> HIDE DEF u, s
  <2>3. Amount(s) = u
    BY <2>1, <2>2 DEF Amount
  <2>4. u * c \in Nat
    BY <1>3, <2>1
  <2> QED  BY <1>1, <2>1, <2>2, <2>3, <2>4
<1>9. (y > 0 => t # 0 /\ (t < 0 <=> k) /\ y * (q * c) \in Nat /\ Amount(t) * c = y * (q * c))
  <2> SUFFICES ASSUME y > 0 PROVE t # 0 /\ (t < 0 <=> k) /\ y * (q * c) \in Nat /\ Amount(t) * c = y * (q * c)
    OBVIOUS
  <2> DEFINE u == y * q
  <2>1. u \in Nat \ {0} /\ (0 - y) * q = 0 - u /\ y * (q * c) = u * c
    BY <1>1, <1>3
  <2>2. t = IF k THEN 0 - u ELSE u
    BY <2>1 DEF Oriented
  <2> HIDE DEF u, t
  <2>3. Amount(t) = u
    BY <2>1, <2>2 DEF Amount
  <2>4. u * c \in Nat
    BY <1>3, <2>1
  <2> QED  BY <1>1, <2>1, <2>2, <2>3, <2>4
<1> HIDE DEF s, t
<1> DEFINE n == s * c + t * c
<1>10. /\ n \in Int /\ Amount(s + t) \in Nat /\ Amount(s + t) * c = Amount(n)
       /\ (s + t = 0 <=> n = 0) /\ (s + t < 0 <=> n < 0)
  BY <1>3, <1>6, SignedScale
<1>11. Oriented(v.minus, Size(v, low)) + Oriented(w.minus, Size(w, low)) = n
  BY <1>5, <1>6 DEF m, k
<1> HIDE DEF n
<1> DEFINE r == Sum(v, w)
<1>12. IsExact(r)
  BY SumTyped
<1>13. CASE x = 0 /\ y > 0
  <2>1. r = w
    BY <1>13 DEF Sum, x, y
  <2>2. s + t = t
    BY <1>6, <1>7, <1>13
  <2>3. Size(r, low) = Amount(n) /\ r.minus = k /\ n # 0 /\ (k <=> n < 0)
    BY <1>5, <1>9, <1>10, <1>13, <2>1, <2>2 DEF k
  <2>4. k = (n < 0)
    BY <1>1, <2>3
  <2> QED  BY <1>1, <1>10, <1>11, <1>12, <2>1, <2>3, <2>4
<1>14. CASE x > 0 /\ y = 0
  <2>1. r = v
    BY <1>14 DEF Sum, x, y
  <2>2. s + t = s
    BY <1>6, <1>7, <1>14
  <2>3. Size(r, low) = Amount(n) /\ r.minus = m /\ n # 0 /\ (m <=> n < 0)
    BY <1>5, <1>8, <1>10, <1>14, <2>1, <2>2 DEF m
  <2>4. m = (n < 0)
    BY <1>1, <2>3
  <2> QED  BY <1>1, <1>10, <1>11, <1>12, <2>1, <2>3, <2>4
<1>15. CASE ~(x = 0 /\ y > 0) /\ ~(x > 0 /\ y = 0)
  <2>1. r = Exactly(IF s + t = 0 THEN m /\ k ELSE s + t < 0, IF s + t < 0 THEN -(s + t) ELSE s + t, 1, e)
    <3> HIDE DEF e
    <3>1. Min({v.exp, w.exp}) = e
      BY <1>1
    <3> QED  BY <1>4, <1>15, <3>1 DEF Sum, x, y, m, k
  <2>2. (IF s + t < 0 THEN -(s + t) ELSE s + t) = Amount(s + t)
    <3>1. -(s + t) = 0 - (s + t)
      BY <1>6
    <3> QED  BY <3>1 DEF Amount
  <2> HIDE DEF r
  <2>3. r.minus = (IF s + t = 0 THEN m /\ k ELSE s + t < 0) /\ r.num = Amount(s + t) /\ r.den = 1 /\ r.exp = e
    BY <2>1, <2>2 DEF Exactly
  <2>4. Size(r, low) = Amount(n)
    BY <1>10, <2>3 DEF Size, c
  <2>5. r.minus = IF n = 0 THEN m /\ k ELSE n < 0
    <3>1. (s + t < 0) = (n < 0)
      BY <1>10
    <3> QED  BY <1>10, <2>3, <3>1
  <2> QED  BY <1>2, <1>10, <1>11, <1>12, <2>3, <2>4, <2>5 DEF r, m, k
<1> QED  BY <1>1, <1>13, <1>14, <1>15

LEMMA Below ==
  ASSUME NEW a \in Int, NEW b \in Int, NEW c \in Int
  PROVE  \E low \in Int : low <= a /\ low <= b /\ low <= c
<1> DEFINE m == IF a <= b THEN a ELSE b
           n == IF m <= c THEN m ELSE c
<1>1. n \in Int /\ n <= a /\ n <= b /\ n <= c
  OBVIOUS
<1> QED  BY <1>1

LEMMA SumSame ==
  ASSUME NEW f, IsFormat(f), NEW v, NEW w, IsSame(v, w), NEW x, NEW y, IsSame(x, y)
  PROVE  Round(f, Sum(v, x)) = Round(f, Sum(w, y))
<1>1. /\ IsExact(v) /\ IsExact(w) /\ IsExact(x) /\ IsExact(y) /\ v.den = 1 /\ w.den = 1 /\ x.den = 1 /\ y.den = 1
      /\ v.minus = w.minus /\ x.minus = y.minus
  BY DEF IsSame
<1>2. Least(f) \in Int /\ w.exp \in Int /\ y.exp \in Int
  BY <1>1, Bounds DEF IsExact
<1>3. PICK low \in Int : low <= Least(f) /\ low <= w.exp /\ low <= y.exp
  BY <1>2, Below
<1>4. /\ Size(v, low) = Size(w, low) /\ low <= v.exp
      /\ Size(x, low) = Size(y, low) /\ low <= x.exp
  BY <1>3, SameSize
<1> DEFINE n == Oriented(v.minus, Size(v, low)) + Oriented(x.minus, Size(x, low))
           s == Sum(v, x)
           t == Sum(w, y)
<1>5. /\ IsExact(s) /\ s.den = 1 /\ low <= s.exp /\ n \in Int /\ Size(s, low) = Amount(n)
      /\ s.minus = IF n = 0 THEN v.minus /\ x.minus ELSE n < 0
  BY <1>1, <1>4, SumIs
<1>6. /\ IsExact(t) /\ t.den = 1 /\ low <= t.exp /\ Size(t, low) = Amount(n)
      /\ t.minus = IF n = 0 THEN v.minus /\ x.minus ELSE n < 0
  <2> DEFINE k == Oriented(w.minus, Size(w, low)) + Oriented(y.minus, Size(y, low))
  <2>1. /\ IsExact(t) /\ t.den = 1 /\ low <= t.exp /\ Size(t, low) = Amount(k)
        /\ t.minus = IF k = 0 THEN w.minus /\ y.minus ELSE k < 0
    BY <1>1, <1>3, SumIs
  <2>2. k = n
    BY <1>1, <1>4
  <2> HIDE DEF k, n, t
  <2> QED  BY <1>1, <2>1, <2>2
<1> HIDE DEF n, s, t
<1>7. Amount(n) \in Nat
  BY <1>5 DEF Amount
<1>8. Size(s, low) = Size(t, low) * 1 /\ s.den = t.den * 1 /\ s.minus = t.minus /\ 1 \in Nat \ {0}
  BY <1>5, <1>6, <1>7
<1> QED  BY <1>3, <1>5, <1>6, <1>8, RoundSame DEF s, t

LEMMA SameRounds ==
  ASSUME NEW f, IsFormat(f), NEW v, NEW w, IsSame(v, w)
  PROVE  Round(f, v) = Round(f, w)
<1>1. IsExact(v) /\ IsExact(w) /\ v.den = 1 /\ w.den = 1 /\ v.minus = w.minus
  BY DEF IsSame
<1>2. Least(f) \in Int /\ w.exp \in Int
  BY <1>1, Bounds DEF IsExact
<1>3. PICK low \in Int : low <= Least(f) /\ low <= w.exp
  BY <1>2, Below
<1>4. Size(v, low) = Size(w, low) /\ low <= v.exp /\ Size(v, low) \in Nat
  BY <1>3, SameSize
<1>5. Size(v, low) = Size(w, low) * 1 /\ v.den = w.den * 1 /\ 1 \in Nat \ {0}
  BY <1>1, <1>4
<1> QED  BY <1>1, <1>3, <1>4, <1>5, RoundSame

LEMMA ProductSame ==
  ASSUME NEW v, NEW w, IsSame(v, w), NEW x, NEW y, IsSame(x, y)
  PROVE  IsSame(Product(v, x), Product(w, y))
<1> DEFINE a == v.num
           b == x.num
           e == v.exp
           i == v.exp - w.exp
           g == x.exp
           j == x.exp - y.exp
           p == Power(2, i)
           q == Power(2, j)
           s == Product(v, x)
           t == Product(w, y)
<1>1. /\ IsExact(v) /\ IsExact(w) /\ IsExact(x) /\ IsExact(y)
      /\ v.minus = w.minus /\ x.minus = y.minus
      /\ a \in Nat /\ b \in Nat /\ e \in Int /\ g \in Int /\ i \in Nat /\ j \in Nat
      /\ w.exp = e - i /\ y.exp = g - j /\ w.num = a * p /\ y.num = b * q
  BY DEF IsSame, IsExact
<1>2. IsExact(s) /\ IsExact(t)
  BY <1>1, ProductTyped
<1>3. p \in Nat /\ q \in Nat /\ Power(2, i + j) = p * q
  <2> HIDE DEF i, j
  <2> QED  BY <1>1, Twos, TwosAdd
<1>4. /\ s.minus = (v.minus # x.minus) /\ s.num = a * b /\ s.den = 1 /\ s.exp = e + g
      /\ t.minus = (v.minus # x.minus) /\ t.num = (a * p) * (b * q) /\ t.den = 1 /\ t.exp = (e - i) + (g - j)
  BY <1>1 DEF Product, Exactly
<1> HIDE DEF a, b, e, i, g, j, p, q, s, t
<1>5. t.exp <= s.exp /\ s.exp - t.exp = i + j
  BY <1>1, <1>4
<1>6. (a * p) * (b * q) = (a * b) * (p * q)
  BY <1>1, <1>3
<1>7. IsSame(s, t)
  BY <1>2, <1>3, <1>4, <1>5, <1>6 DEF IsSame
<1> QED  BY <1>7 DEF s, t

LEMMA RatioSame ==
  ASSUME NEW f, IsFormat(f), NEW v, NEW w, IsSame(v, w), NEW x, NEW y, IsSame(x, y), x.num # 0
  PROVE  Round(f, Ratio(v, x)) = Round(f, Ratio(w, y)) /\ y.num # 0
<1> DEFINE a == v.num
           b == x.num
           e == v.exp
           i == v.exp - w.exp
           g == x.exp
           j == x.exp - y.exp
           p == Power(2, i)
           q == Power(2, j)
           s == Ratio(v, x)
           t == Ratio(w, y)
           h == Least(f)
<1>1. /\ IsExact(v) /\ IsExact(w) /\ IsExact(x) /\ IsExact(y)
      /\ v.minus = w.minus /\ x.minus = y.minus
      /\ a \in Nat /\ b \in Nat \ {0} /\ e \in Int /\ g \in Int /\ i \in Nat /\ j \in Nat /\ h \in Int
      /\ w.exp = e - i /\ y.exp = g - j /\ w.num = a * p /\ y.num = b * q
  BY Bounds DEF IsSame, IsExact
<1>3. p \in Nat \ {0} /\ q \in Nat \ {0}
  <2> HIDE DEF i, j
  <2> QED  BY <1>1, Twos
<1>4. /\ s.minus = (v.minus # x.minus) /\ s.num = a /\ s.den = b /\ s.exp = e - g
      /\ t.minus = (v.minus # x.minus) /\ t.num = a * p /\ t.den = b * q /\ t.exp = (e - i) - (g - j)
  BY <1>1 DEF Ratio, Exactly
<1> HIDE DEF a, b, e, i, g, j, p, q, s, t, h
<1>5. b * q # 0
  BY <1>1, <1>3
<1>2. IsExact(s) /\ IsExact(t)
  <2>1. IsExact(s)
    BY <1>1, ProductTyped DEF s, b
  <2>2. y.num # 0
    BY <1>1, <1>5
  <2> QED  BY <1>1, <2>1, <2>2, ProductTyped DEF t
<1>6. PICK low \in Int : low <= h /\ low <= (e - g) - i /\ low <= (e - g) - i
  <2>1. (e - g) - i \in Int
    BY <1>1
  <2> QED  BY <1>1, <2>1, Below
<1> DEFINE k == ((e - g) - i) - low
           r == Power(2, k)
<1>7. k \in Nat /\ s.exp - low = k + i /\ t.exp - low = k + j /\ low <= s.exp /\ low <= t.exp
  BY <1>1, <1>4, <1>6
<1> HIDE DEF k
<1>8. r \in Nat /\ Power(2, k + i) = r * p /\ Power(2, k + j) = r * q
  BY <1>1, <1>7, Twos, TwosAdd DEF p, q
<1> HIDE DEF r
<1>9. Size(s, low) = a * (r * p) /\ Size(t, low) = (a * p) * (r * q)
  BY <1>4, <1>7, <1>8 DEF Size
<1>10. (a * p) * (r * q) = (a * (r * p)) * q
  BY <1>1, <1>3, <1>8
<1>11. Size(t, low) = Size(s, low) * q /\ t.den = s.den * q /\ t.minus = s.minus
  BY <1>4, <1>9, <1>10
<1>12. Round(f, t) = Round(f, s)
  BY <1>2, <1>3, <1>6, <1>7, <1>11, RoundSame DEF h
<1> QED  BY <1>1, <1>5, <1>12 DEF s, t

-----------------------------------------------------------------------------
(* No result of two floats is rounded to a tie between floats. *)

LEMMA NoTieExact ==
  ASSUME NEW d \in Nat \ {0}, NEW zd \in Nat, NEW zs, NEW q \in Nat, NEW n, n = q * (d * Power(2, zd))
  PROVE  NoTie(n, d, zd, zs)
<1> DEFINE e == d * Power(2, zd)
<1>1. e \in Nat \ {0}
  <2> DEFINE t == Power(2, zd)
  <2>1. t \in Nat \ {0}
    BY Twos
  <2> HIDE DEF t
  <2>2. d * t \in Nat \ {0}
    BY <2>1
  <2> QED  BY <2>2 DEF t
<1> HIDE DEF e
<1>2. NearestEven(q * e, e) = q
  BY <1>1, NearestExact
<1>3. n = q * e
  BY DEF e
<1>4. NearestEven(n, e) = q
  BY <1>2, <1>3
<1> QED  BY <1>3, <1>4 DEF NoTie, Kept, e

LEMMA TwosTimes ==
  ASSUME NEW m \in Nat, NEW n \in Nat, m <= n
  PROVE  /\ n - m \in Nat /\ Power(2, n - m) \in Nat \ {0} /\ Power(2, m) \in Nat \ {0}
         /\ Power(2, n) = Power(2, n - m) * Power(2, m)
<1>1. n - m \in Nat /\ (n - m) + m = n
  OBVIOUS
<1>2. Power(2, (n - m) + m) = Power(2, n - m) * Power(2, m)
  BY <1>1, TwosAdd
<1> QED  BY <1>1, <1>2, Twos

(* A number of few bits is kept whole. *)
LEMMA NoTieFew ==
  ASSUME NEW m \in Nat, NEW p \in Nat, NEW a \in Nat, a < 2 * Power(2, m), NEW e \in Nat, e >= p,
         NEW zd, IsPlace(m, p, a * Power(2, e), 1, zd), NEW zs
  PROVE  NoTie(a * Power(2, e), 1, zd, zs)
<1> DEFINE u == Power(2, m)
           v == Power(2, e)
<1>1. /\ u \in Nat \ {0} /\ v \in Nat \ {0} /\ m + e + 1 \in Nat /\ m + e \in Nat
      /\ Power(2, (m + e) + 1) = 2 * (u * v)
  <2>1. m + e \in Nat
    OBVIOUS
  <2>2. Power(2, m + e) = u * v
    BY TwosAdd
  <2> QED  BY <2>1, <2>2, Twos, PowerSteps
<1>2. zd \in Nat /\ (zd > p => 1 * Power(2, zd + m) <= a * v)
  BY DEF IsPlace
<1>3. zd <= e
  <2> SUFFICES ASSUME zd > e PROVE FALSE
    BY <1>2
  <2>1. zd + m \in Nat /\ (m + e) + 1 <= zd + m /\ (m + e) + 1 \in Nat
    BY <1>2
  <2>2. Power(2, (m + e) + 1) <= Power(2, zd + m) /\ Power(2, zd + m) \in Nat
    BY <2>1, TwosGrow, Twos
  <2>3. Power(2, zd + m) <= a * v
    BY <1>2, <2>2
  <2>4. a * v < (2 * u) * v
    <3> HIDE DEF u, v
    <3>1. 2 * u \in Nat /\ a < 2 * u
      BY <1>1 DEF u
    <3> DEFINE w == 2 * u
    <3> HIDE DEF w
    <3>2. w \in Nat /\ a < w
      BY <3>1 DEF w
    <3>3. a * v < w * v
      BY <1>1, <3>2, TimesLess
    <3> QED  BY <3>3 DEF w
  <2> DEFINE x == Power(2, zd + m)
  <2> HIDE DEF u, v, x
  <2>5. 2 * (u * v) <= x /\ x <= a * v /\ x \in Nat
    BY <1>1, <2>2, <2>3 DEF x
  <2>6. (2 * u) * v = 2 * (u * v) /\ 2 * (u * v) \in Nat /\ a * v \in Nat
    BY <1>1
  <2> QED  BY <2>4, <2>5, <2>6
<1> DEFINE c == Power(2, e - zd)
           t == Power(2, zd)
<1>4. v = c * t /\ c \in Nat \ {0} /\ t \in Nat \ {0}
  BY <1>2, <1>3, TwosTimes
<1> HIDE DEF c, t, v
<1>5. a * v = (a * c) * (1 * t) /\ a * c \in Nat
  BY <1>4
<1>6. 1 \in Nat \ {0}
  OBVIOUS
<1>7. NoTie(a * v, 1, zd, zs)
  <2> DEFINE q == a * c
             n == a * v
  <2> HIDE DEF q, n
  <2>1. q \in Nat /\ n = q * (1 * Power(2, zd))
    BY <1>5 DEF q, n, t
  <2>2. NoTie(n, 1, zd, zs)
    BY <1>2, <1>6, <2>1, NoTieExact
  <2> QED  BY <2>2 DEF n
<1> QED  BY <1>7 DEF v

(* A number near a multiple of the coarser unit is no tie. *)
LEMMA NoTieNear ==
  ASSUME NEW n \in Nat, NEW zd \in Nat, NEW zs \in Nat, zd + 3 <= zs, NEW m \in Nat,
         8 * n < 8 * (m * Power(2, zs)) + Power(2, zs), 8 * (m * Power(2, zs)) < 8 * n + Power(2, zs)
  PROVE  NoTie(n, 1, zd, zs)
<1> DEFINE g == zs - zd
           h == Power(2, g - 1)
           t == Power(2, zd)
           z == Power(2, zs)
           k == Kept(n, 1, zd)
<1>1. g \in Nat /\ g - 1 \in Nat /\ 2 \in Nat /\ 2 <= g - 1 /\ g # 0
  OBVIOUS
<1>2. h \in Nat \ {0} /\ h >= 4 /\ Power(2, g) = 2 * h /\ t \in Nat \ {0} /\ z = (2 * h) * t
  <2>1. Power(2, 2) <= h /\ Power(2, 2) = 4
    BY <1>1, TwosGrow, FirstTwos
  <2>2. Power(2, g) = 2 * h /\ h \in Nat \ {0}
    BY <1>1, Twos
  <2>3. z = Power(2, g) * t /\ t \in Nat \ {0}
    <3>1. zd <= zs
      OBVIOUS
    <3> QED  BY <3>1, TwosTimes
  <2> QED  BY <2>1, <2>2, <2>3
<1>3. 8 * n < 8 * (m * z) + z /\ 8 * (m * z) < 8 * n + z
  OBVIOUS
<1> HIDE DEF g, h, t, z
<1>4. k \in Nat /\ 2 * n <= 2 * (k * t) + t /\ 2 * (k * t) <= 2 * n + t
  <2>1. 1 * t = t /\ k = NearestEven(n, 1 * t)
    BY <1>2 DEF Kept, t
  <2>2. k = NearestEven(n, t)
    BY <2>1
  <2> QED  BY <1>2, <2>2, NearestWithin
<1> HIDE DEF k
<1>5. SUFFICES ASSUME k % (2 * h) = h PROVE FALSE
  BY <1>2 DEF NoTie, k, g, h
<1> DEFINE q == k \div (2 * h)
<1>6. q \in Nat /\ k = (2 * h) * q + h
  <2>1. 2 * h \in Nat \ {0} /\ k \in Int
    BY <1>2, <1>4
  <2>2. k = (2 * h) * q + (k % (2 * h)) /\ q \in Int
    BY <2>1, Division
  <2>3. k = (2 * h) * q + h
    BY <1>5, <2>2
  <2> HIDE DEF q
  <2>4. q >= 0
    <3> SUFFICES ASSUME q < 0 PROVE FALSE
      BY <2>2
    <3> DEFINE s == 0 - q
    <3>1. s \in Nat /\ 1 <= s /\ 1 \in Nat /\ 2 * h \in Nat
      BY <1>2, <2>2
    <3> HIDE DEF s
    <3>2. (2 * h) * 1 <= (2 * h) * s
      <4> DEFINE w == 2 * h
      <4> HIDE DEF w
      <4>1. w \in Nat
        BY <3>1 DEF w
      <4>2. w * 1 <= w * s
        BY <3>1, <4>1, TimesGrow
      <4> QED  BY <4>2 DEF w
    <3>3. (2 * h) * q = 0 - ((2 * h) * s)
      BY <1>2, <2>2 DEF s
    <3> QED  BY <1>2, <1>4, <2>3, <3>1, <3>2, <3>3
  <2> QED  BY <2>2, <2>3, <2>4
<1> HIDE DEF q
<1> DEFINE y == h * t
           x == k * t
<1>7. /\ y \in Nat /\ x \in Nat /\ z = 2 * y /\ x = q * z + y /\ q * z \in Nat /\ m * z \in Nat
      /\ 4 * t <= y
  <2>1. y \in Nat /\ x \in Nat /\ z = 2 * y
    BY <1>2, <1>4
  <2>2. x = q * z + y
    <3>1. ((2 * h) * q + h) * t = q * ((2 * h) * t) + h * t
      BY <1>2, <1>6
    <3> QED  BY <1>2, <1>6, <3>1
  <2>3. q * z \in Nat /\ m * z \in Nat
    <3> HIDE DEF y
    <3>1. z \in Nat
      BY <2>1
    <3> QED  BY <1>6, <3>1
  <2>4. 4 * t <= y
    <3>1. 4 \in Nat /\ 4 <= h /\ h \in Nat /\ t \in Nat
      BY <1>2
    <3> QED  BY <3>1, TimesGrow
  <2> QED  BY <2>1, <2>2, <2>3, <2>4
<1>8. 2 * n <= 2 * x + t /\ 2 * x <= 2 * n + t
  BY <1>4
<1> HIDE DEF x, y
<1> DEFINE a == q * z
           b == m * z
<1>9. a \in Nat /\ b \in Nat /\ x = a + y /\ 8 * n < 8 * b + 2 * y /\ 8 * b < 8 * n + 2 * y
  BY <1>3, <1>7
<1>10. CASE m <= q
  <2>1. b <= a
    <3>1. z \in Nat
      BY <1>7
    <3> QED  BY <1>6, <1>10, <3>1, TimesGrow
  <2> HIDE DEF a, b
  <2> QED  BY <1>2, <1>7, <1>8, <1>9, <2>1
<1>11. CASE q < m
  <2>1. a + 2 * y <= b
    <3>1. z \in Nat /\ q + 1 <= m /\ q + 1 \in Nat
      BY <1>6, <1>7, <1>11
    <3>2. (q + 1) * z <= m * z
      BY <3>1, TimesGrow
    <3>3. (q + 1) * z = q * z + z
      BY <1>6, <3>1
    <3> QED  BY <1>7, <3>2, <3>3
  <2> HIDE DEF a, b
  <2> QED  BY <1>2, <1>7, <1>8, <1>9, <2>1
<1> QED  BY <1>6, <1>10, <1>11

LEMMA SpanIs ==
  ASSUME NEW a \in Nat, NEW m \in Nat, NEW e \in Nat, a < 2 * Power(2, m), NEW n \in Nat, m + e + 1 <= n
  PROVE  a * Power(2, e) < Power(2, n) /\ a * Power(2, e) \in Nat /\ Power(2, n) \in Nat \ {0}
<1> DEFINE u == Power(2, m)
           v == Power(2, e)
           x == Power(2, n)
<1>1. /\ u \in Nat \ {0} /\ v \in Nat \ {0} /\ x \in Nat \ {0} /\ 2 * (u * v) <= x
  <2>1. m + e \in Nat /\ (m + e) + 1 \in Nat /\ (m + e) + 1 <= n
    OBVIOUS
  <2>2. Power(2, m + e) = u * v
    BY TwosAdd
  <2>3. Power(2, (m + e) + 1) = 2 * Power(2, m + e)
    BY <2>1, PowerSteps
  <2>4. Power(2, (m + e) + 1) <= x
    BY <2>1, TwosGrow
  <2>5. u \in Nat \ {0} /\ v \in Nat \ {0} /\ x \in Nat \ {0}
    BY Twos
  <2> QED  BY <2>2, <2>3, <2>4, <2>5
<1>2. a < 2 * u
  OBVIOUS
<1> HIDE DEF u, v, x
<1> DEFINE w == 2 * u
<1>3. w \in Nat /\ w * v = 2 * (u * v) /\ a < w
  BY <1>1, <1>2
<1> HIDE DEF w
<1>4. a * v < w * v /\ a * v \in Nat
  BY <1>1, <1>3, TimesLess
<1>5. a * v < x
  BY <1>1, <1>3, <1>4
<1> QED  BY <1>1, <1>4, <1>5 DEF v, x

(* The sum or difference of two floats: it fits the finer format, or one of *)
(* them is too small to bring the other to a tie.                           *)
LEMMA NoTieSum ==
  ASSUME NEW fs \in Nat, NEW fd \in Nat, fd >= 2 * fs + 3, NEW ps \in Nat, NEW pd \in Nat, pd <= ps,
         NEW a \in Nat, a < 2 * Power(2, fs), NEW b \in Nat, b < 2 * Power(2, fs),
         NEW i \in Nat, NEW j \in Nat, ps <= i, i <= j, NEW n \in Nat,
         \/ n = a * Power(2, i) + b * Power(2, j)
         \/ n = a * Power(2, i) - b * Power(2, j)
         \/ n = b * Power(2, j) - a * Power(2, i),
         NEW zd \in Nat, NEW zs \in Nat, zd < zs,
         IsPlace(fd, pd, n, 1, zd), IsPlace(fs, ps, n, 1, zs)
  PROVE  NoTie(n, 1, zd, zs)
<1> DEFINE x == a * Power(2, i)
           y == b * Power(2, j)
<1>1. n = x + y \/ n = x - y \/ n = y - x
  OBVIOUS
<1>2. x \in Nat /\ y \in Nat
  <2> DEFINE p == Power(2, i)
             q == Power(2, j)
  <2>1. p \in Nat /\ q \in Nat
    BY Twos
  <2> HIDE DEF p, q
  <2>2. a * p \in Nat /\ b * q \in Nat
    BY <2>1
  <2> QED  BY <2>2 DEF p, q
<1>3. CASE zd <= i
  <2> DEFINE t == Power(2, zd)
             c == Power(2, i - zd)
             d == Power(2, j - zd)
  <2>1. x = (a * c) * t /\ y = (b * d) * t /\ a * c \in Nat /\ b * d \in Nat /\ t \in Nat \ {0}
    <3>1. zd <= i /\ zd <= j
      BY <1>3
    <3>2. Power(2, i) = c * t /\ Power(2, j) = d * t /\ c \in Nat /\ d \in Nat /\ t \in Nat \ {0}
      BY <3>1, TwosTimes
    <3> HIDE DEF c, d, t
    <3>3. a * (c * t) = (a * c) * t /\ b * (d * t) = (b * d) * t /\ a * c \in Nat /\ b * d \in Nat
      BY <3>2
    <3> QED  BY <3>2, <3>3
  <2> DEFINE e == a * c
             f == b * d
  <2> HIDE DEF x, y, c, d
  <2>2. \E q \in Int : n = q * t
    <3> HIDE DEF e, f, t
    <3>1. x = e * t /\ y = f * t /\ e \in Nat /\ f \in Nat /\ t \in Nat
      BY <2>1 DEF e, f, t
    <3>2. CASE n = x + y
      <4>1. n = (e + f) * t /\ e + f \in Int
        BY <3>1, <3>2
      <4> QED  BY <4>1
    <3>3. CASE n = x - y
      <4>1. n = (e - f) * t /\ e - f \in Int
        BY <3>1, <3>3
      <4> QED  BY <4>1
    <3>4. CASE n = y - x
      <4>1. n = (f - e) * t /\ f - e \in Int
        BY <3>1, <3>4
      <4> QED  BY <4>1
    <3> QED  BY <1>1, <3>2, <3>3, <3>4
  <2>3. PICK q \in Int : n = q * t
    BY <2>2
  <2> HIDE DEF t
  <2>4. q \in Nat
    <3> SUFFICES ASSUME q < 0 PROVE FALSE
      OBVIOUS
    <3> DEFINE s == 0 - q
    <3>1. s \in Nat /\ 1 <= s /\ 1 \in Nat /\ t \in Nat
      BY <2>1
    <3> HIDE DEF s
    <3>2. 1 * t <= s * t
      BY <3>1, TimesGrow
    <3>3. q * t = 0 - (s * t)
      BY <3>1 DEF s
    <3>4. s * t \in Nat /\ 1 * t = t
      BY <3>1
    <3> DEFINE r == s * t
    <3> HIDE DEF r
    <3>5. n = 0 - r /\ r >= t /\ r \in Nat
      BY <2>3, <3>2, <3>3, <3>4 DEF r
    <3> QED  BY <2>1, <3>5
  <2>5. n = q * (1 * Power(2, zd)) /\ 1 \in Nat \ {0}
    BY <2>1, <2>3 DEF t
  <2> QED  BY <2>4, <2>5, NoTieExact
<1>4. CASE i < zd
  <2>1. zd > pd /\ zs > ps /\ 1 \in Nat \ {0}
    BY <1>4
  <2>2. zd + fd <= zs + fs
    BY <2>1, SameLead
  <2>3. zs + fs <= zd + fd
    BY <2>1, SameLead
  <2>4. fs + i + 1 <= zs - 3 /\ zs - 3 \in Nat /\ zd + 3 <= zs
    BY <1>4, <2>2, <2>3
  <2> DEFINE z == Power(2, zs)
             u == Power(2, fs)
  <2>5. z = 8 * Power(2, zs - 3) /\ Power(2, zs - 3) \in Nat /\ z \in Nat \ {0} /\ u \in Nat
    <3>1. 3 \in Nat /\ 3 <= zs
      BY <2>4
    <3>2. z = Power(2, zs - 3) * Power(2, 3) /\ Power(2, zs - 3) \in Nat \ {0}
      BY <3>1, TwosTimes
    <3> DEFINE q == Power(2, zs - 3)
    <3>3. z = q * 8 /\ q \in Nat \ {0}
      BY <3>2, FirstTwos
    <3> HIDE DEF q, z
    <3>4. z = 8 * q /\ z \in Nat \ {0}
      BY <3>3
    <3> QED  BY <3>3, <3>4, Twos DEF q
  <2>6. 8 * x < z
    <3>1. x < Power(2, zs - 3)
      BY <2>4, SpanIs
    <3> DEFINE q == Power(2, zs - 3)
    <3> HIDE DEF q, x, z
    <3>2. x < q /\ z = 8 * q /\ q \in Nat
      BY <2>5, <3>1 DEF q
    <3> QED  BY <1>2, <3>2
  <2> HIDE DEF x
  <2>7. CASE zs <= j
    <3> DEFINE m == b * Power(2, j - zs)
    <3>1. m \in Nat /\ y = m * z
      <4>1. Power(2, j) = Power(2, j - zs) * z /\ Power(2, j - zs) \in Nat
        BY <2>7, TwosTimes
      <4> DEFINE q == Power(2, j - zs)
      <4> HIDE DEF q, z
      <4>2. b * q \in Nat /\ b * (q * z) = (b * q) * z
        BY <2>5, <4>1 DEF q
      <4> QED  BY <4>1, <4>2 DEF q
    <3> HIDE DEF m, y, z
    <3>2. m = 0 => y = 0
      BY <2>5, <3>1
    <3>3. m # 0 => y >= z
      <4> SUFFICES ASSUME m # 0 PROVE y >= z
        OBVIOUS
      <4>1. 1 \in Nat /\ 1 <= m /\ z \in Nat
        BY <2>5, <3>1
      <4>2. 1 * z <= m * z
        BY <3>1, <4>1, TimesGrow
      <4> QED  BY <2>5, <3>1, <4>2
    <3>4. 8 * n < 8 * y + z /\ 8 * y < 8 * n + z
      <4>1. CASE m = 0
        BY <1>1, <1>2, <2>5, <2>6, <3>2, <4>1
      <4>2. CASE m # 0
        BY <1>1, <1>2, <2>5, <2>6, <3>3, <4>2
      <4> QED  BY <4>1, <4>2
    <3>5. 8 * n < 8 * (m * Power(2, zs)) + Power(2, zs) /\ 8 * (m * Power(2, zs)) < 8 * n + Power(2, zs)
      BY <3>1, <3>4 DEF z
    <3> QED  BY <2>4, <3>1, <3>5, NoTieNear
  <2>8. CASE j < zs
    <3>1. Power(2, zs + fs) = u * z
      <4>1. Power(2, zs + fs) = z * u
        BY TwosAdd
      <4> HIDE DEF z, u
      <4>2. z * u = u * z
        BY <2>5
      <4> QED  BY <4>1, <4>2
    <3>2. y < u * z
      <4>1. zs + fs \in Nat /\ fs + j + 1 <= zs + fs
        BY <2>8
      <4>2. y < Power(2, zs + fs)
        BY <4>1, SpanIs
      <4> QED  BY <3>1, <4>2
    <3>3. u * z <= n
      <4>1. 1 * Power(2, zs + fs) <= n
        BY <2>1 DEF IsPlace
      <4>2. u * z \in Nat
        <5> HIDE DEF u, z
        <5> QED  BY <2>5
      <4>3. 1 * (u * z) = u * z
        BY <4>2
      <4> QED  BY <3>1, <4>1, <4>3
    <3> DEFINE w == u * z
    <3>4. w \in Nat
      <4> HIDE DEF u, z
      <4> QED  BY <2>5
    <3> HIDE DEF w, y, z
    <3>5. 8 * n < 8 * w + z /\ 8 * w < 8 * n + z
      BY <1>1, <1>2, <2>5, <2>6, <3>2, <3>3, <3>4 DEF w
    <3>6. 8 * n < 8 * (u * Power(2, zs)) + Power(2, zs) /\ 8 * (u * Power(2, zs)) < 8 * n + Power(2, zs)
      BY <3>5 DEF w, z
    <3> HIDE DEF u
    <3> QED  BY <2>4, <2>5, <3>6, NoTieNear
  <2> QED  BY <2>7, <2>8
<1> QED  BY <1>3, <1>4

(* What was rounded to a float in the finer format is no tie. *)
LEMMA NoTieSingle ==
  ASSUME NEW fs \in Nat, NEW ps \in Nat, NEW n \in Nat, NEW d \in Nat \ {0}, NEW zd \in Nat, NEW zs \in Nat,
         zd < zs, IsPlace(fs, ps, n, d, zs), NEW m \in Nat, m < 2 * Power(2, fs), NEW e \in Nat, ps <= e,
         Kept(n, d, zd) \in Nat, Kept(n, d, zd) * Power(2, zd) = m * Power(2, e)
  PROVE  NoTie(n, d, zd, zs)
<1> DEFINE k == Kept(n, d, zd)
           t == Power(2, zd)
           g == zs - zd
           h == Power(2, g - 1)
<1>1. g \in Nat /\ g # 0 /\ zd <= zs
  OBVIOUS
<1>2. h \in Nat \ {0} /\ t \in Nat \ {0} /\ Power(2, g) = 2 * h /\ Power(2, zs) = (2 * h) * t
  <2>1. Power(2, zs) = Power(2, g) * t /\ t \in Nat \ {0}
    BY <1>1, TwosTimes
  <2>2. Power(2, g) = 2 * h
    BY <1>1, Twos
  <2>3. g - 1 \in Nat
    BY <1>1
  <2> QED  BY <2>1, <2>2, <2>3, Twos
<1>3. k \in Nat /\ k * t = m * Power(2, e)
  OBVIOUS
<1>4. CASE zs <= e
  <2> DEFINE c == Power(2, e - zs)
             w == m * c
  <2>1. Power(2, e) = c * Power(2, zs) /\ c \in Nat
    BY <1>4, TwosTimes
  <2>2. k * t = m * (c * ((2 * h) * t))
    BY <1>2, <1>3, <2>1
  <2> HIDE DEF c, t, h, k
  <2>3. w \in Nat /\ m * (c * ((2 * h) * t)) = (w * (2 * h)) * t /\ w * (2 * h) \in Nat /\ 2 * h \in Nat \ {0}
    BY <1>2, <2>1
  <2> HIDE DEF w
  <2> DEFINE r == w * (2 * h)
  <2>4. k = r
    <3> HIDE DEF r
    <3>1. k * t = r * t /\ r \in Nat
      BY <2>2, <2>3 DEF r
    <3>2. CASE k < r
      BY <1>2, <1>3, <3>1, <3>2, TimesLess
    <3>3. CASE r < k
      BY <1>2, <1>3, <3>1, <3>3, TimesLess
    <3> QED  BY <1>3, <3>1, <3>2, <3>3
  <2>5. k % (2 * h) = 0
    <3>1. k = (2 * h) * w + 0 /\ w \in Int /\ k \in Int
      BY <1>2, <1>3, <2>3, <2>4
    <3>2. 0 \in 0 .. (2 * h) - 1
      BY <1>2
    <3> DEFINE v == 2 * h
    <3>3. v \in Nat \ {0} /\ k = v * w + 0 /\ 0 \in 0 .. v - 1
      BY <2>3, <3>1, <3>2
    <3> HIDE DEF v
    <3>4. k % v = 0
      BY <3>1, <3>3, Remains
    <3> QED  BY <3>4 DEF v
  <2>6. k % (2 * h) # h
    BY <1>2, <2>5
  <2> QED  BY <1>2, <2>6 DEF NoTie, k, g, h
<1>5. CASE e < zs
  <2> DEFINE q == Power(2, fs + g)
             w == Power(2, zs + fs)
  <2>1. zs > ps /\ zs + fs \in Nat /\ fs + e + 1 <= zs + fs /\ fs + g \in Nat /\ (fs + g) + zd = zs + fs
    BY <1>5
  <2>2. d * w <= n
    BY <2>1 DEF IsPlace
  <2>3. m * Power(2, e) < w
    BY <2>1, SpanIs
  <2>4. w = q * t /\ q \in Nat
    <3>1. Power(2, (fs + g) + zd) = q * t /\ q \in Nat
      BY <2>1, TwosAdd, Twos
    <3> QED  BY <2>1, <3>1
  <2>5. d * t \in Nat \ {0}
    <3> HIDE DEF t
    <3>1. d * t \in Nat /\ d * t # 0
      BY <1>2
    <3> QED  BY <3>1
  <2>6. q * (d * t) = d * w
    <3> HIDE DEF t, q, w
    <3> QED  BY <1>2, <2>4
  <2>7. q <= k
    <3> DEFINE x == d * t
    <3> HIDE DEF x
    <3>1. x \in Nat \ {0} /\ q * x <= n /\ k = NearestEven(n, x)
      BY <2>2, <2>5, <2>6 DEF x, Kept
    <3> HIDE DEF q, k
    <3> QED  BY <2>4, <3>1, NearestWithin
  <2>8. w <= k * t
    <3> HIDE DEF w, q, k, t
    <3>1. q * t <= k * t
      BY <1>2, <1>3, <2>4, <2>7, TimesGrow
    <3> QED  BY <2>4, <3>1
  <2> DEFINE y == m * Power(2, e)
  <2>9. y \in Nat /\ w \in Nat
    BY <2>1, SpanIs
  <2> HIDE DEF w, y
  <2> QED  BY <1>3, <2>3, <2>8, <2>9 DEF y
<1> QED  BY <1>4, <1>5

LEMMA Widths ==
  /\ Least(Single) \in Int /\ Least(Double) \in Int
  /\ Least(Double) < Least(Single) /\ Least(Double) <= Least(Single) + Least(Single)
  /\ Single.frac \in Nat /\ Double.frac \in Nat /\ Double.frac >= 2 * Single.frac + 3
<1>1. PICK hs, hd \in Nat \ {0} :
    /\ hs < hd /\ Power(2, Single.exp) = 2 * hs /\ Power(2, Double.exp) = 2 * hd
    /\ Least(Single) = 2 - hs - Single.frac /\ Least(Double) = 2 - hd - Double.frac
    /\ Least(Single) \in Int /\ Least(Double) \in Int
    /\ Single.frac \in Nat /\ Double.frac \in Nat /\ Single.frac < Double.frac
    /\ hs >= 2 /\ 2 * hs <= hd /\ Double.frac >= 2 * Single.frac + 3
  BY Ranges
<1> DEFINE fs == Single.frac
           fd == Double.frac
           ls == Least(Single)
           ld == Least(Double)
<1>2. /\ ls = 2 - hs - fs /\ ld = 2 - hd - fd /\ fs \in Nat /\ fd \in Nat /\ 2 * hs <= hd /\ fd >= 2 * fs + 3
  BY <1>1
<1> HIDE DEF fs, fd, ls, ld
<1>3. ls \in Int /\ ld \in Int /\ ld < ls /\ ld <= ls + ls
  BY <1>2
<1> QED  BY <1>2, <1>3 DEF fs, fd, ls, ld

(* The number a double that is a float holds, in units of the float. *)
LEMMA FloatIs ==
  ASSUME NEW x \in Patterns(Double), IsSingle(x)
  PROVE  LET v == Exact(Single, Narrow(x))
             w == Exact(Double, x) IN
         /\ IsSame(v, w) /\ IsExact(v) /\ IsExact(w) /\ w.den = 1
         /\ v.exp >= Least(Single) /\ w.exp >= Least(Double)
         /\ v.num \in Nat /\ v.num < 2 * Power(2, Single.frac)
<1> DEFINE y == Narrow(x)
<1>1. y \in Patterns(Single) /\ Magnitude(Single, y) < Infinity(Single) /\ x = Widen(y)
  BY SingleIs
<1> HIDE DEF y
<1> DEFINE v == Exact(Single, y)
           w == Exact(Double, Widen(y))
<1>2. /\ IsSame(v, w) /\ v.exp >= Least(Single) /\ w.exp >= Least(Double)
      /\ v.num < 2 * Power(2, Single.frac)
  BY <1>1, WidenExact
<1>3. w = Exact(Double, x)
  BY <1>1
<1> HIDE DEF v, w
<1>4. IsExact(v) /\ IsExact(w) /\ w.den = 1 /\ v.num \in Nat
  BY <1>2 DEF IsSame, IsExact
<1> QED  BY <1>2, <1>3, <1>4 DEF v, y

LEMMA TwiceZero ==
  ASSUME NEW v, IsExact(v), v.num = 0
  PROVE  Narrow(Round(Double, v)) = Round(Single, v)
<1>1. /\ Round(Double, v) = WithSign(Double, v.minus, 0)
      /\ Round(Single, v) = WithSign(Single, v.minus, 0)
  BY DEF Round
<1> DEFINE minus == v.minus
           y == WithSign(Double, minus, 0)
<1>2. minus \in BOOLEAN
  BY DEF IsExact
<1>3. IsNumber(Double, 0, 0) /\ 0 + 3 <= Power(2, Double.exp) /\ 0 * Power(2, Double.frac) + 0 = 0
  <2>1. PICK t \in Nat \ {0} : t = Power(2, Double.exp) /\ t >= 4
    BY Formats, Weights
  <2>2. Power(2, Double.frac) \in Nat \ {0}
    BY Formats, Bounds
  <2> QED  BY <2>1, <2>2 DEF IsNumber
<1> HIDE DEF minus
<1>4. /\ y \in Patterns(Double) /\ Magnitude(Double, y) = 0 /\ 0 < Infinity(Double)
      /\ Exact(Double, y) = Exactly(minus, 0, 1, Least(Double) + 0)
  BY <1>2, <1>3, Formats, ExactFrom
<1> HIDE DEF y
<1>5. Narrow(y) = Round(Single, Exact(Double, y))
  BY <1>4, NarrowIs
<1>6. Narrow(y) = WithSign(Single, minus, 0)
  BY <1>2, <1>4, <1>5, ZeroRounds
<1> QED  BY <1>1, <1>6 DEF y, minus

LEMMA TwiceSum ==
  ASSUME NEW x \in Patterns(Double), IsSingle(x), NEW y \in Patterns(Double), IsSingle(y)
  PROVE  LET v == Sum(Exact(Double, x), Exact(Double, y)) IN
         Narrow(Round(Double, v)) = Round(Single, v)
<1> DEFINE a == Exact(Single, Narrow(x))
           b == Exact(Single, Narrow(y))
           c == Exact(Double, x)
           d == Exact(Double, y)
           v == Sum(c, d)
           low == Least(Double)
           fs == Single.frac
           fd == Double.frac
<1>1. /\ IsSame(a, c) /\ IsExact(a) /\ IsExact(c) /\ c.den = 1
      /\ a.exp >= Least(Single) /\ c.exp >= low /\ a.num \in Nat /\ a.num < 2 * Power(2, fs)
  BY FloatIs
<1>2. /\ IsSame(b, d) /\ IsExact(b) /\ IsExact(d) /\ d.den = 1
      /\ b.exp >= Least(Single) /\ d.exp >= low /\ b.num \in Nat /\ b.num < 2 * Power(2, fs)
  BY FloatIs
<1>3. /\ Least(Single) \in Int /\ low \in Int /\ low < Least(Single)
      /\ fs \in Nat /\ fd \in Nat /\ fd >= 2 * fs + 3
  BY Widths
<1> HIDE DEF a, b, c, d, low, fs, fd
<1> DEFINE n == Oriented(c.minus, Size(c, low)) + Oriented(d.minus, Size(d, low))
<1>4. IsExact(v) /\ v.den = 1 /\ low <= v.exp /\ Size(v, low) = Amount(n)
  BY <1>1, <1>2, <1>3, SumIs
<1>5. Size(c, low) = Size(a, low) /\ Size(d, low) = Size(b, low) /\ Size(c, low) \in Nat /\ Size(d, low) \in Nat
  BY <1>1, <1>2, <1>3, SameSize
<1> DEFINE i == a.exp - low
           j == b.exp - low
           p == Size(c, low)
           q == Size(d, low)
           m == Amount(n)
           ps == Least(Single) - low
           pd == low - low
<1>6. p = a.num * Power(2, i) /\ q = b.num * Power(2, j)
  BY <1>5 DEF Size
<1>7. i \in Nat /\ j \in Nat /\ ps \in Nat /\ pd \in Nat /\ pd <= ps /\ ps <= i /\ ps <= j
  BY <1>1, <1>2, <1>3 DEF IsExact
<1>8. m \in Nat /\ (m = p + q \/ m = p - q \/ m = q - p)
  <2>1. n = Oriented(c.minus, p) + Oriented(d.minus, q)
    OBVIOUS
  <2> HIDE DEF p, q, n
  <2>2. p \in Nat /\ q \in Nat
    BY <1>5 DEF p, q
  <2>3. c.minus \in BOOLEAN /\ d.minus \in BOOLEAN
    BY <1>1, <1>2 DEF IsExact
  <2> QED  BY <2>1, <2>2, <2>3 DEF Oriented, Amount
<1> HIDE DEF v, n, m, p, q, i, j, ps, pd
<1>9. ASSUME NEW zd \in Nat, NEW zs \in Nat, IsPlace(fd, pd, m, 1, zd), IsPlace(fs, ps, m, 1, zs), zd < zs
      PROVE  NoTie(m, 1, zd, zs)
  <2> DEFINE na == a.num
             nb == b.num
  <2>1. na \in Nat /\ nb \in Nat /\ na < 2 * Power(2, fs) /\ nb < 2 * Power(2, fs)
    BY <1>1, <1>2
  <2>2. \/ m = na * Power(2, i) + nb * Power(2, j)
        \/ m = na * Power(2, i) - nb * Power(2, j)
        \/ m = nb * Power(2, j) - na * Power(2, i)
    BY <1>6, <1>8
  <2> HIDE DEF na, nb
  <2>3. CASE i <= j
    BY <1>3, <1>7, <1>8, <1>9, <2>1, <2>2, <2>3, NoTieSum
  <2>4. CASE j <= i
    <3>1. \/ m = nb * Power(2, j) + na * Power(2, i)
          \/ m = nb * Power(2, j) - na * Power(2, i)
          \/ m = na * Power(2, i) - nb * Power(2, j)
      <4>1. Power(2, i) \in Nat /\ Power(2, j) \in Nat
        BY <1>7, Twos
      <4> DEFINE r == Power(2, i)
                 s == Power(2, j)
      <4> HIDE DEF r, s
      <4>2. na * r \in Nat /\ nb * s \in Nat
        BY <2>1, <4>1 DEF r, s
      <4>3. na * r + nb * s = nb * s + na * r
        BY <4>2
      <4> QED  BY <2>2, <4>3 DEF r, s
    <3> QED  BY <1>3, <1>7, <1>8, <1>9, <2>1, <2>4, <3>1, NoTieSum
  <2> QED  BY <1>7, <2>3, <2>4
<1>10. Size(v, low) = m /\ low <= Least(Double)
  BY <1>3, <1>4 DEF m, low
<1>11. CASE v.num = 0
  BY <1>4, <1>11, TwiceZero DEF v, c, d
<1>12. CASE v.num # 0
  <2>1. \A zd \in Nat, zs \in Nat :
           /\ IsPlace(Double.frac, Least(Double) - low, Size(v, low), v.den, zd)
           /\ IsPlace(Single.frac, Least(Single) - low, Size(v, low), v.den, zs)
           /\ zd < zs
           => NoTie(Size(v, low), v.den, zd, zs)
    <3>1. Least(Double) - low = pd
      BY DEF pd, low
    <3> QED  BY <1>4, <1>9, <1>10, <3>1 DEF fs, fd, ps
  <2>2. Narrow(Round(Double, v)) = Round(Single, v)
    BY <1>3, <1>4, <1>10, <1>12, <2>1, RoundTwice
  <2> QED  BY <2>2 DEF v, c, d
<1> QED  BY <1>11, <1>12

LEMMA TwiceProduct ==
  ASSUME NEW x \in Patterns(Double), IsSingle(x), NEW y \in Patterns(Double), IsSingle(y)
  PROVE  LET v == Product(Exact(Double, x), Exact(Double, y)) IN
         Narrow(Round(Double, v)) = Round(Single, v)
<1> DEFINE a == Exact(Single, Narrow(x))
           b == Exact(Single, Narrow(y))
           c == Exact(Double, x)
           d == Exact(Double, y)
           v == Product(c, d)
           w == Product(a, b)
           fs == Single.frac
           fd == Double.frac
           ls == Least(Single)
           ld == Least(Double)
<1>1. /\ IsSame(a, c) /\ IsExact(a) /\ IsExact(c)
      /\ a.exp >= ls /\ a.num \in Nat /\ a.num < 2 * Power(2, fs)
  BY FloatIs
<1>2. /\ IsSame(b, d) /\ IsExact(b) /\ IsExact(d)
      /\ b.exp >= ls /\ b.num \in Nat /\ b.num < 2 * Power(2, fs)
  BY FloatIs
<1>3. ls \in Int /\ ld \in Int /\ ld <= ls + ls /\ fs \in Nat /\ fd \in Nat /\ fd >= 2 * fs + 3
  BY Widths
<1> HIDE DEF a, b, c, d, fs, fd, ls, ld
<1>4. IsSame(w, v)
  BY <1>1, <1>2, ProductSame
<1>5. w.num = a.num * b.num /\ w.exp = a.exp + b.exp
  BY DEF Product, Exactly
<1> HIDE DEF v, w
<1>6. IsExact(v) /\ v.den = 1 /\ v.exp \in Int /\ v.exp <= w.exp /\ w.exp \in Int
  BY <1>4 DEF IsSame, IsExact
<1>7. PICK low \in Int : low <= ld /\ low <= v.exp
  BY <1>3, <1>6, Below
<1>8. Size(w, low) = Size(v, low)
  BY <1>4, <1>7, SameSize
<1> DEFINE k == w.num
           e == w.exp - low
           pd == ld - low
<1>9. Size(v, low) = k * Power(2, e)
  BY <1>8 DEF Size
<1>10. pd \in Nat /\ e \in Nat /\ e >= pd
  <2>1. w.exp >= ls + ls
    <3> DEFINE ea == a.exp
               eb == b.exp
    <3>1. ea \in Int /\ eb \in Int /\ ea >= ls /\ eb >= ls /\ w.exp = ea + eb
      BY <1>1, <1>2, <1>5 DEF IsExact
    <3> HIDE DEF ea, eb
    <3> QED  BY <1>3, <3>1
  <2> QED  BY <1>3, <1>6, <1>7, <2>1
<1>11. k \in Nat /\ k < 2 * Power(2, fd)
  <2> DEFINE u == Power(2, fs)
             na == a.num
             nb == b.num
  <2>1. u \in Nat \ {0} /\ na \in Nat /\ nb \in Nat /\ na < 2 * u /\ nb < 2 * u /\ k = na * nb
    BY <1>1, <1>2, <1>3, <1>5, Twos
  <2>2. 4 * (u * u) <= 2 * Power(2, fd)
    <3>1. fs + fs \in Nat /\ (fs + fs) + 1 \in Nat /\ (fs + fs) + 1 <= fd
      BY <1>3
    <3>2. Power(2, fs + fs) = u * u
      BY <1>3, TwosAdd
    <3>3. Power(2, (fs + fs) + 1) = 2 * Power(2, fs + fs)
      BY <3>1, PowerSteps
    <3>4. Power(2, (fs + fs) + 1) <= Power(2, fd)
      BY <1>3, <3>1, TwosGrow
    <3>5. Power(2, fd) \in Nat
      BY <1>3, Twos
    <3> DEFINE s == u * u
               r == Power(2, fd)
    <3>6. s \in Nat
      <4> HIDE DEF u
      <4> QED  BY <2>1
    <3> HIDE DEF s, r
    <3>7. 2 * s <= r /\ r \in Nat
      BY <3>2, <3>3, <3>4, <3>5 DEF s, r
    <3>8. 4 * s <= 2 * r
      BY <3>6, <3>7
    <3> QED  BY <3>8 DEF s, r
  <2> HIDE DEF u, na, nb, k
  <2>3. k \in Nat /\ k < 4 * (u * u)
    <3> DEFINE t == 2 * u
    <3>1. t \in Nat \ {0} /\ na < t /\ nb < t /\ t * t = 4 * (u * u)
      BY <2>1
    <3> HIDE DEF t
    <3>2. na * nb \in Nat /\ na * nb <= na * t
      BY <2>1, <3>1, TimesGrow
    <3>3. na * t < t * t
      BY <2>1, <3>1, TimesLess
    <3>4. na * t \in Nat /\ t * t \in Nat
      BY <2>1, <3>1
    <3> QED  BY <2>1, <3>1, <3>2, <3>3, <3>4
  <2>4. 4 * (u * u) \in Nat /\ Power(2, fd) \in Nat
    BY <1>3, <2>1, Twos
  <2> DEFINE r == 4 * (u * u)
             o == Power(2, fd)
  <2> HIDE DEF r, o
  <2>5. k < r /\ r <= 2 * o /\ r \in Nat /\ o \in Nat /\ k \in Nat
    BY <2>2, <2>3, <2>4 DEF r, o
  <2>6. k < 2 * o
    BY <2>5
  <2> QED  BY <2>3, <2>6 DEF k, o
<1> HIDE DEF k, e
<1>12. CASE v.num = 0
  BY <1>6, <1>12, TwiceZero DEF v, c, d
<1>13. CASE v.num # 0
  <2>1. \A zd \in Nat, zs \in Nat :
           /\ IsPlace(Double.frac, Least(Double) - low, Size(v, low), v.den, zd)
           /\ IsPlace(Single.frac, Least(Single) - low, Size(v, low), v.den, zs)
           /\ zd < zs
           => NoTie(Size(v, low), v.den, zd, zs)
    <3> SUFFICES ASSUME NEW zd \in Nat, NEW zs \in Nat, IsPlace(fd, pd, k * Power(2, e), 1, zd)
                 PROVE  NoTie(k * Power(2, e), 1, zd, zs)
      BY <1>6, <1>9 DEF fd, ld
    <3> HIDE DEF pd
    <3> QED  BY <1>3, <1>10, <1>11, NoTieFew
  <2>2. low <= Least(Double) /\ low <= v.exp
    BY <1>7 DEF ld
  <2>3. Narrow(Round(Double, v)) = Round(Single, v)
    BY <1>6, <1>13, <2>1, <2>2, RoundTwice
  <2> QED  BY <2>3 DEF v, c, d
<1> QED  BY <1>12, <1>13

(* A result that is a float is the float nearest to the exact one. *)
LEMMA TwiceSingle ==
  ASSUME NEW v, IsExact(v), IsSingle(Round(Double, v))
  PROVE  Round(Double, v) = Widen(Round(Single, v))
<1> DEFINE y == Round(Double, v)
<1>1. y = Widen(Narrow(y)) /\ IsSingle(y)
  BY DEF IsSingle
<1>2. SUFFICES Narrow(y) = Round(Single, v)
  BY <1>1
<1>3. y \in Patterns(Double)
  BY Formats, RoundTyped
<1>4. CASE v.num = 0
  BY <1>4, TwiceZero
<1>5. CASE v.num # 0
  <2>1. /\ Least(Double) \in Int /\ Least(Single) \in Int /\ Least(Double) < Least(Single)
        /\ Single.frac \in Nat /\ Double.frac \in Nat /\ v.exp \in Int /\ v.den \in Nat \ {0} /\ v.minus \in BOOLEAN
    BY Widths DEF IsExact
  <2>2. PICK low \in Int : low <= Least(Double) /\ low <= v.exp
    BY <2>1, Below
  <2> DEFINE pd == Least(Double) - low
             ps == Least(Single) - low
             n == Size(v, low)
             d == v.den
             minus == v.minus
             fs == Single.frac
             fd == Double.frac
  <2>3. pd \in Nat /\ ps \in Nat
    BY <2>1, <2>2
  <2>4. ASSUME NEW zd \in Nat, NEW zs \in Nat, IsPlace(fd, pd, n, d, zd), IsPlace(fs, ps, n, d, zs), zd < zs
        PROVE  NoTie(n, d, zd, zs)
    <3>1. n \in Nat
      BY <1>5, <2>2, Formats, RoundAt
    <3>2. PICK z \in Nat :
            /\ IsPlace(fd, pd, n, d, z)
            /\ y = WithSign(Double, minus, Capped(Double, Rounds(Double, pd, n, d, z)))
            /\ Rounds(Double, pd, n, d, z) \in Nat
      BY <1>5, <2>2, Formats, RoundAt
    <3>3. z = zd
      <4> HIDE DEF fd, pd, n, d
      <4> QED  BY <2>1, <2>3, <2>4, <3>1, <3>2, PlaceUnique DEF fd, d
    <3> DEFINE k == Kept(n, d, zd)
               r == Rounds(Double, pd, n, d, zd)
    <3> HIDE DEF n, d, minus, y
    <3>4. d \in Nat \ {0} /\ minus \in BOOLEAN
      BY <2>1 DEF d, minus
    <3>5. k \in Nat /\ k <= 2 * Power(2, fd) /\ (zd > pd => k >= Power(2, fd)) /\ zd >= pd
      <4>1. zd >= pd
        BY <2>4 DEF IsPlace
      <4> QED  BY <2>1, <2>3, <2>4, <3>1, <3>4, <4>1, KeptIs DEF Kept
    <3>6. y = WithSign(Double, minus, r) /\ r \in Nat /\ r < Infinity(Double)
      <4>1. Infinity(Double) \in 0 .. SignWeight(Double) - 1
        BY Formats, Bounds
      <4>2. Magnitude(Double, y) < Infinity(Double)
        BY <1>1, <1>3, SingleIs DEF y
      <4>3. y = WithSign(Double, minus, Capped(Double, r)) /\ r \in Nat
        BY <3>2, <3>3
      <4> HIDE DEF r
      <4>4. ~(Infinity(Double) <= r)
        <5> SUFFICES ASSUME Infinity(Double) <= r PROVE FALSE
          OBVIOUS
        <5>1. y = WithSign(Double, minus, Infinity(Double))
          BY <4>3 DEF Capped
        <5>2. Magnitude(Double, y) = Infinity(Double)
          BY <3>4, <4>1, <5>1, Formats, SignedIs
        <5> QED  BY <4>1, <4>2, <5>2
      <4> QED  BY <4>1, <4>3, <4>4 DEF Capped
    <3> DEFINE c == zd - pd
    <3>7. c \in Nat /\ (c > 0 => k >= Power(2, fd)) /\ r = c * Power(2, fd) + k /\ c + pd = zd
      BY <2>3, <3>5 DEF Rounds, Kept
    <3> DEFINE w == Exact(Double, y)
    <3>8. IsExact(w) /\ w.exp >= Least(Double) /\ Size(w, low) = k * Power(2, zd)
      <4> HIDE DEF k, c, r, w
      <4>1. y = WithSign(Double, minus, c * Power(2, fd) + k) /\ c * Power(2, fd) + k < Infinity(Double)
        BY <3>6, <3>7
      <4>2. IsExact(w) /\ w.exp >= Least(Double) /\ Size(w, low) = k * Power(2, c + (Least(Double) - low))
        BY <2>2, <3>4, <3>5, <3>7, <4>1, Formats, PatternSize DEF w
      <4>3. c + (Least(Double) - low) = zd
        BY <3>7
      <4> QED  BY <4>2, <4>3
    <3> DEFINE a == Exact(Single, Narrow(y))
    <3>9. IsSame(a, w) /\ IsExact(a) /\ a.exp >= Least(Single) /\ a.num \in Nat /\ a.num < 2 * Power(2, fs)
      BY <1>1, <1>3, FloatIs DEF y
    <3> HIDE DEF a, w, k
    <3>10. Size(a, low) = k * Power(2, zd)
      <4>1. low <= w.exp
        BY <2>1, <2>2, <3>8 DEF IsExact
      <4> QED  BY <3>8, <3>9, <4>1, SameSize
    <3> DEFINE e == a.exp - low
               m == a.num
    <3>11. e \in Nat /\ ps <= e /\ k * Power(2, zd) = m * Power(2, e) /\ m \in Nat /\ m < 2 * Power(2, fs)
      BY <2>1, <2>2, <3>9, <3>10 DEF IsExact, Size
    <3> HIDE DEF e, m, ps, fs
    <3>12. fs \in Nat /\ ps \in Nat
      BY <2>1, <2>3 DEF fs
    <3> QED  BY <2>4, <3>1, <3>4, <3>5, <3>11, <3>12, NoTieSingle DEF k
  <2> QED  BY <1>5, <2>2, <2>4, RoundTwice
<1> QED  BY <1>4, <1>5

-----------------------------------------------------------------------------
(* Arithmetic as the architecture defines it. *)

LEMMA FiniteIs ==
  ASSUME NEW f, IsFormat(f), NEW x \in Patterns(f), Magnitude(f, x) < Infinity(f)
  PROVE  ~IsNaN(f, x) /\ ~IsInfinite(f, x)
<1>1. Magnitude(f, x) \in Nat /\ Infinity(f) \in Nat
  BY PatternTyped, Bounds
<1> QED  BY <1>1 DEF IsNaN, IsInfinite

LEMMA AddsInDouble ==
  ASSUME NEW x \in Patterns(Double), IsSingle(x), NEW y \in Patterns(Double), IsSingle(y)
  PROVE  Narrow(Add(Double, x, y)) = Round(Single, Sum(Exact(Double, x), Exact(Double, y)))
<1>1. ~IsNaN(Double, x) /\ ~IsInfinite(Double, x) /\ ~IsNaN(Double, y) /\ ~IsInfinite(Double, y)
  BY DEF IsSingle, Finite
<1>2. Add(Double, x, y) = Round(Double, Sum(Exact(Double, x), Exact(Double, y)))
  BY <1>1 DEF Add
<1> QED  BY <1>2, TwiceSum

LEMMA MultipliesInDouble ==
  ASSUME NEW x \in Patterns(Double), IsSingle(x), NEW y \in Patterns(Double), IsSingle(y)
  PROVE  Narrow(Multiply(Double, x, y)) = Round(Single, Product(Exact(Double, x), Exact(Double, y)))
<1>1. ~IsNaN(Double, x) /\ ~IsInfinite(Double, x) /\ ~IsNaN(Double, y) /\ ~IsInfinite(Double, y)
  BY DEF IsSingle, Finite
<1>2. Multiply(Double, x, y) = Round(Double, Product(Exact(Double, x), Exact(Double, y)))
  BY <1>1 DEF Multiply
<1> QED  BY <1>2, TwiceProduct

LEMMA SubtractsInFloat ==
  ASSUME NEW x \in Patterns(Double), IsSingle(x), NEW y \in Patterns(Double), IsSingle(y)
  PROVE  LET v == Sum(Exact(Double, x), Exact(Double, Negated(Double, y))) IN
         IsExact(v) /\ Subtract(Single, Narrow(x), Narrow(y)) = Round(Single, v)
<1> DEFINE a == Narrow(x)
           b == Narrow(y)
           n == Negated(Single, b)
           m == Negated(Double, y)
<1>1. a \in Patterns(Single) /\ ~IsNaN(Single, a) /\ ~IsInfinite(Single, a)
  BY SingleIs
<1>2. b \in Patterns(Single) /\ Magnitude(Single, b) < Infinity(Single)
  BY SingleIs
<1>3. /\ n \in Patterns(Single) /\ ~IsNaN(Single, n) /\ ~IsInfinite(Single, n)
      /\ m \in Patterns(Double)
  <2>1. n \in Patterns(Single) /\ Magnitude(Single, n) < Infinity(Single) /\ m \in Patterns(Double)
    <3> HIDE DEF b
    <3> QED  BY <1>2, Formats, PatternTyped
  <2> HIDE DEF n
  <2> QED  BY <2>1, Formats, FiniteIs
<1>4. IsSame(Exact(Single, a), Exact(Double, x)) /\ IsSame(Exact(Single, b), Exact(Double, y))
  BY FloatIs
<1> HIDE DEF a, b
<1> DEFINE v == Exact(Single, b)
           w == Exact(Double, y)
           p == Exact(Single, n)
           q == Exact(Double, m)
<1>5. v.minus = Minus(Single, b) /\ p.minus = ~Minus(Single, b) /\ p.num = v.num /\ p.den = v.den /\ p.exp = v.exp
  BY <1>2, Formats, NegatedExact
<1>6. w.minus = Minus(Double, y) /\ q.minus = ~Minus(Double, y) /\ q.num = w.num /\ q.den = w.den /\ q.exp = w.exp
  BY Formats, NegatedExact
<1>7. IsExact(p) /\ IsExact(q)
  BY <1>3, Formats, ExactTyped
<1> HIDE DEF n, m, v, w, p, q
<1>8. IsSame(p, q)
  BY <1>4, <1>5, <1>6, <1>7 DEF IsSame, v, w
<1>9. Add(Single, a, n) = Round(Single, Sum(Exact(Single, a), p))
  BY <1>1, <1>3 DEF Add, p
<1>10. Round(Single, Sum(Exact(Single, a), p)) = Round(Single, Sum(Exact(Double, x), q))
  BY <1>4, <1>8, Formats, SumSame
<1>11. IsExact(Sum(Exact(Double, x), q))
  BY <1>7, Formats, ExactTyped, SumTyped
<1> QED  BY <1>9, <1>10, <1>11 DEF Subtract, a, b, n, m, q

LEMMA MultipliesInFloat ==
  ASSUME NEW x \in Patterns(Double), IsSingle(x), NEW y \in Patterns(Double), IsSingle(y)
  PROVE  LET v == Product(Exact(Double, x), Exact(Double, y)) IN
         IsExact(v) /\ Multiply(Single, Narrow(x), Narrow(y)) = Round(Single, v)
<1> DEFINE a == Narrow(x)
           b == Narrow(y)
           p == Product(Exact(Single, a), Exact(Single, b))
           q == Product(Exact(Double, x), Exact(Double, y))
<1>1. ~IsNaN(Single, a) /\ ~IsInfinite(Single, a) /\ ~IsNaN(Single, b) /\ ~IsInfinite(Single, b)
  BY SingleIs
<1>2. IsSame(Exact(Single, a), Exact(Double, x)) /\ IsSame(Exact(Single, b), Exact(Double, y))
  BY FloatIs
<1> HIDE DEF a, b
<1>3. Multiply(Single, a, b) = Round(Single, p)
  BY <1>1 DEF Multiply
<1>4. IsSame(p, q)
  BY <1>2, ProductSame
<1>5. Round(Single, p) = Round(Single, q)
  <2> HIDE DEF p, q
  <2> QED  BY <1>4, Formats, SameRounds
<1>6. IsExact(q)
  BY <1>4 DEF IsSame
<1> QED  BY <1>3, <1>5, <1>6 DEF a, b

LEMMA DividesInFloat ==
  ASSUME NEW x \in Patterns(Double), IsSingle(x), NEW y \in Patterns(Double), IsSingle(y), ~IsZero(Double, y)
  PROVE  LET v == Ratio(Exact(Double, x), Exact(Double, y)) IN
         IsExact(v) /\ Divide(Single, Narrow(x), Narrow(y)) = Round(Single, v)
<1> DEFINE a == Narrow(x)
           b == Narrow(y)
           v == Exact(Single, b)
           w == Exact(Double, y)
           p == Ratio(Exact(Single, a), Exact(Single, b))
           q == Ratio(Exact(Double, x), Exact(Double, y))
<1>1. ~IsNaN(Single, a) /\ ~IsInfinite(Single, a) /\ ~IsNaN(Single, b) /\ ~IsInfinite(Single, b)
  BY SingleIs
<1>2. /\ IsSame(Exact(Single, a), Exact(Double, x)) /\ IsSame(Exact(Single, b), Exact(Double, y))
      /\ b \in Patterns(Single) /\ Magnitude(Single, b) < Infinity(Single)
      /\ IsExact(Exact(Double, x)) /\ IsExact(Exact(Double, y))
  BY FloatIs, SingleIs
<1> HIDE DEF a, b
<1>3. w.num # 0
  BY Formats, NotZero
<1>4. v.num # 0
  <2> SUFFICES ASSUME v.num = 0 PROVE FALSE
    OBVIOUS
  <2> DEFINE i == v.exp - w.exp
             t == Power(2, i)
  <2>1. w.num = v.num * t /\ i \in Nat
    BY <1>2 DEF IsSame, IsExact
  <2>2. t \in Nat
    <3> HIDE DEF i
    <3> QED  BY <2>1, Twos
  <2> HIDE DEF t
  <2>3. w.num = 0 * t /\ 0 * t = 0
    BY <2>1, <2>2
  <2> QED  BY <1>3, <2>3
<1>5. ~IsZero(Single, b)
  <2> SUFFICES ASSUME Magnitude(Single, b) = 0 PROVE FALSE
    BY DEF IsZero
  <2>1. PICK d, n \in Nat :
           /\ Magnitude(Single, b) = d * Power(2, Single.frac) + n
           /\ v = Exactly(Minus(Single, b), n, 1, Least(Single) + d)
    BY <1>2, Formats, ExactIs
  <2> DEFINE u == Power(2, Single.frac)
  <2>2. u \in Nat
    BY Formats, Bounds
  <2> HIDE DEF u, v
  <2>3. d * u + n = 0 /\ d * u \in Nat
    BY <2>1, <2>2 DEF u
  <2>4. n = 0
    BY <2>3
  <2> QED  BY <1>4, <2>1, <2>4 DEF Exactly
<1>6. Divide(Single, a, b) = Round(Single, p)
  BY <1>1, <1>5 DEF Divide
<1>7. Round(Single, p) = Round(Single, q)
  BY <1>2, <1>4, Formats, RatioSame
<1>8. IsExact(q)
  BY <1>2, <1>3, ProductTyped
<1> QED  BY <1>6, <1>7, <1>8 DEF a, b

LEMMA RoundedStep ==
  ASSUME TypeOK, [Next]_vars
  PROVE  [at' # at /\ OnSingles =>
           IF ir.op \in {"fadds", "fmuls"}
             THEN fpr'[ir.t] = Widen(Round(Single, ExactResult))
             ELSE IsSingle(Round(Double, ExactResult)) => fpr'[ir.t] = Round(Double, ExactResult)]_vars
<1>1. CASE Step
  <2>1. ~Done /\ IsInstruction(ir)
    BY <1>1, ProgramsAre DEF TypeOK, Step, Goes
  <2>2. CASE Compute
    <3>1. PICK x \in Results : SetFPR(x)
      BY <2>2 DEF Compute
    <3>2. /\ ir.op \in Arithmetic /\ ir.t \in Reg
          /\ A \in Patterns(Double) /\ B \in Patterns(Double) /\ C \in Patterns(Double)
      BY <2>1, <2>2, OperandsAre DEF Compute, A, B, C, TypeOK
    <3>3. fpr'[ir.t] = x
      BY <3>1, <3>2 DEF SetFPR, TypeOK
    <3> SUFFICES ASSUME OnSingles
                 PROVE  IF ir.op \in {"fadds", "fmuls"}
                          THEN x = Widen(Round(Single, ExactResult))
                          ELSE IsSingle(Round(Double, ExactResult)) => x = Round(Double, ExactResult)
      BY <3>3
    <3>4. IsSingle(A) /\ (ir.op \in {"fmuls", "fmul"} => IsSingle(C)) /\ (ir.op \notin {"fmuls", "fmul"} => IsSingle(B))
      BY DEF OnSingles
    <3>5. CASE ir.op = "fadds"
      <4>1. x = Widen(Narrow(Add(Double, A, B))) /\ ExactResult = Sum(Exact(Double, A), Exact(Double, B))
        BY <3>1, <3>5 DEF Results, RoundedSum, ExactResult
      <4> QED  BY <3>2, <3>4, <3>5, <4>1, AddsInDouble
    <3>6. CASE ir.op = "fmuls"
      <4>1. x = Widen(Narrow(Multiply(Double, A, C))) /\ ExactResult = Product(Exact(Double, A), Exact(Double, C))
        BY <3>1, <3>6 DEF Results, ExactResult
      <4> QED  BY <3>2, <3>4, <3>6, <4>1, MultipliesInDouble
    <3>7. ASSUME IsExact(ExactResult), x = Widen(Round(Single, ExactResult))
          PROVE  IsSingle(Round(Double, ExactResult)) => x = Round(Double, ExactResult)
      BY <3>7, TwiceSingle
    <3>8. CASE ir.op = "fsub"
      <4>1. /\ x = Widen(Subtract(Single, Narrow(A), Narrow(B)))
            /\ ExactResult = Sum(Exact(Double, A), Exact(Double, Negated(Double, B)))
        BY <3>1, <3>8 DEF Results, ExactResult
      <4>2. IsExact(ExactResult) /\ x = Widen(Round(Single, ExactResult))
        BY <3>2, <3>4, <3>8, <4>1, SubtractsInFloat
      <4> QED  BY <3>7, <3>8, <4>2
    <3>9. CASE ir.op = "fmul"
      <4>1. /\ x = Widen(Multiply(Single, Narrow(A), Narrow(C)))
            /\ ExactResult = Product(Exact(Double, A), Exact(Double, C))
        BY <3>1, <3>9 DEF Results, ExactResult
      <4>2. IsExact(ExactResult) /\ x = Widen(Round(Single, ExactResult))
        BY <3>2, <3>4, <3>9, <4>1, MultipliesInFloat
      <4> QED  BY <3>7, <3>9, <4>2
    <3>10. CASE ir.op = "fdiv"
      <4>1. /\ x = Widen(Divide(Single, Narrow(A), Narrow(B)))
            /\ ExactResult = Ratio(Exact(Double, A), Exact(Double, B))
        BY <3>1, <3>10 DEF Results, ExactResult
      <4>2. ~IsZero(Double, B)
        BY <3>10 DEF OnSingles
      <4>3. IsExact(ExactResult) /\ x = Widen(Round(Single, ExactResult))
        BY <3>2, <3>4, <3>10, <4>1, <4>2, DividesInFloat
      <4> QED  BY <3>7, <3>10, <4>3
    <3> QED  BY <3>5, <3>6, <3>8, <3>9, <3>10 DEF OnSingles
  <2>3. CASE Move \/ Compare \/ Load \/ Store
    <3>1. ~OnSingles
      BY <2>3 DEF Move, Compare, Load, Store, Moves, OnSingles
    <3> QED  BY <3>1
  <2> QED  BY <1>1, <2>2, <2>3 DEF Step
<1>2. CASE at' = at
  BY <1>2
<1> QED  BY <1>1, <1>2 DEF Next, Fail, vars

(* fadds and fmuls round a double to a float and deliver the float nearest   *)
(* to the exact result; fsub, fmul and fdiv, which compute in float, deliver *)
(* the double nearest to it whenever that is a float.                        *)
THEOREM RoundedCorrect == Spec => RoundedAsArchitected
BY TypeInit, TypeNext, RoundedStep, PTL DEF Spec, RoundedAsArchitected
==============================================================================
