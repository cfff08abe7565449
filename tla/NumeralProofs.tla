---------------------------- MODULE NumeralProofs ----------------------------
(***************************************************************************)
(* Induction over the naturals for sets, and what it gives: the equations  *)
(* of the recursive functions of Numerals, and that a numeral with a fixed *)
(* number of digits counts modulo a power of its radix.                    *)
(*                                                                         *)
(* The induction theorems of the library take an operator, which none of   *)
(* the provers can instantiate.  For sets the least number follows from    *)
(* the theorem that finite sets are well-founded under inclusion.          *)
(***************************************************************************)
EXTENDS Numerals, FiniteSetTheorems, WellFoundedInduction, TLAPS

(* A set of naturals that is not empty has a least element. *)
LEMMA LeastNumber ==
  ASSUME NEW T, T \subseteq Nat, T # {}
  PROVE  \E m \in T : \A k \in T : m <= k
<1>1. PICK n : n \in T
  OBVIOUS
<1> DEFINE S == 0 .. n
           F == {0 .. m : m \in {x \in T : x <= n}}
<1>2. n \in Nat /\ IsFiniteSet(S)
  BY <1>1, FS_Interval
<1>3. IsWellFoundedOn(StrictSubsetOrdering(S), FiniteSubsetsOf(S))
  BY FS_StrictSubsetOrderingWellFounded
<1>4. F \subseteq FiniteSubsetsOf(S) /\ F # {}
  <2>1. ASSUME NEW m \in T, m <= n PROVE (0 .. m) \in FiniteSubsetsOf(S)
    <3>1. m \in Nat /\ IsFiniteSet(0 .. m)
      BY FS_Interval
    <3>2. 0 .. m \subseteq S
      BY <1>2, <2>1, <3>1
    <3> QED  BY <3>1, <3>2 DEF FiniteSubsetsOf
  <2>2. 0 .. n \in F
    BY <1>1, <1>2
  <2> QED  BY <2>1, <2>2
<1>5. PICK x \in F : \A y \in F : <<y, x>> \notin StrictSubsetOrdering(S)
  <2> HIDE DEF F, S
  <2> QED  BY <1>3, <1>4, WFMin
<1>6. PICK m \in T : m <= n /\ x = 0 .. m
  OBVIOUS
<1>7. ASSUME NEW k \in T PROVE m <= k
  <2>1. SUFFICES ASSUME k < m PROVE FALSE
    BY <1>6
  <2>2. k \in Nat /\ m \in Nat /\ k <= n
    BY <1>2, <1>6, <2>1
  <2>3. 0 .. k \in F
    BY <2>2
  <2>4. 0 .. k \subseteq 0 .. m /\ m \notin 0 .. k /\ m \in 0 .. m /\ 0 .. m \subseteq S
    BY <1>2, <1>6, <2>1, <2>2
  <2>5. <<0 .. k, 0 .. m>> \in StrictSubsetOrdering(S)
    <3> HIDE DEF S
    <3>1. 0 .. k \subseteq S /\ 0 .. k # 0 .. m
      BY <2>4
    <3> QED  BY <2>4, <3>1 DEF StrictSubsetOrdering
  <2> QED  BY <1>5, <1>6, <2>3, <2>5
<1> QED  BY <1>7

(* Induction: P is the set of the numbers that have the property. *)
LEMMA Induction ==
  ASSUME NEW P, 0 \in P, \A n \in Nat : n \in P => n + 1 \in P
  PROVE  Nat \subseteq P
<1>1. SUFFICES ASSUME Nat \ P # {} PROVE FALSE
  OBVIOUS
<1>2. PICK m \in Nat \ P : \A k \in Nat \ P : m <= k
  BY <1>1, LeastNumber
<1>3. m - 1 \in Nat /\ m - 1 \in P
  BY <1>2
<1> QED  BY <1>2, <1>3

(* A function of S into itself can be applied any number of times. *)
Orbit(u, S, a, F, n) == u \in [0 .. n -> S] /\ u[0] = a /\ \A k \in 0 .. n - 1 : u[k + 1] = F[u[k]]

LEMMA Iterates ==
  ASSUME NEW S, NEW a \in S, NEW F \in [S -> S]
  PROVE  \E g \in [Nat -> S] : g[0] = a /\ \A k \in Nat : g[k + 1] = F[g[k]]
<1> DEFINE P == {n \in Nat : \E u : Orbit(u, S, a, F, n)}
<1>1. 0 \in P
  <2>1. Orbit([k \in 0 .. 0 |-> a], S, a, F, 0)
    BY DEF Orbit
  <2> QED  BY <2>1
<1>2. ASSUME NEW n \in Nat, n \in P PROVE n + 1 \in P
  <2>1. PICK u : Orbit(u, S, a, F, n)
    BY <1>2
  <2> DEFINE w == [k \in 0 .. n + 1 |-> IF k <= n THEN u[k] ELSE F[u[n]]]
  <2>2. \A k \in 0 .. n : u[k] \in S
    BY <2>1 DEF Orbit
  <2>3. w \in [0 .. n + 1 -> S]
    BY <2>2
  <2>4. \A k \in 0 .. (n + 1) - 1 : w[k + 1] = F[w[k]]
    BY <2>1 DEF Orbit
  <2>5. Orbit(w, S, a, F, n + 1)
    BY <2>1, <2>3, <2>4 DEF Orbit
  <2> QED  BY <2>5
<1> HIDE DEF P
<1>3. \A n \in Nat : \E u : Orbit(u, S, a, F, n)
  BY <1>1, <1>2, Induction DEF P
<1>4. ASSUME NEW n \in Nat, NEW u, NEW w, Orbit(u, S, a, F, n), Orbit(w, S, a, F, n + 1)
      PROVE  \A k \in Nat : k <= n => u[k] = w[k]
  <2> DEFINE Q == {k \in Nat : k <= n => u[k] = w[k]}
  <2>1. 0 \in Q
    BY <1>4 DEF Orbit
  <2>2. ASSUME NEW k \in Nat, k \in Q PROVE k + 1 \in Q
    BY <1>4, <2>2 DEF Orbit
  <2> HIDE DEF Q
  <2>3. Nat \subseteq Q
    BY <2>1, <2>2, Induction
  <2> QED  BY <2>3 DEF Q
<1> DEFINE v == [n \in Nat |-> CHOOSE u : Orbit(u, S, a, F, n)]
           g == [n \in Nat |-> v[n][n]]
<1>5. ASSUME NEW n \in Nat PROVE Orbit(v[n], S, a, F, n)
  BY <1>3
<1> HIDE DEF v
<1>6. g \in [Nat -> S] /\ g[0] = a
  BY <1>5 DEF Orbit
<1>7. ASSUME NEW k \in Nat PROVE g[k + 1] = F[g[k]]
  <2>1. v[k][k] = v[k + 1][k]
    BY <1>4, <1>5
  <2>2. v[k + 1][k + 1] = F[v[k + 1][k]]
    BY <1>5 DEF Orbit
  <2> QED  BY <2>1, <2>2
<1> HIDE DEF g
<1> QED  BY <1>6, <1>7

-----------------------------------------------------------------------------
(* Powers. *)

IsPowers(p, b, n) == p = [k \in 0 .. n |-> IF k = 0 THEN 1 ELSE b * p[k - 1]]

LEMMA PowersExist ==
  ASSUME NEW b
  PROVE  \A n \in Nat : \E p : IsPowers(p, b, n)
<1> DEFINE P == {n \in Nat : \E p : IsPowers(p, b, n)}
<1>1. 0 \in P
  <2>1. IsPowers([k \in 0 .. 0 |-> 1], b, 0)
    BY DEF IsPowers
  <2> QED  BY <2>1
<1>2. ASSUME NEW n \in Nat, n \in P PROVE n + 1 \in P
  <2>1. PICK g : IsPowers(g, b, n)
    BY <1>2
  <2> DEFINE h == [k \in 0 .. n + 1 |-> IF k <= n THEN g[k] ELSE b * g[n]]
             r == [k \in 0 .. n + 1 |-> IF k = 0 THEN 1 ELSE b * h[k - 1]]
  <2>2. ASSUME NEW k \in 0 .. n + 1 PROVE h[k] = r[k]
    BY <2>1 DEF IsPowers
  <2>3. h = r
    BY <2>2
  <2>4. IsPowers(h, b, n + 1)
    <3> HIDE DEF h
    <3> QED  BY <2>3 DEF IsPowers
  <2> QED  BY <2>4
<1> HIDE DEF P
<1>3. Nat \subseteq P
  BY <1>1, <1>2, Induction
<1> QED  BY <1>3 DEF P

LEMMA PowerIs ==
  ASSUME NEW b, NEW n \in Nat
  PROVE  \E p : IsPowers(p, b, n) /\ Power(b, n) = p[n]
<1>1. \E p : IsPowers(p, b, n)
  BY PowersExist
<1> QED  BY <1>1 DEF Power, IsPowers

LEMMA SamePowers ==
  ASSUME NEW b, NEW m \in Nat, NEW n \in Nat, m <= n,
         NEW p, NEW q, IsPowers(p, b, m), IsPowers(q, b, n)
  PROVE  p[m] = q[m]
<1> DEFINE P == {k \in Nat : k <= m => p[k] = q[k]}
<1>1. 0 \in P
  BY DEF IsPowers
<1>2. ASSUME NEW k \in Nat, k \in P PROVE k + 1 \in P
  BY <1>2 DEF IsPowers
<1> HIDE DEF P
<1>3. Nat \subseteq P
  BY <1>1, <1>2, Induction
<1> QED  BY <1>3 DEF P

(* The equations of Power. *)
LEMMA PowerSteps ==
  ASSUME NEW b, NEW n \in Nat
  PROVE  Power(b, 0) = 1 /\ Power(b, n + 1) = b * Power(b, n)
<1>1. Power(b, 0) = 1
  BY PowerIs DEF IsPowers
<1>2. PICK p : IsPowers(p, b, n) /\ Power(b, n) = p[n]
  BY PowerIs
<1>3. n + 1 \in Nat
  OBVIOUS
<1>4. PICK q : IsPowers(q, b, n + 1) /\ Power(b, n + 1) = q[n + 1]
  BY PowerIs, <1>3
<1>5. q[n + 1] = b * q[n]
  BY <1>4, <1>3 DEF IsPowers
<1>6. p[n] = q[n]
  BY <1>2, <1>4, <1>3, SamePowers
<1> QED  BY <1>1, <1>2, <1>4, <1>5, <1>6

LEMMA PowerType ==
  ASSUME NEW b \in Nat \ {0}
  PROVE  \A n \in Nat : Power(b, n) \in Nat \ {0}
<1> DEFINE P == {n \in Nat : Power(b, n) \in Nat \ {0}}
<1>1. 0 \in P
  BY PowerSteps
<1>2. ASSUME NEW n \in Nat, n \in P PROVE n + 1 \in P
  <2>1. Power(b, n) \in Nat \ {0} /\ Power(b, n + 1) = b * Power(b, n)
    BY <1>2, PowerSteps
  <2>2. b * Power(b, n) \in Nat \ {0}
    BY <2>1
  <2> QED  BY <2>1, <2>2
<1> HIDE DEF P
<1>3. Nat \subseteq P
  BY <1>1, <1>2, Induction
<1> QED  BY <1>3 DEF P

-----------------------------------------------------------------------------
(* Numerals. *)

Counters(radix, n) == [1 .. n -> 0 .. radix - 1]
IsValues(u, c, radix, n) == u = [d \in 0 .. n |-> IF d = 0 THEN 0 ELSE u[d - 1] * radix + c[d]]

LEMMA ValuesExist ==
  ASSUME NEW c, NEW radix
  PROVE  \A n \in Nat : \E u : IsValues(u, c, radix, n)
<1> DEFINE P == {n \in Nat : \E u : IsValues(u, c, radix, n)}
<1>1. 0 \in P
  <2>1. IsValues([d \in 0 .. 0 |-> 0], c, radix, 0)
    BY DEF IsValues
  <2> QED  BY <2>1
<1>2. ASSUME NEW n \in Nat, n \in P PROVE n + 1 \in P
  <2>1. PICK u : IsValues(u, c, radix, n)
    BY <1>2
  <2> DEFINE v == [d \in 0 .. n + 1 |-> IF d <= n THEN u[d] ELSE u[n] * radix + c[n + 1]]
             r == [d \in 0 .. n + 1 |-> IF d = 0 THEN 0 ELSE v[d - 1] * radix + c[d]]
  <2>2. ASSUME NEW d \in 0 .. n + 1 PROVE v[d] = r[d]
    BY <2>1 DEF IsValues
  <2>3. v = r
    BY <2>2
  <2>4. IsValues(v, c, radix, n + 1)
    <3> HIDE DEF v
    <3> QED  BY <2>3 DEF IsValues
  <2> QED  BY <2>4
<1> HIDE DEF P
<1>3. Nat \subseteq P
  BY <1>1, <1>2, Induction
<1> QED  BY <1>3 DEF P

LEMMA NumeralIs ==
  ASSUME NEW c, NEW radix, NEW n \in Nat
  PROVE  \E u : IsValues(u, c, radix, n) /\ Numeral(c, radix, n) = u[n]
<1>1. \E u : IsValues(u, c, radix, n)
  BY ValuesExist
<1> QED  BY <1>1 DEF Numeral, IsValues

(* The prefix of d digits is below the radix to the d. *)
LEMMA PrefixBound ==
  ASSUME NEW radix \in Nat \ {0}, NEW n \in Nat, NEW c \in Counters(radix, n),
         NEW u, IsValues(u, c, radix, n)
  PROVE  \A d \in 0 .. n : u[d] \in 0 .. Power(radix, d) - 1
<1> DEFINE P == {d \in Nat : d <= n => u[d] \in 0 .. Power(radix, d) - 1}
<1>1. 0 \in P
  BY PowerSteps DEF IsValues
<1>2. ASSUME NEW d \in Nat, d \in P PROVE d + 1 \in P
  <2>1. SUFFICES ASSUME d + 1 <= n PROVE u[d + 1] \in 0 .. Power(radix, d + 1) - 1
    OBVIOUS
  <2> DEFINE p == Power(radix, d)
  <2>2. u[d] \in 0 .. p - 1 /\ p \in Nat \ {0} /\ Power(radix, d + 1) = radix * p
    BY <1>2, <2>1, PowerSteps, PowerType
  <2>3. c[d + 1] \in 0 .. radix - 1 /\ u[d + 1] = u[d] * radix + c[d + 1]
    BY <2>1 DEF IsValues, Counters
  <2> HIDE DEF p
  <2>4. u[d] * radix <= (p - 1) * radix /\ u[d] * radix >= 0
    BY <2>2
  <2>5. (p - 1) * radix = radix * p - radix
    BY <2>2
  <2> QED  BY <2>2, <2>3, <2>4, <2>5
<1> HIDE DEF P
<1>3. Nat \subseteq P
  BY <1>1, <1>2, Induction
<1> QED  BY <1>3 DEF P

LEMMA NumeralBound ==
  ASSUME NEW radix \in Nat \ {0}, NEW n \in Nat, NEW c \in Counters(radix, n)
  PROVE  Numeral(c, radix, n) \in 0 .. Power(radix, n) - 1
BY NumeralIs, PrefixBound

(* Different digits, different numbers. *)
LEMMA NumeralInjective ==
  ASSUME NEW radix \in Nat \ {0}, NEW n \in Nat,
         NEW c \in Counters(radix, n), NEW e \in Counters(radix, n),
         Numeral(c, radix, n) = Numeral(e, radix, n)
  PROVE  c = e
<1>1. PICK u : IsValues(u, c, radix, n) /\ Numeral(c, radix, n) = u[n]
  BY NumeralIs
<1>2. PICK v : IsValues(v, e, radix, n) /\ Numeral(e, radix, n) = v[n]
  BY NumeralIs
<1> DEFINE P == {d \in Nat : d <= n /\ u[d] = v[d] => \A x \in 1 .. d : c[x] = e[x]}
<1>3. 0 \in P
  OBVIOUS
<1>4. ASSUME NEW d \in Nat, d \in P PROVE d + 1 \in P
  <2>1. SUFFICES ASSUME d + 1 <= n, u[d + 1] = v[d + 1]
                 PROVE  \A x \in 1 .. d + 1 : c[x] = e[x]
    OBVIOUS
  <2>2. /\ u[d + 1] = u[d] * radix + c[d + 1] /\ c[d + 1] \in 0 .. radix - 1
        /\ v[d + 1] = v[d] * radix + e[d + 1] /\ e[d + 1] \in 0 .. radix - 1
    BY <1>1, <1>2, <2>1 DEF IsValues, Counters
  <2>3. u[d] \in Nat /\ v[d] \in Nat
    <3>1. /\ u[d] \in 0 .. Power(radix, d) - 1
          /\ v[d] \in 0 .. Power(radix, d) - 1
      BY <1>1, <1>2, <2>1, PrefixBound
    <3> QED  BY <3>1, PowerType
  <2>4. ASSUME NEW x \in Nat, NEW y \in Nat, NEW a \in 0 .. radix - 1, NEW b \in 0 .. radix - 1,
               x * radix + a = y * radix + b, x < y
        PROVE  FALSE
    <3>1. PICK z \in Nat : y = x + 1 + z
      BY <2>4
    <3>2. y * radix = x * radix + radix + z * radix /\ z * radix >= 0
      BY <3>1
    <3> QED  BY <2>4, <3>2
  <2> DEFINE ud == u[d]  vd == v[d]  cd == c[d + 1]  ed == e[d + 1]
  <2>5. ud = vd
    <3> ud \in Nat /\ vd \in Nat /\ cd \in 0 .. radix - 1 /\ ed \in 0 .. radix - 1
      BY <2>2, <2>3
    <3>1. ud * radix + cd = vd * radix + ed
      BY <2>1, <2>2
    <3> HIDE DEF ud, vd, cd, ed
    <3>2. ~(ud < vd)
      BY <2>4, <3>1
    <3>3. ~(vd < ud)
      BY <2>4, <3>1
    <3> QED  BY <3>2, <3>3
  <2>6. c[d + 1] = e[d + 1]
    <3>1. u[d] * radix = v[d] * radix /\ u[d] * radix \in Nat
      BY <2>3, <2>5
    <3>2. u[d] * radix + c[d + 1] = u[d] * radix + e[d + 1]
      BY <2>1, <2>2, <3>1
    <3> QED  BY <2>2, <3>1, <3>2
  <2> QED  BY <1>4, <2>1, <2>5, <2>6
<1> HIDE DEF P
<1>5. Nat \subseteq P
  BY <1>3, <1>4, Induction
<1>6. \A x \in 1 .. n : c[x] = e[x]
  <2>1. n \in P /\ u[n] = v[n]
    BY <1>1, <1>2, <1>5
  <2> QED  BY <2>1 DEF P
<1> QED  BY <1>6 DEF Counters

LEMMA ModSmall ==
  ASSUME NEW m \in Nat \ {0}, NEW x \in 0 .. m - 1
  PROVE  x % m = x
OBVIOUS

(* One more in the last of two digits, u below p and a below radix. *)
LEMMA WithoutCarry ==
  ASSUME NEW p \in Nat \ {0}, NEW radix \in Nat \ {0}, NEW u \in 0 .. p - 1,
         NEW a \in 0 .. radix - 1, a # radix - 1
  PROVE  (u * radix + a + 1) % (radix * p) = u * radix + (a + 1)
<1>1. u * radix <= (p - 1) * radix /\ u * radix \in Nat /\ (p - 1) * radix = radix * p - radix
  OBVIOUS
<1>2. radix * p \in Nat \ {0}
  OBVIOUS
<1>3. u * radix + a + 1 < radix * p
  BY <1>1, <1>2
<1>4. ASSUME NEW x \in Nat, NEW m \in Nat \ {0}, x < m PROVE x % m = x
  BY <1>4
<1> QED  BY <1>1, <1>2, <1>3, <1>4

LEMMA WithCarry ==
  ASSUME NEW p \in Nat \ {0}, NEW radix \in Nat \ {0}, NEW u \in 0 .. p - 1
  PROVE  (u * radix + (radix - 1) + 1) % (radix * p) = ((u + 1) % p) * radix
<1>1. u * radix + (radix - 1) + 1 = (u + 1) * radix
  OBVIOUS
<1>2. radix * p \in Nat \ {0} /\ p * radix = radix * p
  OBVIOUS
<1>3. ASSUME NEW x \in Nat, NEW m \in Nat \ {0}, x < m PROVE x % m = x
  BY <1>3
<1>4. ASSUME NEW m \in Nat \ {0} PROVE m % m = 0
  BY <1>4
<1>5. CASE u + 1 = p
  BY <1>1, <1>2, <1>4, <1>5
<1>6. CASE u + 1 < p
  <2>1. (u + 1) % p = u + 1
    BY <1>3, <1>6
  <2>2. (u + 1) * radix < p * radix /\ (u + 1) * radix \in Nat
    BY <1>6
  <2>3. ((u + 1) * radix) % (radix * p) = (u + 1) * radix
    BY <1>2, <1>3, <2>2
  <2> QED  BY <1>1, <2>1, <2>3
<1> QED  BY <1>5, <1>6

(* Adding one to the last digit, with a carry into every digit all of whose *)
(* successors are at their limit, adds one modulo the power.               *)
LEMMA NumeralNext ==
  ASSUME NEW radix \in Nat \ {0}, NEW n \in Nat, NEW c \in Counters(radix, n), NEW e,
         e = [d \in 1 .. n |-> IF \A x \in d + 1 .. n : c[x] = radix - 1
                                THEN (c[d] + 1) % radix ELSE c[d]]
  PROVE  /\ e \in Counters(radix, n)
         /\ Numeral(e, radix, n) = (Numeral(c, radix, n) + 1) % Power(radix, n)
<1> DEFINE Full(d) == \A x \in d + 1 .. n : c[x] = radix - 1
<1>1. PICK u : IsValues(u, c, radix, n) /\ Numeral(c, radix, n) = u[n]
  BY NumeralIs
<1>2. PICK v : IsValues(v, e, radix, n) /\ Numeral(e, radix, n) = v[n]
  BY NumeralIs
<1>3. ASSUME NEW d \in 1 .. n
      PROVE  /\ c[d] \in 0 .. radix - 1 /\ e[d] \in 0 .. radix - 1
             /\ e[d] = IF Full(d) THEN (c[d] + 1) % radix ELSE c[d]
  BY DEF Counters
<1>4. e \in Counters(radix, n)
  BY <1>3 DEF Counters
<1> DEFINE P == {d \in Nat : d <= n => v[d] = IF Full(d) THEN (u[d] + 1) % Power(radix, d) ELSE u[d]}
<1>5. 0 \in P
  <2>1. u[0] = 0 /\ v[0] = 0 /\ Power(radix, 0) = 1
    BY <1>1, <1>2, PowerSteps DEF IsValues
  <2> QED  BY <2>1
<1>6. ASSUME NEW d \in Nat, d \in P PROVE d + 1 \in P
  <2>1. SUFFICES ASSUME d + 1 <= n
                 PROVE  v[d + 1] = IF Full(d + 1) THEN (u[d + 1] + 1) % Power(radix, d + 1) ELSE u[d + 1]
    OBVIOUS
  <2> DEFINE p == Power(radix, d)
             a == c[d + 1]
             ud == u[d]
  <2>2. /\ p \in Nat \ {0} /\ Power(radix, d + 1) = radix * p /\ ud \in 0 .. p - 1
    <3>1. d \in 0 .. n
      BY <2>1
    <3> QED  BY <1>1, <3>1, PowerSteps, PowerType, PrefixBound
  <2>3. /\ a \in 0 .. radix - 1 /\ u[d + 1] = ud * radix + a
        /\ v[d + 1] = v[d] * radix + e[d + 1]
        /\ e[d + 1] = IF Full(d + 1) THEN (a + 1) % radix ELSE a
    <3>1. d + 1 \in 1 .. n /\ d + 1 \in 0 .. n /\ d + 1 # 0 /\ (d + 1) - 1 = d
      BY <2>1
    <3>2. u[d + 1] = ud * radix + a /\ v[d + 1] = v[d] * radix + e[d + 1]
      BY <1>1, <1>2, <3>1 DEF IsValues
    <3> HIDE DEF Full
    <3> QED  BY <1>3, <3>1, <3>2
  <2>4. v[d] = IF Full(d) THEN (ud + 1) % p ELSE ud
    BY <1>6, <2>1
  <2>5. Full(d) <=> a = radix - 1 /\ Full(d + 1)
    BY <2>1, <2>3
  <2> HIDE DEF p, a, ud, Full
  <2>6. CASE ~Full(d + 1)
    BY <2>3, <2>4, <2>5, <2>6
  <2>7. CASE Full(d + 1) /\ a # radix - 1
    <3>1. e[d + 1] = a + 1 /\ v[d] = ud
      <4>1. (a + 1) % radix = a + 1
        <5>1. a + 1 \in 0 .. radix - 1
          BY <2>3, <2>7
        <5> QED  BY <5>1, ModSmall
      <4> QED  BY <2>3, <2>4, <2>5, <2>7, <4>1
    <3>2. (ud * radix + a + 1) % (radix * p) = ud * radix + (a + 1)
      BY <2>2, <2>3, <2>7, WithoutCarry
    <3> QED  BY <2>2, <2>3, <2>7, <3>1, <3>2
  <2>8. CASE Full(d + 1) /\ a = radix - 1
    <3>1. e[d + 1] = 0 /\ v[d] = (ud + 1) % p
      <4>1. a + 1 = radix /\ radix % radix = 0
        BY <2>8
      <4> QED  BY <2>3, <2>4, <2>5, <2>8, <4>1
    <3>2. (ud * radix + a + 1) % (radix * p) = ((ud + 1) % p) * radix
      BY <2>2, <2>8, WithCarry
    <3>3. ((ud + 1) % p) * radix \in Nat
      BY <2>2
    <3> QED  BY <2>2, <2>3, <2>8, <3>1, <3>2, <3>3
  <2> QED  BY <2>6, <2>7, <2>8
<1> HIDE DEF P
<1>7. Nat \subseteq P
  BY <1>5, <1>6, Induction
<1>8. v[n] = (u[n] + 1) % Power(radix, n)
  <2>1. Full(n)
    OBVIOUS
  <2>2. n \in P
    BY <1>7
  <2> HIDE DEF Full
  <2> QED  BY <2>1, <2>2 DEF P
<1> QED  BY <1>1, <1>2, <1>4, <1>8

-----------------------------------------------------------------------------
(* Remainders of any integer. *)

LEMMA Division ==
  ASSUME NEW m \in Nat \ {0}, NEW x \in Int
  PROVE  x = m * (x \div m) + (x % m) /\ x % m \in 0 .. m - 1 /\ x \div m \in Int
OBVIOUS

LEMMA Remains ==
  ASSUME NEW m \in Nat \ {0}, NEW q \in Int, NEW r \in 0 .. m - 1, NEW x \in Int, x = m * q + r
  PROVE  x % m = r /\ x \div m = q
OBVIOUS

(* Whole units do not show. *)
LEMMA Units ==
  ASSUME NEW m \in Nat \ {0}, NEW x \in Int, NEW q \in Int
  PROVE  (x + m * q) % m = x % m
<1> DEFINE r == x % m
           d == x \div m
<1>1. x = m * d + r /\ r \in 0 .. m - 1 /\ d \in Int
  BY Division
<1> HIDE DEF r, d
<1>2. x + m * q = m * (d + q) + r /\ d + q \in Int /\ x + m * q \in Int
  BY <1>1
<1> DEFINE y == x + m * q
           e == d + q
<1>3. y = m * e + r /\ e \in Int /\ y \in Int
  BY <1>2
<1> HIDE DEF y, e
<1>4. y % m = r
  BY <1>1, <1>3, Remains
<1> QED  BY <1>4 DEF y, r

(* A multiple of a factor of the modulus stays one. *)
LEMMA MultipleRemains ==
  ASSUME NEW k \in Nat \ {0}, NEW n \in Nat \ {0}, NEW x \in Int, x % k = 0
  PROVE  (x % (k * n)) % k = 0
<1>1. k * n \in Nat \ {0}
  OBVIOUS
<1> DEFINE m == k * n
           r == x % m
           d == x \div m
           c == x \div k
<1>2. m \in Nat \ {0} /\ m = k * n
  BY <1>1
<1>3. x = m * d + r /\ r \in 0 .. m - 1 /\ d \in Int
  <2> HIDE DEF m
  <2> QED  BY <1>2, Division
<1>4. x = k * c /\ c \in Int
  BY Division
<1> HIDE DEF m, r, d, c
<1>5. m * d = k * (n * d) /\ n * d \in Int
  BY <1>2, <1>3
<1>6. r = k * (c - n * d) + 0 /\ c - n * d \in Int /\ r \in Int /\ 0 \in 0 .. k - 1
  BY <1>2, <1>3, <1>4, <1>5
<1> DEFINE e == c - n * d
<1>7. r = k * e + 0 /\ e \in Int
  BY <1>6
<1> HIDE DEF e
<1>8. r % k = 0
  <2>1. r \in Int /\ 0 \in 0 .. k - 1 /\ e \in Int /\ r = k * e + 0
    BY <1>6, <1>7
  <2> HIDE <1>1, <1>2, <1>3, <1>4, <1>5, <1>6, <1>7
  <2> QED  BY <2>1, Remains
<1> QED  BY <1>8 DEF r, m

-----------------------------------------------------------------------------
(* Powers of two. *)

LEMMA Twos ==
  ASSUME NEW n \in Nat
  PROVE  Power(2, n) \in Nat \ {0} /\ (n # 0 => Power(2, n) = 2 * Power(2, n - 1))
<1>1. Power(2, n) \in Nat \ {0}
  BY PowerType
<1>2. ASSUME n # 0 PROVE Power(2, n) = 2 * Power(2, n - 1)
  <2>1. n - 1 \in Nat /\ (n - 1) + 1 = n
    BY <1>2
  <2> QED  BY <2>1, PowerSteps
<1> QED  BY <1>1, <1>2

LEMMA FirstTwos ==
  /\ Power(2, 0) = 1 /\ Power(2, 1) = 2 /\ Power(2, 2) = 4 /\ Power(2, 3) = 8 /\ Power(2, 4) = 16
<1>1. Power(2, 0) = 1 /\ Power(2, 0 + 1) = 2 * Power(2, 0)
  BY PowerSteps
<1>2. Power(2, 1 + 1) = 2 * Power(2, 1)
  BY PowerSteps
<1>3. Power(2, 2 + 1) = 2 * Power(2, 2)
  BY PowerSteps
<1>4. Power(2, 3 + 1) = 2 * Power(2, 3)
  BY PowerSteps
<1> QED  BY <1>1, <1>2, <1>3, <1>4

LEMMA TwosGrow ==
  ASSUME NEW m \in Nat, NEW n \in Nat, m <= n
  PROVE  Power(2, m) <= Power(2, n)
<1> DEFINE P == {d \in Nat : Power(2, m) <= Power(2, m + d)}
<1>1. 0 \in P
  <2>1. Power(2, m) \in Nat /\ m + 0 = m
    BY Twos
  <2> QED  BY <2>1
<1>2. ASSUME NEW d \in Nat, d \in P PROVE d + 1 \in P
  <2>1. Power(2, m + d) \in Nat /\ Power(2, m) \in Nat /\ m + d \in Nat /\ (m + d) + 1 = m + (d + 1)
    BY Twos
  <2>2. Power(2, (m + d) + 1) = 2 * Power(2, m + d)
    BY <2>1, PowerSteps
  <2>3. Power(2, m + (d + 1)) = 2 * Power(2, m + d)
    BY <2>1, <2>2
  <2> QED  BY <1>2, <2>1, <2>3
<1> HIDE DEF P
<1>3. Nat \subseteq P
  BY <1>1, <1>2, Induction
<1>4. n - m \in Nat /\ m + (n - m) = n
  OBVIOUS
<1> QED  BY <1>3, <1>4 DEF P

LEMMA TwosAdd ==
  ASSUME NEW m \in Nat, NEW n \in Nat
  PROVE  Power(2, m + n) = Power(2, m) * Power(2, n)
<1> DEFINE P == {d \in Nat : Power(2, m + d) = Power(2, m) * Power(2, d)}
<1>1. 0 \in P
  <2>1. Power(2, m) \in Nat /\ m + 0 = m /\ Power(2, 0) = 1
    BY Twos, FirstTwos
  <2> QED  BY <2>1
<1>2. ASSUME NEW d \in Nat, d \in P PROVE d + 1 \in P
  <2>1. Power(2, m) \in Nat /\ Power(2, d) \in Nat /\ m + d \in Nat /\ (m + d) + 1 = m + (d + 1)
    BY Twos
  <2>2. Power(2, (m + d) + 1) = 2 * Power(2, m + d) /\ Power(2, d + 1) = 2 * Power(2, d)
    BY <2>1, PowerSteps
  <2>3. 2 * (Power(2, m) * Power(2, d)) = Power(2, m) * (2 * Power(2, d))
    BY <2>1
  <2> QED  BY <1>2, <2>1, <2>2, <2>3
<1> HIDE DEF P
<1>3. Nat \subseteq P
  BY <1>1, <1>2, Induction
<1> QED  BY <1>3 DEF P

(* The leading bit. *)
IsLogs(p, n) == p = [k \in 0 .. n |-> IF k < 2 THEN 0 ELSE 1 + p[k \div 2]]
Leads(l, n) == l \in Nat /\ Power(2, l) <= n /\ n < Power(2, l + 1)

LEMMA LogsExist == \A n \in Nat : \E p : IsLogs(p, n)
<1> DEFINE P == {n \in Nat : \E p : IsLogs(p, n)}
<1>1. 0 \in P
  <2>1. IsLogs([k \in 0 .. 0 |-> 0], 0)
    BY DEF IsLogs
  <2> QED  BY <2>1
<1>2. ASSUME NEW n \in Nat, n \in P PROVE n + 1 \in P
  <2>1. PICK g : IsLogs(g, n)
    BY <1>2
  <2> DEFINE v == IF n + 1 < 2 THEN 0 ELSE 1 + g[(n + 1) \div 2]
             h == [k \in 0 .. n + 1 |-> IF k <= n THEN g[k] ELSE v]
             r == [k \in 0 .. n + 1 |-> IF k < 2 THEN 0 ELSE 1 + h[k \div 2]]
  <2>2. ASSUME NEW k \in 0 .. n + 1, k >= 2 PROVE k \div 2 \in 0 .. n /\ (k <= n => k \div 2 \in 0 .. k)
    BY <2>2
  <2>3. ASSUME NEW k \in 0 .. n + 1 PROVE h[k] = r[k]
    <3>1. CASE k <= n
      <4>1. g[k] = IF k < 2 THEN 0 ELSE 1 + g[k \div 2]
        BY <2>1, <3>1 DEF IsLogs
      <4> QED  BY <2>2, <3>1, <4>1
    <3>2. CASE k = n + 1
      BY <2>2, <3>2
    <3> QED  BY <3>1, <3>2
  <2>4. h = r
    BY <2>3
  <2>5. IsLogs(h, n + 1)
    <3> HIDE DEF h
    <3> QED  BY <2>4 DEF IsLogs
  <2> QED  BY <2>5
<1> HIDE DEF P
<1>3. Nat \subseteq P
  BY <1>1, <1>2, Induction
<1> QED  BY <1>3 DEF P

LEMMA HalfLeads ==
  ASSUME NEW n \in Nat, n >= 2, NEW l \in Nat, Leads(l, n \div 2)
  PROVE  Leads(l + 1, n)
<1> DEFINE q == n \div 2
           a == Power(2, l)
           b == Power(2, l + 1)
           c == Power(2, (l + 1) + 1)
<1>1. a \in Nat /\ b = 2 * a /\ c = 2 * b
  <2>1. l + 1 \in Nat
    OBVIOUS
  <2> QED  BY <2>1, PowerSteps, Twos
<1>2. q \in Nat /\ 2 * q <= n /\ n <= 2 * q + 1 /\ a <= q /\ q < b
  BY DEF Leads
<1> HIDE DEF a, b, c, q
<1>3. b <= n /\ n < c
  BY <1>1, <1>2
<1> QED  BY <1>3 DEF Leads, b, c

LEMMA Log2Leads ==
  ASSUME NEW n \in Nat \ {0}
  PROVE  Leads(Log2(n), n)
<1>1. PICK p : IsLogs(p, n) /\ Log2(n) = p[n]
  <2>1. \E p : IsLogs(p, n)
    BY LogsExist
  <2> QED  BY <2>1 DEF Log2, IsLogs
<1> DEFINE P == {j \in Nat : \A k \in 1 .. n : k <= j => Leads(p[k], k)}
<1>2. 0 \in P
  OBVIOUS
<1>3. ASSUME NEW j \in Nat, j \in P PROVE j + 1 \in P
  <2>1. SUFFICES ASSUME j + 1 \in 1 .. n PROVE Leads(p[j + 1], j + 1)
    BY <1>3
  <2>2. CASE j + 1 < 2
    <3>1. j + 1 = 1 /\ p[1] = 0
      BY <1>1, <2>1, <2>2 DEF IsLogs
    <3>2. Leads(0, 1)
      BY FirstTwos DEF Leads
    <3> QED  BY <3>1, <3>2
  <2>3. CASE j + 1 >= 2
    <3>1. p[j + 1] = 1 + p[(j + 1) \div 2]
      BY <1>1, <2>1, <2>3 DEF IsLogs
    <3>2. (j + 1) \div 2 \in 1 .. n /\ (j + 1) \div 2 <= j
      BY <2>1, <2>3
    <3> DEFINE q == (j + 1) \div 2
    <3>3. Leads(p[q], q) /\ p[q] \in Nat
      BY <1>3, <3>2 DEF Leads
    <3>4. Leads(p[q] + 1, j + 1)
      <4>1. j + 1 \in Nat
        OBVIOUS
      <4> QED  BY <2>3, <3>3, <4>1, HalfLeads
    <3> QED  BY <3>1, <3>3, <3>4
  <2> QED  BY <2>2, <2>3
<1> HIDE DEF P
<1>4. Nat \subseteq P
  BY <1>2, <1>3, Induction
<1> QED  BY <1>1, <1>4 DEF P

(* One power leads. *)
LEMMA OneLeads ==
  ASSUME NEW n \in Nat \ {0}, NEW l \in Nat, Leads(l, n)
  PROVE  Log2(n) = l
<1>1. Leads(Log2(n), n)
  BY Log2Leads
<1> DEFINE m == Log2(n)
<1>2. m \in Nat /\ Power(2, m) <= n /\ n < Power(2, m + 1) /\ Power(2, l) <= n /\ n < Power(2, l + 1)
  BY <1>1 DEF Leads
<1> HIDE DEF m
<1>3. ASSUME NEW a \in Nat, NEW b \in Nat, Power(2, a) <= n, n < Power(2, b + 1) PROVE a <= b
  <2>1. SUFFICES ASSUME b + 1 <= a PROVE FALSE
    OBVIOUS
  <2>2. b + 1 \in Nat
    OBVIOUS
  <2>3. Power(2, b + 1) <= Power(2, a)
    BY <2>1, <2>2, TwosGrow
  <2>4. Power(2, b + 1) \in Nat /\ Power(2, a) \in Nat
    BY <2>2, Twos
  <2> QED  BY <1>3, <2>3, <2>4
<1>4. m <= l /\ l <= m
  BY <1>2, <1>3
<1> QED  BY <1>2, <1>4 DEF m
=============================================================================
