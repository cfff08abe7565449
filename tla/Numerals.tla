------------------------------- MODULE Numerals -------------------------------
(***************************************************************************)
(* Numbers written as digits: the reference for arithmetic that the code   *)
(* does byte by byte or bit by bit.  The powers are a recursive function    *)
(* and not ^, of which the provers know nothing.                           *)
(***************************************************************************)
EXTENDS Integers

(* b to the n. *)
Power(b, n) == LET p[k \in 0 .. n] == IF k = 0 THEN 1 ELSE b * p[k - 1] IN p[n]

b ^^ n == Power(b, n)

(* The exponent of the leading bit of n. *)
Log2(n) == LET l[k \in 0 .. n] == IF k < 2 THEN 0 ELSE 1 + l[k \div 2] IN l[n]

(* The number whose digits to the base radix are the first n of c, the most *)
(* significant first.                                                      *)
Numeral(c, radix, n) ==
  LET upTo[d \in 0 .. n] == IF d = 0 THEN 0 ELSE upTo[d - 1] * radix + c[d] IN upTo[n]
==============================================================================
