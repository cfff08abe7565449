---------------------------- MODULE MCFloatUnit ----------------------------
(***************************************************************************)
(* A double of 14 bits, a float of 7: all pairs of floats, infinities and  *)
(* NaNs for arithmetic; every float pattern, and doublewords at the ends   *)
(* of each range, for copies and conversions.                              *)
(***************************************************************************)
EXTENDS FloatUnit

Op(op, t, a, b, c, rc) == [op |-> op, t |-> t, a |-> a, b |-> b, c |-> c, rc |-> rc]
Mem(op, t, mapped) == [op |-> op, t |-> t, mapped |-> mapped]
Cmp(bf) == [op |-> "fcmpu", bf |-> bf, a |-> 0, b |-> 1]

Floats == Patterns(Single)
Coarse == {x \in Floats : x % 3 = 0}
WideOf == [x \in Floats |-> Convert(Single, Double, x)]
Wide(x) == WideOf[x]
Odd == {0, 1, 255, 256, 257, 3839, 3840, 5119, 5120, 5121, 5247, 5248, 7935, 7936, 8191, 8192, 8193,
        8448, 12031, 13312, 13440, 16127, 16128, 16300, 63, 64, 65, 3000, 3968, 4000}

Binary == <<"fsub", "fmul", "fdiv", "fmadds">>
Unary == <<"frsp", "fctiwz", "fctidz", "fcfid", "fneg", "fmr">>
Storage == <<"lfs", "lfd", "stfs", "stfd", "stfiwx">>
Given(fprs, words, dwords, p) == [prog |-> p, fprs |-> fprs, words |-> words, dwords |-> dwords]
Files(S) == [Reg -> {Wide(x) : x \in S}]
Alone(S) == {[r \in Reg |-> x] : x \in S}
Each(programs, fprs) == [k \in DOMAIN programs |-> Given(fprs, {0}, {0}, programs[k])]

MCStart ==
  Each(<< <<Op("fadds", 0, 0, 1, 1, FALSE)>>, <<Op("fmuls", 0, 0, 1, 1, TRUE)>> >>, Files(Floats))
  \o Each([k \in DOMAIN Binary |-> <<Op(Binary[k], 1, 0, 1, 1, FALSE)>>], Files(Coarse))
  \o Each(<< <<Op("fsub", 1, 0, 1, 1, TRUE), Cmp(1)>>, <<Cmp(1)>> >>, Files(Coarse))
  \o Each([k \in DOMAIN Unary |-> <<Op(Unary[k], 0, 1, 0, 1, k % 2 = 0)>>], Alone(Odd \cup {Wide(x) : x \in Floats}))
  \o Each(<< <<Op("fctiwz", 1, 0, 0, 0, FALSE), Mem("stfiwx", 1, TRUE)>> >>, Alone(Odd))
  \o << Given(Alone({0}), Floats, {0}, <<Mem("lfs", 0, TRUE), Op("fmr", 1, 0, 0, 0, FALSE), Mem("stfs", 1, TRUE)>>),
        Given(Alone({0}), {0}, Odd, <<Mem("lfd", 0, TRUE), Op("fmr", 1, 0, 0, 0, TRUE), Mem("stfd", 1, TRUE)>>),
        Given(Alone({0}), {0}, Odd, <<Mem("lfd", 0, TRUE), Op("fcfid", 1, 0, 0, 0, FALSE)>>) >>
  \o Each([k \in DOMAIN Storage |-> <<Mem(Storage[k], 0, FALSE)>>] \o << <<[op |-> "unimplemented"]>> >>, Alone({1}))
=============================================================================
