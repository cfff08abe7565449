----------------------------- MODULE VectorUnit -----------------------------
(***************************************************************************)
(* Opcode 4 of executeInterpreterSingleStep: the vector instructions, over *)
(* the registers that LoadStore's lvx, lvlx and stvx fill and store.  A    *)
(* register holds four words, floats or patterns; LOAD_128_BE copies them  *)
(* out of the sources before STORE_128_BE writes the destination.          *)
(***************************************************************************)
EXTENDS LoadStore, FloatOps, Sequences

CONSTANT SplatBits   \* 5, the immediate of a splat

VARIABLE cr6         \* CR field 6, from its least significant bit

vvars == <<storageVars, cr6>>

VectorOps == {"vmaddfp", "vnmsubfp", "vsel", "vcmpeqfp", "vcmpequb.", "vspltisb", "vspltisw",
              "vspltw", "vxor", "vrsqrtefp"}

ASSUME VectorUnitAssumption ==
  /\ SplatBits \in Nat \ {0} /\ ByteBits > 1 /\ 4 * ByteBits = WordBits
  /\ \A n \in DOMAIN Start : \A i \in Start[n].instr : i.op \in VectorOps =>
       {i.vd, i.va, i.vb, i.vc} \subseteq Regs /\ i.imm \in 0 .. 2 ^^ SplatBits - 1

VInit == StorageInit /\ cr6 = {}

-----------------------------------------------------------------------------
Lanes(r) == <<High(vr[r][1]), Low(vr[r][1], WordBits), High(vr[r][2]), Low(vr[r][2], WordBits)>>
Register(w) == <<w[1] * 2 ^^ WordBits + w[2], w[3] * 2 ^^ WordBits + w[4]>>
A == Lanes(ir.va)
B == Lanes(ir.vb)
C == Lanes(ir.vc)
Lane == 1 .. 4
All(w) == [k \in Lane |-> w]

Ones == 2 ^^ WordBits - 1
One == FromNat(Single, 1)

(* Floats: NaN equals nothing, the two zeros equal each other. *)
SamePattern(x, y) == x = y
SameFloat(x, y) == /\ ~IsNaN(Single, x) /\ ~IsNaN(Single, y)
                   /\ Rank(Single, x) = Rank(Single, y)

(* Both multiply-adds round to an integer; vnmsubfp does not negate. *)
MultiplyAdds(addend) ==
  {[k \in Lane |-> StdRound(Single, MultiplyAdd(Single, fused, A[k], C[k], addend[k]))] :
     fused \in BOOLEAN}

(* vsel takes from vA where the bit of vC is set. *)
Selected(k) == Or(And(A[k], C[k]), And(B[k], Not(C[k])))

(* A byte of the result of vcmpequb. is one, not all ones. *)
(* The word of four bytes, b[0] the least significant. *)
InBytes(b) == Numeral([d \in 1 .. 4 |-> b[4 - d]], 2 ^^ ByteBits, 4)
ByteIn(w, j) == (w \div 2 ^^ (ByteBits * j)) % 2 ^^ ByteBits
EqualBytes(k) ==
  InBytes([j \in 0 .. 3 |-> IF ByteIn(A[k], j) = ByteIn(B[k], j) THEN 1 ELSE 0])
Summary(w) == (IF w = All(Ones) THEN {3} ELSE {}) \cup (IF w = All(0) THEN {1} ELSE {})

Immediate == Signed(ir.imm, SplatBits)
InEachByte(n) == InBytes([j \in 0 .. 3 |-> Low(n, ByteBits)])

Results ==
  CASE ir.op = "vmaddfp" -> MultiplyAdds(B)
    [] ir.op = "vnmsubfp" -> MultiplyAdds([k \in Lane |-> Negated(Single, B[k])])
    [] ir.op = "vsel" -> {[k \in Lane |-> Selected(k)]}
    [] ir.op = "vcmpeqfp" -> {[k \in Lane |-> IF SameFloat(A[k], B[k]) THEN Ones ELSE 0]}
    [] ir.op = "vcmpequb." -> {[k \in Lane |-> EqualBytes(k)]}
    [] ir.op = "vspltisb" -> {All(InEachByte(Immediate))}
    [] ir.op = "vspltisw" -> {All(Low(Immediate, WordBits))}
    [] ir.op = "vspltw" -> {All(B[(ir.imm % 4) + 1])}
    [] ir.op = "vxor" -> {[k \in Lane |-> Xor(A[k], B[k])]}
    [] ir.op = "vrsqrtefp" -> {[k \in Lane |-> Divide(Single, One, Sqrt(Single, B[k]))]}

Ready == status = "running" /\ ir # NoInstr

Compute ==
  /\ Ready /\ ir.op \in VectorOps
  /\ \E w \in Results :
       /\ vr' = [vr EXCEPT ![ir.vd] = Register(w)]
       /\ cr6' = IF ir.op = "vcmpequb." THEN Summary(w) ELSE cr6
  /\ UNCHANGED <<gpr, mem, eq>>
  /\ Finish

UnknownVector ==
  /\ Ready /\ ir.op = "unknown vector"
  /\ UNCHANGED <<gpr, vr, mem, eq, cr6>>
  /\ Failure

VNext == (StorageNext /\ UNCHANGED cr6) \/ Compute \/ UnknownVector

VSpec == VInit /\ [][VNext]_vvars

-----------------------------------------------------------------------------
(* The architecture's results, lane by lane, from the bytes of registers. *)

WordOf(v, k) == InBytes([j \in 0 .. 3 |-> VRByte(v, 4 * k - 1 - j)])
In(r, k) == WordOf(vr[r], k)

Ordinary(x) == ~IsNaN(Single, x) /\ ~IsInfinite(Single, x)
WholeNumber(x) == Ordinary(x) /\ StdRound(Single, x) = x
Equals(v, w) == AtMost(v, w) /\ AtMost(w, v)

(* The product of whole numbers, when a float holds it. *)
ProductIn(k) == Product(Exact(Single, In(ir.va, k)), Exact(Single, In(ir.vc, k)))
WholeLane(k) ==
  /\ \A r \in {ir.va, ir.vb, ir.vc} : WholeNumber(In(r, k))
  /\ LET p == Round(Single, ProductIn(k)) IN Ordinary(p) /\ Equals(Exact(Single, p), ProductIn(k))

(* A reciprocal square root estimate: off by a few units in the last place. *)
Estimates(r, x) ==
  LET unit(n) == Exactly(FALSE, n, 1, -SingleFrac)
      rrx == Product(Product(Exact(Single, r), Exact(Single, r)), Exact(Single, x)) IN
  IF IsNaN(Single, x) THEN IsNaN(Single, r)
  ELSE IF IsZero(Single, x) THEN r = WithSign(Single, Minus(Single, x), Infinity(Single))
  ELSE IF Minus(Single, x) THEN IsNaN(Single, r)
  ELSE IF IsInfinite(Single, x) THEN r = 0
  ELSE AtMost(unit(2 ^^ SingleFrac - 3), rrx) /\ AtMost(rrx, unit(2 ^^ SingleFrac + 3))

LaneAsArchitected(d, k) ==
  CASE ir.op = "vspltw" -> d = In(ir.vb, ir.imm + 1)
    [] ir.op = "vspltisw" -> Signed(d, WordBits) = Signed(ir.imm, SplatBits)
    [] ir.op = "vspltisb" -> \A j \in 0 .. 3 : Signed(ByteIn(d, j), ByteBits) = Signed(ir.imm, SplatBits)
    [] ir.op = "vxor" -> BitsOf(d) = SymDiff(BitsOf(In(ir.va, k)), BitsOf(In(ir.vb, k)))
    [] ir.op = "vcmpeqfp" ->
         d = IF /\ ~IsNaN(Single, In(ir.va, k)) /\ ~IsNaN(Single, In(ir.vb, k))
                /\ Equals(Exact(Single, In(ir.va, k)), Exact(Single, In(ir.vb, k))) THEN Ones ELSE 0
    [] ir.op = "vcmpequb." ->
         \A j \in 0 .. 3 : ByteIn(d, j) # 0 <=> ByteIn(In(ir.va, k), j) = ByteIn(In(ir.vb, k), j)
    [] ir.op = "vmaddfp" ->
         WholeLane(k) => d = Round(Single, Sum(ProductIn(k), Exact(Single, In(ir.vb, k))))
    [] ir.op = "vrsqrtefp" -> Estimates(d, In(ir.vb, k))
    [] OTHER -> TRUE

SomeByteEqual == \E k \in 0 .. 15 : VRByte(vr[ir.va], k) = VRByte(vr[ir.vb], k)

-----------------------------------------------------------------------------
(* Properties. *)

(* Vector instructions compute each word of vD from the words their sources   *)
(* held before, also when vD is one of them: splats, exclusive or, comparison *)
(* of floats, multiply-add of whole numbers and the reciprocal square root as *)
(* the architecture has them, vcmpequb. up to the value that stands for an    *)
(* equal byte.  Field 6 is left zero exactly when some byte is equal, and no  *)
(* other register or byte of memory changes.  vsel, which swaps the roles of  *)
(* its operands, and vnmsubfp, which does not negate, are held to the last    *)
(* part only.                                                                 *)
VectorAsArchitected ==
  [][ir.op \in VectorOps /\ status' = "running" =>
       /\ \A k \in Lane : LaneAsArchitected(WordOf(vr'[ir.vd], k), k)
       /\ ir.op = "vcmpequb." => (cr6' = {} <=> SomeByteEqual)
       /\ ir.op # "vcmpequb." => cr6' = cr6
       /\ \A r \in Regs \ {ir.vd} : vr'[r] = vr[r]
       /\ UNCHANGED <<gpr, mem, eq>>]_vvars
==============================================================================
