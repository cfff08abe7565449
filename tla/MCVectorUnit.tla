---------------------------- MODULE MCVectorUnit ----------------------------
(***************************************************************************)
(* Bytes of two bits, so a word is 8 bits, a doubleword 16, and addresses  *)
(* run to 65535.  One mapped block of 32 bytes; bases and indices put      *)
(* operands inside it, at its ends, before it, behind it and around 0.     *)
(* Vector registers hold floats of 8 bits: zeros, whole and broken numbers, *)
(* the ends of the range, infinity and a NaN, in every combination.        *)
(***************************************************************************)
EXTENDS VectorUnit

MCRegion == 96 .. 127
MCFiles == {[r \in Regs |-> CASE r = 0 -> z [] r = 1 -> x [] r = 2 -> y] :
              z \in {104}, x \in {0, 95, 96, 100, 115, 120, 127, 128, 65535}, y \in {0, 7, 97, 111, 65528, 190}}
MCImages == {[a \in MCRegion |-> (a \div 3) % 4], [a \in MCRegion |-> (a * a + 3) % 4]}
MCAccesses == UNION {
  [op : Indexed \cup Vector, rt : {0, 1}, ra : Regs, rb : {0, 2}],
  [op : Displaced, rt : {0, 2}, ra : Regs, d : {0, 1, 7, 8, 15}],
  [op : DSForms, rt : {0, 2}, ra : Regs, d : {0, 1, 2, 3}],
  [op : {"opcode 62"}, rt : {0}, ra : {1}]}

(* Zeros, one, two, three, a half, minus one, the least and greatest numbers, *)
(* infinity, a NaN.                                                           *)
MCFloats == {0, 128, 56, 64, 68, 48, 184, 1, 119, 120, 121}
MCVectors ==
  {[r \in Regs |-> CASE r = 0 -> Register(<<x, One, z, y>>) [] r = 1 -> Register(<<y, x, 128, z>>)
                     [] r = 2 -> Register(<<z, y, x, x>>)] : x, y, z \in MCFloats}
Given(op, d, a, b, c, imm) == [op |-> op, vd |-> d, va |-> a, vb |-> b, vc |-> c, imm |-> imm]
MCComputes ==
  {Given(op, 0, 1, 2, 0, 0) : op \in VectorOps \ {"vspltisb", "vspltisw", "vspltw"}}
    \cup {Given(op, 1, 1, 2, 0, 0) : op \in {"vmaddfp", "vcmpequb.", "vxor", "vcmpeqfp"}}
    \cup {Given("vspltw", d, 0, 1, 0, imm) : d \in {1, 2}, imm \in {0, 1, 3}}
MCSplats == {Given(op, 2, 0, 0, 0, imm) : op \in {"vspltisb", "vspltisw", "vspltw"}, imm \in 0 .. 3}
              \cup {[op |-> "unknown vector"]}

MCStart ==
  << [instr |-> MCAccesses, files |-> MCFiles, images |-> MCImages,
      vectors |-> {[r \in Regs |-> <<1 + r, 2 ^^ Bits - 2>>]}],
     [instr |-> MCComputes, files |-> {[r \in Regs |-> 0]}, images |-> {[a \in MCRegion |-> 1]},
      vectors |-> MCVectors],
     [instr |-> MCSplats, files |-> {[r \in Regs |-> 0]}, images |-> {[a \in MCRegion |-> 1]},
      vectors |-> {[r \in Regs |-> <<258 + r, 772>>]}] >>
=============================================================================
