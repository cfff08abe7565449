------------------------------ MODULE LoadStore ------------------------------
(***************************************************************************)
(* The loads and stores of executeInterpreterSingleStep, one step from any *)
(* state of the registers and memory.  Memory translates the first byte of *)
(* an access and finds the others behind it on the host, so an access that *)
(* starts in the mapped region must end there to be in this model; runs    *)
(* off its end are GuestMemory's subject.                                  *)
(*                                                                         *)
(* Left out: the FP loads and stores, which convert (FloatUnit).            *)
(***************************************************************************)
EXTENDS OneStep

CONSTANTS
  ByteBits,  \* 8
  DsBits,    \* 14, a DS field
  Region,    \* the addresses mapped, whole pages
  Start      \* instructions, and the general registers, vector registers and
             \* memory each may find

VARIABLES
  gpr,
  vr,        \* vector registers: two doublewords each
  mem,
  eq         \* EQ of CR field 0

storageVars == <<gpr, vr, mem, eq, status, ir>>

Regs == {0, 1, 2}

Updates == {"lbzu", "lwzu", "ldu", "stbu", "stdu"}
Indexed == {"lbzx", "lwzx", "ldx", "lwarx", "stbx", "sthx", "stwx", "stdx", "stwcx"}
DSForms == {"ld", "ldu", "std", "stdu"}
Displaced == {"lbz", "lbzu", "lhz", "lwz", "lwzu", "stb", "stbu", "sth", "stw"}
Loads == {"lbz", "lbzu", "lbzx", "lhz", "lwz", "lwzu", "lwzx", "lwarx", "ld", "ldu", "ldx"}
Stores == {"stb", "stbu", "stbx", "sth", "sthx", "stw", "stwx", "stwcx", "std", "stdu", "stdx"}
Vector == {"lvx", "stvx", "lvlx"}

Storage == Loads \cup Stores \cup Vector

(* Bytes of the access. *)
Width(op) == CASE op \in {"lbz", "lbzu", "lbzx", "stb", "stbu", "stbx"} -> 1
               [] op \in {"lhz", "sth", "sthx"} -> 2
               [] op \in {"lwz", "lwzu", "lwzx", "lwarx", "stw", "stwx", "stwcx"} -> 4
               [] OTHER -> 8

Byte == 0 .. 2 ^^ ByteBits - 1

ASSUME LoadStoreAssumption ==
  /\ Bits = 8 * ByteBits /\ {ByteBits, DsBits} \subseteq Nat \ {0}
  /\ Region \subseteq Word /\ \A a \in Region : {b \in Word : b \div 16 = a \div 16} \subseteq Region
  /\ \A n \in DOMAIN Start :
       /\ \A f \in Start[n].files : f \in [Regs -> Word]
       /\ \A v \in Start[n].vectors : v \in [Regs -> Word \X Word]
       /\ \A m \in Start[n].images : m \in [Region -> Byte]
  /\ \A n \in DOMAIN Start : \A i \in Start[n].instr : i.op \in Storage =>
       /\ i.rt \in Regs /\ i.ra \in Regs
       /\ \/ i.op \in Indexed \cup Vector /\ i.rb \in Regs
          \/ i.op \in Displaced /\ i.d \in 0 .. 2 ^^ ImmBits - 1
          \/ i.op \in DSForms /\ i.d \in 0 .. 2 ^^ DsBits - 1

StorageInit ==
  /\ \E n \in DOMAIN Start :
       /\ ir \in Start[n].instr
       /\ gpr \in Start[n].files /\ vr \in Start[n].vectors /\ mem \in Start[n].images
  /\ eq = FALSE
  /\ status = "running"

-----------------------------------------------------------------------------
(* Effective addresses. *)
ScaledNot(ds) == Signed(ds, DsBits)
Scaled(ds) == 4 * Signed(ds, DsBits)

Base == IF ir.ra = 0 /\ ir.op \notin Updates THEN 0 ELSE gpr[ir.ra]
Offset == IF ir.op = "lwzx" THEN Signed(gpr[ir.rb], WordBits)
          ELSE IF ir.op \in Indexed \cup Vector THEN gpr[ir.rb]
          ELSE IF ir.op \in DSForms THEN Scaled(ir.d)
          ELSE Signed(ir.d, ImmBits)
EA == Wrap(Base + Offset)

AlignedToWord(a) == a - (a % 4)
Aligned(a) == a - (a % 16)

(* Memory: translation of the first byte, and what lies behind it. *)
Translates(a) == a \in Region
Contained(a, n) == Translates(a) => a + n - 1 \in Region

ByteOf(x, n, k) == (x \div 2 ^^ (ByteBits * (n - 1 - k))) % 2 ^^ ByteBits
Loaded(a, n) == Numeral([k \in 1 .. n |-> mem[a + k - 1]], 2 ^^ ByteBits, n)
Stored(m, a, n, x) == [b \in Region |-> IF b - a \in 0 .. n - 1 THEN ByteOf(x, n, b - a) ELSE m[b]]

-----------------------------------------------------------------------------
Finish == ir' = NoInstr /\ UNCHANGED status
Failure == status' = "failed" /\ ir' = NoInstr

(* RT is written first, RA after it with the address the access used. *)
Updated(f) == IF ir.op \in Updates THEN [f EXCEPT ![ir.ra] = EA] ELSE f

UpdatedFirst == gpr' = Updated(gpr)
Untouched == UNCHANGED gpr

(* A failed access returns before anything is written. *)
FailedAccess ==
  /\ ~Translates(EA)
  /\ Untouched /\ UNCHANGED <<vr, mem, eq>>
  /\ Failure

Load ==
  /\ ir.op \in Loads /\ Contained(EA, Width(ir.op))
  /\ \/ FailedAccess
     \/ /\ Translates(EA)
        /\ gpr' = Updated([gpr EXCEPT ![ir.rt] = Loaded(EA, Width(ir.op))])
        /\ UNCHANGED <<vr, mem, eq>>
        /\ Finish

(* stwcx. always reports success. *)
Store ==
  /\ ir.op \in Stores /\ Contained(EA, Width(ir.op))
  /\ \/ FailedAccess
     \/ /\ Translates(EA)
        /\ mem' = Stored(mem, EA, Width(ir.op), gpr[ir.rt])
        /\ gpr' = Updated(gpr)
        /\ eq' = (eq \/ ir.op = "stwcx")
        /\ UNCHANGED vr
        /\ Finish

(* Two doublewords, one access each; the second may fail after the first. *)
Upper == Aligned(EA)
Lower == Wrap(Upper + 8)

LoadVector ==
  /\ ir.op = "lvx" /\ Contained(Upper, 8) /\ Contained(Lower, 8)
  /\ vr' = [vr EXCEPT ![ir.rt] =
              <<IF Translates(Upper) THEN Loaded(Upper, 8) ELSE @[1],
                IF Translates(Upper) /\ Translates(Lower) THEN Loaded(Lower, 8) ELSE @[2]>>]
  /\ IF Translates(Upper) /\ Translates(Lower) THEN Finish ELSE Failure
  /\ UNCHANGED <<gpr, mem, eq>>

StoreVector ==
  /\ ir.op = "stvx" /\ Contained(Upper, 8) /\ Contained(Lower, 8)
  /\ LET first == IF Translates(Upper) THEN Stored(mem, Upper, 8, vr[ir.rt][1]) ELSE mem IN
     mem' = IF Translates(Upper) /\ Translates(Lower) THEN Stored(first, Lower, 8, vr[ir.rt][2]) ELSE first
  /\ IF Translates(Upper) /\ Translates(Lower) THEN Finish ELSE Failure
  /\ UNCHANGED <<gpr, vr, eq>>

(* lvlx: the bytes up to the next multiple of 16 into an uninitialised buffer, *)
(* whether or not they are mapped; then both doublewords are shifted by as many *)
(* bits as the address is past a multiple.  A shift by 64 or more is undefined: *)
(* the host masks the count, or the compiler has made it zero.                 *)
Skew == EA % 16
Buffer(junk) == [k \in 0 .. 15 |-> IF k < 16 - Skew /\ Translates(EA) THEN mem[EA + k] ELSE junk]
Shifted(x) == {Wrap(x * 2 ^^ (ByteBits * (Skew % 8)))} \cup (IF Skew >= 8 THEN {0} ELSE {})

LoadVectorLeft ==
  /\ ir.op = "lvlx"
  /\ \E junk \in Byte :
       LET half(k) == Numeral([j \in 1 .. 8 |-> Buffer(junk)[k + j - 1]], 2 ^^ ByteBits, 8) IN
       \E upper \in Shifted(half(0)), lower \in Shifted(half(8)) : vr' = [vr EXCEPT ![ir.rt] = <<upper, lower>>]
  /\ UNCHANGED <<gpr, mem, eq>>
  /\ Finish

(* Opcode 62 with another extended opcode than std and stdu is logged and *)
(* stepped over.                                                          *)
SkipUnknown ==
  /\ ir.op = "opcode 62"
  /\ UNCHANGED <<gpr, vr, mem, eq>>
  /\ Finish

StorageNext ==
  /\ status = "running" /\ ir # NoInstr
  /\ Load \/ Store \/ LoadVector \/ StoreVector \/ LoadVectorLeft \/ SkipUnknown

StorageSpec == StorageInit /\ [][StorageNext]_storageVars

-----------------------------------------------------------------------------
(* The architecture's storage access, byte by byte. *)

Exts(f, n) == IF f < 2 ^^ (n - 1) THEN f ELSE f - 2 ^^ n
ArchEA ==
  LET index == IF ir.op \in Indexed \cup Vector THEN gpr[ir.rb]
               ELSE IF ir.op \in DSForms THEN Exts(ir.d * 4, DsBits + 2)
               ELSE Exts(ir.d, ImmBits)
      base == IF ir.op \in Updates \/ ir.ra # 0 THEN gpr[ir.ra] ELSE 0 IN
  (base + index) % 2 ^^ Bits

RegByte(x, k) == (x \div 2 ^^ (ByteBits * (7 - k))) % 2 ^^ ByteBits
VRByte(v, k) == IF k < 8 THEN RegByte(v[1], k) ELSE RegByte(v[2], k - 8)

(* The operand: the bytes of memory, with the register byte of each. *)
Operand == IF ir.op \in Vector
             THEN [k \in 0 .. 15 |-> ArchEA - (ArchEA % 16) + k]
             ELSE [k \in 8 - Width(ir.op) .. 7 |-> ArchEA + k - (8 - Width(ir.op))]

(* An update form that loads the base register is an invalid form. *)
Moved ==
  LET k == DOMAIN Operand IN
  /\ ir.op \in Loads => \/ ir.op \in Updates /\ ir.rt = ir.ra
                       \/ \A j \in 0 .. 7 : RegByte(gpr'[ir.rt], j) = IF j \in k THEN mem[Operand[j]] ELSE 0
  /\ ir.op \in {"lvx", "lvlx"} => \A j \in k : VRByte(vr'[ir.rt], j) = mem[Operand[j]]
  /\ ir.op \in Stores => \A j \in k : mem'[Operand[j]] = RegByte(gpr[ir.rt], j)
  /\ ir.op = "stvx" => \A j \in k : mem'[Operand[j]] = VRByte(vr[ir.rt], j)

OthersKept ==
  LET written == {Operand[k] : k \in DOMAIN Operand} IN
  /\ \A a \in Region : mem'[a] = mem[a] \/ (ir.op \in Stores \cup {"stvx"} /\ a \in written)
  /\ \A r \in Regs : \/ gpr'[r] = gpr[r]
                     \/ ir.op \in Loads /\ r = ir.rt
                     \/ ir.op \in Updates /\ r = ir.ra
  /\ \A r \in Regs : vr'[r] = vr[r] \/ (ir.op \in {"lvx", "lvlx"} /\ r = ir.rt)

Completes == ir.op \in Storage /\ status' = "running"

(* lvlx loads its operand when it is mapped and not misaligned. *)
LvlxShifts == ir.op = "lvlx" /\ (ArchEA % 16 # 0 \/ ArchEA \notin Region)

(* lwzx takes the low word of the index as a signed number. *)
IndexExtended == ir.op = "lwzx" /\ gpr[ir.rb] # SignExtend(gpr[ir.rb], WordBits)

-----------------------------------------------------------------------------
(* Properties. *)

(* A load or store that completes moves the operand the architecture names,  *)
(* big-endian and zero-extended, leaves every other byte and register alone, *)
(* and an update form leaves the address in RA.                              *)
MovesOperand ==
  [][Completes /\ ~IndexExtended =>
       (LvlxShifts \/ Moved) /\ OthersKept /\ (ir.op \in Updates => gpr'[ir.ra] = ArchEA)]_storageVars

(* An instruction fails only when a byte of the architecture's operand is     *)
(* not mapped, and then it has done nothing: an update form has not moved RA, *)
(* and the two halves of a vector access fail together, because the alignment *)
(* keeps them on one page.                                                    *)
FailureIsPrecise ==
  [][ir.op \in Storage /\ status' = "failed" =>
       /\ UNCHANGED <<gpr, vr, mem, eq>>
       /\ IndexExtended \/ \E k \in DOMAIN Operand : Operand[k] \notin Region]_storageVars
==============================================================================
