------------------------------ MODULE BranchUnit ------------------------------
(***************************************************************************)
(* The branch and compare instructions of executeInterpreterSingleStep and *)
(* those on the Condition Register and the special registers.  CR is the    *)
(* set of its one-bits, numbered from the least significant as the code     *)
(* shifts them; the other registers are naturals below 2^Bits.              *)
(*                                                                          *)
(* A fetched instruction carries its fields (ir.a and ir.b are the values   *)
(* of the general registers or immediate fields it names, ir.so is          *)
(* XER[SO]), so any program and any register contents can precede it.       *)
(***************************************************************************)
EXTENDS Numerals

CONSTANTS Bits, WordBits, ImmBits, BdBits, LiBits, Fields, Instr,
          TimeBase   \* 0xDEADBEEF, as a set of one-bits

VARIABLES
  pc, lr, ctr, cr,   \* Thread::PC, LR, CTR, CR
  rt,                \* the one-bits a move left in a general register, until the next fetch
  ir                 \* the instruction at pc, or none

vars == <<pc, lr, ctr, cr, rt, ir>>

Word == 0 .. Power(2, Bits) - 1
CRBits == 0 .. 4 * Fields - 1
NoInstr == [op |-> "none"]

Branches == [op : {"bc"}, bo : 0 .. 31, bi : CRBits, bd : 0 .. Power(2, BdBits) - 1, aa : BOOLEAN, lk : BOOLEAN]
              \cup [op : {"b"}, li : 0 .. Power(2, LiBits) - 1, aa : BOOLEAN, lk : BOOLEAN]
              \cup [op : {"bclr"}, bo : 0 .. 31, bi : CRBits, lk : BOOLEAN]
              \cup [op : {"bcctr"}, bo : {n \in 0 .. 31 : (n \div 4) % 2 = 1}, bi : CRBits, lk : BOOLEAN]
Compares == [op : {"cmp", "cmpl", "cmpi", "cmpli"}, bf : 0 .. Fields - 1, l : {0, 1},
             a : Word, b : Word, so : BOOLEAN]
CROps == [op : {"cror", "crorc", "crnor", "crnand"}, bt : CRBits, ba : CRBits, bb : CRBits]
RegisterBits == (0 .. Bits - 1) \cup CRBits
Moves == [op : {"mtspr"}, hi : 0 .. 31, lo : 0 .. 31, a : Word]
           \cup [op : {"mfspr"}, hi : 0 .. 31, lo : 0 .. 31]
           \cup [op : {"mftb"}, tbr : 0 .. 1023] \cup [op : {"mfcr", "mtcrf"}]
           \cup [op : {"mtocrf"}, fxm : SUBSET (0 .. Fields - 1), a : SUBSET RegisterBits]

ASSUME BranchAssumption ==
  /\ {Bits, WordBits, ImmBits, BdBits, LiBits, Fields} \subseteq Nat \ {0}
  /\ ImmBits < WordBits /\ WordBits < Bits /\ Bits > 2
  /\ TimeBase \subseteq RegisterBits
  /\ \A i \in Instr : i \in Branches \cup Compares \cup CROps \cup Moves

Wrap(x) == x % Power(2, Bits)

Init ==
  /\ pc = 0 /\ lr = 0 /\ ctr = 0 /\ cr = {} /\ rt = {}
  /\ ir = NoInstr

-----------------------------------------------------------------------------
(* Conversions: (int32_t) and (int16_t) sign-extend into 64 bits, (uint32_t) *)
(* and (uint16_t) clear the high bits, and int64_t comparison flips the sign *)
(* bit's weight.                                                             *)
Low(x, n) == x % Power(2, n)
SignBit(x, n) == (x \div Power(2, n - 1)) % 2 = 1
SignExtendNot(x, n) == Low(x, n)
SignExtend(x, n) == Wrap(Low(x, n) - (IF SignBit(x, n) THEN Power(2, n) ELSE 0))
Signed(x) == IF SignBit(x, Bits) THEN x - Power(2, Bits) ELSE x

(* setCR(index, cond): the mask clears the field only. *)
SetCR(index, cond) == (cr \ (4 * index .. 4 * index + 3)) \cup {4 * index + b : b \in cond}

-----------------------------------------------------------------------------
(* Branches.  bo0 is the most significant of the five bits. *)
Bo(i, weight) == (i.bo \div weight) % 2 = 1
CrSet(i) == i.bi \in cr

StoredCtr(i) == IF Bo(i, 4) THEN ctr ELSE Wrap(ctr - 1)
TestedBefore(i) == Bo(i, 4) \/ ((ctr # 0) # Bo(i, 2))
CtrOk(i) == Bo(i, 4) \/ ((StoredCtr(i) # 0) # Bo(i, 2))
CondOk(i) == Bo(i, 16) \/ CrSet(i) = Bo(i, 8)

Link(i) == lr' = IF i.lk THEN Wrap(pc + 4) ELSE lr

(* & ~3 *)
AlignNot(x) == x
Align(x) == x - (x % 4)

Displaced(i, words) == IF i.aa THEN Wrap(4 * words) ELSE Wrap(pc + 4 * words)

(* b, ba, bl, bla *)
B == /\ ir.op = "b"
     /\ pc' = Displaced(ir, SignExtend(ir.li, LiBits))
     /\ Link(ir)
     /\ UNCHANGED <<ctr, cr>>

(* bc and its forms: CTR is decremented first and tested as stored. *)
BC == /\ ir.op = "bc"
      /\ ctr' = StoredCtr(ir)
      /\ pc' = IF CtrOk(ir) /\ CondOk(ir) THEN Displaced(ir, SignExtend(ir.bd, BdBits))
                                          ELSE Wrap(pc + 4)
      /\ Link(ir)
      /\ UNCHANGED cr

(* bclr: the target is read before LR is written. *)
BCLR == /\ ir.op = "bclr"
        /\ ctr' = StoredCtr(ir)
        /\ pc' = IF CtrOk(ir) /\ CondOk(ir) THEN Align(lr) ELSE Wrap(pc + 4)
        /\ Link(ir)
        /\ UNCHANGED cr

BCCTR == /\ ir.op = "bcctr"
         /\ pc' = IF CondOk(ir) THEN Align(ctr) ELSE Wrap(pc + 4)
         /\ Link(ir)
         /\ UNCHANGED <<ctr, cr>>

-----------------------------------------------------------------------------
(* Compares: c is 1, 2 or 4 for less, greater, equal, and SO is bit 3. *)
Cond(less, greater, so) ==
  {IF less THEN 0 ELSE IF greater THEN 1 ELSE 2} \cup (IF so THEN {3} ELSE {})

Arithmetic(a, b) == Cond(Signed(a) < Signed(b), Signed(a) > Signed(b), ir.so)
Logical(a, b) == Cond(a < b, a > b, ir.so)

Operand(x) == IF ir.l = 1 THEN x ELSE SignExtend(x, WordBits)
OperandU(x) == IF ir.l = 1 THEN x ELSE Low(x, WordBits)

Proceed == pc' = Wrap(pc + 4) /\ UNCHANGED <<lr, ctr>>

Cmp == /\ ir.op = "cmp"
       /\ cr' = SetCR(ir.bf, Arithmetic(Operand(ir.a), Operand(ir.b)))
       /\ Proceed

Cmpl == /\ ir.op = "cmpl"
        /\ cr' = SetCR(ir.bf, Logical(OperandU(ir.a), OperandU(ir.b)))
        /\ Proceed

Cmpi == /\ ir.op = "cmpi"
        /\ cr' = SetCR(ir.bf, Arithmetic(Operand(ir.a), SignExtend(ir.b, ImmBits)))
        /\ Proceed

Cmpli == /\ ir.op = "cmpli"
         /\ cr' = SetCR(ir.bf, Logical(OperandU(ir.a), Low(ir.b, ImmBits)))
         /\ Proceed

(* (cr & ~(1 << rt)) | (result << rt) *)
SetBit(k, result) == (cr \ {k}) \cup (IF result THEN {k} ELSE {})

CROp == /\ LET p == ir.ba \in cr
               q == ir.bb \in cr IN
             \/ ir.op = "cror" /\ cr' = SetBit(ir.bt, p \/ q)
             \/ ir.op = "crorc" /\ cr' = SetBit(ir.bt, p \/ ~q)
             \/ ir.op = "crnor" /\ cr' = SetBit(ir.bt, ~(p \/ q))
             \/ ir.op = "crnand" /\ cr' = SetBit(ir.bt, ~(p /\ q))
        /\ Proceed

-----------------------------------------------------------------------------
(* Moves.  The halves of a special register's number are or-ed, not joined. *)
EitherBit(i, weight) == IF 1 \in {(i.hi \div weight) % 2, (i.lo \div weight) % 2} THEN weight ELSE 0
Spr(i) == EitherBit(i, 16) + EitherBit(i, 8) + EitherBit(i, 4) + EitherBit(i, 2) + EitherBit(i, 1)

MtSPR == /\ ir.op = "mtspr"
         /\ \/ Spr(ir) = 8 /\ lr' = ir.a /\ UNCHANGED ctr
            \/ Spr(ir) = 9 /\ ctr' = ir.a /\ UNCHANGED lr
         /\ pc' = Wrap(pc + 4)
         /\ UNCHANGED <<cr, rt>>

OneBits(x) == {b \in 0 .. Bits - 1 : (x \div Power(2, b)) % 2 = 1}

(* mfspr, mftb (TBR is set by main() and never counts) and mfcr, which copies *)
(* CR as it is kept.                                                          *)
MoveFrom == /\ \/ ir.op = "mfspr" /\ Spr(ir) = 8 /\ rt' = OneBits(lr)
               \/ ir.op = "mftb" /\ ir.tbr = 268 /\ rt' = TimeBase
               \/ ir.op = "mfcr" /\ rt' = cr
            /\ Proceed
            /\ UNCHANGED cr

(* The leading zeros of FXM, modulo the number of fields. *)
Leading(fxm) == IF fxm = {} THEN 0 ELSE CHOOSE n \in fxm : \A m \in fxm : n <= m

(* (s >> ((n * 4) ^ 0x1c)) & 0xf, as weights 0 .. 3. *)
Nibble(s, n) == {j \in 0 .. 3 : 4 * (Fields - 1 - n) + j \in s}

(* s_table has a byte per bit of the nibble, the most significant first; read *)
(* as one word and shifted by n, they fall a byte, that is Fields bits, apart. *)
Scattered(v, n) == {n + Fields * (3 - j) : j \in v}

MtOCRF == /\ ir.op = "mtocrf"
          /\ LET n == Leading(ir.fxm) IN
               cr' = (cr \ (4 * n .. 4 * n + 3)) \cup Scattered(Nibble(ir.a, n), n)
          /\ Proceed
          /\ UNCHANGED rt

(* Every other special register, and mtcrf: nothing is done, for ever. *)
Refused ==
  /\ \/ ir.op = "mtspr" /\ Spr(ir) \notin {8, 9}
     \/ ir.op = "mfspr" /\ Spr(ir) # 8
     \/ ir.op = "mftb" /\ ir.tbr # 268
     \/ ir.op = "mtcrf"
  /\ UNCHANGED vars

-----------------------------------------------------------------------------
Fetch == ir = NoInstr /\ ir' \in Instr /\ rt' = {} /\ UNCHANGED <<pc, lr, ctr, cr>>

Execute == /\ \/ /\ B \/ BC \/ BCLR \/ BCCTR \/ Cmp \/ Cmpl \/ Cmpi \/ Cmpli \/ CROp
                 /\ UNCHANGED rt
              \/ MtSPR \/ MoveFrom \/ MtOCRF
           /\ ir' = NoInstr

Next == Fetch \/ Execute \/ Refused

Spec == Init /\ [][Next]_vars

-----------------------------------------------------------------------------
(* Properties. *)

(* Type invariant; instructions are always fetched from a word boundary:     *)
(* every form of branch keeps PC a multiple of four, whatever LR and CTR hold. *)
TypeOK ==
  /\ pc \in Word /\ pc % 4 = 0
  /\ lr \in Word /\ ctr \in Word /\ cr \subseteq CRBits /\ rt \subseteq RegisterBits
  /\ ir \in Instr \cup {NoInstr}

(* The architecture's view: bit k of CR, counted from the left there and from *)
(* the right here, is the same flag of the same field.                       *)
Flag == <<"lt", "gt", "eq", "so">>
Flags(S) == {<<k \div 4, Flag[(k % 4) + 1]>> : k \in S}
ISA == INSTANCE BranchFacility WITH CIA <- pc, LR <- lr, CTR <- ctr, RT <- rt, CR <- Flags(cr)

(* The claim is about programs without two kinds of instruction: an mtocrf   *)
(* that names several fields or none, or whose bits are not scattered to     *)
(* where they belong, and a move to or from a special register whose halves  *)
(* or to 8 or 9 but do not join to it.                                       *)
InPlace(i) ==
  \E n \in i.fxm :
    /\ i.fxm = {n}
    /\ Scattered(Nibble(i.a, n), n) = {4 * n + 3 - j : j \in Nibble(i.a, n)}
Conforms(i) == /\ i.op = "mtocrf" => InPlace(i)
               /\ i.op \in {"mtspr", "mfspr"} /\ Spr(i) \in {8, 9} => i.hi = 0
Conforming == \A i \in Instr : Conforms(i)

(* Every instruction does what the architecture says, for every BO, BI, link *)
(* and displacement, every operand, and every state earlier ones leave; one   *)
(* that is refused has no effect.                                             *)
RefinesISA == ISA!Spec

(* "MTOCRF", and the mask that is built for it: the field FXM names takes its *)
(* four bits from its place in RS, the other fields stay.                     *)
FieldBits(n) == 4 * n .. 4 * n + 3
MovesNamedField ==
  [][ir.op = "mtocrf" =>
       LET n == Leading(ir.fxm) IN
       cr' = (cr \ FieldBits(n)) \cup {4 * n + 3 - j : j \in Nibble(ir.a, n)}]_vars
==============================================================================
