--------------------------- MODULE BranchFacility ---------------------------
(***************************************************************************)
(* What the architecture named at the head of PowerProcessor.cpp promises  *)
(* of branches, compares, Condition Register logic and moves: the reference *)
(* that BranchUnit implements.  CR is a set of flags <<field, name>>,       *)
(* numbers are integers, and the meaning of BO is the architecture's table. *)
(***************************************************************************)
EXTENDS Numerals, Sequences, FiniteSets

CONSTANTS
  Bits,       \* 64
  WordBits,   \* 32
  ImmBits,    \* 16, an SI or UI field
  BdBits,     \* 14, a BD field
  LiBits,     \* 24, a LI field
  Fields,     \* 8
  Instr       \* instructions that may be fetched

VARIABLES
  CIA,        \* current instruction address
  LR, CTR, CR,
  RT,         \* what a move from a special register left, as a set of one-bits
  ir          \* the instruction fetched, or none

state == <<CIA, LR, CTR, CR, RT, ir>>

NoInstr == [op |-> "none"]

Mod(x) == x % Power(2, Bits)

(* An n-bit pattern read as a signed or an unsigned number. *)
Extz(x, n) == x % Power(2, n)
Exts(x, n) == IF Extz(x, n) < Power(2, n - 1) THEN Extz(x, n) ELSE Extz(x, n) - Power(2, n)

Flag == <<"lt", "gt", "eq", "so">>
CRBit(k) == <<k \div 4, Flag[(k % 4) + 1]>>

-----------------------------------------------------------------------------
(* The BO field; 2 stands for a bit that is ignored. *)
Row(bits, ctr, cond) == [bits |-> bits, ctr |-> ctr, cond |-> cond]
BOTable ==
  {Row(<<0, 0, 0, 0, 2>>, "nonzero", "false"), Row(<<0, 0, 0, 1, 2>>, "zero", "false"),
   Row(<<0, 0, 1, 2, 2>>, "any", "false"),
   Row(<<0, 1, 0, 0, 2>>, "nonzero", "true"), Row(<<0, 1, 0, 1, 2>>, "zero", "true"),
   Row(<<0, 1, 1, 2, 2>>, "any", "true"),
   Row(<<1, 2, 0, 0, 2>>, "nonzero", "any"), Row(<<1, 2, 0, 1, 2>>, "zero", "any"),
   Row(<<1, 2, 1, 2, 2>>, "any", "any")}

Bit(bo, k) == (bo \div Power(2, 5 - k)) % 2
BO(bo) == CHOOSE r \in BOTable : \A k \in 1 .. 5 : r.bits[k] \in {2, Bit(bo, k)}

Decremented(bo) == IF BO(bo).ctr = "any" THEN CTR ELSE Mod(CTR - 1)

CtrOk(bo) == \/ BO(bo).ctr = "any"
             \/ BO(bo).ctr = "zero" /\ Decremented(bo) = 0
             \/ BO(bo).ctr = "nonzero" /\ Decremented(bo) # 0
CondOk(i) == \/ BO(i.bo).cond = "any"
             \/ BO(i.bo).cond = "true" /\ CRBit(i.bi) \in CR
             \/ BO(i.bo).cond = "false" /\ CRBit(i.bi) \notin CR

Link(i) == LR' = IF i.lk THEN Mod(CIA + 4) ELSE LR
WordAligned(a) == a - (a % 4)

(* Relative to the current instruction, or to zero. *)
Target(i, offset) == Mod((IF i.aa THEN 0 ELSE CIA) + 4 * offset)

BranchTo(taken, nia) == CIA' = IF taken THEN nia ELSE Mod(CIA + 4)

Branch(i) == /\ i.op = "b"
             /\ BranchTo(TRUE, Target(i, Exts(i.li, LiBits)))
             /\ Link(i) /\ UNCHANGED <<CTR, CR>>

BranchConditional(i) ==
  /\ i.op = "bc"
  /\ CTR' = Decremented(i.bo)
  /\ BranchTo(CtrOk(i.bo) /\ CondOk(i), Target(i, Exts(i.bd, BdBits)))
  /\ Link(i) /\ UNCHANGED CR

BranchConditionalToLR(i) ==
  /\ i.op = "bclr"
  /\ CTR' = Decremented(i.bo)
  /\ BranchTo(CtrOk(i.bo) /\ CondOk(i), WordAligned(LR))
  /\ Link(i) /\ UNCHANGED CR

(* Forms that decrement CTR are invalid and not in Instr. *)
BranchConditionalToCTR(i) ==
  /\ i.op = "bcctr"
  /\ BranchTo(CondOk(i), WordAligned(CTR))
  /\ Link(i) /\ UNCHANGED <<CTR, CR>>

-----------------------------------------------------------------------------
(* Compares set one field; Condition Register logic sets one bit. *)

FieldOf(bf) == {<<bf, Flag[k]>> : k \in 1 .. 4}

Order(a, b) == IF a < b THEN "lt" ELSE IF a > b THEN "gt" ELSE "eq"
Length(i) == IF i.l = 1 THEN Bits ELSE WordBits
Ordering(i) ==
  CASE i.op = "cmp"   -> Order(Exts(i.a, Length(i)), Exts(i.b, Length(i)))
    [] i.op = "cmpl"  -> Order(Extz(i.a, Length(i)), Extz(i.b, Length(i)))
    [] i.op = "cmpi"  -> Order(Exts(i.a, Length(i)), Exts(i.b, ImmBits))
    [] i.op = "cmpli" -> Order(Extz(i.a, Length(i)), Extz(i.b, ImmBits))

Compare(i) ==
  /\ i.op \in {"cmp", "cmpl", "cmpi", "cmpli"}
  /\ CR' = (CR \ FieldOf(i.bf)) \cup {<<i.bf, Ordering(i)>>}
             \cup (IF i.so THEN {<<i.bf, "so">>} ELSE {})
  /\ CIA' = Mod(CIA + 4) /\ UNCHANGED <<LR, CTR>>

Logic(i) ==
  LET p == CRBit(i.ba) \in CR
      q == CRBit(i.bb) \in CR IN
  CASE i.op = "cror" -> p \/ q
    [] i.op = "crorc" -> p \/ ~q
    [] i.op = "crnor" -> ~(p \/ q)
    [] i.op = "crnand" -> ~(p /\ q)

CRLogic(i) ==
  /\ i.op \in {"cror", "crorc", "crnor", "crnand"}
  /\ CR' = IF Logic(i) THEN CR \cup {CRBit(i.bt)} ELSE CR \ {CRBit(i.bt)}
  /\ CIA' = Mod(CIA + 4) /\ UNCHANGED <<LR, CTR>>

-----------------------------------------------------------------------------
(* Moves.  SPR 8 is LR, SPR 9 is CTR. *)
SPR(i) == 32 * i.hi + i.lo

MoveToSPR(i) ==
  /\ i.op = "mtspr"
  /\ \/ SPR(i) = 8 /\ LR' = i.a /\ UNCHANGED CTR
     \/ SPR(i) = 9 /\ CTR' = i.a /\ UNCHANGED LR
  /\ CIA' = Mod(CIA + 4) /\ UNCHANGED <<CR, RT>>

OneBits(x) == {b \in 0 .. Bits - 1 : (x \div Power(2, b)) % 2 = 1}

(* The time base is what the implementation says it is.  The order in which   *)
(* mfcr puts the flags of CR into RT is left open, only that each has a bit.  *)
MoveFrom(i) ==
  /\ \/ i.op = "mfspr" /\ SPR(i) = 8 /\ RT' = OneBits(LR)
     \/ i.op = "mfcr" /\ Cardinality(RT') = Cardinality(CR)
     \/ i.op = "mftb" /\ i.tbr = 268
  /\ CIA' = Mod(CIA + 4) /\ UNCHANGED <<LR, CTR, CR>>

(* The bits of FXM name fields; a form that names more than one is undefined. *)
(* CR is the low word of RS, field 0 its most significant bits.               *)
MoveToOneField(i) ==
  /\ i.op = "mtocrf"
  /\ \E n \in i.fxm :
       /\ i.fxm = {n}
       /\ CR' = (CR \ FieldOf(n)) \cup {<<n, Flag[k]>> : k \in {m \in 1 .. 4 : 4 * (Fields - n) - m \in i.a}}
  /\ CIA' = Mod(CIA + 4) /\ UNCHANGED <<LR, CTR, RT>>

Fetch == ir = NoInstr /\ ir' \in Instr /\ RT' = {} /\ UNCHANGED <<CIA, LR, CTR, CR>>

Execute(i) ==
  \/ /\ \/ Branch(i) \/ BranchConditional(i) \/ BranchConditionalToLR(i) \/ BranchConditionalToCTR(i)
        \/ Compare(i) \/ CRLogic(i)
     /\ UNCHANGED RT
  \/ MoveToSPR(i) \/ MoveFrom(i) \/ MoveToOneField(i)

Next == Fetch \/ (Execute(ir) /\ ir' = NoInstr)

Init ==
  /\ CIA = 0 /\ LR = 0 /\ CTR = 0 /\ CR = {} /\ RT = {}
  /\ ir = NoInstr

Spec == Init /\ [][Next]_state
==============================================================================
