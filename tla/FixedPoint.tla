----------------------------- MODULE FixedPoint -----------------------------
(***************************************************************************)
(* The fixed-point arithmetic, logical, shift and rotate instructions of   *)
(* executeInterpreterSingleStep, one step from any state.  An instruction   *)
(* comes with the contents of the registers or immediate fields it names:  *)
(* a is RA (RS of logical, shift and rotate forms), b is RB or the         *)
(* immediate or the shift count, old is RA before a rotate that inserts.   *)
(*                                                                         *)
(* XER has only its carry here: setOverflow is called for OE forms, and    *)
(* the ten-bit extended opcode the interpreter switches on includes OE, so *)
(* no OE form reaches a case.                                              *)
(***************************************************************************)
EXTENDS OneStep

CONSTANT Instr   \* instructions that may be executed

VARIABLES
  rt,        \* the result register
  ca,        \* XER[CA]
  cr0        \* the sign in CR field 0

vars == <<rt, ca, cr0, status, ir>>

XOForms == {"add", "subf", "addc", "subfc", "neg", "mulld", "mullw", "divdu", "divwu", "divd"}
XForms == {"mulhw", "mulhwu", "and", "or", "xor", "nor", "andc", "extsb", "extsh", "extsw",
           "cntlzw", "cntlzd", "slw", "srw", "srd", "sraw", "srawi"}
DForms == {"addi", "li", "addis", "lis", "addic", "subfic", "mulli", "ori", "oris", "xori"}
MForms == {"rlwimi", "rlwinm"}
MDForms == {"rldicl", "rldicr", "rldic", "rldimi"}

ASSUME FixedPointAssumption ==
  \A i \in Instr :
       \/ i.op \in XOForms /\ {i.a, i.b} \subseteq Word /\ {i.oe, i.rc} \subseteq BOOLEAN
       \/ i.op \in XForms /\ {i.a, i.b} \subseteq Word /\ i.rc \in BOOLEAN
            /\ (i.op = "srawi" => i.b < WordBits)
       \/ i.op \in DForms /\ i.a \in Word /\ i.b \in 0 .. 2 ^^ ImmBits - 1
       \/ i.op \in MForms /\ {i.a, i.old} \subseteq Word /\ i.rc \in BOOLEAN
            /\ {i.sh, i.mb, i.me} \subseteq 0 .. WordBits - 1
       \/ i.op \in MDForms /\ {i.a, i.old} \subseteq Word /\ i.rc \in BOOLEAN
            /\ {i.sh, i.mb} \subseteq Pattern

Init ==
  /\ rt = 0 /\ ca \in BOOLEAN /\ cr0 \in {"lt", "gt", "eq"}
  /\ status = "running"
  /\ ir \in Instr

-----------------------------------------------------------------------------
(* setGPR, then setXFormatCR0 for a record form, then the next address. *)
Sign(x) == IF x = 0 THEN "eq" ELSE IF Negative(x, Bits) THEN "lt" ELSE "gt"

Plain(x) == rt' = x /\ UNCHANGED cr0
RecordedLow(x) == rt' = x /\ cr0' = IF ir.rc THEN Sign(Low(x, WordBits)) ELSE cr0
Recorded(x) == rt' = x /\ cr0' = IF ir.rc THEN Sign(x) ELSE cr0

Running == status = "running" /\ UNCHANGED status

(* The unknown extended opcode. *)
OEForm == ir.op \in XOForms /\ ir.oe
Unimplemented ==
  /\ OEForm
  /\ status' = "failed"
  /\ UNCHANGED <<rt, ca, cr0, ir>>

Is(op) == ir.op = op /\ ir' = NoInstr
XO(op) == ~OEForm /\ Is(op)

-----------------------------------------------------------------------------
(* Sums and differences.  The carrying forms compare result and operand as *)
(* int64_t.  When the sum overflows, that is undefined: the build compares  *)
(* the wrapped sum, or the exact one (it tests the sign of the addend).     *)
Carries(operand, addend) ==
  LET from == Signed(operand, Bits) IN {addend < 0, Signed(from + addend, Bits) < from}

DifferenceOff(a, b) == Wrap(Not(a) + b)
Difference(a, b) == Wrap(Not(a) + b + 1)
Displacement == Signed(ir.b, ImmBits)
ImmediateWord == Wrap(Displacement)

AddRegisters ==
  /\ \/ XO("add") /\ Recorded(Wrap(ir.a + ir.b))
     \/ XO("subf") /\ Recorded(Difference(ir.a, ir.b))
     \/ XO("neg") /\ Recorded(Wrap(Not(ir.a) + 1))
  /\ UNCHANGED ca

AddImmediate ==
  /\ \/ Is("addi") /\ Plain(Wrap(ir.a + ImmediateWord))
     \/ Is("li") /\ Plain(ImmediateWord)
     \/ Is("addis") /\ Plain(Wrap(ir.a + ImmediateWord * 2 ^^ ImmBits))
     \/ Is("lis") /\ Plain(Wrap(ImmediateWord * 2 ^^ ImmBits))
  /\ UNCHANGED ca

AddCarrying ==
  \/ XO("addc") /\ Recorded(Wrap(ir.a + ir.b)) /\ ca' \in Carries(ir.a, Signed(ir.b, Bits))
  \/ XO("subfc") /\ Recorded(Difference(ir.a, ir.b)) /\ ca' \in Carries(Not(ir.a), Signed(ir.b, Bits) + 1)

AddImmediateCarrying ==
  \/ Is("addic") /\ Plain(Wrap(ir.a + ImmediateWord)) /\ ca' \in Carries(ir.a, Displacement)
  \/ Is("subfic") /\ Plain(Difference(ir.a, ImmediateWord)) /\ ca' \in Carries(Not(ir.a), Displacement + 1)

-----------------------------------------------------------------------------
(* Products and quotients. *)
LowWord(x) == Signed(x, WordBits)

MultiplyRegisters ==
  /\ \/ XO("mulld") /\ Recorded(Wrap(Signed(ir.a, Bits) * Signed(ir.b, Bits)))
     \/ XO("mullw") /\ Recorded(Wrap(LowWord(ir.a) * LowWord(ir.b)))
  /\ UNCHANGED ca

MultiplyImmediate ==
  /\ Is("mulli") /\ Plain(Wrap(Signed(ir.a, Bits) * Signed(ir.b, ImmBits)))
  /\ UNCHANGED ca

MultiplyHigh ==
  /\ \/ Is("mulhwu") /\ Recorded(Wrap(High(ir.a) * High(ir.b)))
     \/ Is("mulhw") /\ Recorded(Wrap(LowWord(High(ir.a)) * LowWord(High(ir.b))))
  /\ UNCHANGED ca

(* C++ division rounds towards zero. *)
Quotient(x, y) ==
  LET Abs(z) == IF z < 0 THEN -z ELSE z
      q == Abs(x) \div Abs(y) IN
  IF (x < 0) # (y < 0) THEN -q ELSE q

(* Most negative by minus one: the quotient has no int64_t.  An x86 host    *)
(* traps, an ARM one delivers the dividend.                                 *)
Unrepresentable == Signed(ir.a, Bits) = -(2 ^^ (Bits - 1)) /\ Signed(ir.b, Bits) = -1

Divides == XO("divdu") \/ XO("divwu") \/ XO("divd")
Divisor == IF ir.op = "divwu" THEN Low(ir.b, WordBits) ELSE ir.b
Divided == CASE ir.op = "divdu" -> ir.a \div ir.b
             [] ir.op = "divwu" -> Low(ir.a, WordBits) \div Divisor
             [] ir.op = "divd" -> Wrap(Quotient(Signed(ir.a, Bits), Signed(ir.b, Bits)))

ReplacedNever == FALSE
Replaced == Divisor = 0
HostTraps == Divisor = 0 \/ (ir.op = "divd" /\ Unrepresentable)

DivideRegisters ==
  /\ Divides
  /\ \/ Replaced /\ Recorded(Not(0)) /\ UNCHANGED status
     \/ ~Replaced /\ ~HostTraps /\ Recorded(Divided) /\ UNCHANGED status
     \/ ~Replaced /\ Unrepresentable /\ ir.op = "divd" /\ Recorded(ir.a) /\ UNCHANGED status
     \/ ~Replaced /\ HostTraps /\ status' = "trapped" /\ UNCHANGED <<rt, cr0>>
  /\ UNCHANGED ca

-----------------------------------------------------------------------------
(* Bitwise operations, sign extension, leading zeros. *)
LeadingZeros(x, n) == CHOOSE z \in 0 .. n : x < 2 ^^ (n - z) /\ (z < n => x >= 2 ^^ (n - z - 1))

Logical ==
  /\ \/ Is("and") /\ Recorded(And(ir.a, ir.b))
     \/ Is("nor") /\ Recorded(Not(Or(ir.a, ir.b)))
     \/ Is("andc") /\ Plain(And(ir.a, Not(ir.b)))
     \/ Is("or") /\ Recorded(Or(ir.a, ir.b))
     \/ Is("xor") /\ Recorded(Xor(ir.a, ir.b))
  /\ UNCHANGED ca

LogicalImmediate ==
  /\ \/ Is("ori") /\ Plain(Or(ir.a, ir.b))
     \/ Is("oris") /\ Plain(Or(ir.a, ir.b * 2 ^^ ImmBits))
     \/ Is("xori") /\ Plain(Xor(ir.a, ir.b))
  /\ UNCHANGED ca

Extend ==
  /\ \/ Is("extsb") /\ Recorded(SignExtend(ir.a, ImmBits \div 2))
     \/ Is("extsh") /\ Recorded(SignExtend(ir.a, ImmBits))
     \/ Is("extsw") /\ Recorded(SignExtend(ir.a, WordBits))
  /\ UNCHANGED ca

CountZeros ==
  /\ \/ Is("cntlzw") /\ Recorded(LeadingZeros(Low(ir.a, WordBits), WordBits))
     \/ Is("cntlzd") /\ Recorded(LeadingZeros(ir.a, Bits))
  /\ UNCHANGED ca

-----------------------------------------------------------------------------
(* Shifts: every count is taken modulo 32. *)
Count == ir.b % WordBits

ShiftLeft ==
  /\ Is("slw") /\ Recorded(Low(ir.a * 2 ^^ Count, WordBits))
  /\ UNCHANGED ca

ShiftRight ==
  /\ \/ Is("srw") /\ Recorded(Low(ir.a, WordBits) \div 2 ^^ Count)
     \/ Is("srd") /\ Recorded(ir.a \div 2 ^^ Count)
  /\ UNCHANGED ca

(* The word is rotated right, masked, and filled from the left when rs >> 31 *)
(* is not zero.                                                              *)
Rotated == RotateLeft(Low(ir.a, WordBits), 2 * WordBits - Count, WordBits)
Filled == ir.a \div 2 ^^ (WordBits - 1) # 0
Emptied == ir.op = "sraw" /\ (ir.b \div Bits) % 2 = 1
ShiftMask == IF Emptied THEN 0 ELSE GenerateMask64(Count + WordBits, Bits - 1)

LostKept == Low(And(Rotated, ShiftMask), WordBits) # 0
Lost == Low(And(Rotated, Not(ShiftMask)), WordBits) # 0

ShiftAlgebraic ==
  /\ Is("sraw") \/ Is("srawi")
  /\ Recorded(Or(And(Rotated, ShiftMask), IF Filled THEN Not(ShiftMask) ELSE 0))
  /\ ca' = (Filled /\ Lost)

-----------------------------------------------------------------------------
(* Rotates. *)
RotatedWord == RotateLeft(Low(ir.a, WordBits), ir.sh, WordBits)
RotatedDouble == RotateLeft(ir.a, ir.sh, Bits)
Insert(r, m) == Or(And(r, m), And(ir.old, Not(m)))

WordMask == GenerateMask64(ir.mb + WordBits, ir.me + WordBits)
UpTo == GenerateMask64(ir.mb, Bits - 1 - ir.sh)

RotateWord ==
  /\ \/ Is("rlwinm") /\ Recorded(And(RotatedWord, WordMask))
     \/ Is("rlwimi") /\ Recorded(Insert(RotatedWord, WordMask))
  /\ UNCHANGED ca

RotateDouble ==
  /\ \/ Is("rldicl") /\ Recorded(And(RotatedDouble, GenerateMask64(ir.mb, Bits - 1)))
     \/ Is("rldicr") /\ Recorded(And(RotatedDouble, GenerateMask64(0, ir.mb)))
     \/ Is("rldic") /\ Recorded(And(RotatedDouble, UpTo))
     \/ Is("rldimi") /\ Recorded(Insert(RotatedDouble, UpTo))
  /\ UNCHANGED ca

-----------------------------------------------------------------------------
Next == \/ /\ Running
           /\ \/ AddRegisters \/ AddImmediate \/ AddCarrying \/ AddImmediateCarrying
              \/ MultiplyRegisters \/ MultiplyImmediate \/ MultiplyHigh
              \/ Logical \/ LogicalImmediate \/ Extend \/ CountZeros
              \/ ShiftLeft \/ ShiftRight \/ ShiftAlgebraic \/ RotateWord \/ RotateDouble
        \/ status = "running" /\ (DivideRegisters \/ Unimplemented)

Spec == Init /\ [][Next]_vars

-----------------------------------------------------------------------------
(* The architecture's results: numbers for arithmetic, patterns elsewhere. *)

SignedA == Signed(ir.a, Bits)
Arithmetic ==
  CASE ir.op \in {"add", "addc"} -> ir.a + ir.b
    [] ir.op \in {"subf", "subfc"} -> ir.b - ir.a
    [] ir.op = "neg" -> -ir.a
    [] ir.op \in {"addi", "addic"} -> ir.a + Signed(ir.b, ImmBits)
    [] ir.op = "li" -> Signed(ir.b, ImmBits)
    [] ir.op = "addis" -> ir.a + Signed(ir.b, ImmBits) * 2 ^^ ImmBits
    [] ir.op = "lis" -> Signed(ir.b, ImmBits) * 2 ^^ ImmBits
    [] ir.op = "subfic" -> Signed(ir.b, ImmBits) - ir.a
    [] ir.op = "mulld" -> SignedA * Signed(ir.b, Bits)
    [] ir.op = "mullw" -> Signed(ir.a, WordBits) * Signed(ir.b, WordBits)
    [] ir.op = "mulli" -> SignedA * Signed(ir.b, ImmBits)
    [] ir.op = "mulhw" -> (Signed(ir.a, WordBits) * Signed(ir.b, WordBits)) \div 2 ^^ WordBits
    [] ir.op = "mulhwu" -> (Low(ir.a, WordBits) * Low(ir.b, WordBits)) \div 2 ^^ WordBits
    [] ir.op = "extsb" -> Signed(ir.a, ImmBits \div 2)
    [] ir.op = "extsh" -> Signed(ir.a, ImmBits)
    [] ir.op = "extsw" -> Signed(ir.a, WordBits)
    [] ir.op = "slw" -> IF ir.b % Bits >= WordBits THEN 0 ELSE Low(ir.a * 2 ^^ (ir.b % Bits), WordBits)
    [] ir.op = "srw" -> Low(ir.a, WordBits) \div 2 ^^ (ir.b % Bits)
    [] ir.op = "srd" -> ir.a \div 2 ^^ (ir.b % (2 * Bits))
    [] ir.op \in {"sraw", "srawi"} -> Signed(ir.a, WordBits) \div 2 ^^ (ir.b % Bits)

(* Remainder and quotient determine each other. *)
DividesTo(x, y, q) ==
  LET r == x - q * y IN
  (x >= 0 => r \in 0 .. x) /\ (x < 0 => r \in x .. 0) /\ r * r < y * y

OnesA == BitsOf(ir.a)
OnesB == BitsOf(ir.b)
Old == BitsOf(ir.old)
ROTL64 == {p \in Pattern : (p + ir.sh) % Bits \in OnesA}
ROTL32 == {p \in Pattern : WordBits + ((p + ir.sh) % WordBits) \in OnesA}
Zeros(from) == {n \in 0 .. Bits - from : \A p \in from .. from + n - 1 : p \notin OnesA}
Immediately == BitsOf(ir.b * 2 ^^ ImmBits)
RLWMask == MASK(ir.mb + WordBits, ir.me + WordBits)
RLDMask == MASK(ir.mb, Bits - 1 - ir.sh)
BitResult ==
  CASE ir.op = "and" -> OnesA \cap OnesB            [] ir.op = "andc" -> OnesA \ OnesB
    [] ir.op \in {"or", "ori"} -> OnesA \cup OnesB  [] ir.op = "nor" -> Pattern \ (OnesA \cup OnesB)
    [] ir.op \in {"xor", "xori"} -> (OnesA \cup OnesB) \ (OnesA \cap OnesB)
    [] ir.op = "oris" -> OnesA \cup Immediately
    [] ir.op = "cntlzw" -> BitsOf(Max(Zeros(WordBits)))
    [] ir.op = "cntlzd" -> BitsOf(Max(Zeros(0)))
    [] ir.op = "rlwinm" -> ROTL32 \cap RLWMask
    [] ir.op = "rlwimi" -> (ROTL32 \cap RLWMask) \cup (Old \ RLWMask)
    [] ir.op = "rldicl" -> ROTL64 \cap MASK(ir.mb, Bits - 1)
    [] ir.op = "rldicr" -> ROTL64 \cap MASK(0, ir.mb)
    [] ir.op = "rldic" -> ROTL64 \cap RLDMask
    [] ir.op = "rldimi" -> (ROTL64 \cap RLDMask) \cup (Old \ RLDMask)

Bitwise == {"and", "andc", "or", "ori", "nor", "xor", "xori", "oris", "cntlzw", "cntlzd"} \cup MForms \cup MDForms

HighProducts == {"mulhw", "mulhwu"}
Quotients == {"divd", "divdu", "divwu"}

(* The high word of mulhw, mulhwu and divwu is undefined. *)
AsArchitected(result) ==
  \/ ir.op = "divd" /\ DividesTo(SignedA, Signed(ir.b, Bits), Signed(result, Bits))
  \/ ir.op = "divdu" /\ DividesTo(ir.a, ir.b, result)
  \/ ir.op = "divwu" /\ DividesTo(Low(ir.a, WordBits), Low(ir.b, WordBits), Low(result, WordBits))
  \/ ir.op \in HighProducts /\ Low(result, WordBits) = Low(Arithmetic, WordBits)
  \/ ir.op \in Bitwise /\ BitsOf(result) = BitResult
  \/ ir.op \notin Quotients \cup HighProducts \cup Bitwise /\ result = Wrap(Arithmetic)

Executed == ir # NoInstr /\ ir' = NoInstr

-----------------------------------------------------------------------------
(* Properties. *)

(* Where the interpreter keeps to the architecture: word shifts by less than  *)
(* a word, algebraic shifts of a sign-extended or small word, word rotates    *)
(* with a mask that does not wrap, defined quotients; and no high products.   *)
ShiftInRange ==
  /\ ir.op \in {"slw", "srw"} => ir.b % Bits < WordBits
  /\ ir.op = "srd" => ir.b % (2 * Bits) < WordBits
  /\ ir.op = "sraw" => ir.b % (2 * Bits) < WordBits
  /\ ir.op \in {"sraw", "srawi"} => High(ir.a) = 0 \/ Negative(ir.a, WordBits)
Conforming ==
  /\ ShiftInRange
  /\ ir.op \notin HighProducts
  /\ ir.op \in Quotients => ~HostTraps
  /\ ir.op \in MForms => ir.mb <= ir.me

(* Results are the architecture's for all operands, counts and masks within   *)
(* those limits.                                                              *)
ResultAsArchitected == [][Executed /\ status' = "running" /\ Conforming => AsArchitected(rt')]_vars

(* A record form leaves the sign of its 64-bit result in field 0, another     *)
(* form leaves field 0 alone; andc. is the exception.                         *)
RecordsSign ==
  [][Executed /\ status' = "running" /\ ir.op # "andc" =>
       cr0' = IF ir.op \notin DForms /\ ir.rc THEN Sign(rt') ELSE cr0]_vars

(* An algebraic shift carries when it loses one-bits of a negative word, and  *)
(* nothing but the carrying forms changes the carry.                          *)
CarryOfShifts ==
  [][Executed /\ Conforming =>
       IF ir.op \in {"sraw", "srawi"}
         THEN ca' <=> Negative(ir.a, WordBits) /\ Low(ir.a, WordBits) % (2 ^^ Count) # 0
         ELSE ir.op \in {"addc", "subfc", "addic", "subfic"} \/ ca' = ca]_vars

(* Guest division does not stop the host, but for the one quotient int64_t    *)
(* cannot hold.                                                               *)
DivisionSurvives == [][status' = "trapped" => ir.op = "divd" /\ Unrepresentable]_vars

(* What the comments "divdu(o.)", "divwu(o.)" and "divd(o.)" say is handled.  *)
OverflowFormsHandled == status # "failed"
==============================================================================
