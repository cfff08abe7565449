------------------------------ MODULE FloatUnit ------------------------------
(***************************************************************************)
(* The floating-point instructions of executeInterpreterSingleStep: opcode *)
(* 59 and 63 arithmetic, conversions and compares, and the loads and       *)
(* stores that convert between float and double.  A short program runs     *)
(* from any registers; memory is one word and one doubleword.              *)
(*                                                                         *)
(* XER[SO] is zero throughout: no instruction sets it (see FixedPoint).    *)
(***************************************************************************)
EXTENDS FloatOps, Sequences

CONSTANTS
  Reg,      \* floating-point registers
  Field,    \* condition register fields
  Start     \* programs, and the registers and memory they may find

VARIABLES
  fpr,      \* FPR
  fprf, fr, \* FPSCR: result class and FR
  cr,       \* CR: field -> its bits, from the least significant
  word, dword,   \* memory
  prog, at,      \* the program and its next instruction
  found,         \* history: what word and dword held at first
  failed    \* ~0 was returned, as the macro exit does

vars == <<fpr, fprf, fr, cr, word, dword, prog, at, found, failed>>

Arithmetic == {"fadds", "fmuls", "fmadds", "fsub", "fmul", "fdiv", "frsp", "fctiwz", "fctidz", "fcfid"}
Moves == {"fneg", "fmr"}
Memory == {"lfs", "lfd", "stfs", "stfd", "stfiwx"}

IsInstruction(i) ==
  \/ i.op \in Arithmetic \cup Moves /\ {i.t, i.a, i.b, i.c} \subseteq Reg /\ i.rc \in BOOLEAN
  \/ i.op \in Memory /\ i.t \in Reg /\ i.mapped \in BOOLEAN
  \/ i.op = "fcmpu" /\ i.bf \in Field /\ {i.a, i.b} \subseteq Reg
  \/ i.op = "unimplemented"
IsProgram(p) ==
  /\ p \in Seq({p[k] : k \in DOMAIN p})
  /\ \A k \in DOMAIN p : IsInstruction(p[k])

ASSUME FloatUnitAssumption ==
  \A n \in DOMAIN Start :
    /\ Start[n].words \subseteq Patterns(Single) /\ Start[n].dwords \subseteq Patterns(Double)
    /\ \A f \in Start[n].fprs : f \in [Reg -> Patterns(Double)]
    /\ IsProgram(Start[n].prog)

Init ==
  /\ \E n \in DOMAIN Start :
       /\ prog = Start[n].prog
       /\ fpr \in Start[n].fprs /\ word \in Start[n].words /\ dword \in Start[n].dwords
  /\ found = [word |-> word, dword |-> dword]
  /\ fprf = 0 /\ fr = FALSE
  /\ cr = [f \in Field |-> {}]
  /\ at = 1 /\ failed = FALSE

Done == at > Len(prog)
ir == prog[at]
A == fpr[ir.a]
B == fpr[ir.b]
C == fpr[ir.c]

(* (float) and (double) *)
Narrow(x) == Convert(Double, Single, x)
Widen(x) == Convert(Single, Double, x)

-----------------------------------------------------------------------------
(* setFPRF, setFR(0, result), setXFormatCR1(double): the last writes field 0. *)
Less(x, y) == ~IsNaN(Double, x) /\ ~IsNaN(Double, y) /\ Rank(Double, x) < Rank(Double, y)
Equal(x, y) == ~IsNaN(Double, x) /\ ~IsNaN(Double, y) /\ Rank(Double, x) = Rank(Double, y)

ClassUnsigned(x) ==
  IF IsNaN(Double, x) THEN 17
  ELSE IF IsInfinite(Double, x) THEN IF Minus(Double, x) THEN 9 ELSE 5
  ELSE IF IsZero(Double, x) THEN 2
  ELSE IF IsDenormal(Double, x) THEN IF Less(x, 0) THEN 24 ELSE 20
  ELSE IF Less(x, 0) THEN 8 ELSE 4
Class(x) ==
  IF IsNaN(Double, x) THEN 17
  ELSE IF IsInfinite(Double, x) THEN IF Minus(Double, x) THEN 9 ELSE 5
  ELSE IF IsZero(Double, x) THEN IF Minus(Double, x) THEN 18 ELSE 2
  ELSE IF IsDenormal(Double, x) THEN IF Less(x, 0) THEN 24 ELSE 20
  ELSE IF Less(x, 0) THEN 8 ELSE 4

ResultBits(x) == {b \in 0 .. 2 : \/ b = 0 /\ Less(x, 0)
                                 \/ b = 1 /\ Less(0, x)
                                 \/ b = 2 /\ Equal(x, 0)}
SetFPR(x) == fpr' = [fpr EXCEPT ![ir.t] = x]
Record(x) == cr' = IF ir.rc THEN [cr EXCEPT ![0] = ResultBits(x)] ELSE cr

-----------------------------------------------------------------------------
(* Conversion to uint64_t.  Of a NaN, a negative or too large a number it is *)
(* undefined: hosts wrap, deliver the indefinite integer, or saturate.       *)
ToUnsigned(x) ==
  IF IsNaN(Double, x) \/ IsInfinite(Double, x) THEN {0, 2 ^^ (Bits - 1), Not(0)}
  ELSE IF Minus(Double, x) /\ Whole(Double, x) > 0 THEN {0, 2 ^^ (Bits - 1), Wrap(-Whole(Double, x))}
  ELSE IF Whole(Double, x) >= 2 ^^ Bits THEN {2 ^^ (Bits - 1), Not(0), Wrap(Whole(Double, x))}
  ELSE {Whole(Double, x)}

(* fctiwz ors a bound into the high word. *)
Bound(n) == n * 2 ^^ WordBits
Clamped(x, n) ==
  IF Less(FromNat(Double, 2 ^^ (WordBits - 1) - 1), x) THEN Or(n, Bound(2 ^^ (WordBits - 1) - 1))
  ELSE IF Less(x, Negated(Double, FromNat(Double, 2 ^^ (WordBits - 1)))) THEN Or(n, Bound(2 ^^ (WordBits - 1)))
  ELSE n

(* fmadds adds RA, not RB, in float; a compiler may fuse the two operations. *)
MulAdd(x, y, z) == {MultiplyAdd(Single, fused, x, y, z) : fused \in BOOLEAN}

UnroundedSum == Add(Double, A, B)
RoundedSum == Widen(Narrow(Add(Double, A, B)))

(* Signed or not, the bits of FRB are read as a uint64_t. *)
Integer == FromNat(Double, B)

(* fsub, fmul and fdiv narrow their operands to float. *)
Results ==
  CASE ir.op = "fadds" -> {RoundedSum}
    [] ir.op = "fmuls" -> {Widen(Narrow(Multiply(Double, A, C)))}
    [] ir.op = "fmadds" -> {Widen(x) : x \in MulAdd(Narrow(A), Narrow(C), Narrow(A))}
    [] ir.op = "fsub" -> {Widen(Subtract(Single, Narrow(A), Narrow(B)))}
    [] ir.op = "fmul" -> {Widen(Multiply(Single, Narrow(A), Narrow(C)))}
    [] ir.op = "fdiv" -> {Widen(Divide(Single, Narrow(A), Narrow(B)))}
    [] ir.op = "frsp" -> {Widen(StdRound(Single, Narrow(B)))}
    [] ir.op = "fctiwz" -> {FromNat(Double, Clamped(B, n)) : n \in ToUnsigned(B)}
    [] ir.op = "fctidz" -> {FromNat(Double, n) : n \in ToUnsigned(B)}
    [] ir.op = "fcfid" -> {Integer}

Goes == ~Done /\ ~failed /\ at' = at + 1 /\ UNCHANGED <<prog, found, failed>>

Compute ==
  /\ ir.op \in Arithmetic
  /\ \E x \in Results :
       /\ SetFPR(x) /\ Record(x)
       /\ fprf' = Class(x)
       /\ fr' = IF ir.op \in {"fadds", "fmuls", "fmadds"} THEN fr ELSE Less(0, x)
  /\ UNCHANGED <<word, dword>>

Move ==
  /\ ir.op \in Moves
  /\ LET x == IF ir.op = "fneg" THEN Negated(Double, B) ELSE B IN SetFPR(x) /\ Record(x)
  /\ UNCHANGED <<fprf, fr, word, dword>>

(* fcmpu: lt, gt, eq and unordered are bits 0 to 3 of field BF. *)
UnorderedMissed == FALSE
Unordered == IsNaN(Double, A) \/ IsNaN(Double, B)

Compare ==
  /\ ir.op = "fcmpu"
  /\ cr' = [cr EXCEPT ![ir.bf] = IF Unordered THEN {3} ELSE IF Less(A, B) THEN {0}
                                 ELSE IF Less(B, A) THEN {1} ELSE {2}]
  /\ UNCHANGED <<fpr, fprf, fr, word, dword>>

(* lfs, lfd; stfs, stfsx, stfd, stfiwx *)
Load ==
  /\ \/ ir.op = "lfs" /\ SetFPR(Widen(word))
     \/ ir.op = "lfd" /\ SetFPR(dword)
  /\ UNCHANGED <<fprf, fr, cr, word, dword>>

LowWord(x) == Low(x, WordBits)
FloatBits(x) == Narrow(x)

Store ==
  /\ \/ ir.op = "stfs" /\ word' = FloatBits(fpr[ir.t]) /\ UNCHANGED dword
     \/ ir.op = "stfiwx" /\ word' = LowWord(fpr[ir.t]) /\ UNCHANGED dword
     \/ ir.op = "stfd" /\ dword' = fpr[ir.t] /\ UNCHANGED word
  /\ UNCHANGED <<fpr, fprf, fr, cr>>

(* An unmapped operand, an unknown extended opcode. *)
Fails == ir.op = "unimplemented" \/ (ir.op \in Memory /\ ~ir.mapped)
Fail ==
  /\ ~Done /\ ~failed /\ Fails
  /\ failed' = TRUE
  /\ UNCHANGED <<fpr, fprf, fr, cr, word, dword, prog, at, found>>

Step == Goes /\ ~Fails /\ (Compute \/ Move \/ Compare \/ Load \/ Store)

Next == Step \/ Fail

Spec == Init /\ [][Next]_vars

-----------------------------------------------------------------------------
(* Properties. *)

TypeOK ==
  /\ fpr \in [Reg -> Patterns(Double)]
  /\ fprf \in 0 .. 31 /\ fr \in BOOLEAN /\ cr \in [Field -> SUBSET (0 .. 3)]
  /\ word \in Patterns(Single) /\ dword \in Patterns(Double)
  /\ found.word \in Patterns(Single) /\ found.dword \in Patterns(Double)
  /\ IsProgram(prog) /\ at \in Nat \ {0} /\ failed \in BOOLEAN

Finite(x) == ~IsNaN(Double, x) /\ ~IsInfinite(Double, x)
IsSingle(x) == Finite(x) /\ Widen(Narrow(x)) = x

(* The architecture's exact result of the instruction, and its format. *)
ExactResult ==
  CASE ir.op = "fadds" -> Sum(Exact(Double, A), Exact(Double, B))
    [] ir.op = "fsub" -> Sum(Exact(Double, A), Exact(Double, Negated(Double, B)))
    [] ir.op \in {"fmuls", "fmul"} -> Product(Exact(Double, A), Exact(Double, C))
    [] ir.op = "fdiv" -> Ratio(Exact(Double, A), Exact(Double, B))
OnSingles ==
  /\ ir.op \in {"fadds", "fsub", "fmuls", "fmul", "fdiv"}
  /\ IsSingle(A) /\ IsSingle(IF ir.op \in {"fmuls", "fmul"} THEN C ELSE B)
  /\ ir.op = "fdiv" => ~IsZero(Double, B)

(* fadds and fmuls round a double to a float, twice in all, and still deliver *)
(* the float nearest to the exact result.  The double-precision forms compute *)
(* in float: they are right when operands and result are floats.              *)
RoundedAsArchitected ==
  [][at' # at /\ OnSingles =>
       IF ir.op \in {"fadds", "fmuls"}
         THEN fpr'[ir.t] = Widen(Round(Single, ExactResult))
         ELSE IsSingle(Round(Double, ExactResult)) => fpr'[ir.t] = Round(Double, ExactResult)]_vars

(* FPRF as the architecture reads it -- C, <, >, =, ? -- describes the double *)
(* left in FRT by arithmetic, and nothing else changes it.                    *)
Describes(code, x) ==
  LET bit(n) == (code \div n) % 2 = 1
      ordered == ~IsNaN(Double, x) /\ ~IsZero(Double, x) IN
  /\ bit(16) <=> \/ IsNaN(Double, x) \/ IsDenormal(Double, x)
                 \/ (IsZero(Double, x) /\ Minus(Double, x))
  /\ bit(8) <=> ordered /\ Minus(Double, x)
  /\ bit(4) <=> ordered /\ ~Minus(Double, x)
  /\ bit(2) <=> IsZero(Double, x)
  /\ bit(1) <=> ~Finite(x)
ClassOfResult ==
  [][at' # at => IF ir.op \in Arithmetic THEN Describes(fprf', fpr'[ir.t]) ELSE fprf' = fprf]_vars

(* fcmpu sets one bit of its field: the sign of the exact difference, equality *)
(* of the two zeros, unordered for a NaN.  Every other field keeps its bits,   *)
(* but for field 0 under a record form.                                        *)
SignOf(v) == IF v.num = 0 THEN {2} ELSE IF v.minus THEN {0} ELSE {1}
ComparesAsOrdered ==
  [][at' # at =>
       /\ ir.op = "fcmpu" /\ (IsNaN(Double, A) \/ IsNaN(Double, B)) => cr'[ir.bf] = {3}
       /\ ir.op = "fcmpu" /\ IsSingle(A) /\ IsSingle(B) =>
            cr'[ir.bf] = SignOf(Sum(Exact(Double, A), Exact(Double, Negated(Double, B))))
       /\ \A f \in Field : cr'[f] # cr[f] =>
            \/ ir.op = "fcmpu" /\ f = ir.bf
            \/ ir.op \in Arithmetic \cup Moves /\ ir.rc /\ f = 0]_vars

(* What compiled code sends through memory to the floating-point unit comes    *)
(* out right: a word or doubleword copied through a register keeps its bits    *)
(* (but a word that is a signalling NaN), and std, lfd, fcfid turn a           *)
(* non-negative integer into the double nearest to it.                         *)
Copies(load, store) ==
  /\ Done /\ Len(prog) = 3
  /\ prog[1].op = load /\ prog[2].op = "fmr" /\ prog[3].op = store
  /\ prog[2].b = prog[1].t /\ prog[3].t = prog[2].t
Converted ==
  /\ Done /\ Len(prog) = 2
  /\ prog[1].op = "lfd" /\ prog[2].op = "fcfid" /\ prog[2].b = prog[1].t
MemoryRoundTrips ==
  /\ Copies("lfs", "stfs") /\ ~IsSignalling(Single, found.word) => word = found.word
  /\ Copies("lfd", "stfd") => dword = found.dword
  /\ Converted /\ found.dword < 2 ^^ (Bits - 1) =>
       fpr[prog[2].t] = Round(Double, Exactly(FALSE, found.dword, 1, 0))
==============================================================================
