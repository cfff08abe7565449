----------------------------- MODULE BranchProofs -----------------------------
(***************************************************************************)
(* Proofs about BranchUnit for registers, fields and immediates of any     *)
(* width and any instructions: PC stays on a word, and a program without    *)
(* the two kinds of instruction that Conforming leaves out behaves as the   *)
(* architecture says.                                                      *)
(*                                                                         *)
(* An instruction and its counterpart compute the same number in different  *)
(* ways, the code modulo 2^Bits from the start and the architecture at the  *)
(* end, and the same flags in different notations.  The lemmas say so of    *)
(* one conversion at a time.                                               *)
(***************************************************************************)
EXTENDS BranchUnit, NumeralProofs

Size == Power(2, Bits)

-----------------------------------------------------------------------------
(* Numbers. *)

LEMMA Widths ==
  /\ {Bits, WordBits, ImmBits, BdBits, LiBits, Fields} \subseteq Nat \ {0}
  /\ Size \in Nat \ {0} /\ \E n \in Nat \ {0} : Size = 4 * n
  /\ Word = 0 .. Size - 1 /\ 0 \in Word
<1>1. {Bits, WordBits, ImmBits, BdBits, LiBits, Fields} \subseteq Nat \ {0} /\ Bits > 2
  BY BranchAssumption
<1>2. Size \in Nat \ {0} /\ Word = 0 .. Size - 1
  BY <1>1, Twos DEF Size, Word
<1>3. Size = 2 * Power(2, Bits - 1) /\ Bits - 1 \in Nat /\ Bits - 1 # 0
  BY <1>1, Twos DEF Size
<1>4. Power(2, Bits - 1) = 2 * Power(2, (Bits - 1) - 1) /\ (Bits - 1) - 1 \in Nat
  <2>1. PICK n \in Nat : n = Bits - 1 /\ n # 0
    BY <1>3
  <2>2. Power(2, n) = 2 * Power(2, n - 1)
    BY <2>1, Twos, Zenon
  <2>3. n - 1 \in Nat
    <3>1. n # 0
      BY <2>1
    <3> QED  BY <3>1
  <2> QED  BY <2>1, <2>2, <2>3
<1>5. Power(2, (Bits - 1) - 1) \in Nat \ {0} /\ Size = 4 * Power(2, (Bits - 1) - 1)
  BY <1>3, <1>4, Twos
<1> QED  BY <1>1, <1>2, <1>5

(* The architecture's powers are the code's. *)
LEMMA SamePower == \A b, n : ISA!Power(b, n) = Power(b, n)
BY DEF ISA!Power, Power

(* Wrapping. *)
LEMMA WrapIs ==
  ASSUME NEW x \in Int
  PROVE  /\ Wrap(x) \in Word /\ ISA!Mod(x) = Wrap(x)
         /\ x \in Word => Wrap(x) = x
         /\ x % 4 = 0 => Wrap(x) % 4 = 0
<1>1. Wrap(x) = x % Size /\ ISA!Mod(x) = x % Size
  BY SamePower DEF Wrap, ISA!Mod, Size
<1>2. Size \in Nat \ {0} /\ Word = 0 .. Size - 1
  BY Widths
<1>3. x % Size \in 0 .. Size - 1
  BY <1>2, Division
<1>4. x \in Word => x % Size = x
  BY <1>2, ModSmall
<1>5. ASSUME x % 4 = 0 PROVE (x % Size) % 4 = 0
  <2>1. PICK n \in Nat \ {0} : Size = 4 * n
    BY Widths
  <2>2. (x % (4 * n)) % 4 = 0
    <3>1. 4 \in Nat \ {0}
      OBVIOUS
    <3> QED  BY <1>5, <3>1, MultipleRemains, Zenon
  <2> QED  BY <2>1, <2>2
<1> QED  BY <1>1, <1>2, <1>3, <1>4, <1>5

(* A wrapped displacement leads where the displacement does. *)
LEMMA WrapTwice ==
  ASSUME NEW a \in Int, NEW x \in Int
  PROVE  Wrap(a + 4 * Wrap(x)) = Wrap(a + 4 * x)
<1>1. Size \in Nat \ {0}
  BY Widths
<1> DEFINE r == x % Size
           d == x \div Size
<1>2. x = Size * d + r /\ r \in Int /\ d \in Int
  BY <1>1, Division
<1> HIDE DEF r, d
<1>3. Size * d \in Int /\ Size * (4 * d) = 4 * (Size * d)
  BY <1>1, <1>2
<1>4. a + 4 * x = (a + 4 * r) + Size * (4 * d) /\ a + 4 * r \in Int /\ 4 * d \in Int
  BY <1>2, <1>3
<1>5. ((a + 4 * r) + Size * (4 * d)) % Size = (a + 4 * r) % Size
  BY <1>1, <1>4, Units
<1>6. (a + 4 * x) % Size = (a + 4 * r) % Size
  BY <1>4, <1>5
<1> QED  BY <1>6 DEF Wrap, Size, r

(* The sign bit, and what it is worth. *)
LEMMA SignBitIs ==
  ASSUME NEW x \in Nat, NEW n \in Nat \ {0}
  PROVE  SignBit(x, n) <=> Low(x, n) >= Power(2, n - 1)
<1> DEFINE h == Power(2, n - 1)
           m == Power(2, n)
           q == x \div m
           r == x % m
<1>1. h \in Nat \ {0} /\ m = 2 * h /\ m \in Nat \ {0}
  <2>1. n - 1 \in Nat
    OBVIOUS
  <2> QED  BY <2>1, Twos
<1> HIDE DEF h, m
<1>2. x = m * q + r /\ r \in 0 .. m - 1 /\ q \in Int
  <2>1. x \in Int
    OBVIOUS
  <2> QED  BY <1>1, <2>1, Division, Zenon
<1> HIDE DEF q, r
<1>3. m * q = h * (2 * q)
  BY <1>1, <1>2
<1>4. CASE r < h
  <2> DEFINE k == 2 * q
  <2>1. x = h * k + r /\ k \in Int /\ r \in 0 .. h - 1 /\ k % 2 = 0
    BY <1>1, <1>2, <1>3, <1>4
  <2> HIDE DEF k
  <2>2. x \div h = k
    BY <1>1, <2>1, Remains
  <2>3. (x \div h) % 2 = 0 /\ ~(r >= h)
    BY <1>1, <1>2, <1>4, <2>1, <2>2
  <2> QED  BY <2>3 DEF SignBit, Low, h, m, r
<1>5. CASE r >= h
  <2> DEFINE k == 2 * q + 1
             s == r - h
  <2>1. h * k = h * (2 * q) + h /\ k \in Int /\ k % 2 = 1
    BY <1>1, <1>2
  <2>2. x = h * k + s /\ s \in 0 .. h - 1
    BY <1>1, <1>2, <1>3, <1>5, <2>1
  <2>3. k \in Int /\ k % 2 = 1
    BY <2>1
  <2> HIDE DEF k, s
  <2>4. x \div h = k
    BY <1>1, <2>2, <2>3, Remains
  <2>5. (x \div h) % 2 = 1 /\ r >= h
    BY <1>5, <2>3, <2>4
  <2> QED  BY <2>5 DEF SignBit, Low, h, m, r
<1> QED  BY <1>1, <1>2, <1>4, <1>5

(* A signed number of n bits. *)
SignedBits(n) == -Power(2, n - 1) .. Power(2, n - 1) - 1

LEMMA ExtsIs ==
  ASSUME NEW x \in Nat, NEW n \in Nat \ {0}
  PROVE  /\ Low(x, n) \in 0 .. Power(2, n) - 1 /\ ISA!Extz(x, n) = Low(x, n)
         /\ ISA!Exts(x, n) = Low(x, n) - (IF SignBit(x, n) THEN Power(2, n) ELSE 0)
         /\ ISA!Exts(x, n) \in SignedBits(n) /\ ISA!Exts(x, n) \in Int
         /\ SignExtend(x, n) = Wrap(ISA!Exts(x, n))
<1> DEFINE h == Power(2, n - 1)
           m == Power(2, n)
           r == Low(x, n)
<1>1. h \in Nat \ {0} /\ m = 2 * h /\ m \in Nat \ {0}
  <2>1. n - 1 \in Nat
    OBVIOUS
  <2> QED  BY <2>1, Twos
<1>2. r \in 0 .. m - 1 /\ ISA!Extz(x, n) = r
  <2>1. x % m \in 0 .. m - 1
    <3>1. x \in Int
      OBVIOUS
    <3> HIDE DEF m
    <3> QED  BY <1>1, <3>1, Division, Zenon
  <2>2. Low(x, n) = x % m /\ ISA!Extz(x, n) = x % m
    BY SamePower DEF Low, ISA!Extz
  <2> QED  BY <2>1, <2>2
<1>3. SignBit(x, n) <=> r >= h
  BY SignBitIs
<1>4. ISA!Exts(x, n) = IF r < h THEN r ELSE r - m
  BY <1>2, SamePower DEF ISA!Exts
<1>5. SignExtend(x, n) = Wrap(r - (IF SignBit(x, n) THEN m ELSE 0))
  BY DEF SignExtend
<1> HIDE DEF h, m, r
<1>6. ISA!Exts(x, n) = r - (IF SignBit(x, n) THEN m ELSE 0)
  BY <1>1, <1>2, <1>3, <1>4
<1>7. ISA!Exts(x, n) \in -h .. h - 1 /\ ISA!Exts(x, n) \in Int
  BY <1>1, <1>2, <1>4
<1> QED  BY <1>2, <1>5, <1>6, <1>7 DEF SignedBits, h, m, r

(* int64_t. *)
LEMMA SignedWrap ==
  ASSUME NEW e \in SignedBits(Bits)
  PROVE  Signed(Wrap(e)) = e /\ e \in Int
<1> DEFINE h == Power(2, Bits - 1)
<1>1. h \in Nat \ {0} /\ Size = 2 * h /\ Size \in Nat \ {0} /\ Bits \in Nat \ {0}
  <2>1. Bits \in Nat \ {0} /\ Bits - 1 \in Nat
    BY Widths
  <2> QED  BY <2>1, Twos DEF Size
<1>2. e \in -h .. h - 1
  BY DEF SignedBits
<1> DEFINE w == Wrap(e)
<1>3. w = e % Size /\ w \in Nat /\ w \in 0 .. Size - 1
  <2>1. e \in Int
    BY <1>1, <1>2
  <2>2. e % Size \in 0 .. Size - 1
    BY <1>1, <2>1, Division, Zenon
  <2>3. w = e % Size
    BY DEF Wrap, Size
  <2> QED  BY <1>1, <2>2, <2>3
<1>4. Low(w, Bits) = w
  BY <1>1, <1>3, ModSmall DEF Low, Size
<1>5. SignBit(w, Bits) <=> w >= h
  BY <1>1, <1>3, <1>4, SignBitIs
<1>6. Signed(w) = IF SignBit(w, Bits) THEN w - Size ELSE w
  BY DEF Signed, Size
<1> HIDE DEF h, w
<1>7. w = IF e < 0 THEN e + Size ELSE e
  <2>1. CASE e >= 0
    <3>1. e \in 0 .. Size - 1
      BY <1>1, <1>2, <2>1
    <3> QED  BY <1>1, <1>2, <1>3, <2>1, <3>1, ModSmall
  <2>2. CASE e < 0
    <3>1. e = Size * (-1) + (e + Size) /\ e + Size \in 0 .. Size - 1 /\ -1 \in Int /\ e \in Int
      BY <1>1, <1>2, <2>2
    <3> DEFINE s == e + Size
    <3>2. e = Size * (-1) + s /\ s \in 0 .. Size - 1
      BY <3>1
    <3> HIDE DEF s
    <3>3. e % Size = s
      BY <1>1, <3>1, <3>2, Remains
    <3> QED  BY <1>3, <2>2, <3>3 DEF s
  <2> QED  BY <1>2, <2>1, <2>2
<1> QED  BY <1>1, <1>2, <1>5, <1>6, <1>7 DEF w

-----------------------------------------------------------------------------
(* Types. *)

(* What an instruction carries. *)
LEMMA FieldsOf ==
  ASSUME NEW i \in Instr
  PROVE  /\ i.op = "b" => i.li \in Nat
         /\ i.op \in {"bc", "bclr", "bcctr"} => i.bo \in 0 .. 31 /\ i.bi \in CRBits
         /\ i.op = "bc" => i.bd \in Nat
         /\ i.op = "bcctr" => (i.bo \div 4) % 2 = 1
         /\ i.op \in {"cmp", "cmpl", "cmpi", "cmpli"} =>
              i.bf \in 0 .. Fields - 1 /\ i.l \in {0, 1} /\ i.a \in Word /\ i.b \in Word
         /\ i.op \in {"cror", "crorc", "crnor", "crnand"} =>
              i.bt \in CRBits /\ i.ba \in CRBits /\ i.bb \in CRBits
         /\ i.op \in {"mtspr", "mfspr"} => i.hi \in 0 .. 31 /\ i.lo \in 0 .. 31
         /\ i.op = "mtspr" => i.a \in Word
         /\ i.op = "mtocrf" => i.fxm \subseteq 0 .. Fields - 1 /\ i.a \subseteq RegisterBits
         /\ i # NoInstr
<1>1. i \in Branches \cup Compares \cup CROps \cup Moves
  BY BranchAssumption
<1>2. CASE i \in Branches
  <2>1. CASE i.op = "b"
    <3>1. i.li \in 0 .. Power(2, LiBits) - 1
      BY <1>2, <2>1 DEF Branches
    <3> QED  BY <2>1, <3>1 DEF NoInstr
  <2>2. CASE i.op = "bc"
    <3>1. i.bd \in 0 .. Power(2, BdBits) - 1 /\ i.bo \in 0 .. 31 /\ i.bi \in CRBits
      BY <1>2, <2>2 DEF Branches
    <3> QED  BY <2>2, <3>1 DEF NoInstr
  <2>3. CASE i.op \in {"bclr", "bcctr"}
    BY <1>2, <2>3 DEF Branches, NoInstr
  <2> QED  BY <1>2, <2>1, <2>2, <2>3 DEF Branches
<1>3. CASE i \in Compares
  BY <1>3 DEF Compares, NoInstr
<1>4. CASE i \in CROps
  BY <1>4 DEF CROps, NoInstr
<1>5. CASE i \in Moves
  BY <1>5 DEF Moves, NoInstr
<1> QED  BY <1>1, <1>2, <1>3, <1>4, <1>5

(* Where instructions may be: addresses that fit and are a multiple of four. *)
OnWord(x) == x \in Word /\ x % 4 = 0

LEMMA NextWord ==
  ASSUME NEW a, OnWord(a)
  PROVE  OnWord(Wrap(a + 4)) /\ \A w \in Int : OnWord(Wrap(a + 4 * w)) /\ OnWord(Wrap(4 * w))
<1>1. a \in Int /\ a % 4 = 0
  BY Widths DEF OnWord
<1>2. ASSUME NEW x \in Int, x % 4 = 0 PROVE OnWord(Wrap(x))
  BY <1>2, WrapIs DEF OnWord
<1>3. (a + 4) % 4 = 0 /\ \A w \in Int : (a + 4 * w) % 4 = 0 /\ (4 * w) % 4 = 0
  BY <1>1
<1>4. OnWord(Wrap(a + 4))
  <2>1. a + 4 \in Int
    BY <1>1
  <2> QED  BY <1>2, <1>3, <2>1
<1>5. ASSUME NEW w \in Int PROVE OnWord(Wrap(a + 4 * w)) /\ OnWord(Wrap(4 * w))
  <2>1. a + 4 * w \in Int /\ 4 * w \in Int
    BY <1>1
  <2> QED  BY <1>2, <1>3, <2>1
<1> QED  BY <1>4, <1>5

LEMMA AlignOnWord ==
  ASSUME NEW a \in Word
  PROVE  OnWord(Align(a))
<1>1. a \in Nat /\ a < Size
  BY Widths
<1>2. a - (a % 4) \in 0 .. a /\ (a - (a % 4)) % 4 = 0
  BY <1>1
<1> QED  BY <1>1, <1>2, Widths DEF OnWord, Align

LEMMA ExtendedIsInt ==
  ASSUME NEW x \in Nat, NEW n \in Nat \ {0}
  PROVE  SignExtend(x, n) \in Word /\ SignExtend(x, n) \in Int
<1>1. ISA!Exts(x, n) \in Int /\ SignExtend(x, n) = Wrap(ISA!Exts(x, n))
  BY ExtsIs
<1>2. Wrap(ISA!Exts(x, n)) \in Word
  BY <1>1, WrapIs
<1> QED  BY <1>1, <1>2, Widths

(* The first field FXM names. *)
LEMMA LeadingField ==
  ASSUME NEW fxm \in SUBSET (0 .. Fields - 1)
  PROVE  Leading(fxm) \in 0 .. Fields - 1
<1>1. CASE fxm = {}
  BY <1>1, Widths DEF Leading
<1>2. CASE fxm # {}
  <2>1. fxm \subseteq Nat
    OBVIOUS
  <2>2. \E n \in fxm : \A m \in fxm : n <= m
    BY <1>2, <2>1, LeastNumber
  <2>3. Leading(fxm) \in fxm
    BY <1>2, <2>2 DEF Leading
  <2> QED  BY <2>3
<1> QED  BY <1>1, <1>2

(* Fields and bits of CR. *)
LEMMA FieldBitsIn ==
  ASSUME NEW n \in 0 .. Fields - 1
  PROVE  /\ FieldBits(n) \subseteq CRBits
         /\ \A b \in 0 .. 3 : 4 * n + b \in FieldBits(n) /\ n + Fields * b \in CRBits
<1>1. Fields \in Nat \ {0}
  BY Widths
<1>2. FieldBits(n) \subseteq CRBits
  BY <1>1 DEF FieldBits, CRBits
<1>3. ASSUME NEW b \in 0 .. 3 PROVE 4 * n + b \in FieldBits(n) /\ n + Fields * b \in CRBits
  <2>1. b = 0 \/ b = 1 \/ b = 2 \/ b = 3
    OBVIOUS
  <2>2. Fields * b \in {0, Fields, 2 * Fields, 3 * Fields}
    BY <1>1, <2>1
  <2> QED  BY <1>1, <2>2 DEF FieldBits, CRBits
<1> QED  BY <1>2, <1>3

LEMMA SetCRIn ==
  ASSUME cr \subseteq CRBits, NEW n \in 0 .. Fields - 1, NEW cond \in SUBSET (0 .. 3)
  PROVE  SetCR(n, cond) \subseteq CRBits
<1>1. \A b \in 0 .. 3 : 4 * n + b \in CRBits
  BY FieldBitsIn
<1> QED  BY <1>1 DEF SetCR

LEMMA TypeSteps ==
  ASSUME TypeOK, [Next]_vars
  PROVE  TypeOK'
<1>1. /\ OnWord(pc) /\ lr \in Word /\ ctr \in Word /\ cr \subseteq CRBits /\ rt \subseteq RegisterBits
      /\ ir \in Instr \cup {NoInstr} /\ NoInstr.op = "none"
  BY DEF TypeOK, OnWord, NoInstr
<1>2. SUFFICES /\ OnWord(pc') /\ lr' \in Word /\ ctr' \in Word
               /\ cr' \subseteq CRBits /\ rt' \subseteq RegisterBits
               /\ ir' \in Instr \cup {NoInstr}
  BY DEF TypeOK, OnWord
<1>3. OnWord(Wrap(pc + 4)) /\ \A w \in Int : OnWord(Wrap(pc + 4 * w)) /\ OnWord(Wrap(4 * w))
  BY <1>1, NextWord
<1>4. Wrap(pc + 4) \in Word /\ Wrap(ctr - 1) \in Word
  <2>1. ctr - 1 \in Int
    BY <1>1, Widths
  <2> QED  BY <1>3, <2>1, WrapIs DEF OnWord
<1>5. CASE Fetch
  BY <1>1, <1>5 DEF Fetch
<1>6. CASE UNCHANGED vars
  BY <1>1, <1>6 DEF vars
<1>7. ASSUME NEW x \in Nat, NEW n \in Nat \ {0} PROVE OnWord(Displaced(ir, SignExtend(x, n)))
  <2>1. SignExtend(x, n) \in Int
    BY ExtendedIsInt
  <2> QED  BY <1>3, <2>1 DEF Displaced
<1>8. ASSUME Execute PROVE ir' = NoInstr /\ (ir.op # "none" => ir \in Instr)
  BY <1>1, <1>8 DEF Execute
<1>9. ASSUME Execute, B \/ BC \/ BCLR \/ BCCTR PROVE OnWord(pc') /\ lr' \in Word /\ ctr' \in Word
  <2>1. CASE B
    <3>1. ir \in Instr /\ ir.li \in Nat /\ LiBits \in Nat \ {0}
      BY <1>1, <1>8, <1>9, <2>1, FieldsOf, Widths DEF B
    <3>2. OnWord(Displaced(ir, SignExtend(ir.li, LiBits)))
      BY <1>7, <3>1
    <3> QED  BY <1>1, <1>4, <2>1, <3>2 DEF B, Link
  <2>2. CASE BC
    <3>1. ir \in Instr /\ ir.bd \in Nat /\ BdBits \in Nat \ {0}
      BY <1>1, <1>8, <1>9, <2>2, FieldsOf, Widths DEF BC
    <3>2. OnWord(Displaced(ir, SignExtend(ir.bd, BdBits)))
      BY <1>7, <3>1
    <3> QED  BY <1>1, <1>3, <1>4, <2>2, <3>2 DEF BC, Link, StoredCtr
  <2>3. CASE BCLR
    BY <1>1, <1>3, <1>4, <2>3, AlignOnWord DEF BCLR, Link, StoredCtr
  <2>4. CASE BCCTR
    BY <1>1, <1>3, <1>4, <2>4, AlignOnWord DEF BCCTR, Link
  <2> QED  BY <1>9, <2>1, <2>2, <2>3, <2>4
<1>10. ASSUME Execute, Cmp \/ Cmpl \/ Cmpi \/ Cmpli PROVE cr' \subseteq CRBits
  <2>1. ir \in Instr /\ ir.bf \in 0 .. Fields - 1
    BY <1>8, <1>10, FieldsOf DEF Cmp, Cmpl, Cmpi, Cmpli
  <2>2. ASSUME NEW p, NEW q, NEW s PROVE SetCR(ir.bf, Cond(p, q, s)) \subseteq CRBits
    <3>1. Cond(p, q, s) \in SUBSET (0 .. 3)
      BY DEF Cond
    <3> QED  BY <1>1, <2>1, <3>1, SetCRIn
  <2> QED  BY <1>10, <2>2 DEF Cmp, Cmpl, Cmpi, Cmpli, Arithmetic, Logical
<1>11. ASSUME Execute, CROp PROVE cr' \subseteq CRBits
  <2>1. ir.op \in {"cror", "crorc", "crnor", "crnand"} /\ \E r \in BOOLEAN : cr' = SetBit(ir.bt, r)
    BY <1>11 DEF CROp
  <2>2. ir.bt \in CRBits
    BY <1>8, <1>11, <2>1, FieldsOf
  <2> QED  BY <1>1, <2>1, <2>2 DEF SetBit
<1>12. ASSUME Execute, MtOCRF PROVE cr' \subseteq CRBits
  <2> DEFINE n == Leading(ir.fxm)
  <2>1. ir.op = "mtocrf" /\ ir \in Instr
    BY <1>8, <1>12 DEF MtOCRF
  <2>2. n \in 0 .. Fields - 1
    BY <2>1, FieldsOf, LeadingField
  <2>3. ASSUME NEW j \in 0 .. 3 PROVE n + Fields * (3 - j) \in CRBits
    <3>1. 3 - j \in 0 .. 3
      OBVIOUS
    <3> HIDE DEF n
    <3> QED  BY <2>2, <3>1, FieldBitsIn
  <2>4. cr' = (cr \ (4 * n .. 4 * n + 3)) \cup Scattered(Nibble(ir.a, n), n)
    BY <1>12 DEF MtOCRF
  <2>5. Scattered(Nibble(ir.a, n), n) \subseteq CRBits
    <3> HIDE DEF n
    <3> QED  BY <2>3 DEF Scattered, Nibble
  <2> QED  BY <1>1, <2>4, <2>5
<1>13. ASSUME Execute, MtSPR
       PROVE  OnWord(pc') /\ lr' \in Word /\ ctr' \in Word /\ UNCHANGED <<cr, rt>>
  <2>1. ir.a \in Word
    BY <1>8, <1>13, FieldsOf DEF MtSPR
  <2> QED  BY <1>1, <1>3, <1>13, <2>1 DEF MtSPR
<1>14. ASSUME MoveFrom PROVE OnWord(pc') /\ UNCHANGED <<lr, ctr, cr>> /\ rt' \subseteq RegisterBits
  <2>1. OneBits(lr) \subseteq RegisterBits /\ TimeBase \subseteq RegisterBits /\ cr \subseteq RegisterBits
    BY <1>1, BranchAssumption DEF OneBits, RegisterBits
  <2> QED  BY <1>3, <1>14, <2>1 DEF MoveFrom, Proceed
<1>15. CASE Execute
  <2>1. CASE B \/ BC \/ BCLR \/ BCCTR
    <3>1. (cr' = cr /\ rt' = rt) \/ MtSPR \/ MoveFrom \/ MtOCRF
      BY <1>15, <2>1 DEF Execute, B, BC, BCLR, BCCTR
    <3>2. ~(MtSPR \/ MoveFrom \/ MtOCRF)
      BY <2>1 DEF B, BC, BCLR, BCCTR, MtSPR, MoveFrom, MtOCRF
    <3> QED  BY <1>1, <1>8, <1>9, <1>15, <2>1, <3>1, <3>2
  <2>2. CASE (Cmp \/ Cmpl \/ Cmpi \/ Cmpli \/ CROp) /\ UNCHANGED rt
    <3>1. Proceed
      BY <2>2 DEF Cmp, Cmpl, Cmpi, Cmpli, CROp
    <3> QED  BY <1>1, <1>3, <1>8, <1>10, <1>11, <1>15, <2>2, <3>1 DEF Proceed
  <2>3. CASE MtSPR
    BY <1>1, <1>8, <1>13, <1>15, <2>3
  <2>4. CASE MoveFrom
    BY <1>1, <1>8, <1>14, <1>15, <2>4
  <2>5. CASE MtOCRF
    <3>1. Proceed /\ UNCHANGED rt
      BY <2>5 DEF MtOCRF
    <3> QED  BY <1>1, <1>3, <1>8, <1>12, <1>15, <2>5, <3>1 DEF Proceed
  <2> QED  BY <1>15, <2>1, <2>2, <2>3, <2>4, <2>5 DEF Execute
<1>16. CASE Refused
  BY <1>1, <1>6, <1>16 DEF Refused
<1> QED  BY <1>5, <1>6, <1>15, <1>16 DEF Next

(* PC stays on a word boundary and every register within its width, whatever *)
(* LR and CTR hold, for registers, displacements and fields of any size.     *)
THEOREM TypeCorrect == Spec => []TypeOK
<1>1. Init => TypeOK
  <2>1. 0 \in Word /\ 0 % 4 = 0
    BY Widths
  <2> QED  BY <2>1 DEF Init, TypeOK, CRBits, RegisterBits
<1> QED  BY <1>1, TypeSteps, PTL DEF Spec
-----------------------------------------------------------------------------
(* Refinement: BO, and the flags of CR. *)

(* The row of BO's table, from its bits. *)
LEMMA BOIs ==
  ASSUME NEW bo \in 0 .. 31
  PROVE  LET on(weight) == (bo \div weight) % 2 = 1
             row == ISA!BO(bo) IN
         /\ row.ctr = (IF on(4) THEN "any" ELSE IF on(2) THEN "zero" ELSE "nonzero")
         /\ row.cond = (IF on(16) THEN "any" ELSE IF on(8) THEN "true" ELSE "false")
<1> DEFINE on(weight) == (bo \div weight) % 2 = 1
           Matches(r) == \A k \in 1 .. 5 : r.bits[k] \in {2, ISA!Bit(bo, k)}
           Means(r) == /\ r.ctr = (IF on(4) THEN "any" ELSE IF on(2) THEN "zero" ELSE "nonzero")
                       /\ r.cond = (IF on(16) THEN "any" ELSE IF on(8) THEN "true" ELSE "false")
<1>1. /\ ISA!Bit(bo, 1) = (bo \div 16) % 2 /\ ISA!Bit(bo, 2) = (bo \div 8) % 2
      /\ ISA!Bit(bo, 3) = (bo \div 4) % 2 /\ ISA!Bit(bo, 4) = (bo \div 2) % 2
  BY SamePower, FirstTwos DEF ISA!Bit
<1>2. \A w \in {2, 4, 8, 16} : (bo \div w) % 2 \in {0, 1}
  <2>1. bo \div 2 \in Int /\ bo \div 4 \in Int /\ bo \div 8 \in Int /\ bo \div 16 \in Int
    OBVIOUS
  <2>2. \A x \in Int : x % 2 \in {0, 1}
    OBVIOUS
  <2> QED  BY <2>1, <2>2
<1>3. ASSUME NEW r \in ISA!BOTable, Matches(r) PROVE Means(r)
  <2>1. /\ r.bits[1] \in {2, ISA!Bit(bo, 1)} /\ r.bits[2] \in {2, ISA!Bit(bo, 2)}
        /\ r.bits[3] \in {2, ISA!Bit(bo, 3)} /\ r.bits[4] \in {2, ISA!Bit(bo, 4)}
    BY <1>3
  <2> QED  BY <1>1, <2>1 DEF ISA!BOTable, ISA!Row
<1>4. \E r \in ISA!BOTable : Matches(r)
  <2> DEFINE Fits(r) == \A k \in 1 .. 4 : r.bits[k] \in {2, ISA!Bit(bo, k)}
  <2>1. \A r \in ISA!BOTable : r.bits[5] = 2
    BY DEF ISA!BOTable, ISA!Row
  <2>2. \E r \in ISA!BOTable : Fits(r)
    <3>1. /\ ISA!Bit(bo, 1) \in {0, 1} /\ ISA!Bit(bo, 2) \in {0, 1}
          /\ ISA!Bit(bo, 3) \in {0, 1} /\ ISA!Bit(bo, 4) \in {0, 1}
      BY <1>1, <1>2
    <3> QED  BY <3>1 DEF ISA!BOTable, ISA!Row
  <2>3. PICK r \in ISA!BOTable : Fits(r)
    BY <2>2
  <2>4. Matches(r)
    BY <2>1, <2>3
  <2> QED  BY <2>4
<1>5. ISA!BO(bo) \in ISA!BOTable /\ Matches(ISA!BO(bo))
  BY <1>4 DEF ISA!BO
<1> HIDE DEF Matches
<1>6. Means(ISA!BO(bo))
  BY <1>3, <1>5
<1> QED  BY <1>6

(* A bit of CR is one flag of one field, and no other bit is. *)
LEMMA OneFlagEach ==
  ASSUME NEW k \in Nat, NEW l \in Nat
  PROVE  ISA!CRBit(k) = ISA!CRBit(l) => k = l
<1> SUFFICES ASSUME ISA!CRBit(k) = ISA!CRBit(l) PROVE k = l
  OBVIOUS
<1>1. k \div 4 = l \div 4 /\ Flag[(k % 4) + 1] = Flag[(l % 4) + 1]
  BY DEF ISA!CRBit, ISA!Flag, Flag
<1>2. k % 4 \in 0 .. 3 /\ l % 4 \in 0 .. 3 /\ k = 4 * (k \div 4) + (k % 4) /\ l = 4 * (l \div 4) + (l % 4)
  OBVIOUS
<1>3. ASSUME NEW a \in 0 .. 3, NEW b \in 0 .. 3, Flag[a + 1] = Flag[b + 1] PROVE a = b
  BY <1>3 DEF Flag
<1>4. k % 4 = l % 4
  BY <1>1, <1>2, <1>3
<1> QED  BY <1>1, <1>2, <1>4

LEMMA FlagsAre ==
  ASSUME NEW S, NEW T, S \subseteq Nat, T \subseteq Nat
  PROVE  /\ Flags(S \cup T) = Flags(S) \cup Flags(T) /\ Flags(S \ T) = Flags(S) \ Flags(T)
         /\ \A k \in Nat : ISA!CRBit(k) \in Flags(S) <=> k \in S
         /\ \A k : Flags({k}) = {ISA!CRBit(k)}
         /\ Flags({}) = {}
<1>1. \A X : Flags(X) = {ISA!CRBit(k) : k \in X}
  BY DEF Flags, Flag, ISA!CRBit, ISA!Flag
<1>2. \A k \in Nat : ISA!CRBit(k) \in Flags(S) <=> k \in S
  BY <1>1, OneFlagEach
<1>3. \A k \in Nat : ISA!CRBit(k) \in Flags(T) <=> k \in T
  BY <1>1, OneFlagEach
<1>4. Flags(S \ T) = Flags(S) \ Flags(T)
  BY <1>1, <1>2, <1>3
<1> QED  BY <1>1, <1>2, <1>4

LEMMA FieldFlags ==
  ASSUME NEW n \in Nat
  PROVE  /\ \A b \in 0 .. 3 : ISA!CRBit(4 * n + b) = <<n, Flag[b + 1]>>
         /\ Flags(4 * n .. 4 * n + 3) = ISA!FieldOf(n)
<1>1. ASSUME NEW b \in 0 .. 3 PROVE ISA!CRBit(4 * n + b) = <<n, Flag[b + 1]>>
  <2>1. (4 * n + b) \div 4 = n /\ (4 * n + b) % 4 = b
    OBVIOUS
  <2> QED  BY <2>1 DEF ISA!CRBit, ISA!Flag, Flag
<1>2. \A X : Flags(X) = {ISA!CRBit(k) : k \in X}
  BY DEF Flags, Flag, ISA!CRBit, ISA!Flag
<1>3. 4 * n .. 4 * n + 3 = {4 * n + b : b \in 0 .. 3}
  <2>1. \A k \in 4 * n .. 4 * n + 3 : k - 4 * n \in 0 .. 3 /\ k = 4 * n + (k - 4 * n)
    OBVIOUS
  <2> QED  BY <2>1
<1>4. Flags(4 * n .. 4 * n + 3) = {<<n, Flag[b + 1]>> : b \in 0 .. 3}
  BY <1>1, <1>2, <1>3
<1>5. {<<n, Flag[b + 1]>> : b \in 0 .. 3} = {<<n, Flag[k]>> : k \in 1 .. 4}
  <2>1. \A k \in 1 .. 4 : k - 1 \in 0 .. 3 /\ k = (k - 1) + 1
    OBVIOUS
  <2>2. \A b \in 0 .. 3 : b + 1 \in 1 .. 4
    OBVIOUS
  <2> QED  BY <2>1, <2>2
<1>6. ISA!FieldOf(n) = {<<n, Flag[k]>> : k \in 1 .. 4}
  BY DEF ISA!FieldOf, ISA!Flag, Flag
<1> QED  BY <1>1, <1>4, <1>5, <1>6

(* A field that is replaced. *)
LEMMA FieldReplaced ==
  ASSUME NEW S, S \subseteq CRBits, NEW n \in 0 .. Fields - 1, NEW cond \in SUBSET (0 .. 3)
  PROVE  Flags((S \ (4 * n .. 4 * n + 3)) \cup {4 * n + b : b \in cond})
           = (Flags(S) \ ISA!FieldOf(n)) \cup {<<n, Flag[b + 1]>> : b \in cond}
<1> DEFINE C == {4 * n + b : b \in cond}
           F == 4 * n .. 4 * n + 3
<1>1. n \in Nat /\ S \subseteq Nat
  BY Widths DEF CRBits
<1>2. C \subseteq Nat /\ F \subseteq Nat /\ S \ F \subseteq Nat
  BY <1>1
<1>3. Flags(F) = ISA!FieldOf(n) /\ \A b \in 0 .. 3 : ISA!CRBit(4 * n + b) = <<n, Flag[b + 1]>>
  BY <1>1, FieldFlags
<1>4. Flags(C) = {ISA!CRBit(k) : k \in C}
  BY DEF Flags, Flag, ISA!CRBit, ISA!Flag
<1>5. Flags(C) = {<<n, Flag[b + 1]>> : b \in cond}
  BY <1>3, <1>4
<1> HIDE DEF C, F
<1>6. Flags(S \ F) = Flags(S) \ Flags(F)
  BY <1>1, <1>2, FlagsAre
<1>7. Flags((S \ F) \cup C) = Flags(S \ F) \cup Flags(C)
  BY <1>2, FlagsAre
<1> QED  BY <1>3, <1>5, <1>6, <1>7 DEF C, F

(* As many flags as bits. *)
LEMMA FlagsCount ==
  ASSUME NEW S, S \subseteq CRBits
  PROVE  Cardinality(Flags(S)) = Cardinality(S)
<1> DEFINE f == [k \in S |-> ISA!CRBit(k)]
<1>1. S \subseteq Nat /\ IsFiniteSet(S)
  <2>1. 0 \in Int /\ 4 * Fields - 1 \in Int /\ S \subseteq Nat
    BY Widths DEF CRBits
  <2>2. IsFiniteSet(CRBits)
    BY <2>1, FS_Interval DEF CRBits
  <2> QED  BY <2>1, <2>2, FS_Subset
<1>2. f \in Bijection(S, Flags(S))
  <2>1. Flags(S) = {ISA!CRBit(k) : k \in S}
    BY DEF Flags, Flag, ISA!CRBit, ISA!Flag
  <2>2. \A k, l \in S : f[k] = f[l] => k = l
    BY <1>1, OneFlagEach
  <2>3. f \in [S -> Flags(S)] /\ \A y \in Flags(S) : \E k \in S : f[k] = y
    BY <2>1
  <2> QED  BY <2>2, <2>3 DEF Bijection, Injection, Surjection, IsInjective
<1>3. ExistsBijection(S, Flags(S))
  BY <1>2 DEF ExistsBijection
<1> QED  BY <1>1, <1>3, FS_Bijection

(* The architecture counts as the code does. *)
LEMMA SameCardinality == \A S : ISA!Cardinality(S) = Cardinality(S)
BY DEF ISA!Cardinality, Cardinality

(* Operands: the number a pattern stands for. *)
LEMMA WordSigned ==
  ASSUME NEW x \in Word
  PROVE  Signed(x) = ISA!Exts(x, Bits) /\ x = ISA!Extz(x, Bits)
<1>1. x \in Nat /\ Bits \in Nat \ {0} /\ Size \in Nat \ {0} /\ x \in 0 .. Size - 1
  BY Widths
<1>2. Low(x, Bits) = x
  BY <1>1, ModSmall DEF Low, Size
<1>3. ISA!Exts(x, Bits) = Low(x, Bits) - (IF SignBit(x, Bits) THEN Power(2, Bits) ELSE 0)
  BY <1>1, ExtsIs
<1>4. ISA!Extz(x, Bits) = Low(x, Bits)
  BY <1>1, ExtsIs
<1> QED  BY <1>1, <1>2, <1>3, <1>4 DEF Signed, Size

LEMMA NarrowSigned ==
  ASSUME NEW x \in Nat, NEW n \in {WordBits, ImmBits}
  PROVE  Signed(SignExtend(x, n)) = ISA!Exts(x, n) /\ Low(x, n) = ISA!Extz(x, n)
<1>1. n \in Nat \ {0} /\ n < Bits /\ Bits \in Nat \ {0}
  BY BranchAssumption
<1>2. SignExtend(x, n) = Wrap(ISA!Exts(x, n)) /\ ISA!Exts(x, n) \in SignedBits(n)
  BY <1>1, ExtsIs
<1>3. Low(x, n) = ISA!Extz(x, n)
  BY <1>1, ExtsIs
<1>4. ISA!Exts(x, n) \in SignedBits(Bits)
  <2>1. n - 1 \in Nat /\ Bits - 1 \in Nat /\ n - 1 <= Bits - 1
    BY <1>1
  <2>2. Power(2, n - 1) <= Power(2, Bits - 1)
    BY <2>1, TwosGrow
  <2>3. Power(2, n - 1) \in Nat /\ Power(2, Bits - 1) \in Nat
    BY <2>1, Twos
  <2> QED  BY <1>2, <2>2, <2>3 DEF SignedBits
<1>5. Signed(Wrap(ISA!Exts(x, n))) = ISA!Exts(x, n)
  BY <1>4, SignedWrap
<1> QED  BY <1>2, <1>3, <1>5

-----------------------------------------------------------------------------
(* Refinement: one instruction at a time. *)

(* What a step starts from. *)
Ready == TypeOK /\ Conforming /\ ir \in Instr

LEMMA Started ==
  ASSUME Ready
  PROVE  /\ pc \in Word /\ pc \in Int /\ lr \in Word /\ ctr \in Word /\ ctr \in Int
         /\ cr \subseteq CRBits /\ cr \subseteq Nat /\ CRBits \subseteq Nat
         /\ Word \subseteq Nat /\ Conforms(ir)
         /\ ISA!Mod(pc + 4) = Wrap(pc + 4)
<1>1. /\ pc \in Word /\ lr \in Word /\ ctr \in Word /\ cr \subseteq CRBits /\ Conforms(ir)
  BY DEF Ready, TypeOK, Conforming
<1>2. Word \subseteq Nat /\ CRBits \subseteq Nat
  BY Widths DEF CRBits
<1>3. ISA!Mod(pc + 4) = Wrap(pc + 4)
  <2>1. pc + 4 \in Int
    BY <1>1, <1>2
  <2> QED  BY <2>1, WrapIs
<1> QED  BY <1>1, <1>2, <1>3

(* Where a branch leads, from a field of n bits. *)
LEMMA TargetIs ==
  ASSUME Ready, NEW i, NEW x \in Nat, NEW n \in Nat \ {0}
  PROVE  Displaced(i, SignExtend(x, n)) = ISA!Target(i, ISA!Exts(x, n))
<1> DEFINE e == ISA!Exts(x, n)
<1>1. e \in Int /\ SignExtend(x, n) = Wrap(e)
  BY ExtsIs
<1> HIDE DEF e
<1>2. pc \in Int
  BY Started
<1>3. Wrap(pc + 4 * Wrap(e)) = Wrap(pc + 4 * e)
  BY <1>1, <1>2, WrapTwice
<1>4. Wrap(4 * Wrap(e)) = Wrap(4 * e)
  <2>1. Wrap(0 + 4 * Wrap(e)) = Wrap(0 + 4 * e)
    <3>1. 0 \in Int
      OBVIOUS
    <3> QED  BY <1>1, <3>1, WrapTwice, Zenon
  <2>2. 0 + 4 * Wrap(e) = 4 * Wrap(e) /\ 0 + 4 * e = 4 * e
    <3>1. Wrap(e) \in Int
      BY <1>1, WrapIs, Widths
    <3> QED  BY <1>1, <3>1
  <2> QED  BY <2>1, <2>2
<1>5. ISA!Mod(pc + 4 * e) = Wrap(pc + 4 * e) /\ ISA!Mod(4 * e) = Wrap(4 * e)
  <2>1. pc + 4 * e \in Int /\ 4 * e \in Int
    BY <1>1, <1>2
  <2> QED  BY <2>1, WrapIs
<1>6. ISA!Target(i, e) = IF i.aa THEN ISA!Mod(0 + 4 * e) ELSE ISA!Mod(pc + 4 * e)
  BY DEF ISA!Target
<1>7. 0 + 4 * e = 4 * e
  BY <1>1
<1> QED  BY <1>1, <1>3, <1>4, <1>5, <1>6, <1>7 DEF Displaced, e

(* The conditions BO and BI ask for. *)
LEMMA ConditionsAre ==
  ASSUME Ready, NEW i \in Instr, i.op \in {"bc", "bclr", "bcctr"}
  PROVE  /\ CondOk(i) <=> ISA!CondOk(i)
         /\ CtrOk(i) <=> ISA!CtrOk(i.bo)
         /\ StoredCtr(i) = ISA!Decremented(i.bo)
<1>1. i.bo \in 0 .. 31 /\ i.bi \in CRBits
  BY FieldsOf
<1> DEFINE row == ISA!BO(i.bo)
<1>2. /\ row.ctr = (IF Bo(i, 4) THEN "any" ELSE IF Bo(i, 2) THEN "zero" ELSE "nonzero")
      /\ row.cond = (IF Bo(i, 16) THEN "any" ELSE IF Bo(i, 8) THEN "true" ELSE "false")
  BY <1>1, BOIs DEF Bo
<1>3. ISA!CRBit(i.bi) \in Flags(cr) <=> CrSet(i)
  <2>1. i.bi \in Nat /\ cr \subseteq Nat
    BY <1>1, Started
  <2> QED  BY <2>1, FlagsAre DEF CrSet
<1>4. ISA!Mod(ctr - 1) = Wrap(ctr - 1)
  <2>1. ctr - 1 \in Int
    BY Started
  <2> QED  BY <2>1, WrapIs
<1>5. StoredCtr(i) = ISA!Decremented(i.bo)
  BY <1>2, <1>4 DEF StoredCtr, ISA!Decremented
<1>6. CondOk(i) <=> ISA!CondOk(i)
  <2>1. ISA!CondOk(i) <=> (row.cond = "any" \/ (row.cond = "true" /\ CrSet(i)) \/ (row.cond = "false" /\ ~CrSet(i)))
    BY <1>3 DEF ISA!CondOk
  <2>2. CondOk(i) <=> (Bo(i, 16) \/ (Bo(i, 8) /\ CrSet(i)) \/ (~Bo(i, 8) /\ ~CrSet(i)))
    BY DEF CondOk, Bo, CrSet
  <2> HIDE DEF row
  <2> QED  BY <1>2, <2>1, <2>2
<1>7. CtrOk(i) <=> ISA!CtrOk(i.bo)
  <2> DEFINE s == StoredCtr(i)
  <2>1. ISA!CtrOk(i.bo) <=> (row.ctr = "any" \/ (row.ctr = "zero" /\ s = 0) \/ (row.ctr = "nonzero" /\ s # 0))
    BY <1>5 DEF ISA!CtrOk
  <2>2. CtrOk(i) <=> (Bo(i, 4) \/ (Bo(i, 2) /\ s = 0) \/ (~Bo(i, 2) /\ s # 0))
    BY DEF CtrOk, Bo
  <2> HIDE DEF row, s
  <2> QED  BY <1>2, <2>1, <2>2
<1> QED  BY <1>5, <1>6, <1>7

LEMMA BranchSteps ==
  ASSUME Ready, B \/ BC \/ BCLR \/ BCCTR, UNCHANGED rt, ir' = NoInstr
  PROVE  ISA!Next
<1>1. ISA!Link(ir) <=> Link(ir)
  BY Started DEF ISA!Link, Link
<1>2. ir \in Instr /\ \A a : ISA!WordAligned(a) = Align(a)
  BY DEF Ready, ISA!WordAligned, Align
<1>3. Flags(cr)' = Flags(cr)
  BY DEF B, BC, BCLR, BCCTR, Flags
<1>4. CASE B
  <2>1. ir.op = "b" /\ ir.li \in Nat /\ LiBits \in Nat \ {0}
    BY <1>2, <1>4, FieldsOf, Widths DEF B
  <2>2. pc' = ISA!Target(ir, ISA!Exts(ir.li, LiBits))
    BY <1>4, <2>1, TargetIs DEF B
  <2>3. ISA!Branch(ir)
    BY <1>1, <1>3, <1>4, <2>1, <2>2 DEF B, ISA!Branch, ISA!BranchTo
  <2> QED  BY <1>2, <2>3 DEF ISA!Next, ISA!Execute, ISA!NoInstr, NoInstr
<1>5. CASE BC
  <2>1. ir.op = "bc" /\ ir.bd \in Nat /\ BdBits \in Nat \ {0}
    BY <1>2, <1>5, FieldsOf, Widths DEF BC
  <2>2. Displaced(ir, SignExtend(ir.bd, BdBits)) = ISA!Target(ir, ISA!Exts(ir.bd, BdBits))
    BY <2>1, TargetIs
  <2>3. /\ CondOk(ir) <=> ISA!CondOk(ir)
        /\ CtrOk(ir) <=> ISA!CtrOk(ir.bo)
        /\ StoredCtr(ir) = ISA!Decremented(ir.bo)
    BY <1>2, <2>1, ConditionsAre
  <2>4. ISA!BranchConditional(ir)
    BY <1>1, <1>3, <1>5, <2>1, <2>2, <2>3, Started DEF BC, ISA!BranchConditional, ISA!BranchTo
  <2> QED  BY <1>2, <2>4 DEF ISA!Next, ISA!Execute, ISA!NoInstr, NoInstr
<1>6. CASE BCLR
  <2>1. ir.op = "bclr"
    BY <1>6 DEF BCLR
  <2>2. /\ CondOk(ir) <=> ISA!CondOk(ir)
        /\ CtrOk(ir) <=> ISA!CtrOk(ir.bo)
        /\ StoredCtr(ir) = ISA!Decremented(ir.bo)
    BY <1>2, <2>1, ConditionsAre
  <2>3. ISA!BranchConditionalToLR(ir)
    BY <1>1, <1>2, <1>3, <1>6, <2>1, <2>2, Started
       DEF BCLR, ISA!BranchConditionalToLR, ISA!BranchTo
  <2> QED  BY <1>2, <2>3 DEF ISA!Next, ISA!Execute, ISA!NoInstr, NoInstr
<1>7. CASE BCCTR
  <2>1. ir.op = "bcctr"
    BY <1>7 DEF BCCTR
  <2>2. CondOk(ir) <=> ISA!CondOk(ir)
    BY <1>2, <2>1, ConditionsAre
  <2>3. ISA!BranchConditionalToCTR(ir)
    BY <1>1, <1>2, <1>3, <1>7, <2>1, <2>2, Started
       DEF BCCTR, ISA!BranchConditionalToCTR, ISA!BranchTo
  <2> QED  BY <1>2, <2>3 DEF ISA!Next, ISA!Execute, ISA!NoInstr, NoInstr
<1> QED  BY <1>4, <1>5, <1>6, <1>7

(* A compare: Cond is the architecture's order, with the summary overflow. *)
LEMMA CompareSteps ==
  ASSUME Ready, Cmp \/ Cmpl \/ Cmpi \/ Cmpli, UNCHANGED rt, ir' = NoInstr
  PROVE  ISA!Next
<1>1. /\ ir \in Instr /\ ir.op \in {"cmp", "cmpl", "cmpi", "cmpli"} /\ ir.bf \in 0 .. Fields - 1
      /\ ir.l \in {0, 1} /\ ir.a \in Word /\ ir.b \in Word /\ ir.a \in Nat /\ ir.b \in Nat
  <2>1. ir \in Instr /\ ir.op \in {"cmp", "cmpl", "cmpi", "cmpli"}
    BY DEF Ready, Cmp, Cmpl, Cmpi, Cmpli
  <2> QED  BY <2>1, FieldsOf, Started
<1>2. ASSUME NEW x \in Word
      PROVE  Signed(Operand(x)) = ISA!Exts(x, ISA!Length(ir)) /\ OperandU(x) = ISA!Extz(x, ISA!Length(ir))
  <2>1. x \in Nat
    BY Started
  <2>2. Signed(x) = ISA!Exts(x, Bits) /\ x = ISA!Extz(x, Bits)
    BY WordSigned
  <2>3. Signed(SignExtend(x, WordBits)) = ISA!Exts(x, WordBits) /\ Low(x, WordBits) = ISA!Extz(x, WordBits)
    BY <2>1, NarrowSigned
  <2> QED  BY <2>2, <2>3 DEF Operand, OperandU, ISA!Length
<1>3. Signed(SignExtend(ir.b, ImmBits)) = ISA!Exts(ir.b, ImmBits) /\ Low(ir.b, ImmBits) = ISA!Extz(ir.b, ImmBits)
  BY <1>1, NarrowSigned
<1>4. ASSUME NEW e, NEW f,
             cr' = SetCR(ir.bf, Cond(e < f, e > f, ir.so)), ISA!Ordering(ir) = ISA!Order(e, f)
      PROVE  Flags(cr)' = (Flags(cr) \ ISA!FieldOf(ir.bf)) \cup {<<ir.bf, ISA!Ordering(ir)>>}
                            \cup (IF ir.so THEN {<<ir.bf, "so">>} ELSE {})
  <2> DEFINE cond == Cond(e < f, e > f, ir.so)
  <2>1. cond \in SUBSET (0 .. 3)
    BY DEF Cond
  <2>2. Flags(cr)' = Flags(SetCR(ir.bf, cond))
    BY <1>4 DEF Flags, Flag
  <2>3. Flags(SetCR(ir.bf, cond))
          = (Flags(cr) \ ISA!FieldOf(ir.bf)) \cup {<<ir.bf, Flag[b + 1]>> : b \in cond}
    <3>1. cr \subseteq CRBits
      BY Started
    <3> HIDE DEF cond
    <3> QED  BY <1>1, <2>1, <3>1, FieldReplaced DEF SetCR
  <2>4. {<<ir.bf, Flag[b + 1]>> : b \in cond}
          = {<<ir.bf, ISA!Order(e, f)>>} \cup (IF ir.so THEN {<<ir.bf, "so">>} ELSE {})
    BY DEF Cond, ISA!Order, Flag
  <2> QED  BY <1>4, <2>2, <2>3, <2>4
<1>5. \E e, f : /\ cr' = SetCR(ir.bf, Cond(e < f, e > f, ir.so))
                /\ ISA!Ordering(ir) = ISA!Order(e, f)
  <2>1. CASE Cmp
    BY <1>1, <1>2, <2>1 DEF Cmp, Arithmetic, ISA!Ordering
  <2>2. CASE Cmpl
    BY <1>1, <1>2, <2>2 DEF Cmpl, Logical, ISA!Ordering
  <2>3. CASE Cmpi
    BY <1>1, <1>2, <1>3, <2>3 DEF Cmpi, Arithmetic, ISA!Ordering
  <2>4. CASE Cmpli
    BY <1>1, <1>2, <1>3, <2>4 DEF Cmpli, Logical, ISA!Ordering
  <2> QED  BY <2>1, <2>2, <2>3, <2>4
<1>6. Proceed
  BY DEF Cmp, Cmpl, Cmpi, Cmpli
<1>7. ISA!Compare(ir)
  BY <1>1, <1>4, <1>5, <1>6, Started DEF ISA!Compare, Proceed
<1> QED  BY <1>1, <1>7 DEF ISA!Next, ISA!Execute, ISA!NoInstr, NoInstr

(* Condition Register logic: one bit, one flag. *)
LEMMA LogicSteps ==
  ASSUME Ready, CROp, UNCHANGED rt, ir' = NoInstr
  PROVE  ISA!Next
<1>1. /\ ir \in Instr /\ ir.op \in {"cror", "crorc", "crnor", "crnand"}
      /\ ir.bt \in Nat /\ ir.ba \in Nat /\ ir.bb \in Nat /\ cr \subseteq Nat
  <2>1. ir \in Instr /\ ir.op \in {"cror", "crorc", "crnor", "crnand"}
    BY DEF Ready, CROp
  <2> QED  BY <2>1, FieldsOf, Started
<1>2. /\ ISA!CRBit(ir.ba) \in Flags(cr) <=> ir.ba \in cr
      /\ ISA!CRBit(ir.bb) \in Flags(cr) <=> ir.bb \in cr
  BY <1>1, FlagsAre
<1>3. ASSUME NEW r \in BOOLEAN
      PROVE  Flags(SetBit(ir.bt, r)) = IF r THEN Flags(cr) \cup {ISA!CRBit(ir.bt)}
                                            ELSE Flags(cr) \ {ISA!CRBit(ir.bt)}
  <2> DEFINE T == {ir.bt}
  <2>1. T \subseteq Nat /\ Flags(T) = {ISA!CRBit(ir.bt)}
    <3>1. {} \subseteq Nat
      OBVIOUS
    <3> QED  BY <1>1, <3>1, FlagsAre
  <2>2. SetBit(ir.bt, r) = IF r THEN cr \cup T ELSE cr \ T
    BY DEF SetBit
  <2> HIDE DEF T
  <2>3. Flags(cr \cup T) = Flags(cr) \cup Flags(T) /\ Flags(cr \ T) = Flags(cr) \ Flags(T)
    BY <1>1, <2>1, FlagsAre
  <2> QED  BY <2>1, <2>2, <2>3
<1>4. cr' = SetBit(ir.bt, ISA!Logic(ir)) /\ ISA!Logic(ir) \in BOOLEAN
  <2> DEFINE p == ir.ba \in cr
             q == ir.bb \in cr
  <2>1. CASE ir.op = "cror"
    <3>1. ISA!Logic(ir) = (p \/ q)
      BY <1>2, <2>1 DEF ISA!Logic
    <3>2. cr' = SetBit(ir.bt, p \/ q)
      BY <2>1 DEF CROp
    <3> QED  BY <3>1, <3>2
  <2>2. CASE ir.op = "crorc"
    <3>1. ISA!Logic(ir) = (p \/ ~q)
      BY <1>2, <2>2 DEF ISA!Logic
    <3>2. cr' = SetBit(ir.bt, p \/ ~q)
      BY <2>2 DEF CROp
    <3> QED  BY <3>1, <3>2
  <2>3. CASE ir.op = "crnor"
    <3>1. ISA!Logic(ir) = ~(p \/ q)
      BY <1>2, <2>3 DEF ISA!Logic
    <3>2. cr' = SetBit(ir.bt, ~(p \/ q))
      BY <2>3 DEF CROp
    <3> QED  BY <3>1, <3>2
  <2>4. CASE ir.op = "crnand"
    <3>1. ISA!Logic(ir) = ~(p /\ q)
      BY <1>2, <2>4 DEF ISA!Logic
    <3>2. cr' = SetBit(ir.bt, ~(p /\ q))
      BY <2>4 DEF CROp
    <3> QED  BY <3>1, <3>2
  <2> QED  BY <1>1, <2>1, <2>2, <2>3, <2>4
<1>5. Flags(cr)' = IF ISA!Logic(ir) THEN Flags(cr) \cup {ISA!CRBit(ir.bt)}
                                    ELSE Flags(cr) \ {ISA!CRBit(ir.bt)}
  <2>1. Flags(cr)' = Flags(SetBit(ir.bt, ISA!Logic(ir)))
    BY <1>4 DEF Flags, Flag
  <2> QED  BY <1>3, <1>4, <2>1
<1>6. ISA!CRLogic(ir)
  BY <1>1, <1>5, Started DEF CROp, Proceed, ISA!CRLogic
<1> QED  BY <1>1, <1>6 DEF ISA!Next, ISA!Execute, ISA!NoInstr, NoInstr

(* The number of a special register, when its high half is zero. *)
LEMMA SprIs ==
  ASSUME Ready, ir.op \in {"mtspr", "mfspr"}, Spr(ir) \in {8, 9}
  PROVE  Spr(ir) = ISA!SPR(ir)
<1>1. ir \in Instr /\ Conforms(ir)
  BY Started DEF Ready
<1>2. ir.hi = 0 /\ ir.lo \in 0 .. 31
  BY <1>1, FieldsOf DEF Conforms
<1>3. EitherBit(ir, 16) = (IF (ir.lo \div 16) % 2 = 1 THEN 16 ELSE 0)
  BY <1>2 DEF EitherBit
<1>4. EitherBit(ir, 8) = (IF (ir.lo \div 8) % 2 = 1 THEN 8 ELSE 0)
  BY <1>2 DEF EitherBit
<1>5. EitherBit(ir, 4) = (IF (ir.lo \div 4) % 2 = 1 THEN 4 ELSE 0)
  BY <1>2 DEF EitherBit
<1>6. EitherBit(ir, 2) = (IF (ir.lo \div 2) % 2 = 1 THEN 2 ELSE 0)
  BY <1>2 DEF EitherBit
<1>7. EitherBit(ir, 1) = (IF ir.lo % 2 = 1 THEN 1 ELSE 0)
  BY <1>2 DEF EitherBit
<1>8. \A x \in 0 .. 31 :
        x = (IF (x \div 16) % 2 = 1 THEN 16 ELSE 0) + (IF (x \div 8) % 2 = 1 THEN 8 ELSE 0)
              + (IF (x \div 4) % 2 = 1 THEN 4 ELSE 0) + (IF (x \div 2) % 2 = 1 THEN 2 ELSE 0)
              + (IF x % 2 = 1 THEN 1 ELSE 0)
  OBVIOUS
<1>9. Spr(ir) = ir.lo
  BY <1>2, <1>3, <1>4, <1>5, <1>6, <1>7, <1>8 DEF Spr
<1> QED  BY <1>2, <1>9 DEF ISA!SPR

LEMMA MoveSteps ==
  ASSUME Ready, MtSPR \/ MoveFrom, ir' = NoInstr
  PROVE  ISA!Next
<1>1. ir \in Instr /\ cr \subseteq CRBits /\ Flags(cr)' = Flags(cr)
  BY Started DEF Ready, MtSPR, MoveFrom, Flags
<1>2. CASE MtSPR
  <2>1. ir.op = "mtspr" /\ Spr(ir) \in {8, 9}
    BY <1>2 DEF MtSPR
  <2>2. ISA!MoveToSPR(ir)
    BY <1>1, <1>2, <2>1, SprIs, Started DEF MtSPR, ISA!MoveToSPR
  <2> QED  BY <1>1, <2>2 DEF ISA!Next, ISA!Execute, ISA!NoInstr, NoInstr
<1>3. CASE MoveFrom
  <2>1. OneBits(lr) = ISA!OneBits(lr)
    BY SamePower DEF OneBits, ISA!OneBits
  <2>2. Cardinality(Flags(cr)) = Cardinality(cr)
    BY <1>1, FlagsCount
  <2>3. ir.op = "mfspr" /\ Spr(ir) = 8 => ISA!SPR(ir) = 8
    BY SprIs
  <2>4. \/ ir.op = "mfspr" /\ ISA!SPR(ir) = 8 /\ rt' = ISA!OneBits(lr)
        \/ ir.op = "mfcr" /\ Cardinality(rt') = Cardinality(Flags(cr))
        \/ ir.op = "mftb" /\ ir.tbr = 268
    <3>1. CASE ir.op = "mfcr"
      BY <1>3, <2>2, <3>1 DEF MoveFrom
    <3> QED  BY <1>3, <2>1, <2>3, <3>1 DEF MoveFrom
  <2>5. pc' = ISA!Mod(pc + 4) /\ UNCHANGED <<lr, ctr>>
    BY <1>3, Started DEF MoveFrom, Proceed
  <2>6. ISA!MoveFrom(ir)
    BY <1>1, <2>4, <2>5, SameCardinality DEF ISA!MoveFrom
  <2> QED  BY <1>1, <2>6 DEF ISA!Next, ISA!Execute, ISA!NoInstr, NoInstr
<1> QED  BY <1>2, <1>3

(* mtocrf: FXM names one field, and its bits go to their places. *)
LEMMA MoveToFieldSteps ==
  ASSUME Ready, MtOCRF, ir' = NoInstr
  PROVE  ISA!Next
<1>1. ir \in Instr /\ ir.op = "mtocrf" /\ cr \subseteq CRBits /\ InPlace(ir)
  BY Started DEF Ready, MtOCRF, Conforms
<1>2. PICK n \in ir.fxm :
        /\ ir.fxm = {n}
        /\ Scattered(Nibble(ir.a, n), n) = {4 * n + 3 - j : j \in Nibble(ir.a, n)}
  BY <1>1 DEF InPlace
<1>3. n \in 0 .. Fields - 1 /\ n \in Nat /\ Fields \in Nat
  BY <1>1, <1>2, FieldsOf, Widths
<1>4. Leading(ir.fxm) = n
  BY <1>2, <1>3 DEF Leading
<1> DEFINE v == Nibble(ir.a, n)
           cond == {3 - j : j \in v}
<1>5. v \subseteq 0 .. 3 /\ cond \in SUBSET (0 .. 3)
  BY DEF Nibble
<1>6. {4 * n + 3 - j : j \in v} = {4 * n + b : b \in cond}
  <2>1. \A j \in 0 .. 3 : 4 * n + 3 - j = 4 * n + (3 - j)
    BY <1>3
  <2> HIDE DEF v
  <2> QED  BY <1>5, <2>1
<1>7. {<<n, Flag[b + 1]>> : b \in cond}
        = {<<n, ISA!Flag[k]>> : k \in {m \in 1 .. 4 : 4 * (Fields - n) - m \in ir.a}}
  <2>1. \A j \in 0 .. 3 : /\ 4 - j \in 1 .. 4 /\ (3 - j) + 1 = 4 - j
                          /\ 4 * (Fields - n) - (4 - j) = 4 * (Fields - 1 - n) + j
    BY <1>3
  <2>2. \A m \in 1 .. 4 : 4 - m \in 0 .. 3 /\ 4 - (4 - m) = m
    OBVIOUS
  <2> DEFINE K == {m \in 1 .. 4 : 4 * (Fields - n) - m \in ir.a}
  <2>3. K = {b + 1 : b \in cond}
    <3>1. ASSUME NEW m \in K PROVE m \in {b + 1 : b \in cond}
      <4>1. m \in 1 .. 4 /\ 4 - m \in 0 .. 3 /\ (3 - (4 - m)) + 1 = m
        OBVIOUS
      <4>2. 4 * (Fields - 1 - n) + (4 - m) \in ir.a
        <5>1. 4 * (Fields - n) - m = 4 * (Fields - 1 - n) + (4 - m)
          BY <1>3, <4>1
        <5> QED  BY <3>1, <5>1
      <4>3. 4 - m \in v
        BY <4>1, <4>2 DEF Nibble
      <4> QED  BY <4>1, <4>3
    <3>2. ASSUME NEW j \in v PROVE (3 - j) + 1 \in K
      <4>1. j \in 0 .. 3 /\ 4 * (Fields - 1 - n) + j \in ir.a
        BY DEF Nibble
      <4> QED  BY <2>1, <4>1
    <3> QED  BY <3>1, <3>2
  <2>4. ISA!Flag = Flag
    BY DEF ISA!Flag, Flag
  <2> HIDE DEF K, cond
  <2> QED  BY <2>3, <2>4 DEF K
<1>8. Flags(cr)' = (Flags(cr) \ ISA!FieldOf(n)) \cup {<<n, Flag[b + 1]>> : b \in cond}
  <2>1. cr' = (cr \ (4 * n .. 4 * n + 3)) \cup {4 * n + b : b \in cond}
    BY <1>2, <1>4, <1>6 DEF MtOCRF
  <2>2. Flags(cr)' = Flags((cr \ (4 * n .. 4 * n + 3)) \cup {4 * n + b : b \in cond})
    BY <2>1 DEF Flags, Flag
  <2> HIDE DEF cond
  <2> QED  BY <1>1, <1>3, <1>5, <2>2, FieldReplaced
<1>9. ISA!MoveToOneField(ir)
  <2> HIDE DEF cond, v
  <2> QED  BY <1>1, <1>2, <1>7, <1>8, Started DEF MtOCRF, Proceed, ISA!MoveToOneField
<1> QED  BY <1>1, <1>9 DEF ISA!Next, ISA!Execute, ISA!NoInstr, NoInstr

LEMMA RefinedSteps ==
  ASSUME TypeOK, Conforming, [Next]_vars
  PROVE  [ISA!Next]_(ISA!state)
<1>1. CASE UNCHANGED vars \/ Refused
  BY <1>1 DEF Refused, vars, ISA!state, Flags
<1>2. CASE Fetch
  BY <1>2 DEF Fetch, ISA!Next, ISA!Fetch, ISA!NoInstr, NoInstr, Flags
<1>3. CASE Execute
  <2>1. ir.op # "none" /\ ir' = NoInstr
    BY <1>3 DEF Execute, B, BC, BCLR, BCCTR, Cmp, Cmpl, Cmpi, Cmpli, CROp, MtSPR, MoveFrom, MtOCRF
  <2>2. Ready
    BY <2>1 DEF Ready, TypeOK, NoInstr
  <2> QED  BY <1>3, <2>1, <2>2, BranchSteps, CompareSteps, LogicSteps, MoveSteps, MoveToFieldSteps DEF Execute
<1> QED  BY <1>1, <1>2, <1>3 DEF Next

(* A program whose mtocrf and mtspr forms Conforming admits behaves as the   *)
(* architecture says: the branches of PowerProcessor.cpp with CTR stored      *)
(* before it is tested and LR read before it is written, its compares of      *)
(* sign-extended operands, and the moves between CR, LR, CTR and a register.  *)
THEOREM RefinementCorrect == Conforming => (Spec => RefinesISA)
<1> SUFFICES ASSUME Conforming PROVE Spec => RefinesISA
  OBVIOUS
<1>1. Init => ISA!Init
  BY DEF Init, ISA!Init, Flags, NoInstr, ISA!NoInstr
<1>2. TypeOK /\ [Next]_vars => [ISA!Next]_(ISA!state)
  BY RefinedSteps
<1> QED  BY <1>1, <1>2, TypeCorrect, PTL DEF Spec, RefinesISA, ISA!Spec
==============================================================================
