------------------------- MODULE GuestMemoryProofs --------------------------
(***************************************************************************)
(* Proofs about GuestMemory, for every page size, every list of mmap       *)
(* requests that satisfies MemoryAssumption and every set of accesses: the *)
(* type invariant, the layout of the host buffers (Contiguous), their      *)
(* ownership (OwnedOnce), and that GuestMemory implements FlatMemory.      *)
(***************************************************************************)
EXTENDS GuestMemory, SequenceTheorems, TLAPS

-----------------------------------------------------------------------------
(* Arithmetic of pages. *)

LEMMA Quotient ==
  ASSUME NEW a \in Nat
  PROVE  a = PageSize * (a \div PageSize) + (a % PageSize)
         /\ a \div PageSize \in Nat /\ a % PageSize \in 0 .. (PageSize - 1)
BY MemoryAssumption

LEMMA Remainder ==
  ASSUME NEW a \in Nat, NEW q \in Nat, NEW r \in 0 .. (PageSize - 1),
         a = PageSize * q + r
  PROVE  a % PageSize = r
BY MemoryAssumption

LEMMA Multiple ==
  ASSUME NEW a \in Nat, a % PageSize = 0
  PROVE  \E k \in Nat : a = PageSize * k
<1>1. a = PageSize * (a \div PageSize) + 0 /\ a \div PageSize \in Nat
  BY Quotient
<1>2. a = PageSize * (a \div PageSize)
  BY <1>1, MemoryAssumption
<1> QED
  BY <1>1, <1>2

LEMMA AlignedDiff ==
  ASSUME NEW a \in Nat, NEW b \in Nat, a <= b,
         a % PageSize = 0, b % PageSize = 0
  PROVE  (b - a) % PageSize = 0
<1>0. PICK x \in Nat, y \in Nat : a = PageSize * x /\ b = PageSize * y
  BY Multiple
<1>1. PageSize \in Nat \ {0}
  BY MemoryAssumption
<1>2. x <= y
  BY <1>0, <1>1
<1>3. y - x \in Nat /\ b - a = PageSize * (y - x) + 0
  BY <1>0, <1>1, <1>2
<1>4. b - a \in Nat /\ 0 \in 0 .. (PageSize - 1)
  BY MemoryAssumption
<1> QED
  BY <1>3, <1>4, Remainder

LEMMA AlignedSum ==
  ASSUME NEW a \in Nat, NEW b \in Nat,
         a % PageSize = 0, b % PageSize = 0
  PROVE  (a + b) % PageSize = 0
<1>0. PICK x \in Nat, y \in Nat : a = PageSize * x /\ b = PageSize * y
  BY Multiple
<1>1. PageSize \in Nat \ {0}
  BY MemoryAssumption
<1>2. x + y \in Nat /\ a + b = PageSize * (x + y) + 0
  BY <1>0, <1>1
<1>3. a + b \in Nat /\ 0 \in 0 .. (PageSize - 1)
  BY MemoryAssumption
<1> QED
  BY <1>2, <1>3, Remainder

LEMMA AlignedGap ==
  ASSUME NEW a \in Nat, NEW b \in Nat, a < b,
         a % PageSize = 0, b % PageSize = 0
  PROVE  a + PageSize <= b
<1>0. PICK x \in Nat, y \in Nat : a = PageSize * x /\ b = PageSize * y
  BY Multiple
<1>1. PageSize \in Nat \ {0}
  BY MemoryAssumption
<1>2. x < y
  BY <1>0, <1>1
<1> QED
  BY <1>0, <1>1, <1>2

LEMMA PageFacts ==
  ASSUME NEW a \in Nat
  PROVE  /\ Page(a) \in Nat /\ Page(a) % PageSize = 0
         /\ Offset(a) \in 0 .. (PageSize - 1) /\ a = Page(a) + Offset(a)
<1>1. PICK q \in Nat : a = PageSize * q + Offset(a)
  BY Quotient DEF Offset
<1>2. Offset(a) \in 0 .. (PageSize - 1)
  BY Quotient DEF Offset
<1>3. PageSize \in Nat \ {0} /\ 0 \in 0 .. (PageSize - 1)
  BY MemoryAssumption
<1>4. Page(a) = PageSize * q + 0 /\ Page(a) \in Nat
  BY <1>1, <1>2, <1>3 DEF Page
<1>5. Page(a) % PageSize = 0
  BY <1>3, <1>4, Remainder
<1> QED
  BY <1>1, <1>2, <1>3, <1>4, <1>5

LEMMA PageOfSum ==
  ASSUME NEW p \in Nat, p % PageSize = 0, NEW i \in 0 .. (PageSize - 1)
  PROVE  Page(p + i) = p /\ Offset(p + i) = i
<1>1. PICK q \in Nat : p = PageSize * q
  BY Multiple
<1>2. p + i \in Nat /\ p + i = PageSize * q + i
  BY <1>1, MemoryAssumption
<1>3. Offset(p + i) = i
  BY <1>1, <1>2, Remainder DEF Offset
<1> QED
  BY <1>3, MemoryAssumption DEF Page

LEMMA CallFacts ==
  ASSUME NEW c \in Call
  PROVE  /\ c \in 1 .. Len(MmapCalls)
         /\ StartOf(c) \in Nat /\ SizeOf(c) \in Nat \ {0}
         /\ StartOf(c) % PageSize = 0 /\ SizeOf(c) % PageSize = 0
<1>1. MmapCalls \in Seq([start : Nat, size : Nat \ {0}])
  BY MemoryAssumption
<1>2. c \in 1 .. Len(MmapCalls)
  BY <1>1, LenProperties DEF Call
<1>3. MmapCalls[c] \in [start : Nat, size : Nat \ {0}]
  BY <1>1, <1>2, ElementOfSeq
<1>4. StartOf(c) \in Nat /\ SizeOf(c) \in Nat \ {0}
  BY <1>3 DEF StartOf, SizeOf
<1> QED
  BY <1>2, <1>4, MemoryAssumption

(* The pages of a request are those of the addresses of its extent. *)
LEMMA PagesCover ==
  ASSUME NEW c \in Call, NEW a \in Nat
  PROVE  a \in Extent(c) <=> Page(a) \in PagesOf(c)
<1> DEFINE s == StartOf(c)
           z == SizeOf(c)
           p == Page(a)
<1>1. s \in Nat /\ z \in Nat \ {0} /\ s % PageSize = 0 /\ z % PageSize = 0
  BY CallFacts
<1>2. p \in Nat /\ p % PageSize = 0 /\ Offset(a) \in 0 .. (PageSize - 1) /\ a = p + Offset(a)
  BY PageFacts
<1>3. PageSize \in Nat \ {0}
  BY MemoryAssumption
<1>4. ASSUME a \in Extent(c) PROVE p \in PagesOf(c)
  <2>1. a \in Nat /\ s <= a /\ a < s + z
    BY <1>4, <1>1 DEF Extent
  <2>2. s <= p
    <3>1. p < s => p + PageSize <= s
      BY <1>1, <1>2, AlignedGap
    <3> QED
      BY <3>1, <2>1, <1>1, <1>2, <1>3
  <2>3. (p - s) % PageSize = 0
    BY <2>2, <1>1, <1>2, AlignedDiff
  <2>4. p - s \in 0 .. (z - 1) /\ p = s + (p - s)
    BY <2>1, <2>2, <1>1, <1>2, <1>3
  <2> QED
    BY <2>3, <2>4 DEF PagesOf
<1>5. ASSUME p \in PagesOf(c) PROVE a \in Extent(c)
  <2>1. PICK i \in 0 .. (z - 1) : p = s + i /\ (p - s) % PageSize = 0
    BY <1>5 DEF PagesOf
  <2>2. i \in Nat /\ i % PageSize = 0 /\ i < z
    BY <2>1, <1>1
  <2>3. i + PageSize <= z
    BY <2>2, <1>1, AlignedGap
  <2> QED
    BY <2>1, <2>3, <1>1, <1>2, <1>3 DEF Extent
<1> QED
  BY <1>4, <1>5

LEMMA PagesOfFacts ==
  ASSUME NEW c \in Call
  PROVE  /\ PagesOf(c) \subseteq Extent(c) /\ Extent(c) \subseteq Nat
         /\ StartOf(c) \in PagesOf(c) /\ Page(StartOf(c)) = StartOf(c)
         /\ \A p \in PagesOf(c) : p % PageSize = 0
<1> DEFINE s == StartOf(c)
           z == SizeOf(c)
<1>1. s \in Nat /\ z \in Nat \ {0} /\ s % PageSize = 0
  BY CallFacts
<1>2. 0 % PageSize = 0 /\ 0 \in 0 .. (PageSize - 1)
  BY MemoryAssumption
<1>3. Page(s) = s
  BY <1>1, MemoryAssumption DEF Page, Offset
<1>4. PagesOf(c) \subseteq Extent(c) /\ Extent(c) \subseteq Nat
  BY <1>1 DEF PagesOf, Extent
<1>5. s \in PagesOf(c)
  BY <1>1, <1>2 DEF PagesOf
<1>6. ASSUME NEW p \in PagesOf(c) PROVE p % PageSize = 0
  <2>1. PICK i \in 0 .. (z - 1) : p = s + i /\ (p - s) % PageSize = 0
    BY DEF PagesOf
  <2>2. i \in Nat /\ i % PageSize = 0
    BY <2>1, <1>1
  <2> QED
    BY <2>1, <2>2, <1>1, AlignedSum
<1> QED
  BY <1>3, <1>4, <1>5, <1>6

-----------------------------------------------------------------------------
(* Byte order. *)

(* swapBytes, which the code spells out per width with shifts and, for 64   *)
(* bits, as two swapped halves, reverses the lanes of every word.           *)
LEMMA SwapReverses ==
  ASSUME NEW n \in Widths, NEW w, NEW i \in 0 .. (n - 1)
  PROVE  SwapBytes(n, w)[i] = IF n = 1 THEN w[i] ELSE w[n - 1 - i]
<1>1. CASE n = 1
  BY <1>1 DEF SwapBytes
<1>2. CASE n = 2
  <2>1. i = 0 \/ i = 1
    BY <1>2
  <2> QED
    BY <1>2, <2>1 DEF SwapBytes, Swap16
<1>3. CASE n = 4
  <2>1. i = 0 \/ i = 1 \/ i = 2 \/ i = 3
    BY <1>3
  <2> QED
    BY <1>3, <2>1 DEF SwapBytes, Swap32
<1>4. CASE n = 8
  <2>1. i \in 0 .. 7
    BY <1>4
  <2>2. SwapBytes(n, w)[i] = IF i >= 4 THEN Swap32(LowHalf(w))[i - 4]
                                       ELSE Swap32(HighHalf(w))[i]
    BY <1>4, <2>1 DEF SwapBytes, Swap64
  <2>3. CASE i >= 4
    <3>1. i = 4 \/ i = 5 \/ i = 6 \/ i = 7
      BY <2>1, <2>3
    <3>2. SwapBytes(n, w)[i] = Swap32(LowHalf(w))[i - 4]
      BY <2>2, <2>3
    <3> QED
      BY <1>4, <3>1, <3>2 DEF Swap32, LowHalf
  <2>4. CASE i < 4
    <3>1. i = 0 \/ i = 1 \/ i = 2 \/ i = 3
      BY <2>1, <2>4
    <3>2. SwapBytes(n, w)[i] = Swap32(HighHalf(w))[i]
      BY <2>1, <2>2, <2>4
    <3> QED
      BY <1>4, <3>1, <3>2 DEF Swap32, HighHalf
  <2> QED
    BY <2>1, <2>3, <2>4
<1> QED
  BY <1>1, <1>2, <1>3, <1>4 DEF Widths

LEMMA SwapDomain ==
  ASSUME NEW n \in Widths, NEW w, w = [i \in 0 .. (n - 1) |-> w[i]]
  PROVE  SwapBytes(n, w) = [i \in 0 .. (n - 1) |-> SwapBytes(n, w)[i]]
<1>1. CASE n = 1
  BY <1>1 DEF SwapBytes
<1>2. CASE n = 2
  <2>1. SwapBytes(n, w) = Swap16(w)
    BY <1>2 DEF SwapBytes
  <2>2. Swap16(w) = [i \in 0 .. 1 |-> Swap16(w)[i]]
    BY DEF Swap16
  <2> QED
    BY <1>2, <2>1, <2>2
<1>3. CASE n = 4
  <2>1. SwapBytes(n, w) = Swap32(w)
    BY <1>3 DEF SwapBytes
  <2>2. Swap32(w) = [i \in 0 .. 3 |-> Swap32(w)[i]]
    BY DEF Swap32
  <2> QED
    BY <1>3, <2>1, <2>2
<1>4. CASE n = 8
  <2>1. SwapBytes(n, w) = Swap64(w)
    BY <1>4 DEF SwapBytes
  <2>2. Swap64(w) = [i \in 0 .. 7 |-> Swap64(w)[i]]
    BY DEF Swap64
  <2> QED
    BY <1>4, <2>1, <2>2
<1> QED
  BY <1>1, <1>2, <1>3, <1>4 DEF Widths

-----------------------------------------------------------------------------
(* The inductive invariant. *)

(* A buffer is filed in freeMemoryMap under the start of its request. *)
FiledByStart ==
  /\ \A s \in DOMAIN freeMap : s = StartOf(freeMap[s])
  /\ \A b \in DOMAIN heap : /\ StartOf(b) \in DOMAIN freeMap
                             /\ freeMap[StartOf(b)] = b

IInv == TypeOK /\ Contiguous /\ FiledByStart

LEMMA InitIInv == Init => IInv
BY MemoryAssumption, LenProperties
   DEF Init, IInv, TypeOK, Contiguous, FiledByStart

(* The typed state in terms of requests: what the other proofs use. *)
LEMMA HeapFacts ==
  ASSUME TypeOK, NEW b \in DOMAIN heap
  PROVE  b \in Call /\ b < next /\ next \in Nat
         /\ heap[b] \in [0 .. (SizeOf(b) - 1) -> Byte]
         /\ DOMAIN heap[b] = 0 .. (SizeOf(b) - 1)
<1>1. DOMAIN MmapCalls = 1 .. Len(MmapCalls) /\ Len(MmapCalls) \in Nat
  BY MemoryAssumption, LenProperties
<1>2. b \in 1 .. (next - 1) /\ next \in 1 .. (Len(MmapCalls) + 1)
  BY DEF TypeOK
<1> QED
  BY <1>1, <1>2 DEF Call, TypeOK

(* A request whose start is unmapped meets no earlier region: only a later *)
(* start inside an earlier extent is possible, and that start is mapped.   *)
LEMMA FreshIsDisjoint ==
  ASSUME IInv, next \in Call, Page(StartOf(next)) \notin DOMAIN pageMap,
         NEW b \in DOMAIN heap
  PROVE  Extent(next) \cap Extent(b) = {}
<1>1. b \in Call /\ b < next
  BY HeapFacts DEF IInv
<1>2. CASE StartOf(next) \in Extent(b)
  <2>1. StartOf(next) \in Nat
    BY CallFacts
  <2>2. Page(StartOf(next)) \in PagesOf(b)
    BY <1>1, <1>2, <2>1, PagesCover
  <2> QED
    BY <2>2 DEF IInv, Contiguous
<1>3. CASE Extent(b) \cap Extent(next) = {}
  BY <1>3
<1> QED
  BY <1>1, <1>2, <1>3, MemoryAssumption

LEMMA MmapIInv ==
  ASSUME IInv, Mmap
  PROVE  IInv'
<1> DEFINE c == next
           s == Page(StartOf(c))
<1> USE DEF IInv
<1>1. c \in Call /\ next' = next + 1 /\ running' = running
  BY DEF Mmap
<1>2. c \in 1 .. Len(MmapCalls) /\ s = StartOf(c) /\ s \in Nat
      /\ SizeOf(c) \in Nat \ {0} /\ s \in PagesOf(c)
      /\ PagesOf(c) \subseteq Extent(c) /\ Extent(c) \subseteq Nat
  BY <1>1, CallFacts, PagesOfFacts
<1>3. Len(MmapCalls) \in Nat
  BY MemoryAssumption, LenProperties
<1>4. CASE s \in DOMAIN pageMap
  <2>1. UNCHANGED <<pageMap, freeMap, heap>>
    BY <1>4 DEF Mmap, MapPage, Collides
  <2> QED
    BY <1>1, <1>2, <1>3, <2>1 DEF TypeOK, Contiguous, FiledByStart
<1>5. CASE s \notin DOMAIN pageMap
  <2>1. /\ heap' = [b \in DOMAIN heap \cup {c} |->
                      IF b = c THEN [o \in 0 .. (SizeOf(c) - 1) |-> Zero]
                               ELSE heap[b]]
        /\ freeMap' = [p \in DOMAIN freeMap \cup {s} |->
                         IF p = s THEN c ELSE freeMap[p]]
        /\ pageMap' = [p \in DOMAIN pageMap \cup PagesOf(c) |->
                         IF p \in PagesOf(c) THEN [buf |-> c, off |-> p - s]
                                             ELSE pageMap[p]]
    BY <1>5 DEF Mmap, MapPage, Collides, ZeroedBuffer, FiledUnder
  <2>2. c \notin DOMAIN heap /\ DOMAIN heap' = DOMAIN heap \cup {c}
        /\ DOMAIN heap' \subseteq 1 .. (next' - 1)
    BY <1>1, <1>2, <1>3, <2>1 DEF TypeOK
  <2>3. \A b \in DOMAIN heap : PagesOf(b) \cap PagesOf(c) = {}
    <3> TAKE b \in DOMAIN heap
    <3>1. b \in Call
      BY HeapFacts
    <3> QED
      BY <1>1, <1>2, <1>5, <3>1, FreshIsDisjoint, PagesOfFacts
  <2>4. TypeOK'
    <3>1. next' \in 1 .. (Len(MmapCalls) + 1)
      BY <1>1, <1>2, <1>3
    <3>2. \A b \in DOMAIN heap' : heap'[b] \in [0 .. (SizeOf(b) - 1) -> Byte]
      BY <2>1, MemoryAssumption DEF TypeOK
    <3>3. DOMAIN pageMap' \subseteq Nat
      BY <1>2, <2>1 DEF TypeOK
    <3>4. pageMap' \in [DOMAIN pageMap' -> [buf : DOMAIN heap', off : Nat]]
      <4> SUFFICES ASSUME NEW p \in DOMAIN pageMap'
                   PROVE  pageMap'[p] \in [buf : DOMAIN heap', off : Nat]
        BY <2>1
      <4>1. CASE p \in PagesOf(c)
        <5>1. p - s \in Nat
          BY <4>1, <1>2 DEF Extent
        <5> QED
          BY <2>1, <2>2, <4>1, <5>1
      <4>2. CASE p \notin PagesOf(c)
        BY <2>1, <2>2, <4>2 DEF TypeOK
      <4> QED
        BY <4>1, <4>2
    <3>5. freeMap' \in [DOMAIN freeMap' -> DOMAIN heap']
      BY <2>1, <2>2 DEF TypeOK
    <3> QED
      BY <1>1, <2>2, <3>1, <3>2, <3>3, <3>4, <3>5 DEF TypeOK
  <2>5. Contiguous'
    <3>1. ASSUME NEW p \in DOMAIN pageMap'
          PROVE  /\ p \in PagesOf(pageMap'[p].buf)
                 /\ pageMap'[p].off = p - StartOf(pageMap'[p].buf)
      <4>1. CASE p \in PagesOf(c)
        BY <1>2, <2>1, <4>1
      <4>2. CASE p \notin PagesOf(c)
        BY <2>1, <4>2 DEF Contiguous
      <4> QED
        BY <4>1, <4>2
    <3>2. ASSUME NEW b \in DOMAIN heap', NEW p \in PagesOf(b)
          PROVE  p \in DOMAIN pageMap' /\ pageMap'[p].buf = b
      <4>1. CASE b = c
        BY <2>1, <4>1
      <4>2. CASE b # c
        BY <2>1, <2>2, <2>3, <4>2 DEF Contiguous
      <4> QED
        BY <4>1, <4>2
    <3> QED
      BY <3>1, <3>2 DEF Contiguous
  <2>6. FiledByStart'
    <3>1. s \notin DOMAIN freeMap
      <4> SUFFICES ASSUME s \in DOMAIN freeMap PROVE FALSE
        OBVIOUS
      <4>1. freeMap[s] \in DOMAIN heap /\ s = StartOf(freeMap[s])
        BY DEF TypeOK, FiledByStart
      <4>2. s \in PagesOf(freeMap[s])
        BY <4>1, HeapFacts, PagesOfFacts
      <4> QED
        BY <1>5, <4>1, <4>2 DEF Contiguous
    <3> QED
      BY <1>2, <2>1, <2>2, <3>1 DEF FiledByStart
  <2> QED
    BY <2>4, <2>5, <2>6
<1> QED
  BY <1>4, <1>5

(* Translation, in terms of requests: getPtr finds a pointer exactly for the *)
(* addresses of the extents that own a buffer, and its offset in the buffer  *)
(* is the address's distance from the start of the extent.                   *)
LEMMA Translation ==
  ASSUME IInv, NEW a \in Nat
  PROVE  /\ Mapped(a) => /\ Buf(a) \in DOMAIN heap /\ Buf(a) \in Call
                         /\ a \in Extent(Buf(a))
                         /\ HostOff(a) = a - StartOf(Buf(a))
         /\ \A b \in DOMAIN heap : a \in Extent(b) => Mapped(a) /\ Buf(a) = b
<1>1. Page(a) \in Nat /\ Offset(a) \in 0 .. (PageSize - 1) /\ a = Page(a) + Offset(a)
  BY PageFacts
<1>2. PageSize \in Nat \ {0}
  BY MemoryAssumption
<1>3. ASSUME Mapped(a)
      PROVE  /\ Buf(a) \in DOMAIN heap /\ Buf(a) \in Call
             /\ a \in Extent(Buf(a)) /\ HostOff(a) = a - StartOf(Buf(a))
  <2>1. Buf(a) \in DOMAIN heap
    BY <1>3 DEF IInv, TypeOK, Mapped, Buf
  <2>2. Buf(a) \in Call
    BY <2>1, HeapFacts DEF IInv
  <2>3. Page(a) \in PagesOf(Buf(a)) /\ pageMap[Page(a)].off = Page(a) - StartOf(Buf(a))
    BY <1>3 DEF IInv, Contiguous, Mapped, Buf
  <2>4. a \in Extent(Buf(a))
    BY <2>2, <2>3, PagesCover
  <2>5. StartOf(Buf(a)) \in Nat
    BY <2>2, CallFacts
  <2>6. HostOff(a) = (Page(a) - StartOf(Buf(a))) + Offset(a)
    BY <2>3 DEF HostOff
  <2>7. HostOff(a) = a - StartOf(Buf(a))
    BY <1>1, <1>2, <2>5, <2>6
  <2> QED
    BY <2>1, <2>2, <2>4, <2>7
<1>4. ASSUME NEW b \in DOMAIN heap, a \in Extent(b)
      PROVE  Mapped(a) /\ Buf(a) = b
  <2>1. b \in Call
    BY HeapFacts DEF IInv
  <2>2. Page(a) \in PagesOf(b)
    BY <1>4, <2>1, PagesCover
  <2> QED
    BY <2>2 DEF IInv, Contiguous, Mapped, Buf
<1> QED
  BY <1>3, <1>4

LEMMA WordFacts ==
  ASSUME NEW n \in Widths, NEW w \in Words, DOMAIN w = 0 .. (n - 1)
  PROVE  /\ \A i \in 0 .. (n - 1) : w[i] \in Byte
         /\ \A i \in 0 .. (n - 1) : SwapBytes(n, w)[i] \in Byte
<1>1. PICK m \in Widths : w \in [0 .. (m - 1) -> Byte]
  BY MemoryAssumption
<1>2. \A i \in 0 .. (n - 1) : w[i] \in Byte
  BY <1>1
<1>3. ASSUME NEW i \in 0 .. (n - 1) PROVE SwapBytes(n, w)[i] \in Byte
  <2>1. n - 1 - i \in 0 .. (n - 1)
    BY DEF Widths
  <2> QED
    BY <1>2, <2>1, SwapReverses
<1> QED
  BY <1>2, <1>3

(* A step that leaves the page map and the filing alone and keeps every *)
(* buffer's length preserves the invariant.                             *)
LEMMA SameLayout ==
  ASSUME IInv, UNCHANGED <<pageMap, freeMap, next>>, running' \in BOOLEAN,
         DOMAIN heap' = DOMAIN heap,
         \A b \in DOMAIN heap : heap'[b] \in [0 .. (SizeOf(b) - 1) -> Byte]
  PROVE  IInv'
BY DEF IInv, TypeOK, Contiguous, FiledByStart

LEMMA WriteIInv ==
  ASSUME IInv, running, NEW a \in Nat, NEW n \in Widths, NEW w \in Words,
         DOMAIN w = 0 .. (n - 1), Write(a, n, w)
  PROVE  IInv'
<1>1. UNCHANGED <<pageMap, freeMap, next>> /\ running' \in BOOLEAN
  BY DEF Write, IInv, TypeOK
<1>2. CASE UNCHANGED heap
  BY <1>1, <1>2, SameLayout DEF IInv, TypeOK
<1>3. CASE /\ Mapped(a) /\ InBuffer(a, n)
           /\ heap' = [heap EXCEPT ![Buf(a)] =
                 [o \in DOMAIN heap[Buf(a)] |->
                    IF o \in HostOff(a) .. (HostOff(a) + n - 1)
                      THEN SwapBytes(n, w)[o - HostOff(a)]
                      ELSE heap[Buf(a)][o]]]
  <2>1. Buf(a) \in DOMAIN heap /\ Buf(a) \in Call /\ HostOff(a) = a - StartOf(Buf(a))
    BY <1>3, Translation
  <2>2. HostOff(a) \in Int
    BY <2>1, CallFacts
  <2>3. ASSUME NEW o \in HostOff(a) .. (HostOff(a) + n - 1)
        PROVE  SwapBytes(n, w)[o - HostOff(a)] \in Byte
    <3>1. o - HostOff(a) \in 0 .. (n - 1)
      BY <2>2 DEF Widths
    <3> QED
      BY <3>1, WordFacts
  <2>4. \A b \in DOMAIN heap : heap[b] \in [0 .. (SizeOf(b) - 1) -> Byte]
    BY DEF IInv, TypeOK
  <2>5. DOMAIN heap' = DOMAIN heap
        /\ \A b \in DOMAIN heap : heap'[b] \in [0 .. (SizeOf(b) - 1) -> Byte]
    BY <1>3, <2>1, <2>3, <2>4
  <2> QED
    BY <1>1, <2>5, SameLayout
<1> QED
  BY <1>2, <1>3 DEF Write

LEMMA PokedType ==
  ASSUME IInv, NEW a \in Nat, NEW n \in Widths, NEW w \in Words,
         DOMAIN w = 0 .. (n - 1), heap' = Poked(a, w, Reached(a, n))
  PROVE  DOMAIN heap' = DOMAIN heap
         /\ \A b \in DOMAIN heap : heap'[b] \in [0 .. (SizeOf(b) - 1) -> Byte]
<1>1. \A b \in DOMAIN heap : heap[b] \in [0 .. (SizeOf(b) - 1) -> Byte]
  BY DEF IInv, TypeOK
<1>2. Reached(a, n) \subseteq 0 .. (n - 1)
  BY DEF Reached
<1>3. \A i \in Reached(a, n) : w[i] \in Byte
  BY <1>2, WordFacts
<1>4. DOMAIN heap' = DOMAIN heap
  BY DEF Poked
<1>5. ASSUME NEW b \in DOMAIN heap, NEW o \in DOMAIN heap[b]
      PROVE  heap'[b][o] \in Byte
  <2> DEFINE H(i) == Buf(a + i) = b /\ HostOff(a + i) = o
  <2>1. heap'[b][o] = IF \E i \in Reached(a, n) : H(i)
                        THEN w[CHOOSE i \in Reached(a, n) : H(i)]
                        ELSE heap[b][o]
    BY DEF Poked
  <2>2. CASE \E i \in Reached(a, n) : H(i)
    <3>1. (CHOOSE i \in Reached(a, n) : H(i)) \in Reached(a, n)
      BY <2>2
    <3> QED
      BY <1>3, <2>1, <2>2, <3>1
  <2>3. CASE ~ \E i \in Reached(a, n) : H(i)
    BY <1>1, <2>1, <2>3
  <2> QED
    BY <2>2, <2>3
<1>6. ASSUME NEW b \in DOMAIN heap
      PROVE  heap'[b] \in [0 .. (SizeOf(b) - 1) -> Byte]
  <2>1. heap'[b] = [o \in DOMAIN heap[b] |-> heap'[b][o]]
    BY DEF Poked
  <2>2. DOMAIN heap[b] = 0 .. (SizeOf(b) - 1)
    BY <1>1
  <2> QED
    BY <1>5, <2>1, <2>2
<1> QED
  BY <1>4, <1>6

LEMMA AccessFacts ==
  ASSUME NEW acc \in Accesses
  PROVE  acc[1] \in Nat /\ acc[2] \in Widths
BY MemoryAssumption

LEMMA NextIInv == IInv /\ [Next]_vars => IInv'
<1> SUFFICES ASSUME IInv, [Next]_vars PROVE IInv'
  OBVIOUS
<1>1. CASE Mmap
  BY <1>1, MmapIInv
<1>2. ASSUME NEW acc \in Accesses, running,
             \/ Read(acc[1], acc[2])
             \/ ReadBytes(acc[1], acc[2])
      PROVE  IInv'
  <2>1. UNCHANGED <<pageMap, freeMap, heap, next>> /\ running' \in BOOLEAN
    BY <1>2 DEF Read, ReadBytes, IInv, TypeOK
  <2> QED
    BY <2>1, SameLayout DEF IInv, TypeOK
<1>3. ASSUME NEW acc \in Accesses, running, NEW w \in Words,
             DOMAIN w = 0 .. (acc[2] - 1),
             \/ Write(acc[1], acc[2], w)
             \/ WriteBytes(acc[1], acc[2], w)
             \/ CopyMemory(acc[1], acc[2], w)
      PROVE  IInv'
  <2>1. acc[1] \in Nat /\ acc[2] \in Widths
    BY AccessFacts
  <2>2. CASE Write(acc[1], acc[2], w)
    BY <1>3, <2>1, <2>2, WriteIInv
  <2>3. CASE WriteBytes(acc[1], acc[2], w) \/ CopyMemory(acc[1], acc[2], w)
    <3>1. UNCHANGED <<pageMap, freeMap, next>> /\ running' \in BOOLEAN
          /\ heap' = Poked(acc[1], w, Reached(acc[1], acc[2]))
      BY <1>3, <2>3 DEF WriteBytes, CopyMemory
    <3>2. /\ DOMAIN heap' = DOMAIN heap
          /\ \A b \in DOMAIN heap : heap'[b] \in [0 .. (SizeOf(b) - 1) -> Byte]
      BY <1>3, <2>1, <3>1, PokedType
    <3> QED
      BY <3>1, <3>2, SameLayout
  <2> QED
    BY <1>3, <2>2, <2>3
<1>4. CASE UNCHANGED vars
  BY <1>4, SameLayout DEF vars, IInv, TypeOK
<1> QED
  BY <1>1, <1>2, <1>3, <1>4 DEF Next

(* The inductive invariant holds of every reachable state. *)
THEOREM Invariance == Spec => []IInv
BY InitIInv, NextIInv, PTL DEF Spec

(* TypeOK for every page size, request list and access set. *)
THEOREM TypeCorrect == Spec => []TypeOK
BY Invariance, PTL DEF IInv

(* Contiguous: no history of mmap requests breaks a region's host layout. *)
THEOREM LayoutCorrect == Spec => []Contiguous
BY Invariance, PTL DEF IInv

(* OwnedOnce: freeMemoryMap never loses a buffer nor files one twice. *)
THEOREM OwnershipCorrect == Spec => []OwnedOnce
<1>1. IInv => OwnedOnce
  BY DEF IInv, FiledByStart, OwnedOnce
<1> QED
  BY <1>1, Invariance, PTL

-----------------------------------------------------------------------------
(* GuestMemory implements FlatMemory. *)

LEMMA UnionOfPages ==
  ASSUME NEW D, \A p \in D : p \in Nat /\ p % PageSize = 0, NEW a
  PROVE  a \in UNION {{p + i : i \in 0 .. (PageSize - 1)} : p \in D}
           <=> a \in Nat /\ Page(a) \in D
<1>1. PageSize \in Nat \ {0}
  BY MemoryAssumption
<1>2. ASSUME NEW p \in D, NEW i \in 0 .. (PageSize - 1), a = p + i
      PROVE  a \in Nat /\ Page(a) \in D
  BY <1>1, <1>2, PageOfSum
<1>3. ASSUME a \in Nat, Page(a) \in D
      PROVE  \E p \in D : \E i \in 0 .. (PageSize - 1) : a = p + i
  BY <1>3, PageFacts
<1> QED
  BY <1>2, <1>3

LEMMA MappedAddrsAre ==
  ASSUME IInv
  PROVE  \A a : a \in MappedAddrs <=> a \in Nat /\ Mapped(a)
<1>1. \A p \in DOMAIN pageMap : p \in Nat /\ p % PageSize = 0
  <2> TAKE p \in DOMAIN pageMap
  <2>1. pageMap[p].buf \in DOMAIN heap /\ p \in PagesOf(pageMap[p].buf)
    BY DEF IInv, TypeOK, Contiguous
  <2> QED
    BY <2>1, HeapFacts, PagesOfFacts DEF IInv
<1> QED
  BY <1>1, UnionOfPages DEF MappedAddrs, Mapped

(* An operand stays in its buffer exactly when its bytes lie in the extent *)
(* of one request, and then the bytes are adjacent on the host.            *)
LEMMA InBufferIsInside ==
  ASSUME IInv, NEW a \in Nat, NEW n \in Widths, Mapped(a)
  PROVE  /\ InBuffer(a, n) <=> Flat!Inside(a, n)
         /\ InBuffer(a, n) =>
              \A b \in a .. (a + n - 1) :
                 /\ b \in MappedAddrs /\ Buf(b) = Buf(a)
                 /\ HostOff(b) = HostOff(a) + (b - a)
                 /\ HostOff(b) \in DOMAIN heap[Buf(a)]
<1> DEFINE r == Buf(a)
<1>1. r \in DOMAIN heap /\ r \in Call /\ a \in Extent(r) /\ HostOff(a) = a - StartOf(r)
  BY Translation
<1>2. StartOf(r) \in Nat /\ SizeOf(r) \in Nat /\ n \in Nat /\ n >= 1
  BY <1>1, CallFacts DEF Widths
<1>3. DOMAIN heap[r] = 0 .. (SizeOf(r) - 1)
  BY <1>1, HeapFacts DEF IInv
<1>4. InBuffer(a, n) <=> a + n - 1 \in Extent(r)
  BY <1>1, <1>2, <1>3 DEF InBuffer, Extent
<1>5. ASSUME InBuffer(a, n), NEW b \in a .. (a + n - 1)
      PROVE  /\ b \in MappedAddrs /\ Buf(b) = r /\ HostOff(b) = HostOff(a) + (b - a)
             /\ HostOff(b) \in DOMAIN heap[r]
  <2>1. b \in Nat /\ b \in Extent(r)
    BY <1>1, <1>2, <1>4, <1>5 DEF Extent
  <2>2. Mapped(b) /\ Buf(b) = r
    BY <1>1, <2>1, Translation
  <2>3. HostOff(b) = b - StartOf(r)
    BY <2>1, <2>2, Translation
  <2> QED
    BY <1>1, <1>2, <1>3, <2>1, <2>2, <2>3, MappedAddrsAre DEF Extent
<1>6. ASSUME InBuffer(a, n) PROVE Flat!Inside(a, n)
  BY <1>1, <1>5, <1>6 DEF Flat!Inside, FlatMem, FlatTag, Call
<1>7. ASSUME Flat!Inside(a, n) PROVE InBuffer(a, n)
  <2>1. PICK q \in DOMAIN MmapCalls :
          \A b \in a .. (a + n - 1) : b \in MappedAddrs /\ FlatTag[b] = q
    BY <1>7 DEF Flat!Inside, FlatMem
  <2>2. a \in a .. (a + n - 1) /\ a + n - 1 \in a .. (a + n - 1) /\ a + n - 1 \in Nat
    BY <1>2
  <2>3. Buf(a) = q /\ Buf(a + n - 1) = q /\ Mapped(a + n - 1)
    BY <2>1, <2>2, MappedAddrsAre DEF FlatTag
  <2>4. a + n - 1 \in Extent(r)
    BY <2>2, <2>3, Translation
  <2> QED
    BY <1>4, <2>4
<1> QED
  BY <1>5, <1>6, <1>7

LEMMA InitRefines == Init => Flat!Init
<1> SUFFICES ASSUME Init PROVE Flat!Init
  OBVIOUS
<1>1. DOMAIN pageMap = {}
  BY DEF Init
<1>2. MappedAddrs = {}
  BY <1>1 DEF MappedAddrs
<1> QED
  BY <1>2 DEF Init, Flat!Init, FlatMem, FlatTag, Done, Flat!Done

LEMMA MmapRefines ==
  ASSUME IInv, running, Mmap
  PROVE  Flat!Next
<1> DEFINE c == next
           s == StartOf(c)
<1>1. c \in Call /\ MapPage(c, Page(s)) /\ running' = running
  BY DEF Mmap
<1>2. s \in Nat /\ SizeOf(c) \in Nat \ {0} /\ Page(s) = s /\ s \in PagesOf(c)
      /\ \A p \in PagesOf(c) : p \in Nat /\ p % PageSize = 0
  BY <1>1, CallFacts, PagesOfFacts
<1>3. CASE s \in DOMAIN pageMap
  <2>1. UNCHANGED <<pageMap, heap>> /\ ret' = Failed
    BY <1>1, <1>2, <1>3 DEF MapPage, Collides
  <2>2. s \in MappedAddrs
    BY <1>2, <1>3, MappedAddrsAre DEF Mapped
  <2>3. FlatMem' = FlatMem /\ FlatTag' = FlatTag
    BY <2>1 DEF FlatMem, FlatTag, MappedAddrs, Buf, HostOff
  <2>4. Flat!Map(c)
    BY <1>1, <2>1, <2>2, <2>3 DEF Flat!Map, FlatMem, StartOf, Failed, Flat!Failed
  <2> QED
    BY <1>1, <2>4 DEF Flat!Next, Call
<1>4. CASE s \notin DOMAIN pageMap
  <2>1. /\ heap' = [b \in DOMAIN heap \cup {c} |->
                      IF b = c THEN [o \in 0 .. (SizeOf(c) - 1) |-> Zero]
                               ELSE heap[b]]
        /\ pageMap' = [p \in DOMAIN pageMap \cup PagesOf(c) |->
                         IF p \in PagesOf(c) THEN [buf |-> c, off |-> p - s]
                                             ELSE pageMap[p]]
        /\ ret' = Done
    BY <1>1, <1>2, <1>4 DEF MapPage, Collides, ZeroedBuffer, FiledUnder
  <2>2. Extent(c) \cap MappedAddrs = {}
    <3> SUFFICES ASSUME NEW a \in Extent(c), a \in MappedAddrs PROVE FALSE
      OBVIOUS
    <3>1. a \in Nat /\ Mapped(a)
      BY MappedAddrsAre
    <3>2. Buf(a) \in DOMAIN heap /\ a \in Extent(Buf(a))
      BY <3>1, Translation
    <3> QED
      BY <1>1, <1>2, <1>4, <3>2, FreshIsDisjoint
  <2>3. \A p \in DOMAIN pageMap' : p \in Nat /\ p % PageSize = 0
    <3> TAKE p \in DOMAIN pageMap'
    <3>1. CASE p \in PagesOf(c)
      BY <1>2, <3>1
    <3>2. CASE p \in DOMAIN pageMap
      <4>1. pageMap[p].buf \in DOMAIN heap /\ p \in PagesOf(pageMap[p].buf)
        BY <3>2 DEF IInv, TypeOK, Contiguous
      <4> QED
        BY <4>1, HeapFacts, PagesOfFacts DEF IInv
    <3> QED
      BY <2>1, <3>1, <3>2
  <2>4. \A a : a \in MappedAddrs' <=> a \in Nat /\ Page(a) \in DOMAIN pageMap'
    BY <2>3, UnionOfPages DEF MappedAddrs
  <2>5. \A a \in Nat : Page(a) \in PagesOf(c) <=> a \in Extent(c)
    BY <1>1, PagesCover
  <2>6. Extent(c) \subseteq Nat
    BY <1>2 DEF Extent
  <2>7. MappedAddrs' = MappedAddrs \cup Extent(c)
    BY <2>1, <2>4, <2>5, <2>6, MappedAddrsAre DEF Mapped
  <2>8. ASSUME NEW a \in MappedAddrs
        PROVE  FlatMem'[a] = FlatMem[a] /\ FlatTag'[a] = FlatTag[a]
    <3>1. a \in Nat /\ Mapped(a) /\ a \notin Extent(c)
      BY <2>2, MappedAddrsAre
    <3>2. pageMap'[Page(a)] = pageMap[Page(a)]
      BY <2>1, <2>5, <3>1 DEF Mapped
    <3>3. Buf(a) \in DOMAIN heap /\ Buf(a) # c
      BY <3>1, Translation, HeapFacts DEF IInv
    <3>4. heap'[Buf(a)] = heap[Buf(a)]
      BY <2>1, <3>3
    <3> QED
      BY <2>7, <3>2, <3>4 DEF FlatMem, FlatTag, Buf, HostOff
  <2>9. ASSUME NEW a \in Extent(c)
        PROVE  FlatMem'[a] = Zero /\ FlatTag'[a] = c
    <3>1. a \in Nat /\ Page(a) \in PagesOf(c) /\ a = Page(a) + Offset(a)
          /\ Page(a) \in Nat /\ Offset(a) \in Int
      BY <2>5, <2>6, PageFacts, MemoryAssumption
    <3>2. pageMap'[Page(a)] = [buf |-> c, off |-> Page(a) - s]
      BY <2>1, <3>1
    <3>3. (Page(a) - s) + Offset(a) \in 0 .. (SizeOf(c) - 1)
      BY <1>2, <3>1 DEF Extent
    <3>4. heap'[c][(Page(a) - s) + Offset(a)] = Zero
      BY <2>1, <3>3
    <3> QED
      BY <2>7, <3>2, <3>4 DEF FlatMem, FlatTag, Buf, HostOff
  <2>10. /\ FlatMem' = [a \in MappedAddrs \cup Extent(c) |->
                         IF a \in MappedAddrs THEN FlatMem[a] ELSE Zero]
         /\ FlatTag' = [a \in MappedAddrs \cup Extent(c) |->
                         IF a \in MappedAddrs THEN FlatTag[a] ELSE c]
    <3>1. FlatMem' = [a \in MappedAddrs' |-> FlatMem'[a]]
          /\ FlatTag' = [a \in MappedAddrs' |-> FlatTag'[a]]
      BY DEF FlatMem, FlatTag
    <3> QED
      BY <2>7, <2>8, <2>9, <3>1
  <2>11. Flat!Map(c)
    <3>1. Flat!Extent(c) = Extent(c) /\ DOMAIN FlatMem = MappedAddrs
      BY DEF Flat!Extent, Extent, StartOf, SizeOf, FlatMem
    <3> QED
      BY <1>1, <2>1, <2>2, <2>10, <3>1 DEF Flat!Map, Done, Flat!Done
  <2> QED
    BY <1>1, <2>11 DEF Flat!Next, Call
<1> QED
  BY <1>3, <1>4

(* When the page map stays, the flat memory changes only with the heap. *)
LEMMA SameMap ==
  ASSUME UNCHANGED pageMap
  PROVE  /\ MappedAddrs' = MappedAddrs /\ FlatTag' = FlatTag
         /\ FlatMem' = [a \in MappedAddrs |-> heap'[Buf(a)][HostOff(a)]]
         /\ UNCHANGED heap => FlatMem' = FlatMem
BY DEF MappedAddrs, FlatTag, FlatMem, Buf, HostOff

LEMMA ReadRefines ==
  ASSUME IInv, NEW a \in Nat, NEW n \in Widths, Read(a, n)
  PROVE  Flat!Load(a, n)
<1>1. FlatMem' = FlatMem /\ FlatTag' = FlatTag
  BY SameMap DEF Read
<1>2. DOMAIN FlatMem = MappedAddrs
  BY DEF FlatMem
<1>3. CASE ~Mapped(a) /\ ret' = Failed /\ UNCHANGED running
  BY <1>1, <1>2, <1>3, MappedAddrsAre DEF Flat!Load, Failed, Flat!Failed
<1>4. CASE /\ Mapped(a) /\ InBuffer(a, n) /\ UNCHANGED running
           /\ ret' = Got(SwapBytes(n, HostBytes(a, n)))
  <2>1. Flat!Inside(a, n)
    BY <1>4, InBufferIsInside
  <2>2. n \in Nat /\ n >= 1
    BY DEF Widths
  <2>3. ASSUME NEW i \in 0 .. (n - 1)
        PROVE  HostBytes(a, n)[i] = FlatMem[a + i]
    <3>1. a + i \in a .. (a + n - 1) /\ (a + i) - a = i
      BY <2>2
    <3>2. a + i \in MappedAddrs /\ Buf(a + i) = Buf(a) /\ HostOff(a + i) = HostOff(a) + i
      BY <1>4, <3>1, InBufferIsInside
    <3> QED
      BY <3>2 DEF HostBytes, FlatMem
  <2>4. ASSUME NEW i \in 0 .. (n - 1)
        PROVE  SwapBytes(n, HostBytes(a, n))[i] = FlatMem[a + n - 1 - i]
    <3>1. n - 1 - i \in 0 .. (n - 1) /\ a + (n - 1 - i) = a + n - 1 - i
      BY <2>2
    <3>2. ASSUME n = 1 PROVE i = n - 1 - i
      <4>1. n - 1 = 0
        BY <3>2
      <4>2. i \in 0 .. 0
        BY <4>1
      <4> QED
        BY <4>1, <4>2
    <3>3. SwapBytes(n, HostBytes(a, n))[i] = HostBytes(a, n)[n - 1 - i]
      BY <3>2, SwapReverses
    <3> QED
      BY <2>3, <3>1, <3>3
  <2>5. SwapBytes(n, HostBytes(a, n)) = [i \in 0 .. (n - 1) |-> SwapBytes(n, HostBytes(a, n))[i]]
    BY SwapDomain DEF HostBytes
  <2>6. SwapBytes(n, HostBytes(a, n)) = Flat!BigEndian(a, n)
    BY <2>4, <2>5 DEF Flat!BigEndian
  <2> QED
    BY <1>1, <1>4, <2>1, <2>6 DEF Flat!Load, Got, Flat!Got
<1>5. CASE Mapped(a) /\ ~InBuffer(a, n) /\ running' = FALSE /\ UNCHANGED ret
  <2>1. a \in MappedAddrs /\ ~Flat!Inside(a, n)
    BY <1>5, MappedAddrsAre, InBufferIsInside
  <2> QED
    BY <1>1, <1>2, <1>5, <2>1 DEF Flat!Load
<1> QED
  BY <1>3, <1>4, <1>5 DEF Read

LEMMA WriteRefines ==
  ASSUME IInv, NEW a \in Nat, NEW n \in Widths, NEW w, Write(a, n, w)
  PROVE  Flat!Store(a, n, w)
<1>1. UNCHANGED pageMap /\ FlatTag' = FlatTag /\ (UNCHANGED heap => FlatMem' = FlatMem)
      /\ FlatMem' = [b \in MappedAddrs |-> heap'[Buf(b)][HostOff(b)]]
  BY SameMap DEF Write
<1>2. DOMAIN FlatMem = MappedAddrs
  BY DEF FlatMem
<1>3. CASE ~Mapped(a) /\ ret' = Failed /\ UNCHANGED <<heap, running>>
  BY <1>1, <1>2, <1>3, MappedAddrsAre DEF Flat!Store, Failed, Flat!Failed
<1>4. CASE /\ Mapped(a) /\ InBuffer(a, n) /\ ret' = Done /\ UNCHANGED running
           /\ heap' = [heap EXCEPT ![Buf(a)] =
                 [o \in DOMAIN heap[Buf(a)] |->
                    IF o \in HostOff(a) .. (HostOff(a) + n - 1)
                      THEN SwapBytes(n, w)[o - HostOff(a)]
                      ELSE heap[Buf(a)][o]]]
  <2>1. Flat!Inside(a, n)
    BY <1>4, InBufferIsInside
  <2>2. n \in Nat /\ n >= 1
    BY DEF Widths
  <2>3. Buf(a) \in DOMAIN heap /\ Buf(a) \in Call /\ HostOff(a) = a - StartOf(Buf(a))
    BY <1>4, Translation
  <2>4. StartOf(Buf(a)) \in Nat
    BY <2>3, CallFacts
  <2>5. ASSUME NEW b \in MappedAddrs
        PROVE  heap'[Buf(b)][HostOff(b)] =
                 IF b \in a .. (a + n - 1) THEN w[a + n - 1 - b] ELSE FlatMem[b]
    <3>1. b \in Nat /\ Mapped(b)
      BY MappedAddrsAre
    <3>2. Buf(b) \in DOMAIN heap /\ b \in Extent(Buf(b)) /\ Buf(b) \in Call
          /\ HostOff(b) = b - StartOf(Buf(b))
      BY <3>1, Translation
    <3>3. CASE b \in a .. (a + n - 1)
      <4>1. Buf(b) = Buf(a) /\ HostOff(b) = HostOff(a) + (b - a)
            /\ HostOff(b) \in DOMAIN heap[Buf(a)]
        BY <1>4, <3>3, InBufferIsInside
      <4>2. HostOff(b) \in HostOff(a) .. (HostOff(a) + n - 1) /\ HostOff(b) - HostOff(a) = b - a
        BY <2>2, <2>3, <2>4, <3>3, <4>1
      <4>3. heap'[Buf(b)][HostOff(b)] = SwapBytes(n, w)[b - a]
        BY <1>4, <2>3, <4>1, <4>2
      <4>4. b - a \in 0 .. (n - 1) /\ n - 1 - (b - a) = a + n - 1 - b
            /\ (n = 1 => b - a = a + n - 1 - b)
        BY <2>2, <3>3
      <4>5. SwapBytes(n, w)[b - a] = w[a + n - 1 - b]
        BY <4>4, SwapReverses
      <4> QED
        BY <3>3, <4>3, <4>5
    <3>4. CASE b \notin a .. (a + n - 1)
      <4>1. CASE Buf(b) = Buf(a)
        <5>1. HostOff(b) \notin HostOff(a) .. (HostOff(a) + n - 1)
          BY <2>2, <2>3, <2>4, <3>1, <3>2, <3>4, <4>1
        <5>2. HostOff(b) \in DOMAIN heap[Buf(b)]
          <6>1. DOMAIN heap[Buf(b)] = 0 .. (SizeOf(Buf(b)) - 1)
            BY <3>2, HeapFacts DEF IInv
          <6>2. StartOf(Buf(b)) \in Nat /\ SizeOf(Buf(b)) \in Nat
            BY <3>2, CallFacts
          <6> QED
            BY <3>1, <3>2, <6>1, <6>2 DEF Extent
        <5>3. heap'[Buf(b)][HostOff(b)] = heap[Buf(b)][HostOff(b)]
          BY <1>4, <2>3, <4>1, <5>1, <5>2
        <5> QED
          BY <3>4, <5>3 DEF FlatMem
      <4>2. CASE Buf(b) # Buf(a)
        <5>1. heap'[Buf(b)] = heap[Buf(b)]
          BY <1>4, <3>2, <4>2
        <5> QED
          BY <3>4, <5>1 DEF FlatMem
      <4> QED
        BY <4>1, <4>2
    <3> QED
      BY <3>3, <3>4
  <2>6. FlatMem' = [b \in MappedAddrs |->
                      IF b \in a .. (a + n - 1) THEN w[a + n - 1 - b] ELSE FlatMem[b]]
    BY <1>1, <2>5
  <2> QED
    BY <1>1, <1>2, <1>4, <2>1, <2>6 DEF Flat!Store, Done, Flat!Done
<1>5. CASE Mapped(a) /\ ~InBuffer(a, n) /\ running' = FALSE /\ UNCHANGED <<heap, ret>>
  <2>1. a \in MappedAddrs /\ ~Flat!Inside(a, n)
    BY <1>5, MappedAddrsAre, InBufferIsInside
  <2> QED
    BY <1>1, <1>2, <1>5, <2>1 DEF Flat!Store
<1> QED
  BY <1>3, <1>4, <1>5 DEF Write

LEMMA ReachedIs ==
  ASSUME IInv, NEW a \in Nat, NEW n \in Widths
  PROVE  Flat!Reached(a, n) = Reached(a, n)
<1>1. \A i \in 0 .. (n - 1) : \A j \in 0 .. i : a + j \in Nat
  BY DEF Widths
<1> QED
  BY <1>1, MappedAddrsAre DEF Flat!Reached, Reached, FlatMem

LEMMA PokedRefines ==
  ASSUME IInv, UNCHANGED pageMap, NEW a \in Nat, NEW n \in Widths, NEW w,
         heap' = Poked(a, w, Reached(a, n))
  PROVE  FlatMem' = Flat!Written(a, n, w)
<1> DEFINE reach == Reached(a, n)
<1>1. reach \subseteq 0 .. (n - 1) /\ \A i \in reach : i \in Nat /\ a + i \in Nat /\ Mapped(a + i)
  <2>1. \A i \in 0 .. (n - 1) : i \in Nat /\ a + i \in Nat /\ i \in 0 .. i
    BY DEF Widths
  <2> QED
    BY <2>1 DEF Reached
<1>2. ASSUME NEW b \in MappedAddrs
      PROVE  heap'[Buf(b)][HostOff(b)] = IF b - a \in reach THEN w[b - a] ELSE FlatMem[b]
  <2> DEFINE H(i) == Buf(a + i) = Buf(b) /\ HostOff(a + i) = HostOff(b)
  <2>1. b \in Nat /\ Mapped(b)
    BY MappedAddrsAre
  <2>2. Buf(b) \in DOMAIN heap /\ b \in Extent(Buf(b)) /\ Buf(b) \in Call
        /\ HostOff(b) = b - StartOf(Buf(b))
    BY <2>1, Translation
  <2>3. StartOf(Buf(b)) \in Nat /\ SizeOf(Buf(b)) \in Nat
        /\ DOMAIN heap[Buf(b)] = 0 .. (SizeOf(Buf(b)) - 1)
    BY <2>2, CallFacts, HeapFacts DEF IInv
  <2>4. HostOff(b) \in DOMAIN heap[Buf(b)]
    BY <2>1, <2>2, <2>3 DEF Extent
  <2>5. ASSUME NEW i \in reach PROVE H(i) <=> i = b - a
    <3>1. HostOff(a + i) = (a + i) - StartOf(Buf(a + i))
      BY <1>1, Translation
    <3>2. ASSUME H(i) PROVE i = b - a
      BY <1>1, <2>1, <2>2, <2>3, <3>1, <3>2
    <3>3. ASSUME i = b - a PROVE a + i = b
      BY <1>1, <2>1, <3>3
    <3> QED
      BY <3>2, <3>3
  <2>6. heap'[Buf(b)][HostOff(b)] = IF \E i \in reach : H(i)
                                      THEN w[CHOOSE i \in reach : H(i)]
                                      ELSE heap[Buf(b)][HostOff(b)]
    BY <2>2, <2>4 DEF Poked
  <2>7. CASE b - a \in reach
    <3>1. \E i \in reach : H(i)
      BY <2>5, <2>7
    <3>2. (CHOOSE i \in reach : H(i)) \in reach /\ H(CHOOSE i \in reach : H(i))
      BY <3>1
    <3>3. (CHOOSE i \in reach : H(i)) = b - a
      BY <2>5, <3>2
    <3> QED
      BY <2>6, <2>7, <3>1, <3>3
  <2>8. CASE b - a \notin reach
    <3>1. ~ \E i \in reach : H(i)
      BY <2>5, <2>8
    <3> QED
      BY <2>6, <2>8, <3>1 DEF FlatMem
  <2> QED
    BY <2>7, <2>8
<1>3. FlatMem' = [b \in MappedAddrs |-> heap'[Buf(b)][HostOff(b)]] /\ DOMAIN FlatMem = MappedAddrs
  BY SameMap DEF FlatMem
<1> QED
  BY <1>2, <1>3, ReachedIs DEF Flat!Written

LEMMA AccessRefines ==
  ASSUME IInv, running, NEW acc \in Accesses, NEW w \in Words,
         DOMAIN w = 0 .. (acc[2] - 1),
         \/ Write(acc[1], acc[2], w)
         \/ WriteBytes(acc[1], acc[2], w)
         \/ CopyMemory(acc[1], acc[2], w)
  PROVE  Flat!Access(acc[1], acc[2])
<1> DEFINE a == acc[1]
           n == acc[2]
<1>1. a \in Nat /\ n \in Widths
  BY AccessFacts
<1>2. CASE Write(a, n, w)
  BY <1>1, <1>2, WriteRefines DEF Flat!Access
<1>3. CASE WriteBytes(a, n, w)
  <2>1. FlatMem' = Flat!Written(a, n, w) /\ FlatTag' = FlatTag
    BY <1>1, <1>3, PokedRefines, SameMap DEF WriteBytes
  <2>2. Flat!StoreBlock(a, n, w)
    BY <1>1, <1>3, <2>1, ReachedIs DEF WriteBytes, Flat!StoreBlock
  <2> QED
    BY <2>2 DEF Flat!Access
<1>4. CASE CopyMemory(a, n, w)
  <2>1. FlatMem' = Flat!Written(a, n, w) /\ FlatTag' = FlatTag
    BY <1>1, <1>4, PokedRefines, SameMap DEF CopyMemory
  <2>2. Flat!ForceBlock(a, n, w)
    BY <1>1, <1>4, <2>1, ReachedIs DEF CopyMemory, Flat!ForceBlock
  <2> QED
    BY <2>2 DEF Flat!Access
<1> QED
  BY <1>2, <1>3, <1>4

LEMMA ReadBytesRefines ==
  ASSUME IInv, NEW a \in Nat, NEW n \in Widths, ReadBytes(a, n)
  PROVE  Flat!LoadBlock(a, n)
<1>1. FlatMem' = FlatMem /\ FlatTag' = FlatTag
  BY SameMap DEF ReadBytes
<1>2. CASE Reached(a, n) = 0 .. (n - 1)
  <2>1. ASSUME NEW i \in 0 .. (n - 1)
        PROVE  heap[Buf(a + i)][HostOff(a + i)] = FlatMem[a + i]
    <3>1. i \in 0 .. i /\ a + i \in Nat
      BY DEF Widths
    <3>2. Mapped(a + i)
      BY <1>2, <3>1 DEF Reached
    <3> QED
      BY <3>1, <3>2, MappedAddrsAre DEF FlatMem
  <2>2. ret' = Flat!Got([i \in 0 .. (n - 1) |-> FlatMem[a + i]])
    BY <1>2, <2>1 DEF ReadBytes, Got, Flat!Got
  <2> QED
    BY <1>1, <1>2, <2>2, ReachedIs DEF ReadBytes, Flat!LoadBlock
<1>3. CASE Reached(a, n) # 0 .. (n - 1)
  BY <1>1, <1>3, ReachedIs DEF ReadBytes, Flat!LoadBlock, Failed, Flat!Failed
<1> QED
  BY <1>2, <1>3

LEMMA NextRefines == IInv /\ [Next]_vars => [Flat!Next]_(Flat!vars)
<1> SUFFICES ASSUME IInv, [Next]_vars PROVE [Flat!Next]_(Flat!vars)
  OBVIOUS
<1>1. CASE running /\ Mmap
  BY <1>1, MmapRefines
<1>2. ASSUME running, NEW acc \in Accesses, Read(acc[1], acc[2])
      PROVE  Flat!Next
  BY <1>2, AccessFacts, ReadRefines DEF Flat!Next, Flat!Access
<1>3. ASSUME running, NEW acc \in Accesses, ReadBytes(acc[1], acc[2])
      PROVE  Flat!Next
  BY <1>3, AccessFacts, ReadBytesRefines DEF Flat!Next, Flat!Access
<1>4. ASSUME running, NEW acc \in Accesses, NEW w \in Words,
             DOMAIN w = 0 .. (acc[2] - 1),
             \/ Write(acc[1], acc[2], w)
             \/ WriteBytes(acc[1], acc[2], w)
             \/ CopyMemory(acc[1], acc[2], w)
      PROVE  Flat!Next
  BY <1>4, AccessRefines DEF Flat!Next
<1>5. CASE UNCHANGED vars
  <2>1. UNCHANGED <<pageMap, heap, ret, running>>
    BY <1>5 DEF vars
  <2> QED
    BY <2>1, SameMap DEF Flat!vars
<1> QED
  BY <1>1, <1>2, <1>3, <1>4, <1>5 DEF Next

(* RefinesFlat: the paged, buffered, byte-swapping memory of Memory.cpp is, *)
(* for every page size, request list and set of accesses, a flat big-endian *)
(* memory whose mappings never disturb a mapped byte.                       *)
THEOREM RefinementCorrect == Spec => RefinesFlat
<1>1. Init => Flat!Init
  BY InitRefines
<1>2. IInv /\ [Next]_vars => [Flat!Next]_(Flat!vars)
  BY NextRefines
<1> QED
  BY <1>1, <1>2, Invariance, PTL DEF Spec, RefinesFlat, Flat!Spec
=============================================================================
