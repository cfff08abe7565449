---------------------------- MODULE GuestMemory -----------------------------
(***************************************************************************)
(* Guest memory as Memory/Memory.h and Memory/Memory.cpp keep it: a hash   *)
(* map from page address to a pointer into a host buffer, one buffer per   *)
(* successful mmap, and accesses that translate only the first byte of an  *)
(* operand (or every byte of a block).  The mmap calls are those of the    *)
(* program, in the order it makes them: the ELF region (loadELF), the      *)
(* stack and the TLS block (main), the arena of sys_memory_allocate.       *)
(* FlatMemory is what this implements.                                     *)
(***************************************************************************)
EXTENDS Integers, Sequences

CONSTANTS
  PageSize,   \* 0x10000
  Byte,       \* uint8_t
  Zero,       \* what memset(buf, 0, size) stores
  MmapCalls,  \* the [start, size] arguments of Memory::mmap, in program order
  Accesses,   \* the <<address, width>> pairs accessed
  Words       \* the operand values: lane i of a word is bits 8i..8i+7

VARIABLES
  pageMap,    \* MemoryMap: page address -> [buf, off], a pointer into a host buffer
  freeMap,    \* freeMemoryMap: address -> buffer
  heap,       \* buffer -> its bytes, indexed from 0
  next,       \* index of the next mmap call
  ret,        \* outcome of the last operation
  running     \* FALSE after a null dereference or a host access outside its buffer

vars == <<pageMap, freeMap, heap, next, ret, running>>

Call == DOMAIN MmapCalls
StartOf(c) == MmapCalls[c].start
SizeOf(c) == MmapCalls[c].size
Extent(c) == StartOf(c) .. (StartOf(c) + SizeOf(c) - 1)

Widths == {1, 2, 4, 8}

(* Every caller passes whole aligned pages.  A later request may lie anywhere *)
(* that is free, or begin inside an earlier one (the TLS block begins inside  *)
(* the stack region), but may not begin before an earlier one and run into it.*)
ASSUME MemoryAssumption ==
  /\ PageSize \in Nat \ {0}
  /\ Zero \in Byte
  /\ MmapCalls \in Seq([start : Nat, size : Nat \ {0}])
  /\ \A c \in Call : StartOf(c) % PageSize = 0 /\ SizeOf(c) % PageSize = 0
  /\ \A c, d \in Call : c < d => \/ Extent(c) \cap Extent(d) = {}
                                 \/ StartOf(d) \in Extent(c)
  /\ Accesses \subseteq Nat \X Widths
  /\ \A w \in Words : \E n \in Widths : w \in [0 .. (n - 1) -> Byte]

-----------------------------------------------------------------------------
(* Address translation. *)

Offset(a) == a % PageSize
Page(a) == a - Offset(a)

Mapped(a) == Page(a) \in DOMAIN pageMap
Buf(a) == pageMap[Page(a)].buf
HostOff(a) == pageMap[Page(a)].off + Offset(a)

(* The host access of n bytes at the pointer getPtr(a) stays in its buffer. *)
InBuffer(a, n) == HostOff(a) + n - 1 \in DOMAIN heap[Buf(a)]

-----------------------------------------------------------------------------
(* swapBytes<T> and getValue<T, BigEndian> on a little-endian host. *)

Swap16(w) == [lane \in 0 .. 1 |-> IF lane = 0 THEN w[1] ELSE w[0]]

Swap32(w) == [lane \in 0 .. 3 |-> CASE lane = 0 -> w[3]
                                    [] lane = 1 -> w[2]
                                    [] lane = 2 -> w[1]
                                    [] lane = 3 -> w[0]]

LowHalf(w) == [lane \in 0 .. 3 |-> w[lane]]
HighHalf(w) == [lane \in 0 .. 3 |-> w[lane + 4]]

Swap64HalvesInPlace(w) ==
  [lane \in 0 .. 7 |-> IF lane >= 4 THEN Swap32(HighHalf(w))[lane - 4]
                                    ELSE Swap32(LowHalf(w))[lane]]
Swap64(w) == [lane \in 0 .. 7 |-> IF lane >= 4 THEN Swap32(LowHalf(w))[lane - 4]
                                               ELSE Swap32(HighHalf(w))[lane]]

SwapBytes(n, w) == CASE n = 1 -> w
                     [] n = 2 -> Swap16(w)
                     [] n = 4 -> Swap32(w)
                     [] n = 8 -> Swap64(w)

-----------------------------------------------------------------------------
Failed  == [ok |-> FALSE]
Done    == [ok |-> TRUE]
Got(w)  == [ok |-> TRUE, value |-> w]

Init == /\ pageMap = [p \in {} |-> [buf |-> 0, off |-> 0]]
        /\ freeMap = [p \in {} |-> 0]
        /\ heap = [b \in {} |-> [o \in {} |-> Zero]]
        /\ next = 1
        /\ ret = Done
        /\ running = TRUE

(* The page addresses of the loop `for (i = 0; i < size; i += 0x10000)`. *)
PagesOf(c) == {p \in {StartOf(c) + i : i \in 0 .. (SizeOf(c) - 1)} :
                 (p - StartOf(c)) % PageSize = 0}

(* The lookup that refuses a request: of its first page only. *)
CollidesUnchecked(start) == FALSE
Collides(start) == start \in DOMAIN pageMap

(* new uint8_t[size], zeroed. *)
OnePageBuffer(c) == [o \in 0 .. (PageSize - 1) |-> Zero]
ZeroedBuffer(c) == [o \in 0 .. (SizeOf(c) - 1) |-> Zero]

(* The keys of freeMemoryMap under which the buffer is filed. *)
FiledPerPage(c, start) == PagesOf(c)
FiledUnder(c, start) == {start}

(* mapPage: every page of an accepted request is (re)pointed into the new buffer. *)
MapPage(c, start) ==
  \/ /\ Collides(start)
     /\ ret' = Failed
     /\ UNCHANGED <<pageMap, freeMap, heap>>
  \/ /\ ~Collides(start)
     /\ heap' = [b \in DOMAIN heap \cup {c} |->
                   IF b = c THEN ZeroedBuffer(c) ELSE heap[b]]
     /\ freeMap' = [p \in DOMAIN freeMap \cup FiledUnder(c, start) |->
                      IF p \in FiledUnder(c, start) THEN c ELSE freeMap[p]]
     /\ pageMap' = [p \in DOMAIN pageMap \cup PagesOf(c) |->
                      IF p \in PagesOf(c) THEN [buf |-> c, off |-> p - start]
                                          ELSE pageMap[p]]
     /\ ret' = Done

(* Memory::mmap aligns the start and passes the size on as it is. *)
Mmap ==
  /\ next \in Call
  /\ MapPage(next, Page(StartOf(next)))
  /\ next' = next + 1
  /\ UNCHANGED running

HostBytes(a, n) == [i \in 0 .. (n - 1) |-> heap[Buf(a)][HostOff(a) + i]]

(* read8..read64: getPtr of the first byte, then a host load of n bytes. *)
Read(a, n) ==
  /\ \/ /\ ~Mapped(a)
        /\ ret' = Failed
        /\ UNCHANGED running
     \/ /\ Mapped(a) /\ InBuffer(a, n)
        /\ ret' = Got(SwapBytes(n, HostBytes(a, n)))
        /\ UNCHANGED running
     \/ /\ Mapped(a) /\ ~InBuffer(a, n)
        /\ running' = FALSE
        /\ UNCHANGED ret
  /\ UNCHANGED <<pageMap, freeMap, heap, next>>

(* write8..write64: the same translation, setValue, a host store of n bytes. *)
Write(a, n, w) ==
  /\ \/ /\ ~Mapped(a)
        /\ ret' = Failed
        /\ UNCHANGED <<heap, running>>
     \/ /\ Mapped(a) /\ InBuffer(a, n)
        /\ heap' = [heap EXCEPT ![Buf(a)] =
                      [o \in DOMAIN heap[Buf(a)] |->
                         IF o \in HostOff(a) .. (HostOff(a) + n - 1)
                           THEN SwapBytes(n, w)[o - HostOff(a)]
                           ELSE heap[Buf(a)][o]]]
        /\ ret' = Done
        /\ UNCHANGED running
     \/ /\ Mapped(a) /\ ~InBuffer(a, n)
        /\ running' = FALSE
        /\ UNCHANGED <<heap, ret>>
  /\ UNCHANGED <<pageMap, freeMap, next>>

(* The iterations a byte loop completes: those before the first null pointer. *)
Reached(a, n) == {i \in 0 .. (n - 1) : \A j \in 0 .. i : Mapped(a + j)}

(* The heap after storing w[i] through getPtr(a + i) for every i in reach. *)
Poked(a, w, reach) ==
  [b \in DOMAIN heap |->
    [o \in DOMAIN heap[b] |->
      IF \E i \in reach : Buf(a + i) = b /\ HostOff(a + i) = o
        THEN w[CHOOSE i \in reach : Buf(a + i) = b /\ HostOff(a + i) = o]
        ELSE heap[b][o]]]

(* writeBytes: one write8 per byte, the bytes before a failure stay written. *)
WriteBytes(a, n, w) ==
  /\ heap' = Poked(a, w, Reached(a, n))
  /\ ret' = [ok |-> Reached(a, n) = 0 .. (n - 1)]
  /\ UNCHANGED <<pageMap, freeMap, next, running>>

(* readBytes and readStruct: one read8 per byte. *)
ReadBytes(a, n) ==
  /\ ret' = IF Reached(a, n) = 0 .. (n - 1)
              THEN Got([i \in 0 .. (n - 1) |-> heap[Buf(a + i)][HostOff(a + i)]])
              ELSE Failed
  /\ UNCHANGED <<pageMap, freeMap, heap, next, running>>

(* copyMemory and setMemory store through getPtr unchecked: a null pointer *)
(* ends the process.                                                       *)
CopyMemory(a, n, w) ==
  /\ heap' = Poked(a, w, Reached(a, n))
  /\ running' = (Reached(a, n) = 0 .. (n - 1))
  /\ UNCHANGED <<pageMap, freeMap, next, ret>>

Next ==
  /\ running
  /\ \/ Mmap
     \/ \E acc \in Accesses :
          \/ Read(acc[1], acc[2])
          \/ ReadBytes(acc[1], acc[2])
          \/ \E w \in Words :
               /\ DOMAIN w = 0 .. (acc[2] - 1)
               /\ \/ Write(acc[1], acc[2], w)
                  \/ WriteBytes(acc[1], acc[2], w)
                  \/ CopyMemory(acc[1], acc[2], w)

Spec == Init /\ [][Next]_vars

-----------------------------------------------------------------------------
(* Properties. *)

(* Type invariant: the page map points into buffers that exist and a buffer *)
(* is as long as the request it was allocated for.                          *)
TypeOK ==
  /\ next \in 1 .. (Len(MmapCalls) + 1)
  /\ DOMAIN heap \subseteq 1 .. (next - 1)
  /\ \A b \in DOMAIN heap : heap[b] \in [0 .. (SizeOf(b) - 1) -> Byte]
  /\ DOMAIN pageMap \subseteq Nat
  /\ pageMap \in [DOMAIN pageMap -> [buf : DOMAIN heap, off : Nat]]
  /\ freeMap \in [DOMAIN freeMap -> DOMAIN heap]
  /\ running \in BOOLEAN

(* Whatever order the requests came in, every page that any request mapped  *)
(* still points to that request's buffer, at the offset that keeps a region *)
(* contiguous on the host; so an operand that crosses a page inside its     *)
(* region is accessed correctly although getPtr translated one byte of it.  *)
Contiguous ==
  /\ \A p \in DOMAIN pageMap :
       LET e == pageMap[p] IN p \in PagesOf(e.buf) /\ e.off = p - StartOf(e.buf)
  /\ \A b \in DOMAIN heap : \A p \in PagesOf(b) :
       p \in DOMAIN pageMap /\ pageMap[p].buf = b

(* freeMemoryMap owns each buffer exactly once, so that ~MemoryMap would    *)
(* release every buffer and none twice, although mapPage stores into it     *)
(* with operator[].                                                         *)
OwnedOnce ==
  /\ \A b \in DOMAIN heap : \E s \in DOMAIN freeMap : freeMap[s] = b
  /\ \A s, t \in DOMAIN freeMap : freeMap[s] = freeMap[t] => s = t

(* The flat memory this is: the refinement mapping. *)
MappedAddrs == UNION {{p + i : i \in 0 .. (PageSize - 1)} : p \in DOMAIN pageMap}
FlatMem == [a \in MappedAddrs |-> heap[Buf(a)][HostOff(a)]]
FlatTag == [a \in MappedAddrs |-> Buf(a)]

Flat == INSTANCE FlatMemory WITH Regions <- MmapCalls, mem <- FlatMem, tag <- FlatTag

(* Every history of mmap calls, operand accesses and block transfers is one *)
(* of the flat memory: pages, buffers and byte swapping are invisible.      *)
RefinesFlat == Flat!Spec
=============================================================================
