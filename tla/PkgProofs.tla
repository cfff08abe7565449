------------------------------ MODULE PkgProofs ------------------------------
(***************************************************************************)
(* Proofs about PkgDecryptor, for every block, buffer and package.         *)
(*                                                                         *)
(* The buffer's two counters, szcheck and mincheck, add up to what has     *)
(* been decrypted of the file, and both count whole blocks.  A key stream  *)
(* is any sequence of counters in which each follows from the one before   *)
(* it; that these are the counters a block's own number calls for comes    *)
(* last, by induction, from what iter128 does to the number its bytes are. *)
(***************************************************************************)
EXTENDS PkgDecryptor, SequenceTheorems, NumeralProofs

IsSeq(s) == \E S : s \in Seq(S)

(* The first n counters of a stream, and a byte decrypted with one of them. *)
Stream(key, n, c) == key[0] = c /\ \A b \in 0 .. (n - 1) : key[b + 1] = Increment(key[b])
Turned(c, o, p) == [at |-> o + p - 1, keys |-> {<<c, (p - 1) % Block>>}]

(* b is the len bytes at offset o, its first n blocks decrypted with one key  *)
(* stream from counter c on, the rest as it was.                             *)
DecryptedBy(key, b, o, n, len) ==
  /\ b = [p \in 1 .. len |-> b[p]]
  /\ \A p \in 1 .. len : b[p] = IF p <= n * Block THEN Turned(key[(p - 1) \div Block], o, p)
                                ELSE Cipher(o + p - 1)
Decrypted(b, o, n, len, c) == \E key : Stream(key, n, c) /\ DecryptedBy(key, b, o, n, len)

-----------------------------------------------------------------------------
(* The invariant. *)

Known ==
  /\ files \in Package
  /\ i \in Nat \ {0}
  /\ IsSeq(name) /\ Len(name) \in {i - 1, i} /\ Len(name) <= Len(files)
  /\ IsSeq(out) /\ Len(out) = IF phase = "contents" THEN i ELSE i - 1
  /\ phase = "table" => i = 1 /\ Len(name) = 0
  /\ phase = "contents" => Len(name) = i

(* n blocks: m bytes in whole buffers written, s bytes in the buffer. *)
Adds(n, m, s) == n \in Nat /\ m \in Nat /\ s \in Nat /\ m + s = n * Block
Counted(n, m, s) ==
  /\ Adds(n, m, s) /\ n \in 0 .. Blocks /\ s <= Chunk
  /\ \E c \in Nat : m = Chunk * c
  /\ \E d \in Nat : s = d * Block
Aligned == Counted(j, mincheck, szcheck)

(* w holds what has been written of the current file, m bytes, and b, the   *)
(* buffer, s bytes decrypted after them and what follows.                   *)
Holds(key, w, m, b, s) ==
  /\ IsSeq(w) /\ Len(w) = m
  /\ \A p \in 1 .. m : w[p] = Turned(key[(p - 1) \div Block], File.fileOffset, p)
  /\ b = [q \in 1 .. Chunk |-> b[q]]
  /\ \A q \in 1 .. s : b[q] = Turned(key[(m + q - 1) \div Block], File.fileOffset, m + q)
  /\ \A q \in s + 1 .. Chunk :
       m + q <= File.fileSize => b[q] = Cipher(File.fileOffset + m + q - 1)
Reached(m) == File.fileOffset + m + AtMostChunk(File.fileSize - m)
Filled(key) == Holds(key, out[i], mincheck, buf, szcheck) /\ at = Reached(mincheck)

Filling ==
  phase = "contents" =>
    /\ ~File.dir /\ Aligned
    /\ \E key : Stream(key, j, KeyFor(File.fileOffset)) /\ key[j] = pubKey /\ Filled(key)

(* Every finished item's contents are there, in order and once, its whole *)
(* blocks decrypted by one key stream that starts where the file does.    *)
Finished(k) ==
  LET f == ItemRead(k) IN
  IF f.dir THEN out[k] = <<>>
  ELSE Straggler(f) \/ Decrypted(out[k], f.fileOffset, f.fileSize \div Block,
                                 f.fileSize, KeyFor(f.fileOffset))
ContentsDecrypted == \A k \in 1 .. i - 1 : Finished(k)

PkgInv == Known /\ Filling /\ ContentsDecrypted /\ NoOverread

-----------------------------------------------------------------------------
(* Arithmetic of blocks. *)

(* Quotient and remainder. *)
LEMMA QuotientRest ==
  ASSUME NEW s \in Nat, NEW n \in Nat \ {0}
  PROVE  s = n * (s \div n) + (s % n) /\ s % n \in 0 .. (n - 1) /\ s \div n \in Nat
OBVIOUS

(* A buffer is a whole number of blocks. *)
LEMMA ChunkBlocks == Chunk \in Nat \ {0} /\ Block \in Nat \ {0} /\ \E a \in Nat : Chunk = a * Block
<1>1. Chunk \in Nat \ {0} /\ Block \in Nat \ {0} /\ Chunk % Block = 0
  BY PkgAssumption
<1>2. Chunk = Block * (Chunk \div Block) + 0 /\ Chunk \div Block \in Nat
  BY <1>1, QuotientRest
<1>3. Chunk = (Chunk \div Block) * Block
  BY <1>1, <1>2
<1> QED  BY <1>1, <1>2, <1>3

(* Neighbouring multiples are a block apart. *)
LEMMA MultiplesApart ==
  ASSUME NEW n \in Nat \ {0}, NEW a \in Nat, NEW b \in Nat, a * n < b * n
  PROVE  a * n + n <= b * n
<1>1. a < b
  <2>1. SUFFICES ASSUME b <= a PROVE FALSE
    OBVIOUS
  <2>2. PICK d \in Nat : a = b + d
    BY <2>1
  <2>3. a * n = b * n + d * n /\ d * n \in Nat
    BY <2>2
  <2> QED  BY <2>3
<1>2. PICK d \in Nat : b = a + 1 + d
  BY <1>1
<1>3. b * n = a * n + n + d * n /\ d * n \in Nat
  BY <1>2
<1> QED  BY <1>3

(* Quotient and remainder of a sum of whole units and less than one. *)
LEMMA RestOfUnits ==
  ASSUME NEW n \in Nat \ {0}, NEW c \in Nat, NEW r \in 0 .. (n - 1), NEW s \in Nat, s = n * c + r
  PROVE  s % n = r /\ s \div n = c
OBVIOUS

-----------------------------------------------------------------------------
(* Sequences. *)

LEMMA IsSeqFunction ==
  ASSUME NEW n \in Nat, NEW f, f = [p \in 1 .. n |-> f[p]]
  PROVE  IsSeq(f) /\ Len(f) = n
<1> DEFINE S == {f[p] : p \in 1 .. n}
<1>1. f \in [1 .. n -> S]
  OBVIOUS
<1>2. f \in Seq(S) /\ Len(f) = n
  BY <1>1
<1> QED  BY <1>2 DEF IsSeq

LEMMA IsSeqAppend ==
  ASSUME NEW s, IsSeq(s), NEW e
  PROVE  /\ IsSeq(Append(s, e)) /\ Len(s) \in Nat /\ Len(Append(s, e)) = Len(s) + 1
         /\ \A k \in 1 .. Len(s) : Append(s, e)[k] = s[k]
         /\ Append(s, e)[Len(s) + 1] = e
<1>1. PICK S : s \in Seq(S)
  BY DEF IsSeq
<1>2. s \in Seq(S \cup {e}) /\ e \in S \cup {e}
  BY <1>1
<1>3. Append(s, e) \in Seq(S \cup {e})
  BY <1>2
<1> QED  BY <1>2, <1>3, AppendProperties DEF IsSeq

Replaced(t, s, k, e) ==
  /\ IsSeq(t) /\ Len(t) = Len(s) /\ Len(s) \in Nat
  /\ \A l \in 1 .. Len(s) : t[l] = IF l = k THEN e ELSE s[l]
LEMMA IsSeqExcept ==
  ASSUME NEW s, IsSeq(s), NEW e, NEW k \in 1 .. Len(s)
  PROVE  Replaced([s EXCEPT ![k] = e], s, k, e)
<1>1. PICK S : s \in Seq(S)
  BY DEF IsSeq
<1>2. s \in Seq(S \cup {e}) /\ e \in S \cup {e}
  BY <1>1
<1>3. [s EXCEPT ![k] = e] \in Seq(S \cup {e})
  BY <1>2, ExceptSeq
<1> QED  BY <1>2, <1>3, ExceptSeq DEF IsSeq, Replaced

Joined(u, s, t) ==
  /\ IsSeq(u) /\ Len(s) \in Nat /\ Len(t) \in Nat /\ Len(u) = Len(s) + Len(t)
  /\ \A k \in 1 .. Len(s) : u[k] = s[k]
  /\ \A k \in 1 .. Len(t) : u[Len(s) + k] = t[k]
LEMMA IsSeqConcat ==
  ASSUME NEW s, IsSeq(s), NEW t, IsSeq(t)
  PROVE  Joined(s \o t, s, t)
<1>1. PICK S : s \in Seq(S)
  BY DEF IsSeq
<1>2. PICK T : t \in Seq(T)
  BY DEF IsSeq
<1>3. s \in Seq(S \cup T) /\ t \in Seq(S \cup T)
  BY <1>1, <1>2
<1>4. s \o t \in Seq(S \cup T)
  BY <1>3
<1> QED  BY <1>3, <1>4 DEF IsSeq, Joined

LEMMA SeqDomain ==
  ASSUME NEW s, IsSeq(s)
  PROVE  Len(s) \in Nat /\ DOMAIN s = 1 .. Len(s) /\ s = [p \in 1 .. Len(s) |-> s[p]]
BY DEF IsSeq

-----------------------------------------------------------------------------
(* Items and blocks. *)

(* What the table's bytes say is an item. *)
LEMMA ItemIs ==
  ASSUME files \in Package, NEW k \in 1 .. Len(files)
  PROVE  Len(files) \in Nat /\ ItemRead(k) \in Item
<1>1. files \in Seq(Item)
  BY PkgAssumption
<1>2. files[k] \in Item /\ Len(files) \in Nat
  BY <1>1
<1>3. NoItem \in Item
  BY DEF NoItem, Item
<1> QED  BY <1>2, <1>3 DEF ItemRead

(* The current item while its contents are decrypted. *)
LEMMA CurrentItem ==
  ASSUME Known, phase = "contents"
  PROVE  /\ i \in 1 .. Len(files) /\ File \in Item
         /\ File.fileSize \in Nat /\ File.fileOffset \in Nat
         /\ Blocks \in Nat /\ Blocks * Block \in Nat
         /\ File.fileSize % Block \in 0 .. (Block - 1)
         /\ File.fileSize = Blocks * Block + (File.fileSize % Block)
<1>1. i \in 1 .. Len(files)
  BY PkgAssumption DEF Known
<1>2. File \in Item
  BY <1>1, ItemIs DEF Known, File
<1>3. File.fileSize \in Nat /\ File.fileOffset \in Nat
  BY <1>2 DEF Item
<1>4. Block \in Nat \ {0}
  BY ChunkBlocks
<1>5. File.fileSize = Block * Blocks + (File.fileSize % Block) /\ Blocks \in Nat
      /\ File.fileSize % Block \in 0 .. (Block - 1)
  BY <1>3, <1>4, QuotientRest DEF Blocks
<1>6. Block * Blocks = Blocks * Block /\ Blocks * Block \in Nat
  BY <1>4, <1>5
<1>7. File.fileSize = Blocks * Block + (File.fileSize % Block)
  BY <1>5, <1>6
<1> QED  BY <1>1, <1>2, <1>3, <1>5, <1>6, <1>7

(* The place of a byte of block n in it. *)
LEMMA PlaceInBlock ==
  ASSUME NEW n, NEW m, NEW s, Adds(n, m, s), NEW q \in s + 1 .. s + Block
  PROVE  (m + q - 1) \div Block = n /\ (m + q - 1) % Block = q - s - 1
<1>1. Block \in Nat \ {0} /\ q \in Nat
  BY ChunkBlocks DEF Adds
<1>2. m + q - 1 = Block * n + (q - s - 1) /\ q - s - 1 \in 0 .. (Block - 1) /\ m + q - 1 \in Nat
  BY <1>1 DEF Adds
<1> QED  BY <1>1, <1>2, RestOfUnits DEF Adds

(* xor128 of the block at s in a buffer that begins m bytes after offset o. *)
Raw(b, o, m, s) ==
  s + 1 .. s + Block \subseteq DOMAIN b /\ \A q \in s + 1 .. s + Block : b[q] = Cipher(o + m + q - 1)
BlockDone(b, d, c, o, m, s) ==
  /\ DOMAIN d = DOMAIN b
  /\ \A q \in DOMAIN b \ (s + 1 .. s + Block) : d[q] = b[q]
  /\ \A q \in s + 1 .. s + Block : d[q] = Turned(c, o, m + q)
LEMMA BlockTurned ==
  ASSUME NEW b, NEW c, NEW o \in Nat, NEW n, NEW m, NEW s, Adds(n, m, s), Raw(b, o, m, s)
  PROVE  BlockDone(b, Xor128(b, s, c), c, o, m, s)
<1>1. DOMAIN Xor128(b, s, c) = DOMAIN b
  BY DEF Xor128
<1>2. ASSUME NEW q \in DOMAIN b \ (s + 1 .. s + Block)
      PROVE  Xor128(b, s, c)[q] = b[q]
  BY <1>2 DEF Xor128
<1>3. ASSUME NEW q \in s + 1 .. s + Block
      PROVE  Xor128(b, s, c)[q] = Turned(c, o, m + q)
  <2>1. Block \in Nat \ {0} /\ q \in Nat /\ m \in Nat /\ s \in Nat
    BY ChunkBlocks DEF Adds
  <2>2. (m + q - 1) % Block = q - s - 1
    BY PlaceInBlock
  <2> DEFINE K == {<<c, q - s - 1>>}
  <2>3. Xor128(b, s, c)[q] = [b[q] EXCEPT !.keys = SymDiff(@, K)]
    BY DEF Xor128, Raw
  <2>4. SymDiff({}, K) = K
    BY DEF SymDiff
  <2>5. b[q] = [at |-> o + m + q - 1, keys |-> {}]
    BY DEF Cipher, Raw
  <2>6. [b[q] EXCEPT !.keys = SymDiff(@, K)] = [at |-> b[q].at, keys |-> SymDiff(b[q].keys, K)]
    <3> HIDE DEF K
    <3> QED  BY <2>5
  <2>7. b[q].at = o + m + q - 1 /\ b[q].keys = {}
    BY <2>5
  <2>8. Xor128(b, s, c)[q] = [at |-> o + m + q - 1, keys |-> K]
    BY <2>3, <2>4, <2>6, <2>7, Zenon
  <2>9. o + m + q - 1 = o + (m + q) - 1 /\ (m + q) - 1 = m + q - 1
    BY <2>1
  <2> QED  BY <2>2, <2>8, <2>9 DEF Turned
<1> QED  BY <1>1, <1>2, <1>3 DEF BlockDone

(* A key stream goes on by one counter. *)
LEMMA StreamOn ==
  ASSUME NEW key, NEW n \in Nat, NEW c, Stream(key, n, c)
  PROVE  LET more == [b \in 0 .. n + 1 |-> IF b <= n THEN key[b] ELSE Increment(key[n])] IN
         Stream(more, n + 1, c) /\ more[n + 1] = Increment(key[n])
         /\ \A b \in 0 .. n : more[b] = key[b]
<1> DEFINE more == [b \in 0 .. n + 1 |-> IF b <= n THEN key[b] ELSE Increment(key[n])]
<1>1. more[n + 1] = Increment(key[n]) /\ \A b \in 0 .. n : more[b] = key[b]
  OBVIOUS
<1> HIDE DEF more
<1>2. more[0] = c
  BY <1>1 DEF Stream
<1>3. ASSUME NEW b \in 0 .. (n + 1 - 1) PROVE more[b + 1] = Increment(more[b])
  <2>1. CASE b = n
    BY <1>1, <2>1
  <2>2. CASE b # n
    <3>1. b \in 0 .. (n - 1) /\ b \in 0 .. n /\ b + 1 \in 0 .. n
      BY <2>2
    <3>2. key[b + 1] = Increment(key[b])
      BY <3>1 DEF Stream
    <3> QED  BY <1>1, <3>1, <3>2
  <2> QED  BY <2>1, <2>2
<1> QED  BY <1>1, <1>2, <1>3 DEF Stream, more

-----------------------------------------------------------------------------
(* The contents, step by step. *)

(* What is left when all blocks are decrypted fits the buffer, or the item is *)
(* a straggler.                                                              *)
LEMMA Leftover ==
  ASSUME Known, phase = "contents", Aligned, j = Blocks
  PROVE  /\ File.fileSize - mincheck = szcheck + (File.fileSize % Block)
         /\ File.fileSize - mincheck \in Nat
         /\ File.fileSize - mincheck <= Chunk \/ Straggler(File)
<1> DEFINE size == File.fileSize
           r == size % Block
<1>1. /\ size \in Nat /\ r \in 0 .. (Block - 1) /\ size = Blocks * Block + r
      /\ Blocks * Block \in Nat
  BY CurrentItem
<1>2. Block \in Nat \ {0} /\ Chunk \in Nat \ {0}
  BY ChunkBlocks
<1>3. szcheck \in Nat /\ mincheck \in Nat /\ mincheck + szcheck = Blocks * Block /\ szcheck <= Chunk
  BY DEF Aligned, Counted, Adds
<1> HIDE DEF size, r
<1>4. size - mincheck = szcheck + r /\ size - mincheck \in Nat
  BY <1>1, <1>2, <1>3
<1>5. ASSUME size - mincheck > Chunk PROVE Straggler(File)
  <2>1. PICK a \in Nat : Chunk = a * Block
    BY ChunkBlocks
  <2>2. PICK b \in Nat : szcheck = b * Block
    BY DEF Aligned, Counted, Adds
  <2>3. szcheck = Chunk
    <3>1. SUFFICES ASSUME szcheck < Chunk PROVE FALSE
      BY <1>2, <1>3
    <3>2. szcheck + Block <= Chunk
      BY <1>2, <2>1, <2>2, <3>1, MultiplesApart
    <3> QED  BY <1>1, <1>2, <1>3, <1>4, <1>5, <3>2
  <2>4. r \in 1 .. (Block - 1)
    BY <1>1, <1>2, <1>4, <1>5, <2>3
  <2>5. Block <= Chunk
    BY <1>1, <1>2, <2>1
  <2>6. PICK c \in Nat : mincheck = Chunk * c
    BY DEF Aligned, Counted, Adds
  <2>7. size = Chunk * (c + 1) + r
    BY <1>1, <1>2, <1>3, <1>4, <2>3, <2>6
  <2>8. size % Chunk = r
    <3>1. c + 1 \in Nat /\ r \in 0 .. (Chunk - 1)
      BY <1>2, <2>4, <2>5
    <3>2. size \in Nat
      BY <1>1
    <3>3. PICK d \in Nat : d = c + 1
      BY <3>1
    <3>4. size = Chunk * d + r
      BY <2>7, <3>3
    <3> QED  BY <1>2, <3>1, <3>2, <3>4, RestOfUnits
  <2>9. size > Chunk
    BY <1>2, <1>1, <1>3, <1>4, <1>5
  <2> QED  BY <2>4, <2>8, <2>9 DEF Straggler, size
<1> QED  BY <1>1, <1>2, <1>4, <1>5 DEF size, r

(* Items that are finished stay so. *)
LEMMA FinishedKept ==
  ASSUME NEW k, Finished(k), files' = files, table' = table, out'[k] = out[k]
  PROVE  Finished(k)'
BY DEF Finished, ItemRead, Entry

LEMMA StartContentsFills ==
  ASSUME PkgInv, StartContents
  PROVE  PkgInv'
<1> USE DEF StartContents
<1>1. i \in 1 .. Len(files) /\ i \in Nat \ {0} /\ files \in Package
  BY PkgAssumption DEF PkgInv, Known
<1>2. Len(files) \in Nat /\ ItemRead(i) \in Item
  BY <1>1, ItemIs
<1> DEFINE size == File.fileSize
           o == File.fileOffset
<1>3. size \in Nat /\ o \in Nat /\ ~File.dir /\ File' = File
  BY <1>2 DEF File, Item, ItemRead, Entry
<1>4. Chunk \in Nat \ {0} /\ Block \in Nat \ {0}
  BY ChunkBlocks
<1>5. IsSeq(out) /\ Len(out) = i - 1
  BY DEF PkgInv, Known
<1>6. IsSeq(out') /\ Len(out') = i /\ out'[i] = <<>> /\ \A k \in 1 .. i - 1 : out'[k] = out[k]
  BY <1>1, <1>5, IsSeqAppend
<1>7. Known'
  BY <1>6 DEF PkgInv, Known
<1>8. Aligned'
  <2>1. size \div Block \in Nat
    BY <1>3, <1>4, QuotientRest
  <2>2. Blocks' \in Nat
    BY <1>3, <2>1 DEF Blocks
  <2>3. 0 = Chunk * 0 /\ 0 = 0 * Block
    BY <1>4
  <2> QED  BY <1>4, <2>2, <2>3 DEF Aligned, Counted, Adds, Adds
<1>9. Filling'
  <2>0. PICK key : key = [b \in {0} |-> KeyFor(o)]
    OBVIOUS
  <2>1. Stream(key, j', KeyFor(o)) /\ key[j'] = pubKey'
    BY <2>0 DEF Stream
  <2>2. IsSeq(out'[i]) /\ Len(out'[i]) = 0
    <3>1. <<>> \in Seq({})
      OBVIOUS
    <3> QED  BY <1>6, <3>1 DEF IsSeq
  <2>3. buf' = [q \in 1 .. Chunk |-> buf'[q]]
    BY DEF ReadInto
  <2>4. ASSUME NEW q \in 0 + 1 .. Chunk, 0 + q <= size
        PROVE  buf'[q] = Cipher(o + 0 + q - 1)
    <3>1. q <= AtMostChunk(size) /\ q \in 1 .. Chunk
      BY <1>3, <1>4, <2>4 DEF AtMostChunk
    <3>2. buf'[q] = Cipher(o + q - 1)
      BY <3>1 DEF ReadInto
    <3> QED  BY <1>3, <3>2
  <2>5. at' = o + 0 + AtMostChunk(size - 0)
    BY <1>3, <1>4 DEF AtMostChunk
  <2>6. Filled(key)'
    <3>1. i' = i /\ szcheck' = 0 /\ mincheck' = 0
      OBVIOUS
    <3> HIDE DEF StartContents
    <3>2. \A q \in szcheck' + 1 .. Chunk :
            mincheck' + q <= File'.fileSize => buf'[q] = Cipher(File'.fileOffset + mincheck' + q - 1)
      BY <1>3, <2>4, <3>1
    <3>3. \A p \in 1 .. mincheck' : FALSE
      BY <3>1
    <3>4. \A q \in 1 .. szcheck' : FALSE
      BY <3>1
    <3>5. at' = Reached(mincheck)'
      BY <1>3, <2>5, <3>1 DEF Reached, AtMostChunk
    <3>6. IsSeq(out'[i']) /\ Len(out'[i']) = mincheck'
      BY <2>2, <3>1
    <3> QED  BY <2>3, <3>2, <3>3, <3>4, <3>5, <3>6 DEF Filled, Holds
  <2> HIDE DEF StartContents
  <2>7. Stream(key, j', KeyFor(File'.fileOffset))
    BY <1>3, <2>1
  <2> QED  BY <1>3, <1>8, <2>1, <2>6, <2>7 DEF Filling
<1>10. ContentsDecrypted'
  BY <1>1, <1>6, FinishedKept DEF PkgInv, ContentsDecrypted
<1>11. NoOverread'
  BY DEF PkgInv, NoOverread, Straggler
<1> QED  BY <1>7, <1>9, <1>10, <1>11 DEF PkgInv

(* The blocks of the first n, by position. *)
LEMMA BlockOf ==
  ASSUME NEW n \in Nat, NEW p \in Nat \ {0}, p <= n * Block
  PROVE  (p - 1) \div Block \in 0 .. (n - 1)
<1>1. Block \in Nat \ {0} /\ p - 1 \in Nat
  BY ChunkBlocks
<1> DEFINE q == (p - 1) \div Block
<1>2. p - 1 = Block * q + ((p - 1) % Block) /\ (p - 1) % Block \in 0 .. (Block - 1) /\ q \in Nat
  BY <1>1, QuotientRest
<1> HIDE DEF q
<1>3. SUFFICES ASSUME q >= n PROVE FALSE
  BY <1>2 DEF q
<1>4. PICK d \in Nat : q = n + d
  BY <1>2, <1>3
<1>5. Block * q = n * Block + Block * d /\ Block * d \in Nat /\ n * Block \in Nat
  BY <1>1, <1>4
<1> QED  BY <1>1, <1>2, <1>5

(* The next block lies within the buffer and within the file. *)
LEMMA NextBlock ==
  ASSUME Known, phase = "contents", NEW n \in Nat, NEW m, NEW s, Counted(n, m, s), s < Chunk, n < Blocks
  PROVE  /\ m \in Nat /\ s \in Nat /\ m + s = n * Block /\ s + Block <= Chunk
         /\ m + s + Block <= File.fileSize /\ Counted(n + 1, m, s + Block)
<1>1. m \in Nat /\ s \in Nat /\ m + s = n * Block
  BY DEF Counted, Adds
<1>2. /\ Block \in Nat \ {0} /\ Chunk \in Nat \ {0} /\ Blocks \in Nat
      /\ Blocks * Block \in Nat /\ File.fileSize \in Nat /\ Blocks * Block <= File.fileSize
  BY ChunkBlocks, CurrentItem
<1>3. PICK a \in Nat : Chunk = a * Block
  BY ChunkBlocks
<1>4. PICK d \in Nat : s = d * Block
  BY DEF Counted
<1>5. s + Block <= Chunk
  BY <1>2, <1>3, <1>4, MultiplesApart
<1>6. n * Block + Block <= Blocks * Block
  <2>1. PICK x \in Nat : Blocks = n + 1 + x
    BY <1>2
  <2>2. Blocks * Block = n * Block + Block + x * Block /\ x * Block \in Nat /\ n * Block \in Nat
    BY <1>2, <2>1
  <2> HIDE <2>1
  <2> QED  BY <1>2, <2>2
<1>7. (n + 1) * Block = n * Block + Block /\ (d + 1) * Block = d * Block + Block
  BY <1>2
<1>8. Counted(n + 1, m, s + Block)
  <2>1. s + Block = (d + 1) * Block /\ d + 1 \in Nat
    BY <1>4, <1>7
  <2>2. \E x \in Nat : s + Block = x * Block
    BY <2>1
  <2>3. \E c \in Nat : m = Chunk * c
    BY DEF Counted
  <2>4. m + (s + Block) = (n + 1) * Block
    BY <1>1, <1>2, <1>7
  <2>5. n + 1 \in 0 .. Blocks /\ s + Block \in Nat
    BY <1>1, <1>2
  <2> QED  BY <1>1, <1>5, <2>2, <2>3, <2>4, <2>5 DEF Counted, Adds
<1> QED  BY <1>1, <1>2, <1>5, <1>6, <1>8

(* A block of the buffer decrypted. *)
LEMMA HoldsOn ==
  ASSUME Known, phase = "contents", NEW n \in Nat, NEW m, NEW s, Counted(n, m, s), s < Chunk, n < Blocks,
         NEW w, NEW b, NEW key, Stream(key, n, KeyFor(File.fileOffset)), Holds(key, w, m, b, s)
  PROVE  \E more : /\ Stream(more, n + 1, KeyFor(File.fileOffset)) /\ more[n + 1] = Increment(key[n])
                   /\ Holds(more, w, m, Xor128(b, s, key[n]), s + Block)
<1> DEFINE o == File.fileOffset
           size == File.fileSize
           c == Xor128(b, s, key[n])
<1>1. /\ m \in Nat /\ s \in Nat /\ m + s = n * Block /\ s + Block <= Chunk
      /\ m + s + Block <= size
  BY NextBlock
<1>2. o \in Nat /\ size \in Nat /\ Block \in Nat \ {0} /\ Chunk \in Nat \ {0}
  BY CurrentItem, ChunkBlocks
<1>3. PICK more : /\ Stream(more, n + 1, KeyFor(o)) /\ more[n + 1] = Increment(key[n])
                  /\ \A x \in 0 .. n : more[x] = key[x]
  <2> DEFINE next == [x \in 0 .. n + 1 |-> IF x <= n THEN key[x] ELSE Increment(key[n])]
  <2>1. /\ Stream(next, n + 1, KeyFor(o)) /\ next[n + 1] = Increment(key[n])
        /\ \A x \in 0 .. n : next[x] = key[x]
    BY StreamOn
  <2> HIDE DEF next
  <2> QED  BY <2>1
(* The bytes before the block belong to blocks before it. *)
<1>4. ASSUME NEW p \in 1 .. m + s
      PROVE  more[(p - 1) \div Block] = key[(p - 1) \div Block]
  <2>1. p \in Nat \ {0} /\ p <= n * Block
    BY <1>1
  <2>2. (p - 1) \div Block \in 0 .. (n - 1)
    BY <2>1, BlockOf
  <2>3. 0 .. (n - 1) \subseteq 0 .. n
    OBVIOUS
  <2> HIDE DEF Stream
  <2> QED  BY <1>3, <2>2, <2>3
<1>5. /\ DOMAIN c = 1 .. Chunk
      /\ \A q \in (1 .. Chunk) \ (s + 1 .. s + Block) : c[q] = b[q]
      /\ \A q \in s + 1 .. s + Block : c[q] = Turned(key[n], o, m + q) /\ (m + q - 1) \div Block = n
  <2>1. DOMAIN b = 1 .. Chunk
    BY DEF Holds
  <2>2. s + 1 .. s + Block \subseteq DOMAIN b
    BY <1>1, <1>2, <2>1
  <2>3. ASSUME NEW q \in s + 1 .. s + Block PROVE b[q] = Cipher(o + m + q - 1)
    <3>1. q \in s + 1 .. Chunk /\ m + q <= size
      BY <1>1, <1>2
    <3> QED  BY <3>1 DEF Holds
  <2>4. Raw(b, o, m, s) /\ Adds(n, m, s)
    BY <2>2, <2>3 DEF Raw, Counted
  <2> HIDE DEF o
  <2>5. BlockDone(b, Xor128(b, s, key[n]), key[n], o, m, s)
    BY <1>2, <2>4, BlockTurned
  <2>6. \A q \in s + 1 .. s + Block : (m + q - 1) \div Block = n
    BY <2>4, PlaceInBlock
  <2> QED  BY <2>1, <2>5, <2>6 DEF BlockDone
<1>51. c = [q \in 1 .. Chunk |-> c[q]]
  BY <1>5 DEF Xor128
<1> HIDE DEF c
<1>6. \A p \in 1 .. m : w[p] = Turned(more[(p - 1) \div Block], o, p)
  <2>1. 1 .. m \subseteq 1 .. m + s
    BY <1>1
  <2> QED  BY <1>4, <2>1 DEF Holds
<1>7. ASSUME NEW q \in 1 .. s + Block
      PROVE  c[q] = Turned(more[(m + q - 1) \div Block], o, m + q)
  <2>1. CASE q <= s
    <3>1. q \in 1 .. s /\ q \in (1 .. Chunk) \ (s + 1 .. s + Block) /\ m + q \in 1 .. m + s
      BY <1>1, <1>2, <2>1
    <3>2. b[q] = Turned(key[(m + q - 1) \div Block], o, m + q)
      BY <3>1 DEF Holds
    <3>3. PICK p \in 1 .. m + s : p = m + q
      BY <3>1
    <3>4. more[(p - 1) \div Block] = key[(p - 1) \div Block]
      BY <1>4
    <3>5. c[q] = b[q]
      BY <1>5, <3>1
    <3>6. m + q - 1 = p - 1
      BY <1>1, <3>3
    <3> QED  BY <3>2, <3>4, <3>5, <3>6
  <2>2. CASE q > s
    <3>1. q \in s + 1 .. s + Block
      BY <1>1, <1>2, <2>2
    <3>2. more[n] = key[n]
      BY <1>3
    <3> QED  BY <1>5, <3>1, <3>2
  <2> QED  BY <1>1, <1>2, <2>1, <2>2
<1>8. ASSUME NEW q \in s + Block + 1 .. Chunk, m + q <= size
      PROVE  c[q] = Cipher(o + m + q - 1)
  <2>1. q \in s + 1 .. Chunk /\ q \in (1 .. Chunk) \ (s + 1 .. s + Block)
    BY <1>1, <1>2
  <2>2. b[q] = Cipher(o + m + q - 1)
    BY <1>8, <2>1 DEF Holds
  <2> QED  BY <1>5, <2>1, <2>2
<1>9. Holds(more, w, m, c, s + Block)
  <2>1. IsSeq(w) /\ Len(w) = m
    BY DEF Holds
  <2> QED  BY <1>51, <1>6, <1>7, <1>8, <2>1 DEF Holds
<1> QED  BY <1>3, <1>9 DEF c

(* The buffer written and filled anew: nothing of it is decrypted. *)
LEMMA Refilled ==
  ASSUME Known, phase = "contents", Aligned, j < Blocks, szcheck = Chunk, NEW key, Filled(key)
  PROVE  /\ Counted(j, mincheck + Chunk, 0)
         /\ Holds(key, Written(buf), mincheck + Chunk, ReadInto(buf, at, RefillLength), 0)
         /\ at + RefillLength = Reached(mincheck + Chunk)
<1> DEFINE o == File.fileOffset
           size == File.fileSize
           m == mincheck + Chunk
           b == ReadInto(buf, at, RefillLength)
<1>1. /\ o \in Nat /\ size \in Nat /\ Block \in Nat \ {0} /\ Chunk \in Nat \ {0}
      /\ Blocks \in Nat /\ Blocks * Block \in Nat /\ Blocks * Block <= size
  BY CurrentItem, ChunkBlocks
<1>2. mincheck \in Nat /\ j \in Nat /\ j \in 0 .. Blocks /\ m = j * Block
  BY DEF Aligned, Counted, Adds
<1>3. j * Block < Blocks * Block
  <2>1. PICK x \in Nat : Blocks = j + 1 + x
    BY <1>1, <1>2
  <2>2. Blocks * Block = j * Block + Block + x * Block /\ x * Block \in Nat /\ j * Block \in Nat
    BY <1>1, <1>2, <2>1
  <2> HIDE <2>1
  <2> QED  BY <1>1, <2>2
<1>4. m \in Nat /\ m < size /\ AtMostChunk(size - mincheck) = Chunk /\ at = o + m
  <2>1. m \in Nat /\ m < size
    BY <1>1, <1>2, <1>3
  <2> QED  BY <1>1, <1>2, <2>1 DEF Filled, Reached, AtMostChunk
<1>5. RefillLength = AtMostChunk(size - m) /\ RefillLength \in Nat
  BY <1>1, <1>2, <1>4 DEF RefillLength, Rest, AtMostChunk
<1>6. Counted(j, m, 0)
  <2>1. PICK c \in Nat : mincheck = Chunk * c
    BY DEF Aligned, Counted
  <2>2. m = Chunk * (c + 1) /\ c + 1 \in Nat /\ 0 = 0 * Block
    BY <1>1, <2>1
  <2>3. (\E x \in Nat : m = Chunk * x) /\ \E x \in Nat : 0 = x * Block
    BY <2>2
  <2>4. Adds(j, m, 0) /\ 0 <= Chunk
    BY <1>1, <1>2, <1>4 DEF Adds
  <2> HIDE DEF m
  <2> QED  BY <1>2, <2>3, <2>4 DEF Counted
<1>7. IsSeq(out[i]) /\ IsSeq(buf) /\ Len(out[i]) = mincheck /\ Len(buf) = Chunk
      /\ DOMAIN buf = 1 .. Chunk
  <2>1. DOMAIN buf = 1 .. Chunk /\ IsSeq(out[i]) /\ Len(out[i]) = mincheck
    BY DEF Filled, Holds
  <2>2. buf = [p \in 1 .. Chunk |-> buf[p]]
    BY <2>1 DEF Filled, Holds
  <2> QED  BY <1>1, <2>1, <2>2, IsSeqFunction
<1>8. /\ IsSeq(Written(buf)) /\ Len(Written(buf)) = m
      /\ \A p \in 1 .. mincheck : Written(buf)[p] = out[i][p]
      /\ \A p \in 1 .. Chunk : Written(buf)[mincheck + p] = buf[p]
  <2> DEFINE v == out[i]
  <2>1. Written(buf) = v \o buf /\ IsSeq(v) /\ Len(v) = mincheck
    BY <1>7 DEF Written
  <2> HIDE DEF v
  <2>2. Joined(v \o buf, v, buf)
    BY <1>7, <2>1, IsSeqConcat
  <2> QED  BY <1>7, <2>1, <2>2 DEF v, Joined
<1>9. ASSUME NEW p \in 1 .. m
      PROVE  Written(buf)[p] = Turned(key[(p - 1) \div Block], o, p)
  <2>1. CASE p <= mincheck
    BY <1>2, <1>8, <2>1 DEF Filled, Holds
  <2>2. CASE p > mincheck
    <3>1. PICK q \in 1 .. Chunk : p = mincheck + q
      <4>1. p - mincheck \in 1 .. Chunk /\ p = mincheck + (p - mincheck)
        BY <1>1, <1>2, <2>2
      <4> QED  BY <4>1
    <3>2. buf[q] = Turned(key[(mincheck + q - 1) \div Block], o, mincheck + q)
      BY DEF Filled, Holds
    <3>3. Written(buf)[mincheck + q] = buf[q]
      BY <1>8
    <3>4. p - 1 = mincheck + q - 1
      BY <1>2, <3>1
    <3> QED  BY <3>1, <3>2, <3>3, <3>4
  <2> QED  BY <1>2, <1>4, <2>1, <2>2
<1>10. b = [q \in 1 .. Chunk |-> b[q]]
  BY <1>7 DEF ReadInto
<1>11. ASSUME NEW q \in 0 + 1 .. Chunk, m + q <= size
       PROVE  b[q] = Cipher(o + m + q - 1)
  <2>1. q <= RefillLength
    BY <1>1, <1>4, <1>5, <1>11 DEF AtMostChunk
  <2> QED  BY <1>4, <1>7, <2>1 DEF ReadInto
<1>12. Holds(key, Written(buf), m, b, 0)
  <2>1. \A q \in 1 .. 0 : FALSE
    OBVIOUS
  <2> QED  BY <1>8, <1>9, <1>10, <1>11, <2>1 DEF Holds
<1> QED  BY <1>4, <1>5, <1>6, <1>12 DEF Reached

LEMMA DecryptContentsFills ==
  ASSUME PkgInv, DecryptContents
  PROVE  PkgInv'
<1>1. /\ phase = "contents" /\ j < Blocks /\ phase' = phase /\ i' = i /\ files' = files
      /\ table' = table /\ name' = name /\ overread' = overread
      /\ j' = j + 1 /\ pubKey' = Increment(pubKey)
  BY DEF DecryptContents
<1>2. /\ Known /\ Aligned /\ ~File.dir /\ ContentsDecrypted /\ NoOverread
      /\ IsSeq(out) /\ Len(out) = i /\ i \in 1 .. Len(out) /\ i \in Nat
  BY <1>1 DEF PkgInv, Known, Filling
<1>3. PICK key : Stream(key, j, KeyFor(File.fileOffset)) /\ key[j] = pubKey /\ Filled(key)
  BY <1>1 DEF PkgInv, Filling
<1>4. File' = File /\ Blocks' = Blocks
  BY <1>1 DEF File, ItemRead, Entry, Blocks
<1>5. PICK w, m, s, b :
        /\ out' = [out EXCEPT ![i] = w] /\ mincheck' = m /\ szcheck' = s + Block
        /\ buf' = Xor128(b, s, pubKey) /\ at' = Reached(m)
        /\ Counted(j, m, s) /\ s < Chunk /\ Holds(key, w, m, b, s)
  <2>1. CASE szcheck = Chunk
    <3> DEFINE m == mincheck + Chunk
               b == ReadInto(buf, at, RefillLength)
    <3>1. /\ out' = [out EXCEPT ![i] = Written(buf)] /\ mincheck' = m /\ szcheck' = Block
          /\ buf' = Xor128(b, j * Block - m, pubKey) /\ at' = at + RefillLength
      BY <2>1 DEF DecryptContents
    <3>2. Counted(j, m, 0) /\ Holds(key, Written(buf), m, b, 0) /\ at + RefillLength = Reached(m)
      BY <1>1, <1>2, <1>3, <2>1, Refilled
    <3>3. j * Block - m = 0 /\ Block = 0 + Block /\ 0 < Chunk
      BY <3>2, ChunkBlocks DEF Counted, Adds
    <3> HIDE DEF m, b
    <3> QED  BY <3>1, <3>2, <3>3
  <2>2. CASE szcheck # Chunk
    <3>1. /\ out' = out /\ mincheck' = mincheck /\ szcheck' = szcheck + Block /\ at' = at
          /\ buf' = Xor128(buf, j * Block - mincheck, pubKey)
      BY <2>2 DEF DecryptContents
    <3>2. out' = [out EXCEPT ![i] = out[i]]
      <4>1. DOMAIN out = 1 .. Len(out) /\ out = [p \in 1 .. Len(out) |-> out[p]]
        BY <1>2, SeqDomain
      <4> QED  BY <3>1, <4>1
    <3>3. Counted(j, mincheck, szcheck) /\ szcheck < Chunk /\ j * Block - mincheck = szcheck
      BY <1>2, <2>2, ChunkBlocks DEF Aligned, Counted, Adds
    <3> QED  BY <1>3, <3>1, <3>2, <3>3 DEF Filled
  <2> QED  BY <2>1, <2>2
<1>6. j \in Nat
  BY <1>5 DEF Counted, Adds
<1>7. PICK more : /\ Stream(more, j + 1, KeyFor(File.fileOffset)) /\ more[j + 1] = Increment(key[j])
                  /\ Holds(more, w, m, Xor128(b, s, key[j]), s + Block)
  BY <1>1, <1>2, <1>3, <1>5, <1>6, HoldsOn
<1>8. /\ IsSeq(out') /\ Len(out') = i /\ out'[i] = w
      /\ \A k \in 1 .. i - 1 : out'[k] = out[k]
  <2> DEFINE v == [out EXCEPT ![i] = w]
  <2>1. Replaced(v, out, i, w)
    BY <1>2, IsSeqExcept
  <2>2. out' = v
    BY <1>5
  <2> HIDE DEF v
  <2> QED  BY <1>2, <2>1, <2>2 DEF Replaced
<1>9. Known'
  BY <1>1, <1>2, <1>8 DEF Known
<1>10. Filling'
  <2>1. Counted(j + 1, m, s + Block)
    BY <1>1, <1>2, <1>5, <1>6, NextBlock
  <2>2. Aligned'
    BY <1>1, <1>4, <1>5, <2>1 DEF Aligned, Counted, Adds
  <2>3. Filled(more)'
    BY <1>1, <1>3, <1>4, <1>5, <1>7, <1>8 DEF Filled, Holds, Reached, AtMostChunk
  <2>4. Stream(more, j', KeyFor(File'.fileOffset)) /\ more[j'] = pubKey'
    BY <1>1, <1>3, <1>4, <1>7
  <2> QED  BY <1>2, <1>4, <2>2, <2>3, <2>4 DEF Filling
<1>11. ContentsDecrypted'
  BY <1>1, <1>2, <1>8, FinishedKept DEF ContentsDecrypted
<1>12. NoOverread'
  BY <1>1, <1>2 DEF NoOverread, Straggler
<1> QED  BY <1>9, <1>10, <1>11, <1>12 DEF PkgInv

(* The last part of a file, with the incomplete block as it was. *)
LEMMA WriteRestFinishes ==
  ASSUME PkgInv, WriteRest
  PROVE  PkgInv'
<1> DEFINE o == File.fileOffset
           size == File.fileSize
           left == size - mincheck
           whole == Blocks * Block
<1>1. /\ phase = "contents" /\ j = Blocks /\ phase' = "name" /\ i' = i + 1 /\ files' = files
      /\ table' = table /\ name' = name /\ mincheck' = mincheck
      /\ out' = [out EXCEPT ![i] = IF left > 0 THEN Written(FromBuf(left)) ELSE @]
      /\ overread' = (overread \/ left > Chunk)
  BY DEF WriteRest
<1>2. /\ Known /\ Aligned /\ ~File.dir /\ ContentsDecrypted /\ NoOverread
      /\ IsSeq(out) /\ Len(out) = i /\ i \in 1 .. Len(out) /\ i \in Nat \ {0} /\ Len(name) = i
  BY <1>1 DEF PkgInv, Known, Filling
<1>3. PICK key : Stream(key, j, KeyFor(File.fileOffset)) /\ Filled(key)
  BY <1>1 DEF PkgInv, Filling
<1>4. /\ o \in Nat /\ size \in Nat /\ Block \in Nat \ {0} /\ Chunk \in Nat \ {0}
      /\ Blocks \in Nat /\ Blocks * Block \in Nat /\ i \in 1 .. Len(files)
      /\ size % Block \in 0 .. (Block - 1) /\ size = Blocks * Block + (size % Block)
  BY <1>1, <1>2, CurrentItem, ChunkBlocks
<1>5. /\ left = szcheck + (size % Block) /\ left \in Nat
      /\ left <= Chunk \/ Straggler(File)
  BY <1>1, <1>2, Leftover
<1>6. mincheck \in Nat /\ szcheck \in Nat /\ mincheck + szcheck = Blocks * Block
  BY <1>1, <1>2 DEF Aligned, Counted, Adds
<1>7. IsSeq(out[i]) /\ Len(out[i]) = mincheck
  BY <1>3 DEF Filled, Holds
<1> DEFINE w == IF left > 0 THEN Written(FromBuf(left)) ELSE out[i]
<1>8. /\ IsSeq(out') /\ Len(out') = i /\ out'[i] = w
      /\ \A k \in 1 .. i - 1 : out'[k] = out[k]
  <2> DEFINE v == [out EXCEPT ![i] = w]
  <2>1. Replaced(v, out, i, w)
    BY <1>2, IsSeqExcept
  <2>2. out' = v
    <3>1. DOMAIN out = 1 .. Len(out)
      BY <1>2, SeqDomain
    <3> QED  BY <1>1, <1>2, <3>1
  <2> HIDE DEF v
  <2> QED  BY <1>2, <2>1, <2>2 DEF Replaced
<1>9. Known'
  BY <1>1, <1>2, <1>8 DEF Known
<1>10. Filling'
  BY <1>1 DEF Filling
<1>20. /\ o \in Nat /\ size \in Nat /\ left \in Nat /\ mincheck \in Nat /\ szcheck \in Nat /\ Chunk \in Nat
       /\ whole \in Nat /\ mincheck + left = size /\ mincheck + szcheck = whole /\ szcheck <= left
  <2>1. PICK r \in Nat : r = size % Block
    BY <1>4
  <2>2. left = szcheck + r /\ size \in Nat /\ mincheck \in Nat /\ szcheck \in Nat
    BY <1>4, <1>5, <1>6, <2>1
  <2>3. mincheck + left = size
    <3> HIDE DEF size
    <3> QED  BY <2>2
  <2>4. szcheck <= left
    <3> HIDE DEF left
    <3> QED  BY <2>2
  <2>5. left \in Nat
    BY <1>5
  <2>6. whole \in Nat /\ mincheck + szcheck = whole
    BY <1>4, <1>6
  <2> HIDE DEF left, whole, size
  <2> QED  BY <1>4, <2>2, <2>3, <2>4, <2>5, <2>6
<1>21. w = (IF left > 0 THEN Written(FromBuf(left)) ELSE out[i])
  OBVIOUS
<1> HIDE DEF size, left, whole, w
<1>11. Straggler(File) \/ Decrypted(w, o, size \div Block, size, KeyFor(o))
  <2>1. SUFFICES ASSUME left <= Chunk PROVE Decrypted(w, o, size \div Block, size, KeyFor(o))
    BY <1>5
  <2>2. /\ Len(w) = size /\ w = [p \in 1 .. size |-> w[p]]
        /\ \A p \in 1 .. mincheck : w[p] = out[i][p]
        /\ \A q \in 1 .. left : w[mincheck + q] = buf[q]
    <3>1. CASE left = 0
      <4>1. w = out[i] /\ mincheck = size
        BY <1>20, <1>21, <3>1
      <4>2. out[i] = [p \in 1 .. mincheck |-> out[i][p]]
        BY <1>7, SeqDomain
      <4>3. w = [p \in 1 .. size |-> w[p]]
        <5> HIDE <4>1
        <5> DEFINE v == out[i]
        <5>1. v = [p \in 1 .. mincheck |-> v[p]]
          BY <4>2
        <5>2. w = v /\ mincheck = size
          BY <4>1
        <5> HIDE DEF v
        <5> QED  BY <5>1, <5>2
      <4>4. Len(w) = size
        BY <1>7, <4>1
      <4>5. \A p \in 1 .. mincheck : w[p] = out[i][p]
        BY <4>1
      <4>6. 1 .. left = {}
        BY <3>1
      <4> QED  BY <4>3, <4>4, <4>5, <4>6
    <3>2. CASE left # 0
      <4> DEFINE v == out[i]
                 r == FromBuf(left)
      <4>1. w = v \o r
        BY <1>20, <1>21, <3>2 DEF Written
      <4>2. r = [q \in 1 .. left |-> r[q]] /\ \A q \in 1 .. left : r[q] = buf[q]
        BY <1>20, <2>1 DEF FromBuf
      <4>3. IsSeq(v) /\ Len(v) = mincheck
        BY <1>7
      <4> HIDE DEF v, r
      <4>4. IsSeq(r) /\ Len(r) = left
        BY <1>20, <4>2, IsSeqFunction
      <4>5. Joined(v \o r, v, r)
        BY <4>3, <4>4, IsSeqConcat
      <4>6. /\ IsSeq(w) /\ Len(w) = mincheck + left
            /\ \A p \in 1 .. mincheck : w[p] = v[p]
            /\ \A q \in 1 .. left : w[mincheck + q] = r[q]
        BY <4>1, <4>3, <4>4, <4>5 DEF Joined
      <4>7. w = [p \in 1 .. size |-> w[p]] /\ mincheck + left = size
        <5>1. mincheck + left = size
          BY <1>20
        <5> QED  BY <4>6, <5>1, SeqDomain
      <4> QED  BY <4>2, <4>6, <4>7 DEF v
    <3> QED  BY <3>1, <3>2
  <2>3. ASSUME NEW p \in 1 .. size
        PROVE  w[p] = IF p <= whole THEN Turned(key[(p - 1) \div Block], o, p)
                      ELSE Cipher(o + p - 1)
    <3>1. CASE p <= mincheck
      <4>1. p \in 1 .. mincheck /\ p <= whole
        BY <1>20, <3>1
      <4>2. out[i][p] = Turned(key[(p - 1) \div Block], o, p)
        BY <1>3, <4>1 DEF Filled, Holds
      <4> QED  BY <2>2, <4>1, <4>2
    <3>2. CASE p > mincheck
      <4>1. PICK q \in 1 .. left : p = mincheck + q
        <5>1. p - mincheck \in 1 .. left /\ p = mincheck + (p - mincheck)
          BY <1>20, <3>2
        <5> QED  BY <5>1
      <4>2. w[p] = buf[q] /\ p - 1 = mincheck + q - 1 /\ o + p - 1 = o + mincheck + q - 1
        <5>1. w[mincheck + q] = buf[q]
          BY <2>2
        <5>2. p - 1 = mincheck + q - 1 /\ o + p - 1 = o + mincheck + q - 1
          BY <1>20, <4>1
        <5> QED  BY <4>1, <5>1, <5>2
      <4>3. CASE q <= szcheck
        <5>1. q \in 1 .. szcheck /\ p <= whole
          BY <1>20, <4>1, <4>3
        <5>2. buf[q] = Turned(key[(mincheck + q - 1) \div Block], o, mincheck + q)
          BY <1>3, <5>1 DEF Filled, Holds, size
        <5> QED  BY <4>1, <4>2, <5>1, <5>2
      <4>4. CASE q > szcheck
        <5>1. q \in szcheck + 1 .. Chunk /\ mincheck + q <= size /\ ~(p <= whole)
          BY <1>20, <2>1, <4>1, <4>4
        <5>2. buf[q] = Cipher(o + mincheck + q - 1)
          BY <1>3, <5>1 DEF Filled, Holds, size
        <5> QED  BY <4>2, <5>1, <5>2
      <4> QED  BY <1>20, <4>3, <4>4
    <3> QED  BY <1>20, <3>1, <3>2
  <2>4. Blocks = size \div Block
    BY DEF Blocks, size
  <2>5. DecryptedBy(key, w, o, size \div Block, size)
    BY <2>2, <2>3, <2>4 DEF DecryptedBy, whole
  <2> QED  BY <1>1, <1>3, <2>4, <2>5 DEF Decrypted
<1>13. ContentsDecrypted'
  <2>1. ASSUME NEW k \in 1 .. i - 1 PROVE Finished(k)'
    BY <1>1, <1>2, <1>8, FinishedKept DEF ContentsDecrypted
  <2>2. ASSUME NEW k, k = i PROVE Finished(k)'
    <3>1. ItemRead(k) = File /\ ItemRead(k)' = File
      BY <1>1, <2>2 DEF File, ItemRead, Entry
    <3>2. out'[k] = w
      BY <1>8, <2>2
    <3> QED  BY <1>2, <1>11, <3>1, <3>2 DEF Finished, KeyFor, size
  <2>3. 1 .. i' - 1 = 1 .. i - 1 \cup {i}
    BY <1>1, <1>2
  <2> QED  BY <2>1, <2>2, <2>3 DEF ContentsDecrypted
<1>14. NoOverread'
  <2>1. SUFFICES ASSUME ~overread, left > Chunk PROVE \E k \in 1 .. i' - 1 : Straggler(files[k])
    <3>1. overread => \E k \in 1 .. i - 1 : Straggler(files[k])
      BY <1>2 DEF NoOverread
    <3>2. 1 .. i - 1 \subseteq 1 .. i' - 1
      BY <1>1, <1>2
    <3> QED  BY <1>1, <3>1, <3>2 DEF NoOverread, Straggler
  <2>2. Straggler(File)
    BY <1>20, <1>5, <2>1
  <2>3. File = files[i]
    <3>1. File = files[i] \/ File = NoItem
      BY DEF File, ItemRead
    <3>2. File # NoItem
      BY <1>20, <2>2 DEF NoItem, Straggler, size
    <3> QED  BY <3>1, <3>2
  <2>4. i \in 1 .. i' - 1
    BY <1>1, <1>2
  <2> QED  BY <2>2, <2>3, <2>4
<1> QED  BY <1>9, <1>10, <1>13, <1>14 DEF PkgInv

-----------------------------------------------------------------------------
(* The other steps. *)

LEMMA MakeDirectoryFinishes ==
  ASSUME PkgInv, MakeDirectory
  PROVE  PkgInv'
<1>1. /\ phase = "name" /\ Len(name) = i /\ File.dir /\ out' = Append(out, <<>>) /\ i' = i + 1
      /\ phase' = phase /\ files' = files /\ table' = table /\ name' = name /\ overread' = overread
  BY DEF MakeDirectory
<1>2. /\ Known /\ ContentsDecrypted /\ NoOverread /\ i \in Nat \ {0}
      /\ IsSeq(out) /\ Len(out) = i - 1
  BY <1>1 DEF PkgInv, Known
<1>3. IsSeq(out') /\ Len(out') = i /\ out'[i] = <<>> /\ \A k \in 1 .. i - 1 : out'[k] = out[k]
  BY <1>1, <1>2, IsSeqAppend
<1>4. Known'
  BY <1>1, <1>2, <1>3 DEF Known
<1>5. Filling'
  BY <1>1 DEF Filling
<1>6. ContentsDecrypted'
  <2>1. ASSUME NEW k \in 1 .. i - 1 PROVE Finished(k)'
    BY <1>1, <1>2, <1>3, FinishedKept DEF ContentsDecrypted
  <2>2. ASSUME NEW k, k = i PROVE Finished(k)'
    <3>1. ItemRead(k)'.dir
      BY <1>1, <2>2 DEF File, ItemRead, Entry
    <3> QED  BY <1>3, <2>2, <3>1 DEF Finished
  <2>3. 1 .. i' - 1 = 1 .. i - 1 \cup {i}
    BY <1>1, <1>2
  <2> QED  BY <2>1, <2>2, <2>3 DEF ContentsDecrypted
<1>7. NoOverread'
  <2>1. 1 .. i - 1 \subseteq 1 .. i' - 1
    BY <1>1, <1>2
  <2> QED  BY <1>1, <1>2, <2>1 DEF NoOverread, Straggler
<1> QED  BY <1>4, <1>5, <1>6, <1>7 DEF PkgInv

(* Steps that leave the contents alone. *)
LEMMA OtherSteps ==
  ASSUME PkgInv, DecryptTable \/ TableRead \/ StartName \/ DecryptName \/ Return \/ UNCHANGED vars
  PROVE  PkgInv'
<1>1. Known /\ ContentsDecrypted /\ NoOverread
  BY DEF PkgInv
<1>2. CASE DecryptTable
  <2>1. i = 1
    BY <1>1, <1>2 DEF DecryptTable, Known
  <2>2. Known' /\ Filling' /\ NoOverread'
    BY <1>1, <1>2 DEF DecryptTable, Known, Filling, NoOverread, Straggler
  <2>3. ContentsDecrypted'
    <3>1. 1 .. i' - 1 = {}
      BY <1>2, <2>1 DEF DecryptTable
    <3> QED  BY <3>1 DEF ContentsDecrypted
  <2> QED  BY <2>2, <2>3 DEF PkgInv
<1>3. ASSUME phase # "contents", phase' # "contents", phase' # "table", Known',
             files' = files, table' = table, i' = i, out' = out, overread' = overread
      PROVE  PkgInv'
  <2>1. Filling'
    BY <1>3 DEF Filling
  <2>2. ContentsDecrypted'
    BY <1>1, <1>3, FinishedKept DEF ContentsDecrypted
  <2>3. NoOverread'
    BY <1>1, <1>3 DEF NoOverread, Straggler
  <2> QED  BY <1>3, <2>1, <2>2, <2>3 DEF PkgInv
<1>4. CASE TableRead
  BY <1>1, <1>3, <1>4 DEF TableRead, Known
<1>5. CASE StartName
  <2>1. IsSeq(name) /\ Len(name) = i - 1 /\ i <= Len(files)
    BY <1>1, <1>5 DEF StartName, Known
  <2>2. IsSeq(name') /\ Len(name') = i
    BY <1>1, <1>5, <2>1, IsSeqAppend DEF StartName, Known
  <2>3. Known'
    BY <1>1, <1>5, <2>1, <2>2 DEF StartName, Known
  <2> QED  BY <1>3, <1>5, <2>3 DEF StartName
<1>6. CASE DecryptName
  <2>1. IsSeq(name) /\ Len(name) = i /\ i \in 1 .. Len(name)
    BY <1>1, <1>6 DEF DecryptName, Known
  <2>2. Replaced([name EXCEPT ![i] = Xor128(name[i], j * Block, pubKey)], name, i,
                 Xor128(name[i], j * Block, pubKey))
    BY <2>1, IsSeqExcept
  <2>3. IsSeq(name') /\ Len(name') = Len(name)
    BY <1>6, <2>2 DEF DecryptName, Replaced
  <2>4. Known'
    BY <1>1, <1>6, <2>1, <2>3 DEF DecryptName, Known
  <2> QED  BY <1>3, <1>6, <2>4 DEF DecryptName
<1>7. CASE Return
  BY <1>1, <1>3, <1>7 DEF Return, Known
<1>8. CASE UNCHANGED vars
  <2>1. Known' /\ NoOverread'
    BY <1>1, <1>8 DEF vars, Known, NoOverread, Straggler
  <2>2. File' = File /\ Blocks' = Blocks
    BY <1>8 DEF vars, File, ItemRead, Entry, Blocks
  <2>3. Filling'
    BY <1>8, <2>2 DEF vars, PkgInv, Filling, Aligned, Counted, Filled, Holds, Reached, AtMostChunk
  <2>4. ContentsDecrypted'
    BY <1>1, <1>8, FinishedKept DEF vars, ContentsDecrypted
  <2> QED  BY <2>1, <2>3, <2>4 DEF PkgInv
<1> QED  BY <1>2, <1>4, <1>5, <1>6, <1>7, <1>8

-----------------------------------------------------------------------------
(* Names and the item table. *)

NameBlocksOf(f) == (f.nameLength + Block - 1) \div Block
NameDone(k) ==
  LET f == ItemRead(k) IN
  Decrypted(name[k], f.nameOffset, NameBlocksOf(f), NameBlocksOf(f) * Block,
            Setiter[f.nameOffset \div Block])

(* Every finished item's name, by one key stream that starts where it does. *)
NamesDecrypted == \A k \in 1 .. i - 1 : NameDone(k)

NameSoFar ==
  phase = "name" /\ Len(name) = i =>
    /\ j \in 0 .. NameBlocks
    /\ \E key : /\ Stream(key, j, Setiter[File.nameOffset \div Block]) /\ key[j] = pubKey
                /\ DecryptedBy(key, name[i], File.nameOffset, j, NameBlocks * Block)

NameInv == PkgInv /\ NamesDecrypted /\ NameSoFar /\ (phase = "contents" => NameDone(i))

(* The whole table, by one key stream from the RIV on. *)
TableDecrypted ==
  phase # "table" =>
    /\ IsSeq(table) /\ Len(table) = 2 * Len(files) * Block
    /\ Decrypted(table, 0, 2 * Len(files), 2 * Len(files) * Block, Riv)

TableSoFar ==
  phase = "table" =>
    /\ IsSeq(table)
    /\ \E t, key : /\ t \in Nat /\ at = t * Block /\ Len(table) = t * Block
                   /\ Stream(key, t, Riv) /\ key[t] = pubKey
                   /\ DecryptedBy(key, table, 0, t, t * Block)

(* One more block of len bytes decrypted. *)
LEMMA DecryptedOn ==
  ASSUME NEW key, NEW b, NEW o \in Nat, NEW n \in Nat, NEW len \in Nat, NEW c,
         Stream(key, n, c), DecryptedBy(key, b, o, n, len), n * Block + Block <= len
  PROVE  \E more : /\ Stream(more, n + 1, c) /\ more[n + 1] = Increment(key[n])
                   /\ DecryptedBy(more, Xor128(b, n * Block, key[n]), o, n + 1, len)
<1> DEFINE s == n * Block
           d == Xor128(b, s, key[n])
<1>1. Block \in Nat \ {0} /\ s \in Nat /\ (n + 1) * Block = s + Block
  BY ChunkBlocks
<1>2. PICK more : /\ Stream(more, n + 1, c) /\ more[n + 1] = Increment(key[n])
                  /\ \A x \in 0 .. n : more[x] = key[x]
  <2> DEFINE next == [x \in 0 .. n + 1 |-> IF x <= n THEN key[x] ELSE Increment(key[n])]
  <2>1. /\ Stream(next, n + 1, c) /\ next[n + 1] = Increment(key[n])
        /\ \A x \in 0 .. n : next[x] = key[x]
    BY StreamOn
  <2> HIDE DEF next
  <2> QED  BY <2>1
<1>3. Adds(n, 0, s)
  BY <1>1 DEF Adds
<1>4. /\ DOMAIN b = 1 .. len
      /\ \A p \in 1 .. len : b[p] = IF p <= s THEN Turned(key[(p - 1) \div Block], o, p)
                                    ELSE Cipher(o + p - 1)
  BY DEF DecryptedBy
<1> HIDE DEF s
<1>5. Raw(b, o, 0, s)
  <2>1. s + 1 .. s + Block \subseteq 1 .. len
    BY <1>1 DEF s
  <2>2. ASSUME NEW q \in s + 1 .. s + Block PROVE b[q] = Cipher(o + 0 + q - 1)
    <3>1. q \in 1 .. len /\ ~(q <= s) /\ o + 0 + q - 1 = o + q - 1
      BY <1>1, <2>1
    <3> QED  BY <1>4, <3>1
  <2> QED  BY <1>4, <2>1, <2>2 DEF Raw
<1>6. BlockDone(b, d, key[n], o, 0, s)
  BY <1>3, <1>5, BlockTurned
<1>7. \A q \in s + 1 .. s + Block : (0 + q - 1) \div Block = n
  BY <1>3, PlaceInBlock
<1> HIDE DEF d
<1>8. DOMAIN d = 1 .. len /\ d = [p \in 1 .. len |-> d[p]]
  <2>1. DOMAIN d = 1 .. len
    BY <1>4, <1>6 DEF BlockDone
  <2> QED  BY <2>1 DEF d, Xor128
<1>9. ASSUME NEW p \in 1 .. len
      PROVE  d[p] = IF p <= s + Block THEN Turned(more[(p - 1) \div Block], o, p)
                    ELSE Cipher(o + p - 1)
  <2>1. CASE p <= s
    <3>1. (p - 1) \div Block \in 0 .. (n - 1)
      BY <2>1, BlockOf DEF s
    <3>2. more[(p - 1) \div Block] = key[(p - 1) \div Block]
      <4>1. 0 .. (n - 1) \subseteq 0 .. n
        OBVIOUS
      <4> QED  BY <1>2, <3>1, <4>1
    <3>3. d[p] = b[p] /\ p <= s + Block
      BY <1>1, <1>4, <1>6, <2>1 DEF BlockDone
    <3> QED  BY <1>4, <2>1, <3>2, <3>3
  <2>2. CASE p > s /\ p <= s + Block
    <3>1. p \in s + 1 .. s + Block /\ 0 + p = p /\ 0 + p - 1 = p - 1
      BY <1>1, <2>2
    <3>2. d[p] = Turned(key[n], o, 0 + p) /\ (0 + p - 1) \div Block = n
      BY <1>6, <1>7, <3>1 DEF BlockDone
    <3>3. more[n] = key[n]
      BY <1>2
    <3> QED  BY <2>2, <3>1, <3>2, <3>3
  <2>3. CASE p > s + Block
    <3>1. p \in DOMAIN b \ (s + 1 .. s + Block) /\ ~(p <= s) /\ ~(p <= s + Block)
      BY <1>1, <1>4, <2>3
    <3> QED  BY <1>4, <1>6, <3>1 DEF BlockDone
  <2> QED  BY <1>1, <2>1, <2>2, <2>3
<1>10. DecryptedBy(more, d, o, n + 1, len)
  BY <1>1, <1>8, <1>9 DEF DecryptedBy
<1> QED  BY <1>2, <1>10 DEF d, s

LEMMA NameKept ==
  ASSUME NEW k, NameDone(k), files' = files, table' = table, name'[k] = name[k]
  PROVE  NameDone(k)'
BY DEF NameDone, ItemRead, Entry

(* The current item while its name is decrypted. *)
LEMMA NameItem ==
  ASSUME Known, i <= Len(files)
  PROVE  /\ File \in Item /\ File.nameOffset \in Nat /\ NameBlocks = NameBlocksOf(File)
         /\ NameBlocks \in Nat /\ NameBlocks * Block \in Nat
<1>1. Len(files) \in Nat /\ i \in 1 .. Len(files)
  BY PkgAssumption DEF Known
<1>2. File \in Item
  BY <1>1, ItemIs DEF Known, File
<1>3. File.nameOffset \in Nat /\ File.nameLength \in Nat
  BY <1>2 DEF Item
<1>4. Block \in Nat \ {0} /\ File.nameLength + Block - 1 \in Nat
  BY <1>3, ChunkBlocks
<1>5. NameBlocks \in Nat
  BY <1>4, QuotientRest DEF NameBlocks
<1>6. NameBlocks * Block \in Nat
  BY <1>4, <1>5
<1> QED  BY <1>2, <1>3, <1>5, <1>6 DEF NameBlocks, NameBlocksOf

LEMMA NameSteps ==
  ASSUME NameInv, [Next]_vars
  PROVE  NameInv'
<1>1. PkgInv'
  BY StartContentsFills, DecryptContentsFills, WriteRestFinishes, MakeDirectoryFinishes,
     OtherSteps DEF Next, NameInv
<1>2. /\ Known /\ NamesDecrypted /\ NameSoFar /\ (phase = "contents" => NameDone(i))
      /\ i \in Nat \ {0} /\ IsSeq(name)
  BY DEF NameInv, PkgInv, Known
(* Steps that leave names alone. *)
<1>3. ASSUME files' = files, table' = table, name' = name, i' = i, phase' # "name" \/ Len(name) # i,
             phase' = "contents" => NameDone(i)
      PROVE  NameInv'
  <2>1. NamesDecrypted'
    BY <1>2, <1>3, NameKept DEF NamesDecrypted
  <2>2. NameSoFar'
    BY <1>3 DEF NameSoFar
  <2>3. ASSUME phase' = "contents" PROVE NameDone(i)'
    <3>1. PICK k : k = i
      OBVIOUS
    <3>2. NameDone(k)'
      BY <1>3, <2>3, <3>1, NameKept
    <3> QED  BY <1>3, <3>1, <3>2
  <2> QED  BY <1>1, <2>1, <2>2, <2>3 DEF NameInv
(* Steps to the next item. *)
<1>4. ASSUME files' = files, table' = table, name' = name, i' = i + 1, Len(name) = i,
             phase' = "name", NameDone(i)
      PROVE  NameInv'
  <2>1. 1 .. i' - 1 = 1 .. i - 1 \cup {i}
    BY <1>2, <1>4
  <2>2. NamesDecrypted'
    BY <1>2, <1>4, <2>1, NameKept DEF NamesDecrypted
  <2>3. NameSoFar'
    BY <1>2, <1>4 DEF NameSoFar
  <2> QED  BY <1>1, <1>4, <2>2, <2>3 DEF NameInv
(* A name with all its blocks decrypted. *)
<1>5. ASSUME phase = "name", Len(name) = i, j = NameBlocks PROVE NameDone(i)
  <2>1. i <= Len(files)
    BY <1>2, <1>5 DEF Known
  <2>2. NameBlocks = NameBlocksOf(File)
    BY <1>2, <2>1, NameItem
  <2> QED  BY <1>2, <1>5, <2>2 DEF NameSoFar, NameDone, Decrypted, File
<1>6. CASE StartName
  <2>1. /\ i <= Len(files) /\ Len(name) = i - 1 /\ i' = i /\ files' = files /\ table' = table
        /\ phase' = "name" /\ j' = 0 /\ pubKey' = Setiter[File.nameOffset \div Block]
        /\ name' = Append(name, Input(File.nameOffset, NameBlocks * Block))
    BY <1>2, <1>6 DEF StartName, Known
  <2>2. /\ File.nameOffset \in Nat /\ NameBlocks \in Nat /\ NameBlocks * Block \in Nat
    BY <1>2, <2>1, NameItem
  <2>3. File' = File /\ NameBlocks' = NameBlocks
    BY <2>1 DEF File, ItemRead, Entry, NameBlocks
  <2>4. /\ Len(name') = i /\ name'[i] = Input(File.nameOffset, NameBlocks * Block)
        /\ \A k \in 1 .. i - 1 : name'[k] = name[k]
    BY <1>2, <2>1, IsSeqAppend
  <2>5. NamesDecrypted'
    BY <1>2, <2>1, <2>4, NameKept DEF NamesDecrypted
  <2>6. NameSoFar'
    <3>1. PICK key : key = [x \in {0} |-> Setiter[File.nameOffset \div Block]]
      OBVIOUS
    <3>2. Stream(key, 0, Setiter[File.nameOffset \div Block]) /\ key[0] = Setiter[File.nameOffset \div Block]
      BY <3>1 DEF Stream
    <3>3. DecryptedBy(key, name'[i], File.nameOffset, 0, NameBlocks * Block)
      <4>1. 0 * Block = 0
        BY ChunkBlocks
      <4>2. \A p \in 1 .. NameBlocks * Block : ~(p <= 0)
        BY <2>2
      <4> QED  BY <2>4, <4>1, <4>2 DEF DecryptedBy, Input
    <3> QED  BY <2>1, <2>2, <2>3, <3>2, <3>3 DEF NameSoFar
  <2> QED  BY <1>1, <2>1, <2>5, <2>6 DEF NameInv
<1>7. CASE DecryptName
  <2> DEFINE d == Xor128(name[i], j * Block, pubKey)
  <2>1. /\ phase = "name" /\ phase' = phase /\ Len(name) = i /\ j < NameBlocks /\ i' = i /\ files' = files
        /\ table' = table /\ j' = j + 1 /\ pubKey' = Increment(pubKey)
        /\ name' = [name EXCEPT ![i] = d]
    BY <1>7 DEF DecryptName
  <2>2. i <= Len(files) /\ i \in 1 .. Len(name)
    BY <1>2, <2>1 DEF Known
  <2>3. /\ File.nameOffset \in Nat /\ NameBlocks \in Nat /\ NameBlocks * Block \in Nat
    BY <1>2, <2>2, NameItem
  <2>4. File' = File /\ NameBlocks' = NameBlocks
    BY <2>1 DEF File, ItemRead, Entry, NameBlocks
  <2>5. PICK key : /\ Stream(key, j, Setiter[File.nameOffset \div Block]) /\ key[j] = pubKey
                  /\ DecryptedBy(key, name[i], File.nameOffset, j, NameBlocks * Block)
    BY <1>2, <2>1 DEF NameSoFar
  <2>6. j \in Nat /\ j + 1 \in 0 .. NameBlocks
    BY <1>2, <2>1, <2>3 DEF NameSoFar
  <2>7. j * Block + Block <= NameBlocks * Block
    <3>1. PICK x \in Nat : NameBlocks = j + 1 + x
      BY <2>1, <2>3, <2>6
    <3>2. Block \in Nat
      BY ChunkBlocks
    <3>3. NameBlocks * Block = j * Block + Block + x * Block /\ x * Block \in Nat /\ j * Block \in Nat
      BY <2>6, <3>1, <3>2
    <3> HIDE <3>1
    <3> QED  BY <3>2, <3>3
  <2>8. PICK more : /\ Stream(more, j + 1, Setiter[File.nameOffset \div Block])
                   /\ more[j + 1] = Increment(key[j])
                   /\ DecryptedBy(more, Xor128(name[i], j * Block, key[j]), File.nameOffset,
                                  j + 1, NameBlocks * Block)
    BY <2>3, <2>5, <2>6, <2>7, DecryptedOn
  <2>9. Len(name') = Len(name) /\ name'[i] = d /\ \A k \in 1 .. i - 1 : name'[k] = name[k]
    <3>1. Replaced([name EXCEPT ![i] = d], name, i, d)
      BY <1>2, <2>2, IsSeqExcept
    <3> HIDE DEF d
    <3> QED  BY <1>2, <2>1, <2>2, <3>1 DEF Replaced
  <2>10. NamesDecrypted'
    BY <1>2, <2>1, <2>9, NameKept DEF NamesDecrypted
  <2>11. NameSoFar'
    BY <2>1, <2>4, <2>5, <2>6, <2>8, <2>9 DEF NameSoFar
  <2> QED  BY <1>1, <2>1, <2>10, <2>11 DEF NameInv
<1>8. CASE MakeDirectory
  BY <1>4, <1>5, <1>8 DEF MakeDirectory
<1>9. CASE StartContents
  BY <1>3, <1>5, <1>9 DEF StartContents
<1>10. CASE DecryptContents
  BY <1>2, <1>3, <1>10 DEF DecryptContents
<1>11. CASE WriteRest
  <2>1. Len(name) = i
    BY <1>2, <1>11 DEF WriteRest, Known
  <2> QED  BY <1>2, <1>4, <1>11, <2>1 DEF WriteRest
<1>12. CASE Return
  BY <1>3, <1>12 DEF Return
<1>13. CASE DecryptTable
  <2>1. i' = 1 /\ phase' = "table"
    BY <1>2, <1>13 DEF DecryptTable, Known
  <2>2. 1 .. i' - 1 = {}
    BY <2>1
  <2> QED  BY <1>1, <2>1, <2>2 DEF NameInv, NamesDecrypted, NameSoFar
<1>14. CASE TableRead
  <2>1. phase = "table" /\ i = 1 /\ Len(name) # i /\ name' = name /\ i' = i
    BY <1>2, <1>14 DEF TableRead, Known
  <2> QED  BY <1>3, <1>14, <2>1 DEF TableRead
<1>15. CASE UNCHANGED vars
  <2>1. File' = File /\ NameBlocks' = NameBlocks
    BY <1>15 DEF vars, File, ItemRead, Entry, NameBlocks
  <2>2. NamesDecrypted' /\ (phase' = "contents" => NameDone(i)')
    BY <1>2, <1>15 DEF vars, NamesDecrypted, NameDone, ItemRead, Entry
  <2>3. NameSoFar'
    BY <1>2, <1>15, <2>1 DEF vars, NameSoFar
  <2> QED  BY <1>1, <2>2, <2>3 DEF NameInv
<1> QED  BY <1>6, <1>7, <1>8, <1>9, <1>10, <1>11, <1>12, <1>13, <1>14, <1>15 DEF Next

TableInv == PkgInv /\ TableDecrypted /\ TableSoFar

(* Two equal numbers of blocks. *)
LEMMA SameBlocks ==
  ASSUME NEW a \in Nat, NEW b \in Nat, a * Block = b * Block
  PROVE  a = b
<1>1. Block \in Nat \ {0}
  BY ChunkBlocks
<1>2. ASSUME NEW x \in Nat, NEW y \in Nat, x < y PROVE x * Block # y * Block
  <2>1. PICK d \in Nat : y = x + 1 + d
    BY <1>2
  <2>2. y * Block = x * Block + Block + d * Block /\ d * Block \in Nat /\ x * Block \in Nat
    BY <1>1, <2>1
  <2> HIDE <2>1
  <2> QED  BY <1>1, <2>2
<1>3. ~(a < b) /\ ~(b < a)
  BY <1>2
<1> QED  BY <1>3

LEMMA TableSteps ==
  ASSUME TableInv, [Next]_vars
  PROVE  TableInv'
<1>1. PkgInv'
  BY StartContentsFills, DecryptContentsFills, WriteRestFinishes, MakeDirectoryFinishes,
     OtherSteps DEF Next, TableInv
<1>2. CASE DecryptTable
  <2>1. /\ phase = "table" /\ phase' = phase /\ files' = files
        /\ table' = table \o Xor128(Input(at, Block), 0, pubKey)
        /\ pubKey' = Increment(pubKey) /\ at' = at + Block
    BY <1>2 DEF DecryptTable
  <2>2. PICK t, key :
          /\ t \in Nat /\ at = t * Block /\ Len(table) = t * Block /\ Stream(key, t, Riv) /\ key[t] = pubKey
          /\ DecryptedBy(key, table, 0, t, t * Block)
    BY <2>1 DEF TableInv, TableSoFar
  <2>3. Block \in Nat \ {0} /\ at \in Nat /\ (t + 1) * Block = at + Block /\ IsSeq(table)
    BY <2>1, <2>2, ChunkBlocks DEF TableInv, TableSoFar
  <2> DEFINE w == table \o Input(at, Block)
             d == Xor128(Input(at, Block), 0, pubKey)
  (* Decrypting the block before appending it or after is the same. *)
  <2>4. Input(at, Block) = [q \in 1 .. Block |-> Input(at, Block)[q]] /\ d = [q \in 1 .. Block |-> d[q]]
    BY DEF Input, Xor128
  <2>5. IsSeq(Input(at, Block)) /\ Len(Input(at, Block)) = Block /\ IsSeq(d) /\ Len(d) = Block
    <3> HIDE DEF d
    <3> QED  BY <2>3, <2>4, IsSeqFunction
  <2>6. Joined(table \o d, table, d)
    BY <2>3, <2>5, IsSeqConcat
  <2>7. IsSeq(table') /\ Len(table') = at + Block /\ table' = [p \in 1 .. at + Block |-> table'[p]]
    <3>1. IsSeq(table') /\ Len(table') = at + Block
      BY <2>1, <2>2, <2>3, <2>5, <2>6 DEF Joined
    <3> QED  BY <3>1, SeqDomain
  <2>8. PICK more : /\ Stream(more, t + 1, Riv) /\ more[t + 1] = Increment(key[t])
                   /\ \A x \in 0 .. t : more[x] = key[x]
    <3> DEFINE next == [x \in 0 .. t + 1 |-> IF x <= t THEN key[x] ELSE Increment(key[t])]
    <3>1. /\ Stream(next, t + 1, Riv) /\ next[t + 1] = Increment(key[t])
          /\ \A x \in 0 .. t : next[x] = key[x]
      BY <2>2, StreamOn
    <3> HIDE DEF next
    <3> QED  BY <3>1
  <2>9. ASSUME NEW p \in 1 .. at + Block
        PROVE  table'[p] = Turned(more[(p - 1) \div Block], 0, p)
    <3>1. CASE p <= at
      <4>1. (p - 1) \div Block \in 0 .. (t - 1)
        BY <2>2, <3>1, BlockOf
      <4>2. more[(p - 1) \div Block] = key[(p - 1) \div Block]
        <5>1. 0 .. (t - 1) \subseteq 0 .. t
          BY <2>2
        <5> QED  BY <2>8, <4>1, <5>1
      <4>3. p \in 1 .. t * Block /\ table'[p] = table[p]
        BY <2>1, <2>2, <2>3, <2>6, <3>1 DEF Joined
      <4>4. table[p] = Turned(key[(p - 1) \div Block], 0, p)
        BY <2>2, <4>3 DEF DecryptedBy
      <4> QED  BY <4>2, <4>3, <4>4
    <3>2. CASE p > at
      <4>1. PICK q \in 1 .. Block : p = at + q
        <5>1. p - at \in 1 .. Block /\ p = at + (p - at)
          BY <2>3, <3>2
        <5> QED  BY <5>1
      <4>2. Raw(Input(at, Block), at, 0, 0) /\ Adds(0, 0, 0)
        <5>1. DOMAIN Input(at, Block) = 1 .. Block /\ 0 * Block = 0 /\ 0 + 1 .. 0 + Block = 1 .. Block
          BY <2>3 DEF Input
        <5>2. \A x \in 1 .. Block : Input(at, Block)[x] = Cipher(at + 0 + x - 1)
          BY <2>3 DEF Input
        <5>3. Adds(0, 0, 0)
          BY <5>1 DEF Adds
        <5> DEFINE r == Input(at, Block)
        <5>4. /\ DOMAIN r = 1 .. Block /\ \A x \in 1 .. Block : r[x] = Cipher(at + 0 + x - 1)
          BY <5>1, <5>2
        <5> HIDE DEF r
        <5>5. Raw(r, at, 0, 0)
          BY <5>1, <5>4 DEF Raw
        <5> QED  BY <5>3, <5>5 DEF r
      <4>3. BlockDone(Input(at, Block), d, pubKey, at, 0, 0)
        BY <2>3, <4>2, BlockTurned
      <4>4. d[q] = Turned(pubKey, at, 0 + q)
        <5>1. q \in 0 + 1 .. 0 + Block
          BY <2>3
        <5> HIDE DEF d
        <5> QED  BY <4>3, <5>1 DEF BlockDone
      <4>5. table'[p] = d[q]
        BY <2>1, <2>2, <2>5, <2>6, <4>1 DEF Joined
      <4>6. (p - 1) \div Block = t /\ (p - 1) % Block = (0 + q - 1) % Block
        <5>1. Adds(t, at, 0) /\ q \in 0 + 1 .. 0 + Block /\ Adds(0, 0, 0)
          BY <2>2, <2>3, <4>2 DEF Adds
        <5>2. (at + q - 1) \div Block = t /\ (at + q - 1) % Block = q - 0 - 1
          BY <5>1, PlaceInBlock
        <5>3. (0 + q - 1) % Block = q - 0 - 1
          BY <5>1, PlaceInBlock
        <5>4. p - 1 = at + q - 1
          BY <2>3, <4>1
        <5> QED  BY <5>2, <5>3, <5>4
      <4>7. more[t] = pubKey
        BY <2>2, <2>8
      <4>8. at + (0 + q) - 1 = 0 + p - 1
        BY <2>3, <4>1
      <4>9. d[q] = [at |-> at + (0 + q) - 1, keys |-> {<<pubKey, (0 + q - 1) % Block>>}]
        BY <4>4 DEF Turned
      <4> HIDE DEF d
      <4>10. table'[p] = [at |-> 0 + p - 1, keys |-> {<<more[t], (p - 1) % Block>>}]
        BY <4>5, <4>6, <4>7, <4>8, <4>9
      <4> QED  BY <4>6, <4>10 DEF Turned
    <3> QED  BY <2>3, <3>1, <3>2
  <2>10. DecryptedBy(more, table', 0, t + 1, (t + 1) * Block)
    BY <2>3, <2>7, <2>9 DEF DecryptedBy
  <2>11. TableSoFar'
    <3>1. IsSeq(table') /\ t + 1 \in Nat /\ at' = (t + 1) * Block /\ Len(table') = (t + 1) * Block
      BY <2>1, <2>2, <2>3, <2>7
    <3>2. Stream(more, t + 1, Riv) /\ more[t + 1] = pubKey'
      BY <2>1, <2>2, <2>8
    <3> QED  BY <2>10, <3>1, <3>2 DEF TableSoFar
  <2>12. TableDecrypted'
    BY <2>1 DEF TableDecrypted
  <2> QED  BY <1>1, <2>11, <2>12 DEF TableInv
<1>3. CASE TableRead
  <2>1. /\ phase = "table" /\ phase' = "name" /\ files' = files /\ table' = table
        /\ Len(table) = 2 * Len(files) * Block
    BY <1>3 DEF TableRead
  <2>2. PICK t, key : /\ t \in Nat /\ Len(table) = t * Block /\ Stream(key, t, Riv) /\ IsSeq(table)
                      /\ DecryptedBy(key, table, 0, t, t * Block)
    BY <2>1 DEF TableInv, TableSoFar
  <2>3. 2 * Len(files) \in Nat
    BY PkgAssumption DEF TableInv, PkgInv, Known
  <2>4. t = 2 * Len(files)
    BY <2>1, <2>2, <2>3, SameBlocks
  <2> QED  BY <1>1, <2>1, <2>2, <2>4 DEF TableInv, TableDecrypted, TableSoFar, Decrypted
<1>4. ASSUME phase # "table", phase' # "table", files' = files, table' = table
      PROVE  TableInv'
  BY <1>1, <1>4 DEF TableInv, TableDecrypted, TableSoFar
<1>5. CASE StartName \/ DecryptName
  BY <1>4, <1>5 DEF StartName, DecryptName
<1>6. CASE MakeDirectory \/ StartContents
  BY <1>4, <1>6 DEF MakeDirectory, StartContents
<1>7. CASE DecryptContents \/ WriteRest \/ Return
  BY <1>4, <1>7 DEF DecryptContents, WriteRest, Return
<1>8. CASE UNCHANGED vars
  BY <1>1, <1>8 DEF vars, TableInv, TableDecrypted, TableSoFar
<1> QED  BY <1>2, <1>3, <1>5, <1>6, <1>7, <1>8 DEF Next

-----------------------------------------------------------------------------
(* The counter as a number. *)

LEMMA CounterNumber ==
  /\ Radix \in Nat \ {0} /\ Digits \in Nat /\ Counter = Counters(Radix, Digits) /\ Riv \in Counter
  /\ Numbers \in Nat \ {0}
  /\ \A c \in Counter : Number(c) \in 0 .. Numbers - 1
<1>1. /\ Radix \in Nat \ {0} /\ Digits \in Nat /\ Counter = Counters(Radix, Digits) /\ Riv \in Counter
  BY PkgAssumption DEF Counter, Counters
<1>2. Numbers \in Nat \ {0}
  BY <1>1, PowerType DEF Numbers
<1> QED  BY <1>1, <1>2, NumeralBound DEF Number, Numbers

(* iter128 adds one, whatever the bytes. *)
LEMMA IncrementAdds ==
  ASSUME NEW c \in Counter
  PROVE  Increment(c) \in Counter /\ Number(Increment(c)) = (Number(c) + 1) % Numbers
<1>1. Radix \in Nat \ {0} /\ Digits \in Nat /\ c \in Counters(Radix, Digits)
  BY CounterNumber
<1>2. /\ Increment(c) \in Counters(Radix, Digits)
      /\ Numeral(Increment(c), Radix, Digits) = (Numeral(c, Radix, Digits) + 1) % Power(Radix, Digits)
  <2> DEFINE e == Increment(c)
  <2>1. e = [d \in 1 .. Digits |-> IF \A x \in d + 1 .. Digits : c[x] = Radix - 1
                                     THEN (c[d] + 1) % Radix ELSE c[d]]
    BY DEF Increment
  <2> HIDE DEF e
  <2> QED  BY <1>1, <2>1, NumeralNext DEF e
<1> QED  BY <1>2, CounterNumber DEF Number, Numbers

(* setiter128 satisfies its equation. *)
LEMMA SetiterIs ==
  /\ Setiter \in [Nat -> Counter] /\ Setiter[0] = Riv
  /\ \A k \in Nat : Setiter[k + 1] = Increment(Setiter[k])
<1> DEFINE F == [c \in Counter |-> Increment(c)]
<1>1. F \in [Counter -> Counter] /\ Riv \in Counter
  BY IncrementAdds, CounterNumber
<1>2. PICK g \in [Nat -> Counter] : g[0] = Riv /\ \A k \in Nat : g[k + 1] = F[g[k]]
  <2> HIDE DEF F
  <2> QED  BY <1>1, Iterates
<1>3. g = [k \in Nat |-> IF k = 0 THEN Riv ELSE Increment(g[k - 1])]
  <2>1. ASSUME NEW k \in Nat, k # 0 PROVE g[k] = Increment(g[k - 1])
    <3>1. k - 1 \in Nat /\ (k - 1) + 1 = k
      BY <2>1
    <3>2. g[(k - 1) + 1] = F[g[k - 1]] /\ g[k - 1] \in Counter
      BY <1>2, <3>1
    <3> QED  BY <3>1, <3>2
  <2>2. g = [k \in Nat |-> g[k]]
    OBVIOUS
  <2> QED  BY <1>2, <2>1, <2>2
<1>4. Setiter = [k \in Nat |-> IF k = 0 THEN Riv ELSE Increment(Setiter[k - 1])]
  BY <1>3 DEF Setiter
<1>5. Setiter[0] = Riv /\ \A k \in Nat : Setiter[k + 1] = Increment(Setiter[k])
  <2> DEFINE f == Setiter
  <2>1. f = [k \in Nat |-> IF k = 0 THEN Riv ELSE Increment(f[k - 1])]
    BY <1>4
  <2> HIDE DEF f
  <2>2. f[0] = Riv
    BY <2>1
  <2>3. ASSUME NEW k \in Nat PROVE f[k + 1] = Increment(f[k])
    <3>1. k + 1 \in Nat /\ k + 1 # 0 /\ (k + 1) - 1 = k
      OBVIOUS
    <3>2. f[k + 1] = Increment(f[(k + 1) - 1])
      BY <2>1, <3>1
    <3> QED  BY <3>1, <3>2
  <2> QED  BY <2>2, <2>3 DEF f
<1>6. \A k \in Nat : Setiter[k] \in Counter
  <2> DEFINE P == {k \in Nat : Setiter[k] \in Counter}
  <2>1. 0 \in P
    BY <1>1, <1>5
  <2>2. ASSUME NEW k \in Nat, k \in P PROVE k + 1 \in P
    BY <1>5, <2>2, IncrementAdds
  <2> HIDE DEF P
  <2>3. Nat \subseteq P
    BY <2>1, <2>2, Induction
  <2> QED  BY <2>3 DEF P
<1>7. Setiter = [k \in Nat |-> Setiter[k]]
  <2> DEFINE f == Setiter
  <2>1. f = [k \in Nat |-> IF k = 0 THEN Riv ELSE Increment(f[k - 1])]
    BY <1>4
  <2> HIDE DEF f
  <2>2. f = [k \in Nat |-> f[k]]
    BY <2>1
  <2> QED  BY <2>2 DEF f
<1>8. Setiter \in [Nat -> Counter]
  <2> DEFINE f == Setiter
  <2>1. f = [k \in Nat |-> f[k]] /\ \A k \in Nat : f[k] \in Counter
    BY <1>6, <1>7
  <2> HIDE DEF f
  <2>2. f \in [Nat -> Counter]
    BY <2>1
  <2> QED  BY <2>2 DEF f
<1> QED  BY <1>5, <1>8

(* One more, after some wrapping. *)
LEMMA OneMore ==
  ASSUME NEW m \in Nat \ {0}, NEW x \in Nat
  PROVE  ((x % m) + 1) % m = (x + 1) % m
<1> DEFINE r == x % m
           q == x \div m
<1>1. x = m * q + r /\ r \in 0 .. (m - 1) /\ q \in Nat
  BY QuotientRest
<1> HIDE DEF r, q
<1>2. CASE r + 1 = m
  <2>1. x + 1 = m * (q + 1) + 0 /\ q + 1 \in Nat /\ 0 \in 0 .. (m - 1) /\ x + 1 \in Nat
    BY <1>1, <1>2
  <2>2. (x + 1) % m = 0
    BY <2>1, RestOfUnits
  <2>3. r + 1 = m * 1 + 0 /\ 1 \in Nat /\ r + 1 \in Nat
    BY <1>1, <1>2
  <2>4. (r + 1) % m = 0
    BY <2>1, <2>3, RestOfUnits
  <2> QED  BY <2>2, <2>4 DEF r
<1>3. CASE r + 1 # m
  <2>1. x + 1 = m * q + (r + 1) /\ r + 1 \in 0 .. (m - 1) /\ x + 1 \in Nat
    BY <1>1, <1>3
  <2>2. (x + 1) % m = r + 1
    <3> DEFINE s == x + 1
               t == r + 1
    <3>1. s = m * q + t /\ t \in 0 .. (m - 1) /\ s \in Nat /\ q \in Nat
      BY <1>1, <2>1
    <3> HIDE DEF s, t
    <3>2. s % m = t
      BY <3>1, RestOfUnits
    <3> QED  BY <3>2 DEF s, t
  <2>3. (r + 1) % m = r + 1
    BY <2>1, ModSmall
  <2> QED  BY <2>2, <2>3 DEF r
<1> QED  BY <1>2, <1>3

(* setiter128 adds as often as it is told to. *)
LEMMA SetiterNumber ==
  \A k \in Nat : Number(Setiter[k]) = (Number(Riv) + k) % Numbers
<1>1. Numbers \in Nat \ {0} /\ Number(Riv) \in 0 .. Numbers - 1
  BY CounterNumber
<1> DEFINE P == {k \in Nat : Number(Setiter[k]) = (Number(Riv) + k) % Numbers}
<1>2. 0 \in P
  BY <1>1, ModSmall, SetiterIs
<1>3. ASSUME NEW k \in Nat, k \in P PROVE k + 1 \in P
  <2>1. Setiter[k] \in Counter /\ Setiter[k + 1] = Increment(Setiter[k])
    BY SetiterIs
  <2>2. Number(Setiter[k + 1]) = (Number(Setiter[k]) + 1) % Numbers
    BY <2>1, IncrementAdds
  <2>3. Number(Riv) + k \in Nat /\ (Number(Riv) + k) + 1 = Number(Riv) + (k + 1)
    BY <1>1
  <2>4. (((Number(Riv) + k) % Numbers) + 1) % Numbers = ((Number(Riv) + k) + 1) % Numbers
    BY <1>1, <2>3, OneMore
  <2> QED  BY <1>3, <2>2, <2>3, <2>4
<1> HIDE DEF P
<1>4. Nat \subseteq P
  BY <1>2, <1>3, Induction
<1> QED  BY <1>4 DEF P

(* So the counter of a block is the one its number calls for. *)
LEMMA KeyIs ==
  ASSUME NEW k \in Nat
  PROVE  KeyOf(k) = Setiter[k]
<1> DEFINE m == (Number(Riv) + k) % Numbers
<1>1. Numbers \in Nat \ {0} /\ Number(Riv) \in 0 .. Numbers - 1
  BY CounterNumber
<1>2. m \in 0 .. Numbers - 1
  <2>1. Number(Riv) + k \in Nat
    BY <1>1
  <2> QED  BY <1>1, <2>1
<1>3. Setiter[k] \in Counter /\ Number(Setiter[k]) = m
  BY SetiterIs, SetiterNumber
<1> HIDE DEF m
<1>4. CounterOf[m] \in Counter /\ Number(CounterOf[m]) = m
  BY <1>2, <1>3 DEF CounterOf
<1>5. CounterOf[m] = Setiter[k]
  BY <1>3, <1>4, CounterNumber, NumeralInjective DEF Number
<1> QED  BY <1>5 DEF KeyOf, m

(* A key stream is setiter128's. *)
LEMMA StreamKeys ==
  ASSUME NEW n \in Nat, NEW m \in Nat, NEW key, Stream(key, n, Setiter[m])
  PROVE  \A b \in 0 .. n : key[b] = KeyOf(m + b)
<1> DEFINE P == {b \in Nat : b <= n => key[b] = Setiter[m + b]}
<1>1. 0 \in P
  BY DEF Stream
<1>2. ASSUME NEW b \in Nat, b \in P PROVE b + 1 \in P
  <2>1. SUFFICES ASSUME b + 1 <= n PROVE key[b + 1] = Setiter[m + (b + 1)]
    OBVIOUS
  <2>2. key[b] = Setiter[m + b] /\ key[b + 1] = Increment(key[b])
    BY <1>2, <2>1 DEF Stream
  <2>3. m + b \in Nat /\ (m + b) + 1 = m + (b + 1)
    OBVIOUS
  <2>4. Setiter[(m + b) + 1] = Increment(Setiter[m + b])
    BY <2>3, SetiterIs
  <2> QED  BY <2>2, <2>3, <2>4
<1> HIDE DEF P
<1>3. Nat \subseteq P
  BY <1>1, <1>2, Induction
<1>4. ASSUME NEW b \in 0 .. n PROVE key[b] = KeyOf(m + b)
  <2>1. b \in Nat /\ b <= n /\ m + b \in Nat
    OBVIOUS
  <2>2. key[b] = Setiter[m + b]
    BY <1>3, <2>1 DEF P
  <2> QED  BY <2>1, <2>2, KeyIs
<1> QED  BY <1>4

(* A byte decrypted by the stream of a place at the start of a block is plain. *)
LEMMA TurnedPlain ==
  ASSUME NEW n \in Nat, NEW o \in Nat, o % Block = 0, NEW key, Stream(key, n, Setiter[o \div Block]),
         NEW p \in Nat \ {0}, p <= n * Block
  PROVE  Turned(key[(p - 1) \div Block], o, p) = Plain(o + p - 1)
<1> DEFINE m == o \div Block
           b == (p - 1) \div Block
           r == (p - 1) % Block
<1>1. Block \in Nat \ {0} /\ p - 1 \in Nat
  BY ChunkBlocks
<1>2. o = Block * m + (o % Block) /\ m \in Nat
  BY <1>1, QuotientRest
<1>3. p - 1 = Block * b + r /\ r \in 0 .. (Block - 1) /\ b \in Nat
  BY <1>1, QuotientRest
<1>4. b \in 0 .. n
  <2>1. p \in 1 .. n * Block
    BY <1>1
  <2>2. b \in 0 .. (n - 1)
    BY <2>1, BlockOf
  <2> QED  BY <2>2
<1>5. key[b] = KeyOf(m + b)
  BY <1>2, <1>4, StreamKeys
<1>6. (o + p - 1) \div Block = m + b /\ (o + p - 1) % Block = r
  <2> HIDE DEF m, b, r
  <2>1. o + p - 1 = Block * m + (Block * b + r)
    BY <1>1, <1>2, <1>3
  <2>2. Block * (m + b) = Block * m + Block * b /\ Block * b \in Nat /\ Block * m \in Nat
    BY <1>1, <1>2, <1>3
  <2>3. o + p - 1 = Block * (m + b) + r /\ o + p - 1 \in Nat /\ m + b \in Nat
    BY <1>1, <1>2, <1>3, <2>1, <2>2
  <2> QED  BY <1>1, <1>3, <2>3, RestOfUnits
<1> QED  BY <1>5, <1>6 DEF Turned, Plain

-----------------------------------------------------------------------------
(* Plain bytes. *)

Lists(b, n) == b = [p \in 1 .. n |-> b[p]]
LEMMA SameLists ==
  ASSUME NEW n, NEW f, NEW g, Lists(f, n), Lists(g, n), \A p \in 1 .. n : f[p] = g[p]
  PROVE  f = g
<1>1. f = [p \in 1 .. n |-> f[p]] /\ g = [p \in 1 .. n |-> g[p]]
  BY DEF Lists
<1>2. [p \in 1 .. n |-> f[p]] = [p \in 1 .. n |-> g[p]]
  OBVIOUS
<1> QED  BY <1>1, <1>2

(* The first whole bytes of b are plain, the rest as they were. *)
PlainUpTo(b, o, whole, len) ==
  /\ Lists(b, len)
  /\ \A p \in 1 .. len : b[p] = IF p <= whole THEN Plain(o + p - 1) ELSE Cipher(o + p - 1)

LEMMA StreamPlain ==
  ASSUME NEW b, NEW o \in Nat, o % Block = 0, NEW n \in Nat, NEW len \in Nat,
         Decrypted(b, o, n, len, Setiter[o \div Block])
  PROVE  PlainUpTo(b, o, n * Block, len)
<1>1. PICK key : Stream(key, n, Setiter[o \div Block]) /\ DecryptedBy(key, b, o, n, len)
  BY DEF Decrypted
<1>2. ASSUME NEW p \in 1 .. len, p <= n * Block
      PROVE  Turned(key[(p - 1) \div Block], o, p) = Plain(o + p - 1)
  <2>1. p \in Nat \ {0}
    OBVIOUS
  <2> QED  BY <1>1, <1>2, <2>1, TurnedPlain
<1> QED  BY <1>1, <1>2 DEF DecryptedBy, PlainUpTo, Lists

(* What has been decrypted of the table is plain. *)
LEMMA TableIsPlain ==
  ASSUME TableInv
  PROVE  TablePlain
<1>1. /\ files \in Package /\ IsSeq(table)
      /\ \E n \in Nat : Len(table) = n * Block /\ Decrypted(table, 0, n, n * Block, Riv)
  <2>1. CASE phase = "table"
    BY <2>1 DEF TableInv, TableSoFar, PkgInv, Known, Decrypted
  <2>2. CASE phase # "table"
    <3>1. 2 * Len(files) \in Nat
      BY PkgAssumption DEF TableInv, PkgInv, Known
    <3> QED  BY <2>2, <3>1 DEF TableInv, TableDecrypted, PkgInv, Known
  <2> QED  BY <2>1, <2>2
<1>2. PICK n \in Nat : Len(table) = n * Block /\ Decrypted(table, 0, n, n * Block, Riv)
  BY <1>1
<1> DEFINE len == n * Block
<1>3. len \in Nat /\ 0 % Block = 0 /\ Riv = Setiter[0 \div Block]
  <2>1. Block \in Nat \ {0}
    BY ChunkBlocks
  <2>2. 0 = Block * 0 + 0 /\ 0 \in 0 .. (Block - 1)
    BY <2>1
  <2>3. 0 % Block = 0 /\ 0 \div Block = 0
    BY <2>1, <2>2, RestOfUnits
  <2> QED  BY <2>1, <2>3, SetiterIs
<1>4. /\ Lists(table, len)
      /\ \A p \in 1 .. len : table[p] = Plain(0 + p - 1)
  <2>1. Decrypted(table, 0, n, len, Setiter[0 \div Block])
    BY <1>2, <1>3
  <2>2. \A p \in 1 .. len : p <= len
    BY <1>3
  <2>3. PlainUpTo(table, 0, len, len)
    BY <1>3, <2>1, StreamPlain
  <2> HIDE DEF len
  <2> QED  BY <2>2, <2>3 DEF PlainUpTo
<1>5. Len(table) = len
  BY <1>2
<1> HIDE DEF len
<1>6. Lists(PlainText(0, len), len) /\ \A p \in 1 .. len : PlainText(0, len)[p] = Plain(0 + p - 1)
  BY DEF PlainText, Lists
<1>7. table = PlainText(0, len)
  <2>1. \A p \in 1 .. len : table[p] = PlainText(0, len)[p]
    BY <1>4, <1>6
  <2>2. Lists(table, len) /\ Lists(PlainText(0, len), len)
    BY <1>4, <1>6
  <2> QED  BY <2>1, <2>2, SameLists
<1> QED  BY <1>5, <1>7 DEF TablePlain

(* So an item read from it is the maker's. *)
LEMMA ItemsRead ==
  ASSUME TableInv, phase # "table", NEW k \in 1 .. Len(files)
  PROVE  ItemRead(k) = files[k]
<1>1. /\ Len(files) \in Nat /\ k \in Nat \ {0} /\ k <= Len(files) /\ Block \in Nat \ {0}
  BY PkgAssumption, ChunkBlocks DEF TableInv, PkgInv, Known
<1>2. IsSeq(table) /\ Len(table) = 2 * Len(files) * Block
  BY DEF TableInv, TableDecrypted
<1>3. table = PlainText(0, Len(table))
  BY TableIsPlain DEF TablePlain
<1>4. ASSUME NEW p \in Entry(k) PROVE table[p] = Plain(p - 1)
  <2>1. PICK d \in Nat : Len(files) = k + d
    <3> DEFINE n == Len(files)
    <3>1. n \in Nat /\ k \in Nat /\ k <= n
      BY <1>1
    <3> HIDE DEF n
    <3>2. n - k \in Nat /\ n = k + (n - k)
      BY <3>1
    <3> QED  BY <3>2 DEF n
  <2>2. 2 * Len(files) * Block = 2 * k * Block + 2 * d * Block /\ 2 * d * Block \in Nat /\ 2 * k * Block \in Nat
    BY <1>1, <2>1
  <2>3. 2 * (k - 1) * Block \in Nat
    BY <1>1
  <2>4. p \in 1 .. 2 * Len(files) * Block
    <3> DEFINE lo == 2 * (k - 1) * Block
               hi == 2 * k * Block
               le == 2 * Len(files) * Block
               e == 2 * d * Block
    <3>1. lo \in Nat /\ hi \in Nat /\ e \in Nat /\ le = hi + e /\ p \in lo + 1 .. hi
      BY <2>2, <2>3 DEF Entry
    <3> HIDE DEF lo, hi, le, e
    <3>2. p \in 1 .. le
      BY <3>1
    <3> QED  BY <3>2 DEF le
  <2>5. PlainText(0, Len(table))[p] = Plain(0 + p - 1) /\ p \in Nat
    BY <1>2, <2>4 DEF PlainText
  <2> QED  BY <1>3, <2>5
<1> QED  BY <1>4 DEF ItemRead

LEMMA ItemsArePlain ==
  ASSUME TableInv, NameInv
  PROVE  ItemsPlain
<1>1. Known /\ ContentsDecrypted /\ NamesDecrypted
  BY DEF NameInv, PkgInv
<1>2. SUFFICES ASSUME NEW k \in 1 .. i - 1
      PROVE  LET f == files[k] IN
             /\ f.nameOffset % Block = 0 =>
                  \A p \in 1 .. f.nameLength : name[k][p] = Plain(f.nameOffset + p - 1)
             /\ f.dir => out[k] = <<>>
             /\ ~f.dir /\ f.fileOffset % Block = 0 /\ ~Straggler(f) =>
                  out[k] = PlainText(f.fileOffset, Whole(f))
                             \o Input(f.fileOffset + Whole(f), f.fileSize % Block)
  BY DEF ItemsPlain
<1> DEFINE f == files[k]
<1>3. k \in 1 .. Len(files) /\ phase # "table"
  BY <1>1, PkgAssumption DEF Known
<1>4. ItemRead(k) = f /\ f \in Item
  BY <1>1, <1>3, ItemsRead, ItemIs DEF Known
<1> HIDE DEF f
<1>5. f.nameOffset \in Nat /\ f.nameLength \in Nat /\ f.fileOffset \in Nat /\ f.fileSize \in Nat
  BY <1>4 DEF Item
<1>6. Block \in Nat \ {0}
  BY ChunkBlocks
<1>7. ASSUME f.nameOffset % Block = 0, NEW p \in 1 .. f.nameLength
      PROVE  name[k][p] = Plain(f.nameOffset + p - 1)
  <2> DEFINE n == NameBlocksOf(f)
  <2>1. n \in Nat /\ n * Block \in Nat /\ f.nameLength <= n * Block
    <3> DEFINE s == f.nameLength + Block - 1
    <3>1. s \in Nat
      BY <1>5, <1>6
    <3>2. s = Block * (s \div Block) + (s % Block) /\ s % Block \in 0 .. (Block - 1) /\ s \div Block \in Nat
      BY <1>6, <3>1, QuotientRest
    <3>3. n = s \div Block
      BY DEF NameBlocksOf
    <3>4. s = f.nameLength + Block - 1
      OBVIOUS
    <3> HIDE DEF n, s
    <3>5. n * Block = Block * n /\ n * Block \in Nat
      BY <1>6, <3>2, <3>3
    <3> DEFINE whole == Block * n
               r == s % Block
    <3>6. s = whole + r /\ r \in 0 .. (Block - 1) /\ whole \in Nat
      BY <3>2, <3>3, <3>5
    <3> HIDE DEF whole, r
    <3>7. f.nameLength <= whole
      BY <1>5, <1>6, <3>4, <3>6
    <3> QED  BY <3>2, <3>3, <3>5, <3>7 DEF whole
  <2>2. Decrypted(name[k], f.nameOffset, n, n * Block, Setiter[f.nameOffset \div Block])
    BY <1>1, <1>4 DEF NamesDecrypted, NameDone
  <2> HIDE DEF n
  <2>3. p \in 1 .. n * Block /\ p <= n * Block
    BY <1>5, <2>1
  <2>4. PlainUpTo(name[k], f.nameOffset, n * Block, n * Block)
    BY <1>5, <1>7, <2>1, <2>2, StreamPlain
  <2> QED  BY <2>3, <2>4 DEF PlainUpTo
<1>8. ASSUME f.dir PROVE out[k] = <<>>
  BY <1>1, <1>4, <1>8 DEF ContentsDecrypted, Finished
<1>9. ASSUME ~f.dir, f.fileOffset % Block = 0, ~Straggler(f)
      PROVE  out[k] = PlainText(f.fileOffset, Whole(f))
                        \o Input(f.fileOffset + Whole(f), f.fileSize % Block)
  <2> DEFINE o == f.fileOffset
             size == f.fileSize
             n == size \div Block
             r == size % Block
             w == Whole(f)
             v == PlainText(o, w)
             t == Input(o + w, r)
  <2>1. Decrypted(out[k], o, n, size, Setiter[o \div Block])
    BY <1>1, <1>4, <1>9 DEF ContentsDecrypted, Finished, KeyFor
  <2>2. size = Block * n + r /\ r \in 0 .. (Block - 1) /\ n \in Nat /\ size \in Nat /\ o \in Nat
    BY <1>5, <1>6, QuotientRest
  <2>3. w = size - r /\ o % Block = 0
    BY <1>9 DEF Whole
  <2>4. v = [p \in 1 .. w |-> Plain(o + p - 1)] /\ t = [p \in 1 .. r |-> Cipher(o + w + p - 1)]
    BY DEF PlainText, Input
  <2>5. SUFFICES out[k] = v \o t
    OBVIOUS
  <2> HIDE DEF o, size, n, r, w, v, t
  <2>6. w = n * Block /\ w \in Nat /\ r \in Nat /\ w + r = size
    <3>1. Block * n = n * Block /\ n * Block \in Nat
      BY <1>6, <2>2
    <3> QED  BY <1>6, <2>2, <2>3, <3>1
  <2>7. /\ Lists(out[k], size)
        /\ \A p \in 1 .. size : out[k][p] = IF p <= w THEN Plain(o + p - 1) ELSE Cipher(o + p - 1)
    <3>1. PlainUpTo(out[k], o, n * Block, size)
      BY <2>1, <2>2, <2>3, StreamPlain
    <3> QED  BY <2>6, <3>1 DEF PlainUpTo
  <2>8. IsSeq(v) /\ Len(v) = w /\ IsSeq(t) /\ Len(t) = r
    <3>1. v = [p \in 1 .. w |-> v[p]] /\ t = [p \in 1 .. r |-> t[p]]
      BY <2>4
    <3> QED  BY <2>6, <3>1, IsSeqFunction
  <2>9. Joined(v \o t, v, t)
    BY <2>8, IsSeqConcat
  <2> DEFINE u == v \o t
  <2>10. /\ Lists(u, size)
         /\ \A p \in 1 .. w : u[p] = v[p]
         /\ \A p \in 1 .. r : u[w + p] = t[p]
    <3> HIDE DEF u
    <3>1. /\ IsSeq(u) /\ Len(u) = size
          /\ \A p \in 1 .. w : u[p] = v[p]
          /\ \A p \in 1 .. r : u[w + p] = t[p]
      BY <2>6, <2>8, <2>9 DEF Joined, u
    <3> QED  BY <3>1, SeqDomain DEF Lists
  <2> HIDE DEF u
  <2>11. ASSUME NEW p \in 1 .. size PROVE u[p] = out[k][p]
    <3>1. CASE p <= w
      <4>1. p \in 1 .. w
        BY <2>6, <3>1
      <4>2. v[p] = Plain(o + p - 1)
        BY <2>4, <4>1
      <4> QED  BY <2>7, <2>10, <3>1, <4>1, <4>2
    <3>2. CASE p > w
      <4>1. PICK q \in 1 .. r : p = w + q
        <5>1. p - w \in 1 .. r /\ p = w + (p - w)
          BY <2>6, <3>2
        <5> QED  BY <5>1
      <4>2. t[q] = Cipher(o + w + q - 1) /\ u[w + q] = t[q]
        BY <2>4, <2>10
      <4>3. o + w + q - 1 = o + p - 1 /\ ~(p <= w)
        BY <2>2, <2>6, <4>1
      <4>4. out[k][p] = Cipher(o + p - 1)
        BY <2>7, <4>3
      <4> QED  BY <4>1, <4>2, <4>3, <4>4
    <3> QED  BY <2>6, <3>1, <3>2
  <2>12. out[k] = u
    <3>1. \A p \in 1 .. size : u[p] = out[k][p]
      BY <2>11
    <3>2. u = out[k]
      BY <2>7, <2>10, <3>1, SameLists
    <3> QED  BY <3>2
  <2> QED  BY <2>12 DEF u
<1> QED  BY <1>7, <1>8, <1>9 DEF f

-----------------------------------------------------------------------------
(* Types. *)

LEMMA ReadBytes ==
  ASSUME NEW o \in Nat, NEW len \in Nat
  PROVE  /\ Input(o, len) \in Seq(Byte)
         /\ \A b \in Seq(Byte) : ReadInto(b, o, len) \in Seq(Byte) /\ Len(ReadInto(b, o, len)) = Len(b)
<1>1. ASSUME NEW x \in Int PROVE Cipher(x) \in Byte
  BY DEF Cipher, Byte
<1>2. Input(o, len) \in [1 .. len -> Byte]
  <2>1. \A p \in 1 .. len : o + p - 1 \in Int
    OBVIOUS
  <2> QED  BY <1>1, <2>1 DEF Input
<1>3. ASSUME NEW b \in Seq(Byte)
      PROVE  ReadInto(b, o, len) \in Seq(Byte) /\ Len(ReadInto(b, o, len)) = Len(b)
  <2>1. DOMAIN b = 1 .. Len(b) /\ Len(b) \in Nat /\ \A p \in 1 .. Len(b) : b[p] \in Byte
    OBVIOUS
  <2>2. \A p \in 1 .. Len(b) : o + p - 1 \in Int
    BY <2>1
  <2>3. ReadInto(b, o, len) \in [1 .. Len(b) -> Byte]
    BY <1>1, <2>1, <2>2 DEF ReadInto
  <2> QED  BY <2>1, <2>3
<1> QED  BY <1>2, <1>3

LEMMA XorBytes ==
  ASSUME NEW b \in Seq(Byte), NEW p \in Nat, NEW c \in Counter
  PROVE  Xor128(b, p, c) \in Seq(Byte)
<1>1. DOMAIN b = 1 .. Len(b) /\ Len(b) \in Nat /\ \A q \in 1 .. Len(b) : b[q] \in Byte
  OBVIOUS
<1>2. Block \in Nat \ {0}
  BY ChunkBlocks
<1>3. ASSUME NEW x \in Byte, NEW e \in Counter \X (0 .. Block - 1)
      PROVE  [x EXCEPT !.keys = SymDiff(@, {e})] \in Byte
  <2>1. SymDiff(x.keys, {e}) \in SUBSET (Counter \X (0 .. Block - 1))
    BY DEF SymDiff, Byte
  <2> QED  BY <2>1 DEF Byte
<1>4. ASSUME NEW q \in 1 .. Len(b) PROVE Xor128(b, p, c)[q] \in Byte
  <2>1. CASE q \in p + 1 .. p + Block
    <3>1. <<c, q - p - 1>> \in Counter \X (0 .. Block - 1)
      BY <1>1, <1>2, <2>1
    <3>2. Xor128(b, p, c)[q] = [b[q] EXCEPT !.keys = SymDiff(@, {<<c, q - p - 1>>})]
      BY <1>1, <2>1 DEF Xor128
    <3>3. b[q] \in Byte
      BY <1>1
    <3>4. [b[q] EXCEPT !.keys = SymDiff(@, {<<c, q - p - 1>>})] \in Byte
      BY <1>3, <3>1, <3>3, Zenon
    <3> QED  BY <3>2, <3>4
  <2>2. CASE q \notin p + 1 .. p + Block
    <3>1. Xor128(b, p, c)[q] = b[q]
      BY <1>1, <2>2 DEF Xor128
    <3> QED  BY <1>1, <3>1
  <2> QED  BY <2>1, <2>2
<1>5. Xor128(b, p, c) \in [1 .. Len(b) -> Byte]
  <2> DEFINE x == Xor128(b, p, c)
  <2>1. x = [q \in 1 .. Len(b) |-> x[q]]
    BY <1>1 DEF Xor128
  <2>2. \A q \in 1 .. Len(b) : x[q] \in Byte
    BY <1>4
  <2> HIDE DEF x
  <2>3. x \in [1 .. Len(b) -> Byte]
    BY <2>1, <2>2
  <2> QED  BY <2>3 DEF x
<1> QED  BY <1>1, <1>5

(* A file's remaining length and the reads it leads to are numbers. *)
LEMMA AtMostChunkIsNat ==
  ASSUME NEW n \in Nat
  PROVE  AtMostChunk(n) \in Nat
BY ChunkBlocks DEF AtMostChunk

TypeInv == PkgInv /\ TypeOK

LEMMA TypeSteps ==
  ASSUME TypeInv, [Next]_vars
  PROVE  TypeInv'
<1>1. PkgInv'
  BY StartContentsFills, DecryptContentsFills, WriteRestFinishes, MakeDirectoryFinishes,
     OtherSteps DEF Next, TypeInv
<1>2. /\ Known /\ Filling /\ Block \in Nat \ {0} /\ Chunk \in Nat \ {0}
      /\ files \in Package /\ phase \in {"table", "name", "contents", "done"}
      /\ pubKey \in Counter /\ at \in Nat /\ j \in Nat
      /\ table \in Seq(Byte) /\ buf \in Seq(Byte) /\ name \in Seq(Seq(Byte)) /\ out \in Seq(Seq(Byte))
      /\ szcheck \in 0 .. Chunk /\ mincheck \in Nat /\ mincheck % Chunk = 0
      /\ overread \in BOOLEAN
  BY ChunkBlocks DEF TypeInv, TypeOK, PkgInv
<1>3. files' \in Package /\ i' \in 1 .. Len(files') + 1
  <2>1. files' \in Package /\ i' \in Nat \ {0} /\ Len(files') \in Nat
    BY <1>1, PkgAssumption DEF PkgInv, Known
  <2>2. i' - 1 <= Len(files') \/ i' <= Len(files')
    BY <1>1 DEF PkgInv, Known
  <2> QED  BY <2>1, <2>2
<1>4. Increment(pubKey) \in Counter
  BY <1>2, IncrementAdds
<1>5. ASSUME NEW n \in Nat PROVE Setiter[n \div Block] \in Counter
  <2>1. n \div Block \in Nat
    BY <1>2, QuotientRest
  <2> QED  BY <2>1, SetiterIs
<1>6. CASE DecryptTable
  <2>1. Xor128(Input(at, Block), 0, pubKey) \in Seq(Byte)
    <3>1. Input(at, Block) \in Seq(Byte)
      BY <1>2, ReadBytes
    <3> QED  BY <1>2, <3>1, XorBytes
  <2>2. table' \in Seq(Byte)
    BY <1>2, <1>6, <2>1 DEF DecryptTable
  <2> QED  BY <1>1, <1>2, <1>3, <1>4, <1>6, <2>2 DEF DecryptTable, TypeInv, TypeOK
<1>7. CASE TableRead
  BY <1>1, <1>2, <1>3, <1>7 DEF TableRead, TypeInv, TypeOK
<1>8. CASE StartName
  <2>1. i <= Len(files)
    BY <1>8 DEF StartName
  <2>2. File.nameOffset \in Nat /\ NameBlocks * Block \in Nat
    BY <1>2, <2>1, NameItem
  <2>3. Input(File.nameOffset, NameBlocks * Block) \in Seq(Byte)
    BY <2>2, ReadBytes
  <2>4. name' \in Seq(Seq(Byte))
    <3> DEFINE e == Input(File.nameOffset, NameBlocks * Block)
    <3>1. name' = Append(name, e) /\ e \in Seq(Byte)
      BY <1>8, <2>3 DEF StartName
    <3> HIDE DEF e
    <3> QED  BY <1>2, <3>1
  <2>5. at' \in Nat /\ pubKey' \in Counter /\ j' \in Nat
    BY <1>5, <1>8, <2>2 DEF StartName
  <2> QED  BY <1>1, <1>2, <1>3, <1>8, <2>4, <2>5 DEF StartName, TypeInv, TypeOK
<1>9. CASE DecryptName
  <2>1. i \in 1 .. Len(name)
    BY <1>2, <1>9 DEF DecryptName, Known
  <2>2. name[i] \in Seq(Byte) /\ j * Block \in Nat
    BY <1>2, <2>1
  <2>3. Xor128(name[i], j * Block, pubKey) \in Seq(Byte)
    BY <1>2, <2>2, XorBytes
  <2>4. name' \in Seq(Seq(Byte)) /\ j' \in Nat
    BY <1>2, <1>9, <2>1, <2>3, ExceptSeq DEF DecryptName
  <2> QED  BY <1>1, <1>2, <1>3, <1>4, <1>9, <2>4 DEF DecryptName, TypeInv, TypeOK
<1>10. CASE MakeDirectory
  <2>1. <<>> \in Seq(Byte)
    OBVIOUS
  <2>2. out' \in Seq(Seq(Byte))
    BY <1>2, <1>10, <2>1 DEF MakeDirectory
  <2> QED  BY <1>1, <1>2, <1>3, <1>10, <2>2 DEF MakeDirectory, TypeInv, TypeOK
<1>11. CASE StartContents
  <2>1. File.fileOffset \in Nat /\ File.fileSize \in Nat
    <3>1. i \in 1 .. Len(files)
      BY <1>2, <1>11, PkgAssumption DEF StartContents, Known
    <3>2. File \in Item
      BY <1>2, <3>1, ItemIs DEF File
    <3> QED  BY <3>2 DEF Item
  <2>2. AtMostChunk(File.fileSize) \in Nat
    BY <2>1, AtMostChunkIsNat
  <2>3. buf' \in Seq(Byte)
    <3> DEFINE g == [p \in 1 .. Chunk |-> Garbage]
    <3>1. Garbage \in Byte
      BY DEF Garbage, Byte
    <3>2. g \in Seq(Byte)
      BY <1>2, <3>1
    <3>3. buf' = ReadInto(g, File.fileOffset, AtMostChunk(File.fileSize))
      BY <1>11 DEF StartContents
    <3> HIDE DEF g
    <3> QED  BY <2>1, <2>2, <3>2, <3>3, ReadBytes
  <2>4. out' \in Seq(Seq(Byte))
    <3>1. out' = Append(out, <<>>) /\ <<>> \in Seq(Byte)
      BY <1>11 DEF StartContents
    <3> QED  BY <1>2, <3>1
  <2>5. pubKey' \in Counter
    BY <1>5, <1>11, <2>1 DEF StartContents, KeyFor
  <2>6. at' \in Nat
    BY <1>11, <2>1, <2>2 DEF StartContents
  <2>7. 0 \in 0 .. Chunk /\ 0 % Chunk = 0
    BY <1>2, ModSmall
  <2> QED  BY <1>1, <1>2, <1>3, <1>11, <2>3, <2>4, <2>5, <2>6, <2>7 DEF StartContents, TypeInv, TypeOK
<1>12. CASE DecryptContents
  <2>1. /\ phase = "contents" /\ phase' = "contents" /\ files' = files /\ table' = table /\ i' = i
        /\ name' = name /\ overread' = overread /\ pubKey' = Increment(pubKey) /\ j' = j + 1 /\ j < Blocks
    BY <1>12 DEF DecryptContents
  <2>2. szcheck' \in 0 .. Chunk /\ mincheck' \in Nat /\ mincheck' % Chunk = 0
    <3>1. Aligned'
      BY <1>1, <2>1 DEF PkgInv, Filling
    <3>2. szcheck' \in Nat /\ szcheck' <= Chunk /\ mincheck' \in Nat /\ \E c \in Nat : mincheck' = Chunk * c
      BY <3>1 DEF Aligned, Counted, Adds
    <3>3. PICK m \in Nat, c \in Nat : m = mincheck' /\ m = Chunk * c
      BY <3>2
    <3>4. m = Chunk * c + 0 /\ 0 \in 0 .. (Chunk - 1)
      BY <1>2, <3>3
    <3>5. mincheck' % Chunk = 0
      BY <1>2, <3>3, <3>4, RestOfUnits
    <3> QED  BY <1>2, <3>2, <3>5
  <2>3. i \in 1 .. Len(out) /\ out[i] \in Seq(Byte)
    <3>1. i \in 1 .. Len(out)
      BY <1>2, <2>1 DEF Known
    <3> QED  BY <1>2, <3>1
  <2>4. out' \in Seq(Seq(Byte))
    <3>1. out[i] \o buf \in Seq(Byte)
      BY <1>2, <2>3
    <3>2. [out EXCEPT ![i] = out[i] \o buf] \in Seq(Seq(Byte))
      BY <1>2, <2>3, <3>1, ExceptSeq
    <3> QED  BY <1>2, <1>12, <3>2 DEF DecryptContents, Written
  <2>5. RefillLength \in Nat
    <3>1. /\ Blocks \in Nat /\ File.fileSize \in Nat /\ File.fileSize % Block \in 0 .. (Block - 1)
          /\ File.fileSize = Blocks * Block + (File.fileSize % Block)
      BY <1>2, <2>1, CurrentItem
    <3>2. PICK d \in Nat : Blocks = j + d
      BY <1>2, <2>1, <3>1
    <3>3. Blocks * Block = j * Block + d * Block /\ d * Block \in Nat /\ j * Block \in Nat
      BY <1>2, <3>2
    <3>4. Rest \in Nat
      <4> DEFINE r == File.fileSize % Block
                 w == Blocks * Block
                 u == j * Block
                 v == d * Block
      <4>1. File.fileSize = w + r /\ r \in Nat /\ w = u + v /\ u \in Nat /\ v \in Nat
        BY <1>2, <3>1, <3>3
      <4>2. Rest = File.fileSize - u
        BY DEF Rest
      <4> HIDE DEF r, w, u, v
      <4> QED  BY <4>1, <4>2
    <3> QED  BY <3>4, AtMostChunkIsNat DEF RefillLength
  <2>6. at' \in Nat
    BY <1>2, <1>12, <2>5 DEF DecryptContents
  <2>7. j * Block - mincheck' \in Nat
    <3>1. PICK s \in Nat : mincheck' + s = j * Block /\ j * Block \in Nat
      <4>1. Adds(j, mincheck, szcheck)
        BY <1>2, <2>1 DEF Filling, Aligned, Counted
      <4>2. mincheck' = mincheck \/ (szcheck = Chunk /\ mincheck' = mincheck + Chunk)
        BY <1>12 DEF DecryptContents
      <4>3. mincheck \in Nat /\ szcheck \in Nat /\ mincheck + szcheck = j * Block
        BY <4>1 DEF Adds
      <4> DEFINE u == j * Block
      <4>4. mincheck + szcheck = u /\ u \in Nat
        BY <4>3
      <4> HIDE DEF u
      <4>5. \E s \in Nat : mincheck' + s = u
        <5>1. CASE mincheck' = mincheck
          BY <4>3, <4>4, <5>1
        <5>2. CASE szcheck = Chunk /\ mincheck' = mincheck + Chunk
          <6>1. mincheck' + 0 = u
            BY <1>2, <4>3, <4>4, <5>2
          <6> QED  BY <6>1
        <5> QED  BY <4>2, <5>1, <5>2
      <4> QED  BY <4>4, <4>5 DEF u
    <3> DEFINE u == j * Block
    <3>2. PICK m \in Nat : m = mincheck'
      BY <2>2
    <3>3. m + s = u /\ u \in Nat
      BY <3>1, <3>2
    <3> HIDE DEF u
    <3>4. u - m \in Nat
      BY <3>3
    <3> QED  BY <3>2, <3>4 DEF u
  <2>8. buf' \in Seq(Byte)
    <3>1. \A b \in Seq(Byte) : Xor128(b, j * Block - mincheck', pubKey) \in Seq(Byte)
      BY <1>2, <2>7, XorBytes
    <3>2. ReadInto(buf, at, RefillLength) \in Seq(Byte)
      BY <1>2, <2>5, ReadBytes
    <3>3. \/ buf' = Xor128(ReadInto(buf, at, RefillLength), j * Block - mincheck', pubKey)
          \/ buf' = Xor128(buf, j * Block - mincheck', pubKey)
      BY <1>12 DEF DecryptContents
    <3> QED  BY <1>2, <3>1, <3>2, <3>3
  <2>9. j' \in Nat
    BY <1>2, <2>1
  <2> QED  BY <1>1, <1>2, <1>3, <1>4, <2>1, <2>2, <2>4, <2>6, <2>8, <2>9 DEF TypeInv, TypeOK
<1>13. CASE WriteRest
  <2>1. phase = "contents" /\ Aligned /\ j = Blocks
    BY <1>2, <1>13 DEF WriteRest, Filling
  <2> DEFINE left == File.fileSize - mincheck
  <2>2. left \in Nat
    BY <1>2, <2>1, Leftover
  <2>3. i \in 1 .. Len(out) /\ out[i] \in Seq(Byte)
    <3>1. i \in 1 .. Len(out)
      BY <1>2, <2>1 DEF Known
    <3> QED  BY <1>2, <3>1
  <2>4. FromBuf(left) \in Seq(Byte)
    <3>1. DOMAIN buf = 1 .. Chunk
      BY <1>2, <2>1 DEF Filling, Filled, Holds
    <3>2. Len(buf) = Chunk
      BY <1>2, <3>1
    <3>3. Garbage \in Byte
      BY DEF Garbage, Byte
    <3> HIDE DEF left
    <3>4. FromBuf(left) \in [1 .. left -> Byte]
      <4>1. ASSUME NEW p \in 1 .. left, p <= Chunk PROVE buf[p] \in Byte
        <5>1. p \in 1 .. Len(buf)
          BY <1>2, <2>2, <3>2, <4>1
        <5> QED  BY <1>2, <5>1
      <4> QED  BY <3>3, <4>1 DEF FromBuf
    <3> QED  BY <2>2, <3>4
  <2>5. out' \in Seq(Seq(Byte))
    <3> DEFINE e == out[i] \o FromBuf(left)
    <3>1. e \in Seq(Byte)
      BY <2>3, <2>4
    <3>2. out' = [out EXCEPT ![i] = IF left > 0 THEN e ELSE out[i]]
      BY <1>13 DEF WriteRest, Written
    <3> HIDE DEF e, left
    <3> QED  BY <1>2, <2>3, <3>1, <3>2, ExceptSeq
  <2>6. overread' \in BOOLEAN
    BY <1>2, <1>13 DEF WriteRest
  <2> QED  BY <1>1, <1>2, <1>3, <1>13, <2>5, <2>6 DEF WriteRest, TypeInv, TypeOK
<1>14. CASE Return
  BY <1>1, <1>2, <1>3, <1>14 DEF Return, TypeInv, TypeOK
<1>15. CASE UNCHANGED vars
  BY <1>1, <1>2, <1>3, <1>15 DEF vars, TypeInv, TypeOK
<1> QED  BY <1>6, <1>7, <1>8, <1>9, <1>10, <1>11, <1>12, <1>13, <1>14, <1>15 DEF Next

-----------------------------------------------------------------------------
(* The theorems. *)

LEMMA PkgInitially == Init => PkgInv
<1> SUFFICES ASSUME Init PROVE PkgInv
  OBVIOUS
<1>1. <<>> \in Seq({}) /\ Len(<<>>) = 0
  OBVIOUS
<1>2. files \in Package /\ Len(files) \in Nat
  BY PkgAssumption DEF Init
<1>3. Known
  BY <1>1, <1>2 DEF Init, Known, IsSeq
<1>4. 1 .. i - 1 = {}
  BY DEF Init
<1> QED  BY <1>3, <1>4 DEF Init, PkgInv, Filling, ContentsDecrypted, NoOverread

LEMMA PkgInvariant == Spec => []PkgInv
<1>2. PkgInv /\ [Next]_vars => PkgInv'
  <2> SUFFICES ASSUME PkgInv, [Next]_vars PROVE PkgInv'
    OBVIOUS
  <2> QED  BY StartContentsFills, DecryptContentsFills, WriteRestFinishes, MakeDirectoryFinishes,
             OtherSteps DEF Next
<1> QED  BY PkgInitially, <1>2, PTL DEF Spec

LEMMA NameInvariant == Spec => []NameInv
<1>1. Init => NameInv
  <2> SUFFICES ASSUME Init PROVE NameInv
    OBVIOUS
  <2>1. 1 .. i - 1 = {}
    BY DEF Init
  <2> QED  BY <2>1, PkgInitially DEF Init, NameInv, NamesDecrypted, NameSoFar
<1> QED  BY <1>1, NameSteps, PTL DEF Spec

LEMMA TableInvariant == Spec => []TableInv
<1>1. Init => TableInv
  <2> SUFFICES ASSUME Init PROVE TableInv
    OBVIOUS
  <2>1. PICK key : key = [x \in {0} |-> Riv]
    OBVIOUS
  <2>2. Stream(key, 0, Riv) /\ key[0] = Riv
    BY <2>1 DEF Stream
  <2>3. <<>> \in Seq({}) /\ Len(<<>>) = 0 /\ <<>> = [p \in 1 .. 0 |-> <<>>[p]]
    OBVIOUS
  <2>4. 0 * Block = 0 /\ \A p \in 1 .. 0 : FALSE
    BY ChunkBlocks
  <2>5. DecryptedBy(key, <<>>, 0, 0, 0 * Block)
    BY <2>3, <2>4 DEF DecryptedBy
  <2>6. TableSoFar
    BY <2>2, <2>3, <2>4, <2>5 DEF Init, TableSoFar, IsSeq
  <2> QED  BY <2>6, PkgInitially DEF Init, TableInv, TableDecrypted
<1> QED  BY <1>1, TableSteps, PTL DEF Spec

(* For every block, buffer and package, decryptPkgFile writes each file's     *)
(* contents once, in order and completely: each whole block decrypted by one  *)
(* key stream that begins where the file does, however often the buffer was   *)
(* refilled, and an incomplete last block as it was.  Stragglers excepted.    *)
THEOREM ContentsCorrect == Spec => []ContentsDecrypted
<1>1. PkgInv => ContentsDecrypted
  BY DEF PkgInv
<1> QED  BY <1>1, PkgInvariant, PTL

(* Every item's name comes out whole, by one key stream that begins where the *)
(* name does, whatever was decrypted before it.                               *)
THEOREM NamesCorrect == Spec => []NamesDecrypted
<1>1. NameInv => NamesDecrypted
  BY DEF NameInv
<1> QED  BY <1>1, NameInvariant, PTL

(* The item table, once read and while it is, is plain: the counter keeps step *)
(* with the blocks and carries over all its bytes, for any number of items.    *)
THEOREM TableCorrect == Spec => []TablePlain
<1> QED  BY TableIsPlain, TableInvariant, PTL

(* Every finished item that starts on a block has its name and its contents as *)
(* the package's maker meant them, whatever the items before it, the size of    *)
(* the buffer and the width of the counter; stragglers excepted.               *)
THEOREM ItemsCorrect == Spec => []ItemsPlain
<1> QED  BY ItemsArePlain, TableInvariant, NameInvariant, PTL

(* Every variable keeps its type: the counter its bytes, the buffer's counts   *)
(* their range, and every byte its place and the key stream bytes it met.      *)
THEOREM TypeCorrect == Spec => []TypeOK
<1>1. Init => TypeInv
  <2> SUFFICES ASSUME Init PROVE TypeInv
    OBVIOUS
  <2>1. files \in Package /\ Len(files) \in Nat
    BY PkgAssumption DEF Init
  <2>2. 1 \in 1 .. Len(files) + 1
    BY <2>1
  <2>3. <<>> \in Seq(Byte) /\ <<>> \in Seq(Seq(Byte))
    OBVIOUS
  <2>4. 0 \in 0 .. Chunk /\ 0 % Chunk = 0
    BY ChunkBlocks, ModSmall
  <2> QED  BY <2>1, <2>2, <2>3, <2>4, PkgInitially, PkgAssumption DEF Init, TypeInv, TypeOK
<1>2. TypeInv => TypeOK
  BY DEF TypeInv
<1> QED  BY <1>1, <1>2, TypeSteps, PTL DEF Spec

(* The write of what is left reads past the buffer for stragglers only. *)
THEOREM OverreadCorrect == Spec => []NoOverread
<1>1. PkgInv => NoOverread
  BY DEF PkgInv
<1> QED  BY <1>1, PkgInvariant, PTL

==============================================================================
