---------------------------- MODULE PkgDecryptor ----------------------------
(***************************************************************************)
(* decryptPkgFile: a package is one stream encrypted block by block with   *)
(* the key stream AES(RIV), AES(RIV + 1), ...  The function decrypts the   *)
(* item table in one pass, then for each item its name and its contents,   *)
(* the contents through a buffer of one megabyte.                          *)
(*                                                                         *)
(* The cipher is left abstract: a byte is known by its offset in the data  *)
(* area and by the key stream bytes it was xored with (xor twice undoes).  *)
(***************************************************************************)
EXTENDS Numerals, Sequences, SequencesExt

CONSTANTS
  Block,      \* 16
  Chunk,      \* MB
  Radix,      \* 256, the values of a counter byte
  Digits,     \* 16, the bytes of the counter
  Riv,        \* pkgDataRiv
  Package     \* packages considered: sequences of items

VARIABLES
  files,      \* the package's items, as its maker meant them
  phase,      \* "table", "name", "contents" or "done"
  pubKey,     \* the counter
  at,         \* the input stream's position in the data area
  table,      \* the item table, decrypted so far
  i,          \* the current item
  j,          \* the current block of its name or contents
  buf,        \* the innermost buf
  szcheck, mincheck,
  name,       \* names decrypted so far
  out,        \* contents written so far, by item
  overread    \* whether a write read past the end of buf

vars == <<files, phase, pubKey, at, table, i, j, buf, szcheck, mincheck, name, out, overread>>

Item == [nameOffset : Nat, nameLength : Nat, fileOffset : Nat, fileSize : Nat, dir : BOOLEAN]
Counter == [1 .. Digits -> 0 .. Radix - 1]

ASSUME PkgAssumption ==
  /\ {Block, Radix, Digits, Chunk} \subseteq Nat \ {0} /\ Chunk % Block = 0
  /\ Radix > 1 /\ Riv \in Counter
  /\ Package \subseteq Seq(Item)

-----------------------------------------------------------------------------
(* The counter. *)

(* iter128: a byte is incremented when all bytes after it have wrapped. *)
IncrementWide(c) == [c EXCEPT ![Digits] = @ + 1]
IncrementLast(c) == [c EXCEPT ![Digits] = (@ + 1) % Radix]
Increment(c) ==
  [d \in 1 .. Digits |->
     IF \A e \in d + 1 .. Digits : c[e] = Radix - 1 THEN (c[d] + 1) % Radix ELSE c[d]]

(* setiter128: the counter a number of steps after the RIV. *)
Setiter[k \in Nat] == IF k = 0 THEN Riv ELSE Increment(Setiter[k - 1])

-----------------------------------------------------------------------------
(* Bytes. *)

Cipher(o) == [at |-> o, keys |-> {}]
Garbage == [at |-> -1, keys |-> {}]

(* f.read of len bytes at position o. *)
Input(o, len) == [p \in 1 .. len |-> Cipher(o + p - 1)]
ReadInto(b, o, len) == [p \in DOMAIN b |-> IF p <= len THEN Cipher(o + p - 1) ELSE b[p]]

(* xor128 of the block that starts at p with AES(c). *)
Xor128(b, p, c) ==
  [q \in DOMAIN b |-> IF q \in p + 1 .. p + Block
                        THEN [b[q] EXCEPT !.keys = SymDiff(@, {<<c, q - p - 1>>})]
                        ELSE b[q]]

Init ==
  /\ files \in Package
  /\ phase = "table"
  /\ pubKey = Riv
  /\ at = 0
  /\ table = <<>> /\ i = 1 /\ j = 0 /\ buf = <<>>
  /\ szcheck = 0 /\ mincheck = 0
  /\ name = <<>> /\ out = <<>> /\ overread = FALSE

-----------------------------------------------------------------------------
(* The reference: a byte is plain when the key stream of its own place has  *)
(* been applied to it once.  Counters are numbers here, not bytes.          *)
Number(c) == Numeral(c, Radix, Digits)
Numbers == Power(Radix, Digits)
CounterOf == [m \in 0 .. Numbers - 1 |-> CHOOSE c \in Counter : Number(c) = m]
KeyOf(k) == CounterOf[(Number(Riv) + k) % Numbers]
Plain(o) == [at |-> o, keys |-> {<<KeyOf(o \div Block), o % Block>>}]
PlainText(o, len) == [p \in 1 .. len |-> Plain(o + p - 1)]

-----------------------------------------------------------------------------
(* The item table: two blocks an item. *)

DecryptTable ==
  /\ phase = "table" /\ Len(table) < 2 * Len(files) * Block
  /\ table' = table \o Xor128(Input(at, Block), 0, pubKey)
  /\ pubKey' = Increment(pubKey)
  /\ at' = at + Block
  /\ UNCHANGED <<files, phase, i, j, buf, szcheck, mincheck, name, out, overread>>

TableRead ==
  /\ phase = "table" /\ Len(table) = 2 * Len(files) * Block
  /\ phase' = "name"
  /\ UNCHANGED <<files, pubKey, at, table, i, j, buf, szcheck, mincheck, name, out, overread>>

(* An item is what the table's bytes say: the maker's, if they are plain. *)
NoItem == [nameOffset |-> 0, nameLength |-> 0, fileOffset |-> 0, fileSize |-> 0, dir |-> FALSE]
Entry(k) == 2 * (k - 1) * Block + 1 .. 2 * k * Block
ItemRead(k) == IF \A p \in Entry(k) : table[p] = Plain(p - 1) THEN files[k] ELSE NoItem
File == ItemRead(i)

-----------------------------------------------------------------------------
(* Names. *)

NameBlocks == (File.nameLength + Block - 1) \div Block

StartName ==
  /\ phase = "name" /\ i <= Len(files) /\ Len(name) < i
  /\ at' = File.nameOffset + NameBlocks * Block
  /\ name' = Append(name, Input(File.nameOffset, NameBlocks * Block))
  /\ pubKey' = Setiter[File.nameOffset \div Block]
  /\ j' = 0
  /\ UNCHANGED <<files, phase, table, i, buf, szcheck, mincheck, out, overread>>

DecryptName ==
  /\ phase = "name" /\ Len(name) = i /\ j < NameBlocks
  /\ name' = [name EXCEPT ![i] = Xor128(@, j * Block, pubKey)]
  /\ pubKey' = Increment(pubKey)
  /\ j' = j + 1
  /\ UNCHANGED <<files, phase, at, table, i, buf, szcheck, mincheck, out, overread>>

-----------------------------------------------------------------------------
(* Contents. *)

MakeDirectory ==
  /\ phase = "name" /\ Len(name) = i /\ j = NameBlocks /\ File.dir
  /\ out' = Append(out, <<>>)
  /\ i' = i + 1
  /\ UNCHANGED <<files, phase, pubKey, at, table, j, buf, szcheck, mincheck, name, overread>>

AtMostChunk(size) == IF size >= Chunk THEN Chunk ELSE size

KeyKept(offset) == pubKey
KeyFor(offset) == Setiter[offset \div Block]

StartContents ==
  /\ phase = "name" /\ Len(name) = i /\ j = NameBlocks /\ ~File.dir
  /\ phase' = "contents"
  /\ buf' = ReadInto([p \in 1 .. Chunk |-> Garbage], File.fileOffset, AtMostChunk(File.fileSize))
  /\ at' = File.fileOffset + AtMostChunk(File.fileSize)
  /\ pubKey' = KeyFor(File.fileOffset)
  /\ out' = Append(out, <<>>)
  /\ szcheck' = 0 /\ mincheck' = 0 /\ j' = 0
  /\ UNCHANGED <<files, table, i, name, overread>>

(* The buffer is written and refilled when a block is about to be decrypted *)
(* that lies beyond it.                                                     *)
Rest == File.fileSize - j * Block
RefillLength == AtMostChunk(Rest)

BlocksBut1 == (File.fileSize - 1) \div Block
Blocks == File.fileSize \div Block

Written(b) == out[i] \o b

DecryptContents ==
  /\ phase = "contents" /\ j < Blocks
  /\ \/ /\ szcheck = Chunk
        /\ out' = [out EXCEPT ![i] = Written(buf)]
        /\ mincheck' = mincheck + Chunk
        /\ buf' = Xor128(ReadInto(buf, at, RefillLength), j * Block - mincheck', pubKey)
        /\ at' = at + RefillLength
        /\ szcheck' = Block
     \/ /\ szcheck # Chunk
        /\ buf' = Xor128(buf, j * Block - mincheck, pubKey)
        /\ szcheck' = szcheck + Block
        /\ UNCHANGED <<out, mincheck, at>>
  /\ pubKey' = Increment(pubKey)
  /\ j' = j + 1
  /\ UNCHANGED <<files, phase, table, i, name, overread>>

(* What is left is written from buf, and from beyond it if it is longer. *)
FromBuf(len) == [p \in 1 .. len |-> IF p <= Chunk THEN buf[p] ELSE Garbage]

WriteRest ==
  /\ phase = "contents" /\ j = Blocks
  /\ LET left == File.fileSize - mincheck IN
       /\ out' = [out EXCEPT ![i] = IF left > 0 THEN Written(FromBuf(left)) ELSE @]
       /\ overread' = (overread \/ left > Chunk)
  /\ phase' = "name"
  /\ i' = i + 1
  /\ UNCHANGED <<files, pubKey, at, table, j, buf, szcheck, mincheck, name>>

Return ==
  /\ phase = "name" /\ i > Len(files)
  /\ phase' = "done"
  /\ UNCHANGED <<files, pubKey, at, table, i, j, buf, szcheck, mincheck, name, out, overread>>

Next == \/ DecryptTable \/ TableRead \/ StartName \/ DecryptName
        \/ MakeDirectory \/ StartContents \/ DecryptContents \/ WriteRest \/ Return

Spec == Init /\ [][Next]_vars

-----------------------------------------------------------------------------
(* Properties. *)

Byte == [at : Int, keys : SUBSET (Counter \X (0 .. Block - 1))]

(* Type invariant. *)
TypeOK ==
  /\ files \in Package /\ phase \in {"table", "name", "contents", "done"}
  /\ pubKey \in Counter /\ at \in Nat
  /\ i \in 1 .. Len(files) + 1 /\ j \in Nat
  /\ table \in Seq(Byte) /\ buf \in Seq(Byte) /\ name \in Seq(Seq(Byte)) /\ out \in Seq(Seq(Byte))
  /\ szcheck \in 0 .. Chunk /\ mincheck \in Nat /\ mincheck % Chunk = 0
  /\ overread \in BOOLEAN

(* The item table comes out plain: the counter keeps step with the blocks read *)
(* and carries from byte to byte as one 128-bit number.                        *)
TablePlain == table = PlainText(0, Len(table))

(* A file whose last block would begin the buffer anew but is not whole. *)
Straggler(f) == f.fileSize > Chunk /\ f.fileSize % Chunk \in 1 .. Block - 1

(* Every finished item that starts on a block has its name and its whole blocks *)
(* decrypted with the key stream of their place, whatever was decrypted before  *)
(* it and however often the buffer was refilled; an incomplete last block is    *)
(* copied as it is, and nothing is missing or added.                            *)
Whole(f) == f.fileSize - (f.fileSize % Block)
ItemsPlain ==
  \A k \in 1 .. i - 1 :
    LET f == files[k] IN
    /\ f.nameOffset % Block = 0 => \A p \in 1 .. f.nameLength : name[k][p] = Plain(f.nameOffset + p - 1)
    /\ f.dir => out[k] = <<>>
    /\ ~f.dir /\ f.fileOffset % Block = 0 /\ ~Straggler(f) =>
         out[k] = PlainText(f.fileOffset, Whole(f))
                    \o Input(f.fileOffset + Whole(f), f.fileSize % Block)

(* The buffer is overread by stragglers only. *)
NoOverread == overread => \E k \in 1 .. i - 1 : Straggler(files[k])
==============================================================================
