------------------------------ MODULE ElfLayout ------------------------------
(***************************************************************************)
(* loadELF: from the section headers of the executable to one mapped       *)
(* region, then the sections' bytes, then the bytes of the PT_LOAD segments *)
(* over them, and what loadELF reads back out of memory on the way: the     *)
(* PT_PROC_PRX segment with the import table it points to, and the          *)
(* descriptor of the entry point.                                           *)
(*                                                                         *)
(* The file is what its linker meant: Image gives the byte each address is *)
(* to hold, and sections and segments that share an address share its byte. *)
(***************************************************************************)
EXTENDS Process, FiniteSets, Sequences

CONSTANTS
  Elf         \* the executables considered

VARIABLES
  elf,        \* the executable being loaded
  pages,      \* the keys of address64KB, in granules
  done        \* sections or segments already handled in this stage

layoutVars == <<elf, pages, done>>

Section == [addr : Nat, size : Nat, type : {"nobits", "progbits", "other"}, alloc : BOOLEAN]
Segment == [kind : {"load", "prx", "other"}, vaddr : Nat, filesz : Nat]

ASSUME ElfAssumption ==
  \A e \in Elf :
    /\ e.sections \in Seq(Section) /\ e.segments \in Seq(Segment)
    /\ e.entry \in Nat                         \* the descriptor: code address and r2
    \* the import table with what it refers to
    /\ e.libstub \in [addr : Nat, size : Nat \ {0}]

LoadStages == {"layout", "map", "sections", "segments", "walk"}

SectionAt(k) == elf.sections[k]
Sections == {SectionAt(k) : k \in DOMAIN elf.sections}
Allocated == {s \in Sections : s.alloc /\ s.size > 0}

Bytes(s) == s.addr .. (s.addr + s.size - 1)
FileBytes(g) == g.vaddr .. (g.vaddr + g.filesz - 1)

(* The byte the linker put at an address: one of its own in a section with *)
(* contents, padding elsewhere.                                            *)
Image(a) == IF \E s \in Allocated : s.type = "progbits" /\ a \in Bytes(s) THEN a ELSE Zero

LayoutInit ==
  /\ elf \in Elf
  /\ pages = {}
  /\ mem = Nowhere
  /\ done = 0

-----------------------------------------------------------------------------
(* sortMemoryAddressesAndToFixedArea. *)

(* Pages from that of the section's address, as many as its rounded size has; *)
(* the offset of the address in its page is not part of the count.            *)
PageCountDown(s) == s.size \div PageSize
PageCount(s) == (s.size + PageSize) \div PageSize
FirstPage(s) == s.addr \div PageSize
PagesOf(s) == FirstPage(s) .. (FirstPage(s) + PageCount(s) - 1)

Keys == UNION {PagesOf(s) : s \in Allocated}

(* The keys are compared in pairs: first with second, third with fourth. *)
Rank(p) == Cardinality({q \in Keys : q < p})
IsLast(p) == \A q \in Keys : q <= p
PairsAdjacent == \A p \in Keys : Rank(p) % 2 = 0 /\ ~IsLast(p) => p + 1 \in Keys
EvenlyMany == Cardinality(Keys) % 2 = 0

Unhandled == \E s \in Allocated : s.type = "other"

Layout ==
  /\ stage = "layout"
  /\ pages' = Keys
  /\ stage' = IF elf.sections = <<>> THEN "segments"
              ELSE IF Unhandled THEN "exit"
              ELSE IF Keys = {} THEN "undefined"    \* keys.front() of an empty vector
              ELSE IF PairsAdjacent /\ EvenlyMany THEN "map" ELSE "exit"
  /\ UNCHANGED <<elf, mem, done>>

-----------------------------------------------------------------------------
(* The region: from the first key, as long as there are keys. *)
FirstKey == CHOOSE p \in pages : \A q \in pages : p <= q

Map ==
  /\ stage = "map"
  /\ mem' = Mmap(mem, FirstKey * PageSize, Cardinality(pages) * PageSize)
  /\ stage' = "sections"
  /\ UNCHANGED <<elf, pages, done>>

(* setMemory and copyMemory dereference the translation of every byte without *)
(* a test: a byte of no mapped page ends the host.                            *)
Store(bytes) ==
  IF DOMAIN bytes \subseteq DOMAIN mem
    THEN /\ mem' = Poke(mem, bytes)
         /\ done' = done + 1
         /\ UNCHANGED stage
    ELSE /\ stage' = "undefined"
         /\ UNCHANGED <<mem, done>>

LoadSection ==
  /\ stage = "sections" /\ done < Len(elf.sections)
  /\ LET s == SectionAt(done + 1) IN
       \/ s \notin Allocated /\ done' = done + 1 /\ UNCHANGED <<stage, mem>>
       \/ s \in Allocated /\ s.type = "nobits" /\ Store([a \in Bytes(s) |-> Zero])
       \/ s \in Allocated /\ s.type = "progbits" /\ Store([a \in Bytes(s) |-> Image(a)])
  /\ UNCHANGED <<elf, pages>>

EndSections ==
  /\ stage = "sections" /\ done = Len(elf.sections)
  /\ stage' = "segments"
  /\ done' = 0
  /\ UNCHANGED <<elf, pages, mem>>

-----------------------------------------------------------------------------
(* The loop over the program headers. *)
CurrentSegment == elf.segments[done + 1]
AtSegment(kind) == /\ stage = "segments" /\ done < Len(elf.segments)
                   /\ CurrentSegment.kind = kind

CopiedNot(g) == Nowhere
Copied(g) == [a \in FileBytes(g) |-> Image(a)]
LoadSegment == AtSegment("load") /\ Store(Copied(CurrentSegment)) /\ UNCHANGED <<elf, pages>>

SkipSegment ==
  /\ AtSegment("other")
  /\ done' = done + 1
  /\ UNCHANGED <<stage, elf, pages, mem>>

(* What is read back at these addresses is contents, and what the linker put there. *)
AsLinked(addresses) ==
  \A a \in addresses : a \in DOMAIN mem /\ mem[a] = Image(a) /\ mem[a] # Zero
TableBytes == elf.libstub.addr .. (elf.libstub.addr + elf.libstub.size - 1)
Blank(addresses) == \A a \in addresses : a \in DOMAIN mem /\ mem[a] = Zero

(* prxInfo is read where the segment lies, then the table from where prxInfo  *)
(* says, all as memory is at this point of the loop.  What is still, or       *)
(* again, zero there is a table all the same: zeroed prxInfo points to an     *)
(* empty one at address 0, and a zeroed header is one of size zero.           *)
PrxInfo == FileBytes(CurrentSegment)
TableLinked == AsLinked(PrxInfo \cup TableBytes)
TableZeroed == AsLinked(PrxInfo) /\ Blank({elf.libstub.addr})
TableEmpty == Blank(PrxInfo) /\ 0 \in DOMAIN mem

(* Empty or unmapped prxInfo ends the program; a header that cannot be read   *)
(* makes loadELF return before it has set startAddress, and main() goes on    *)
(* regardless; so it does if what was read is neither the linker's nor zero.  *)
ReadTable ==
  /\ AtSegment("prx")
  /\ stage' = IF PrxInfo = {} \/ ~(PrxInfo \subseteq DOMAIN mem) THEN "exit"
              ELSE IF TableLinked \/ TableZeroed \/ TableEmpty THEN "walk" ELSE "undefined"
  /\ UNCHANGED <<elf, pages, mem, done>>

(* The walk over the table, which HLE models, ends. *)
EndTable ==
  /\ stage = "walk"
  /\ stage' = "segments"
  /\ done' = done + 1
  /\ UNCHANGED <<elf, pages, mem>>

(* startAddress and gpValue are read from the entry's descriptor; the results *)
(* of the reads are not looked at.                                            *)
EntryWords == {elf.entry, elf.entry + 1}
EndSegments ==
  /\ stage = "segments" /\ done = Len(elf.segments)
  /\ stage' = IF AsLinked(EntryWords) THEN "loaded" ELSE "undefined"
  /\ UNCHANGED <<elf, pages, mem, done>>

LayoutNext == \/ Layout \/ Map \/ LoadSection \/ EndSections
              \/ LoadSegment \/ SkipSegment \/ ReadTable \/ EndTable \/ EndSegments

LayoutSpec == LayoutInit /\ stage = "layout" /\ [][LayoutNext]_<<stage, mem, layoutVars>>

-----------------------------------------------------------------------------
(* Properties. *)

Segments == {elf.segments[k] : k \in DOMAIN elf.segments}
LoadSegments == {g \in Segments : g.kind = "load"}

(* Type invariant. *)
LayoutTypeOK ==
  /\ elf \in Elf /\ done \in Nat
  /\ pages \subseteq Nat
  /\ DOMAIN mem \subseteq Nat

(* Executables the page count does justice to: no section reaches past the    *)
(* pages counted for it, the pages leave no gap, the segments load nothing    *)
(* outside them.                                                              *)
Fits(s) == (s.addr % PageSize) + (s.size % PageSize) <= PageSize
NoGap == \A p, q \in Keys : p .. q \subseteq Keys

(* An address with contents that no NOBITS section zeroes, or that one of the *)
(* first segments puts right again.                                           *)
Settled(a, segments) ==
  /\ Image(a) # Zero
  /\ \/ \A s \in Allocated : s.type = "nobits" => a \notin Bytes(s)
     \/ \E k \in 1 .. segments :
          elf.segments[k].kind = "load" /\ a \in FileBytes(elf.segments[k])

Ordinary ==
  /\ Allocated # {} /\ NoGap
  /\ \A s \in Allocated : Fits(s)
  /\ \A g \in LoadSegments : \A a \in FileBytes(g) : a \div PageSize \in Keys
  /\ \A k \in DOMAIN elf.segments : elf.segments[k].kind = "prx" =>
       \A a \in FileBytes(elf.segments[k]) \cup TableBytes : Settled(a, k)
  /\ \A a \in EntryWords : Settled(a, Len(elf.segments))

(* Whatever was accepted and loaded holds the linker's bytes in every segment, *)
(* also where a NOBITS section (.tbss, which occupies no memory) overlaps the  *)
(* sections that follow it; and uninitialised data starts out zero, unless     *)
(* other contents share its address.                                           *)
ImageLoaded ==
  stage = "loaded" =>
    /\ \A g \in LoadSegments : \A a \in FileBytes(g) : a \in DOMAIN mem /\ mem[a] = Image(a)
    /\ \A s \in Allocated : s.type = "nobits" =>
         \A a \in Bytes(s) : Image(a) = Zero => a \in DOMAIN mem /\ mem[a] = Zero

(* The check in the code: each key of a pair is followed by the next page, or *)
(* the loader gives up.  Taken at its word, a layout with a gap is refused.   *)
GapsRefused == stage \in {"map", "sections", "segments", "loaded"} => NoGap
==============================================================================
