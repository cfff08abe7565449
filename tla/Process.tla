------------------------------- MODULE Process -------------------------------
(***************************************************************************)
(* What loadELF, main() and the handlers share: how far the process has   *)
(* come, and guest memory as they use it (what FlatMemory promises).  A    *)
(* cell of memory is an object accessed as one, a byte, word or pointer.   *)
(***************************************************************************)
EXTENDS Integers

CONSTANT
  PageSize   \* 0x10000

VARIABLES
  stage,     \* where the process is; see Ended
  mem        \* mapped guest address -> what it holds

(* "exit": std::exit was called.  "undefined": the host dereferenced a null   *)
(* pointer or went on with what was never written or not meant to be read.    *)
(* "stuck": an instruction fails and is retried for ever.                     *)
Ended == {"exit", "undefined", "stuck"}

ASSUME PageAssumption == PageSize \in Nat \ {0}

Zero == -1
Nowhere == [a \in {} |-> Zero]

-----------------------------------------------------------------------------
(* Memory::mmap: refused when its first page is mapped, whatever the others; *)
(* otherwise all its pages are, or become, zeroed ones.                      *)
PageStart(a) == a - (a % PageSize)
RoundUp(size) == PageStart(size + PageSize - 1)
Extent(start, size) == PageStart(start) .. (PageStart(start) + RoundUp(size) - 1)

Mmap(memory, start, size) ==
  IF PageStart(start) \in DOMAIN memory
    THEN memory
    ELSE [a \in DOMAIN memory \cup Extent(start, size) |->
            IF a \in Extent(start, size) THEN Zero ELSE memory[a]]

(* Memory with some cells overwritten; an unmapped one is not. *)
Poke(memory, cells) ==
  [a \in DOMAIN memory |-> IF a \in DOMAIN cells THEN cells[a] ELSE memory[a]]
==============================================================================
