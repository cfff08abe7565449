--------------------------- MODULE MCGuestMemory ----------------------------
(***************************************************************************)
(* A small instance of GuestMemory: pages of 4 bytes; an ELF region, the   *)
(* stack region, the TLS request that begins inside it, the arena.         *)
(***************************************************************************)
EXTENDS GuestMemory

MCMmapCalls == << [start |-> 0,  size |-> 8],      \* ELF
                  [start |-> 16, size |-> 12],     \* stack
                  [start |-> 20, size |-> 4],      \* TLS, inside the stack
                  [start |-> 8,  size |-> 4] >>    \* arena, adjacent to the ELF

(* Across a page, a whole region, past the end of one region into the next *)
(* one (into nothing, until that is mapped), inside and across the page of *)
(* the refused request, never mapped.                                      *)
MCAccesses == { <<3, 2>>, <<0, 8>>, <<6, 4>>, <<22, 4>>, <<12, 1>> }

MCWords == {[i \in 0 .. (n - 1) |-> i + 1] : n \in Widths}
=============================================================================
