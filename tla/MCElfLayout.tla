----------------------------- MODULE MCElfLayout -----------------------------
(***************************************************************************)
(* Pages of four bytes; every pair of sections in the first pages, and     *)
(* three sections each in a page of its own.                               *)
(***************************************************************************)
EXTENDS ElfLayout

Sec(a, z) == [addr |-> a, size |-> z, type |-> "progbits", alloc |-> TRUE]
One == {Sec(a, z) : a \in 0 .. 16, z \in {1, 3, 6}}

Exe(ss) ==
  [sections |-> ss, entry |-> ss[1].addr, libstub |-> [addr |-> 0, size |-> 1],
   segments |-> [k \in DOMAIN ss |-> [kind |-> "load", vaddr |-> ss[k].addr, filesz |-> ss[k].size]]]

MCElf == {Exe(<<s, t>>) : s \in One, t \in One}
           \cup {Exe(<<Sec(a, 1), Sec(b, 1), Sec(c, 1)>>) : a \in {0, 4}, b \in {4, 8}, c \in {8, 12}}
==============================================================================
