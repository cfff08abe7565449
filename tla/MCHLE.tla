-------------------------------- MODULE MCHLE --------------------------------
(***************************************************************************)
(* Import tables of up to three libraries over five stubs: two functions   *)
(* of different modules, one no module provides, and imports of the same   *)
(* NID from two libraries; among them descriptors of the 64-bit size, of   *)
(* a size nobody knows and of size zero.                                   *)
(***************************************************************************)
EXTENDS HLE, SequencesExt, TLC

Imp(a, n) == [addr |-> a, nid |-> n]
Sized(size, imports) == [size |-> size, imports |-> imports]
Lib(imports) == Sized(Ppu32Size, imports)
MCLibraries ==
  {Lib(<<Imp(4, "lock"), Imp(8, "unknown")>>), Lib(<<Imp(12, "open")>>),
   Lib(<<Imp(16, "missing"), Imp(20, "lock")>>), Lib(<<>>),
   Sized(Ppu64Size, <<>>), Sized(20, <<Imp(8, "lock")>>), Sized(0, <<Imp(8, "lock")>>)}
(* One descriptor after another; behind one of size zero, another at once. *)
Offset(ds, n) == FoldSeq(LAMBDA d, o : o + IF d.size = 0 THEN 1 ELSE d.size, 0, SubSeq(ds, 1, n - 1))
Laid(ds) ==
  [end |-> Offset(ds, Len(ds) + 1),
   at |-> [o \in {Offset(ds, n) : n \in DOMAIN ds} |-> ds[CHOOSE n \in DOMAIN ds : Offset(ds, n) = o]]]
(* No library occurs twice in a table. *)
MCTable == {Empty, Zeroed} \cup {Laid(<<a>>) : a \in MCLibraries}
  \cup {Laid(t) : t \in {t \in MCLibraries \X MCLibraries : t[1] # t[2]}}
  \cup {Laid(t) : t \in {t \in MCLibraries \X MCLibraries \X MCLibraries :
                         t[1] # t[2] /\ t[2] # t[3] /\ t[1] # t[3]}}
MCModule == {"prx", "fs", "np"}
MCExports == "prx" :> {"lock", "unlock"} @@ "fs" :> {"open"} @@ "np" :> {}
MCBootOrder == <<"np", "fs", "prx">>
MCNid == {"lock", "unlock", "open", "unknown", "missing"}
==============================================================================
