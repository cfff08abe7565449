------------------------------ MODULE MCStartup ------------------------------
(***************************************************************************)
(* Pages of eight cells; executables in 0..31, the arena at 48, the stack   *)
(* region at 64.  Four kinds of executable: every pair of sections near     *)
(* page boundaries; .tdata, .tbss, .data, .bss with the PT_PROC_PRX segment *)
(* before, between or after the PT_LOAD ones; import tables of up to three  *)
(* libraries, also with sizes nobody knows, sizes of zero and an end past   *)
(* what is mapped; and programs that make every call in every order.       *)
(***************************************************************************)
EXTENDS Startup, SequencesExt, TLC

Sec(a, z, t) == [addr |-> a, size |-> z, type |-> t, alloc |-> TRUE]
Comment == [addr |-> 0, size |-> 3, type |-> "other", alloc |-> FALSE]
Note == Sec(0, 2, "other")
LoadOf(a, z) == [kind |-> "load", vaddr |-> a, filesz |-> z]
Prx(a, z) == [kind |-> "prx", vaddr |-> a, filesz |-> z]
Tls == [kind |-> "other", vaddr |-> 0, filesz |-> 2]
SegmentOf(s) == LoadOf(s.addr, IF s.type = "progbits" THEN s.size ELSE 0)

Exe(sections, segments, entry, table, calls) ==
  [sections |-> sections, segments |-> segments, entry |-> entry,
   libstub |-> [addr |-> entry + 1, size |-> 1], table |-> table, calls |-> calls]

(* Any two sections; no imports. *)
Overlap(s, t) == (s.addr .. (s.addr + s.size - 1)) \cap (t.addr .. (t.addr + t.size - 1)) # {}
One == {Sec(a, z, t) : a \in {0, 1, 7, 8, 18}, z \in {2, 8, 13}, t \in {"nobits", "progbits"}}
Pairs == {<<s, t>> \in One \X One : ~Overlap(s, t)}
EntryIn(ss) == IF ss[1].type = "progbits" THEN ss[1].addr ELSE ss[2].addr
PairExes ==
  {Exe(ss, [n \in DOMAIN ss |-> SegmentOf(ss[n])], EntryIn(ss), Empty, {}) : ss \in Pairs}
    \cup {Exe(<<s, Comment>>, <<LoadOf(s.addr, s.size + y), Tls>>, s.addr, Empty, {}) : s \in One, y \in {0, 6}}
    \cup {Exe(<<>>, <<>>, 0, Empty, {}), Exe(<<Comment>>, <<>>, 0, Empty, {}),
          Exe(<<Note>>, <<>>, 0, Empty, {})}

(* .tbss over what follows, its header before or after that of .data; the *)
(* entry and the table in .data; the PRX segment anywhere.                *)
Imp(a, n) == [addr |-> a, nid |-> n]
OfSize(size, imports) == [size |-> size, imports |-> imports]
Lib(imports) == OfSize(Ppu32Size, imports)
(* One descriptor after another; behind one of size zero, another at once. *)
Offset(ds, n) == FoldSeq(LAMBDA d, o : o + IF d.size = 0 THEN 1 ELSE d.size, 0, SubSeq(ds, 1, n - 1))
Laid(ds) ==
  [end |-> Offset(ds, Len(ds) + 1),
   at |-> [o \in {Offset(ds, n) : n \in DOMAIN ds} |-> ds[CHOOSE n \in DOMAIN ds : Offset(ds, n) = o]]]
OneImport == Laid(<<Lib(<<Imp(100, "sys_lwmutex_lock")>>)>>)
Insert(seg, segs, n) == SubSeq(segs, 1, n) \o <<seg>> \o SubSeq(segs, n + 1, Len(segs))
TlsExes ==
  LET tdata == Sec(0, 2, "progbits")
      tbss(z) == Sec(2, z, "nobits")
      data(y) == Sec(2, y, "progbits")
      bss(y, x) == Sec(2 + y, x, "nobits")
      headers(z, y, x) == {<<tdata, tbss(z), data(y), bss(y, x)>>, <<tdata, data(y), bss(y, x), tbss(z)>>}
      loads(y) == {<<SegmentOf(tdata), SegmentOf(data(y))>>, <<LoadOf(0, 2 + y)>>, <<LoadOf(0, 2)>>} IN
  UNION {{Exe(ss, Insert(Prx(p, 2), ls, n), 2, OneImport, {}) :
            ss \in headers(z, y, x), ls \in loads(y), p \in {0, 2}, n \in {0, 1}} :
         z \in {1, 5}, y \in {2, 7}, x \in {1, 9}}
    \cup {Exe(<<tdata, data(7)>>, <<LoadOf(0, 9), s>>, 2, OneImport, {}) :
            s \in {Prx(2, 0), Prx(40, 2)}}
(* Import tables over one loaded section, and a call of every stub. *)
Padded(args) == [n \in Arguments |-> IF n \in DOMAIN args THEN args[n] ELSE 0]
Stub(a, args) == [via |-> "stub", id |-> a, args |-> Padded(args)]
Sc(s, args) == [via |-> "sc", id |-> s, args |-> Padded(args)]
MCLibraries ==
  {Lib(<<Imp(4, "sys_lwmutex_lock"), Imp(8, "unknown")>>), Lib(<<Imp(12, "cellFsOpen")>>),
   Lib(<<Imp(16, "missing"), Imp(20, "sys_lwmutex_lock")>>), Lib(<<>>),
   OfSize(Ppu64Size, <<>>)}
Odd == OfSize(20, <<Imp(8, "sys_lwmutex_lock"), Imp(4, "missing")>>)
Lengthless == OfSize(0, <<Imp(12, "cellFsOpen")>>)
Cut(t) == [t EXCEPT !.end = @ + 1]   \* libstub_end is past what is mapped
SmallTables == {Empty} \cup {Laid(<<a>>) : a \in MCLibraries}
  \cup {Laid(t) : t \in {t \in MCLibraries \X MCLibraries : t[1] # t[2]}}
  \cup {Laid(t) : t \in {t \in MCLibraries \X MCLibraries \X MCLibraries :
                         t[1] # t[2] /\ t[2] # t[3] /\ t[1] # t[3]}}
OddTables ==
  {Laid(<<a>>) : a \in {Odd, Lengthless}}
    \cup {Laid(<<a, b>>) : a \in {Odd, Lengthless}, b \in MCLibraries}
    \cup {Laid(<<a, b>>) : a \in MCLibraries, b \in {Odd, Lengthless}}
    \cup {Laid(<<a, b, c>>) : a \in {Odd, Lengthless}, b \in MCLibraries, c \in MCLibraries}
    \cup {Laid(<<a, b, c>>) : a \in MCLibraries, b \in {Odd, Lengthless}, c \in MCLibraries}
    \cup {Laid(<<OfSize(20, <<>>), Lib(<<Imp(16, "missing")>>), Lib(<<>>)>>)}
    \cup {Cut(Laid(t)) : t \in {<<a>> : a \in MCLibraries} \cup {<<Odd>>, <<Lengthless>>}}
Text13 == <<Sec(0, 13, "progbits")>>
TableExes ==
  {Exe(Text13, <<LoadOf(0, 13), Prx(4, 2)>>, 4, t,
       {Stub(a, <<>>) : a \in {4, 8, 12, 16, 20}} \cup {Sc(147, <<>>), Sc(999, <<>>)}) : t \in SmallTables \cup OddTables}

(* Programs.  Results go to .data at 16 and to the stack at 65. *)
AllImports == Laid(<<Lib(<<Imp(100, "sys_lwmutex_create"), Imp(104, "sys_ppu_thread_create"),
                      Imp(108, "sys_ppu_thread_get_id"), Imp(112, "cellSpursGetNumSpuThread"),
                      Imp(116, "cellGameContentPermit"), Imp(120, "cellGcmGetLabelAddress"),
                      Imp(124, "cellFsOpen")>>)>>)
Queries == {Sc(352, <<16>>), Sc(49, <<18>>), Sc(147, <<>>), Sc(403, <<>>), Stub(108, <<20>>), Stub(112, <<0, 21>>),
            Stub(120, <<>>)}
Creates == {Stub(100, <<22, 2>>), Stub(116, <<26, 28>>)}
            \cup {Stub(104, <<65, 2, 7, 9, n, 0, 3>>) : n \in {4, 8}}
Allocates(n) == {Sc(348, <<n, 0, 65>>), Sc(348, <<n, 0, 20>>)}
NullCalls == {Sc(352, <<40>>), Sc(348, <<8, 0, 40>>), Stub(108, <<40>>), Stub(100, <<22, 40>>),
              Stub(104, <<65, 2, 7, 9, 4, 0, 40>>), Sc(49, <<40>>), Stub(124, <<40>>)}
Program(ss, calls) ==
  Exe(ss, Append([n \in DOMAIN ss |-> SegmentOf(ss[n])], Prx(4, 2)), 4, AllImports, calls)
Linked(last) == <<Sec(0, 13, "progbits"), Sec(16, 14, "progbits")>> \o last
Programs ==
  {Program(Linked(<<>>), calls) :
     calls \in {Queries \cup Allocates(16), Creates \cup Allocates(10), Creates \cup {Sc(352, <<16>>)},
                {Sc(352, <<16>>)} \cup Allocates(0), Queries \cup Allocates(24), NullCalls}}
  \cup {Program(Linked(<<Sec(a, 13, "progbits")>>), Allocates(16) \cup {Stub(108, <<20>>)}) : a \in {32, 48, 64}}

MCElf == PairExes \cup TlsExes \cup TableExes \cup Programs
MCTable == {Empty, Zeroed, OneImport, AllImports} \cup SmallTables \cup OddTables

MCModule == {"sys_fs", "cellGame", "cellGcmSys", "cellSpurs", "sysPrxForUser"}
MCBootOrder == <<"sys_fs", "cellGame", "cellGcmSys", "cellSpurs", "sysPrxForUser">>
MCExports ==
  "sys_fs" :> {"cellFsOpen"} @@ "cellGame" :> {"cellGameContentPermit"}
    @@ "cellGcmSys" :> {"cellGcmGetLabelAddress"} @@ "cellSpurs" :> {"cellSpursGetNumSpuThread"}
    @@ "sysPrxForUser" :> {"sys_lwmutex_create", "sys_lwmutex_lock", "sys_ppu_thread_create",
                           "sys_ppu_thread_get_id"}
MCNid == {"unknown", "missing"} \cup UNION {MCExports[m] : m \in MCModule}
MCSyscallName ==
  348 :> "sys_memory_allocate" @@ 352 :> "sys_memory_get_user_memory_size"
    @@ 49 :> "sys_ppu_thread_get_stack_information" @@ 147 :> "sys_time_get_timebase_frequency"
    @@ 403 :> "sys_tty_write"
==============================================================================
