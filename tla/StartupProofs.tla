--------------------------- MODULE StartupProofs ---------------------------
(***************************************************************************)
(* Proofs about Startup for any executables, calls, page size and address   *)
(* map, in four parts.                                                     *)
(*                                                                         *)
(* HLE, for any modules, system calls and import tables.  The binding of an *)
(* import relies on all modules being known before the first import is      *)
(* looked up, and on list nodes that are never moved or removed.            *)
(*                                                                         *)
(* loadELF, for executables with any sections and segments: what the        *)
(* copies leave in memory, whichever order the headers come in, and that an *)
(* ordinary executable is copied inside the region the page count maps.     *)
(*                                                                         *)
(* The composition: it implements HLE, so what is proved of HLE's tables    *)
(* holds of the whole way from main() to the guest's calls.                *)
(*                                                                         *)
(* The guest's address space.  SpaceInv says exactly what is mapped once   *)
(* main() has begun to map: what loadELF left, the region of the stacks    *)
(* and, after the one allocation, the arena.  From that and from what each *)
(* handler may write follow the three properties of memory; the stacks     *)
(* need only the running total.  LoadInv says what of an executable is in  *)
(* memory so far, and the last theorems that an ordinary one, whose calls  *)
(* pass pointers to objects of its own, never makes the host follow a null *)
(* pointer.                                                                *)
(***************************************************************************)
EXTENDS Startup, SequenceTheorems, FiniteSetTheorems, WellFoundedInduction, TLAPS

-----------------------------------------------------------------------------
(* HLE. *)

(* The known modules are the first ones of the boot order; a NID some of     *)
(* them exports has a first exporter.                                        *)
KnownInOrder ==
  /\ Len(knownModules) <= Len(BootOrder)
  /\ \A n \in DOMAIN knownModules : knownModules[n] = BootOrder[n]
FirstExists ==
  \A nid \in Nid : Exporters(nid) # {} =>
    \E p \in Exporters(nid) : \A q \in Exporters(nid) : p <= q

(* Boot comes first and is complete before the walk. *)
BootBeforeWalk ==
  /\ phase = "boot" => /\ DOMAIN registeredFunctions = {}
                       /\ stubs = Empty /\ i = 0 /\ k = 0
                       /\ DOMAIN registeredSyscallHandlers \subseteq Syscalls
  /\ phase # "boot" => /\ Len(knownModules) = Len(BootOrder)
                       /\ Syscalls \subseteq DOMAIN registeredSyscallHandlers

(* Only the ids registered at boot have a handler. *)
HandlersAsRegistered ==
  /\ \A s \in DOMAIN registeredSyscallHandlers :
       registeredSyscallHandlers[s] = IF s \in Syscalls THEN "handler" ELSE "null"
  /\ answer.of = "syscall" => (answer.done <=> answer.id \in Syscalls)

(* The walk works on a descriptor that ends at its position; at the start of  *)
(* the table, on the first.                                                   *)
At(d) ==
  /\ d \in DOMAIN stubs.at /\ libstubCommon = stubs.at[d]
  /\ (i = 0 /\ d = 0) \/ (d < stubs.end /\ i = d + stubs.at[d].size)
WalkReads ==
  phase = "walk" => /\ \E d \in DOMAIN stubs.at : At(d)
                    /\ KnownSizes => ppu32 = libstubCommon

(* The walk has passed no descriptor of size zero, and the guest runs when it *)
(* is past the end of the table.                                              *)
NonePassed ==
  /\ phase = "run" => i >= stubs.end
  /\ phase \in {"walk", "run"} =>
       \A d \in DOMAIN stubs.at : d < i => stubs.at[d].size # 0

(* The imports of what ends before its position are bound. *)
Passed(d, n) ==
  \/ d + stubs.at[d].size < i
  \/ phase = "walk" /\ d + stubs.at[d].size = i /\ n <= k
BoundSoFar ==
  phase \in {"walk", "run"} /\ KnownSizes =>
    \A d \in Libraries : \A n \in DOMAIN stubs.at[d].imports :
      Passed(d, n) => stubs.at[d].imports[n].addr \in DOMAIN registeredFunctions

(* A bound address runs what its NID asks for, and in a table of known sizes  *)
(* that is what one of its imports asks for.                                  *)
Runs(f) == IF f.exec = "null" THEN \A m \in Module : f.nid \notin Exports[m]
                              ELSE f.nid \in Exports[f.exec]
Asks(f, a, d, n) == stubs.at[d].imports[n].addr = a /\ f.nid = stubs.at[d].imports[n].nid
Answers(a) ==
  LET f == Deref(registeredFunctions[a]) IN
  /\ Runs(f)
  /\ KnownSizes => \E d \in Libraries : \E n \in DOMAIN stubs.at[d].imports : Asks(f, a, d, n)
BoundAsAsked == \A a \in DOMAIN registeredFunctions : Answers(a)

IInv == /\ TypeOK /\ KnownInOrder /\ FirstExists /\ BootBeforeWalk
        /\ HandlersAsRegistered /\ WalkReads /\ NonePassed /\ BoundSoFar /\ BoundAsAsked

-----------------------------------------------------------------------------
(* The first exporter of a NID is a module that exports it. *)
LEMMA FirstExports ==
  ASSUME TypeOK, FirstExists, NEW nid \in Nid, Exporters(nid) # {}
  PROVE  FirstExporter(nid) \in Module /\ nid \in Exports[FirstExporter(nid)]
<1> DEFINE first(p) == \A q \in Exporters(nid) : p <= q
           c == CHOOSE p \in Exporters(nid) : first(p)
<1>1. \E p \in Exporters(nid) : first(p)
  BY DEF FirstExists
<1>2. c \in Exporters(nid)
  <2> HIDE DEF first
  <2> QED BY <1>1
<1>3. FirstExporter(nid) = knownModules[c]
  BY DEF FirstExporter
<1> HIDE DEF c
<1> QED BY <1>2, <1>3 DEF Exporters, TypeOK

(* With all modules known, a NID without an exporter is no module's. *)
LEMMA NoExporter ==
  ASSUME TypeOK, KnownInOrder, Len(knownModules) = Len(BootOrder),
         NEW nid \in Nid, Exporters(nid) = {}
  PROVE  \A m \in Module : nid \notin Exports[m]
<1> SUFFICES ASSUME NEW m \in Module, nid \in Exports[m] PROVE FALSE
  OBVIOUS
<1>1. PICK n \in DOMAIN BootOrder : BootOrder[n] = m
  BY HLEAssumption DEF HLEAssumption
<1>2. n \in DOMAIN knownModules
  BY <1>1, HLEAssumption DEF HLEAssumption, TypeOK
<1> QED BY <1>1, <1>2 DEF KnownInOrder, Exporters

(* Tables and what they hold have their types. *)
LEMMA TableTypes ==
  ASSUME TypeOK
  PROVE  /\ stubs.end \in Nat /\ DOMAIN stubs.at \subseteq Nat /\ 0 \in DOMAIN stubs.at
         /\ i \in Nat /\ k \in Nat /\ Libraries \subseteq DOMAIN stubs.at
         /\ \A d \in DOMAIN stubs.at : stubs.at[d] \in Descriptor /\ stubs.at[d].size \in Nat
                                       /\ stubs.at[d].imports \in Seq(Import)
         /\ \A d, e \in DOMAIN stubs.at : d < e => d + stubs.at[d].size <= e
<1>1. ImportTable(stubs)
  BY HLEAssumption DEF HLEAssumption, TypeOK
<1>2. \A x \in Descriptor : x.size \in Nat /\ x.imports \in Seq(Import)
  BY DEF Descriptor
<1>3. i \in Nat /\ k \in Nat /\ Libraries \subseteq DOMAIN stubs.at
  BY DEF TypeOK, Libraries
<1> QED BY <1>1, <1>2, <1>3 DEF ImportTable

(* The table before there is one has no library. *)
LEMMA EmptyHasNone ==
  /\ Empty.end = 0 /\ DOMAIN Empty.at = {0} /\ Empty.at[0] = NoDescriptor
  /\ NoDescriptor.size = Ppu32Size /\ NoDescriptor.size # 0
BY HLEAssumption DEF Empty, NoDescriptor, HLEAssumption

(* The invariant holds at the start of main(). *)
LEMMA InitIInv == Init => IInv
<1> SUFFICES ASSUME Init PROVE IInv
  OBVIOUS
<1> USE HLEAssumption DEF Init
<1>1. NoDescriptor \in Descriptor
  BY DEF HLEAssumption, NoDescriptor, Descriptor
<1>2. TypeOK
  BY <1>1 DEF TypeOK, HLEAssumption
<1>3. KnownInOrder /\ FirstExists
  BY DEF KnownInOrder, FirstExists, Exporters, HLEAssumption
<1>4. BootBeforeWalk /\ HandlersAsRegistered /\ WalkReads
  BY DEF BootBeforeWalk, HandlersAsRegistered, WalkReads, NoAnswer
<1>5. NonePassed /\ BoundSoFar /\ BoundAsAsked
  BY DEF NonePassed, BoundSoFar, BoundAsAsked
<1> QED BY <1>2, <1>3, <1>4, <1>5 DEF IInv

(* Appending a module keeps every exporter, and can only add the last place. *)
LEMMA AddModuleIInv == IInv /\ AddModule => IInv'
<1> SUFFICES ASSUME IInv, AddModule PROVE IInv'
  OBVIOUS
<1> USE HLEAssumption DEF AddModule, walk
<1> DEFINE m == BootOrder[Len(knownModules) + 1]
<1>1. m \in Module /\ knownModules \in Seq(Module) /\ BootOrder \in Seq(Module)
  BY DEF HLEAssumption, IInv, TypeOK
<1>2. /\ Len(knownModules') = Len(knownModules) + 1
      /\ knownModules' \in Seq(Module)
      /\ \A n \in DOMAIN knownModules : knownModules'[n] = knownModules[n]
      /\ knownModules'[Len(knownModules) + 1] = m
      /\ DOMAIN knownModules' = DOMAIN knownModules \cup {Len(knownModules) + 1}
  BY <1>1
<1>3. TypeOK'
  BY <1>2 DEF IInv, TypeOK
<1>4. KnownInOrder'
  BY <1>1, <1>2 DEF IInv, KnownInOrder
<1>5. FirstExists'
  <2> SUFFICES ASSUME NEW nid \in Nid, (Exporters(nid) # {})'
               PROVE  (\E p \in Exporters(nid) : \A q \in Exporters(nid) : p <= q)'
    BY DEF FirstExists
  <2>1. Exporters(nid)' \subseteq Exporters(nid) \cup {Len(knownModules) + 1}
        /\ Exporters(nid) \subseteq Exporters(nid)'
    BY <1>2 DEF Exporters
  <2>2. \A p \in Exporters(nid) : p \in Nat /\ p <= Len(knownModules)
    BY <1>1 DEF Exporters
  <2>3. CASE Exporters(nid) = {}
    BY <2>1, <2>3, <1>1
  <2>4. CASE Exporters(nid) # {}
    <3>1. PICK p \in Exporters(nid) : \A q \in Exporters(nid) : p <= q
      BY <2>4 DEF IInv, FirstExists
    <3> QED BY <3>1, <2>1, <2>2, <1>1
  <2> QED BY <2>3, <2>4
<1>6. BootBeforeWalk' /\ HandlersAsRegistered' /\ WalkReads' /\ NonePassed' /\ BoundSoFar'
  BY DEF IInv, BootBeforeWalk, HandlersAsRegistered, WalkReads, NonePassed, BoundSoFar
<1>7. BoundAsAsked'
  BY DEF IInv, BootBeforeWalk, BoundAsAsked
<1> QED BY <1>3, <1>4, <1>5, <1>6, <1>7 DEF IInv

(* A system call is only added while the functions are still unbound. *)
LEMMA RegisterSyscallIInv == IInv /\ RegisterSyscall => IInv'
<1> SUFFICES ASSUME IInv, RegisterSyscall PROVE IInv'
  OBVIOUS
<1> USE HLEAssumption DEF RegisterSyscall, walk
<1>1. PICK s \in Syscalls \ DOMAIN registeredSyscallHandlers :
        registeredSyscallHandlers' = Put(registeredSyscallHandlers, s, "handler")
  OBVIOUS
<1>2. TypeOK'
  BY <1>1 DEF IInv, TypeOK, Put, HLEAssumption
<1>3. KnownInOrder' /\ FirstExists'
  BY DEF IInv, KnownInOrder, FirstExists, Exporters
<1>4. BootBeforeWalk' /\ WalkReads' /\ NonePassed' /\ BoundSoFar'
  BY <1>1 DEF IInv, BootBeforeWalk, WalkReads, NonePassed, BoundSoFar, Put
<1>5. HandlersAsRegistered'
  BY <1>1 DEF IInv, HandlersAsRegistered, Put
<1>6. BoundAsAsked'
  BY DEF IInv, BootBeforeWalk, BoundAsAsked
<1> QED BY <1>2, <1>3, <1>4, <1>5, <1>6 DEF IInv

(* The walk begins with everything registered and nothing bound. *)
LEMMA StartWalkIInv == IInv /\ StartWalk => IInv'
<1> SUFFICES ASSUME IInv, StartWalk PROVE IInv'
  OBVIOUS
<1> USE DEF StartWalk, AllRegistered, tables
<1>1. ImportTable(stubs') /\ stubs' \in Table
  BY HLEAssumption DEF HLEAssumption
<1>2. /\ 0 \in DOMAIN stubs'.at /\ stubs'.at[0] \in Descriptor
      /\ stubs'.end \in Nat /\ DOMAIN stubs'.at \subseteq Nat
      /\ \A d \in DOMAIN stubs'.at : stubs'.at[d] \in Descriptor
  BY <1>1 DEF ImportTable
<1>3. i' = 0 /\ k' = 0 /\ i' \in Nat /\ k' \in Nat
  BY DEF IInv, BootBeforeWalk
<1>4. TypeOK'
  BY <1>1, <1>2, <1>3 DEF IInv, TypeOK
<1>5. KnownInOrder' /\ FirstExists' /\ HandlersAsRegistered'
  BY DEF IInv, KnownInOrder, FirstExists, Exporters, HandlersAsRegistered
<1>6. BootBeforeWalk' /\ BoundAsAsked'
  BY HLEAssumption DEF IInv, BootBeforeWalk, BoundAsAsked, HLEAssumption
<1>7. WalkReads'
  <2>1. At(0)'
    BY <1>2, <1>3 DEF At
  <2> QED BY <2>1, <1>2 DEF WalkReads
<1>8. NonePassed'
  BY <1>2, <1>3 DEF NonePassed
<1>9. BoundSoFar'
  <2> SUFFICES ASSUME NEW d \in Libraries', NEW n \in DOMAIN stubs'.at[d].imports, Passed(d, n)'
               PROVE  FALSE
    BY DEF BoundSoFar
  <2>1. stubs'.at[d] \in Descriptor /\ d \in Nat
    BY <1>2 DEF Libraries
  <2>2. stubs'.at[d].size \in Nat /\ stubs'.at[d].imports \in Seq(Import)
    BY <2>1 DEF Descriptor
  <2>3. n \in Nat /\ n > 0
    BY <2>2
  <2> QED BY <2>1, <2>2, <2>3, <1>3 DEF Passed
<1> QED BY <1>4, <1>5, <1>6, <1>7, <1>8, <1>9 DEF IInv

(* Nothing to walk: the guest starts with everything registered and nothing bound. *)
LEMMA NoTableIInv == IInv /\ NoTable => IInv'
<1> SUFFICES ASSUME IInv, NoTable PROVE IInv'
  OBVIOUS
<1> USE HLEAssumption DEF NoTable, AllRegistered, tables, walk
<1>1. TypeOK'
  BY DEF IInv, TypeOK
<1>2. KnownInOrder' /\ FirstExists' /\ HandlersAsRegistered'
  BY DEF IInv, KnownInOrder, FirstExists, Exporters, HandlersAsRegistered
<1>3. BootBeforeWalk' /\ WalkReads' /\ BoundAsAsked'
  BY DEF IInv, BootBeforeWalk, WalkReads, BoundAsAsked
<1>4. stubs' = Empty /\ i' = 0
  BY DEF IInv, BootBeforeWalk
<1>5. NonePassed'
  BY <1>4, EmptyHasNone DEF NonePassed
<1>6. Libraries' = {}
  BY <1>4, EmptyHasNone DEF Libraries
<1>7. BoundSoFar'
  BY <1>6 DEF BoundSoFar
<1> QED BY <1>1, <1>2, <1>3, <1>5, <1>7 DEF IInv

(* In a table of known sizes the descriptor in hand is the only library that *)
(* ends at the walk's position, and its body has been read with it.          *)
LEMMA InHand ==
  ASSUME TypeOK, WalkReads, Looping, KnownSizes
  PROVE  \E e \in Libraries :
           /\ At(e) /\ ppu32 = stubs.at[e] /\ libstubCommon = stubs.at[e]
           /\ \A d \in Libraries : d + stubs.at[d].size = i => d = e
<1>1. PICK e \in DOMAIN stubs.at : At(e)
  BY DEF WalkReads, Looping
<1>2. /\ stubs.end \in Nat /\ i \in Nat /\ i < stubs.end /\ DOMAIN stubs.at \subseteq Nat
      /\ \A d \in DOMAIN stubs.at : stubs.at[d].size \in Nat
      /\ \A d, c \in DOMAIN stubs.at : d < c => d + stubs.at[d].size <= c
      /\ \A d \in Libraries : d \in DOMAIN stubs.at
  BY TableTypes DEF Looping
<1>3. e \in Libraries
  BY <1>1, <1>2 DEF At, Libraries
<1>4. \A d \in Libraries : stubs.at[d].size > 0
  <2> TAKE d \in Libraries
  <2>1. stubs.at[d].size \in {Ppu32Size, Ppu64Size}
    BY DEF KnownSizes
  <2> QED BY <2>1, HLEAssumption DEF HLEAssumption
<1>5. ppu32 = stubs.at[e] /\ libstubCommon = stubs.at[e]
  BY <1>1 DEF At, WalkReads, Looping
<1>6. ASSUME NEW d \in Libraries, d + stubs.at[d].size = i PROVE d = e
  <2>1. /\ d \in Nat /\ e \in Nat /\ stubs.at[d].size \in Nat /\ stubs.at[e].size \in Nat
        /\ stubs.at[d].size > 0 /\ stubs.at[e].size > 0
        /\ d < e => d + stubs.at[d].size <= e
        /\ e < d => e + stubs.at[e].size <= d
    BY <1>2, <1>3, <1>4
  <2>2. i # 0
    BY <1>6, <2>1
  <2>3. i = e + stubs.at[e].size
    BY <1>1, <2>2 DEF At
  <2> QED BY <1>6, <2>1, <2>3
<1> QED BY <1>1, <1>3, <1>5, <1>6

(* One import: its address is bound, and every older pointer goes on          *)
(* designating the same object when the list grows.                          *)
LEMMA RegisterPPUFunctionIInv == IInv /\ RegisterPPUFunction => IInv'
<1> SUFFICES ASSUME IInv, RegisterPPUFunction PROVE IInv'
  OBVIOUS
<1> USE HLEAssumption
<1>1. /\ phase = "walk" /\ Looping
      /\ stubs.end \in Nat /\ i \in Nat /\ k \in Nat
      /\ unregisteredFunctionsList \in Seq([nid : Nid, exec : {"null"}])
      /\ k < Len(libstubCommon.imports)
  BY TableTypes DEF IInv, TypeOK, RegisterPPUFunction, Looping
<1>15. PICK f \in Import :
         /\ k + 1 \in DOMAIN ppu32.imports => f = ppu32.imports[k + 1]
         /\ \/ /\ Exporters(f.nid) = {}
               /\ unregisteredFunctionsList' =
                    Append(unregisteredFunctionsList, [nid |-> f.nid, exec |-> "null"])
               /\ registeredFunctions' = Put(registeredFunctions, f.addr,
                                             Node(Len(unregisteredFunctionsList) + 1))
            \/ /\ Exporters(f.nid) # {}
               /\ registeredFunctions' = Put(registeredFunctions, f.addr,
                                             InModule(FirstExporter(f.nid), f.nid))
               /\ unregisteredFunctionsList' = unregisteredFunctionsList
  BY DEF RegisterPPUFunction, Push
<1>2. PICK ptr :
        /\ k + 1 \in DOMAIN ppu32.imports => f = ppu32.imports[k + 1]
        /\ registeredFunctions' = Put(registeredFunctions, f.addr, ptr)
        /\ \/ /\ ptr = Node(Len(unregisteredFunctionsList) + 1) /\ Exporters(f.nid) = {}
              /\ unregisteredFunctionsList' =
                   Append(unregisteredFunctionsList, [nid |-> f.nid, exec |-> "null"])
           \/ /\ ptr = InModule(FirstExporter(f.nid), f.nid) /\ Exporters(f.nid) # {}
              /\ unregisteredFunctionsList' = unregisteredFunctionsList
  BY <1>15
<1> DEFINE null == [nid |-> f.nid, exec |-> "null"]
<1>4. f.nid \in Nid /\ f.addr \in Addr /\ null \in [nid : Nid, exec : {"null"}]
  BY DEF Import
<1>6. /\ unregisteredFunctionsList' \in Seq([nid : Nid, exec : {"null"}])
      /\ DOMAIN unregisteredFunctionsList \subseteq DOMAIN unregisteredFunctionsList'
      /\ \A n \in DOMAIN unregisteredFunctionsList :
           unregisteredFunctionsList'[n] = unregisteredFunctionsList[n]
  <2>1. CASE unregisteredFunctionsList' = Append(unregisteredFunctionsList, null)
    <3> HIDE DEF null
    <3> QED BY <2>1, <1>1, <1>4
  <2>2. CASE unregisteredFunctionsList' = unregisteredFunctionsList
    BY <2>2, <1>1
  <2> QED BY <2>1, <2>2, <1>2
<1>7. /\ ptr \in Pointer
      /\ ptr.kind = "node" => ptr.node \in DOMAIN unregisteredFunctionsList'
  <2>1. CASE Exporters(f.nid) = {}
    BY <2>1, <1>1, <1>4, <1>2 DEF Node, Pointer
  <2>2. CASE Exporters(f.nid) # {}
    <3>1. FirstExporter(f.nid) \in Module
      BY <2>2, <1>4, FirstExports DEF IInv
    <3> QED BY <2>2, <3>1, <1>4, <1>2 DEF InModule, Pointer
  <2> QED BY <2>1, <2>2
<1>8. /\ DOMAIN registeredFunctions' = DOMAIN registeredFunctions \cup {f.addr}
      /\ registeredFunctions'[f.addr] = ptr
      /\ \A a \in DOMAIN registeredFunctions : a # f.addr =>
           registeredFunctions'[a] = registeredFunctions[a]
  BY <1>2 DEF Put
<1>9. UNCHANGED <<phase, knownModules, registeredSyscallHandlers, stubs, i,
                  libstubCommon, ppu32, answer>> /\ k' = k + 1
  BY DEF RegisterPPUFunction
<1>10. TypeOK'
  <2>1. \A a \in DOMAIN registeredFunctions' :
          /\ registeredFunctions'[a] \in Pointer
          /\ registeredFunctions'[a].kind = "node" =>
               registeredFunctions'[a].node \in DOMAIN unregisteredFunctionsList'
    BY <1>6, <1>7, <1>8 DEF IInv, TypeOK
  <2>2. DOMAIN registeredFunctions' \subseteq Addr /\ k' \in Nat
    BY <1>1, <1>4, <1>8, <1>9 DEF IInv, TypeOK
  <2> QED BY <2>1, <2>2, <1>6, <1>9 DEF IInv, TypeOK
<1>11. KnownInOrder' /\ FirstExists' /\ BootBeforeWalk' /\ HandlersAsRegistered'
  <2>1. KnownInOrder' /\ FirstExists'
    BY <1>9 DEF IInv, KnownInOrder, FirstExists, Exporters
  <2>2. BootBeforeWalk'
    BY <1>1, <1>9 DEF IInv, BootBeforeWalk
  <2>3. HandlersAsRegistered'
    BY <1>9 DEF IInv, HandlersAsRegistered
  <2> QED  BY <2>1, <2>2, <2>3
<1>12. WalkReads' /\ NonePassed'
  BY <1>9 DEF IInv, WalkReads, At, NonePassed, KnownSizes, Libraries
<1>3. KnownSizes => \E e \in Libraries :
        /\ k + 1 \in DOMAIN stubs.at[e].imports /\ f = stubs.at[e].imports[k + 1]
        /\ \A d \in Libraries : d + stubs.at[d].size = i => d = e
  <2> SUFFICES ASSUME KnownSizes
               PROVE  \E e \in Libraries :
                        /\ k + 1 \in DOMAIN stubs.at[e].imports /\ f = stubs.at[e].imports[k + 1]
                        /\ \A d \in Libraries : d + stubs.at[d].size = i => d = e
    OBVIOUS
  <2>1. PICK e \in Libraries :
          /\ At(e) /\ ppu32 = stubs.at[e] /\ libstubCommon = stubs.at[e]
          /\ \A d \in Libraries : d + stubs.at[d].size = i => d = e
    BY <1>1, InHand DEF IInv
  <2>2. stubs.at[e].imports \in Seq(Import)
    BY TableTypes DEF IInv
  <2>3. k + 1 \in DOMAIN stubs.at[e].imports
    BY <1>1, <2>1, <2>2
  <2> QED BY <1>2, <2>1, <2>3
<1>13. BoundSoFar'
  <2> SUFFICES ASSUME KnownSizes, NEW d \in Libraries, NEW n \in DOMAIN stubs.at[d].imports,
                      Passed(d, n)'
               PROVE  stubs.at[d].imports[n].addr \in DOMAIN registeredFunctions'
    BY <1>9 DEF BoundSoFar, KnownSizes, Libraries
  <2>1. CASE Passed(d, n)
    BY <2>1, <1>1, <1>8 DEF IInv, BoundSoFar
  <2>2. CASE ~Passed(d, n)
    <3>1. d + stubs.at[d].size = i /\ n <= k + 1 /\ ~(n <= k)
      BY <2>2, <1>1, <1>9 DEF Passed
    <3>2. stubs.at[d].imports \in Seq(Import)
      BY TableTypes DEF IInv
    <3>3. n = k + 1
      BY <3>1, <3>2, <1>1
    <3>4. f = stubs.at[d].imports[n]
      BY <3>1, <3>3, <1>3
    <3> QED BY <3>4, <1>8
  <2> QED BY <2>1, <2>2
<1>14. BoundAsAsked'
  <2> SUFFICES ASSUME NEW a \in DOMAIN registeredFunctions'
               PROVE  Answers(a)'
    BY DEF BoundAsAsked
  <2>1. CASE a = f.addr
    <3>1. /\ Deref(registeredFunctions[a])'.nid = f.nid
          /\ Runs(Deref(registeredFunctions[a])')
      <4>1. CASE Exporters(f.nid) = {}
        <5>1. Deref(registeredFunctions[a])' = null
          BY <2>1, <4>1, <1>1, <1>4, <1>2, <1>8 DEF Deref, Node
        <5>2. \A m \in Module : f.nid \notin Exports[m]
          BY <4>1, <1>1, <1>4, NoExporter DEF IInv, BootBeforeWalk
        <5> QED BY <5>1, <5>2 DEF Runs
      <4>2. CASE Exporters(f.nid) # {}
        <5>1. /\ FirstExporter(f.nid) \in Module
              /\ f.nid \in Exports[FirstExporter(f.nid)]
          BY <4>2, <1>4, FirstExports DEF IInv
        <5>2. Deref(registeredFunctions[a])' = [nid |-> f.nid, exec |-> FirstExporter(f.nid)]
          BY <2>1, <4>2, <1>2, <1>8 DEF Deref, InModule
        <5> QED BY <5>1, <5>2 DEF Runs, HLEAssumption
      <4> QED BY <4>1, <4>2
    <3>2. KnownSizes' <=> KnownSizes
      BY <1>9 DEF KnownSizes, Libraries
    <3>3. ASSUME KnownSizes
          PROVE  (\E d \in Libraries : \E n \in DOMAIN stubs.at[d].imports :
                    Asks(Deref(registeredFunctions[a]), a, d, n))'
      <4>1. PICK e \in Libraries :
              k + 1 \in DOMAIN stubs.at[e].imports /\ f = stubs.at[e].imports[k + 1]
        BY <3>3, <1>3
      <4>2. PICK n \in DOMAIN stubs.at[e].imports : f = stubs.at[e].imports[n]
        BY <4>1
      <4>3. e \in Libraries' /\ n \in DOMAIN stubs'.at[e].imports
        BY <4>1, <1>9 DEF Libraries
      <4>4. Asks(Deref(registeredFunctions[a]), a, e, n)'
        BY <4>2, <3>1, <2>1, <1>9 DEF Asks
      <4> QED BY <4>3, <4>4
    <3>4. Runs(Deref(registeredFunctions[a]))'
      BY <3>1 DEF Runs
    <3> QED BY <3>2, <3>3, <3>4 DEF Answers
  <2>2. CASE a # f.addr
    <3>1. a \in DOMAIN registeredFunctions /\ registeredFunctions'[a] = registeredFunctions[a]
      BY <2>2, <1>8
    <3>2. Answers(a)
      BY <3>1 DEF IInv, BoundAsAsked
    <3>3. Deref(registeredFunctions[a])' = Deref(registeredFunctions[a])
      BY <3>1, <1>6 DEF Deref, IInv, TypeOK, Pointer
    <3> QED BY <3>2, <3>3, <1>9 DEF Answers, Asks, Runs, KnownSizes, Libraries
  <2> QED BY <2>1, <2>2
<1> QED BY <1>10, <1>11, <1>12, <1>13, <1>14 DEF IInv

(* Bindings stay as asked while none of what they rest on changes. *)
LEMMA BoundKept ==
  ASSUME BoundAsAsked, UNCHANGED <<stubs, registeredFunctions, unregisteredFunctionsList>>
  PROVE  BoundAsAsked'
<1> SUFFICES ASSUME NEW a \in DOMAIN registeredFunctions, Answers(a) PROVE Answers(a)'
  BY DEF BoundAsAsked
<1>1. Deref(registeredFunctions[a])' = Deref(registeredFunctions[a])
  BY DEF Deref
<1> QED BY <1>1 DEF Answers, Runs, Asks, KnownSizes, Libraries

(* The library that ends at the old position is complete: all of its imports *)
(* were registered in the iteration that ends.                               *)
LEMMA NextDescriptorIInv == IInv /\ NextDescriptor => IInv'
<1> SUFFICES ASSUME IInv, NextDescriptor PROVE IInv'
  OBVIOUS
<1> USE DEF NextDescriptor, BodyDone, tables, Advance
<1>1. /\ phase = "walk" /\ Looping /\ i < stubs.end
      /\ stubs.end \in Nat /\ i \in Nat /\ k \in Nat
      /\ i \in DOMAIN stubs.at /\ stubs.at[i] \in Descriptor /\ stubs.at[i].size \in Nat
  BY TableTypes DEF IInv, Looping
<1>2. /\ DOMAIN stubs.at \subseteq Nat
      /\ \A d \in DOMAIN stubs.at : stubs.at[d].size \in Nat
      /\ \A d, e \in DOMAIN stubs.at : d < e => d + stubs.at[d].size <= e
  BY TableTypes DEF IInv
<1>3. TypeOK'
  BY <1>1 DEF IInv, TypeOK
<1>4. KnownInOrder' /\ FirstExists' /\ BootBeforeWalk' /\ HandlersAsRegistered'
  <2>1. KnownInOrder' /\ FirstExists'
    BY DEF IInv, KnownInOrder, FirstExists, Exporters
  <2>2. BootBeforeWalk' /\ HandlersAsRegistered'
    BY <1>1 DEF IInv, BootBeforeWalk, HandlersAsRegistered
  <2> QED BY <2>1, <2>2
<1>5. WalkReads'
  <2>1. PICK o \in DOMAIN stubs.at : o = i
    BY <1>1
  <2>4. At(o)'
    BY <2>1, <1>1 DEF At
  <2>2. (\E d \in DOMAIN stubs.at : At(d))'
    BY <2>4
  <2>3. ASSUME KnownSizes' PROVE ppu32' = libstubCommon'
    <3>1. KnownSizes
      BY <2>3 DEF KnownSizes, Libraries
    <3>2. PICK e \in Libraries : libstubCommon = stubs.at[e]
      BY <3>1, <1>1, InHand DEF IInv
    <3>3. stubs.at[e].size \in {Ppu32Size, Ppu64Size}
      BY <3>1 DEF KnownSizes
    <3>4. libstubCommon.size = Ppu32Size
      BY <3>2, <3>3
    <3> QED BY <3>4
  <2> QED BY <2>2, <2>3 DEF WalkReads
<1>6. NonePassed'
  <2> SUFFICES ASSUME NEW d \in DOMAIN stubs.at, d < i + stubs.at[i].size
               PROVE  stubs.at[d].size # 0
    BY <1>1 DEF NonePassed
  <2>1. d \in Nat /\ (i < d => i + stubs.at[i].size <= d)
    BY <1>1, <1>2
  <2>2. CASE d < i
    BY <2>2, <1>1 DEF IInv, NonePassed
  <2> QED BY <2>1, <2>2, <1>1
<1>7. BoundSoFar'
  <2> SUFFICES ASSUME KnownSizes, NEW d \in Libraries, NEW n \in DOMAIN stubs.at[d].imports,
                      Passed(d, n)'
               PROVE  stubs.at[d].imports[n].addr \in DOMAIN registeredFunctions
    BY DEF BoundSoFar, KnownSizes, Libraries
  <2>1. /\ stubs.at[d].imports \in Seq(Import) /\ d \in DOMAIN stubs.at
    BY TableTypes DEF IInv
  <2>2. n \in Nat /\ n > 0 /\ n <= Len(stubs.at[d].imports)
    BY <2>1
  <2>3. d + stubs.at[d].size < i + stubs.at[i].size
    BY <2>2 DEF Passed
  <2>4. /\ d \in Nat /\ stubs.at[d].size \in Nat
        /\ i < d => i + stubs.at[i].size <= d
        /\ d < i => d + stubs.at[d].size <= i
    BY <2>1, <1>1, <1>2
  <2>5. d + stubs.at[d].size <= i
    BY <2>3, <2>4, <1>1
  <2>6. CASE d + stubs.at[d].size < i
    BY <2>6, <1>1 DEF IInv, BoundSoFar, Passed
  <2>7. CASE d + stubs.at[d].size = i
    <3>1. libstubCommon = stubs.at[d]
      BY <2>7, <1>1, InHand DEF IInv
    <3>2. stubs.at[d].size \in {Ppu32Size, Ppu64Size}
      BY DEF KnownSizes
    <3>3. n <= k
      BY <3>1, <3>2, <2>2
    <3> QED BY <2>7, <3>3, <1>1 DEF IInv, BoundSoFar, Passed
  <2> QED BY <2>4, <2>5, <2>6, <2>7, <1>1
<1>8. BoundAsAsked'
  BY BoundKept DEF IInv
<1> QED BY <1>3, <1>4, <1>5, <1>6, <1>7, <1>8 DEF IInv

(* A 64-bit descriptor, a header that cannot be read and the end of the table *)
(* stop the walk.                                                             *)
LEMMA EndsIInv == IInv /\ (Ppu64Exit \/ HeaderUnmapped \/ EndWalk) => IInv'
<1> SUFFICES ASSUME IInv, Ppu64Exit \/ HeaderUnmapped \/ EndWalk PROVE IInv'
  OBVIOUS
<1> USE DEF Ppu64Exit, HeaderUnmapped, BodyDone, EndWalk, Looping, tables, walk
<1>1. /\ phase = "walk" /\ phase' \in {"run", "exit", "undefined"}
      /\ phase' = "run" => ~(i < stubs.end)
      /\ UNCHANGED <<tables, walk, answer>>
  OBVIOUS
<1>2. TypeOK'
  BY <1>1 DEF IInv, TypeOK
<1>3. KnownInOrder' /\ FirstExists' /\ BootBeforeWalk' /\ HandlersAsRegistered' /\ WalkReads'
  BY <1>1 DEF IInv, KnownInOrder, FirstExists, Exporters, BootBeforeWalk,
              HandlersAsRegistered, WalkReads
<1>4. NonePassed'
  <2>1. i \in Nat /\ stubs.end \in Nat
    BY TableTypes DEF IInv
  <2> QED BY <2>1, <1>1 DEF IInv, NonePassed
<1>5. BoundSoFar'
  BY <1>1 DEF IInv, BoundSoFar, Passed, KnownSizes, Libraries
<1>6. BoundAsAsked'
  BY BoundKept DEF IInv
<1> QED BY <1>2, <1>3, <1>4, <1>5, <1>6 DEF IInv

(* What the running guest looks up leaves the bindings alone; an unknown     *)
(* system call leaves a null handler, which is as good as none.              *)
LEMMA ExecuteSyscallIInv ==
  ASSUME IInv, NEW s \in SyscallId, ExecuteSyscall(s)
  PROVE  IInv'
<1> USE HLEAssumption DEF ExecuteSyscall, walk
<1>1. TypeOK'
  BY DEF IInv, TypeOK, Put
<1>2. KnownInOrder' /\ FirstExists' /\ BootBeforeWalk' /\ WalkReads' /\ NonePassed' /\ BoundSoFar'
  <2>1. KnownInOrder' /\ FirstExists' /\ BootBeforeWalk' /\ WalkReads' /\ NonePassed'
    BY DEF IInv, KnownInOrder, FirstExists, Exporters, BootBeforeWalk, WalkReads, NonePassed, Put
  <2>2. BoundSoFar'
    BY DEF IInv, BoundSoFar, Passed, KnownSizes, Libraries
  <2> QED BY <2>1, <2>2
<1>3. HandlersAsRegistered'
  <2>1. Handler(s) = IF s \in Syscalls THEN "handler" ELSE "null"
    BY DEF IInv, HandlersAsRegistered, BootBeforeWalk, Handler
  <2>2. answer'.of = "syscall" /\ answer'.id = s /\ answer'.done = FoundHandler(s)
    OBVIOUS
  <2>3. FoundHandler(s) <=> s \in Syscalls
    BY <2>1 DEF FoundHandler
  <2>4. \A z \in DOMAIN registeredSyscallHandlers' :
          registeredSyscallHandlers'[z] = IF z \in Syscalls THEN "handler" ELSE "null"
    BY <2>1 DEF IInv, HandlersAsRegistered, Put
  <2> QED BY <2>2, <2>3, <2>4 DEF HandlersAsRegistered
<1>4. BoundAsAsked'
  BY BoundKept DEF IInv
<1> QED BY <1>1, <1>2, <1>3, <1>4 DEF IInv

LEMMA CallFunctionIInv ==
  ASSUME IInv, NEW a \in Addr, CallFunction(a)
  PROVE  IInv'
<1> USE DEF CallFunction, tables, walk
<1>1. TypeOK' /\ KnownInOrder' /\ FirstExists' /\ BootBeforeWalk'
  BY DEF IInv, TypeOK, KnownInOrder, FirstExists, Exporters, BootBeforeWalk
<1>2. HandlersAsRegistered' /\ WalkReads' /\ NonePassed'
  BY DEF IInv, HandlersAsRegistered, WalkReads, NonePassed
<1>4. BoundSoFar'
  BY DEF IInv, BoundSoFar, Passed, KnownSizes, Libraries
<1>3. BoundAsAsked'
  BY BoundKept DEF IInv
<1> QED BY <1>1, <1>2, <1>3, <1>4 DEF IInv

-----------------------------------------------------------------------------
(* The invariant holds throughout. *)
THEOREM Invariant == Spec => []IInv
<1>1. IInv /\ [Next]_vars => IInv'
  <2> SUFFICES ASSUME IInv, [Next]_vars PROVE IInv'
    OBVIOUS
  <2>1. CASE AddModule \/ RegisterSyscall \/ StartWalk \/ NoTable
    BY <2>1, AddModuleIInv, RegisterSyscallIInv, StartWalkIInv, NoTableIInv
  <2>2. CASE RegisterPPUFunction \/ NextDescriptor \/ HeaderUnmapped \/ Ppu64Exit \/ EndWalk
    BY <2>2, RegisterPPUFunctionIInv, NextDescriptorIInv, EndsIInv
  <2>3. ASSUME NEW s \in SyscallId, ExecuteSyscall(s) PROVE IInv'
    BY <2>3, ExecuteSyscallIInv
  <2>4. ASSUME NEW a \in Addr, CallFunction(a) PROVE IInv'
    BY <2>4, CallFunctionIInv
  <2>5. CASE UNCHANGED vars
    <3> USE <2>5 DEF vars, tables, walk
    <3>1. TypeOK' /\ KnownInOrder' /\ FirstExists' /\ BootBeforeWalk'
      BY DEF IInv, TypeOK, KnownInOrder, FirstExists, Exporters, BootBeforeWalk
    <3>2. HandlersAsRegistered' /\ WalkReads' /\ NonePassed'
      BY DEF IInv, HandlersAsRegistered, WalkReads, At, NonePassed, KnownSizes, Libraries
    <3>3. BoundSoFar'
      BY DEF IInv, BoundSoFar, Passed, KnownSizes, Libraries
    <3>4. BoundAsAsked'
      BY BoundKept DEF IInv
    <3> QED BY <3>1, <3>2, <3>3, <3>4 DEF IInv
  <2> QED BY <2>1, <2>2, <2>3, <2>4, <2>5 DEF Next
<1> QED BY <1>1, InitIInv, PTL DEF Spec

(* Every table entry has its type, and no pointer to a list node dangles. *)
THEOREM TypeCorrect == Spec => []TypeOK
<1>1. IInv => TypeOK
  BY DEF IInv
<1> QED BY <1>1, Invariant, PTL

(* What the guest calls runs what it asked for: a bound address the function *)
(* of its NID, of a module that exports it if there is one, and that NID is   *)
(* the one its import names if the table has the sizes linkers write; and a   *)
(* system call its handler if one was registered.                             *)
THEOREM BindingsCorrect == Spec => []RunsAsAsked
<1>1. IInv => RunsAsAsked
  <2> SUFFICES ASSUME IInv PROVE RunsAsAsked
    OBVIOUS
  <2>1. ASSUME NEW a \in DOMAIN registeredFunctions
        PROVE  LET f == Deref(registeredFunctions[a]) IN
               /\ IF f.exec = "null" THEN \A m \in Module : f.nid \notin Exports[m]
                                     ELSE f.nid \in Exports[f.exec]
               /\ KnownSizes => \E p \in Imports : ImportAt(p).addr = a /\ f.nid = ImportAt(p).nid
    <3> DEFINE f == Deref(registeredFunctions[a])
    <3>1. Answers(a)
      BY DEF IInv, BoundAsAsked
    <3>2. Runs(f)
      BY <3>1 DEF Answers
    <3>3. ASSUME KnownSizes PROVE \E p \in Imports : ImportAt(p).addr = a /\ f.nid = ImportAt(p).nid
      <4>1. PICK d \in Libraries : \E n \in DOMAIN stubs.at[d].imports : Asks(f, a, d, n)
        BY <3>1, <3>3 DEF Answers
      <4>2. PICK n \in DOMAIN stubs.at[d].imports : Asks(f, a, d, n)
        BY <4>1
      <4>3. <<d, n>> \in Imports /\ ImportAt(<<d, n>>) = stubs.at[d].imports[n]
        BY DEF Imports, ImportAt
      <4> QED BY <4>2, <4>3 DEF Asks
    <3> QED BY <3>2, <3>3 DEF Runs
  <2> QED BY <2>1 DEF IInv, HandlersAsRegistered, RunsAsAsked
<1> QED BY <1>1, Invariant, PTL

(* When the guest starts, the imports of every library but the last one of   *)
(* the table are bound, however many libraries and imports it has.           *)
THEOREM ImportsCorrect == Spec => []AllButLastBound
<1>1. IInv => AllButLastBound
  <2> SUFFICES ASSUME IInv, phase = "run", KnownSizes, NEW p \in Imports, ~IsLastLibrary(p[1])
               PROVE  ImportAt(p).addr \in DOMAIN registeredFunctions
    BY DEF AllButLastBound
  <2>1. PICK d \in Libraries : p \in {<<d, n>> : n \in DOMAIN stubs.at[d].imports}
    BY DEF Imports
  <2>2. PICK n \in DOMAIN stubs.at[d].imports : p = <<d, n>>
    BY <2>1
  <2>3. /\ stubs.end \in Nat /\ d \in Nat /\ i \in Nat /\ stubs.at[d].size \in Nat
        /\ i >= stubs.end
    BY TableTypes DEF IInv, NonePassed
  <2>4. Passed(d, n)
    BY <2>2, <2>3 DEF IsLastLibrary, Passed
  <2>5. stubs.at[d].imports[n].addr \in DOMAIN registeredFunctions
    BY <2>4 DEF IInv, BoundSoFar
  <2> QED BY <2>2, <2>5 DEF ImportAt
<1> QED BY <1>1, Invariant, PTL

(* Whatever sizes the import table gives its descriptors, the guest only runs *)
(* if none of them is zero.                                                   *)
THEOREM ZeroCorrect == Spec => []ZeroSizeNeverPassed
<1>1. IInv => ZeroSizeNeverPassed
  <2> SUFFICES ASSUME IInv, phase = "run", NEW d \in Libraries PROVE stubs.at[d].size # 0
    BY DEF ZeroSizeNeverPassed
  <2>1. d \in DOMAIN stubs.at /\ d \in Nat /\ d < stubs.end /\ stubs.end \in Nat /\ i \in Nat
    BY TableTypes DEF IInv, Libraries
  <2>2. i >= stubs.end
    BY DEF IInv, NonePassed
  <2>3. d < i
    BY <2>1, <2>2
  <2> QED BY <2>1, <2>3 DEF IInv, NonePassed
<1> QED BY <1>1, Invariant, PTL

(* The walk never comes to a header that cannot be read where the table is    *)
(* readable.                                                                  *)
LEMMA HeadersRead ==
  ASSUME IInv, HeaderUnmapped
  PROVE  ~Readable(stubs)
<1> USE DEF HeaderUnmapped, BodyDone, Looping
<1>1. PICK d \in DOMAIN stubs.at : At(d)
  BY DEF IInv, WalkReads
<1>2. stubs.end \in Nat /\ i \in Nat /\ 0 \in DOMAIN stubs.at /\ d \in Nat
      /\ stubs.at[d].size \in Nat
  BY TableTypes DEF IInv
<1>3. i # 0
  BY <1>2
<1>4. i = d + stubs.at[d].size
  BY <1>1, <1>3 DEF At
<1> QED BY <1>2, <1>4 DEF Readable

-----------------------------------------------------------------------------
(* Pages. *)

LEMMA Remainder ==
  ASSUME NEW a \in Nat, NEW q \in Nat, NEW r \in 0 .. (PageSize - 1), a = PageSize * q + r
  PROVE  a % PageSize = r /\ a \div PageSize = q
BY PageAssumption

LEMMA Quotient ==
  ASSUME NEW a \in Nat
  PROVE  a = PageSize * (a \div PageSize) + (a % PageSize)
         /\ a \div PageSize \in Nat /\ a % PageSize \in 0 .. (PageSize - 1)
BY PageAssumption

(* The start of a page, and the first page from an address on. *)
LEMMA PageStartIs ==
  ASSUME NEW a \in Nat
  PROVE  /\ PageStart(a) \in Nat /\ PageStart(a) <= a /\ a < PageStart(a) + PageSize
         /\ \E q \in Nat : PageStart(a) = PageSize * q
<1>1. PICK q \in Nat : a = PageSize * q + (a % PageSize) /\ a % PageSize \in 0 .. (PageSize - 1)
  BY Quotient
<1>2. PageStart(a) = PageSize * q
  BY <1>1, PageAssumption DEF PageStart
<1> QED BY <1>1, <1>2, PageAssumption

LEMMA Multiple ==
  ASSUME NEW a \in Nat, a % PageSize = 0
  PROVE  PageStart(a) = a /\ \E q \in Nat : a = PageSize * q
<1>1. PageStart(a) = a
  BY DEF PageStart
<1> QED BY <1>1, PageStartIs

LEMMA RoundUpIs ==
  ASSUME NEW a \in Nat
  PROVE  /\ RoundUp(a) \in Nat /\ a <= RoundUp(a)
         /\ \E q \in Nat : RoundUp(a) = PageSize * q
         /\ \A b \in Nat : a <= b /\ b % PageSize = 0 => RoundUp(a) <= b
<1>1. PageSize \in Nat \ {0}
  BY PageAssumption
<1>2. a + PageSize - 1 \in Nat
  BY <1>1
<1>3. /\ RoundUp(a) \in Nat /\ a + PageSize - 1 < RoundUp(a) + PageSize
      /\ RoundUp(a) <= a + PageSize - 1
  BY <1>2, PageStartIs DEF RoundUp
<1>4. PICK q \in Nat : RoundUp(a) = PageSize * q
  BY <1>2, PageStartIs DEF RoundUp
<1>5. ASSUME NEW b \in Nat, a <= b, b % PageSize = 0 PROVE RoundUp(a) <= b
  <2>1. PICK p \in Nat : b = PageSize * p
    BY <1>5, Multiple
  <2>2. PageSize * q < PageSize * p + PageSize
    BY <1>1, <1>3, <1>4, <1>5, <2>1
  <2>3. p + 1 \in Nat /\ PageSize * (p + 1) = PageSize * p + PageSize
    BY <1>1
  <2>4. q < p + 1
    <3>1. p + 1 <= q => PageSize * (p + 1) <= PageSize * q
      BY <1>1, <2>3
    <3> QED BY <3>1, <2>2, <2>3, <1>1
  <2>5. q <= p
    BY <2>4
  <2>6. PageSize * q <= PageSize * p
    BY <2>5, <1>1
  <2> QED BY <2>6, <2>1, <1>4
<1> QED BY <1>1, <1>3, <1>4, <1>5

(* A request of whole pages maps exactly its addresses. *)
LEMMA ExtentOfPages ==
  ASSUME NEW a \in Nat, NEW z \in Nat, a % PageSize = 0, z % PageSize = 0
  PROVE  PageStart(a) = a /\ Extent(a, z) = a .. (a + z - 1)
<1>1. RoundUp(z) \in Nat /\ z <= RoundUp(z) /\ RoundUp(z) <= z
  BY RoundUpIs
<1> QED BY <1>1, Multiple DEF Extent

-----------------------------------------------------------------------------
(* What the copies leave in memory. *)

(* The counter of sections and segments starts from zero, and stops at an import table. *)
Counting ==
  /\ elf \in Elf /\ done \in Nat
  /\ stage \in {"boot", "layout", "map"} => done = 0 /\ mem = Nowhere
  /\ stage \in {"segments", "walk"} => done <= Len(elf.segments)
  /\ stage = "walk" => done < Len(elf.segments) /\ CurrentSegment.kind = "prx"
  /\ stage = "loaded" => done = Len(elf.segments)

Handled(n) == stage \in {"segments", "walk", "loaded"} \/ (stage = "sections" /\ n <= done)

(* Uninitialised data is zero unless contents share its address... *)
NobitsDone ==
  \A n \in DOMAIN elf.sections : Handled(n) /\ SectionAt(n) \in Allocated /\ SectionAt(n).type = "nobits" =>
    \A a \in Bytes(SectionAt(n)) : Image(a) = Zero => a \in DOMAIN mem /\ mem[a] = Zero

(* ... contents are in place where nothing uninitialised shares their address... *)
Cleared(a) == \E s \in Allocated : s.type = "nobits" /\ a \in Bytes(s)
ProgbitsDone ==
  \A n \in DOMAIN elf.sections : Handled(n) /\ SectionAt(n) \in Allocated /\ SectionAt(n).type = "progbits" =>
    \A a \in Bytes(SectionAt(n)) : ~Cleared(a) => a \in DOMAIN mem /\ mem[a] = Image(a)

(* ... and wherever a segment has been copied. *)
SegmentsDone ==
  stage \in {"segments", "walk", "loaded"} =>
    \A n \in DOMAIN elf.segments : n <= done /\ elf.segments[n].kind = "load" =>
      \A a \in FileBytes(elf.segments[n]) : a \in DOMAIN mem /\ mem[a] = Image(a)

LoadInv == Counting /\ NobitsDone /\ ProgbitsDone /\ SegmentsDone

(* Every copy writes to an address what the linker put there, or zero where   *)
(* data is uninitialised.                                                     *)
FromFile(bytes) ==
  \A a \in DOMAIN bytes : bytes[a] = Image(a) \/ (bytes[a] = Zero /\ Cleared(a))

LEMMA ElfFacts ==
  ASSUME elf \in Elf
  PROVE  /\ elf.sections \in Seq(Section) /\ elf.segments \in Seq(Segment)
         /\ Len(elf.sections) \in Nat /\ Len(elf.segments) \in Nat
         /\ DOMAIN elf.sections = 1 .. Len(elf.sections)
         /\ DOMAIN elf.segments = 1 .. Len(elf.segments)
         /\ \A n \in DOMAIN elf.sections : SectionAt(n) \in Section
         /\ \A n \in DOMAIN elf.segments : elf.segments[n] \in Segment
<1>1. elf.sections \in Seq(Section) /\ elf.segments \in Seq(Segment)
  BY ElfAssumption
<1>2. \A n \in DOMAIN elf.sections : elf.sections[n] \in Section
  BY <1>1
<1>3. \A n \in DOMAIN elf.segments : elf.segments[n] \in Segment
  BY <1>1
<1> QED BY <1>1, <1>2, <1>3 DEF SectionAt

(* What the copies before have put in place stays when one more is made. *)
LEMMA CopyKeeps ==
  ASSUME LoadInv, NEW bytes, FromFile(bytes), mem' = Poke(mem, bytes), elf' = elf,
         NEW a \in DOMAIN mem
  PROVE  /\ a \in DOMAIN mem'
         /\ Image(a) = Zero /\ mem[a] = Zero => mem'[a] = Zero
         /\ ~Cleared(a) /\ mem[a] = Image(a) => mem'[a] = Image(a)
         /\ a \notin DOMAIN bytes => mem'[a] = mem[a]
         /\ a \in DOMAIN bytes => mem'[a] = bytes[a]
BY DEF FromFile, Poke

(* All of this is about one executable. *)
LEMMA SameElf ==
  ASSUME elf' = elf
  PROVE  /\ Allocated' = Allocated /\ Keys' = Keys /\ CurrentSegment' = elf.segments[done' + 1]
         /\ \A a : Image(a)' = Image(a) /\ Cleared(a)' = Cleared(a)
         /\ \A n : SectionAt(n)' = SectionAt(n)
<1>1. Sections' = Sections /\ \A n : SectionAt(n)' = SectionAt(n)
  BY DEF Sections, SectionAt
<1>2. Allocated' = Allocated
  BY <1>1 DEF Allocated
<1>3. Keys' = Keys
  BY <1>2 DEF Keys
<1>4. \A a : Image(a)' = Image(a) /\ Cleared(a)' = Cleared(a)
  BY <1>2 DEF Image, Cleared
<1> QED BY <1>1, <1>2, <1>3, <1>4 DEF CurrentSegment

(* The process is somewhere else: nothing is claimed of its memory. *)
LEMMA ElsewhereLoadInv ==
  ASSUME LoadInv, elf' = elf, done' = done, stage' \notin {"boot", "loaded"} \cup LoadStages
  PROVE  LoadInv'
<1>1. Counting'
  BY DEF LoadInv, Counting, LoadStages
<1>2. \A n : ~Handled(n)'
  BY DEF Handled, LoadStages
<1>3. NobitsDone' /\ ProgbitsDone'
  BY <1>2 DEF NobitsDone, ProgbitsDone
<1>4. SegmentsDone'
  BY DEF SegmentsDone, LoadStages
<1> QED BY <1>1, <1>3, <1>4 DEF LoadInv

LEMMA LayoutLoadInv == LoadInv /\ Layout => LoadInv'
<1> SUFFICES ASSUME LoadInv, Layout PROVE LoadInv'
  OBVIOUS
<1>1. /\ stage = "layout" /\ done = 0 /\ mem = Nowhere /\ UNCHANGED <<elf, mem, done>>
      /\ stage' \in {"segments", "exit", "undefined", "map"}
      /\ stage' = "segments" => elf.sections = <<>>
      /\ elf \in Elf /\ elf' \in Elf
  BY DEF LoadInv, Counting, Layout
<1>2. CASE stage' \in {"exit", "undefined"}
  BY <1>1, <1>2, ElsewhereLoadInv DEF LoadStages
<1>3. CASE stage' \in {"segments", "map"}
  <2>1. Counting'
    BY <1>1, <1>3, ElfFacts DEF Counting
  <2>2. NobitsDone' /\ ProgbitsDone'
    <3>1. CASE stage' = "map"
      BY <3>1 DEF NobitsDone, ProgbitsDone, Handled
    <3>2. CASE stage' = "segments"
      <4>1. elf'.sections = <<>>
        BY <3>2, <1>1
      <4> QED BY <4>1 DEF NobitsDone, ProgbitsDone
    <3> QED BY <3>1, <3>2, <1>3
  <2>3. SegmentsDone'
    <3>1. \A n \in DOMAIN elf.segments : ~(n <= 0)
      BY <1>1, ElfFacts
    <3> QED BY <1>1, <3>1 DEF SegmentsDone
  <2> QED BY <2>1, <2>2, <2>3 DEF LoadInv
<1> QED BY <1>1, <1>2, <1>3

LEMMA MapLoadInv == LoadInv /\ Map => LoadInv'
<1> SUFFICES ASSUME LoadInv, Map PROVE LoadInv'
  OBVIOUS
<1>1. /\ stage' = "sections" /\ done = 0 /\ done' = 0 /\ elf' = elf /\ elf \in Elf
  BY DEF LoadInv, Counting, Map
<1>2. \A n \in DOMAIN elf.sections : ~Handled(n)'
  BY <1>1, ElfFacts DEF Handled
<1>3. Counting' /\ SegmentsDone'
  BY <1>1 DEF Counting, SegmentsDone
<1> QED BY <1>1, <1>2, <1>3 DEF LoadInv, NobitsDone, ProgbitsDone

(* One more section: those before keep what they have. *)
LEMMA LoadSectionLoadInv == LoadInv /\ LoadSection => LoadInv'
<1> SUFFICES ASSUME LoadInv, LoadSection PROVE LoadInv'
  OBVIOUS
<1> DEFINE s == SectionAt(done + 1)
<1>1. /\ stage = "sections" /\ done \in Nat /\ done < Len(elf.sections) /\ elf \in Elf
      /\ elf' = elf
  BY DEF LoadInv, Counting, LoadSection
<1>2. done + 1 \in DOMAIN elf.sections
  BY <1>1, ElfFacts
<1>3. s \in Allocated => s \in Section
  BY <1>2, <1>1, ElfFacts
<1>4. ASSUME NEW bytes, FromFile(bytes), Store(bytes),
             s \in Allocated /\ s.type = "nobits" =>
               \A a \in Bytes(s) : a \in DOMAIN bytes /\ (Image(a) = Zero => bytes[a] = Zero),
             s \in Allocated /\ s.type = "progbits" =>
               \A a \in Bytes(s) : a \in DOMAIN bytes /\ (~Cleared(a) => bytes[a] = Image(a))
      PROVE  LoadInv'
  <2>1. CASE ~(DOMAIN bytes \subseteq DOMAIN mem)
    <3>1. stage' = "undefined" /\ UNCHANGED <<mem, done>>
      BY <1>4, <2>1 DEF Store
    <3> QED BY <3>1, <1>1, ElsewhereLoadInv DEF LoadStages
  <2>2. CASE DOMAIN bytes \subseteq DOMAIN mem
    <3>1. mem' = Poke(mem, bytes) /\ done' = done + 1 /\ stage' = "sections"
      BY <1>1, <1>4, <2>2 DEF Store
    <3>2. \A a \in DOMAIN mem :
            /\ a \in DOMAIN mem'
            /\ Image(a) = Zero /\ mem[a] = Zero => mem'[a] = Zero
            /\ ~Cleared(a) /\ mem[a] = Image(a) => mem'[a] = Image(a)
            /\ a \in DOMAIN bytes => mem'[a] = bytes[a]
      BY <1>1, <1>4, <3>1, CopyKeeps
    <3>3. Counting' /\ SegmentsDone'
      BY <1>1, <3>1 DEF Counting, SegmentsDone
    <3>4. \A n \in DOMAIN elf.sections : Handled(n)' => Handled(n) \/ n = done + 1
      BY <1>1, <3>1, ElfFacts DEF Handled
    <3>5. NobitsDone'
      <4> SUFFICES ASSUME NEW n \in DOMAIN elf.sections, Handled(n)', SectionAt(n) \in Allocated,
                          SectionAt(n).type = "nobits",
                          NEW a \in Bytes(SectionAt(n)), Image(a) = Zero
                   PROVE  a \in DOMAIN mem' /\ mem'[a] = Zero
        BY <1>1, SameElf DEF NobitsDone
      <4>1. CASE Handled(n)
        BY <4>1, <3>2 DEF LoadInv, NobitsDone
      <4>2. CASE n = done + 1
        BY <4>2, <1>4, <2>2, <3>2
      <4> QED BY <4>1, <4>2, <3>4
    <3>6. ProgbitsDone'
      <4> SUFFICES ASSUME NEW n \in DOMAIN elf.sections, Handled(n)', SectionAt(n) \in Allocated,
                          SectionAt(n).type = "progbits",
                          NEW a \in Bytes(SectionAt(n)), ~Cleared(a)
                   PROVE  a \in DOMAIN mem' /\ mem'[a] = Image(a)
        BY <1>1, SameElf DEF ProgbitsDone
      <4>1. CASE Handled(n)
        BY <4>1, <3>2 DEF LoadInv, ProgbitsDone
      <4>2. CASE n = done + 1
        BY <4>2, <1>4, <2>2, <3>2
      <4> QED BY <4>1, <4>2, <3>4
    <3> QED BY <3>3, <3>5, <3>6 DEF LoadInv
  <2> QED BY <2>1, <2>2
<1>5. CASE s \notin Allocated /\ done' = done + 1 /\ UNCHANGED <<stage, mem>>
  <2>1. Counting' /\ SegmentsDone'
    BY <1>1, <1>5 DEF Counting, SegmentsDone
  <2>2. \A n \in DOMAIN elf.sections : Handled(n)' /\ SectionAt(n) \in Allocated => Handled(n)
    BY <1>1, <1>5, ElfFacts DEF Handled
  <2>3. NobitsDone'
    BY <1>1, <1>5, <2>2, SameElf DEF LoadInv, NobitsDone
  <2>4. ProgbitsDone'
    BY <1>1, <1>5, <2>2, SameElf DEF LoadInv, ProgbitsDone
  <2> QED BY <2>1, <2>3, <2>4 DEF LoadInv
<1>6. CASE s \in Allocated /\ s.type = "nobits" /\ Store([a \in Bytes(s) |-> Zero])
  <2> DEFINE bytes == [a \in Bytes(s) |-> Zero]
  <2>1. FromFile(bytes)
    BY <1>6 DEF FromFile, Cleared
  <2>2. \A a \in Bytes(s) : a \in DOMAIN bytes /\ (Image(a) = Zero => bytes[a] = Zero)
    OBVIOUS
  <2>3. s.type # "progbits"
    BY <1>6
  <2> HIDE DEF bytes, s
  <2> QED BY <2>1, <2>2, <2>3, <1>4, <1>6 DEF bytes
<1>7. CASE s \in Allocated /\ s.type = "progbits" /\ Store([a \in Bytes(s) |-> Image(a)])
  <2> DEFINE bytes == [a \in Bytes(s) |-> Image(a)]
  <2>1. FromFile(bytes)
    BY DEF FromFile
  <2>2. \A a \in Bytes(s) : a \in DOMAIN bytes /\ (~Cleared(a) => bytes[a] = Image(a))
    OBVIOUS
  <2>3. s.type # "nobits"
    BY <1>7
  <2> HIDE DEF bytes, s
  <2> QED BY <2>1, <2>2, <2>3, <1>4, <1>7 DEF bytes
<1> QED BY <1>5, <1>6, <1>7 DEF LoadSection

LEMMA EndSectionsLoadInv == LoadInv /\ EndSections => LoadInv'
<1> SUFFICES ASSUME LoadInv, EndSections PROVE LoadInv'
  OBVIOUS
<1>1. /\ stage = "sections" /\ done = Len(elf.sections) /\ stage' = "segments" /\ done' = 0
      /\ UNCHANGED <<elf, mem>> /\ elf \in Elf
  BY DEF LoadInv, Counting, EndSections
<1>2. Counting'
  BY <1>1, ElfFacts DEF Counting
<1>3. \A n \in DOMAIN elf.sections : Handled(n)
  BY <1>1, ElfFacts DEF Handled
<1>4. NobitsDone'
  BY <1>1, <1>3, SameElf DEF LoadInv, NobitsDone
<1>5. ProgbitsDone'
  BY <1>1, <1>3, SameElf DEF LoadInv, ProgbitsDone
<1>6. SegmentsDone'
  <2>1. \A n \in DOMAIN elf.segments : ~(n <= 0)
    BY <1>1, ElfFacts
  <2> QED BY <1>1, <2>1 DEF SegmentsDone
<1> QED BY <1>2, <1>4, <1>5, <1>6 DEF LoadInv

(* A segment's bytes are the linker's, over those of sections as well. *)
LEMMA LoadSegmentLoadInv == LoadInv /\ LoadSegment => LoadInv'
<1> SUFFICES ASSUME LoadInv, LoadSegment PROVE LoadInv'
  OBVIOUS
<1> DEFINE g == elf.segments[done + 1]
           bytes == Copied(g)
<1>1. /\ stage = "segments" /\ done \in Nat /\ done < Len(elf.segments) /\ elf \in Elf
      /\ elf' = elf /\ Store(bytes)
  BY DEF LoadInv, Counting, LoadSegment, AtSegment, CurrentSegment
<1>2. DOMAIN bytes = FileBytes(g) /\ \A a \in FileBytes(g) : bytes[a] = Image(a)
  BY DEF Copied
<1>3. FromFile(bytes)
  BY <1>2 DEF FromFile
<1> HIDE DEF bytes, g
<1>4. CASE ~(DOMAIN bytes \subseteq DOMAIN mem)
  <2>1. stage' = "undefined" /\ UNCHANGED <<mem, done>>
    BY <1>1, <1>4 DEF Store
  <2> QED BY <2>1, <1>1, ElsewhereLoadInv DEF LoadStages
<1>5. CASE DOMAIN bytes \subseteq DOMAIN mem
  <2>1. mem' = Poke(mem, bytes) /\ done' = done + 1 /\ stage' = "segments"
    BY <1>1, <1>5 DEF Store
  <2>2. \A a \in DOMAIN mem :
          /\ a \in DOMAIN mem'
          /\ Image(a) = Zero /\ mem[a] = Zero => mem'[a] = Zero
          /\ ~Cleared(a) /\ mem[a] = Image(a) => mem'[a] = Image(a)
          /\ a \notin DOMAIN bytes => mem'[a] = mem[a]
          /\ a \in DOMAIN bytes => mem'[a] = bytes[a]
    BY <1>1, <1>3, <2>1, CopyKeeps
  <2>3. Counting'
    BY <1>1, <2>1, ElfFacts DEF Counting
  <2>4. \A n \in DOMAIN elf.sections : Handled(n)
    BY <1>1 DEF Handled
  <2>5. NobitsDone'
    BY <1>1, <2>2, <2>4, SameElf DEF LoadInv, NobitsDone
  <2>6. ProgbitsDone'
    BY <1>1, <2>2, <2>4, SameElf DEF LoadInv, ProgbitsDone
  <2>7. SegmentsDone'
    <3> SUFFICES ASSUME NEW n \in DOMAIN elf.segments, n <= done + 1,
                        elf.segments[n].kind = "load", NEW a \in FileBytes(elf.segments[n])
                 PROVE  a \in DOMAIN mem' /\ mem'[a] = Image(a)
      BY <1>1, <2>1, SameElf DEF SegmentsDone
    <3>1. CASE n <= done
      <4>1. a \in DOMAIN mem /\ mem[a] = Image(a)
        BY <3>1, <1>1 DEF LoadInv, SegmentsDone
      <4> QED BY <4>1, <1>2, <2>2
    <3>2. CASE n = done + 1
      <4>1. a \in DOMAIN bytes
        BY <3>2, <1>2 DEF g
      <4> QED BY <4>1, <1>2, <1>5, <2>2
    <3> QED BY <3>1, <3>2, <1>1, ElfFacts
  <2> QED BY <2>3, <2>5, <2>6, <2>7 DEF LoadInv
<1> QED BY <1>4, <1>5

(* Steps that leave memory alone. *)
LEMMA PassLoadInv ==
  ASSUME LoadInv, UNCHANGED <<elf, mem>>, stage \in {"segments", "walk"},
         \/ done' = done /\ stage = "segments" /\ stage' \in {"walk", "loaded"}
         \/ done' = done + 1 /\ stage' = "segments",
         stage = "segments" /\ stage' # "segments" =>
           \/ stage' = "walk" /\ done < Len(elf.segments) /\ CurrentSegment.kind = "prx"
           \/ stage' = "loaded" /\ done = Len(elf.segments),
         stage' = "segments" => done < Len(elf.segments) /\ CurrentSegment.kind # "load"
  PROVE  LoadInv'
<1>1. done \in Nat /\ elf \in Elf /\ done <= Len(elf.segments)
  BY DEF LoadInv, Counting
<1>2. Counting'
  BY <1>1, SameElf, ElfFacts DEF LoadInv, Counting, CurrentSegment
<1>3. \A n : Handled(n)
  BY DEF Handled
<1>4. NobitsDone' /\ ProgbitsDone'
  <2>1. NobitsDone'
    BY <1>3, SameElf DEF LoadInv, NobitsDone
  <2>2. ProgbitsDone'
    BY <1>3, SameElf DEF LoadInv, ProgbitsDone
  <2> QED BY <2>1, <2>2
<1>5. SegmentsDone'
  <2> SUFFICES ASSUME NEW n \in DOMAIN elf.segments, n <= done',
                      elf.segments[n].kind = "load", NEW a \in FileBytes(elf.segments[n])
               PROVE  a \in DOMAIN mem /\ mem[a] = Image(a)
    BY SameElf DEF SegmentsDone
  <2>1. n <= done
    BY <1>1, ElfFacts DEF CurrentSegment
  <2> QED BY <2>1 DEF LoadInv, SegmentsDone
<1> QED BY <1>2, <1>4, <1>5 DEF LoadInv

LEMMA SkipLoadInv == LoadInv /\ (SkipSegment \/ ReadTable \/ EndTable \/ EndSegments) => LoadInv'
<1> SUFFICES ASSUME LoadInv, SkipSegment \/ ReadTable \/ EndTable \/ EndSegments PROVE LoadInv'
  OBVIOUS
<1>1. CASE SkipSegment
  <2>1. /\ UNCHANGED <<elf, mem>> /\ stage = "segments" /\ stage' = "segments" /\ done' = done + 1
        /\ done < Len(elf.segments) /\ CurrentSegment.kind # "load"
    BY <1>1 DEF SkipSegment, AtSegment
  <2> QED BY <2>1, PassLoadInv
<1>2. CASE ReadTable
  <2>1. /\ UNCHANGED <<elf, mem>> /\ stage = "segments" /\ stage' \in {"walk", "exit", "undefined"}
        /\ done' = done /\ done < Len(elf.segments) /\ CurrentSegment.kind = "prx"
    BY <1>2 DEF ReadTable, AtSegment
  <2>2. CASE stage' = "walk"
    <3>1. \/ done' = done /\ stage = "segments" /\ stage' \in {"walk", "loaded"}
          \/ done' = done + 1 /\ stage' = "segments"
      BY <2>1, <2>2
    <3>2. stage = "segments" /\ stage' # "segments" =>
            \/ stage' = "walk" /\ done < Len(elf.segments) /\ CurrentSegment.kind = "prx"
            \/ stage' = "loaded" /\ done = Len(elf.segments)
      BY <2>1, <2>2
    <3>3. stage' = "segments" => done < Len(elf.segments) /\ CurrentSegment.kind # "load"
      BY <2>2
    <3>4. UNCHANGED <<elf, mem>> /\ stage \in {"segments", "walk"}
      BY <2>1
    <3> QED BY <3>1, <3>2, <3>3, <3>4, PassLoadInv
  <2>3. CASE stage' # "walk"
    BY <2>1, <2>3, ElsewhereLoadInv DEF LoadStages
  <2> QED BY <2>2, <2>3
<1>3. CASE EndTable
  <2>1. /\ UNCHANGED <<elf, mem>> /\ stage = "walk" /\ stage' = "segments" /\ done' = done + 1
        /\ done < Len(elf.segments) /\ CurrentSegment.kind # "load"
    BY <1>3 DEF EndTable, LoadInv, Counting
  <2> QED BY <2>1, PassLoadInv
<1>4. CASE EndSegments
  <2>1. /\ UNCHANGED <<elf, mem>> /\ stage = "segments" /\ stage' \in {"loaded", "undefined"}
        /\ done' = done /\ done = Len(elf.segments)
    BY <1>4 DEF EndSegments
  <2>2. CASE stage' = "loaded"
    BY <2>1, <2>2, PassLoadInv
  <2>3. CASE stage' # "loaded"
    BY <2>1, <2>3, ElsewhereLoadInv DEF LoadStages
  <2> QED BY <2>2, <2>3
<1> QED BY <1>1, <1>2, <1>3, <1>4

LEMMA LayoutNextLoadInv == LoadInv /\ LayoutNext => LoadInv'
BY LayoutLoadInv, MapLoadInv, LoadSectionLoadInv, EndSectionsLoadInv, LoadSegmentLoadInv,
   SkipLoadInv DEF LayoutNext

LEMMA InitLoadInv == LayoutInit /\ stage \in {"boot", "layout"} => LoadInv
<1> SUFFICES ASSUME LayoutInit, stage \in {"boot", "layout"} PROVE LoadInv
  OBVIOUS
<1>1. Counting /\ SegmentsDone
  BY DEF LayoutInit, Counting, SegmentsDone
<1>2. \A n : ~Handled(n)
  BY DEF Handled
<1> QED BY <1>1, <1>2 DEF LoadInv, NobitsDone, ProgbitsDone

(* What the copies leave is what ImageLoaded asks for. *)
LEMMA LoadedImage == LoadInv => ImageLoaded
<1> SUFFICES ASSUME LoadInv, stage = "loaded"
             PROVE  /\ \A g \in LoadSegments : \A a \in FileBytes(g) : a \in DOMAIN mem /\ mem[a] = Image(a)
                    /\ \A s \in Allocated : s.type = "nobits" =>
                         \A a \in Bytes(s) : Image(a) = Zero => a \in DOMAIN mem /\ mem[a] = Zero
  BY DEF ImageLoaded
<1>1. elf \in Elf /\ done = Len(elf.segments) /\ \A n : Handled(n)
  BY DEF LoadInv, Counting, Handled
<1>2. ASSUME NEW g \in LoadSegments, NEW a \in FileBytes(g)
      PROVE  a \in DOMAIN mem /\ mem[a] = Image(a)
  <2>1. PICK n \in DOMAIN elf.segments : g = elf.segments[n] /\ g.kind = "load"
    BY DEF LoadSegments, Segments
  <2>2. n <= done
    BY <1>1, ElfFacts
  <2> QED BY <2>1, <2>2 DEF LoadInv, SegmentsDone
<1>3. ASSUME NEW s \in Allocated, s.type = "nobits", NEW a \in Bytes(s), Image(a) = Zero
      PROVE  a \in DOMAIN mem /\ mem[a] = Zero
  <2>1. PICK n \in DOMAIN elf.sections : s = SectionAt(n)
    BY DEF Allocated, Sections
  <2> QED BY <2>1, <1>1, <1>3 DEF LoadInv, NobitsDone
<1> QED BY <1>2, <1>3

-----------------------------------------------------------------------------
(* The region of an ordinary executable. *)

LEMMA SectionPages ==
  ASSUME elf \in Elf, NEW s \in Allocated
  PROVE  /\ s \in Section /\ s.addr \in Nat /\ s.size \in Nat \ {0}
         /\ \E p \in Nat, q \in Nat, r \in 0 .. (PageSize - 1), t \in 0 .. (PageSize - 1) :
              /\ s.addr = PageSize * p + r /\ s.addr % PageSize = r
              /\ s.size = PageSize * q + t /\ s.size % PageSize = t
              /\ PagesOf(s) = p .. (p + q)
<1>1. s \in Section /\ s.size > 0
  BY ElfFacts DEF Allocated, Sections
<1>2. s.addr \in Nat /\ s.size \in Nat \ {0}
  BY <1>1 DEF Section
<1> DEFINE p == s.addr \div PageSize
           q == s.size \div PageSize
           r == s.addr % PageSize
           t == s.size % PageSize
<1>3. p \in Nat /\ r \in 0 .. (PageSize - 1) /\ s.addr = PageSize * p + r
  BY <1>2, Quotient
<1>4. q \in Nat /\ t \in 0 .. (PageSize - 1) /\ s.size = PageSize * q + t
  BY <1>2, Quotient
<1>5. (s.size + PageSize) \div PageSize = q + 1
  <2> HIDE DEF q, t
  <2>1. s.size + PageSize \in Nat /\ q + 1 \in Nat /\ s.size + PageSize = PageSize * (q + 1) + t
    BY <1>2, <1>4, PageAssumption
  <2> QED BY <2>1, <1>4, Remainder
<1>6. PagesOf(s) = p .. (p + q)
  <2>1. PagesOf(s) = p .. (p + (q + 1) - 1)
    BY <1>5 DEF PagesOf, FirstPage, PageCount
  <2>2. p + (q + 1) - 1 = p + q
    BY <1>3, <1>4
  <2> QED BY <2>1, <2>2
<1> HIDE DEF p, q, r, t
<1>7. s.addr % PageSize = r /\ s.size % PageSize = t
  BY DEF r, t
<1> QED BY <1>1, <1>2, <1>3, <1>4, <1>6, <1>7

(* A section that fits ends in the last page counted for it. *)
LEMMA FitsPages ==
  ASSUME elf \in Elf, NEW s \in Allocated, Fits(s), NEW a \in Bytes(s)
  PROVE  a \in Nat /\ a \div PageSize \in Keys
<1>1. PICK p \in Nat, q \in Nat, r \in 0 .. (PageSize - 1), t \in 0 .. (PageSize - 1) :
        /\ s.addr = PageSize * p + r /\ s.addr % PageSize = r
        /\ s.size = PageSize * q + t /\ s.size % PageSize = t
        /\ PagesOf(s) = p .. (p + q)
  BY SectionPages
<1>2. PageSize \in Nat \ {0} /\ s.addr \in Nat /\ s.size \in Nat
  BY PageAssumption, SectionPages
<1>3. a \in Nat /\ s.addr <= a /\ a < s.addr + s.size
  BY <1>2 DEF Bytes
<1>4. r + t <= PageSize
  BY <1>1 DEF Fits
<1>5. PICK m \in Nat, u \in 0 .. (PageSize - 1) : a = PageSize * m + u /\ a \div PageSize = m
  BY <1>3, Quotient
<1>6. p <= m
  <2> SUFFICES ASSUME m + 1 <= p PROVE FALSE
    OBVIOUS
  <2>1. PageSize * (m + 1) <= PageSize * p
    BY <1>2
  <2> QED BY <2>1, <1>1, <1>2, <1>3, <1>5
<1>7. m <= p + q
  <2> SUFFICES ASSUME p + q + 1 <= m PROVE FALSE
    OBVIOUS
  <2>1. PageSize * (p + q + 1) <= PageSize * m
    BY <1>2
  <2>2. PageSize * (p + q + 1) = PageSize * p + PageSize * q + PageSize
    BY <1>2
  <2> QED BY <2>1, <2>2, <1>1, <1>2, <1>3, <1>4, <1>5
<1>8. m \in PagesOf(s)
  BY <1>1, <1>6, <1>7
<1> QED BY <1>3, <1>5, <1>8 DEF Keys

LEMMA KeysFinite ==
  ASSUME elf \in Elf
  PROVE  Keys \subseteq Nat /\ IsFiniteSet(Keys) /\ Cardinality(Keys) \in Nat
<1> DEFINE D == DOMAIN elf.sections
           Page(n) == IF SectionAt(n) \in Allocated THEN PagesOf(SectionAt(n)) ELSE {}
           T == {Page(n) : n \in D}
           f == [n \in D |-> Page(n)]
<1>1. \A s \in Allocated : IsFiniteSet(PagesOf(s)) /\ PagesOf(s) \subseteq Nat
  <2> SUFFICES ASSUME NEW s \in Allocated PROVE IsFiniteSet(PagesOf(s)) /\ PagesOf(s) \subseteq Nat
    OBVIOUS
  <2>1. PICK p \in Nat, q \in Nat : PagesOf(s) = p .. (p + q)
    BY SectionPages
  <2>2. IsFiniteSet(p .. (p + q))
    BY FS_Interval
  <2> QED BY <2>1, <2>2
<1>2. IsFiniteSet(D)
  BY ElfFacts, FS_Interval
<1>3. \A n \in D : IsFiniteSet(Page(n)) /\ Page(n) \subseteq Nat
  BY <1>1, FS_EmptySet
<1> HIDE DEF Page
<1>4. f \in Surjection(D, T)
  BY DEF Surjection
<1>5. IsFiniteSet(T)
  BY <1>2, <1>4, FS_Surjection
<1>6. IsFiniteSet(UNION T)
  BY <1>3, <1>5, FS_UNION
<1>7. Keys \subseteq UNION T
  BY DEF Keys, Allocated, Sections, Page
<1>8. IsFiniteSet(Keys)
  BY <1>6, <1>7, FS_Subset
<1> QED BY <1>1, <1>8, FS_CardinalityType DEF Keys

(* Pages there are have a first one. *)
LEMMA FirstKeyIs ==
  ASSUME pages \subseteq Nat, pages # {}
  PROVE  FirstKey \in pages /\ FirstKey \in Nat /\ \A x \in pages : FirstKey <= x
<1>1. PICK p \in pages : \A x \in pages : ~ (<<x, p>> \in OpToRel(<, Nat))
  BY NatLessThanWellFounded, WFMin, Zenon
<1>2. ASSUME NEW x \in pages PROVE p <= x
  <2>1. x < p => <<x, p>> \in OpToRel(<, Nat)
    BY Zenon DEF OpToRel
  <2>2. ~ (x < p)
    BY <2>1, <1>1, Zenon
  <2> QED BY <2>2
<1> DEFINE first == CHOOSE y \in pages : \A x \in pages : y <= x
<1>3. first \in pages /\ \A x \in pages : first <= x
  BY <1>2
<1>4. FirstKey = first
  BY DEF FirstKey
<1> HIDE DEF first
<1> QED BY <1>3, <1>4

(* Without a gap, the pages counted from the first key reach the last one. *)
LEMMA KeysCounted ==
  ASSUME elf \in Elf, pages = Keys, NoGap, NEW q \in Keys
  PROVE  /\ FirstKey \in Nat /\ FirstKey <= q
         /\ Cardinality(Keys) \in Nat /\ q < FirstKey + Cardinality(Keys)
<1>1. Keys \subseteq Nat /\ IsFiniteSet(Keys) /\ Cardinality(Keys) \in Nat
  BY KeysFinite
<1>2. FirstKey \in Keys /\ FirstKey \in Nat /\ FirstKey <= q /\ q \in Nat
  BY <1>1, FirstKeyIs
<1>3. FirstKey .. q \in SUBSET Keys
  BY <1>2 DEF NoGap
<1>4. Cardinality(FirstKey .. q) = q - FirstKey + 1
  BY <1>2, FS_Interval
<1>5. Cardinality(FirstKey .. q) <= Cardinality(Keys)
  BY <1>1, <1>3, FS_Subset
<1> QED BY <1>1, <1>2, <1>4, <1>5

(* Everything in the keys' pages is mapped in one piece. *)
Covered == \A a \in Nat : a \div PageSize \in Keys => a \in DOMAIN mem

LEMMA MapCovers ==
  ASSUME elf \in Elf, mem = Nowhere, pages = Keys, NoGap, Map
  PROVE  Covered'
<1> SUFFICES ASSUME NEW a \in Nat, a \div PageSize \in Keys PROVE a \in DOMAIN mem'
  BY SameElf DEF Covered, Map
<1> DEFINE q == a \div PageSize
           count == Cardinality(Keys)
<1>1. /\ FirstKey \in Nat /\ FirstKey <= q /\ count \in Nat /\ q < FirstKey + count
      /\ PageSize \in Nat \ {0}
  BY KeysCounted, PageAssumption
<1>2. q \in Nat /\ PageSize * q <= a /\ a < PageSize * q + PageSize
  BY <1>1, Quotient
<1>3. mem' = Mmap(Nowhere, FirstKey * PageSize, count * PageSize)
  BY DEF Map
<1> HIDE DEF q, count
<1> DEFINE start == FirstKey * PageSize
           size == count * PageSize
<1>4. start \in Nat /\ size \in Nat /\ start % PageSize = 0 /\ size % PageSize = 0
  <2>1. /\ start \in Nat /\ start = PageSize * FirstKey + 0
        /\ size \in Nat /\ size = PageSize * count + 0
        /\ 0 \in 0 .. (PageSize - 1)
    BY <1>1
  <2> QED BY <2>1, <1>1, Remainder
<1>5. start <= a
  <2>1. PageSize * FirstKey <= PageSize * q
    BY <1>1, <1>2
  <2> QED BY <2>1, <1>1, <1>2
<1>6. a < start + size
  <2>1. PageSize * (q + 1) <= PageSize * (FirstKey + count)
    <3>1. q + 1 <= FirstKey + count
      BY <1>1, <1>2
    <3> QED BY <3>1, <1>1, <1>2
  <2>2. /\ PageSize * (q + 1) = PageSize * q + PageSize
        /\ PageSize * (FirstKey + count) = start + size
    BY <1>1, <1>2
  <2>3. PageSize * q + PageSize <= start + size
    BY <2>1, <2>2
  <2>4. PageSize * q + PageSize \in Nat
    BY <1>1, <1>2
  <2> HIDE DEF start, size
  <2> DEFINE next == PageSize * q + PageSize
  <2>5. a < next /\ next <= start + size /\ next \in Nat
    BY <2>3, <2>4, <1>2
  <2> HIDE DEF next
  <2> QED BY <2>5, <1>4
<1> HIDE DEF start, size
<1>7. Extent(start, size) = start .. (start + size - 1)
  BY <1>4, ExtentOfPages
<1>8. a \in Extent(start, size)
  BY <1>4, <1>5, <1>6, <1>7
<1>9. mem' = Mmap(Nowhere, start, size)
  BY <1>3 DEF start, size
<1> QED BY <1>8, <1>9 DEF Mmap, Nowhere

(* What is read back during the loop over the segments is what was linked,    *)
(* once the segments that put it right have been copied.                      *)
LEMMA SettledIsLinked ==
  ASSUME LoadInv, stage = "segments", NEW last, NEW a, Settled(a, last),
         \A n \in 1 .. last : elf.segments[n].kind = "load" => n \in DOMAIN elf.segments /\ n <= done
  PROVE  a \in DOMAIN mem /\ mem[a] = Image(a) /\ mem[a] # Zero
<1>1. Image(a) # Zero
  BY DEF Settled
<1>2. CASE \A s \in Allocated : s.type = "nobits" => a \notin Bytes(s)
  <2>1. ~Cleared(a)
    BY <1>2 DEF Cleared
  <2>2. PICK s \in Allocated : s.type = "progbits" /\ a \in Bytes(s)
    BY <1>1 DEF Image
  <2>3. PICK n \in DOMAIN elf.sections : s = SectionAt(n)
    BY DEF Allocated, Sections
  <2> QED BY <1>1, <2>1, <2>2, <2>3 DEF LoadInv, ProgbitsDone, Handled
<1>3. CASE \E n \in 1 .. last : elf.segments[n].kind = "load" /\ a \in FileBytes(elf.segments[n])
  BY <1>1, <1>3 DEF LoadInv, SegmentsDone
<1> QED BY <1>2, <1>3 DEF Settled

-----------------------------------------------------------------------------
(* The composition. *)

(* The executable is chosen once. *)
LEMMA ElfKept ==
  ASSUME [StartupNext]_startupVars
  PROVE  elf' = elf
<1>1. CASE Register \/ OpenFile \/ WalkTable \/ WalkExits \/ GuestCall
  BY <1>1 DEF Register, OpenFile, WalkTable, WalkExits, GuestCall, layoutVars
<1>2. CASE Load
  BY <1>2 DEF Load, Layout, Map, LoadSection, EndSections, LoadSegment, SkipSegment
<1>3. CASE BeginTable \/ FinishTable \/ FinishLoading
  BY <1>3 DEF BeginTable, ReadTable, FinishTable, EndTable, FinishLoading, EndSegments
<1>4. CASE BootMain
  BY <1>4 DEF BootMain, layoutVars
<1>5. CASE UNCHANGED startupVars
  BY <1>5 DEF startupVars, layoutVars
<1> QED BY <1>1, <1>2, <1>3, <1>4, <1>5 DEF StartupNext, Loading

(* Every step of the process is a step of HLE or leaves its tables alone. *)
LEMMA StepOfHLE ==
  ASSUME elf \in Elf, [StartupNext]_startupVars
  PROVE  [Next]_vars
<1>1. CASE Register \/ WalkTable \/ WalkExits \/ FinishTable
  BY <1>1 DEF Register, WalkTable, WalkExits, FinishTable, Next
<1>2. CASE OpenFile \/ Load \/ BootMain
  BY <1>2 DEF OpenFile, Load, BootMain
<1>3. CASE BeginTable \/ FinishLoading
  BY <1>3 DEF BeginTable, FinishLoading, Next
<1>4. CASE GuestCall
  <2>1. PICK c \in elf.calls : SystemCall(c) \/ StubCall(c)
    BY <1>4 DEF GuestCall
  <2>2. c \in Call
    BY StartupAssumption
  <2>3. CASE SystemCall(c)
    <3>1. c.id \in SyscallId
      BY <2>2, <2>3 DEF Call, SystemCall
    <3> QED BY <3>1, <2>3 DEF SystemCall, Next
  <2>4. CASE StubCall(c)
    <3>1. c.id \in Addr
      BY <2>2, <2>4 DEF Call, StubCall
    <3> QED BY <3>1, <2>4 DEF StubCall, Next
  <2> QED BY <2>1, <2>3, <2>4
<1>5. CASE UNCHANGED startupVars
  BY <1>5 DEF startupVars
<1> QED BY <1>1, <1>2, <1>3, <1>4, <1>5 DEF StartupNext, Loading

LEMMA ElfAlways == StartupSpec => [](elf \in Elf)
<1>1. StartupInit => elf \in Elf
  BY DEF StartupInit, LayoutInit
<1>2. elf \in Elf /\ [StartupNext]_startupVars => (elf \in Elf)'
  BY ElfKept
<1> QED BY <1>1, <1>2, PTL DEF StartupSpec

(* The composition implements HLE: registration, the walk in the middle of    *)
(* the loop over the segments, and the lookups happen as HLE has them happen. *)
THEOREM ImplementsHLE == StartupSpec => Spec
<1>1. StartupInit => Init
  BY DEF StartupInit
<1>2. elf \in Elf /\ [StartupNext]_startupVars => [Next]_vars
  BY StepOfHLE
<1> QED BY <1>1, <1>2, ElfAlways, PTL DEF StartupSpec, Spec

(* On the whole way from main() on, what the guest calls runs what its import *)
(* or system call number asked for, whatever executable was loaded.           *)
THEOREM StartupBindings == StartupSpec => []RunsAsAsked
BY ImplementsHLE, BindingsCorrect, PTL

(* The guest runs with the imports of all libraries but the last one bound. *)
THEOREM StartupImports == StartupSpec => []AllButLastBound
BY ImplementsHLE, ImportsCorrect, PTL

(* And no library of size zero has been passed on the way. *)
THEOREM StartupZero == StartupSpec => []ZeroSizeNeverPassed
BY ImplementsHLE, ZeroCorrect, PTL

-----------------------------------------------------------------------------
(* The guest's address space: what a handler may do, whichever it is. *)

(* The numbers of the handlers' state. *)
SpaceType ==
  /\ gpr \in [Registers -> Nat]
  /\ calledOnce \in BOOLEAN
  /\ granted = -1 \/ granted \in Nat
  /\ calledOnce <=> granted # -1
  /\ stackTotal \in Nat
  /\ stacks \in Seq([top : Nat, size : Nat])

Numbers == /\ {StackStart, StackLength, SP, ArgV, EnvP, Path, PathLength, TlsStart,
               TlsLength, ArenaStart, UserMemory, Label, TimebaseFrequency} \subseteq Nat
           /\ TlsPointer \in Nat /\ EnvString \in Nat

LEMMA NumbersAreNat == Numbers
BY SpaceAssumption DEF Numbers, TlsPointer, EnvString

(* Memory only changes in cells the handler was passed... *)
Pokes ==
  /\ DOMAIN mem' = DOMAIN mem
  /\ \A a \in DOMAIN mem : mem'[a] # mem[a] => a \in Outputs(called')
  /\ UNCHANGED <<stage, calledOnce, granted>>

(* ... or by the one allocation. *)
Allocates(args) ==
  /\ called'.name = "sys_memory_allocate" /\ ~calledOnce
  /\ mem' = Mmap(Poke(mem, Words(args[3], 1, ArenaStart)), ArenaStart, Arena(args[1]))
  /\ calledOnce' = TRUE /\ granted' = args[1]
  /\ stage' = stage

Ends == /\ stage' \in Ended
        /\ UNCHANGED <<mem, gpr, kernel>>

(* One stack more, or none. *)
Stacks ==
  \/ UNCHANGED <<stacks, stackTotal>>
  \/ \E size \in Nat : /\ stacks' = Append(stacks, [top |-> StackTop(size), size |-> size])
                       /\ stackTotal' = stackTotal + size

LEMMA LoadedType ==
  ASSUME SpaceType, NEW args \in [Arguments -> Nat]
  PROVE  /\ Loaded(args) \in [Registers -> Nat]
         /\ \A n \in Arguments : Arg(Loaded(args), n) = args[n]
         /\ \A x \in Nat : [Loaded(args) EXCEPT ![3] = x] \in [Registers -> Nat]
<1> DEFINE r == Loaded(args)
<1>1. ASSUME NEW x \in Registers PROVE r[x] \in Nat
  BY DEF SpaceType, Loaded, Registers, Arguments
<1>2. r \in [Registers -> Nat]
  BY <1>1 DEF Loaded
<1>3. ASSUME NEW n \in Arguments PROVE r[2 + n] = args[n]
  <2>1. 2 + n \in Registers /\ (2 + n) - 2 = n
    BY DEF Arguments, Registers
  <2> QED BY <2>1 DEF Loaded
<1>4. ASSUME NEW x \in Nat PROVE [r EXCEPT ![3] = x] \in [Registers -> Nat]
  <2> HIDE DEF r
  <2> QED BY <1>2
<1> QED BY <1>2, <1>3, <1>4 DEF Arg

LEMMA PokeIs ==
  ASSUME NEW cells, mem' = Poke(mem, cells)
  PROVE  /\ DOMAIN mem' = DOMAIN mem
         /\ \A a \in DOMAIN mem : mem'[a] # mem[a] => a \in DOMAIN cells
BY DEF Poke

(* What every handler leaves behind: numbers in the registers, and one of the *)
(* three changes of memory.                                                  *)
Effects(args) ==
  /\ gpr' \in [Registers -> Nat]
  /\ image' = image
  /\ Pokes \/ Allocates(args) \/ Ends
  /\ Stacks

LEMMA ThroughEffects ==
  ASSUME SpaceType, NEW args \in [Arguments -> Nat], NEW reads, NEW cells,
         Through(Loaded(args), reads, cells), DOMAIN cells \subseteq Outputs(called')
  PROVE  Effects(args)
<1> DEFINE r == Loaded(args)
<1>1. CASE reads \cup DOMAIN cells \subseteq DOMAIN mem
  <2>1. mem' = Poke(mem, cells) /\ Returns(r, 0) /\ UNCHANGED <<stage, kernel>>
    BY <1>1 DEF Through
  <2>2. gpr' \in [Registers -> Nat]
    BY <2>1, LoadedType DEF Returns
  <2>3. Pokes
    BY <2>1, PokeIs DEF Pokes, kernel
  <2> QED BY <2>1, <2>2, <2>3 DEF Effects, Stacks, kernel
<1>2. CASE ~(reads \cup DOMAIN cells \subseteq DOMAIN mem)
  <2>1. stage' = "undefined" /\ UNCHANGED <<mem, gpr, kernel>>
    BY <1>2 DEF Through
  <2> QED BY <2>1 DEF Ends, Ended, Effects, Stacks, kernel, SpaceType
<1> QED BY <1>1, <1>2

LEMMA HandleEffects ==
  ASSUME SpaceType, NEW args \in [Arguments -> Nat], NEW name, Handle(name, args)
  PROVE  Effects(args) /\ called'.args = args
<1>0. called'.args = args
  BY DEF Handle
<1> SUFFICES Effects(args)
  BY <1>0
<1> DEFINE r == Loaded(args)
<1>1. /\ r \in [Registers -> Nat] /\ gpr \in [Registers -> Nat]
      /\ \A n \in Arguments : Arg(r, n) = args[n] /\ args[n] \in Nat
      /\ \A x \in Nat : Returns(r, x) => gpr' \in [Registers -> Nat]
  BY LoadedType DEF SpaceType, Returns
<1>2. {1, 2, 3, 5, 7} \subseteq Arguments
  BY DEF Arguments
<1>3. called' = [name |-> name, args |-> args]
  BY DEF Handle
<1>4. ASSUME NEW reads, NEW cells, Through(r, reads, cells), DOMAIN cells \subseteq Outputs(called')
      PROVE  Effects(args)
  BY <1>4, ThroughEffects
<1>5. ASSUME stage' \in Ended, UNCHANGED <<mem, gpr, kernel>> PROVE Effects(args)
  BY <1>5, <1>1 DEF Effects, Ends, Stacks, kernel
<1>6. ASSUME NEW x \in Nat, Returns(r, x), UNCHANGED <<stage, mem, kernel>> PROVE Effects(args)
  <2>1. gpr' \in [Registers -> Nat]
    BY <1>1, <1>6
  <2> QED BY <2>1, <1>6 DEF Effects, Pokes, Stacks, kernel
<1>7. CASE name = "sys_memory_allocate" /\ MemoryAllocate(r)
  <2>1. \/ stage' \in Ended /\ UNCHANGED <<mem, gpr, kernel>>
        \/ /\ ~calledOnce
           /\ mem' = Mmap(Poke(mem, Words(args[3], 1, ArenaStart)), ArenaStart, Arena(args[1]))
           /\ calledOnce' = TRUE /\ granted' = args[1] /\ Returns(r, 0)
           /\ UNCHANGED <<stage, stackTotal, image, stacks>>
    BY <1>7, <1>1, <1>2 DEF MemoryAllocate, Ended
  <2>2. CASE stage' \in Ended /\ UNCHANGED <<mem, gpr, kernel>>
    BY <2>2, <1>5
  <2>3. CASE ~(stage' \in Ended /\ UNCHANGED <<mem, gpr, kernel>>)
    <3>1. gpr' \in [Registers -> Nat]
      BY <2>1, <2>3, <1>1
    <3> QED BY <3>1, <2>1, <2>3, <1>3, <1>7 DEF Effects, Allocates, Stacks
  <2> QED BY <2>2, <2>3
<1>8. CASE name = "sys_memory_get_user_memory_size" /\ GetUserMemorySize(r)
  <2>1. Returns(r, 0) /\ UNCHANGED <<stage, kernel>>
    BY <1>8 DEF GetUserMemorySize
  <2>2. CASE args[1] \in DOMAIN mem
    <3>1. mem' = Poke(mem, Words(args[1], 2, UserMemory))
      BY <1>8, <2>2, <1>1, <1>2 DEF GetUserMemorySize
    <3>2. DOMAIN Words(args[1], 2, UserMemory) = Outputs(called')
      BY <1>3, <1>8 DEF Outputs, Object, Words
    <3>3. Pokes
      BY <2>1, <3>1, <3>2, PokeIs DEF Pokes, kernel
    <3> QED BY <2>1, <3>3, <1>1 DEF Effects, Stacks, kernel
  <2>3. CASE args[1] \notin DOMAIN mem
    <3>1. mem' = mem
      BY <1>8, <2>3, <1>1, <1>2 DEF GetUserMemorySize
    <3> QED BY <3>1, <2>1, <1>6
  <2> QED BY <2>2, <2>3
<1>9. CASE name = "sys_ppu_thread_get_stack_information" /\ GetStackInformation(r)
  <2>1. DOMAIN StackInformation(args[1]) = Outputs(called')
    BY <1>1, <1>2, <1>3, <1>9 DEF Outputs, Object, StackInformation
  <2> QED BY <2>1, <1>1, <1>2, <1>4, <1>9 DEF GetStackInformation
<1>10. CASE name = "sys_ppu_thread_create" /\ ThreadCreate(r)
  <2>1. \/ stage' \in Ended /\ UNCHANGED <<mem, gpr, kernel>>
        \/ /\ stacks' = Append(stacks, [top |-> StackTop(args[5]), size |-> args[5]])
           /\ stackTotal' = stackTotal + args[5] /\ Returns(r, 0)
           /\ UNCHANGED <<stage, mem, calledOnce, image, granted>>
    BY <1>10, <1>1, <1>2 DEF ThreadCreate, Ended
  <2>2. CASE stage' \in Ended /\ UNCHANGED <<mem, gpr, kernel>>
    BY <2>2, <1>5
  <2>3. CASE ~(stage' \in Ended /\ UNCHANGED <<mem, gpr, kernel>>)
    <3>1. gpr' \in [Registers -> Nat] /\ Pokes
      BY <2>1, <2>3, <1>1 DEF Pokes
    <3>2. Stacks
      BY <2>1, <2>3, <1>1, <1>2 DEF Stacks
    <3> QED BY <3>1, <3>2, <2>1, <2>3 DEF Effects
  <2> QED BY <2>2, <2>3
<1>11. CASE name = "sys_ppu_thread_get_id" /\ GetThreadId(r)
  <2>1. DOMAIN Words(args[1], 1, 1) = Outputs(called')
    BY <1>3, <1>11 DEF Outputs, Object, Words
  <2> QED BY <2>1, <1>1, <1>2, <1>4, <1>11 DEF GetThreadId
<1>12. CASE name = "cellSpursGetNumSpuThread" /\ GetNumSpuThread(r)
  <2>1. DOMAIN Words(args[2], 1, 1) = Outputs(called')
    BY <1>3, <1>12 DEF Outputs, Object, Words
  <2> QED BY <2>1, <1>1, <1>2, <1>4, <1>12 DEF GetNumSpuThread
<1>13. CASE name = "sys_lwmutex_create" /\ LwmutexCreate(r)
  <2>1. DOMAIN Words(args[1], LwMutexLength, Zero) = Outputs(called')
    BY <1>3, <1>13 DEF Outputs, Object, Words
  <2> QED BY <2>1, <1>1, <1>2, <1>4, <1>13 DEF LwmutexCreate
<1>14. CASE name = "cellGameContentPermit" /\ ContentPermit(r)
  <2> DEFINE info == Words(args[1], ContentLength, Text)
             dir == Words(args[2], UsrDirLength, Text)
             cells == [a \in DOMAIN info \cup DOMAIN dir |-> Text]
  <2>1. DOMAIN cells = Outputs(called')
    BY <1>3, <1>14 DEF Outputs, Object, Words
  <2>2. Through(r, {}, cells)
    BY <1>1, <1>2, <1>14 DEF ContentPermit
  <2> HIDE DEF cells
  <2> QED BY <2>1, <2>2, <1>4
<1>15. CASE name \in Silent /\ LeaveR3(r)
  <2>1. gpr' \in [Registers -> Nat] /\ UNCHANGED <<stage, mem, kernel>>
    BY <1>15, <1>1 DEF LeaveR3
  <2> QED BY <2>1 DEF Effects, Pokes, Stacks, kernel
<1>16. CASE Answer(r, name)
  <2>1. ReturnValue(name) \in Nat
    BY NumbersAreNat DEF Numbers, ReturnValue
  <2> QED BY <2>1, <1>6, <1>16 DEF Answer
<1>17. CASE name \in Filesystem /\ FollowPath(r)
  <2>1. DOMAIN Nowhere \subseteq Outputs(called')
    BY DEF Nowhere
  <2>2. Through(r, {args[1]}, Nowhere)
    BY <1>1, <1>2, <1>17 DEF FollowPath
  <2> QED BY <2>1, <2>2, <1>4
<1> QED
  BY <1>7, <1>8, <1>9, <1>10, <1>11, <1>12, <1>13, <1>14, <1>15, <1>16, <1>17
  DEF Handle

(* A step of the guest: an instruction that cannot be executed, or a handler. *)
LEMMA GuestCallEffects ==
  ASSUME elf \in Elf, SpaceType, GuestCall
  PROVE  /\ stage = "running"
         /\ \/ Unknown
            \/ \E args \in [Arguments -> Nat] : Effects(args) /\ called'.args = args
<1>1. stage = "running"
  BY DEF GuestCall
<1>2. PICK c \in elf.calls : SystemCall(c) \/ StubCall(c)
  BY DEF GuestCall
<1>3. c.args \in [Arguments -> Nat]
  <2>1. c \in Call
    BY <1>2, StartupAssumption
  <2> QED BY <2>1 DEF Call
<1>4. Unknown \/ \E name : Handle(name, c.args)
  BY <1>2 DEF SystemCall, StubCall
<1> QED BY <1>1, <1>3, <1>4, HandleEffects

-----------------------------------------------------------------------------
(* The invariant of the address space. *)

Before == {"boot", "loaded"} \cup LoadStages
InMain == {"arguments", "tls", "path", "running"}

NothingCalled ==
  stage \in Before \cup {"arguments", "tls", "path"} => ~calledOnce /\ called = NoCall

(* The stacks of created threads lie one above the other from SP on. *)
StacksAbove ==
  \A n \in DOMAIN stacks :
    SP <= stacks[n].top - stacks[n].size /\ stacks[n].top <= SP + stackTotal

(* What is mapped: the image, the stacks, the arena once it was allocated. *)
ArenaCells == IF calledOnce THEN Extent(ArenaStart, Arena(granted)) ELSE {}
MappedCells ==
  (stage \in InMain \/ calledOnce) /\ BelowArena =>
    DOMAIN mem = DOMAIN image \cup StackRegion \cup ArenaCells

(* What main() has written in the region of the stacks when it reaches a stage. *)
Written(s, a) ==
  IF a = ArgV /\ s # "arguments" THEN Path
  ELSE IF a = EnvP /\ s # "arguments" THEN EnvString
  ELSE IF a \in PathCells /\ s = "running" THEN Text ELSE Zero
BootContents ==
  stage \in InMain /\ called = NoCall /\ BelowArena =>
    /\ \A a \in DOMAIN image : mem[a] = image[a]
    /\ \A a \in StackRegion : mem[a] = Written(stage, a)
BootRegisters ==
  stage \in InMain /\ called = NoCall =>
    /\ gpr[1] = SP
    /\ stage # "arguments" => gpr[3] = 1 /\ gpr[4] = ArgV /\ gpr[5] = EnvP /\ gpr[6] = 1
    /\ stage \in {"path", "running"} => gpr[13] = TlsPointer

SpaceInv == /\ SpaceType /\ NothingCalled /\ StacksAbove
            /\ MappedCells /\ BootContents /\ BootRegisters

LEMMA InitSpaceInv == StartupInit => SpaceInv
<1> SUFFICES ASSUME StartupInit PROVE SpaceInv
  OBVIOUS
<1> USE DEF StartupInit, SpaceInit
<1>1. SpaceType
  <2>1. gpr \in [Registers -> Nat]
    OBVIOUS
  <2>2. calledOnce \in BOOLEAN /\ granted = -1 /\ (calledOnce <=> granted # -1)
    OBVIOUS
  <2> QED BY <2>1, <2>2 DEF SpaceType
<1>2. NothingCalled /\ StacksAbove
  BY DEF NothingCalled, StacksAbove
<1>3. MappedCells /\ BootContents /\ BootRegisters
  BY DEF MappedCells, BootContents, BootRegisters, InMain
<1> QED BY <1>1, <1>2, <1>3 DEF SpaceInv

(* Until main() maps, and whenever the process only comes to an end, there is *)
(* nothing to keep but the numbers.                                          *)
LEMMA QuietSpaceInv ==
  ASSUME SpaceInv, UNCHANGED spaceVars,
         \/ stage \in Before /\ stage' \in Before \cup Ended
         \/ UNCHANGED mem /\ stage' \in {stage} \cup Ended
  PROVE  SpaceInv'
<1> USE DEF SpaceInv, spaceVars, kernel
<1>1. SpaceType' /\ StacksAbove'
  BY DEF SpaceType, StacksAbove
<1>2. CASE stage \in Before /\ stage' \in Before \cup Ended
  <2>1. ~calledOnce /\ called = NoCall /\ stage' \notin InMain /\ stage' \notin {"arguments", "tls", "path"}
    BY <1>2 DEF NothingCalled, Before, InMain, Ended, LoadStages
  <2> QED BY <1>1, <2>1 DEF NothingCalled, MappedCells, BootContents, BootRegisters
<1>3. CASE UNCHANGED mem /\ stage' = stage
  <2>1. UNCHANGED <<BelowArena, ArenaCells>>
    BY DEF BelowArena, ArenaCells
  <2> QED BY <1>1, <1>3, <2>1 DEF NothingCalled, MappedCells, BootContents, BootRegisters
<1>4. CASE UNCHANGED mem /\ stage' \in Ended
  <2>1. UNCHANGED <<BelowArena, ArenaCells>>
    BY DEF BelowArena, ArenaCells
  <2>2. stage' \notin InMain /\ stage' \notin Before \cup {"arguments", "tls", "path"}
    BY <1>4 DEF Before, InMain, Ended, LoadStages
  <2> QED BY <1>1, <1>4, <2>1, <2>2 DEF NothingCalled, MappedCells, BootContents, BootRegisters
<1> QED BY <1>2, <1>3, <1>4

LEMMA Regions ==
  /\ PageStart(StackStart) = StackStart /\ Extent(StackStart, StackLength) = StackRegion
  /\ PageStart(TlsStart) = TlsStart /\ TlsStart \in StackRegion
  /\ PageStart(ArenaStart) = ArenaStart /\ ArenaStart < StackStart
  /\ {SP, ArgV, EnvP, EnvString, TlsPointer} \cup PathCells \subseteq StackRegion
  /\ SP < ArgV /\ ArgV < EnvP /\ EnvP < EnvString /\ EnvString < TlsPointer
  /\ \A a \in PathCells : EnvP < a /\ a < EnvString
<1>1. /\ StackStart \in Nat /\ StackLength \in Nat /\ TlsStart \in Nat /\ TlsLength \in Nat
      /\ ArenaStart \in Nat /\ UserMemory \in Nat /\ Label \in Nat
      /\ StackStart % PageSize = 0 /\ StackLength % PageSize = 0 /\ TlsStart % PageSize = 0
      /\ ArenaStart % PageSize = 0
      /\ {SP, ArgV, EnvP, Path, PathLength} \subseteq Nat
  BY SpaceAssumption
<1>2. /\ StackStart < SP /\ SP < ArgV /\ ArgV < EnvP /\ EnvP < Path /\ PathLength > 0
      /\ Path + PathLength + 1 < TlsStart /\ TlsStart + TlsLength <= StackStart + StackLength
      /\ TlsLength > 0 /\ ArenaStart + UserMemory <= StackStart
      /\ Label \in ArenaStart .. (ArenaStart + UserMemory - 1)
  BY SpaceAssumption
<1>3. PageStart(StackStart) = StackStart /\ Extent(StackStart, StackLength) = StackRegion
  BY <1>1, ExtentOfPages DEF StackRegion
<1>4. PageStart(TlsStart) = TlsStart /\ PageStart(ArenaStart) = ArenaStart
  BY <1>1, Multiple
<1>5. TlsStart \in StackRegion /\ ArenaStart < StackStart
  BY <1>1, <1>2 DEF StackRegion
<1>6. /\ {SP, ArgV, EnvP, EnvString, TlsPointer} \cup PathCells \subseteq StackRegion
      /\ SP < ArgV /\ ArgV < EnvP /\ EnvP < EnvString /\ EnvString < TlsPointer
      /\ \A a \in PathCells : EnvP < a /\ a < EnvString
  BY <1>1, <1>2 DEF StackRegion, EnvString, TlsPointer, PathCells
<1> QED BY <1>3, <1>4, <1>5, <1>6

(* The stacks go where nothing was loaded, unless something was loaded at or  *)
(* above the arena.                                                           *)
LEMMA MapStackSpaceInv == SpaceInv /\ MapStack => SpaceInv'
<1> SUFFICES ASSUME SpaceInv, MapStack PROVE SpaceInv'
  OBVIOUS
<1> USE DEF SpaceInv
<1>1. /\ stage = "loaded" /\ stage' = "arguments"
      /\ mem' = Mmap(mem, StackStart, StackLength)
      /\ gpr' = [gpr EXCEPT ![1] = SP] /\ image' = mem
      /\ UNCHANGED <<calledOnce, stackTotal, stacks, granted, called>>
  BY DEF MapStack
<1>2. ~calledOnce /\ called = NoCall
  BY <1>1 DEF NothingCalled, Before
<1>3. SpaceType' /\ StacksAbove'
  <2>1. gpr' \in [Registers -> Nat]
    BY <1>1, NumbersAreNat DEF SpaceType, Numbers
  <2> QED BY <2>1, <1>1 DEF SpaceType, StacksAbove
<1>4. BootRegisters'
  <2>1. gpr'[1] = SP
    BY <1>1 DEF SpaceType, Registers
  <2> QED BY <2>1, <1>1 DEF BootRegisters
<1>5. NothingCalled'
  BY <1>1, <1>2 DEF NothingCalled
<1>6. ASSUME BelowArena'
      PROVE  /\ DOMAIN mem' = DOMAIN mem \cup StackRegion
             /\ \A a \in DOMAIN mem : mem'[a] = mem[a]
             /\ \A a \in StackRegion : mem'[a] = Zero
  <2>1. \A a \in DOMAIN mem : a < ArenaStart
    BY <1>1, <1>6 DEF BelowArena
  <2>2. \A a \in StackRegion : a \in Int /\ StackStart <= a
    BY NumbersAreNat DEF Numbers, StackRegion
  <2>3. StackStart \notin DOMAIN mem /\ DOMAIN mem \cap StackRegion = {}
    BY <2>1, <2>2, Regions, NumbersAreNat DEF Numbers
  <2>4. mem' = [a \in DOMAIN mem \cup StackRegion |-> IF a \in StackRegion THEN Zero ELSE mem[a]]
    BY <1>1, <2>3, Regions DEF Mmap
  <2> QED BY <2>3, <2>4
<1>7. MappedCells' /\ BootContents'
  <2>1. ArenaCells' = {}
    BY <1>1, <1>2 DEF ArenaCells
  <2>2. \A a \in StackRegion : Written("arguments", a) = Zero
    <3>1. \A a : Written("arguments", a) = Zero
      BY DEF Written
    <3> QED BY <3>1
  <2>3. MappedCells'
    BY <1>1, <1>6, <2>1 DEF MappedCells
  <2>4. BootContents'
    BY <1>1, <1>6, <2>2 DEF BootContents
  <2> QED BY <2>3, <2>4
<1> QED BY <1>3, <1>4, <1>5, <1>7

LEMMA WriteArgumentsSpaceInv == SpaceInv /\ WriteArguments => SpaceInv'
<1> SUFFICES ASSUME SpaceInv, WriteArguments PROVE SpaceInv'
  OBVIOUS
<1> USE DEF SpaceInv
<1> DEFINE cells == [a \in {ArgV, EnvP} |-> IF a = ArgV THEN Path ELSE EnvString]
<1>1. /\ stage = "arguments" /\ stage' = "tls"
      /\ gpr' = [gpr EXCEPT ![3] = 1, ![4] = ArgV, ![5] = EnvP, ![6] = 1]
      /\ mem' = Poke(mem, cells)
      /\ UNCHANGED <<calledOnce, stackTotal, image, stacks, granted, called>>
  BY DEF WriteArguments, kernel
<1>2. ~calledOnce /\ called = NoCall
  BY <1>1 DEF NothingCalled
<1>3. SpaceType' /\ StacksAbove' /\ NothingCalled'
  <2>1. gpr' \in [Registers -> Nat]
    BY <1>1, NumbersAreNat DEF SpaceType, Numbers
  <2> QED BY <2>1, <1>1, <1>2 DEF SpaceType, StacksAbove, NothingCalled
<1>4. BootRegisters'
  <2>1. gpr[1] = SP
    BY <1>1, <1>2 DEF BootRegisters, InMain
  <2>2. /\ DOMAIN gpr = Registers /\ {1, 3, 4, 5, 6} \subseteq Registers
        /\ 1 \notin {3, 4, 5, 6} /\ 3 \notin {4, 5, 6} /\ 4 \notin {5, 6} /\ 5 # 6
    BY DEF SpaceType, Registers
  <2>3. gpr'[1] = SP
    BY <1>1, <2>1, <2>2, Zenon
  <2>4. gpr'[3] = 1 /\ gpr'[4] = ArgV
    BY <1>1, <2>2
  <2>5. gpr'[5] = EnvP /\ gpr'[6] = 1
    BY <1>1, <2>2
  <2> QED BY <2>3, <2>4, <2>5, <1>1 DEF BootRegisters
<1>5. UNCHANGED BelowArena /\ ArenaCells = {} /\ ArenaCells' = {}
  BY <1>1, <1>2 DEF BelowArena, ArenaCells
<1>6. DOMAIN mem' = DOMAIN mem
  BY <1>1 DEF Poke
<1>7. MappedCells'
  BY <1>1, <1>5, <1>6 DEF MappedCells, InMain
<1>8. BootContents'
  <2> SUFFICES ASSUME BelowArena
               PROVE  /\ \A a \in DOMAIN image : mem'[a] = image[a]
                      /\ \A a \in StackRegion : mem'[a] = Written("tls", a)
    BY <1>1, <1>5 DEF BootContents
  <2>1. DOMAIN mem = DOMAIN image \cup StackRegion
    BY <1>1, <1>5 DEF MappedCells, InMain
  <2>2. /\ \A a \in DOMAIN image : mem[a] = image[a] /\ a < ArenaStart
        /\ \A a \in StackRegion : mem[a] = Zero
    BY <1>1, <1>2 DEF BootContents, InMain, Written, BelowArena
  <2>3. ArgV \notin DOMAIN image /\ EnvP \notin DOMAIN image
    BY <2>2, Regions, NumbersAreNat DEF Numbers, StackRegion
  <2>4. ASSUME NEW a \in DOMAIN image PROVE mem'[a] = image[a]
    BY <1>1, <2>1, <2>2, <2>3 DEF Poke
  <2>5. ASSUME NEW a \in StackRegion PROVE mem'[a] = Written("tls", a)
    BY <1>1, <2>1, <2>2 DEF Poke, Written
  <2> QED BY <2>4, <2>5
<1> QED BY <1>3, <1>4, <1>7, <1>8

(* The request lies in the region of the stacks: it is refused. *)
LEMMA MapTlsSpaceInv == SpaceInv /\ MapTls => SpaceInv'
<1> SUFFICES ASSUME SpaceInv, MapTls PROVE SpaceInv'
  OBVIOUS
<1> USE DEF SpaceInv
<1>1. /\ stage = "tls" /\ stage' = "path"
      /\ mem' = Mmap(mem, TlsStart, TlsLength)
      /\ gpr' = [gpr EXCEPT ![13] = TlsPointer]
      /\ UNCHANGED <<calledOnce, stackTotal, image, stacks, granted, called>>
  BY DEF MapTls, kernel
<1>2. ~calledOnce /\ called = NoCall
  BY <1>1 DEF NothingCalled
<1>3. SpaceType' /\ StacksAbove' /\ NothingCalled'
  <2>1. gpr' \in [Registers -> Nat]
    BY <1>1, NumbersAreNat DEF SpaceType, Numbers
  <2> QED BY <2>1, <1>1, <1>2 DEF SpaceType, StacksAbove, NothingCalled
<1>4. BootRegisters'
  <2>1. gpr[1] = SP /\ gpr[3] = 1 /\ gpr[4] = ArgV /\ gpr[5] = EnvP /\ gpr[6] = 1
    BY <1>1, <1>2 DEF BootRegisters, InMain
  <2>2. /\ gpr'[1] = SP /\ gpr'[3] = 1 /\ gpr'[4] = ArgV /\ gpr'[5] = EnvP /\ gpr'[6] = 1
        /\ gpr'[13] = TlsPointer
    BY <1>1, <2>1 DEF SpaceType, Registers
  <2> QED BY <2>2, <1>1 DEF BootRegisters
<1>5. UNCHANGED BelowArena /\ ArenaCells = {} /\ ArenaCells' = {}
  BY <1>1, <1>2 DEF BelowArena, ArenaCells
<1>6. BelowArena => mem' = mem /\ DOMAIN mem = DOMAIN image \cup StackRegion
  <2>1. BelowArena => DOMAIN mem = DOMAIN image \cup StackRegion
    BY <1>1, <1>5 DEF MappedCells, InMain
  <2> QED BY <2>1, <1>1, Regions DEF Mmap
<1>7. MappedCells'
  BY <1>1, <1>5, <1>6 DEF MappedCells
<1>8. BootContents'
  <2>1. \A a : Written("path", a) = Written("tls", a)
    BY DEF Written
  <2> QED BY <2>1, <1>1, <1>2, <1>5, <1>6 DEF BootContents, InMain
<1> QED BY <1>3, <1>4, <1>7, <1>8

LEMMA WritePathSpaceInv == SpaceInv /\ WritePath => SpaceInv'
<1> SUFFICES ASSUME SpaceInv, WritePath PROVE SpaceInv'
  OBVIOUS
<1> USE DEF SpaceInv
<1>1. /\ stage = "path" /\ stage' = "running"
      /\ mem' = Poke(mem, [a \in PathCells |-> Text])
      /\ UNCHANGED <<gpr, calledOnce, stackTotal, image, stacks, granted, called>>
  BY DEF WritePath, spaceVars, kernel
<1>2. ~calledOnce /\ called = NoCall
  BY <1>1 DEF NothingCalled
<1>3. SpaceType' /\ StacksAbove' /\ NothingCalled'
  BY <1>1 DEF SpaceType, StacksAbove, NothingCalled, Before, LoadStages
<1>4. BootRegisters'
  BY <1>1, <1>2 DEF BootRegisters, InMain
<1>5. UNCHANGED BelowArena /\ ArenaCells = {} /\ ArenaCells' = {}
  BY <1>1, <1>2 DEF BelowArena, ArenaCells
<1>6. DOMAIN mem' = DOMAIN mem
  BY <1>1 DEF Poke
<1>7. MappedCells'
  BY <1>1, <1>5, <1>6 DEF MappedCells, InMain
<1>8. BootContents'
  <2> SUFFICES ASSUME BelowArena
               PROVE  /\ \A a \in DOMAIN image : mem'[a] = image[a]
                      /\ \A a \in StackRegion : mem'[a] = Written("running", a)
    BY <1>1, <1>5 DEF BootContents
  <2>1. DOMAIN mem = DOMAIN image \cup StackRegion
    BY <1>1, <1>5 DEF MappedCells, InMain
  <2>2. /\ \A a \in DOMAIN image : mem[a] = image[a] /\ a < ArenaStart
        /\ \A a \in StackRegion : mem[a] = Written("path", a)
    BY <1>1, <1>2 DEF BootContents, InMain, BelowArena
  <2>3. PathCells \cap DOMAIN image = {} /\ ArgV \notin PathCells /\ EnvP \notin PathCells
    BY <2>2, Regions, NumbersAreNat DEF Numbers, StackRegion
  <2>4. ASSUME NEW a \in DOMAIN image PROVE mem'[a] = image[a]
    BY <1>1, <2>1, <2>2, <2>3 DEF Poke
  <2>5. ASSUME NEW a \in StackRegion PROVE mem'[a] = Written("running", a)
    BY <1>1, <2>1, <2>2, <2>3 DEF Poke, Written
  <2> QED BY <2>4, <2>5
<1> QED BY <1>3, <1>4, <1>7, <1>8

(* The arena is mapped whole, because nothing is in its first page. *)
LEMMA AllocationMaps ==
  ASSUME SpaceInv, stage = "running", BelowArena, NEW args \in [Arguments -> Nat], Allocates(args)
  PROVE  /\ DOMAIN mem = DOMAIN image \cup StackRegion
         /\ DOMAIN mem' = DOMAIN mem \cup Extent(ArenaStart, Arena(args[1]))
         /\ \A a \in DOMAIN mem \ Extent(ArenaStart, Arena(args[1])) :
              mem'[a] # mem[a] => a = args[3]
<1> DEFINE poked == Poke(mem, Words(args[3], 1, ArenaStart))
<1>1. mem' = Mmap(poked, ArenaStart, Arena(args[1])) /\ ~calledOnce
  BY DEF Allocates
<1>2. DOMAIN mem = DOMAIN image \cup StackRegion
  BY <1>1 DEF SpaceInv, MappedCells, InMain, ArenaCells
<1>3. ArenaStart \notin DOMAIN mem
  <2>1. ArenaStart \notin DOMAIN image
    BY NumbersAreNat DEF Numbers, BelowArena
  <2>2. ArenaStart \notin StackRegion
    BY Regions, NumbersAreNat DEF Numbers, StackRegion
  <2> QED BY <1>2, <2>1, <2>2
<1>4. args[3] \in Nat
  BY DEF Arguments
<1>5. /\ DOMAIN poked = DOMAIN mem
      /\ \A a \in DOMAIN mem : poked[a] # mem[a] => a = args[3]
  BY <1>4 DEF Poke, Words
<1> HIDE DEF poked
<1>6. mem' = [a \in DOMAIN poked \cup Extent(ArenaStart, Arena(args[1])) |->
                IF a \in Extent(ArenaStart, Arena(args[1])) THEN Zero ELSE poked[a]]
  BY <1>1, <1>3, <1>5, Regions DEF Mmap
<1> QED BY <1>2, <1>5, <1>6

LEMMA GuestCallSpaceInv ==
  ASSUME elf \in Elf, SpaceInv, GuestCall
  PROVE  SpaceInv'
<1> USE DEF SpaceInv
<1>1. stage = "running"
  BY GuestCallEffects
<1>2. CASE Unknown
  <2>1. UNCHANGED <<mem, spaceVars>> /\ stage' \in Ended
    BY <1>2 DEF Unknown, Ended
  <2> QED BY <2>1, QuietSpaceInv
<1>3. ASSUME NEW args \in [Arguments -> Nat], Effects(args), called'.args = args
      PROVE  SpaceInv'
  <2>1. args[1] \in Nat /\ args # <<>>
    <3>1. 1 \in DOMAIN args
      BY DEF Arguments
    <3>2. 1 \notin DOMAIN <<>>
      OBVIOUS
    <3>3. args # <<>>
      BY <3>1, <3>2, Zenon
    <3> QED BY <3>1, <3>3
  <2>2. called' # NoCall
    BY <2>1, <1>3 DEF NoCall
  <2>3. /\ gpr' \in [Registers -> Nat] /\ image' = image
        /\ Pokes \/ Allocates(args) \/ Ends
        /\ Stacks
    BY <1>3 DEF Effects
  <2>4. stage' \in {"running"} \cup Ended
    BY <1>1, <2>3 DEF Pokes, Allocates, Ends
  <2>5. NothingCalled' /\ BootContents' /\ BootRegisters'
    <3>1. stage' \notin Before \cup {"arguments", "tls", "path"}
      BY <2>4 DEF Before, LoadStages, Ended
    <3> QED BY <2>2, <3>1 DEF NothingCalled, BootContents, BootRegisters
  <2>6. /\ stackTotal' \in Nat /\ stacks' \in Seq([top : Nat, size : Nat])
        /\ StacksAbove'
    <3>1. stackTotal \in Nat /\ stacks \in Seq([top : Nat, size : Nat]) /\ SP \in Nat
      BY NumbersAreNat DEF SpaceType, Numbers
    <3>2. /\ stackTotal \in Nat /\ stacks \in Seq([top : Nat, size : Nat]) /\ SP \in Nat
          /\ \A n \in DOMAIN stacks : stacks[n] \in [top : Nat, size : Nat]
      <4> DEFINE S == [top : Nat, size : Nat]
      <4>1. stacks \in Seq(S)
        BY <3>1
      <4> HIDE DEF S
      <4>2. \A n \in DOMAIN stacks : stacks[n] \in S
        BY <4>1
      <4> QED BY <3>1, <4>2 DEF S
    <3>3. CASE UNCHANGED <<stacks, stackTotal>>
      BY <3>2, <3>3 DEF StacksAbove
    <3>4. ASSUME NEW size \in Nat,
                 stacks' = Append(stacks, [top |-> StackTop(size), size |-> size]),
                 stackTotal' = stackTotal + size
          PROVE  /\ stackTotal' \in Nat /\ stacks' \in Seq([top : Nat, size : Nat])
                 /\ StacksAbove'
      <4> DEFINE s == [top |-> StackTop(size), size |-> size]
      <4>1. s \in [top : Nat, size : Nat] /\ s.top = SP + stackTotal + size /\ s.size = size
        BY <3>2 DEF StackTop
      <4> HIDE DEF s
      <4>2. /\ stacks' \in Seq([top : Nat, size : Nat])
            /\ \A n \in DOMAIN stacks' : n \in DOMAIN stacks \/ stacks'[n] = s
            /\ \A n \in DOMAIN stacks : stacks'[n] = stacks[n]
        BY <3>2, <3>4, <4>1 DEF s
      <4>3. ASSUME NEW n \in DOMAIN stacks'
            PROVE  SP <= stacks'[n].top - stacks'[n].size /\ stacks'[n].top <= SP + stackTotal'
        <5>1. CASE n \in DOMAIN stacks
          BY <5>1, <3>2, <3>4, <4>2 DEF StacksAbove
        <5>2. CASE stacks'[n] = s
          BY <5>2, <3>2, <3>4, <4>1
        <5> QED BY <5>1, <5>2, <4>2
      <4> QED BY <3>2, <3>4, <4>2, <4>3 DEF StacksAbove
    <3> QED BY <2>3, <3>3, <3>4 DEF Stacks
  <2>7. SpaceType'
    <3>1. CASE Pokes \/ Ends
      BY <3>1, <2>3, <2>6 DEF Pokes, Ends, kernel, SpaceType
    <3>2. CASE Allocates(args)
      BY <3>2, <2>1, <2>3, <2>6 DEF Allocates, SpaceType
    <3> QED BY <3>1, <3>2, <2>3
  <2>8. UNCHANGED BelowArena
    BY <2>3 DEF BelowArena
  <2>9. MappedCells'
    <3>1. CASE Pokes \/ Ends
      <4>1. DOMAIN mem' = DOMAIN mem /\ UNCHANGED ArenaCells
        BY <3>1 DEF Pokes, Ends, kernel, ArenaCells
      <4> QED BY <1>1, <4>1, <2>3, <2>8 DEF MappedCells, InMain
    <3>2. CASE Allocates(args)
      <4>1. ArenaCells' = Extent(ArenaStart, Arena(args[1]))
        BY <3>2 DEF Allocates, ArenaCells, Arena
      <4>2. BelowArena => DOMAIN mem' = DOMAIN image \cup StackRegion
                                          \cup Extent(ArenaStart, Arena(args[1]))
        BY <1>1, <3>2, AllocationMaps
      <4> QED BY <4>1, <4>2, <2>3, <2>8 DEF MappedCells
    <3> QED BY <3>1, <3>2, <2>3
  <2> QED BY <2>5, <2>6, <2>7, <2>9
<1> QED BY <1>2, <1>3, GuestCallEffects

LEMMA StepSpaceInv ==
  ASSUME elf \in Elf, SpaceInv, [StartupNext]_startupVars
  PROVE  SpaceInv'
<1> USE DEF Before, LoadStages, Ended
<1>1. CASE Register \/ OpenFile
  <2>1. UNCHANGED spaceVars /\ stage \in Before /\ stage' \in Before
    BY <1>1 DEF Register, OpenFile
  <2> QED BY <2>1, QuietSpaceInv
<1>2. CASE Load
  <2>1. UNCHANGED spaceVars
    BY <1>2 DEF Load
  <2>2. stage \in Before /\ stage' \in Before \cup Ended
    BY <1>2 DEF Load, Layout, Map, LoadSection, EndSections, LoadSegment, SkipSegment,
                AtSegment, Store
  <2> QED BY <2>1, <2>2, QuietSpaceInv
<1>3. CASE BeginTable
  <2>1. UNCHANGED spaceVars /\ stage \in Before /\ stage' \in Before \cup Ended
    BY <1>3 DEF BeginTable, ReadTable, AtSegment
  <2> QED BY <2>1, QuietSpaceInv
<1>4. CASE WalkTable \/ WalkExits
  <2>1. UNCHANGED <<mem, spaceVars>> /\ stage' \in {stage} \cup Ended
    BY <1>4 DEF WalkTable, WalkExits
  <2> QED BY <2>1, QuietSpaceInv
<1>5. CASE FinishTable
  <2>1. UNCHANGED spaceVars /\ stage \in Before /\ stage' \in Before
    BY <1>5 DEF FinishTable, EndTable
  <2> QED BY <2>1, QuietSpaceInv
<1>6. CASE FinishLoading
  <2>1. UNCHANGED spaceVars /\ stage \in Before /\ stage' \in Before \cup Ended
    BY <1>6 DEF FinishLoading, EndSegments
  <2> QED BY <2>1, QuietSpaceInv
<1>7. CASE BootMain
  BY <1>7, MapStackSpaceInv, WriteArgumentsSpaceInv, MapTlsSpaceInv, WritePathSpaceInv
  DEF BootMain, MainBoot
<1>8. CASE GuestCall
  BY <1>8, GuestCallSpaceInv
<1>9. CASE UNCHANGED startupVars
  <2>1. UNCHANGED <<stage, mem, spaceVars>>
    BY <1>9 DEF startupVars
  <2> QED BY <2>1, QuietSpaceInv
<1> QED BY <1>1, <1>2, <1>3, <1>4, <1>5, <1>6, <1>7, <1>8, <1>9 DEF StartupNext, Loading

(* What is mapped, what main() has written and what the stacks are, always. *)
THEOREM SpaceInvariant == StartupSpec => []SpaceInv
<1>1. elf \in Elf /\ SpaceInv /\ [StartupNext]_startupVars => SpaceInv'
  BY StepSpaceInv
<1> QED BY <1>1, InitSpaceInv, ElfAlways, PTL DEF StartupSpec

-----------------------------------------------------------------------------
(* For every address map the assumption allows, and any executable below the  *)
(* arena, the guest starts with its image intact and its registers leading to *)
(* the path, the environment, the stack and the TLS word.                     *)
THEOREM StartCorrect == StartupSpec => []StartsSound
<1>1. SpaceInv => StartsSound
  <2> SUFFICES ASSUME SpaceInv, stage = "running", called = NoCall, BelowArena
               PROVE  /\ \A a \in DOMAIN image : mem[a] = image[a]
                      /\ gpr[3] = 1 /\ \A a \in Object(mem[gpr[4]], PathLength) : mem[a] = Text
                      /\ gpr[6] = 1 /\ mem[mem[gpr[5]]] = Zero
                      /\ {gpr[1], gpr[13]} \subseteq DOMAIN mem
                      /\ mem[gpr[1]] = Zero /\ mem[gpr[13]] = Zero
    BY DEF StartsSound
  <2>1. /\ gpr[1] = SP /\ gpr[3] = 1 /\ gpr[4] = ArgV /\ gpr[5] = EnvP /\ gpr[6] = 1
        /\ gpr[13] = TlsPointer
    BY DEF SpaceInv, BootRegisters, InMain
  <2>2. /\ \A a \in DOMAIN image : mem[a] = image[a]
        /\ \A a \in StackRegion : mem[a] = Written("running", a)
        /\ StackRegion \subseteq DOMAIN mem
    BY DEF SpaceInv, BootContents, MappedCells, InMain
  <2>3. mem[ArgV] = Path /\ mem[EnvP] = EnvString
    BY <2>2, Regions, NumbersAreNat DEF Numbers, Written
  <2>4. \A a \in PathCells : mem[a] = Text
    BY <2>2, Regions, NumbersAreNat DEF Numbers, Written, PathCells
  <2>5. mem[EnvString] = Zero /\ mem[SP] = Zero /\ mem[TlsPointer] = Zero
    <3>1. {EnvString, SP, TlsPointer} \cap (PathCells \cup {ArgV, EnvP}) = {}
      BY Regions, NumbersAreNat DEF Numbers, PathCells
    <3> QED BY <3>1, <2>2, Regions DEF Written
  <2>6. Object(Path, PathLength) = PathCells
    BY DEF Object, PathCells
  <2> QED BY <2>1, <2>2, <2>3, <2>4, <2>5, <2>6, Regions
<1> QED BY <1>1, SpaceInvariant, PTL

(* Whatever size was asked for, if the guest had been told there is as much,  *)
(* all of it is mapped and is nobody else's, in pages of any size.            *)
THEOREM GrantCorrect == StartupSpec => []GrantIsUsable
<1>1. SpaceInv => GrantIsUsable
  <2> SUFFICES ASSUME SpaceInv, granted \in 0 .. UserMemory, BelowArena
               PROVE  Object(ArenaStart, granted) \subseteq DOMAIN mem \ (DOMAIN image \cup StackRegion)
    BY DEF GrantIsUsable
  <2>1. calledOnce /\ granted \in Nat
    BY DEF SpaceInv, SpaceType
  <2>2. DOMAIN mem = DOMAIN image \cup StackRegion \cup Extent(ArenaStart, Arena(granted))
    BY <2>1 DEF SpaceInv, MappedCells, ArenaCells
  <2>3. Object(ArenaStart, granted) \subseteq Extent(ArenaStart, Arena(granted))
    <3>1. ArenaStart + granted \in Nat /\ ArenaStart \in Nat
      BY <2>1, NumbersAreNat DEF Numbers
    <3>2. ArenaStart + granted <= RoundUp(ArenaStart + granted) /\ RoundUp(ArenaStart + granted) \in Nat
      BY <3>1, RoundUpIs
    <3>3. Arena(granted) \in Nat /\ granted <= Arena(granted)
      BY <3>1, <3>2, <2>1 DEF Arena
    <3>4. RoundUp(Arena(granted)) \in Nat /\ granted <= RoundUp(Arena(granted))
      BY <3>3, <2>1, RoundUpIs
    <3> QED BY <3>1, <3>4, <2>1, Regions DEF Object, Extent
  <2>4. ASSUME NEW a \in Object(ArenaStart, granted) PROVE a \notin DOMAIN image \cup StackRegion
    <3>1. /\ ArenaStart \in Nat /\ UserMemory \in Nat /\ StackStart \in Nat
          /\ ArenaStart + UserMemory <= StackStart
      BY SpaceAssumption
    <3>2. a \in Int /\ ArenaStart <= a /\ a < StackStart
      BY <3>1, <2>1 DEF Object
    <3> QED BY <3>1, <3>2 DEF BelowArena, StackRegion
  <2> QED BY <2>2, <2>3, <2>4
<1> QED BY <1>1, SpaceInvariant, PTL

(* However many threads with stacks of whatever sizes are created, no stack   *)
(* reaches below SP, and as long as their sum ends below the word r13 points   *)
(* to, none leaves the region of the stacks or covers that word.               *)
THEOREM StacksCorrect == StartupSpec => []StacksApart
<1>1. SpaceInv => StacksApart
  <2> SUFFICES ASSUME SpaceInv, NEW n \in DOMAIN stacks,
                      NEW a \in (stacks[n].top - stacks[n].size) .. (stacks[n].top - 1)
               PROVE  a >= SP /\ (SP + stackTotal <= TlsPointer => a \in StackRegion \ {TlsPointer})
    BY DEF StacksApart
  <2>1. stackTotal \in Nat /\ stacks \in Seq([top : Nat, size : Nat])
    BY DEF SpaceInv, SpaceType
  <2>2. stacks[n] \in [top : Nat, size : Nat]
    <3> DEFINE S == [top : Nat, size : Nat]
    <3>1. stacks \in Seq(S)
      BY <2>1
    <3> HIDE DEF S
    <3>2. stacks[n] \in S
      BY <3>1
    <3> QED BY <3>2 DEF S
  <2>3. SP <= stacks[n].top - stacks[n].size /\ stacks[n].top <= SP + stackTotal
    BY DEF SpaceInv, StacksAbove
  <2>4. a \in Int /\ SP <= a /\ a < SP + stackTotal
    <3>1. stacks[n].top \in Nat /\ stacks[n].size \in Nat /\ SP \in Nat
      BY <2>2, NumbersAreNat DEF Numbers
    <3> QED BY <3>1, <2>1, <2>3
  <2>5. /\ SP \in StackRegion /\ TlsPointer \in StackRegion
        /\ {SP, TlsPointer, StackStart, StackLength} \subseteq Nat
    BY Regions, NumbersAreNat DEF Numbers
  <2> QED BY <2>1, <2>4, <2>5 DEF StackRegion
<1> QED BY <1>1, SpaceInvariant, PTL

(* While the guest runs, memory changes in its calls. *)
LEMMA RunningSteps ==
  ASSUME [StartupNext]_startupVars, stage = "running", stage' = "running"
  PROVE  GuestCall \/ UNCHANGED <<stage, mem, spaceVars>>
<1>1. CASE Register \/ OpenFile \/ FinishTable
  BY <1>1 DEF Register, OpenFile, FinishTable, EndTable
<1>2. CASE Load \/ BeginTable \/ FinishLoading
  BY <1>2 DEF Load, Layout, Map, LoadSection, EndSections, LoadSegment, SkipSegment, AtSegment,
              BeginTable, ReadTable, FinishLoading, EndSegments
<1>3. CASE WalkTable \/ WalkExits
  BY <1>3 DEF WalkTable, WalkExits
<1>4. CASE BootMain
  BY <1>4 DEF BootMain, MainBoot, MapStack, WriteArguments, MapTls, WritePath
<1>5. CASE UNCHANGED startupVars
  BY <1>5 DEF startupVars
<1> QED BY <1>1, <1>2, <1>3, <1>4, <1>5 DEF StartupNext, Loading

(* An allocation of no more than the guest was told of stays in the arena. *)
LEMMA ArenaFits ==
  ASSUME NEW size \in Nat, size <= UserMemory
  PROVE  Extent(ArenaStart, Arena(size)) \subseteq ArenaStart .. (StackStart - 1)
<1>1. /\ ArenaStart \in Nat /\ UserMemory \in Nat /\ StackStart \in Nat
      /\ ArenaStart + UserMemory <= StackStart
      /\ ArenaStart % PageSize = 0 /\ UserMemory % PageSize = 0
  BY SpaceAssumption
<1>2. ArenaStart + size \in Nat
  BY <1>1
<1>3. PICK p \in Nat : ArenaStart = PageSize * p
  BY <1>1, Multiple
<1>4. PICK u \in Nat : UserMemory = PageSize * u
  BY <1>1, Multiple
<1>5. PICK q \in Nat : RoundUp(ArenaStart + size) = PageSize * q
  BY <1>2, RoundUpIs
<1>6. PageSize \in Nat \ {0} /\ 0 \in 0 .. (PageSize - 1)
  BY PageAssumption
<1>7. (ArenaStart + UserMemory) % PageSize = 0
  <2>1. p + u \in Nat /\ ArenaStart + UserMemory = PageSize * (p + u) + 0
    BY <1>3, <1>4, <1>6
  <2>2. ArenaStart + UserMemory \in Nat
    BY <1>1
  <2> QED BY <2>1, <2>2, <1>6, Remainder
<1>8. /\ RoundUp(ArenaStart + size) \in Nat /\ ArenaStart + size <= RoundUp(ArenaStart + size)
      /\ RoundUp(ArenaStart + size) <= ArenaStart + UserMemory
  <2>1. ArenaStart + UserMemory \in Nat /\ ArenaStart + size <= ArenaStart + UserMemory
    BY <1>1
  <2> QED BY <2>1, <1>2, <1>7, RoundUpIs
<1>9. Arena(size) \in Nat /\ Arena(size) % PageSize = 0
  <2>1. Arena(size) \in Nat
    BY <1>1, <1>8 DEF Arena
  <2>2. Arena(size) = PageSize * q - PageSize * p
    BY <1>3, <1>5 DEF Arena
  <2>3. p <= q
    <3>1. PageSize * p <= PageSize * q
      BY <1>1, <1>3, <1>5, <1>8
    <3> QED BY <3>1, <1>6
  <2>4. q - p \in Nat /\ Arena(size) = PageSize * (q - p) + 0
    BY <2>2, <2>3, <1>6
  <2> QED BY <2>1, <2>4, <1>6, Remainder
<1>10. Extent(ArenaStart, Arena(size)) = ArenaStart .. (RoundUp(ArenaStart + size) - 1)
  <2>1. Extent(ArenaStart, Arena(size)) = ArenaStart .. (ArenaStart + Arena(size) - 1)
    BY <1>1, <1>9, ExtentOfPages
  <2>2. ArenaStart + Arena(size) - 1 = RoundUp(ArenaStart + size) - 1
    BY <1>1, <1>8 DEF Arena
  <2> QED BY <2>1, <2>2, Zenon
<1> QED BY <1>1, <1>8, <1>10

(* No call changes memory other than the objects it was passed, and the arena *)
(* takes nothing away from a program that asks for no more than there is.      *)
THEOREM CallsCorrect == StartupSpec => CallsKeepMemory
<1> DEFINE Kept ==
      stage = "running" /\ stage' = "running" /\ BelowArena
        /\ (called'.name = "sys_memory_allocate" => called'.args[1] <= UserMemory) =>
      \A a \in DOMAIN mem : a \in DOMAIN mem' /\ (mem'[a] # mem[a] => a \in Outputs(called'))
<1>1. ASSUME elf \in Elf, SpaceInv, [StartupNext]_startupVars
      PROVE  [Kept]_<<stage, mem, spaceVars>>
  <2> SUFFICES ASSUME ~UNCHANGED <<stage, mem, spaceVars>>,
                      stage = "running", stage' = "running", BelowArena,
                      called'.name = "sys_memory_allocate" => called'.args[1] <= UserMemory,
                      NEW a \in DOMAIN mem
               PROVE  a \in DOMAIN mem' /\ (mem'[a] # mem[a] => a \in Outputs(called'))
    OBVIOUS
  <2>1. GuestCall
    BY <1>1, RunningSteps
  <2>2. SpaceType
    BY <1>1 DEF SpaceInv
  <2>3. ~Unknown
    BY DEF Unknown
  <2>4. PICK args \in [Arguments -> Nat] : Effects(args) /\ called'.args = args
    BY <1>1, <2>1, <2>2, <2>3, GuestCallEffects
  <2>5. CASE Pokes
    BY <2>5 DEF Pokes
  <2>6. CASE Allocates(args)
    <3>1. args[1] \in Nat /\ args[3] \in Nat
      BY DEF Arguments
    <3>2. args[1] <= UserMemory /\ Outputs(called') = Object(args[3], 1)
      BY <2>4, <2>6 DEF Allocates, Outputs
    <3>3. /\ DOMAIN mem = DOMAIN image \cup StackRegion
          /\ DOMAIN mem' = DOMAIN mem \cup Extent(ArenaStart, Arena(args[1]))
          /\ \A b \in DOMAIN mem \ Extent(ArenaStart, Arena(args[1])) :
               mem'[b] # mem[b] => b = args[3]
      BY <1>1, <2>6, AllocationMaps
    <3>4. a \notin Extent(ArenaStart, Arena(args[1]))
      <4>1. Extent(ArenaStart, Arena(args[1])) \subseteq ArenaStart .. (StackStart - 1)
        BY <3>1, <3>2, ArenaFits
      <4>2. a \in DOMAIN image \/ a \in StackRegion
        BY <3>3
      <4> QED BY <4>1, <4>2, NumbersAreNat DEF Numbers, BelowArena, StackRegion
    <3> QED BY <3>1, <3>2, <3>3, <3>4 DEF Object
  <2>7. ~Ends
    BY DEF Ends, Ended
  <2> QED BY <2>4, <2>5, <2>6, <2>7 DEF Effects
<1> QED BY <1>1, SpaceInvariant, ElfAlways, PTL DEF StartupSpec, CallsKeepMemory

-----------------------------------------------------------------------------
(* The copies of loadELF in the composition. *)

LEMMA QuietLoadInv ==
  ASSUME LoadInv, UNCHANGED <<elf, mem, done>>,
         stage' = stage \/ (stage = "boot" /\ stage' = "layout")
  PROVE  LoadInv'
<1>1. Counting'
  BY SameElf DEF LoadInv, Counting, CurrentSegment
<1>2. \A n : Handled(n)' <=> Handled(n)
  BY DEF Handled
<1>3. NobitsDone' /\ ProgbitsDone'
  <2>1. NobitsDone'
    BY <1>2, SameElf DEF LoadInv, NobitsDone
  <2>2. ProgbitsDone'
    BY <1>2, SameElf DEF LoadInv, ProgbitsDone
  <2> QED BY <2>1, <2>2
<1>4. SegmentsDone'
  BY SameElf DEF LoadInv, SegmentsDone
<1> QED BY <1>1, <1>3, <1>4 DEF LoadInv

LEMMA GuestStage ==
  ASSUME elf \in Elf, SpaceInv, GuestCall
  PROVE  stage = "running" /\ stage' \in {"running"} \cup Ended /\ UNCHANGED layoutVars
<1>1. SpaceType
  BY DEF SpaceInv
<1>2. CASE Unknown
  BY <1>1, <1>2, GuestCallEffects DEF Unknown, Ended, GuestCall
<1>3. ASSUME NEW args \in [Arguments -> Nat], Effects(args)
      PROVE  stage' \in {stage} \cup Ended
  BY <1>3 DEF Effects, Pokes, Allocates, Ends
<1> QED BY <1>1, <1>2, <1>3, GuestCallEffects DEF GuestCall

LEMMA StepLoadInv ==
  ASSUME elf \in Elf, SpaceInv, LoadInv, [StartupNext]_startupVars
  PROVE  LoadInv'
<1>1. CASE Register \/ WalkTable \/ OpenFile \/ UNCHANGED startupVars
  <2>1. /\ UNCHANGED <<elf, mem, done>>
        /\ stage' = stage \/ (stage = "boot" /\ stage' = "layout")
    BY <1>1 DEF Register, WalkTable, OpenFile, startupVars, layoutVars
  <2> QED BY <2>1, QuietLoadInv
<1>2. CASE Load \/ BeginTable \/ FinishTable \/ FinishLoading
  <2>1. LayoutNext
    BY <1>2 DEF Load, BeginTable, FinishTable, FinishLoading, LayoutNext
  <2> QED BY <2>1, LayoutNextLoadInv
<1>3. CASE WalkExits \/ BootMain \/ GuestCall
  <2>1. UNCHANGED layoutVars /\ stage' \notin {"boot", "loaded"} \cup LoadStages
    <3>1. CASE WalkExits
      BY <3>1 DEF WalkExits, LoadStages
    <3>2. CASE BootMain
      BY <3>2 DEF BootMain, MainBoot, MapStack, WriteArguments, MapTls, WritePath, LoadStages
    <3>3. CASE GuestCall
      BY <3>3, GuestStage DEF LoadStages, Ended
    <3> QED BY <1>3, <3>1, <3>2, <3>3
  <2> QED BY <2>1, ElsewhereLoadInv DEF layoutVars
<1> QED BY <1>1, <1>2, <1>3 DEF StartupNext, Loading

THEOREM LoadInvariant == StartupSpec => []LoadInv
<1>1. StartupInit => LoadInv
  BY InitLoadInv DEF StartupInit
<1>2. elf \in Elf /\ SpaceInv /\ LoadInv /\ [StartupNext]_startupVars => LoadInv'
  BY StepLoadInv
<1> QED BY <1>1, <1>2, ElfAlways, SpaceInvariant, PTL DEF StartupSpec

(* Whatever executable is accepted and loaded, with segments in any order and *)
(* sections that share addresses, its segments are in memory byte for byte    *)
(* and its uninitialised data is zero.                                        *)
THEOREM ImageCorrect == StartupSpec => []ImageLoaded
BY LoadInvariant, LoadedImage, PTL

-----------------------------------------------------------------------------
(* The host of an ordinary executable. *)

(* From the region on, all pages of the sections are mapped; when main()      *)
(* begins to map, so are the sections themselves, in the image.               *)
SectionCells == UNION {Bytes(s) : s \in Allocated}
PagesKept == stage = "map" => pages = Keys
RegionKept == Ordinary /\ stage \in {"sections", "segments", "walk", "loaded"} => Covered
ImageKept == Ordinary /\ stage \in InMain => SectionCells \subseteq DOMAIN image
HostInv == PagesKept /\ RegionKept /\ ImageKept /\ HostSurvives

LEMMA OrdinaryElf ==
  ASSUME elf' = elf
  PROVE  (Ordinary' <=> Ordinary) /\ SectionCells' = SectionCells
         /\ (mem' = mem => Covered' = Covered)
<1>1. /\ Allocated' = Allocated /\ Keys' = Keys
      /\ \A a : Image(a)' = Image(a)
  BY SameElf
<1>2. LoadSegments' = LoadSegments /\ NoGap' = NoGap
  BY <1>1 DEF LoadSegments, Segments, NoGap
<1>3. \A a, n : Settled(a, n)' <=> Settled(a, n)
  BY <1>1 DEF Settled
<1>4. TableBytes' = TableBytes /\ EntryWords' = EntryWords
  BY DEF TableBytes, EntryWords
<1>5. Ordinary' <=> Ordinary
  BY <1>1, <1>2, <1>3, <1>4 DEF Ordinary
<1>6. SectionCells' = SectionCells
  BY <1>1 DEF SectionCells
<1>7. mem' = mem => Covered' = Covered
  BY <1>1 DEF Covered
<1> QED BY <1>5, <1>6, <1>7

LEMMA CoveredSections ==
  ASSUME elf \in Elf, Ordinary, Covered
  PROVE  SectionCells \subseteq DOMAIN mem
<1> SUFFICES ASSUME NEW s \in Allocated, NEW a \in Bytes(s) PROVE a \in DOMAIN mem
  BY DEF SectionCells
<1>1. Fits(s)
  BY DEF Ordinary
<1> QED BY <1>1, FitsPages DEF Covered

(* A step that ends nowhere undefined and keeps what is mapped. *)
LEMMA SafeStep ==
  ASSUME HostInv, elf' = elf, stage' # "undefined", stage' # "map",
         Ordinary /\ stage' \in {"sections", "segments", "walk", "loaded"} => Covered',
         stage' \notin InMain
  PROVE  HostInv'
<1>1. PagesKept' /\ HostSurvives'
  BY DEF PagesKept, HostSurvives
<1>2. RegionKept' /\ ImageKept'
  BY OrdinaryElf DEF RegionKept, ImageKept
<1> QED BY <1>1, <1>2 DEF HostInv

(* A copy inside the pages succeeds, and leaves the region as it is. *)
LEMMA StoreCovered ==
  ASSUME NEW bytes, Store(bytes), elf' = elf, Covered
  PROVE  Covered' /\ (DOMAIN bytes \subseteq DOMAIN mem => stage' = stage)
<1>1. DOMAIN mem' = DOMAIN mem
  BY DEF Store, Poke
<1> QED BY <1>1, SameElf DEF Store, Covered

LEMMA StoreFails ==
  ASSUME NEW bytes, Store(bytes)
  PROVE  stage' \in {stage, "undefined"}
BY DEF Store

LEMMA UndefinedKept ==
  ASSUME HostInv, elf' = elf, stage' = "undefined", ~Ordinary
  PROVE  HostInv'
<1>1. ~Ordinary'
  BY OrdinaryElf
<1> QED BY <1>1 DEF HostInv, PagesKept, RegionKept, ImageKept, HostSurvives, InMain

LEMMA LayoutHost == elf \in Elf /\ LoadInv /\ HostInv /\ Layout => HostInv'
<1> SUFFICES ASSUME elf \in Elf, LoadInv, HostInv, Layout PROVE HostInv'
  OBVIOUS
<1>1. elf' = elf /\ pages' = Keys /\ Keys' = Keys /\ stage = "layout"
  BY SameElf DEF Layout
<1>2. stage' \in {"segments", "exit", "undefined", "map"}
  BY DEF Layout
<1>3. ASSUME Ordinary PROVE stage' \notin {"segments", "undefined"}
  <2>1. PICK s \in Allocated : TRUE
    BY <1>3 DEF Ordinary
  <2>2. elf.sections # <<>>
    BY <2>1 DEF Allocated, Sections
  <2>3. Keys # {}
    <3>1. PICK p \in Nat, q \in Nat : PagesOf(s) = p .. (p + q)
      BY SectionPages
    <3>2. p \in PagesOf(s)
      BY <3>1
    <3> QED BY <3>2 DEF Keys
  <2> QED BY <2>2, <2>3 DEF Layout
<1>4. CASE ~Ordinary
  <2>1. ~Ordinary'
    BY <1>1, <1>4, OrdinaryElf
  <2> QED BY <1>1, <2>1 DEF HostInv, PagesKept, RegionKept, ImageKept, HostSurvives
<1>5. CASE Ordinary
  BY <1>1, <1>2, <1>3, <1>5
  DEF HostInv, PagesKept, RegionKept, ImageKept, HostSurvives, InMain
<1> QED BY <1>4, <1>5

LEMMA MapHost == elf \in Elf /\ LoadInv /\ HostInv /\ Map => HostInv'
<1> SUFFICES ASSUME elf \in Elf, LoadInv, HostInv, Map PROVE HostInv'
  OBVIOUS
<1>1. elf' = elf /\ pages = Keys /\ mem = Nowhere /\ stage' = "sections"
  BY DEF Map, HostInv, PagesKept, LoadInv, Counting
<1>2. Ordinary => Covered'
  BY <1>1, MapCovers DEF Ordinary
<1> QED BY <1>1, <1>2, SafeStep DEF InMain

LEMMA CopyHost ==
  elf \in Elf /\ LoadInv /\ HostInv /\ (LoadSection \/ LoadSegment) => HostInv'
<1> SUFFICES ASSUME elf \in Elf, LoadInv, HostInv, LoadSection \/ LoadSegment PROVE HostInv'
  OBVIOUS
<1>1. elf' = elf /\ stage \in {"sections", "segments"} /\ stage' \in {stage, "undefined"}
  BY StoreFails DEF LoadSection, LoadSegment, AtSegment
<1>2. CASE ~Ordinary
  <2>1. ~Ordinary'
    BY <1>1, <1>2, OrdinaryElf
  <2> QED BY <1>1, <2>1 DEF HostInv, PagesKept, RegionKept, ImageKept, HostSurvives
<1>3. CASE Ordinary
  <2>1. Covered
    BY <1>1, <1>3 DEF HostInv, RegionKept
  <2>2. SectionCells \subseteq DOMAIN mem
    BY <1>3, <2>1, CoveredSections
  <2>3. Covered' /\ stage' = stage
    <3>1. CASE LoadSection
      <4> DEFINE s == SectionAt(done + 1)
      <4>1. CASE UNCHANGED <<stage, mem>>
        BY <1>1, <2>1, <4>1, OrdinaryElf
      <4>2. CASE ~UNCHANGED <<stage, mem>>
        <5>1. s \in Allocated /\ \/ Store([a \in Bytes(s) |-> Zero])
                                 \/ Store([a \in Bytes(s) |-> Image(a)])
          BY <3>1, <4>2 DEF LoadSection
        <5>2. Bytes(s) \subseteq DOMAIN mem
          BY <2>2, <5>1 DEF SectionCells
        <5> QED BY <1>1, <2>1, <5>1, <5>2, StoreCovered
      <4> QED BY <4>1, <4>2
    <3>2. CASE LoadSegment
      <4> DEFINE g == CurrentSegment
      <4>1. Store(Copied(g)) /\ g.kind = "load" /\ done < Len(elf.segments)
        BY <3>2 DEF LoadSegment, AtSegment
      <4>2. g \in LoadSegments /\ g \in Segment
        <5>1. done + 1 \in DOMAIN elf.segments
          BY <4>1, ElfFacts DEF LoadInv, Counting
        <5> QED BY <4>1, <5>1, ElfFacts DEF LoadSegments, Segments, CurrentSegment
      <4>3. FileBytes(g) \subseteq Nat
        BY <4>2 DEF FileBytes, Segment
      <4>4. FileBytes(g) \subseteq DOMAIN mem
        BY <1>3, <2>1, <4>2, <4>3 DEF Ordinary, Covered
      <4>5. DOMAIN Copied(g) = FileBytes(g)
        BY DEF Copied
      <4> QED BY <1>1, <2>1, <4>1, <4>4, <4>5, StoreCovered
    <3> QED BY <3>1, <3>2
  <2> QED BY <1>1, <2>3, SafeStep DEF InMain
<1> QED BY <1>2, <1>3

(* What loadELF reads back in the middle of its loop is what was linked. *)
LEMMA ReadBackHost ==
  elf \in Elf /\ LoadInv /\ HostInv /\ (ReadTable \/ EndSegments) => HostInv'
<1> SUFFICES ASSUME elf \in Elf, LoadInv, HostInv, ReadTable \/ EndSegments PROVE HostInv'
  OBVIOUS
<1>1. /\ UNCHANGED <<elf, mem>> /\ stage = "segments"
      /\ stage' \in {"walk", "exit", "loaded", "undefined"}
  BY DEF ReadTable, EndSegments, AtSegment
<1>2. CASE ~Ordinary
  <2>1. ~Ordinary'
    BY <1>1, <1>2, OrdinaryElf
  <2> QED BY <1>1, <2>1 DEF HostInv, PagesKept, RegionKept, ImageKept, HostSurvives
<1>3. CASE Ordinary
  <2>1. Covered'
    BY <1>1, <1>3, OrdinaryElf DEF HostInv, RegionKept
  <2>2. done \in Nat /\ Len(elf.segments) \in Nat /\ DOMAIN elf.segments = 1 .. Len(elf.segments)
    BY ElfFacts DEF LoadInv, Counting
  <2>3. stage' # "undefined"
    <3>1. CASE ReadTable
      <4> DEFINE info == FileBytes(CurrentSegment)
      <4>1. done < Len(elf.segments) /\ elf.segments[done + 1].kind = "prx"
        BY <3>1 DEF ReadTable, AtSegment, CurrentSegment
      <4>2. ASSUME NEW a \in info \cup TableBytes
            PROVE  a \in DOMAIN mem /\ mem[a] = Image(a) /\ mem[a] # Zero
        <5>1. done + 1 \in DOMAIN elf.segments
          BY <2>2, <4>1
        <5>2. Settled(a, done + 1)
          BY <1>3, <4>1, <5>1 DEF Ordinary, CurrentSegment
        <5>3. \A n \in 1 .. (done + 1) :
                elf.segments[n].kind = "load" => n \in DOMAIN elf.segments /\ n <= done
          BY <2>2, <4>1
        <5> QED BY <1>1, <5>2, <5>3, SettledIsLinked
      <4>3. TableLinked
        BY <4>2 DEF TableLinked, PrxInfo, AsLinked
      <4> QED BY <3>1, <4>3 DEF ReadTable
    <3>2. CASE EndSegments
      <4>1. done = Len(elf.segments)
        BY <3>2 DEF EndSegments
      <4>2. ASSUME NEW a \in EntryWords
            PROVE  a \in DOMAIN mem /\ mem[a] = Image(a) /\ mem[a] # Zero
        <5>1. Settled(a, Len(elf.segments))
          BY <1>3 DEF Ordinary
        <5>2. \A n \in 1 .. Len(elf.segments) :
                elf.segments[n].kind = "load" => n \in DOMAIN elf.segments /\ n <= done
          BY <2>2, <4>1
        <5> QED BY <1>1, <5>1, <5>2, SettledIsLinked
      <4>3. AsLinked(EntryWords)
        BY <4>2 DEF AsLinked
      <4> QED BY <3>2, <4>3 DEF EndSegments
    <3> QED BY <3>1, <3>2
  <2> QED BY <1>1, <2>1, <2>3, SafeStep DEF InMain
<1> QED BY <1>2, <1>3

LEMMA PassHost ==
  elf \in Elf /\ HostInv /\ (EndSections \/ SkipSegment \/ EndTable) => HostInv'
<1> SUFFICES ASSUME elf \in Elf, HostInv, EndSections \/ SkipSegment \/ EndTable PROVE HostInv'
  OBVIOUS
<1>1. UNCHANGED <<elf, mem>> /\ stage \in {"sections", "segments", "walk"} /\ stage' = "segments"
  BY DEF EndSections, SkipSegment, EndTable, AtSegment
<1>2. Ordinary => Covered'
  BY <1>1, OrdinaryElf DEF HostInv, RegionKept
<1> QED BY <1>1, <1>2, SafeStep DEF InMain

LEMMA LayoutNextHost == elf \in Elf /\ LoadInv /\ HostInv /\ LayoutNext => HostInv'
BY LayoutHost, MapHost, CopyHost, ReadBackHost, PassHost DEF LayoutNext

-----------------------------------------------------------------------------
(* The calls of the guest. *)

(* The import table is what the executable has, or what reads as one where    *)
(* memory is zero; all of them can be read if the executable's can.           *)
TableKept == stubs \in {elf.table, Zeroed, Empty}

LEMMA StubsKept ==
  ASSUME elf \in Elf, [StartupNext]_startupVars
  PROVE  stubs' = stubs \/ (stubs' = TableRead /\ stage' = "walk")
<1>1. CASE BeginTable
  BY <1>1 DEF BeginTable, vars, walk
<1>2. CASE Register \/ WalkTable \/ WalkExits \/ FinishTable
  BY <1>2 DEF Register, WalkTable, WalkExits, FinishTable, AddModule, RegisterSyscall,
              RegisterPPUFunction, NextDescriptor, HeaderUnmapped, Ppu64Exit, EndWalk, walk
<1>3. CASE OpenFile \/ Load \/ BootMain \/ UNCHANGED startupVars
  BY <1>3 DEF OpenFile, Load, BootMain, startupVars, vars, walk
<1>4. CASE FinishLoading
  BY <1>4 DEF FinishLoading, NoTable, vars, walk
<1>5. CASE GuestCall
  BY <1>5 DEF GuestCall, SystemCall, StubCall, ExecuteSyscall, CallFunction, walk
<1> QED BY <1>1, <1>2, <1>3, <1>4, <1>5 DEF StartupNext, Loading

LEMMA TableAlways == StartupSpec => []TableKept
<1>1. StartupInit => TableKept
  BY DEF StartupInit, Init, TableKept
<1>2. elf \in Elf /\ TableKept /\ [StartupNext]_startupVars => TableKept'
  BY StubsKept, ElfKept DEF TableKept, TableRead
<1> QED BY <1>1, <1>2, ElfAlways, PTL DEF StartupSpec

LEMMA StubsReadable ==
  ASSUME TableKept, Readable(elf.table)
  PROVE  Readable(stubs)
<1>1. Readable(Empty)
  BY EmptyHasNone, HLEAssumption DEF Readable, HLEAssumption
<1>2. Zeroed.end = 1 /\ DOMAIN Zeroed.at = {0} /\ Zeroed.at[0].size = 0
  BY DEF Zeroed
<1>3. Readable(Zeroed)
  BY <1>2 DEF Readable
<1> QED BY <1>1, <1>3 DEF TableKept

LEMMA SameNeeds ==
  ASSUME elf' = elf, stubs' = stubs
  PROVE  (WellBehaved' <=> WellBehaved) /\ (KnownSizes' <=> KnownSizes)
<1>1. OwnObjects' = OwnObjects
  BY SameElf DEF OwnObjects
<1>2. Imports' = Imports /\ \A p : ImportAt(p)' = ImportAt(p)
  BY DEF Imports, ImportAt, Libraries
<1>3. \A c : NamesOf(c)' = NamesOf(c)
  BY <1>2 DEF NamesOf
<1> QED BY <1>1, <1>3 DEF WellBehaved, KnownSizes, Libraries

(* A handler whose objects are mapped does not end the host. *)
LEMMA HandleSafe ==
  ASSUME SpaceType, NEW args \in [Arguments -> Nat], NEW name, Handle(name, args),
         stage = "running",
         Outputs([name |-> name, args |-> args]) \cup Inputs([name |-> name, args |-> args])
           \subseteq DOMAIN mem
  PROVE  stage' # "undefined"
<1> DEFINE r == Loaded(args)
           call == [name |-> name, args |-> args]
<1>1. \A n \in Arguments : Arg(r, n) = args[n] /\ args[n] \in Nat
  BY LoadedType
<1>2. {1, 2, 3, 5, 7} \subseteq Arguments
  BY DEF Arguments
<1>3. Outputs(call) \subseteq DOMAIN mem /\ Inputs(call) \subseteq DOMAIN mem
  OBVIOUS
<1>4. ASSUME NEW reads, NEW cells, Through(r, reads, cells),
             DOMAIN cells \subseteq Outputs(call), reads \subseteq Inputs(call)
      PROVE  stage' # "undefined"
  <2>1. reads \cup DOMAIN cells \subseteq DOMAIN mem
    BY <1>3, <1>4
  <2> QED BY <1>4, <2>1 DEF Through
<1>5. CASE name = "sys_memory_allocate" /\ MemoryAllocate(r)
  <2>1. args[3] \in Outputs(call)
    BY <1>1, <1>2, <1>5 DEF Outputs, Object
  <2> QED BY <2>1, <1>1, <1>2, <1>3, <1>5 DEF MemoryAllocate
<1>6. CASE name = "sys_memory_get_user_memory_size" /\ GetUserMemorySize(r)
  BY <1>6 DEF GetUserMemorySize
<1>7. CASE name = "sys_ppu_thread_get_stack_information" /\ GetStackInformation(r)
  <2>1. DOMAIN StackInformation(args[1]) \subseteq Outputs(call)
    BY <1>1, <1>2, <1>7 DEF Outputs, Object, StackInformation
  <2> QED BY <2>1, <1>1, <1>2, <1>4, <1>7 DEF GetStackInformation
<1>8. CASE name = "sys_ppu_thread_create" /\ ThreadCreate(r)
  <2>1. {args[2], args[7]} \subseteq DOMAIN mem
    BY <1>3, <1>8 DEF Inputs, Filesystem
  <2> QED BY <2>1, <1>1, <1>2, <1>8 DEF ThreadCreate
<1>9. CASE name = "sys_ppu_thread_get_id" /\ GetThreadId(r)
  <2>1. DOMAIN Words(args[1], 1, 1) \subseteq Outputs(call)
    BY <1>9 DEF Outputs, Object, Words
  <2> QED BY <2>1, <1>1, <1>2, <1>4, <1>9 DEF GetThreadId
<1>10. CASE name = "cellSpursGetNumSpuThread" /\ GetNumSpuThread(r)
  <2>1. DOMAIN Words(args[2], 1, 1) \subseteq Outputs(call)
    BY <1>10 DEF Outputs, Object, Words
  <2> QED BY <2>1, <1>1, <1>2, <1>4, <1>10 DEF GetNumSpuThread
<1>11. CASE name = "sys_lwmutex_create" /\ LwmutexCreate(r)
  <2>1. DOMAIN Words(args[1], LwMutexLength, Zero) \subseteq Outputs(call)
    BY <1>11 DEF Outputs, Object, Words
  <2>2. {args[2]} \subseteq Inputs(call)
    BY <1>11 DEF Inputs, Filesystem
  <2> QED BY <2>1, <2>2, <1>1, <1>2, <1>4, <1>11 DEF LwmutexCreate
<1>12. CASE name = "cellGameContentPermit" /\ ContentPermit(r)
  <2> DEFINE info == Words(args[1], ContentLength, Text)
             dir == Words(args[2], UsrDirLength, Text)
             cells == [a \in DOMAIN info \cup DOMAIN dir |-> Text]
  <2>1. DOMAIN cells \subseteq Outputs(call)
    BY <1>12 DEF Outputs, Object, Words
  <2>2. Through(r, {}, cells)
    BY <1>1, <1>2, <1>12 DEF ContentPermit
  <2> HIDE DEF cells
  <2> QED BY <2>1, <2>2, <1>4
<1>13. CASE (name \in Silent /\ LeaveR3(r)) \/ Answer(r, name)
  BY <1>13 DEF LeaveR3, Answer
<1>14. CASE name \in Filesystem /\ FollowPath(r)
  <2>1. DOMAIN Nowhere = {}
    BY DEF Nowhere
  <2>2. {args[1]} \subseteq Inputs(call)
    BY <1>14 DEF Inputs, Filesystem
  <2>3. Through(r, {args[1]}, Nowhere)
    BY <1>1, <1>2, <1>14 DEF FollowPath
  <2> QED BY <2>1, <2>2, <2>3, <1>4
<1> QED BY <1>5, <1>6, <1>7, <1>8, <1>9, <1>10, <1>11, <1>12, <1>13, <1>14 DEF Handle

(* What a call runs is one of the names it stands for. *)
LEMMA NameOfCall ==
  ASSUME IInv, KnownSizes, NEW c \in Call,
         \/ SystemCall(c) /\ ~Unknown
         \/ StubCall(c) /\ ~Unknown
  PROVE  \E name \in NamesOf(c) : Handle(name, c.args)
<1>1. CASE SystemCall(c) /\ ~Unknown
  <2>1. FoundHandler(c.id) /\ c.via = "sc" /\ Handle(SyscallName[c.id], c.args)
    BY <1>1 DEF SystemCall
  <2>2. c.id \in Syscalls
    BY <2>1 DEF FoundHandler, Handler, IInv, HandlersAsRegistered
  <2> QED BY <2>1, <2>2 DEF NamesOf
<1>2. CASE StubCall(c) /\ ~Unknown
  <2> DEFINE f == Deref(registeredFunctions[c.id])
  <2>1. c.via = "stub" /\ c.id \in DOMAIN registeredFunctions /\ Handle(f.nid, c.args)
    BY <1>2 DEF StubCall, CallFunction
  <2>2. PICK d \in Libraries : \E n \in DOMAIN stubs.at[d].imports : Asks(f, c.id, d, n)
    BY <2>1 DEF IInv, BoundAsAsked, Answers
  <2>3. PICK n \in DOMAIN stubs.at[d].imports : Asks(f, c.id, d, n)
    BY <2>2
  <2>4. <<d, n>> \in Imports /\ ImportAt(<<d, n>>) = stubs.at[d].imports[n]
    BY DEF Imports, ImportAt
  <2>5. f.nid = ImportAt(<<d, n>>).nid /\ ImportAt(<<d, n>>).addr = c.id
    BY <2>3, <2>4 DEF Asks
  <2>6. f.nid \in NamesOf(c)
    BY <2>1, <2>4, <2>5 DEF NamesOf
  <2> QED BY <2>1, <2>6
<1> QED BY <1>1, <1>2

LEMMA GuestCallHost ==
  ASSUME elf \in Elf, IInv, SpaceInv, HostInv, GuestCall
  PROVE  HostInv'
<1>1. /\ stage = "running" /\ stage' \in {"running"} \cup Ended
      /\ elf' = elf /\ pages' = pages
  BY GuestStage DEF layoutVars
<1>2. image' = image
  <2>1. SpaceType
    BY DEF SpaceInv
  <2> QED BY <2>1, GuestCallEffects DEF Unknown, spaceVars, kernel, Effects
<1>3. stubs' = stubs
  BY DEF GuestCall, SystemCall, StubCall, ExecuteSyscall, CallFunction, walk
<1>4. PagesKept' /\ RegionKept' /\ ImageKept'
  <2>1. SectionCells' = SectionCells /\ (Ordinary' <=> Ordinary)
    BY <1>1, OrdinaryElf
  <2> QED BY <1>1, <1>2, <2>1
          DEF HostInv, PagesKept, RegionKept, ImageKept, Ended, InMain
<1>5. HostSurvives'
  <2> SUFFICES ASSUME Ordinary, KnownSizes, BelowArena, WellBehaved PROVE stage' # "undefined"
    BY <1>1, <1>2, <1>3, OrdinaryElf, SameNeeds DEF HostSurvives, BelowArena
  <2>1. OwnObjects \subseteq DOMAIN mem
    <3>1. SectionCells \subseteq DOMAIN image
      BY <1>1 DEF HostInv, ImageKept, InMain
    <3>2. DOMAIN mem = DOMAIN image \cup StackRegion \cup ArenaCells
      BY <1>1 DEF SpaceInv, MappedCells, InMain
    <3>3. OwnObjects = SectionCells \cup StackRegion
      BY DEF OwnObjects, SectionCells
    <3> QED BY <3>1, <3>2, <3>3
  <2>2. PICK c \in elf.calls : SystemCall(c) \/ StubCall(c)
    BY DEF GuestCall
  <2>3. c \in Call /\ c.args \in [Arguments -> Nat]
    <3>1. c \in Call
      BY StartupAssumption
    <3> QED BY <3>1 DEF Call
  <2>4. CASE Unknown
    BY <2>4 DEF Unknown
  <2>5. CASE ~Unknown
    <3>1. PICK name \in NamesOf(c) : Handle(name, c.args)
      BY <2>2, <2>3, <2>5, NameOfCall
    <3>2. Outputs([name |-> name, args |-> c.args]) \cup Inputs([name |-> name, args |-> c.args])
            \subseteq DOMAIN mem
      BY <2>1, <3>1 DEF WellBehaved
    <3>3. SpaceType
      BY DEF SpaceInv
    <3> QED BY <1>1, <2>3, <3>1, <3>2, <3>3, HandleSafe
  <2> QED BY <2>4, <2>5
<1> QED BY <1>4, <1>5 DEF HostInv

-----------------------------------------------------------------------------
(* The steps of main() keep the image. *)
LEMMA BootMainHost ==
  ASSUME elf \in Elf, HostInv, BootMain
  PROVE  HostInv'
<1>1. elf' = elf /\ pages' = pages /\ stage' \in InMain
  BY DEF BootMain, MainBoot, MapStack, WriteArguments, MapTls, WritePath, InMain, layoutVars
<1>2. CASE stage = "loaded"
  <2>1. image' = mem
    BY <1>2 DEF BootMain, MainBoot, MapStack, WriteArguments, MapTls, WritePath
  <2>2. Ordinary => SectionCells \subseteq DOMAIN mem
    BY <1>2, CoveredSections DEF HostInv, RegionKept
  <2> QED BY <1>1, <2>1, <2>2, OrdinaryElf
          DEF HostInv, PagesKept, RegionKept, ImageKept, HostSurvives, InMain
<1>3. CASE stage # "loaded"
  <2>1. image' = image /\ stage \in InMain
    BY <1>3 DEF BootMain, MainBoot, MapStack, WriteArguments, MapTls, WritePath, InMain,
                kernel, spaceVars
  <2> QED BY <1>1, <2>1, OrdinaryElf
          DEF HostInv, PagesKept, RegionKept, ImageKept, HostSurvives, InMain
<1> QED BY <1>2, <1>3

(* Steps that leave memory, the executable and its image alone. *)
LEMMA QuietHost ==
  ASSUME elf \in Elf, HostInv, UNCHANGED <<elf, pages, mem, image, stubs>>,
         stage' = stage \/ stage' \in {"layout", "exit"}
  PROVE  HostInv'
<1>1. CASE stage' \in {"layout", "exit"}
  BY <1>1, SafeStep DEF InMain
<1>2. CASE stage' = stage
  <2>1. PagesKept' /\ RegionKept' /\ ImageKept'
    <3>1. Keys' = Keys
      BY SameElf
    <3> QED BY <1>2, <3>1, OrdinaryElf DEF HostInv, PagesKept, RegionKept, ImageKept
  <2>2. HostSurvives'
    BY <1>2, OrdinaryElf, SameNeeds DEF HostInv, HostSurvives, BelowArena
  <2> QED BY <2>1, <2>2 DEF HostInv
<1> QED BY <1>1, <1>2

(* The walk ends the loading early only at a 64-bit library, or at a header    *)
(* that cannot be read, which no readable table has.                          *)
LEMMA WalkExitsHost ==
  ASSUME elf \in Elf, IInv, TableKept, HostInv, WalkExits
  PROVE  HostInv'
<1>1. elf' = elf /\ UNCHANGED <<pages, mem, image, stubs>>
  BY DEF WalkExits, Ppu64Exit, HeaderUnmapped, layoutVars, spaceVars, kernel, walk
<1>2. CASE stage' = "exit"
  BY <1>1, <1>2, QuietHost
<1>3. CASE stage' # "exit"
  <2>1. HeaderUnmapped /\ stage' = "undefined"
    BY <1>3 DEF WalkExits
  <2>2. ~Readable(elf.table)
    BY <2>1, HeadersRead, StubsReadable
  <2>3. Readable(elf'.table) <=> Readable(elf.table)
    BY <1>1
  <2>4. HostSurvives'
    BY <2>2, <2>3 DEF HostSurvives
  <2>5. PagesKept' /\ RegionKept' /\ ImageKept'
    BY <2>1 DEF PagesKept, RegionKept, ImageKept, InMain
  <2> QED BY <2>4, <2>5 DEF HostInv
<1> QED BY <1>2, <1>3

LEMMA StepHost ==
  ASSUME elf \in Elf, IInv, TableKept, SpaceInv, LoadInv, HostInv, [StartupNext]_startupVars
  PROVE  HostInv'
<1>1. CASE WalkExits
  BY <1>1, WalkExitsHost
<1>2. CASE Register \/ OpenFile \/ WalkTable \/ UNCHANGED startupVars
  <2>1. /\ UNCHANGED <<elf, pages, mem, image, stubs>>
        /\ stage' = stage \/ stage' \in {"layout", "exit"}
    BY <1>2 DEF Register, OpenFile, WalkTable, AddModule, RegisterSyscall, RegisterPPUFunction,
                NextDescriptor, startupVars, layoutVars, spaceVars, kernel, vars, walk
  <2> QED BY <2>1, QuietHost
<1>3. CASE Load \/ BeginTable \/ FinishTable \/ FinishLoading
  <2>1. LayoutNext
    BY <1>3 DEF Load, BeginTable, FinishTable, FinishLoading, LayoutNext
  <2> QED BY <2>1, LayoutNextHost
<1>4. CASE BootMain
  BY <1>4, BootMainHost
<1>5. CASE GuestCall
  BY <1>5, GuestCallHost
<1> QED BY <1>1, <1>2, <1>3, <1>4, <1>5 DEF StartupNext, Loading

LEMMA HostInvariant == StartupSpec => []HostInv
<1>1. StartupInit => HostInv
  BY DEF StartupInit, HostInv, PagesKept, RegionKept, ImageKept, HostSurvives, InMain
<1>2. elf \in Elf /\ IInv /\ TableKept /\ SpaceInv /\ LoadInv /\ HostInv
        /\ [StartupNext]_startupVars => HostInv'
  BY StepHost
<1> QED BY <1>1, <1>2, ElfAlways, TableAlways, ImplementsHLE, Invariant, SpaceInvariant,
           LoadInvariant, PTL DEF StartupSpec

(* For every ordinary executable, every import table of the two sizes whose   *)
(* headers can be read, and every sequence of calls with pointers to its own  *)
(* objects, no translation that the loader or a handler dereferences is null. *)
THEOREM HostCorrect == StartupSpec => []HostSurvives
<1>1. HostInv => HostSurvives
  BY DEF HostInv
<1> QED BY <1>1, HostInvariant, PTL

-----------------------------------------------------------------------------
(* How far HLE and the process have come, and what memory is a function of. *)
PhaseOf(s) ==
  CASE s \in {"boot", "layout", "map", "sections"} -> {"boot"}
    [] s = "segments" -> {"boot", "run"}
    [] s = "walk" -> {"walk"}
    [] s \in {"loaded"} \cup InMain -> {"run"}
    [] OTHER -> {"boot", "walk", "run", "exit", "undefined"}
AllStages == {"boot", "loaded"} \cup InMain \cup LoadStages \cup Ended
TypeInv ==
  /\ stage \in AllStages /\ phase \in PhaseOf(stage)
  /\ pages \subseteq Nat /\ (stage = "map" => pages # {})
  /\ DOMAIN mem \subseteq Nat

LEMMA ExtentInNat ==
  ASSUME NEW a \in Nat, NEW z \in Nat
  PROVE  Extent(a, z) \subseteq Nat
<1>1. PageStart(a) \in Nat /\ RoundUp(z) \in Nat
  BY PageStartIs, RoundUpIs
<1> QED BY <1>1 DEF Extent

LEMMA MmapInNat ==
  ASSUME NEW memory, DOMAIN memory \subseteq Nat, NEW a \in Nat, NEW z \in Nat
  PROVE  DOMAIN Mmap(memory, a, z) \subseteq Nat
BY ExtentInNat DEF Mmap

LEMMA LayoutTypeInv ==
  ASSUME elf \in Elf, PagesKept, TypeInv, LayoutNext, phase' \in PhaseOf(stage')
  PROVE  TypeInv'
<1>1. stage' \in AllStages
  BY DEF LayoutNext, Layout, Map, LoadSection, EndSections, LoadSegment, SkipSegment, ReadTable,
         EndTable, EndSegments, Store, AllStages, LoadStages, Ended, TypeInv
<1>2. pages' \subseteq Nat /\ (stage' = "map" => pages' # {})
  <2>1. CASE Layout
    BY <2>1, KeysFinite DEF Layout
  <2>2. CASE Map
    BY <2>2 DEF Map, TypeInv
  <2>3. CASE LayoutNext /\ ~Layout /\ ~Map
    BY <2>3 DEF LayoutNext, LoadSection, EndSections, LoadSegment, SkipSegment, ReadTable,
                EndTable, EndSegments, Store, AtSegment, TypeInv
  <2> QED BY <2>1, <2>2, <2>3
<1>3. DOMAIN mem' \subseteq Nat
  <2>1. CASE Map
    <3> DEFINE start == FirstKey * PageSize
               size == Cardinality(pages) * PageSize
    <3>1. FirstKey \in Nat /\ PageSize \in Nat
      BY <2>1, FirstKeyIs, PageAssumption DEF Map, TypeInv
    <3>2. start \in Nat
      BY <3>1
    <3>3. size \in Nat
      <4>1. pages = Keys
        BY <2>1 DEF Map, PagesKept
      <4> QED BY <3>1, <4>1, KeysFinite
    <3>4. mem' = Mmap(mem, start, size)
      BY <2>1 DEF Map
    <3> HIDE DEF start, size
    <3> QED BY <3>2, <3>3, <3>4, MmapInNat DEF TypeInv
  <2>2. CASE ~Map
    <3>1. mem' = mem \/ \E bytes : mem' = Poke(mem, bytes)
      BY <2>2 DEF LayoutNext, Layout, LoadSection, EndSections, LoadSegment, SkipSegment,
                  ReadTable, EndTable, EndSegments, Store
    <3> QED BY <3>1 DEF Poke, TypeInv
  <2> QED BY <2>1, <2>2
<1> QED BY <1>1, <1>2, <1>3 DEF TypeInv

LEMMA BootMainTypeInv ==
  ASSUME TypeInv, BootMain
  PROVE  TypeInv'
<1>1. stage' \in InMain /\ stage \in {"loaded"} \cup InMain /\ pages' = pages /\ phase' = phase
  BY DEF BootMain, MainBoot, MapStack, WriteArguments, MapTls, WritePath, InMain, layoutVars, vars
<1>2. stage' \in AllStages /\ phase' \in PhaseOf(stage') /\ stage' # "map"
  BY <1>1 DEF TypeInv, PhaseOf, AllStages, InMain
<1>3. DOMAIN mem' \subseteq Nat
  <2>1. {StackStart, StackLength, TlsStart, TlsLength} \subseteq Nat
    BY NumbersAreNat DEF Numbers
  <2>2. CASE MapStack
    BY <2>1, <2>2, MmapInNat DEF MapStack, TypeInv
  <2>3. CASE MapTls
    BY <2>1, <2>3, MmapInNat DEF MapTls, TypeInv
  <2>4. CASE WriteArguments \/ WritePath
    BY <2>4 DEF WriteArguments, WritePath, Poke, TypeInv
  <2> QED BY <2>2, <2>3, <2>4 DEF BootMain, MainBoot
<1> QED BY <1>1, <1>2, <1>3 DEF TypeInv

LEMMA GuestCallTypeInv ==
  ASSUME elf \in Elf, SpaceInv, TypeInv, GuestCall
  PROVE  TypeInv'
<1>1. stage = "running" /\ stage' \in {"running"} \cup Ended /\ pages' = pages
  BY GuestStage DEF layoutVars
<1>2. phase = "run" /\ phase' = "run"
  <2>1. phase = "run"
    BY DEF GuestCall, SystemCall, StubCall, ExecuteSyscall, CallFunction
  <2> QED BY <2>1 DEF GuestCall, SystemCall, StubCall, ExecuteSyscall, CallFunction
<1>3. stage' \in AllStages /\ phase' \in PhaseOf(stage') /\ stage' # "map"
  BY <1>1, <1>2 DEF PhaseOf, AllStages, InMain, LoadStages, Ended
<1>4. DOMAIN mem' \subseteq Nat
  <2>1. SpaceType
    BY DEF SpaceInv
  <2>2. CASE Unknown
    BY <2>2 DEF Unknown, TypeInv
  <2>3. ASSUME NEW args \in [Arguments -> Nat], Effects(args)
        PROVE  DOMAIN mem' \subseteq Nat
    <3>1. CASE Pokes \/ Ends
      BY <3>1 DEF Pokes, Ends, TypeInv
    <3>2. CASE Allocates(args)
      <4> DEFINE poked == Poke(mem, Words(args[3], 1, ArenaStart))
      <4>1. DOMAIN poked \subseteq Nat
        BY DEF Poke, TypeInv
      <4>2. mem' = Mmap(poked, ArenaStart, Arena(args[1]))
        BY <3>2 DEF Allocates
      <4>3. ArenaStart \in Nat /\ Arena(args[1]) \in Nat
        <5>1. args[1] \in Nat /\ ArenaStart \in Nat
          BY NumbersAreNat DEF Numbers, Arguments
        <5>2. ArenaStart + args[1] \in Nat
          BY <5>1
        <5>3. RoundUp(ArenaStart + args[1]) \in Nat /\ ArenaStart + args[1] <= RoundUp(ArenaStart + args[1])
          BY <5>2, RoundUpIs
        <5> QED BY <5>1, <5>3 DEF Arena
      <4> HIDE DEF poked
      <4> QED BY <4>1, <4>2, <4>3, MmapInNat
    <3> QED BY <2>3, <3>1, <3>2 DEF Effects
  <2> QED BY <2>1, <2>2, <2>3, GuestCallEffects
<1> QED BY <1>1, <1>3, <1>4 DEF TypeInv

LEMMA StepTypeInv ==
  ASSUME elf \in Elf, SpaceInv, HostInv, TypeInv, [StartupNext]_startupVars
  PROVE  TypeInv'
<1>1. CASE Load
  <2>1. LayoutNext /\ phase' = phase /\ stage # "walk"
    BY <1>1 DEF Load, LayoutNext, vars, Layout, Map, LoadSection, EndSections, LoadSegment,
                SkipSegment, AtSegment
  <2>2. phase' \in PhaseOf(stage')
    BY <1>1, <2>1 DEF Load, Layout, Map, LoadSection, EndSections, LoadSegment, SkipSegment,
                      AtSegment, Store, TypeInv, PhaseOf, InMain
  <2> QED BY <2>1, <2>2, LayoutTypeInv DEF HostInv
<1>2. CASE BeginTable
  <2>1. LayoutNext /\ stage' \in {"walk", "exit", "undefined"}
    BY <1>2 DEF BeginTable, LayoutNext, ReadTable
  <2>2. phase' \in PhaseOf(stage')
    <3>1. CASE stage' = "walk"
      BY <1>2, <3>1 DEF BeginTable, StartWalk, PhaseOf, InMain
    <3>2. CASE stage' # "walk"
      <4>1. phase' = phase /\ stage = "segments"
        BY <1>2, <3>2 DEF BeginTable, vars, ReadTable, AtSegment
      <4> QED BY <2>1, <3>2, <4>1 DEF TypeInv, PhaseOf, InMain
    <3> QED BY <3>1, <3>2
  <2> QED BY <2>1, <2>2, LayoutTypeInv DEF HostInv
<1>3. CASE FinishTable
  <2>1. LayoutNext /\ phase' = "run" /\ stage' = "segments"
    BY <1>3 DEF FinishTable, LayoutNext, EndTable, EndWalk
  <2> QED BY <2>1, LayoutTypeInv DEF HostInv, PhaseOf
<1>4. CASE FinishLoading
  <2>1. LayoutNext /\ stage' \in {"loaded", "undefined"} /\ stage = "segments"
    BY <1>4 DEF FinishLoading, LayoutNext, EndSegments
  <2>2. phase' = "run"
    BY <1>4, <2>1 DEF FinishLoading, NoTable, vars, TypeInv, PhaseOf
  <2>3. phase' \in PhaseOf(stage')
    BY <2>1, <2>2 DEF PhaseOf, InMain
  <2> QED BY <2>1, <2>3, LayoutTypeInv DEF HostInv
<1>5. CASE Register \/ OpenFile
  <2>1. phase' = phase /\ phase = "boot" /\ stage' \in {"boot", "layout"} /\ UNCHANGED <<pages, mem>>
    BY <1>5 DEF Register, OpenFile, AddModule, RegisterSyscall, AllRegistered, vars, layoutVars
  <2>2. "boot" \in PhaseOf("boot") /\ "boot" \in PhaseOf("layout")
    BY DEF PhaseOf, InMain
  <2> QED BY <2>1, <2>2 DEF TypeInv, AllStages, LoadStages
<1>6. CASE WalkTable \/ WalkExits
  <2>1. /\ \/ phase' = phase /\ stage' = stage
           \/ phase' = "exit" /\ stage' = "exit"
           \/ phase' = "undefined" /\ stage' = "undefined"
        /\ UNCHANGED <<pages, mem>>
    BY <1>6 DEF WalkTable, WalkExits, RegisterPPUFunction, NextDescriptor, Ppu64Exit,
                HeaderUnmapped, layoutVars
  <2> QED BY <2>1 DEF TypeInv, PhaseOf, AllStages, InMain, Ended
<1>7. CASE BootMain
  BY <1>7, BootMainTypeInv
<1>8. CASE GuestCall
  BY <1>8, GuestCallTypeInv
<1>9. CASE UNCHANGED startupVars
  <2>1. UNCHANGED <<phase, stage, pages, mem>>
    BY <1>9 DEF startupVars, vars, layoutVars
  <2> QED BY <2>1 DEF TypeInv
<1> QED BY <1>1, <1>2, <1>3, <1>4, <1>5, <1>6, <1>7, <1>8, <1>9 DEF StartupNext, Loading

(* The parts agree on how far the process has come, and their variables keep  *)
(* their types, for every executable.                                         *)
THEOREM StartupTypes == StartupSpec => []StartupTypeOK
<1>1. StartupInit => TypeInv
  <2> SUFFICES ASSUME StartupInit PROVE TypeInv
    OBVIOUS
  <2>1. stage = "boot" /\ phase = "boot" /\ pages = {} /\ DOMAIN mem = {}
    BY DEF StartupInit, LayoutInit, Init, Nowhere
  <2>2. phase \in PhaseOf("boot")
    BY <2>1 DEF PhaseOf, InMain
  <2> QED BY <2>1, <2>2 DEF TypeInv, AllStages
<1>2. elf \in Elf /\ SpaceInv /\ HostInv /\ TypeInv /\ [StartupNext]_startupVars => TypeInv'
  BY StepTypeInv
<1>3. elf \in Elf /\ IInv /\ SpaceInv /\ LoadInv /\ TypeInv => StartupTypeOK
  <2> SUFFICES ASSUME elf \in Elf, IInv, SpaceInv, LoadInv, TypeInv PROVE StartupTypeOK
    OBVIOUS
  <2>1. TypeOK /\ LayoutTypeOK
    BY DEF IInv, LayoutTypeOK, LoadInv, Counting, TypeInv
  <2>2. stage \in {"boot", "loaded", "arguments", "tls", "path", "running"} \cup LoadStages \cup Ended
    BY DEF TypeInv, AllStages, InMain
  <2>3. (stage = "walk" => phase = "walk") /\ (stage \in {"loaded", "running"} => phase = "run")
    BY DEF TypeInv, PhaseOf, InMain
  <2>4. gpr \in [Registers -> Int]
    BY DEF SpaceInv, SpaceType
  <2> QED BY <2>1, <2>2, <2>3, <2>4 DEF StartupTypeOK
<1> QED BY <1>1, <1>2, <1>3, HostInvariant, ElfAlways, ImplementsHLE, Invariant, SpaceInvariant,
           LoadInvariant, PTL DEF StartupSpec
==============================================================================
