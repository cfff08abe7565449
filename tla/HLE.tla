--------------------------------- MODULE HLE ---------------------------------
(***************************************************************************)
(* How guest addresses and system call numbers come to run host code:     *)
(* the four static tables of HLE/HLE.cpp, the boot order of main(), the    *)
(* walk over the executable's import table in loadELF, and the two lookups *)
(* the interpreter makes afterwards.                                       *)
(*                                                                         *)
(* An import table is what lies between libstub_start and libstub_end: the *)
(* descriptor read at each offset the walk can come to, wherever the sizes *)
(* it reads on the way lead it.  An import is the address of its stub and  *)
(* the NID it asks for.                                                    *)
(***************************************************************************)
EXTENDS Integers, Sequences

CONSTANTS
  Module,        \* HLEImportModule objects
  Nid, Addr,     \* function ids, stub addresses
  SyscallId,     \* what the guest may leave in r11
  Exports,       \* Module -> set of Nid: HLEImportModule::function
  BootOrder,     \* the modules, in the order of __hleAddAllModulesAndRegisterSyscalls
  Syscalls,      \* ids registered by register_syscall_*_functions
  Ppu32Size,     \* sizeof(_scelibstub_ppu32): 44
  Ppu64Size,     \* sizeof(_scelibstub_ppu64): 72
  Table          \* import tables of the executables considered

VARIABLES
  phase,         \* "boot", "walk", "run", "exit" or "undefined"
  knownModules, registeredFunctions, unregisteredFunctionsList,
  registeredSyscallHandlers,
  stubs,         \* the import table, as memory holds it when the walk begins
  i,             \* loadELF's position in it, an offset
  libstubCommon, \* the descriptor header read last
  ppu32,         \* the descriptor body read last
  k,             \* functions of the descriptor already registered
  answer         \* history: what the guest's last lookup came to

tables == <<knownModules, registeredFunctions, unregisteredFunctionsList, registeredSyscallHandlers>>
walk == <<stubs, i, libstubCommon, ppu32, k>>
vars == <<phase, tables, walk, answer>>

Import == [addr : Addr, nid : Nid]
Descriptor == [size : Nat, imports : Seq(Import)]   \* structsize; nfunc and the tables
NoDescriptor == [size |-> Ppu32Size, imports |-> <<>>]
NoAnswer == [of |-> "none"]

(* What reads as a table where prxInfo is zeroed, and where the table is. *)
Empty == [end |-> 0, at |-> [o \in {0} |-> NoDescriptor]]
Zeroed == [end |-> 1, at |-> [o \in {0} |-> [size |-> 0, imports |-> <<>>]]]

(* The first header could be read, or loadELF has returned before the loop; a *)
(* descriptor begins no nearer to the one before it than that one's size.     *)
ImportTable(t) ==
  /\ t.end \in Nat /\ DOMAIN t.at \subseteq Nat /\ 0 \in DOMAIN t.at
  /\ \A d \in DOMAIN t.at : t.at[d] \in Descriptor
  /\ \A d, e \in DOMAIN t.at : d < e => d + t.at[d].size <= e

ASSUME HLEAssumption ==
  /\ BootOrder \in Seq(Module) /\ \A m \in Module : \E p \in DOMAIN BootOrder : BootOrder[p] = m
  /\ "null" \notin Module   \* an object's address is not the null pointer
  /\ Exports \in [Module -> SUBSET Nid] /\ Syscalls \subseteq SyscallId
  /\ Ppu32Size \in Nat \ {0} /\ Ppu64Size \in Nat \ {0, Ppu32Size}
  /\ {Empty, Zeroed} \subseteq Table /\ \A t \in Table : ImportTable(t)

Put(f, x, y) == [z \in DOMAIN f \cup {x} |-> IF z = x THEN y ELSE f[z]]

Init ==
  /\ phase = "boot"
  /\ knownModules = <<>> /\ registeredFunctions = [a \in {} |-> 0]
  /\ unregisteredFunctionsList = <<>> /\ registeredSyscallHandlers = [s \in {} |-> 0]
  /\ stubs = Empty
  /\ i = 0 /\ libstubCommon = NoDescriptor /\ ppu32 = NoDescriptor /\ k = 0
  /\ answer = NoAnswer

-----------------------------------------------------------------------------
(* Pointers to HLEFunction objects: into a module's own table, or to a node *)
(* of unregisteredFunctionsList.                                            *)
InModule(m, nid) == [kind |-> "module", mod |-> m, nid |-> nid]
Node(n) == [kind |-> "node", node |-> n]

(* The object a pointer designates; exec is null for a node. *)
Deref(p) == IF p.kind = "module" THEN [nid |-> p.nid, exec |-> p.mod]
                                 ELSE unregisteredFunctionsList[p.node]

(* __hleGetModuleFunction: the first module that exports the NID. *)
Exporters(nid) == {p \in DOMAIN knownModules : nid \in Exports[knownModules[p]]}
FirstExporter(nid) == knownModules[CHOOSE p \in Exporters(nid) : \A q \in Exporters(nid) : p <= q]

-----------------------------------------------------------------------------
(* Boot: all modules and system calls, then the executable. *)
LoadAtOnce == phase = "boot"
AllRegistered == phase = "boot" /\ Len(knownModules) = Len(BootOrder)
                 /\ DOMAIN registeredSyscallHandlers = Syscalls

AddModule ==
  /\ phase = "boot" /\ Len(knownModules) < Len(BootOrder)
  /\ knownModules' = Append(knownModules, BootOrder[Len(knownModules) + 1])
  /\ UNCHANGED <<phase, registeredFunctions, unregisteredFunctionsList,
                 registeredSyscallHandlers, walk, answer>>

RegisterSyscall ==
  /\ phase = "boot" /\ Len(knownModules) = Len(BootOrder)
  /\ \E s \in Syscalls \ DOMAIN registeredSyscallHandlers :
       registeredSyscallHandlers' = Put(registeredSyscallHandlers, s, "handler")
  /\ UNCHANGED <<phase, knownModules, registeredFunctions, unregisteredFunctionsList,
                 walk, answer>>

(* The header and the body of the first descriptor are read before the loop. *)
StartWalk ==
  /\ AllRegistered
  /\ phase' = "walk"
  /\ stubs' \in Table
  /\ libstubCommon' = stubs'.at[0]
  /\ ppu32' = stubs'.at[0]
  /\ UNCHANGED <<tables, i, k, answer>>

(* An executable without a PT_PROC_PRX segment imports nothing. *)
NoTable ==
  /\ AllRegistered
  /\ phase' = "run"
  /\ UNCHANGED <<tables, walk, answer>>

-----------------------------------------------------------------------------
(* The loop over the import table.  Each step of the walk uses the descriptor *)
(* the step before it has read.                                              *)
StopsEarly == phase = "walk" /\ i + Ppu32Size < stubs.end
Looping == phase = "walk" /\ i < stubs.end

(* push_back and the address of back(): list nodes never move. *)
PushUncounted(f) == [list |-> Append(unregisteredFunctionsList, f),
                     back |-> Node(Len(unregisteredFunctionsList))]
Push(f) == [list |-> Append(unregisteredFunctionsList, f),
            back |-> Node(Len(unregisteredFunctionsList) + 1)]

(* One call of __registerPPUFunction: as many as the header says, from the   *)
(* tables the body points to, and what lies behind them if they are shorter. *)
RegisterPPUFunction ==
  /\ Looping /\ libstubCommon.size = Ppu32Size
  /\ k < Len(libstubCommon.imports)
  /\ \E f \in Import :
     LET pushed == Push([nid |-> f.nid, exec |-> "null"]) IN
     /\ k + 1 \in DOMAIN ppu32.imports => f = ppu32.imports[k + 1]
     /\ \/ /\ Exporters(f.nid) = {}
           /\ unregisteredFunctionsList' = pushed.list
           /\ registeredFunctions' = Put(registeredFunctions, f.addr, pushed.back)
        \/ /\ Exporters(f.nid) # {}
           /\ registeredFunctions' =
                Put(registeredFunctions, f.addr, InModule(FirstExporter(f.nid), f.nid))
           /\ UNCHANGED unregisteredFunctionsList
  /\ k' = k + 1
  /\ UNCHANGED <<phase, knownModules, registeredSyscallHandlers, stubs, i,
                 libstubCommon, ppu32, answer>>

(* A descriptor of neither size registers nothing. *)
BodyDone ==
  /\ Looping /\ libstubCommon.size # Ppu64Size
  /\ libstubCommon.size = Ppu32Size => k = Len(libstubCommon.imports)

(* The end of the loop body re-reads the descriptor at the current position,  *)
(* its body only if the one just handled was of the 32-bit size, and the      *)
(* position advances by the size just read: not at all by a size of zero.     *)
PastZero == i + IF stubs.at[i].size = 0 THEN Ppu32Size ELSE stubs.at[i].size
Advance == i + stubs.at[i].size

NextDescriptor ==
  /\ BodyDone /\ i \in DOMAIN stubs.at
  /\ ppu32' = IF libstubCommon.size = Ppu32Size THEN stubs.at[i] ELSE ppu32
  /\ libstubCommon' = stubs.at[i]
  /\ i' = Advance
  /\ k' = 0
  /\ UNCHANGED <<phase, tables, stubs, answer>>

(* A header that cannot be read: loadELF returns before it has set            *)
(* startAddress, and main() goes on regardless.                               *)
HeaderUnmapped ==
  /\ BodyDone /\ i \notin DOMAIN stubs.at
  /\ phase' = "undefined"
  /\ UNCHANGED <<tables, walk, answer>>

(* LOG_ERROR("UNIMPLEMENTED PPC64 LIBSTUB"); std::exit(0) *)
Ppu64Exit ==
  /\ Looping /\ libstubCommon.size = Ppu64Size
  /\ phase' = "exit"
  /\ UNCHANGED <<tables, walk, answer>>

EndWalk ==
  /\ phase = "walk" /\ ~Looping
  /\ phase' = "run"
  /\ UNCHANGED <<tables, walk, answer>>

-----------------------------------------------------------------------------
(* The running guest. *)

(* sc: operator[] leaves a null handler behind for an id nobody registered. *)
Handler(s) == IF s \in DOMAIN registeredSyscallHandlers THEN registeredSyscallHandlers[s]
                                                        ELSE "null"
FoundHandler(s) == Handler(s) # "null"

ExecuteSyscall(s) ==
  /\ phase = "run"
  /\ registeredSyscallHandlers' = Put(registeredSyscallHandlers, s, Handler(s))
  /\ answer' = [of |-> "syscall", id |-> s, done |-> FoundHandler(s)]
  /\ UNCHANGED <<phase, knownModules, registeredFunctions, unregisteredFunctionsList, walk>>

(* Every instruction address is looked up before it is fetched. *)
CallFunction(a) ==
  /\ phase = "run"
  /\ a \in DOMAIN registeredFunctions
  /\ answer' = [of |-> "function", id |-> a, done |-> Deref(registeredFunctions[a]).exec # "null"]
  /\ UNCHANGED <<phase, tables, walk>>

Next ==
  \/ AddModule \/ RegisterSyscall \/ StartWalk \/ NoTable
  \/ RegisterPPUFunction \/ NextDescriptor \/ HeaderUnmapped \/ Ppu64Exit \/ EndWalk
  \/ \E s \in SyscallId : ExecuteSyscall(s)
  \/ \E a \in Addr : CallFunction(a)

Spec == Init /\ [][Next]_vars

-----------------------------------------------------------------------------
(* Properties. *)

Pointer == [kind : {"module"}, mod : Module, nid : Nid]
             \cup [kind : {"node"}, node : Nat \ {0}]

(* Type invariant; every pointer to a list node designates an existing node. *)
TypeOK ==
  /\ phase \in {"boot", "walk", "run", "exit", "undefined"}
  /\ knownModules \in Seq(Module)
  /\ unregisteredFunctionsList \in Seq([nid : Nid, exec : {"null"}])
  /\ DOMAIN registeredFunctions \subseteq Addr
  /\ \A a \in DOMAIN registeredFunctions :
       /\ registeredFunctions[a] \in Pointer
       /\ registeredFunctions[a].kind = "node" =>
            registeredFunctions[a].node \in DOMAIN unregisteredFunctionsList
  /\ DOMAIN registeredSyscallHandlers \subseteq SyscallId
  /\ stubs \in Table /\ i \in Nat /\ k \in Nat
  /\ libstubCommon \in Descriptor /\ ppu32 \in Descriptor

(* The libraries the walk can come to, their imports, and what each asks for. *)
Libraries == {d \in DOMAIN stubs.at : d < stubs.end}
Imports == UNION {{<<d, n>> : n \in DOMAIN stubs.at[d].imports} : d \in Libraries}
ImportAt(p) == stubs.at[p[1]].imports[p[2]]

(* Tables as linkers write them: descriptors of the two sizes there are. *)
KnownSizes == \A d \in Libraries : stubs.at[d].size \in {Ppu32Size, Ppu64Size}

(* What the guest calls runs what it asked for.  A bound address runs the     *)
(* function of the module that exports its import's NID, and a null one only  *)
(* if no module of the whole emulator does, whichever other imports were      *)
(* bound since; a system call succeeds exactly when a handler was registered  *)
(* at boot, however often unregistered ids were tried before.                 *)
RunsAsAsked ==
  /\ \A a \in DOMAIN registeredFunctions :
       LET f == Deref(registeredFunctions[a]) IN
       /\ IF f.exec = "null" THEN \A m \in Module : f.nid \notin Exports[m]
                             ELSE f.nid \in Exports[f.exec]
       /\ KnownSizes => \E p \in Imports : ImportAt(p).addr = a /\ f.nid = ImportAt(p).nid
  /\ answer.of = "syscall" => (answer.done <=> answer.id \in Syscalls)

(* The guest runs with the imports of every library but the last one bound. *)
IsLastLibrary(d) == d + stubs.at[d].size >= stubs.end
AllButLastBound ==
  phase = "run" /\ KnownSizes =>
    \A p \in Imports : ~IsLastLibrary(p[1]) => ImportAt(p).addr \in DOMAIN registeredFunctions

(* The loop never gets past a descriptor of size zero, nor drops out of the   *)
(* table behind it: a guest only runs if the walk has met none.               *)
ZeroSizeNeverPassed == phase = "run" => \A d \in Libraries : stubs.at[d].size # 0

(* What the log announces for each library of the table, "Attempting to       *)
(* register module %s with functions and variables..": its functions are      *)
(* bound when the guest starts.                                               *)
EveryLibraryRegistered ==
  phase = "run" /\ KnownSizes =>
    \A p \in Imports : ImportAt(p).addr \in DOMAIN registeredFunctions
==============================================================================
