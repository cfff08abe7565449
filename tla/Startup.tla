------------------------------- MODULE Startup -------------------------------
(***************************************************************************)
(* The whole way from main() to the guest's calls: registration of modules *)
(* and system calls, loadELF with the walk over the import table in the    *)
(* middle of its loop over the segments, main()'s mappings and argument     *)
(* block, and a guest that makes any of its calls in any order, each looked *)
(* up in HLE's tables and run on the address space.                        *)
(***************************************************************************)
EXTENDS HLE, ElfLayout, AddressSpace

CONSTANT
  SyscallName   \* what is registered under each id: Syscalls -> handler name

startupVars == <<vars, stage, mem, layoutVars, spaceVars>>

(* A call of an executable: through the stub of an import, or sc with r11. *)
Call == [via : {"stub"}, id : Addr, args : [Arguments -> Nat]]
          \cup [via : {"sc"}, id : SyscallId, args : [Arguments -> Nat]]

PrxSegments(e) == {n \in DOMAIN e.segments : e.segments[n].kind = "prx"}

ASSUME StartupAssumption ==
  \A e \in Elf :
    /\ e.table \in Table /\ e.calls \subseteq Call
    /\ \A m, n \in PrxSegments(e) : m = n

StartupInit ==
  /\ LayoutInit
  /\ Init /\ SpaceInit
  /\ stage = "boot"

-----------------------------------------------------------------------------
(* __hleAddAllModulesAndRegisterSyscalls, then loadELF is called. *)
Register ==
  /\ stage = "boot"
  /\ AddModule \/ RegisterSyscall
  /\ UNCHANGED <<stage, mem, layoutVars, spaceVars>>

OpenFile ==
  /\ stage = "boot" /\ AllRegistered
  /\ stage' = "layout"
  /\ UNCHANGED <<vars, mem, layoutVars, spaceVars>>

Load ==
  /\ Layout \/ Map \/ LoadSection \/ EndSections \/ LoadSegment \/ SkipSegment
  /\ UNCHANGED <<vars, spaceVars>>

(* The PT_PROC_PRX segment: the walk is over the table as memory holds it. *)
TableRead == IF TableLinked THEN elf.table ELSE IF TableZeroed THEN Zeroed ELSE Empty

BeginTable ==
  /\ ReadTable
  /\ \/ stage' = "walk" /\ StartWalk /\ stubs' = TableRead
     \/ stage' # "walk" /\ UNCHANGED vars
  /\ UNCHANGED spaceVars

WalkTable ==
  /\ RegisterPPUFunction \/ NextDescriptor
  /\ UNCHANGED <<stage, mem, layoutVars, spaceVars>>

WalkExits ==
  /\ \/ Ppu64Exit /\ stage' = "exit"
     \/ HeaderUnmapped /\ stage' = "undefined"
  /\ UNCHANGED <<mem, layoutVars, spaceVars>>

FinishTable == EndTable /\ EndWalk /\ UNCHANGED spaceVars

FinishLoading ==
  /\ EndSegments
  /\ IF phase = "boot" THEN NoTable ELSE UNCHANGED vars
  /\ UNCHANGED spaceVars

BootMain == MainBoot /\ UNCHANGED <<vars, layoutVars>>

-----------------------------------------------------------------------------
(* The running guest: sc, or a branch to a stub. *)
SystemCall(c) ==
  /\ c.via = "sc"
  /\ ExecuteSyscall(c.id)
  /\ IF FoundHandler(c.id) THEN Handle(SyscallName[c.id], c.args) ELSE Unknown

StubCall(c) ==
  /\ c.via = "stub"
  /\ CallFunction(c.id)
  /\ LET f == Deref(registeredFunctions[c.id]) IN
       IF f.exec # "null" THEN Handle(f.nid, c.args) ELSE Unknown

GuestCall ==
  /\ stage = "running"
  /\ \E c \in elf.calls : SystemCall(c) \/ StubCall(c)
  /\ UNCHANGED layoutVars

Loading == Register \/ OpenFile \/ Load \/ BeginTable \/ WalkTable \/ WalkExits
             \/ FinishTable \/ FinishLoading \/ BootMain

StartupNext == Loading \/ GuestCall

StartupSpec == StartupInit /\ [][StartupNext]_startupVars

(* main() runs to its loop in the one host thread: nothing competes with it. *)
FairStartupSpec == StartupSpec /\ WF_startupVars(Loading)

-----------------------------------------------------------------------------
(* Properties. *)

(* Type invariant of the composition: each part's, and they agree on how far  *)
(* the process has come.                                                      *)
StartupTypeOK ==
  /\ TypeOK /\ LayoutTypeOK
  /\ stage \in {"boot", "loaded", "arguments", "tls", "path", "running"} \cup LoadStages \cup Ended
  /\ stage = "walk" => phase = "walk"
  /\ stage \in {"loaded", "running"} => phase = "run"
  /\ gpr \in [Registers -> Int]

(* Tables whose headers can all be read, and whose sizes lead somewhere.      *)
Readable(t) == \A d \in DOMAIN t.at :
                 d + t.at[d].size >= t.end \/ d + t.at[d].size \in DOMAIN t.at
Sized(t) == \A d \in DOMAIN t.at : t.at[d].size > 0


(* The guest passes pointers into its own sections and into the stack. *)
NamesOf(c) ==
  {SyscallName[id] : id \in {c.id} \cap IF c.via = "sc" THEN Syscalls ELSE {}}
    \cup {d.nid : d \in {ImportAt(p) : p \in {q \in Imports : c.via = "stub" /\ ImportAt(q).addr = c.id}}}
OwnObjects == StackRegion \cup UNION {Bytes(s) : s \in Allocated}
WellBehaved ==
  \A c \in elf.calls : \A name \in NamesOf(c) :
    LET call == [name |-> name, args |-> c.args] IN
      Outputs(call) \cup Inputs(call) \subseteq OwnObjects

(* Such a program, if ordinary and with an import table as linkers write it,   *)
(* never makes the host follow a null pointer:                                *)
(* loading writes inside the mapped region, the import table and the entry    *)
(* are read back as the linker wrote them in the middle of the copying, and   *)
(* every argument reaches its handler from the register the caller used.      *)
HostSurvives ==
  Ordinary /\ Readable(elf.table) /\ KnownSizes /\ BelowArena /\ WellBehaved =>
    stage # "undefined"
==============================================================================
