----------------------------- MODULE AddressSpace -----------------------------
(***************************************************************************)
(* The guest's address space after loadELF: what main() maps and writes    *)
(* there before the first instruction, and the HLE handlers that map more  *)
(* of it, hand out parts of it or write results into it, with the way      *)
(* PPUWrapper passes them their arguments.                                 *)
(***************************************************************************)
EXTENDS Process, Sequences

CONSTANTS
  StackStart, StackLength,  \* 0x80000000, 0x4000000: what main() maps for stacks
  SP,                       \* 0x8000F000: main's r1, and where created stacks begin
  ArgV, EnvP,               \* 0x8000F800, 0x8000F808: one pointer each
  Path, PathLength,         \* 0x8000FF00: the path of the executable
  TlsStart, TlsLength,      \* 0x81000000, 0x10000
  ArenaStart,               \* 0x20000000: what sys_memory_allocate hands out
  UserMemory,               \* 0x10000000: what sys_memory_get_user_memory_size reports
  Label,                    \* 0x2F000000: what cellGcmGetLabelAddress returns
  LwMutexLength,            \* sizeof(sys_lwmutex_t)
  ContentLength, UsrDirLength, \* of the paths of cellGameContentPermit
  TimebaseFrequency,        \* 0x2000000
  MaxStacks                 \* Bound: threads created

VARIABLES
  gpr,        \* PowerProcessor's general registers of the main thread
  calledOnce, \* the static of sys_memory_allocate
  stackTotal, \* the static _stacksize of sys_ppu_thread_create
  image,      \* history: memory as loadELF left it
  stacks,     \* history: of the threads created, [top, size]
  granted,    \* history: the size of the arena the guest was told of, or -1
  called      \* history: the handler that ran last, with its arguments

kernel == <<calledOnce, stackTotal, image, stacks, granted>>
spaceVars == <<gpr, kernel, called>>

TlsPointer == TlsStart + TlsLength - 1
Text == -2   \* a character of a path

(* main()'s mappings begin at pages; its argument block lies above its stack  *)
(* pointer in their first page; the arena is below; the label is inside it.   *)
ASSUME SpaceAssumption ==
  /\ {StackStart, StackLength, SP, ArgV, EnvP, Path, PathLength, TlsStart, TlsLength,
      ArenaStart, UserMemory, Label, LwMutexLength, ContentLength, UsrDirLength,
      TimebaseFrequency, MaxStacks} \subseteq Nat
  /\ StackStart % PageSize = 0 /\ StackLength % PageSize = 0
  /\ TlsStart % PageSize = 0 /\ TlsLength % PageSize = 0 /\ TlsLength > 0
  /\ ArenaStart % PageSize = 0 /\ UserMemory % PageSize = 0
  /\ StackStart < SP /\ SP < ArgV /\ ArgV < EnvP /\ EnvP < Path /\ PathLength > 0
  /\ Path + PathLength + 1 < TlsStart /\ TlsStart + TlsLength <= StackStart + StackLength
  /\ ArenaStart + UserMemory <= StackStart
  /\ Label \in ArenaStart .. (ArenaStart + UserMemory - 1)

NoCall == [name |-> "none", args |-> <<>>]
Registers == 1 .. 13

SpaceInit ==
  /\ gpr = [r \in Registers |-> 0]
  /\ calledOnce = FALSE /\ stackTotal = 0 /\ image = Nowhere
  /\ stacks = <<>> /\ granted = -1 /\ called = NoCall

-----------------------------------------------------------------------------
(* main() after loadELF, statement by statement as far as they map or write. *)

MapStack ==
  /\ stage = "loaded"
  /\ mem' = Mmap(mem, StackStart, StackLength)
  /\ gpr' = [gpr EXCEPT ![1] = SP]
  /\ image' = mem
  /\ stage' = "arguments"
  /\ UNCHANGED <<calledOnce, stackTotal, stacks, granted, called>>

(* argc and argv, envc and envp: the one environment string begins one byte   *)
(* behind the path, in zeroed memory.                                         *)
InsidePath == Path + PathLength - 1
EnvString == Path + PathLength + 1

WriteArguments ==
  /\ stage = "arguments"
  /\ gpr' = [gpr EXCEPT ![3] = 1, ![4] = ArgV, ![5] = EnvP, ![6] = 1]
  /\ mem' = Poke(mem, [a \in {ArgV, EnvP} |-> IF a = ArgV THEN Path ELSE EnvString])
  /\ stage' = "tls"
  /\ UNCHANGED <<kernel, called>>

(* The result of mmap, a refusal, is not looked at. *)
MapTls ==
  /\ stage = "tls"
  /\ mem' = Mmap(mem, TlsStart, TlsLength)
  /\ gpr' = [gpr EXCEPT ![13] = TlsPointer]
  /\ stage' = "path"
  /\ UNCHANGED <<kernel, called>>

PathCells == Path .. (Path + PathLength - 1)
WritePath ==
  /\ stage = "path"
  /\ mem' = Poke(mem, [a \in PathCells |-> Text])
  /\ stage' = "running"
  /\ UNCHANGED spaceVars

MainBoot == MapStack \/ WriteArguments \/ MapTls \/ WritePath

-----------------------------------------------------------------------------
(* PPUWrapper: argument n is r(2 + n) as it is, or, for a _ptr, its           *)
(* translation, which is null when the page is not mapped.                    *)
ArgNext(r, n) == r[3 + n]
Arg(r, n) == r[2 + n]

(* The registers of a guest that has put its arguments in place: r3 to r10, *)
(* none on the stack.                                                       *)
Arguments == 1 .. 8
Loaded(args) == [r \in Registers |-> IF r - 2 \in Arguments THEN args[r - 2] ELSE gpr[r]]

Returns(r, x) == gpr' = [r EXCEPT ![3] = x]

(* A handler reads and writes objects through translated pointers without a  *)
(* test, and returns; one null pointer ends the host.                        *)
Words(a, count, x) == [b \in a .. (a + count - 1) |-> x]
Through(r, reads, cells) ==
  \/ /\ reads \cup DOMAIN cells \subseteq DOMAIN mem
     /\ mem' = Poke(mem, cells)
     /\ Returns(r, 0)
     /\ UNCHANGED <<stage, kernel>>
  \/ /\ ~(reads \cup DOMAIN cells \subseteq DOMAIN mem)
     /\ stage' = "undefined"
     /\ UNCHANGED <<mem, gpr, kernel>>

(* sys_memory_allocate.  alloc_addr was translated before the mapping, so     *)
(* what is written there is not in a page that is mapped over; a refusal is   *)
(* only logged; the second call ends the emulator.                            *)
ArenaDown(size) == PageStart(ArenaStart + size) - ArenaStart
Arena(size) == RoundUp(ArenaStart + size) - ArenaStart
MemoryAllocate(r) ==
  \/ /\ calledOnce /\ stage' = "exit"
     /\ UNCHANGED <<mem, gpr, kernel>>
  \/ /\ ~calledOnce /\ Arg(r, 3) \notin DOMAIN mem /\ stage' = "undefined"
     /\ UNCHANGED <<mem, gpr, kernel>>
  \/ /\ ~calledOnce /\ Arg(r, 3) \in DOMAIN mem
     /\ mem' = Mmap(Poke(mem, Words(Arg(r, 3), 1, ArenaStart)), ArenaStart, Arena(Arg(r, 1)))
     /\ calledOnce' = TRUE
     /\ granted' = Arg(r, 1)
     /\ Returns(r, 0)
     /\ UNCHANGED <<stage, stackTotal, image, stacks>>

(* The one handler that tests its pointer. *)
GetUserMemorySize(r) ==
  /\ mem' = IF Arg(r, 1) \in DOMAIN mem THEN Poke(mem, Words(Arg(r, 1), 2, UserMemory)) ELSE mem
  /\ Returns(r, 0)
  /\ UNCHANGED <<stage, kernel>>

StackInformation(a) == [b \in {a, a + 1} |-> IF b = a THEN StackStart ELSE StackLength]
GetStackInformation(r) == Through(r, {}, StackInformation(Arg(r, 1)))

(* sys_ppu_thread_create reads name and entry; thread_id is not written. *)
TopFromStart(size) == StackStart + stackTotal + size
StackTop(size) == SP + stackTotal + size
ThreadCreate(r) ==
  LET size == Arg(r, 5) IN
  \/ /\ {Arg(r, 2), Arg(r, 7)} \subseteq DOMAIN mem
     /\ Len(stacks) < MaxStacks
     /\ stacks' = Append(stacks, [top |-> StackTop(size), size |-> size])
     /\ stackTotal' = stackTotal + size
     /\ Returns(r, 0)
     /\ UNCHANGED <<stage, mem, calledOnce, image, granted>>
  \/ /\ ~({Arg(r, 2), Arg(r, 7)} \subseteq DOMAIN mem)
     /\ stage' = "undefined"
     /\ UNCHANGED <<mem, gpr, kernel>>

GetThreadId(r) == Through(r, {}, Words(Arg(r, 1), 1, 1))
GetNumSpuThread(r) == Through(r, {}, Words(Arg(r, 2), 1, 1))
LwmutexCreate(r) == Through(r, {Arg(r, 2)}, Words(Arg(r, 1), LwMutexLength, Zero))
ContentPermit(r) ==
  LET info == Words(Arg(r, 1), ContentLength, Text)
      dir == Words(Arg(r, 2), UsrDirLength, Text) IN
  Through(r, {}, [a \in DOMAIN info \cup DOMAIN dir |-> Text])

(* cellFsStat and cellFsOpen format the path they are passed into the log. *)
FollowPath(r) == Through(r, {Arg(r, 1)}, Nowhere)

(* Handlers that only leave a number in r3, or not even that. *)
ReturnValue(name) ==
  CASE name = "cellGcmGetLabelAddress" -> Label
    [] name = "sys_time_get_timebase_frequency" -> TimebaseFrequency
    [] OTHER -> 0
Answer(r, name) == Returns(r, ReturnValue(name)) /\ UNCHANGED <<stage, mem, kernel>>
LeaveR3(r) == gpr' = r /\ UNCHANGED <<stage, mem, kernel>>

Silent == {"sys_timer_usleep", "sys_tty_write"}
Filesystem == {"cellFsStat", "cellFsOpen"}
Effective == {"sys_memory_allocate", "sys_memory_get_user_memory_size",
              "sys_ppu_thread_get_stack_information", "sys_ppu_thread_create",
              "sys_ppu_thread_get_id", "cellSpursGetNumSpuThread", "sys_lwmutex_create",
              "cellGameContentPermit"} \cup Filesystem

Handle(name, args) ==
  LET r == Loaded(args) IN
  /\ \/ name = "sys_memory_allocate" /\ MemoryAllocate(r)
     \/ name = "sys_memory_get_user_memory_size" /\ GetUserMemorySize(r)
     \/ name = "sys_ppu_thread_get_stack_information" /\ GetStackInformation(r)
     \/ name = "sys_ppu_thread_create" /\ ThreadCreate(r)
     \/ name = "sys_ppu_thread_get_id" /\ GetThreadId(r)
     \/ name = "cellSpursGetNumSpuThread" /\ GetNumSpuThread(r)
     \/ name = "sys_lwmutex_create" /\ LwmutexCreate(r)
     \/ name = "cellGameContentPermit" /\ ContentPermit(r)
     \/ name \in Filesystem /\ FollowPath(r)
     \/ name \in Silent /\ LeaveR3(r)
     \/ name \notin Effective \cup Silent /\ Answer(r, name)
  /\ called' = [name |-> name, args |-> args]

(* An import no module provides, a system call nobody registered: the         *)
(* instruction fails, now and whenever it is tried again.                     *)
Unknown == stage' = "stuck" /\ UNCHANGED <<mem, spaceVars>>

-----------------------------------------------------------------------------
(* Properties. *)

StackRegion == StackStart .. (StackStart + StackLength - 1)

(* The objects a call passes for the handler to write, and to read, as the    *)
(* functions it stands for document them.                                     *)
Object(a, count) == a .. (a + count - 1)
Outputs(c) ==
  CASE c.name = "sys_memory_allocate" -> Object(c.args[3], 1)
    [] c.name = "sys_memory_get_user_memory_size" -> Object(c.args[1], 2)
    [] c.name = "sys_ppu_thread_get_stack_information" -> Object(c.args[1], 2)
    [] c.name = "sys_ppu_thread_get_id" -> Object(c.args[1], 1)
    [] c.name = "cellSpursGetNumSpuThread" -> Object(c.args[2], 1)
    [] c.name = "sys_lwmutex_create" -> Object(c.args[1], LwMutexLength)
    [] c.name = "cellGameContentPermit" ->
         Object(c.args[1], ContentLength) \cup Object(c.args[2], UsrDirLength)
    [] OTHER -> {}
Inputs(c) ==
  CASE c.name = "sys_ppu_thread_create" -> {c.args[2], c.args[7]}
    [] c.name = "sys_lwmutex_create" -> {c.args[2]}
    [] c.name \in Filesystem -> {c.args[1]}
    [] OTHER -> {}

BelowArena == \A a \in DOMAIN image : a < ArenaStart

(* The guest starts with all that was loaded still in place, although three   *)
(* requests have been made of mmap since and one of them was refused; r4 and  *)
(* r5 lead to the path and to an empty string, and r1 and r13 to memory apart *)
(* from both.                                                                 *)
StartsSound ==
  stage = "running" /\ called = NoCall /\ BelowArena =>
    /\ \A a \in DOMAIN image : mem[a] = image[a]
    /\ gpr[3] = 1 /\ \A a \in Object(mem[gpr[4]], PathLength) : mem[a] = Text
    /\ gpr[6] = 1 /\ mem[mem[gpr[5]]] = Zero
    /\ {gpr[1], gpr[13]} \subseteq DOMAIN mem /\ mem[gpr[1]] = Zero /\ mem[gpr[13]] = Zero

(* No call changes memory but through the pointers it was given: a program    *)
(* that asks for no more than it was told there is loses nothing to the arena. *)
CallsKeepMemory ==
  [][stage = "running" /\ stage' = "running" /\ BelowArena
       /\ (called'.name = "sys_memory_allocate" => called'.args[1] <= UserMemory) =>
     \A a \in DOMAIN mem : a \in DOMAIN mem' /\ (mem'[a] # mem[a] => a \in Outputs(called'))
    ]_<<stage, mem, spaceVars>>

(* Whoever was told of an arena, though mmap's result is ignored, has all of  *)
(* it, and nothing else is there.                                             *)
GrantIsUsable ==
  granted \in 0 .. UserMemory /\ BelowArena =>
    Object(ArenaStart, granted) \subseteq DOMAIN mem \ (DOMAIN image \cup StackRegion)

(* The stacks of created threads lie above main's stack pointer, inside what  *)
(* sys_ppu_thread_get_stack_information reports, and short of the word r13    *)
(* points to, as long as they have room there together.                       *)
StacksApart ==
  \A s \in {stacks[n] : n \in DOMAIN stacks} : \A a \in (s.top - s.size) .. (s.top - 1) :
    /\ a >= SP
    /\ SP + stackTotal <= TlsPointer => a \in StackRegion \ {TlsPointer}
==============================================================================
