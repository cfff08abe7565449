------------------------------ MODULE Emulator ------------------------------
(***************************************************************************)
(* The main loop of awoogaPS3.cpp and the guest threads it drives.  One    *)
(* host thread runs for ever over `threads`, a vector of Thread pointers:  *)
(* it points the processor at a thread (setThread), executes one           *)
(* instruction or one HLE handler of it, or counts its sleep down, and     *)
(* leaves the range-for with `break`.  Handlers run inside the loop body   *)
(* and may push_back onto the vector that is being iterated.               *)
(*                                                                         *)
(* Instructions are abstracted to the effects the properties tell apart;   *)
(* the guest runs an arbitrary program, one instruction per code address.  *)
(***************************************************************************)
EXTENDS Integers, Sequences

CONSTANTS
  Thread,         \* Thread objects; Bound: at most Cardinality(Thread) - 1 are created
  Main,           \* `thr`, the local of main()
  CodeAddr,       \* addresses of guest code
  Stub,           \* addresses bound by __registerPPUFunction
  Cell,           \* mapped data words
  Value,          \* their values
  Instr,          \* the instructions programs are made of
  Handler,        \* Stub -> name of the bound handler, "null" when there is none
  Ticks,          \* 333: loop iterations per microsecond of usleep
  Modulus,        \* 2^64, the values of uint64_t
  StackBase       \* 0x8000F000

VARIABLES
  code,           \* the guest program: CodeAddr -> Instr
  threads,        \* std::vector<Thread *> threads
  gen,            \* how often its storage was reallocated
  cap,            \* its capacity
  at,             \* where the loop is: "begin" (range-for start) or "visit" (body)
  it,             \* the range-for's iterator: storage generation and position
  bank,           \* PowerProcessor::bank
  thr,            \* Thread -> the fields of the object
  mem,            \* Cell -> Value
  stackTotal,     \* the static _stacksize of sys_ppu_thread_create
  fail,           \* main's flag, set and never read
  inside,         \* history: threads between lwmutex_lock and lwmutex_unlock
  nap             \* history: what each sleeping thread asked for and has waited

hostVars == <<threads, gen, cap, at, it, bank, stackTotal, fail>>
history == <<inside, nap>>
vars == <<code, hostVars, thr, mem, history>>

ASSUME EmulatorAssumption ==
  /\ Main \in Thread
  /\ CodeAddr \subseteq Nat /\ Stub \subseteq Nat /\ CodeAddr \cap Stub = {}
  /\ Ticks \in Nat \ {0} /\ StackBase \in Nat
  /\ Modulus \in Nat \ {0} /\ Modulus % 2 = 0
  /\ \A i \in Instr :
       /\ i.op \in {"b", "bl"} => i.to \in Nat
       /\ i.op = "bl" => i.arg \in [entry : Nat, stack : Nat, arg : Value \cup {0}]
       /\ i.op \in {"stw", "stwcx"} => i.value \in Value
       /\ i.op = "usleep" => i.us \in Nat

Awake == [asked |-> -1, idle |-> 0]
NoArg == [entry |-> 0, stack |-> 0, arg |-> 0]
NewThread == [pc |-> 0, lr |-> 0, r3 |-> 0, arg |-> NoArg, delay |-> 0, sp |-> 0, size |-> 0]

Init ==
  /\ code \in [CodeAddr -> Instr]
  /\ threads = <<Main>>                  \* threads.push_back(&thr)
  /\ gen = 0 /\ cap = 1
  /\ at = "begin"
  /\ it = [gen |-> 0, pos |-> 1, last |-> 1]
  /\ bank = Main
  /\ thr = [t \in Thread |-> IF t = Main THEN [NewThread EXCEPT !.sp = StackBase]
                                         ELSE NewThread]
  /\ mem \in [Cell -> Value]
  /\ stackTotal = 0
  /\ fail = FALSE
  /\ inside = {}
  /\ nap = [t \in Thread |-> Awake]

Created == {threads[k] : k \in DOMAIN threads} \ {Main}

-----------------------------------------------------------------------------
(* Outcomes of one executeInterpreterSingleStep of thread t. *)

Succeed(t, regs) == /\ thr' = [thr EXCEPT ![t] = regs]
                    /\ UNCHANGED fail

(* PowerProcessor.cpp redefines exit(n) as e(n); return ~0uLL, so where the *)
(* interpreter reads std::exit(0) it returns ~0: the loop sets its flag and  *)
(* leaves the PC where it is.                                                *)
FailReturningLR(t) == /\ fail' = TRUE
                      /\ thr' = [thr EXCEPT ![t].pc = thr[t].lr]
Fail(t) == fail' = TRUE /\ UNCHANGED thr

-----------------------------------------------------------------------------
(* Instructions. *)

Next4(t) == [thr[t] EXCEPT !.pc = @ + 1]
Code(t) == code[thr[t].pc]
NoCreate == UNCHANGED <<threads, gen, cap, stackTotal>>

(* An undecodable word, an unknown system call, a fetch outside memory. *)
BadInstruction(t) ==
  /\ \/ thr[t].pc \notin CodeAddr \cup Stub
     \/ thr[t].pc \in CodeAddr /\ Code(t).op = "bad"
  /\ Fail(t)
  /\ NoCreate
  /\ UNCHANGED <<mem, inside>>

(* b / bl: the abstraction of bl also loads the argument registers. *)
Branch(t) ==
  /\ thr[t].pc \in CodeAddr /\ Code(t).op = "b"
  /\ Succeed(t, [thr[t] EXCEPT !.pc = Code(t).to])
  /\ NoCreate
  /\ UNCHANGED <<mem, inside>>

BranchLink(t) ==
  /\ thr[t].pc \in CodeAddr /\ Code(t).op = "bl"
  /\ Succeed(t, [thr[t] EXCEPT !.pc = Code(t).to, !.lr = thr[t].pc + 1, !.arg = Code(t).arg])
  /\ NoCreate
  /\ UNCHANGED <<mem, inside>>

(* lwarx: a plain load. *)
LoadReserve(t) ==
  /\ thr[t].pc \in CodeAddr /\ Code(t).op = "lwarx"
  /\ LET c == Code(t).cell IN
       \/ c \in Cell /\ Succeed(t, [Next4(t) EXCEPT !.r3 = mem[c]])
       \/ c \notin Cell /\ Fail(t)
  /\ NoCreate
  /\ UNCHANGED <<mem, inside>>

Store(t) ==
  /\ thr[t].pc \in CodeAddr /\ Code(t).op = "stw"
  /\ LET c == Code(t).cell IN
       \/ /\ c \in Cell
          /\ mem' = [mem EXCEPT ![c] = Code(t).value]
          /\ Succeed(t, Next4(t))
       \/ c \notin Cell /\ Fail(t) /\ UNCHANGED mem
  /\ NoCreate
  /\ UNCHANGED inside

(* stwcx.: a plain store that always reports success; no reservation is kept. *)
StoreConditional(t) ==
  /\ thr[t].pc \in CodeAddr /\ Code(t).op = "stwcx"
  /\ LET c == Code(t).cell IN
       \/ /\ c \in Cell
          /\ mem' = [mem EXCEPT ![c] = Code(t).value]
          /\ Succeed(t, Next4(t))
       \/ c \notin Cell /\ Fail(t) /\ UNCHANGED mem
  /\ NoCreate
  /\ UNCHANGED inside

-----------------------------------------------------------------------------
(* System calls and HLE handlers. *)

Signed(n) == IF n % Modulus < Modulus \div 2 THEN n % Modulus
                                             ELSE (n % Modulus) - Modulus

(* sys_timer_usleep: delayDowncount = 333 * sleeptime, uint64_t into int64_t; *)
(* r3 is left as it was.                                                      *)
DelayNarrow(n) == (Ticks * n) % (Modulus \div 4)
Delay(n) == Signed(Ticks * n)

Sleep(t) ==
  /\ thr[t].pc \in CodeAddr /\ Code(t).op = "usleep"
  /\ Succeed(t, [Next4(t) EXCEPT !.delay = Delay(Code(t).us)])
  /\ nap' = [nap EXCEPT ![t] = [asked |-> Code(t).us, idle |-> 0]]
  /\ NoCreate
  /\ UNCHANGED <<mem, inside>>

(* An HLE handler runs in place of the instruction at a stub address and *)
(* control continues at LR.                                              *)
Return(t) == [thr[t] EXCEPT !.pc = thr[t].lr, !.r3 = 0]

Called(t, name) == thr[t].pc \in Stub /\ Handler[thr[t].pc] = name

(* exec is null for an import no module provides. *)
CallUnknown(t) ==
  /\ Called(t, "null")
  /\ Fail(t)
  /\ NoCreate
  /\ UNCHANGED <<mem, inside>>

(* lwmutex_create, event_queue_receive, thread_yield and the other handlers *)
(* that only report success.                                                *)
CallStubbed(t) ==
  /\ Called(t, "stubbed")
  /\ Succeed(t, Return(t))
  /\ NoCreate
  /\ UNCHANGED <<mem, inside>>

(* sys_lwmutex_lock and sys_lwmutex_unlock test and change nothing. *)
CallLock(t) ==
  /\ Called(t, "lwmutex_lock")
  /\ Succeed(t, Return(t))
  /\ inside' = inside \cup {t}
  /\ NoCreate
  /\ UNCHANGED mem

CallUnlock(t) ==
  /\ Called(t, "lwmutex_unlock")
  /\ Succeed(t, Return(t))
  /\ inside' = inside \ {t}
  /\ NoCreate
  /\ UNCHANGED mem

(* The running total of stack sizes handed out. *)
StackTotalForgotten(size) == stackTotal
StackTotal(size) == stackTotal + size

(* push_back into a full vector doubles its storage, elsewhere. *)
GrownNot == cap
Grown == 2 * cap

(* sys_ppu_thread_create: a zeroed Thread, its PC the first word of the entry *)
(* descriptor, its stack pointer above all stacks handed out before, pushed   *)
(* onto the vector main is iterating (reallocated when full).  Neither the    *)
(* thread id nor r2 and r13 are written.                                      *)
CallThreadCreate(t) ==
  /\ Called(t, "thread_create")
  /\ \E new \in Thread \ {threads[k] : k \in DOMAIN threads} :
       /\ thr' = [thr EXCEPT ![t] = Return(t),
                             ![new] = [NewThread EXCEPT
                                         !.pc = thr[t].arg.entry,
                                         !.r3 = thr[t].arg.arg,
                                         !.sp = StackBase + stackTotal + thr[t].arg.stack,
                                         !.size = thr[t].arg.stack]]
       /\ threads' = Append(threads, new)
  /\ stackTotal' = StackTotal(thr[t].arg.stack)
  /\ \/ Len(threads) = cap /\ cap' = Grown /\ gen' = gen + 1
     \/ Len(threads) < cap /\ UNCHANGED <<cap, gen>>
  /\ UNCHANGED <<fail, mem, inside>>

(* executeInterpreterSingleStep for the thread `bank` points to. *)
Execute(t) ==
  \/ Sleep(t)
  \/ /\ \/ BadInstruction(t) \/ Branch(t) \/ BranchLink(t)
        \/ LoadReserve(t) \/ Store(t) \/ StoreConditional(t)
        \/ CallUnknown(t) \/ CallStubbed(t) \/ CallLock(t) \/ CallUnlock(t)
        \/ CallThreadCreate(t)
     /\ nap' = [nap EXCEPT ![t] = Awake]

-----------------------------------------------------------------------------
(* The loop. *)

(* for (auto& i : threads): begin() and end() are taken once. *)
Begin ==
  /\ at = "begin"
  /\ it' = [gen |-> gen, pos |-> 1, last |-> Len(threads)]
  /\ at' = "visit"
  /\ UNCHANGED <<code, threads, gen, cap, bank, stackTotal, fail, thr, mem, history>>

(* The break at the end of the body. *)
LeaveToNext == IF it.pos < it.last
                 THEN it' = [it EXCEPT !.pos = @ + 1] /\ UNCHANGED at
                 ELSE at' = "begin" /\ UNCHANGED it
Leave == at' = "begin" /\ UNCHANGED it

Visited == threads[it.pos]

Run ==
  /\ at = "visit" /\ thr[Visited].delay <= 0
  /\ bank' = Visited
  /\ Execute(Visited)
  /\ Leave
  /\ UNCHANGED code

CountedDown(d) == d - 1

SkipSleeper ==
  /\ at = "visit" /\ thr[Visited].delay > 0
  /\ Leave
  /\ UNCHANGED <<code, threads, gen, cap, bank, stackTotal, fail, thr, mem, history>>
CountDown ==
  /\ at = "visit" /\ thr[Visited].delay > 0
  /\ thr' = [thr EXCEPT ![Visited].delay = CountedDown(@)]
  /\ nap' = [nap EXCEPT ![Visited].idle = @ + 1]
  /\ Leave
  /\ UNCHANGED <<code, threads, gen, cap, bank, stackTotal, fail, mem, inside>>

Next == Begin \/ Run \/ CountDown

Spec == Init /\ [][Next]_vars

(* while (true): the host keeps running the loop. *)
FairSpec == Spec /\ WF_vars(Next)

-----------------------------------------------------------------------------
(* Properties. *)

Registers == [pc : Nat, lr : Nat, r3 : Value \cup {0}, delay : Int,
              arg : [entry : Nat, stack : Nat, arg : Value \cup {0}], sp : Nat, size : Nat]

(* Type invariant; the vector never outgrows its storage. *)
TypeOK ==
  /\ code \in [CodeAddr -> Instr]
  /\ threads \in Seq(Thread) /\ threads # <<>> /\ threads[1] = Main
  /\ gen \in Nat /\ cap \in Nat /\ Len(threads) <= cap
  /\ at \in {"begin", "visit"}
  /\ it \in [gen : Nat, pos : Nat, last : Nat]
  /\ bank \in Thread
  /\ thr \in [Thread -> Registers]
  /\ mem \in [Cell -> Value]
  /\ stackTotal \in Nat /\ fail \in BOOLEAN
  /\ inside \subseteq Thread

(* A handler may push onto the vector main iterates and move its storage, but *)
(* no dereference or increment of the old iterator follows: the body ends     *)
(* with `break` and the next pass takes begin() again.                        *)
IteratorValid ==
  at = "visit" => it.gen = gen /\ it.pos \in DOMAIN threads

(* A thread the guest creates never runs: its registers, PC and sleep counter *)
(* stay what sys_ppu_thread_create made them.                                 *)
CreatedNeverRun == [][\A t \in Created : thr'[t] = thr[t]]_vars

(* sys_lwmutex_lock excludes nobody, yet at most one thread is inside. *)
MutualExclusion == \A t, u \in inside : t = u

(* Once an instruction has failed, the guest is at a standstill for good: the *)
(* same step is retried and fails again with no effect.                       *)
FailureIsFinal == [][fail => UNCHANGED <<thr, mem, threads, fail>>]_vars

(* A sleeper that asked for a representable time has waited exactly 333 loop  *)
(* iterations per microsecond when it executes again.                         *)
LongestSleep == (Modulus \div 2 - 1) \div Ticks
SleepExact ==
  \A t \in Thread :
    nap[t].asked \in 0 .. LongestSleep => nap[t].idle + thr[t].delay = Ticks * nap[t].asked

(* A sleep ends: nothing but the loop itself is needed to wake the thread.    *)
SleepEnds == (thr[Main].delay > 0) ~> (thr[Main].delay <= 0)

(* The stacks of created threads are disjoint and above main's stack pointer. *)
Stack(t) == (thr[t].sp - thr[t].size) .. (thr[t].sp - 1)
StacksDisjoint ==
  /\ \A t \in Created : \A a \in Stack(t) : a >= StackBase
  /\ \A t, u \in Created : t # u => Stack(t) \cap Stack(u) = {}
=============================================================================
