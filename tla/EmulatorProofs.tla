--------------------------- MODULE EmulatorProofs ---------------------------
(***************************************************************************)
(* Proofs about Emulator for any number of threads and any guest program.  *)
(* Everything rests on one fact: whenever the loop body runs, its iterator *)
(* is at the first element of the vector, which is the main thread.        *)
(***************************************************************************)
EXTENDS Emulator, SequenceTheorems, TLAPS

(* The loop body is only ever entered at the first element. *)
AtFirst == at = "visit" => it.pos = 1 /\ it.gen = gen

(* Only main has a mutex or a sleep. *)
OthersIdle ==
  /\ \A t \in Thread \ {Main} : nap[t] = Awake
  /\ inside \subseteq {Main}
  /\ nap \in [Thread -> [asked : Int, idle : Int]]

(* Each created stack ends at or below the total handed out so far. *)
StacksBelow ==
  \A t \in Created : StackBase + thr[t].size <= thr[t].sp
                     /\ thr[t].sp <= StackBase + stackTotal

(* The instruction main is at fails. *)
Stuck ==
  /\ thr[Main].delay <= 0
  /\ \/ thr[Main].pc \notin CodeAddr \cup Stub
     \/ Called(Main, "null")
     \/ /\ thr[Main].pc \in CodeAddr
        /\ \/ Code(Main).op = "bad"
           \/ Code(Main).op \in {"lwarx", "stw", "stwcx"} /\ Code(Main).cell \notin Cell

IInv == TypeOK /\ AtFirst /\ OthersIdle /\ StacksBelow /\ StacksDisjoint
        /\ SleepExact /\ (fail => Stuck)

-----------------------------------------------------------------------------
LEMMA NewThreadType == NewThread \in Registers
<1>1. NoArg \in [entry : Nat, stack : Nat, arg : Value \cup {0}]
  BY DEF NoArg
<1> QED
  BY <1>1 DEF NewThread, Registers

(* Each register update of the handlers keeps the record's type and, unless *)
(* it is the stack pointer that is written, the stack.                      *)
LEMMA RegisterWrites ==
  ASSUME NEW r \in Registers
  PROVE  /\ \A x \in Nat : [r EXCEPT !.sp = x] \in Registers
         /\ \A x \in Nat, y \in Nat, z \in Nat :
              /\ [r EXCEPT !.pc = x, !.sp = y, !.size = z] \in Registers
              /\ [r EXCEPT !.pc = x, !.sp = y, !.size = z].sp = y
              /\ [r EXCEPT !.pc = x, !.sp = y, !.size = z].size = z
         /\ \A x \in Nat :
              /\ [r EXCEPT !.pc = x] \in Registers
              /\ [r EXCEPT !.pc = x].sp = r.sp /\ [r EXCEPT !.pc = x].size = r.size
              /\ [r EXCEPT !.pc = x].delay = r.delay
         /\ \A x \in Value \cup {0} :
              /\ [r EXCEPT !.r3 = x] \in Registers
              /\ [r EXCEPT !.r3 = x].sp = r.sp /\ [r EXCEPT !.r3 = x].size = r.size
         /\ \A x \in Nat : \A a \in [entry : Nat, stack : Nat, arg : Value \cup {0}] : \A y \in Nat :
              /\ [r EXCEPT !.pc = x, !.lr = y, !.arg = a] \in Registers
              /\ [r EXCEPT !.pc = x, !.lr = y, !.arg = a].sp = r.sp
              /\ [r EXCEPT !.pc = x, !.lr = y, !.arg = a].size = r.size
         /\ \A x \in Nat :
              /\ [r EXCEPT !.pc = x, !.r3 = 0] \in Registers
              /\ [r EXCEPT !.pc = x, !.r3 = 0].sp = r.sp
              /\ [r EXCEPT !.pc = x, !.r3 = 0].size = r.size
         /\ \A x \in Int :
              /\ [r EXCEPT !.delay = x] \in Registers
              /\ [r EXCEPT !.delay = x].sp = r.sp /\ [r EXCEPT !.delay = x].size = r.size
              /\ [r EXCEPT !.delay = x].pc = r.pc /\ [r EXCEPT !.delay = x].delay = x
BY DEF Registers

LEMMA InitIInv == Init => IInv
<1> SUFFICES ASSUME Init PROVE IInv
  OBVIOUS
<1>1. TypeOK
  <2>1. threads \in Seq(Thread) /\ threads # <<>> /\ threads[1] = Main /\ Len(threads) = 1
    BY EmulatorAssumption DEF Init
  <2>2. NewThread \in Registers /\ [NewThread EXCEPT !.sp = StackBase] \in Registers
    BY NewThreadType, RegisterWrites, EmulatorAssumption
  <2>3. thr \in [Thread -> Registers]
    BY <2>2 DEF Init
  <2>4. it \in [gen : Nat, pos : Nat, last : Nat] /\ bank \in Thread /\ inside \subseteq Thread
    BY EmulatorAssumption DEF Init
  <2>5. code \in [CodeAddr -> Instr] /\ mem \in [Cell -> Value]
    BY DEF Init
  <2>6. /\ gen \in Nat /\ cap \in Nat /\ Len(threads) <= cap
        /\ at \in {"begin", "visit"} /\ stackTotal \in Nat
    <3>1. gen = 0 /\ cap = 1 /\ at = "begin" /\ stackTotal = 0
      BY Zenon DEF Init
    <3> QED
      BY <2>1, <3>1
  <2>7. fail \in BOOLEAN
    BY Zenon DEF Init
  <2> QED
    BY <2>1, <2>3, <2>4, <2>5, <2>6, <2>7 DEF TypeOK
<1>2. AtFirst
  BY DEF Init, AtFirst
<1>3. OthersIdle
  BY EmulatorAssumption DEF Init, OthersIdle, Awake
<1>4. Created = {}
  BY DEF Init, Created
<1>5. StacksBelow /\ StacksDisjoint
  BY <1>4 DEF StacksBelow, StacksDisjoint
<1>6. SleepExact
  BY DEF Init, SleepExact, Awake
<1> QED
  BY <1>1, <1>2, <1>3, <1>5, <1>6 DEF Init, IInv

(* The body visits main. *)
LEMMA VisitsMain ==
  ASSUME IInv, at = "visit"
  PROVE  Visited = Main
BY DEF IInv, TypeOK, AtFirst, Visited

(* Steps that create no thread: what is left to show of each of them. *)
LEMMA PlainStep ==
  ASSUME IInv, at' = "begin", UNCHANGED <<code, threads, gen, cap, it, stackTotal>>,
         bank' \in Thread, thr' \in [Thread -> Registers],
         \A t \in Thread : thr'[t].sp = thr[t].sp /\ thr'[t].size = thr[t].size,
         mem' \in [Cell -> Value], OthersIdle', SleepExact',
         fail' \in BOOLEAN, fail' => Stuck'
  PROVE  IInv'
<1>1. TypeOK'
  BY EmulatorAssumption DEF IInv, TypeOK, OthersIdle
<1>2. AtFirst'
  BY DEF AtFirst
<1>3. Created' = Created /\ Created \subseteq Thread
  BY DEF IInv, TypeOK, Created
<1>4. StacksBelow'
  BY <1>3 DEF IInv, StacksBelow
<1>5. StacksDisjoint'
  <2>1. \A t \in Created : Stack(t)' = Stack(t)
    BY <1>3 DEF Stack
  <2> QED
    BY <1>3, <2>1 DEF IInv, StacksDisjoint
<1> QED
  BY <1>1, <1>2, <1>4, <1>5 DEF IInv

(* Main executes an instruction other than usleep: its sleep, if any, is over. *)
LEMMA AwakeSleepExact ==
  ASSUME IInv, nap' = [nap EXCEPT ![Main] = Awake],
         \A t \in Thread \ {Main} : thr'[t] = thr[t]
  PROVE  SleepExact'
BY EmulatorAssumption DEF IInv, OthersIdle, SleepExact, LongestSleep, Awake

-----------------------------------------------------------------------------
(* Main executes something other than usleep and creates no thread. *)
LEMMA InstructionStep ==
  ASSUME IInv, at = "visit", bank' = Main, Leave, UNCHANGED code, NoCreate,
         nap' = [nap EXCEPT ![Main] = Awake],
         NEW regs \in Registers, thr' = [thr EXCEPT ![Main] = regs],
         regs.sp = thr[Main].sp, regs.size = thr[Main].size,
         mem' \in [Cell -> Value],
         inside' \subseteq {Main}, fail' \in BOOLEAN, fail' => Stuck'
  PROVE  IInv'
<1>1. thr \in [Thread -> Registers] /\ Main \in Thread
  BY EmulatorAssumption DEF IInv, TypeOK
<1>2. /\ thr' \in [Thread -> Registers]
      /\ \A t \in Thread \ {Main} : thr'[t] = thr[t]
      /\ \A t \in Thread : thr'[t].sp = thr[t].sp /\ thr'[t].size = thr[t].size
  BY <1>1
<1>3. SleepExact'
  BY <1>2, AwakeSleepExact
<1>4. OthersIdle'
  BY <1>1 DEF IInv, OthersIdle, Awake
<1> QED
  BY <1>1, <1>2, <1>3, <1>4, PlainStep DEF Leave, NoCreate

(* A failing instruction changes nothing but the flag, so it fails again. *)
LEMMA FailStep ==
  ASSUME IInv, at = "visit", bank' = Main, Leave, UNCHANGED code, NoCreate,
         nap' = [nap EXCEPT ![Main] = Awake],
         Fail(Main), UNCHANGED <<mem, inside>>, Stuck
  PROVE  IInv'
<1> DEFINE regs == thr[Main]
<1>1. regs \in Registers /\ thr' = [thr EXCEPT ![Main] = regs]
  BY EmulatorAssumption DEF IInv, TypeOK, Fail
<1>5. regs.sp = thr[Main].sp /\ regs.size = thr[Main].size
  OBVIOUS
<1>2. Stuck'
  BY DEF Stuck, Fail, Called, Code
<1>3. mem' \in [Cell -> Value] /\ inside' \subseteq {Main} /\ fail' \in BOOLEAN
  BY DEF IInv, TypeOK, OthersIdle, Fail
<1> HIDE DEF regs
<1> QED
  BY <1>1, <1>2, <1>3, <1>5, InstructionStep

(* An instruction that succeeds was not stuck, so nothing had failed before. *)
LEMMA SucceedStep ==
  ASSUME IInv, at = "visit", bank' = Main, Leave, UNCHANGED code, NoCreate,
         nap' = [nap EXCEPT ![Main] = Awake], ~Stuck,
         NEW regs \in Registers, Succeed(Main, regs),
         regs.sp = thr[Main].sp, regs.size = thr[Main].size,
         mem' \in [Cell -> Value],
         inside' \subseteq {Main}
  PROVE  IInv'
BY InstructionStep DEF Succeed, IInv, TypeOK

-----------------------------------------------------------------------------
(* The instructions, one lemma each: main is the thread that executes. *)
Executes == IInv /\ at = "visit" /\ bank' = Main /\ Leave /\ UNCHANGED code
            /\ thr[Main].delay <= 0 /\ nap' = [nap EXCEPT ![Main] = Awake]

LEMMA ExecutesFacts ==
  ASSUME Executes
  PROVE  /\ thr[Main] \in Registers /\ Main \in Thread
         /\ code \in [CodeAddr -> Instr] /\ mem \in [Cell -> Value]
         /\ inside \subseteq {Main}
         /\ thr[Main].pc \in CodeAddr => thr[Main].pc \in Nat /\ Code(Main) \in Instr
BY EmulatorAssumption DEF Executes, IInv, TypeOK, OthersIdle, Registers, Code

LEMMA BadInstructionStep == Executes /\ BadInstruction(Main) => IInv'
<1> SUFFICES ASSUME Executes, BadInstruction(Main) PROVE IInv'
  OBVIOUS
<1>1. Stuck
  BY DEF Executes, BadInstruction, Stuck
<1> QED
  BY <1>1, FailStep DEF Executes, BadInstruction

LEMMA CallUnknownStep == Executes /\ CallUnknown(Main) => IInv'
<1> SUFFICES ASSUME Executes, CallUnknown(Main) PROVE IInv'
  OBVIOUS
<1>1. Stuck
  BY DEF Executes, CallUnknown, Stuck
<1> QED
  BY <1>1, FailStep DEF Executes, CallUnknown

LEMMA BranchStep == Executes /\ Branch(Main) => IInv'
<1> SUFFICES ASSUME Executes, Branch(Main) PROVE IInv'
  OBVIOUS
<1> DEFINE regs == [thr[Main] EXCEPT !.pc = Code(Main).to]
<1>1. ~Stuck
  BY EmulatorAssumption DEF Branch, Stuck, Called
<1>2. Code(Main).to \in Nat
  BY ExecutesFacts, EmulatorAssumption DEF Branch
<1>3. regs \in Registers /\ regs.sp = thr[Main].sp /\ regs.size = thr[Main].size
  BY <1>2, ExecutesFacts, RegisterWrites
<1>4. Succeed(Main, regs) /\ NoCreate /\ UNCHANGED <<mem, inside>>
  BY DEF Branch
<1> HIDE DEF regs
<1> QED
  BY <1>1, <1>3, <1>4, ExecutesFacts, SucceedStep DEF Executes

LEMMA BranchLinkStep == Executes /\ BranchLink(Main) => IInv'
<1> SUFFICES ASSUME Executes, BranchLink(Main) PROVE IInv'
  OBVIOUS
<1> DEFINE regs == [thr[Main] EXCEPT !.pc = Code(Main).to, !.lr = thr[Main].pc + 1,
                                     !.arg = Code(Main).arg]
<1>1. ~Stuck
  BY EmulatorAssumption DEF BranchLink, Stuck, Called
<1>2. /\ Code(Main).to \in Nat /\ Code(Main).arg \in [entry : Nat, stack : Nat, arg : Value \cup {0}]
      /\ thr[Main].pc + 1 \in Nat
  BY ExecutesFacts, EmulatorAssumption DEF BranchLink
<1>3. regs \in Registers /\ regs.sp = thr[Main].sp /\ regs.size = thr[Main].size
  <2>1. \A x \in Nat : \A a \in [entry : Nat, stack : Nat, arg : Value \cup {0}] : \A y \in Nat :
          LET s == [thr[Main] EXCEPT !.pc = x, !.lr = y, !.arg = a] IN
          s \in Registers /\ s.sp = thr[Main].sp /\ s.size = thr[Main].size
    BY ExecutesFacts DEF Registers
  <2> QED
    BY <1>2, <2>1, Zenon
<1>4. Succeed(Main, regs) /\ NoCreate /\ UNCHANGED <<mem, inside>>
  BY DEF BranchLink
<1> HIDE DEF regs
<1> QED
  BY <1>1, <1>3, <1>4, ExecutesFacts, SucceedStep DEF Executes

LEMMA LoadReserveStep == Executes /\ LoadReserve(Main) => IInv'
<1> SUFFICES ASSUME Executes, LoadReserve(Main) PROVE IInv'
  OBVIOUS
<1> DEFINE c == Code(Main).cell
<1>1. CASE c \notin Cell
  <2>1. Stuck
    BY <1>1 DEF Executes, LoadReserve, Stuck
  <2>2. Fail(Main) /\ NoCreate /\ UNCHANGED <<mem, inside>>
    BY <1>1 DEF LoadReserve
  <2> QED
    BY <2>1, <2>2, FailStep DEF Executes
<1>2. CASE c \in Cell
  <2> DEFINE regs == [Next4(Main) EXCEPT !.r3 = mem[c]]
  <2>1. ~Stuck
    BY <1>2, EmulatorAssumption DEF LoadReserve, Stuck, Called
  <2>2. Next4(Main) \in Registers /\ Next4(Main).sp = thr[Main].sp
        /\ Next4(Main).size = thr[Main].size
    BY ExecutesFacts DEF LoadReserve, Next4, Registers
  <2>5. mem[c] \in Value \cup {0}
    BY <1>2, ExecutesFacts
  <2>3. regs \in Registers /\ regs.sp = thr[Main].sp /\ regs.size = thr[Main].size
    BY <2>2, <2>5, RegisterWrites
  <2>4. Succeed(Main, regs) /\ NoCreate /\ UNCHANGED <<mem, inside>>
    BY <1>2 DEF LoadReserve
  <2> HIDE DEF regs
  <2> QED
    BY <2>1, <2>3, <2>4, ExecutesFacts, SucceedStep DEF Executes
<1> QED
  BY <1>1, <1>2

LEMMA StoreStep == Executes /\ (Store(Main) \/ StoreConditional(Main)) => IInv'
<1> SUFFICES ASSUME Executes, Store(Main) \/ StoreConditional(Main) PROVE IInv'
  OBVIOUS
<1> DEFINE c == Code(Main).cell
<1>0. thr[Main].pc \in CodeAddr /\ Code(Main).op \in {"stw", "stwcx"}
  BY DEF Store, StoreConditional
<1>1. CASE c \notin Cell
  <2>1. Stuck
    BY <1>0, <1>1 DEF Executes, Stuck
  <2>2. Fail(Main) /\ NoCreate /\ UNCHANGED <<mem, inside>>
    BY <1>1 DEF Store, StoreConditional
  <2> QED
    BY <2>1, <2>2, FailStep DEF Executes
<1>2. CASE c \in Cell
  <2>1. ~Stuck
    BY <1>0, <1>2, EmulatorAssumption DEF Stuck, Called
  <2>2. Next4(Main) \in Registers /\ Next4(Main).sp = thr[Main].sp
        /\ Next4(Main).size = thr[Main].size
    BY <1>0, ExecutesFacts DEF Next4, Registers
  <2>3. Code(Main).value \in Value
    BY <1>0, ExecutesFacts, EmulatorAssumption
  <2>4. Succeed(Main, Next4(Main)) /\ NoCreate /\ UNCHANGED inside
        /\ mem' = [mem EXCEPT ![c] = Code(Main).value]
    BY <1>2 DEF Store, StoreConditional
  <2>5. mem' \in [Cell -> Value]
    BY <2>3, <2>4, ExecutesFacts
  <2> QED
    BY <2>1, <2>2, <2>4, <2>5, ExecutesFacts, SucceedStep DEF Executes
<1> QED
  BY <1>1, <1>2

LEMMA CallStep ==
  Executes /\ (CallStubbed(Main) \/ CallLock(Main) \/ CallUnlock(Main)) => IInv'
<1> SUFFICES ASSUME Executes, CallStubbed(Main) \/ CallLock(Main) \/ CallUnlock(Main)
             PROVE  IInv'
  OBVIOUS
<1>1. ~Stuck
  BY EmulatorAssumption DEF CallStubbed, CallLock, CallUnlock, Called, Stuck
<1>2. Return(Main) \in Registers /\ Return(Main).sp = thr[Main].sp
      /\ Return(Main).size = thr[Main].size
  <2>1. thr[Main] \in Registers
    BY ExecutesFacts
  <2>2. thr[Main].lr \in Nat
    BY <2>1 DEF Registers
  <2> QED
    BY <2>1, <2>2, RegisterWrites DEF Return
<1>3. Succeed(Main, Return(Main)) /\ NoCreate /\ UNCHANGED mem
  BY DEF CallStubbed, CallLock, CallUnlock
<1>4. inside' \subseteq {Main}
  BY ExecutesFacts DEF CallStubbed, CallLock, CallUnlock
<1> QED
  BY <1>1, <1>2, <1>3, <1>4, ExecutesFacts, SucceedStep DEF Executes

-----------------------------------------------------------------------------
(* usleep and the countdown of the sleep. *)

(* Within the representable range the sleep counter is what was asked for. *)
LEMMA DelayExact ==
  /\ \A n \in Nat : Delay(n) \in Int
  /\ \A n \in 0 .. LongestSleep : Delay(n) = Ticks * n
<1> PICK half \in Nat : Modulus = 2 * half
  BY EmulatorAssumption
<1>1. Modulus \div 2 = half /\ half > 0
  BY EmulatorAssumption
<1>2. ASSUME NEW n \in Nat PROVE Delay(n) \in Int
  <2>1. (Ticks * n) % Modulus \in Int
    BY EmulatorAssumption
  <2> QED
    BY <1>1, <2>1, EmulatorAssumption DEF Delay, Signed
<1>3. ASSUME NEW n \in 0 .. LongestSleep PROVE Delay(n) = Ticks * n
  <2>1. PICK q \in Int : q = LongestSleep /\ q * Ticks <= half - 1
    BY <1>1, EmulatorAssumption DEF LongestSleep
  <2>2. Ticks * n <= q * Ticks /\ Ticks * n \in Nat /\ q * Ticks \in Int
    <3>1. q - n \in Nat /\ Ticks \in Nat
      BY <2>1, EmulatorAssumption
    <3>2. (q - n) * Ticks \in Nat
      BY <3>1
    <3>3. (q - n) * Ticks = q * Ticks - Ticks * n
      BY <2>1, <3>1
    <3> QED
      BY <2>1, <3>1, <3>2, <3>3
  <2> DEFINE x == Ticks * n
  <2>3. x \in Nat /\ x <= half - 1
    BY <2>1, <2>2, <1>1
  <2> HIDE DEF x
  <2>4. x % Modulus = x
    BY <2>3, <1>1, EmulatorAssumption
  <2>5. Signed(x) = x
    BY <2>3, <2>4, <1>1 DEF Signed
  <2> QED
    BY <2>5 DEF Delay, x
<1> QED
  BY <1>2, <1>3

LEMMA SleepStep ==
  ASSUME IInv, at = "visit", bank' = Main, Leave, UNCHANGED code,
         thr[Main].delay <= 0, Sleep(Main)
  PROVE  IInv'
<1> DEFINE us == Code(Main).us
           regs == [Next4(Main) EXCEPT !.delay = Delay(us)]
<1>0. thr \in [Thread -> Registers] /\ Main \in Thread /\ code \in [CodeAddr -> Instr]
      /\ mem \in [Cell -> Value] /\ nap \in [Thread -> [asked : Int, idle : Int]]
      /\ thr[Main] \in Registers
  BY EmulatorAssumption DEF IInv, TypeOK, OthersIdle
<1>1. us \in Nat /\ thr[Main].pc \in Nat
  BY <1>0, EmulatorAssumption DEF Sleep, Code
<1>2. Next4(Main) \in Registers /\ Next4(Main).sp = thr[Main].sp
      /\ Next4(Main).size = thr[Main].size
  <2>1. thr[Main].pc + 1 \in Nat /\ thr[Main] \in Registers
    BY <1>0, <1>1
  <2> QED
    BY <2>1, RegisterWrites DEF Next4
<1>3. /\ regs \in Registers /\ regs.delay = Delay(us)
      /\ regs.sp = thr[Main].sp /\ regs.size = thr[Main].size
  BY <1>1, <1>2, DelayExact, RegisterWrites
<1>4. /\ Succeed(Main, regs) /\ NoCreate /\ UNCHANGED <<mem, inside>>
      /\ nap' = [nap EXCEPT ![Main] = [asked |-> us, idle |-> 0]]
  BY DEF Sleep
<1> HIDE DEF us, regs
<1>5. /\ thr' \in [Thread -> Registers] /\ thr'[Main] = regs
      /\ \A t \in Thread : thr'[t].sp = thr[t].sp /\ thr'[t].size = thr[t].size
      /\ \A t \in Thread \ {Main} : thr'[t] = thr[t]
  BY <1>0, <1>3, <1>4 DEF Succeed
<1>6. OthersIdle'
  BY <1>0, <1>1, <1>4 DEF IInv, OthersIdle
<1>7. SleepExact'
  <2>1. us \in 0 .. LongestSleep => 0 + Delay(us) = Ticks * us
    BY <1>1, DelayExact
  <2>2. nap'[Main] = [asked |-> us, idle |-> 0]
    BY <1>0, <1>4
  <2>3. \A t \in Thread \ {Main} : nap'[t] = nap[t]
    BY <1>0, <1>4
  <2> QED
    BY <1>3, <1>5, <2>1, <2>2, <2>3 DEF IInv, SleepExact, LongestSleep
<1>8. fail' \in BOOLEAN /\ (fail' => Stuck')
  <2>1. ~Stuck
    BY EmulatorAssumption DEF Sleep, Stuck, Called
  <2> QED
    BY <2>1, <1>4 DEF Succeed, IInv, TypeOK
<1> QED
  BY <1>0, <1>4, <1>5, <1>6, <1>7, <1>8, PlainStep DEF Leave, NoCreate

LEMMA CountDownStep == IInv /\ CountDown => IInv'
<1> SUFFICES ASSUME IInv, CountDown PROVE IInv'
  OBVIOUS
<1>0. /\ thr \in [Thread -> Registers] /\ Main \in Thread
      /\ nap \in [Thread -> [asked : Int, idle : Int]] /\ Visited = Main
  BY EmulatorAssumption, VisitsMain DEF IInv, TypeOK, OthersIdle, CountDown
<1> DEFINE regs == [thr[Main] EXCEPT !.delay = thr[Main].delay - 1]
<1>10. thr[Main] \in Registers /\ thr[Main].delay - 1 \in Int
  BY <1>0 DEF Registers
<1>1. /\ regs \in Registers /\ regs.delay = thr[Main].delay - 1
      /\ regs.sp = thr[Main].sp /\ regs.size = thr[Main].size
  BY <1>10, RegisterWrites
<1>2. thr' = [thr EXCEPT ![Main] = regs]
  BY <1>0 DEF CountDown, CountedDown
<1> HIDE DEF regs
<1>3. /\ thr' \in [Thread -> Registers] /\ thr'[Main] = regs
      /\ \A t \in Thread : thr'[t].sp = thr[t].sp /\ thr'[t].size = thr[t].size
      /\ \A t \in Thread \ {Main} : thr'[t] = thr[t]
  BY <1>0, <1>1, <1>2
<1>4. /\ nap' \in [Thread -> [asked : Int, idle : Int]]
      /\ nap'[Main].asked = nap[Main].asked /\ nap'[Main].idle = nap[Main].idle + 1
      /\ \A t \in Thread \ {Main} : nap'[t] = nap[t]
  BY <1>0 DEF CountDown
<1>5. OthersIdle'
  BY <1>4 DEF IInv, OthersIdle, CountDown
<1>6. SleepExact'
  <2>1. thr[Main].delay \in Int /\ nap[Main].idle \in Int
    BY <1>0 DEF Registers
  <2>2. nap'[Main].idle + thr'[Main].delay = nap[Main].idle + thr[Main].delay
    <3>1. thr'[Main].delay = thr[Main].delay - 1 /\ nap'[Main].idle = nap[Main].idle + 1
      BY <1>1, <1>3, <1>4
    <3> QED
      BY <2>1, <3>1
  <2> QED
    BY <1>3, <1>4, <2>2 DEF IInv, SleepExact, LongestSleep
<1>7. ~fail
  <2>1. ~(thr[Main].delay <= 0)
    BY <1>0 DEF CountDown, Registers
  <2> QED
    BY <2>1 DEF IInv, Stuck
<1>8. /\ UNCHANGED <<code, threads, gen, cap, it, stackTotal, bank, mem, fail>>
      /\ at' = "begin"
  BY DEF CountDown, Leave
<1>9. bank' \in Thread /\ mem' \in [Cell -> Value] /\ fail' \in BOOLEAN /\ ~fail'
  BY <1>7, <1>8 DEF IInv, TypeOK
<1> QED
  BY <1>3, <1>5, <1>6, <1>8, <1>9, PlainStep

LEMMA BeginStep == IInv /\ Begin => IInv'
<1> SUFFICES ASSUME IInv, Begin PROVE IInv'
  OBVIOUS
<1>1. Len(threads) \in Nat
  BY DEF IInv, TypeOK
<1>2. it' \in [gen : Nat, pos : Nat, last : Nat] /\ it'.pos = 1 /\ it'.gen = gen
  BY <1>1 DEF Begin, IInv, TypeOK
<1>3. UNCHANGED <<code, threads, gen, cap, bank, stackTotal, fail, thr, mem, inside, nap>>
      /\ at' = "visit"
  BY DEF Begin, history
<1>4. TypeOK'
  BY <1>2, <1>3 DEF IInv, TypeOK
<1>5. AtFirst'
  BY <1>2, <1>3 DEF AtFirst
<1>6. OthersIdle' /\ SleepExact'
  BY <1>3 DEF IInv, OthersIdle, SleepExact
<1>7. Created' = Created /\ (\A t : Stack(t)' = Stack(t))
  BY <1>3 DEF Created, Stack
<1>8. StacksBelow' /\ StacksDisjoint'
  BY <1>3, <1>7 DEF IInv, StacksBelow, StacksDisjoint
<1>9. fail' => Stuck'
  BY <1>3 DEF IInv, Stuck, Called, Code
<1> QED
  BY <1>4, <1>5, <1>6, <1>8, <1>9 DEF IInv

-----------------------------------------------------------------------------
(* Thread creation. *)
LEMMA CreateStep == Executes /\ CallThreadCreate(Main) => IInv'
<1> SUFFICES ASSUME Executes, CallThreadCreate(Main) PROVE IInv'
  OBVIOUS
<1> DEFINE entry == thr[Main].arg.entry
           stack == thr[Main].arg.stack
           arg == thr[Main].arg.arg
<1>0. /\ thr \in [Thread -> Registers] /\ Main \in Thread /\ StackBase \in Nat
      /\ threads \in Seq(Thread) /\ threads # <<>> /\ threads[1] = Main
      /\ Created \subseteq Thread /\ stackTotal \in Nat
      /\ entry \in Nat /\ stack \in Nat /\ arg \in Value \cup {0}
  <2>1. thr[Main] \in Registers
    BY ExecutesFacts
  <2>2. thr[Main].arg \in [entry : Nat, stack : Nat, arg : Value \cup {0}]
    BY <2>1 DEF Registers
  <2>3. entry \in Nat /\ stack \in Nat /\ arg \in Value \cup {0}
    BY <2>2
  <2>4. threads \in Seq(Thread) /\ threads # <<>> /\ threads[1] = Main
    BY DEF Executes, IInv, TypeOK
  <2>5. Created \subseteq Thread
    BY <2>4 DEF Created
  <2>6. thr \in [Thread -> Registers] /\ Main \in Thread /\ StackBase \in Nat /\ stackTotal \in Nat
    BY EmulatorAssumption DEF Executes, IInv, TypeOK
  <2> QED
    BY <2>3, <2>4, <2>5, <2>6
<1>1. PICK new \in Thread \ {threads[k] : k \in DOMAIN threads} :
        /\ thr' = [thr EXCEPT ![Main] = Return(Main),
                              ![new] = [NewThread EXCEPT
                                          !.pc = entry,
                                          !.r3 = arg,
                                          !.sp = StackBase + stackTotal + stack,
                                          !.size = stack]]
        /\ threads' = Append(threads, new)
  BY DEF CallThreadCreate
<1>2. /\ stackTotal' = stackTotal + stack
      /\ at' = "begin" /\ UNCHANGED <<code, it, fail, mem, inside>>
      /\ nap' = [nap EXCEPT ![Main] = Awake] /\ bank' = Main
      /\ \/ Len(threads) = cap /\ cap' = 2 * cap /\ gen' = gen + 1
         \/ Len(threads) < cap /\ UNCHANGED <<cap, gen>>
  BY DEF CallThreadCreate, Executes, Leave, StackTotal, Grown
<1> DEFINE top == StackBase + stackTotal + stack
           regs == [NewThread EXCEPT !.pc = entry, !.r3 = arg, !.sp = top, !.size = stack]
<1>3. /\ regs \in Registers /\ regs.sp = top
      /\ regs.size = stack
  <2>1. entry \in Nat /\ top \in Nat /\ stack \in Nat /\ arg \in Value \cup {0}
    BY <1>0
  <2> HIDE DEF entry, stack, arg, top
  <2> QED
    BY <2>1, NewThreadType DEF Registers
<1>4. /\ Return(Main) \in Registers /\ Return(Main).sp = thr[Main].sp
      /\ Return(Main).size = thr[Main].size
  <2>1. thr[Main] \in Registers
    BY <1>0
  <2>2. thr[Main].lr \in Nat
    BY <2>1 DEF Registers
  <2> HIDE DEF entry, stack, arg, top, regs
  <2> QED
    BY <2>1, <2>2, RegisterWrites DEF Return
<1> HIDE DEF regs, entry, stack, arg
<1>5. new # Main /\ new \notin Created
  <2>1. 1 \in DOMAIN threads
    BY <1>0
  <2> QED
    BY <1>0, <2>1 DEF Created
<1>6. /\ thr' \in [Thread -> Registers] /\ thr'[new] = regs
      /\ \A t \in Thread \ {new} : thr'[t].sp = thr[t].sp /\ thr'[t].size = thr[t].size
  BY <1>0, <1>1, <1>3, <1>4, <1>5 DEF regs
<1>7. /\ threads' \in Seq(Thread) /\ threads' # <<>> /\ threads'[1] = Main
      /\ Len(threads') = Len(threads) + 1 /\ Len(threads) \in Nat
      /\ \A k \in DOMAIN threads' : threads'[k] = new \/ \E j \in DOMAIN threads : threads'[k] = threads[j]
  BY <1>0, <1>1
<1>8. Created' \subseteq Created \cup {new}
  BY <1>7 DEF Created
<1>9. TypeOK'
  <2>1. gen' \in Nat /\ cap' \in Nat /\ Len(threads') <= cap'
    <3>1. gen \in Nat /\ cap \in Nat /\ Len(threads) <= cap /\ 1 <= Len(threads)
      BY <1>0, <1>7 DEF Executes, IInv, TypeOK
    <3> QED
      BY <1>2, <1>7, <3>1
  <2> QED
    BY <1>0, <1>2, <1>6, <1>7, <2>1 DEF Executes, IInv, TypeOK
<1>10. StacksBelow'
  <2>1. ASSUME NEW t \in Created
        PROVE  /\ StackBase + thr'[t].size <= thr'[t].sp
               /\ thr'[t].sp <= StackBase + stackTotal'
    <3>1. thr'[t].sp = thr[t].sp /\ thr'[t].size = thr[t].size /\ thr[t].sp \in Nat
      BY <1>0, <1>5, <1>6, <2>1 DEF Registers
    <3> QED
      BY <1>0, <1>2, <2>1, <3>1 DEF Executes, IInv, StacksBelow
  <2>2. /\ StackBase + thr'[new].size <= thr'[new].sp
        /\ thr'[new].sp <= StackBase + stackTotal'
    BY <1>0, <1>2, <1>3, <1>6
  <2> QED
    BY <1>8, <2>1, <2>2 DEF StacksBelow
<1>11. StacksDisjoint'
  <2>1. \A t \in Created : Stack(t)' = Stack(t)
    BY <1>0, <1>5, <1>6 DEF Stack
  <2>2. Stack(new)' = (StackBase + stackTotal) .. (StackBase + stackTotal + stack - 1)
    BY <1>0, <1>3, <1>6 DEF Stack
  <2>3. \A t \in Created : \A a \in Stack(t) : a < StackBase + stackTotal /\ a >= StackBase
    <3> SUFFICES ASSUME NEW t \in Created, NEW a \in Stack(t)
                 PROVE  a < StackBase + stackTotal /\ a >= StackBase
      OBVIOUS
    <3>1. thr[t].sp \in Nat /\ thr[t].size \in Nat
      BY <1>0 DEF Registers
    <3> QED
      BY <1>0, <3>1 DEF Executes, IInv, StacksBelow, Stack
  <2>4. \A t \in Created : Stack(t) \cap Stack(new)' = {}
    BY <1>0, <2>2, <2>3
  <2>5. \A a \in Stack(new)' : a >= StackBase
    BY <1>0, <2>2
  <2>6. \A t \in Created' : t = new \/ t \in Created
    BY <1>8
  <2>7. \A t, u \in Created : t # u => Stack(t) \cap Stack(u) = {}
    BY DEF Executes, IInv, StacksDisjoint
  <2> QED
    BY <2>1, <2>3, <2>4, <2>5, <2>6, <2>7 DEF StacksDisjoint
<1>12. AtFirst'
  BY <1>2 DEF AtFirst
<1>13. OthersIdle'
  BY <1>0, <1>2 DEF Executes, IInv, OthersIdle, Awake
<1>14. SleepExact'
  <2>1. \A t \in Thread \ {Main} : nap'[t] = nap[t] /\ nap[t] = Awake
    BY <1>2 DEF Executes, IInv, OthersIdle
  <2>2. nap'[Main] = Awake
    BY <1>0, <1>2 DEF Executes, IInv, OthersIdle
  <2>3. \A t \in Thread : nap'[t].asked = -1
    BY <2>1, <2>2 DEF Awake
  <2> QED
    BY <2>3 DEF SleepExact, LongestSleep
<1>15. ~fail'
  <2>1. ~Stuck
    BY EmulatorAssumption DEF CallThreadCreate, Called, Stuck
  <2> QED
    BY <1>2, <2>1 DEF Executes, IInv
<1> QED
  BY <1>9, <1>10, <1>11, <1>12, <1>13, <1>14, <1>15 DEF IInv

-----------------------------------------------------------------------------
LEMMA RunStep == IInv /\ Run => IInv'
<1> SUFFICES ASSUME IInv, Run PROVE IInv'
  OBVIOUS
<1>1. at = "visit" /\ Visited = Main
  BY VisitsMain DEF Run
<1>2. /\ thr[Main].delay <= 0 /\ bank' = Main /\ Execute(Main) /\ Leave /\ UNCHANGED code
  BY <1>1 DEF Run
<1>3. CASE Sleep(Main)
  BY <1>1, <1>2, <1>3, SleepStep
<1>4. CASE nap' = [nap EXCEPT ![Main] = Awake] /\ ~Sleep(Main)
  <2>1. Executes
    BY <1>1, <1>2, <1>4 DEF Executes
  <2> QED
    BY <1>2, <1>4, <2>1, BadInstructionStep, BranchStep, BranchLinkStep, LoadReserveStep,
       StoreStep, CallUnknownStep, CallStep, CreateStep DEF Execute
<1> QED
  BY <1>2, <1>3, <1>4 DEF Execute

LEMMA StutterStep == IInv /\ UNCHANGED vars => IInv'
<1> SUFFICES ASSUME IInv, UNCHANGED vars PROVE IInv'
  OBVIOUS
<1>1. UNCHANGED <<code, threads, gen, cap, at, it, bank, stackTotal, fail, thr, mem, inside, nap>>
  BY DEF vars, hostVars, history
<1>2. TypeOK' /\ AtFirst' /\ OthersIdle' /\ SleepExact'
  BY <1>1 DEF IInv, TypeOK, AtFirst, OthersIdle, SleepExact
<1>3. Created' = Created /\ (\A t : Stack(t)' = Stack(t))
  BY <1>1 DEF Created, Stack
<1>4. StacksBelow' /\ StacksDisjoint'
  BY <1>1, <1>3 DEF IInv, StacksBelow, StacksDisjoint
<1>5. fail' => Stuck'
  BY <1>1 DEF IInv, Stuck, Called, Code
<1> QED
  BY <1>2, <1>4, <1>5 DEF IInv

(* IInv holds in every state main() can reach. *)
THEOREM Invariance == Spec => []IInv
<1>1. IInv /\ [Next]_vars => IInv'
  BY BeginStep, RunStep, CountDownStep, StutterStep DEF Next
<1> QED
  BY <1>1, InitIInv, PTL DEF Spec

(* Every object the loop touches keeps its type, for any program and any    *)
(* number of threads.                                                       *)
THEOREM TypeCorrect == Spec => []TypeOK
<1>1. IInv => TypeOK
  BY DEF IInv
<1> QED
  BY <1>1, Invariance, PTL

(* The range-for's iterator is valid whenever it is dereferenced, although  *)
(* sys_ppu_thread_create reallocates the vector under it.                   *)
THEOREM IteratorCorrect == Spec => []IteratorValid
<1>1. IInv => IteratorValid
  <2> SUFFICES ASSUME IInv, at = "visit" PROVE it.gen = gen /\ it.pos \in DOMAIN threads
    BY DEF IteratorValid
  <2>1. threads \in Seq(Thread) /\ threads # <<>>
    BY DEF IInv, TypeOK
  <2>2. 1 \in DOMAIN threads
    BY <2>1
  <2> QED
    BY <2>2 DEF IInv, AtFirst
<1> QED
  BY <1>1, Invariance, PTL

(* Two threads are never both inside an lwmutex, although locking is a no-op. *)
THEOREM MutexCorrect == Spec => []MutualExclusion
<1>1. IInv => MutualExclusion
  BY DEF IInv, OthersIdle, MutualExclusion
<1> QED
  BY <1>1, Invariance, PTL

(* A sleep of a representable length lasts exactly as long as was asked. *)
THEOREM SleepCorrect == Spec => []SleepExact
<1>1. IInv => SleepExact
  BY DEF IInv
<1> QED
  BY <1>1, Invariance, PTL

(* The stacks handed out to created threads never overlap. *)
THEOREM StacksCorrect == Spec => []StacksDisjoint
<1>1. IInv => StacksDisjoint
  BY DEF IInv
<1> QED
  BY <1>1, Invariance, PTL

-----------------------------------------------------------------------------
(* Action properties. *)

(* What a step of the loop may write: main's registers, and the registers of *)
(* a thread that is not yet in the vector.                                   *)
LEMMA StepWrites ==
  ASSUME IInv, [Next]_vars, NEW t \in Created
  PROVE  thr'[t] = thr[t]
<1>1. t # Main /\ t \in Thread /\ thr \in [Thread -> Registers] /\ Main \in Thread
      /\ t \in {threads[k] : k \in DOMAIN threads}
  BY EmulatorAssumption DEF IInv, TypeOK, Created
<1>2. CASE Begin
  BY <1>2 DEF Begin
<1>3. CASE CountDown
  <2>1. Visited = Main
    BY <1>3, VisitsMain DEF CountDown
  <2> QED
    BY <1>1, <1>3, <2>1 DEF CountDown
<1>4. CASE Run
  <2>1. Execute(Main)
    BY <1>4, VisitsMain DEF Run
  <2>2. ASSUME NEW regs, Succeed(Main, regs) PROVE thr'[t] = thr[t]
    BY <1>1, <2>2 DEF Succeed
  <2>3. CASE Sleep(Main)
    BY <2>2, <2>3 DEF Sleep
  <2>4. CASE BadInstruction(Main) \/ CallUnknown(Main)
    BY <2>4 DEF BadInstruction, CallUnknown, Fail
  <2>5. CASE Branch(Main) \/ BranchLink(Main)
    BY <2>2, <2>5 DEF Branch, BranchLink
  <2>6. CASE LoadReserve(Main)
    BY <2>2, <2>6 DEF LoadReserve, Fail
  <2>7. CASE Store(Main) \/ StoreConditional(Main)
    BY <2>2, <2>7 DEF Store, StoreConditional, Fail
  <2>8. CASE CallStubbed(Main) \/ CallLock(Main) \/ CallUnlock(Main)
    BY <2>2, <2>8 DEF CallStubbed, CallLock, CallUnlock
  <2>9. CASE CallThreadCreate(Main)
    <3>1. PICK new \in Thread \ {threads[k] : k \in DOMAIN threads} : \E regs :
            thr' = [thr EXCEPT ![Main] = Return(Main), ![new] = regs]
      BY <2>9 DEF CallThreadCreate
    <3> QED
      BY <1>1, <3>1
  <2> QED
    BY <2>1, <2>3, <2>4, <2>5, <2>6, <2>7, <2>8, <2>9 DEF Execute
<1>5. CASE UNCHANGED vars
  BY <1>5 DEF vars
<1> QED
  BY <1>2, <1>3, <1>4, <1>5 DEF Next

(* A thread made by sys_ppu_thread_create never executes. *)
THEOREM OnlyMainRuns == Spec => CreatedNeverRun
<1>1. IInv /\ [Next]_vars => [\A t \in Created : thr'[t] = thr[t]]_vars
  BY StepWrites
<1> QED
  BY <1>1, Invariance, PTL DEF Spec, CreatedNeverRun

(* After the first failure the loop never changes the guest again. *)
THEOREM FailureCorrect == Spec => FailureIsFinal
<1>1. IInv /\ [Next]_vars => [fail => UNCHANGED <<thr, mem, threads, fail>>]_vars
  <2> SUFFICES ASSUME IInv, [Next]_vars, fail PROVE UNCHANGED <<thr, mem, threads, fail>>
    OBVIOUS
  <2>1. Stuck /\ fail \in BOOLEAN
    BY DEF IInv, TypeOK
  <2>2. CASE Begin
    BY <2>2 DEF Begin
  <2>3. CASE CountDown
    <3>1. thr[Main].delay > 0 /\ thr[Main].delay \in Int
      BY <2>3, VisitsMain, EmulatorAssumption DEF CountDown, IInv, TypeOK, Registers
    <3> QED
      BY <2>1, <3>1 DEF Stuck
  <2>4. CASE Run
    <3>1. Execute(Main)
      BY <2>4, VisitsMain DEF Run
    <3>2. \/ Fail(Main) /\ NoCreate /\ UNCHANGED mem
          \/ ~Stuck
      <4>1. CASE BadInstruction(Main) \/ CallUnknown(Main)
        BY <4>1 DEF BadInstruction, CallUnknown
      <4>2. CASE LoadReserve(Main) \/ Store(Main) \/ StoreConditional(Main)
        BY <4>2, EmulatorAssumption
           DEF LoadReserve, Store, StoreConditional, Stuck, Called
      <4>3. CASE Sleep(Main) \/ Branch(Main) \/ BranchLink(Main)
        BY <4>3, EmulatorAssumption DEF Sleep, Branch, BranchLink, Stuck, Called
      <4>4. CASE CallStubbed(Main) \/ CallLock(Main) \/ CallUnlock(Main)
                 \/ CallThreadCreate(Main)
        BY <4>4, EmulatorAssumption
           DEF CallStubbed, CallLock, CallUnlock, CallThreadCreate, Stuck, Called
      <4> QED
        BY <3>1, <4>1, <4>2, <4>3, <4>4 DEF Execute
    <3> QED
      BY <2>1, <3>2, Zenon DEF Fail, NoCreate
  <2>5. CASE UNCHANGED vars
    BY <2>5 DEF vars, hostVars
  <2> QED
    BY <2>2, <2>3, <2>4, <2>5 DEF Next
<1> QED
  BY <1>1, Invariance, PTL DEF Spec, FailureIsFinal
=============================================================================
