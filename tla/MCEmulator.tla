----------------------------- MODULE MCEmulator -----------------------------
(***************************************************************************)
(* Every guest program of three instructions, run by the main thread and,  *)
(* if it creates any, by up to two more threads that start in it.          *)
(***************************************************************************)
EXTENDS Emulator, TLC

MCStub == 10 .. 14
MCHandler == 10 :> "thread_create" @@ 11 :> "lwmutex_lock" @@ 12 :> "lwmutex_unlock"
               @@ 13 :> "null" @@ 14 :> "stubbed"
BlTo(stub) == [op |-> "bl", to |-> stub, arg |-> [entry |-> 1, stack |-> 2, arg |-> 1]]
MCInstr ==
  {BlTo(s) : s \in MCStub}
    \cup {[op |-> "b", to |-> p] : p \in {0, 1}}
    \cup {[op |-> "lwarx", cell |-> c] : c \in {"x", "unmapped"}}
    \cup {[op |-> o, cell |-> "x", value |-> v] : o \in {"stw", "stwcx"}, v \in {1}}
    \cup {[op |-> "stwcx", cell |-> "unmapped", value |-> 1]}
    \cup {[op |-> "usleep", us |-> n] : n \in {2, 3}}   \* the longest sleep, one that wraps
    \cup {[op |-> "bad"]}
=============================================================================
