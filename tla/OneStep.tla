------------------------------- MODULE OneStep -------------------------------
(***************************************************************************)
(* What the facilities of the interpreter share that are modelled one       *)
(* instruction at a time: executeInterpreterSingleStep executes ir from any *)
(* operands, and either returns and goes on to the next address or fails.   *)
(***************************************************************************)
EXTENDS WordOps

CONSTANT ImmBits   \* 16, an immediate or a displacement

VARIABLES
  status,    \* "running", "failed" once ~0 is returned (exit is a macro), "trapped"
             \* once the host has stopped the emulator
  ir         \* the instruction to execute, or none

ASSUME OneStepAssumption == ImmBits \in Nat \ {0} /\ ImmBits < WordBits

NoInstr == [op |-> "none"]
==============================================================================
