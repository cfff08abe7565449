CONSTANTS
  Bits = 8
  WordBits = 4
  ImmBits = 2
  Instr <- MCInstr
SPECIFICATION Spec
\* One instruction; a failed or trapped one stops the guest.
CHECK_DEADLOCK FALSE
INVARIANT OverflowFormsHandled
