CONSTANTS
  Bits = 3
  WordBits = 2
  ImmBits = 1
  BdBits = 2
  LiBits = 3
  Fields = 2
  Instr <- MCInstr
  TimeBase = {0, 2}
SPECIFICATION Spec
INVARIANT TypeOK
PROPERTY RefinesISA
