CONSTANTS
  Bits = 3
  WordBits = 2
  ImmBits = 1
  BdBits = 2
  LiBits = 3
  Fields = 8
  Instr <- MCMoves
  TimeBase = {0, 2}
SPECIFICATION Spec
PROPERTY MovesNamedField
