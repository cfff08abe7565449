CONSTANTS
  Bits = 16
  WordBits = 8
  ByteBits = 2
  ImmBits = 4
  DsBits = 2
  SplatBits = 2
  SingleExp = 4
  SingleFrac = 3
  DoubleExp = 5
  DoubleFrac = 10
  Region <- MCRegion
  Start <- MCStart
SPECIFICATION VSpec
\* One instruction.
CHECK_DEADLOCK FALSE
PROPERTIES
  MovesOperand
  FailureIsPrecise
  VectorAsArchitected
