CONSTANTS
  Bits = 14
  WordBits = 7
  SingleExp = 4
  SingleFrac = 2
  DoubleExp = 5
  DoubleFrac = 8
  Reg = {0, 1}
  Field = {0, 1}
  Start <- MCStart
SPECIFICATION Spec
\* A program ends.
CHECK_DEADLOCK FALSE
INVARIANT MemoryRoundTrips
PROPERTIES
  RoundedAsArchitected
  ClassOfResult
  ComparesAsOrdered
