CONSTANTS
  Thread = {main, t1, t2}
  Main = main
  CodeAddr = {0, 1, 2}
  Stub <- MCStub
  Cell = {"x"}
  Value = {0, 1}
  Instr <- MCInstr
  Handler <- MCHandler
  Ticks = 3
  Modulus = 16
  StackBase = 100
SPECIFICATION FairSpec
\* Creation stops at the bound on Thread.
CHECK_DEADLOCK FALSE
INVARIANTS
  TypeOK
  IteratorValid
  MutualExclusion
  SleepExact
  StacksDisjoint
PROPERTIES
  CreatedNeverRun
  FailureIsFinal
  SleepEnds
