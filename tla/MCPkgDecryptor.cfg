CONSTANTS
  Block = 2
  Chunk = 6
  Radix = 2
  Digits = 4
  Riv <- MCRiv
  Package <- MCPackage
SPECIFICATION Spec
\* The function returns.
CHECK_DEADLOCK FALSE
INVARIANTS
  TypeOK
  TablePlain
  ItemsPlain
  NoOverread
