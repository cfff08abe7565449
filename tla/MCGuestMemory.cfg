CONSTANTS
  PageSize = 4
  Byte = {0, 1, 2, 3, 4, 5, 6, 7, 8}
  Zero = 0
  MmapCalls <- MCMmapCalls
  Accesses <- MCAccesses
  Words <- MCWords
SPECIFICATION Spec
CHECK_DEADLOCK FALSE
INVARIANTS
  TypeOK
  Contiguous
  OwnedOnce
PROPERTY RefinesFlat
