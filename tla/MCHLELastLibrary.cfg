CONSTANTS
  Module <- MCModule
  Nid <- MCNid
  Addr = {4, 8, 12, 16, 20}
  SyscallId = {43, 999}
  Exports <- MCExports
  BootOrder <- MCBootOrder
  Syscalls = {43}
  Ppu32Size = 44
  Ppu64Size = 72
  Table <- MCTable
SPECIFICATION Spec
CHECK_DEADLOCK FALSE
INVARIANT EveryLibraryRegistered
