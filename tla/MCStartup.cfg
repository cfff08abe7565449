CONSTANTS
  Module <- MCModule
  Nid <- MCNid
  Addr = {4, 8, 12, 16, 20, 100, 104, 108, 112, 116, 120, 124}
  SyscallId = {49, 147, 348, 352, 403, 999}
  Exports <- MCExports
  BootOrder <- MCBootOrder
  Syscalls = {49, 147, 348, 352, 403}
  Table <- MCTable
  Ppu32Size = 44
  Ppu64Size = 72
  SyscallName <- MCSyscallName
  PageSize = 8
  Elf <- MCElf
  StackStart = 64
  StackLength = 32
  SP = 66
  ArgV = 67
  EnvP = 68
  Path = 69
  PathLength = 1
  TlsStart = 72
  TlsLength = 8
  ArenaStart = 48
  UserMemory = 16
  Label = 60
  LwMutexLength = 3
  ContentLength = 2
  UsrDirLength = 2
  TimebaseFrequency = 7
  MaxStacks = 2
SPECIFICATION FairStartupSpec
\* The process may end, and most executables make no calls.
CHECK_DEADLOCK FALSE
INVARIANTS
  StartupTypeOK
  RunsAsAsked
  AllButLastBound
  ZeroSizeNeverPassed
  HostSurvives
  ImageLoaded
  StartsSound
  GrantIsUsable
  StacksApart
PROPERTIES
  CallsKeepMemory
  
