CONSTANTS
  PageSize = 4
  Elf <- MCElf
SPECIFICATION LayoutSpec
CHECK_DEADLOCK FALSE
INVARIANT GapsRefused
