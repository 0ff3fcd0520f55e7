SPECIFICATION Spec
CONSTANTS
  AddrMod = 14
  USER_REGION_BASE = 3
  USER_REGION_TOP = 8
  MappedTop = 11
  KernelNul <- MCKernelNul
  Exposed <- Variables
  PROG_ARG_AT = 5
  SVGA_SIZE = 4
  FONT_SIZE = 3
  PROG_ARG_SIZE = 3
  KBD_KEYS = 1
  ArgLengths <- MCArgLengths
  StoredLengths <- MCStoredLengths
  FileSizes <- MCFileSizes
  TicksMod = 2
  MaxConversions = 2
INVARIANTS
  UmTypeOK
  WritesConfined
  ReadsConfined
  NeverHalts
PROPERTY
  InterruptsServed
