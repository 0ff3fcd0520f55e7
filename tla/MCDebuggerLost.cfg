SPECIFICATION Spec
CONSTANTS
  Addrs <- MCAddrs
  CG_LOAD_ADDR = 1
  Kind <- MCKind
  Succ <- MCSucc
  MAX_BP = 3
  MaxEdits = 4
INVARIANTS
  BreakpointsRearmed
