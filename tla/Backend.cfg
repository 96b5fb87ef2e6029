SPECIFICATION Spec
CONSTANTS
  r1 = r1
  r2 = r2
  Var <- MCVar
  Reg <- MCReg
  Functions <- MCFunctions
INVARIANTS
  BlocksKeepLiveness
  WritesSpareLiveNames
PROPERTIES
  AllocationFollows
CHECK_DEADLOCK FALSE
