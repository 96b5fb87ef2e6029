SPECIFICATION Spec
CONSTANTS
  Functions <- MCFunctions
INVARIANTS
  TypeOK
  BlocksSpellTheCode
  SingleEntrySingleExit
  EdgesAreFlow
CHECK_DEADLOCK FALSE
