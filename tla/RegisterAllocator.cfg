SPECIFICATION Spec
CONSTANTS
  a = a
  b = b
  c = c
  d = d
  r1 = r1
  r2 = r2
  Var <- MCVar
  Reg <- MCReg
INVARIANTS
  TypeOK
  DegreeIsResidual
  NoSharedRegister
  OnlyPotentialSpillsSpill
  EveryNodePlacedOnce
PROPERTIES
  ImplementsColoring
CHECK_DEADLOCK FALSE
