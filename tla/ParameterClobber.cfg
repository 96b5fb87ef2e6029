SPECIFICATION Spec
CONSTANTS
  Width = 3
  Junk = 2
  Kept <- MCKept
  Compiled <- MCOverwriting
  SavedReg <- MCSavedReg
  Arguments <- MCArguments
  CallResults <- MCCallResults
  BitXor <- MCBitXor
  BitAnd <- MCBitAnd
  BitOr <- MCBitOr
INVARIANTS
  ParametersArrive
CHECK_DEADLOCK FALSE
