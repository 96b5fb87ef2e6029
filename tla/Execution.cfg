SPECIFICATION Spec
CONSTANTS
  Width = 3
  Junk = 2
  Kept <- MCKept
  Compiled <- MCCompiled
  SavedReg <- MCSavedReg
  Arguments <- MCArguments
  CallResults <- MCCallResults
  BitXor <- MCBitXor
  BitAnd <- MCBitAnd
  BitOr <- MCBitOr
INVARIANTS
  TypeOK
  LiveValuesInPlace
  CallGetsItsArguments
  ReturnsTheResult
  ReturnsToCaller
CHECK_DEADLOCK FALSE
