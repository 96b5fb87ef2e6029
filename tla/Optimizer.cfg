SPECIFICATION Spec
CONSTANTS
  Width = 3
  Fuel = 70
  Functions <- MCFunctions
  Parameters <- MCParameters
  Arguments <- MCArguments
INVARIANTS
  TypeOK
  KnownIsResolved
  MeaningIsKept
  LeavesFunctionCode
PROPERTIES
  Termination
CHECK_DEADLOCK FALSE
