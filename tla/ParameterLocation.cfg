SPECIFICATION Spec
CONSTANTS
  Width = 3
  Fuel = 70
  Functions <- MCUnneeded
  Parameters <- MCParameters
  Arguments <- MCArguments
INVARIANTS
  ParametersKeepALocation
CHECK_DEADLOCK FALSE
