SPECIFICATION Spec
CONSTANTS
  Width = 3
  LoopFuel = 9
  Fuel = 60
  Programs <- MCPrograms
  IntArguments <- MCIntArguments
INVARIANTS
  BlocksKeepVariables
CHECK_DEADLOCK FALSE
