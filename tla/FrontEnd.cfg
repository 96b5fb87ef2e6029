SPECIFICATION Spec
CONSTANTS
  Width = 3
  LoopFuel = 9
  Fuel = 60
  Programs <- MCPrograms
  IntArguments <- MCIntArguments
INVARIANTS
  TypesAreSound
  LoweringKeepsMeaning
  LowersToCode
CHECK_DEADLOCK FALSE
