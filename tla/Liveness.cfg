SPECIFICATION Spec
CONSTANTS
  Var <- MCVar
  CFGs <- MCCFGs
INVARIANTS
  UseIsReadBeforeWritten
  BelowEverySolution
  SolvedWhenDone
  LiveMeansReadLater
PROPERTIES
  Termination
CHECK_DEADLOCK FALSE
