SPECIFICATION Spec
CONSTANTS
  Var <- MCVar
  Analyses <- MCAnalyses
INVARIANTS
  TypeOK
  WalkSeesLiveNames
  EdgesAreInterferences
  LiveTogetherInterfere
CHECK_DEADLOCK FALSE
