SPECIFICATION Spec
CONSTANTS
  Width = 3
  Junk = 2
  LoopFuel = 9
  Texts <- MCTexts
  Letters <- MCLetters
  Reg <- MCReg
  IntArguments <- MCIntArguments
INVARIANTS
  TokensAreLongestMatches
  ParsesTheGrammar
  AcceptedProgramsCompile
  MachineDoesWhatTheTextSays
PROPERTIES
  ReadingAdvances
