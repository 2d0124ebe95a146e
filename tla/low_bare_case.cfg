SPECIFICATION LoweringSpec
CONSTANTS
  ReturnsValue = FALSE
  DeferKinds = {"plain"}
  BareCases = TRUE
  MaxBlocks = 4
  MaxDefers = 1
  MaxNesting = 1
  MaxCases = 2
INVARIANTS DeferDiscipline
