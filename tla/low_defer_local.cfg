SPECIFICATION LoweringSpec
CONSTANTS
  ReturnsValue = TRUE
  DeferKinds = {"declare"}
  BareCases = FALSE
  MaxBlocks = 4
  MaxDefers = 1
  MaxNesting = 1
  MaxCases = 0
INVARIANTS LoweringSucceeds
