SPECIFICATION BodySpec
CONSTANTS
  Vars = {x, y}
  Resources = {x}
  NonVoid = TRUE
  Constructs = {"logical", "ifexpr", "block", "if", "switch", "while", "break", "continue", "return", "defer"}
  MaxDepth = 2
  ReturnsValue = TRUE
  DeferKinds = {"branch", "diverge"}
  BareCases = FALSE
  MaxBlocks = 6
  MaxDefers = 2
  MaxNesting = 2
  MaxCases = 1
INVARIANTS
  LoweringSucceeds NeverUnreachable LoweringInvariant DeferDiscipline BlocksEnteredLexically
  FlowWitnessed AcceptedReturns DeferredIsOwned ReachedIsReachable AcceptedIsSafe
PROPERTY BackedgesRestoreOwners
