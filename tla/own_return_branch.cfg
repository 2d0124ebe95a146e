SPECIFICATION Spec
CONSTANTS
  Vars = {x}
  Resources = {x}
  NonVoid = TRUE
  Constructs = {"logical", "return", "return_branch"}
  MaxDepth = 3
INVARIANTS AcceptedIsSafe
