SPECIFICATION Spec
CONSTANTS
  Vars = {x}
  Resources = {x}
  NonVoid = FALSE
  Constructs = {"while", "defer", "defer_transfer"}
  MaxDepth = 3
PROPERTY BackedgesRestoreOwners
