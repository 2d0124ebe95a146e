SPECIFICATION ArithmeticSpec
CONSTANTS
  Bits <- SmallBits
  Half <- SmallHalf
  Precision <- SmallPrecision
  Greatest <- SmallGreatest
  TriedOperands <- NearLimits
  NonFiniteConstants = TRUE
  InexactAdaptation = FALSE
INVARIANT ConstantsAreWritten
CHECK_DEADLOCK FALSE
