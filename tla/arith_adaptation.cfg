SPECIFICATION ArithmeticSpec
CONSTANTS
  Bits <- SmallBits
  Half <- SmallHalf
  Precision <- SmallPrecision
  Greatest <- SmallGreatest
  TriedOperands <- NearLimits
  NonFiniteConstants = FALSE
  InexactAdaptation = TRUE
INVARIANT AdaptationIsExact
CHECK_DEADLOCK FALSE
