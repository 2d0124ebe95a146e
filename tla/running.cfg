SPECIFICATION RunSpec
CONSTANTS
  Bits <- SmallBits
  Half <- SmallHalf
  Precision <- SmallPrecision
  Greatest <- SmallGreatest
  TriedOperands <- NearLimits
  NonFiniteConstants = FALSE
  InexactAdaptation = FALSE
  AddressSpace = 20
  Word = 2
  HeaderSize = 2
  ArenaSize = 2
  BlockSize = 4
  Sizes = {2, 18}
  Alignments = {1, 4}
  MaxBlocks = 2
  MaxLive = 2
  MaxScopes = 2
  HeapSpace = 56
  HeapWord = 4
  HeapHeader = 4
  DebugHeader = 4
  Guard = 1
  DebugState = 1
  DebugSizes = {1, 3}
  DebugAlignments = {1, 8}
  MaxTaken = 3
  MaxWrongs = 2
  Capacity = 2
  MaxGeneration = 3
  MaxReleases = 2
  Values = {a, b}
INVARIANTS
  FoldingIsExact CCodeIsExact LlvmCodeIsExact
  NothingLeaks ArenaInvariant
  ReportsAreTrue HeapIsRespected
  FreeListExact
PROPERTIES RewindRestores ImplementsAllocator DebugImplements StaleStaysStale ImplementsContract
CHECK_DEADLOCK FALSE
