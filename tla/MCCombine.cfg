\* The plans of two ranks; a GEMM alone, and GEMM and combine overlapped in two
\* iterations.
CONSTANTS
  W = 2
  EPR = 2
  TopK = 2
  TileM = 2
  Shapes <- Launches
  Routings <- TokenPairs
SPECIFICATION PlansOrCombine
INVARIANTS
  RecvLayoutExact
  CombineReversesDispatch
  CombinesFinishedRows
  FlagsExactAfterWarmUp
PROPERTIES
  CombineEnds
CHECK_DEADLOCK FALSE
