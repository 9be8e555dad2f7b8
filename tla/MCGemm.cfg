\* Every call, configuration and small network of the three MC modules.
CONSTANTS
  Kernels <- AllKernels
  Window = 3
  Launches = 3
  Junk = 1000
  MaxZeroes = 1
SPECIFICATION GemmSpec
INVARIANTS
  EachTileOnce
  ConfigFits
  CallsMatchReference
  TrainingMatchesReference
  PhaseTwoHits
  ArgumentsFit
