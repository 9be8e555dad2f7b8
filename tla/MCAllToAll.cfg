\* Two workers in each of the three ways each kernel is launched.
CONSTANTS
  W = 2
  EPR = 2
  NWorkers = 2
  Stages = 2
  Window = 2
  GateTarget = 1
  Launches <- AllLaunches
SPECIFICATION FairSpec
INVARIANTS
  PushesOwnRow
  FlagNeverBeatsData
PROPERTIES
  AllRowsPushed
CHECK_DEADLOCK FALSE
