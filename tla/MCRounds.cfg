\* A TilePipe from its constructor through a benchmark sweep, on two ranks.
CONSTANTS
  W = 2
  EPR = 1
  NWarps <- SweepWarps
  NCtas <- SweepCtas
  TileM = 1
  MaxRecv = 2
  Plan <- PairPlan
  Cu <- PairCu
  PublishSegment = TRUE
  NumSms = 2
  CommWarps = 1
  Program <- Sweep
SPECIFICATION RoundsFairSpec
INVARIANTS
  NoRacyRead
  FlagsCountThisIteration
PROPERTIES
  AllRoundsEnd
CHECK_DEADLOCK FALSE
