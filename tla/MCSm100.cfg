\* SM100 kernel variants of one and two CTAs with two A/B stages and three epilogue subtiles.
CONSTANTS
  ABStages = 2
  CStages = 2
  EpiTiles = 3
  SubCols = 2
  Shapes <- Variants
SPECIFICATION FairSpec
INVARIANTS
  StagesReadOwnTile
PROPERTIES
  NoArrivalAfterExit
  CtasEnd
CHECK_DEADLOCK FALSE
