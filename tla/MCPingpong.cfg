\* Three stages of A/B, three subtiles over two buffers of C and of D.
CONSTANTS
  ABStages = 3
  EpiStages = 2
  CStages = 2
  EpiTiles = 3
  SchedStages = 2
  Shapes <- FewTiles
SPECIFICATION FairSpec
INVARIANTS
  MmaReadsOwnTile
  EpilogueBuffersSafe
PROPERTIES
  AllTilesStored
CHECK_DEADLOCK FALSE
