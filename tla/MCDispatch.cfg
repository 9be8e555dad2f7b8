\* Both publish modes: warps that share a segment, a partial flush, ragged
\* tiles.  The steps of token mode are those of an instance with FALSE; no property
\* reads PublishSegment.
CONSTANTS
  W = 2
  EPR = 2
  NWarps <- ThreeWarps
  NCtas <- TwoCtas
  TileM = 2
  MaxRecv = 5
  Plan <- SharedPlan
  Cu <- SharedCu
  PublishSegment = TRUE
SPECIFICATION EitherSpec
INVARIANTS
  TypeOK
  NoRacyRead
  FlagsCountReleasedRows
PROPERTIES
  ImplementsArrival
  AllTilesComputed
CHECK_DEADLOCK FALSE
