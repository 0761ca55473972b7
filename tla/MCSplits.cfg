\* The iteration and the walk end.
CHECK_DEADLOCK FALSE
CONSTANTS
  IntMax = 15
  MaxTotal = 40
  MaxRps = 6
  HeaderRows = 3
  Rows <- MCRows
  RpsChoices <- MCRps
  Rps = 2
  MaxParts = 3
  MaxRows = 5
  Datasets <- MCDatasets
SPECIFICATION SplitsSpec
INVARIANTS
  WalkTypeOK
  WholePartition
  SplitIsItsFile
  InfoConsistent
  TypeOK
  YieldsInOrder
  MissesOnlyTheLast
PROPERTIES
  StaysStopped
  ForeachEnds
