\* The iteration ends.
CHECK_DEADLOCK FALSE
CONSTANTS
  IntMax = 15
  Rps = 2
  MaxParts = 3
  MaxRows = 5
  Datasets <- MCDatasets
SPECIFICATION FairSpec
INVARIANT YieldsAll
