\* Nothing is called on a dataframe that could not be opened.
CHECK_DEADLOCK FALSE
CONSTANTS
  IntMax = 127
  Rps = 2
  Symbol <- MCSymbol
  Schemas <- MCSchemas
  Partitions <- MCPartitions
  Strangers <- MCStrangers
  Lost <- MCLost
  NoLevels <- MCNoLevels
  NumberOf <- MCNumberOf
  Asked <- MCAsked
SPECIFICATION Spec
INVARIANTS
  TypeOK
  IndexExact
  KeyValueExact
  VectorsAreTheirs
  FrameAligned
