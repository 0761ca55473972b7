CONSTANTS
  f1 = f1
  f2 = f2
  f3 = f3
  MaxBase = 3
  MaxFd = 3
  File <- MCFile
  Missing <- MCMissing
  Bytes <- MCBytes
  Base <- MCBase
SPECIFICATION FairSpec
INVARIANTS
  TypeOK
  VectorsOwnTheirMapping
  LeaksOnlyOnFailure
PROPERTIES
  HeldUndisturbed
  GarbageIsFreed
