CONSTANTS
  NoIndex = NoIndex
  First = First
  Second = Second
  Short = Short
  WaveBytes = 2
  Ref <- MCRef
  Heaps <- MCHeaps
SPECIFICATION Spec
INVARIANTS
  TypeOK
  AccessInBounds
  ResultExact
  OthersUntouched
PROPERTY CanonicalKept
