CONSTANTS
  NoIndex = NoIndex
  First = First
  Second = Second
  Short = Short
  WaveBytes = 2
  Ref <- MCRef
  Heaps <- MCHeaps
SPECIFICATION Spec
INVARIANT AndNotAsDocumented
