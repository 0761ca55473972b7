\* A call returns and then nothing runs.
CHECK_DEADLOCK FALSE
CONSTANTS
  WaveBytes = 2
  MaxLen = 5
  Inputs <- MCInputs
SPECIFICATION CollapseSpec
INVARIANTS
  CollapseTypeOK
  CopiesInBounds
  PrefixOfSelection
  CanonicalComplete
