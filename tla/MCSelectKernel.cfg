\* A call returns and then nothing runs.
CHECK_DEADLOCK FALSE
CONSTANTS
  NaN = NaN
  MaxLen = 10
  Calls <- MCCalls
SPECIFICATION Spec
INVARIANTS
  TypeOK
  AccessInBounds
  BulkExact
  EqualityExact
PROPERTIES
  ImplementsSelection
