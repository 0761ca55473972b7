\* What op_gt, op_lt, op_ge and op_le are documented to compute.
CHECK_DEADLOCK FALSE
CONSTANTS
  NaN = NaN
  MaxLen = 10
  Calls <- MCCalls
SPECIFICATION Spec
INVARIANT OperatorExact
