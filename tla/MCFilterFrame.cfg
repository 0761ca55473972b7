\* A call returns and then nothing runs.
CHECK_DEADLOCK FALSE
CONSTANTS
  NaN = NaN
  IntMax = 127
  Rps = 4
  Col <- MCCol
  Class <- MCClass
  Data <- MCData
  Lost <- MCLost
  Lists <- MCLists
  Env <- MCEnv
  Expr <- MCExpr
  Height <- MCHeight
  Filters <- MCFilters
SPECIFICATION Spec
INVARIANTS
  TypeOK
  
  
