CONSTANTS
  NaN = NaN
  Distance = Distance
  Price = Price
  Dest = Dest
  Day = Day
  Year = Year
  Carrier = Carrier
  IntMax = 127
  Rps = 5
  Part <- MCPart
  Col <- MCCol
  Kind <- MCKind
  Env <- MCEnv
  Expr <- MCExpr
  Height <- MCHeight
  Datasets <- MCDatasets
  Lists <- MCLists
  Selections <- MCSelections
  Conditions <- MCConditions
SPECIFICATION Spec
INVARIANTS
  CollectMaterializes
