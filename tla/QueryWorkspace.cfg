SPECIFICATION DSpec
CONSTANTS
  Calls <- MCCalls
  GenMod = 3
  MaxTables = 2
  Scale = 6
  DimOf <- MCDim
  Values = {1}
INVARIANTS
  StampsAgree
  CountsAreFresh
  NoStalePosition
  PoolGetsVerified
  DenseIsSparse
