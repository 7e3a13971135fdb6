SPECIFICATION Spec
CONSTANTS
  Records <- RecordsVal
  Sets <- SetsVal
  Partitions <- PartitionsVal
  Costs = {1, 2}
  Unit = 4
  DeltaNum = 1
  DeltaDen = 3
  MaxTables = 3
  Scale = 60
  kmax = 1
INVARIANTS FloorsGuaranteeRecall PoolSuffices PoolIsLeast
CHECK_DEADLOCK FALSE
