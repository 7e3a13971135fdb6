SPECIFICATION TableSpec
CONSTANTS
  Universe = 3
  Identifiers = {1, 2, 3}
  MaxAdded = 2
  TableSize = 4
INVARIANTS
  VisitsItsBucket
  BytesWithinEstimate
CHECK_DEADLOCK FALSE
