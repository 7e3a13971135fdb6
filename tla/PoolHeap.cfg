SPECIFICATION Spec
CONSTANTS
  Sizes <- SizesVal
  Proxies <- ProxiesVal
  Capacity = 6
INVARIANTS WorstInFront PositionsTrue
PROPERTY ImplementsPool
