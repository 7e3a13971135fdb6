SPECIFICATION Spec
CONSTANTS
  j1 = j1
  j2 = j2
  Rows <- ThreeRows
  Invalid = Invalid
  Dims = {j1, j2}
  NullSlot = 4
  Loads <- TallAndLong
  Angles <- Arc
  MaxEpoch = 2
  MaxWork = 5
  QueryAngles <- QueryArc
  Cos <- Cosines
INVARIANTS
  StoreCounts
  DeltaCoherent
  Reachable
  CacheIsTrue
  RoutesAreSound
  InsertedAsBuilt
PROPERTIES
  BoundsGrowWithinEpoch
