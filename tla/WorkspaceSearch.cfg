SPECIFICATION HSpec
CONSTANTS
  Calls <- MCCalls
  GenMod = 2
  MaxTables = 2
  Scale = 6
INVARIANTS
  PoolIsTopB
  TopIsBestOfVerified
  StopIsSafe
  AnswerIsFull
  DeltaIsNeverMissed
PROPERTIES
  ImplementsReference
  SearchEnds
