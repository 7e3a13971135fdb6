SPECIFICATION PSpec
CONSTANTS
  j1 = j1
  j2 = j2
  Rows <- AllRows
  Invalid = Invalid
  Dims = {j1, j2}
  NullSlot = 6
  Loads <- OneOrTwo
  Angles = {1, 2}
  MaxEpoch = 2
  MaxWork = 9
  MaxOperations = 3
INVARIANTS
  InsertsFindTables
  ErasesFindRecords
  LeavesTheLoaded
