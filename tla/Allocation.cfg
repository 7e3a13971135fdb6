SPECIFICATION AllocateSpec
CONSTANTS
  d = 4
  n = 4
  Ells = {0, 1, 2, 3, 5}
  RarityWeight <- IdfOfFour
  null_slot = 20
INVARIANTS RemaindersSuffice
CHECK_DEADLOCK FALSE
