SPECIFICATION GSpec
CONSTANTS
  Scans <- ScansVal
  ScoreOf <- ScoresVal
  Limits = {2, 3}
  KMaxes = {1, 2}
  FileScores = {10, 11, 20}
  Tol = 1
  Digit = {1}
  MaxRuns = 3
INVARIANTS
  ExactIsBest
  TruthIsRanked
  CacheIsExact
CHECK_DEADLOCK FALSE
