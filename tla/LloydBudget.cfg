SPECIFICATION Spec
CONSTANTS
  Records <- RecordsVal
  Loads <- LoadsVal
  Queries <- AnglesVal
  MaxIterations = 3
INVARIANT BudgetCanHelp
CHECK_DEADLOCK FALSE
