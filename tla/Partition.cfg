SPECIFICATION Spec
CONSTANTS
  Records <- RecordsVal
  Loads <- LoadsVal
  Queries <- AnglesVal
  MaxIterations = 3
INVARIANTS RepairSucceeds ConvergedIsFinal UpperIsSafe
CHECK_DEADLOCK FALSE
