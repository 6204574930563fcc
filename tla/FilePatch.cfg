SPECIFICATION MCSpec
CONSTANTS
  Ops = {"a", "b"}
  Data = {"x", "y"}
  Requests <- PatchRequests
  Initial = "x"
  Callers = {"c1", "c2"}
  MaxEdits = 1
  MaxFaults = 2
  RecoveryFaults = 1
CHECK_DEADLOCK FALSE
INVARIANTS AppliedAtMostOnce ReceiptsTruthful RefusalsDidNothing
PROPERTIES ClosedRunUntouched Recovers
