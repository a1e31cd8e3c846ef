\* A run that calls another agent, one cancellation, no fault.
CONSTANTS
  Executions = {"x1", "n1"}
  None = None
  CallerOf <- OneNested
  MaxRounds = 1
  MaxCancels = 1
  MaxFaults = 0
SPECIFICATION Spec
PROPERTIES CancelReachesNested
\* The system stops when every execution is over.
CHECK_DEADLOCK FALSE
