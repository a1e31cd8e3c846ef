\* A run, the agent it calls and its resumption.
CONSTANTS
  Executions = {"x1", "n1", "x2"}
  None = None
  CallerOf <- OneNested
  MaxRounds = 1
  MaxCancels = 2
  MaxFaults = 1
SPECIFICATION FairSpec
INVARIANTS RunningIsCancellable
PROPERTIES   EveryExecutionEnds
\* The system stops when every execution is over.
CHECK_DEADLOCK FALSE
