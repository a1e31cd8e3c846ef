\* A plan's steps, one of whose hooks raises.
CONSTANTS
  Calls = {"r1", "r2", "r3", "w1", "w2"}
  Flows <- TwoAnswers
  ReadOnly = {"r1", "r2", "r3"}
  MaxRetries = 1
  StepTimeout = FALSE
  Planned = TRUE
  MaxFaults = 1
  MaxCancels = 0
SPECIFICATION Spec
INVARIANT WriteAlone
\* The system stops when the execution is over.
CHECK_DEADLOCK FALSE
