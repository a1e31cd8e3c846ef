\* One call exceeds step_timeout.
CONSTANTS
  Calls = {"r1", "r2", "r3", "w1", "w2"}
  Flows <- TwoAnswers
  ReadOnly = {"r1", "r2", "r3"}
  MaxRetries = 1
  StepTimeout = TRUE
  Planned = FALSE
  MaxFaults = 0
  MaxCancels = 1
SPECIFICATION Spec
INVARIANT TimeoutIsRetryable
\* The system stops when the execution is over.
CHECK_DEADLOCK FALSE
