\* Timeouts, retries, raising hooks and a cancellation of a ReAct execution.
CONSTANTS
  Calls = {"r1", "r2", "r3", "w1", "w2"}
  Flows <- TwoAnswers
  ReadOnly = {"r1", "r2", "r3"}
  MaxRetries = 2
  StepTimeout = TRUE
  Planned = FALSE
  MaxFaults = 2
  MaxCancels = 1
SPECIFICATION FairSpec
INVARIANTS WriteAlone EarlierCallsDone WriteOnce AuditAgrees
PROPERTIES ToolCallsAnswered ExecutionEnds
\* The system stops when the execution is over.
CHECK_DEADLOCK FALSE
