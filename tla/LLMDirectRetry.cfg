\* The calls of a plan's steps, streamed without a bridge.
CONSTANTS
  Modes = {"direct"}
  Fallback = TRUE
  QueueSize = 2
  MaxChunks = 2
  MaxCalls = 2
SPECIFICATION Spec
INVARIANT RetriedUnlessPartial
\* The system stops when the last call is over.
CHECK_DEADLOCK FALSE
