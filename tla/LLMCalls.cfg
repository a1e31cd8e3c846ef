\* Two calls of every kind, streams of up to three chunks, a queue of two events.
CONSTANTS
  Modes = {"bridged", "direct", "sync"}
  Fallback = TRUE
  QueueSize = 2
  MaxChunks = 3
  MaxCalls = 2
SPECIFICATION FairSpec
INVARIANTS ShownIsReturned BridgedIsRetried
PROPERTY CallEnds
\* The system stops when the last call is over.
CHECK_DEADLOCK FALSE
