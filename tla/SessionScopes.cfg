\* Two agents share a persistence; three conversations of one of them compete
\* for a cache of two; entries expire, conversations are reset, turns interrupted
\* and resumed.
CONSTANTS
  Turns = {"t1", "t2", "t3", "t4", "t5"}
  Conversations = {"c1", "c2", "c3", "c4"}
  ConversationOf <- FiveTurns
  Scopes = {"a", "b"}
  ScopeOf <- TwoAgents
  Persistent = TRUE
  MaxSessions = 2
  StoreSessions = 4
  Ttl = 1
  SessionLimit = 1
  RunLimit = 2
  Interruptible = {"reading", "running", "writing"}
  MaxTurns = 4
  MaxTime = 2
  MaxEvents = 1
SPECIFICATION Spec
INVARIANTS SavedAfterTurn
PROPERTIES KeepsPromise EvictedIsSaved
\* The system stops when all turns have ended.
CHECK_DEADLOCK FALSE
