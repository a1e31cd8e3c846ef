\* Two agents that call each other in a circle and one cancel_run; two or
\* three agents, plugins, tools and tasks in the other components.
CONSTANTS
  q1 = q1 q2 = q2 q3 = q3 ca = ca cb = cb a = a b = b
  Calls = {q1, q2, q3}
  Agents = {a, b}
  Consumers = {ca, cb}
  None = None
  Caller <- MCCaller
  Callee <- MCCallee
  Serves <- MCServes
  MaxCancels = 1
  EventRequests = {"r"}
  Broadcasts = {"s"}
  NoRequest = "none"
  MaxChildSteps = 2
  CallbackAwaits = TRUE
  AgentNames = {"n", "o"}
  MaxInstances = 2
  MaxEnvelopes = 1
  ReloadLoaded = TRUE
  ChangeWhileClosing = TRUE
  Configured <- MCConfigured
  Registered = {"p", "q", "r"}
  Ranks = {1, 2}
  DependsSets <- MCDepends
  ToolNames = {"a.b", "a/b", "c"}
  Sanitized <- MCSanitized
  Suffixed <- MCSuffixed
  ToolSources = {"p", "mcp"}
  MaxRegistrations = 3
  McpCalls = {"c", "d", "e"}
  RetryableCalls = {"c"}
  NoMcpCall = "none"
  MaxProcessIds = 2
  Members <- MCMembers
  Modes = {"round_robin", "parallel", "debate", "redblue", "supervisor"}
  Team <- MCTeam
  JudgeInterval = 3
  MaxRounds = 3
  CheckInterval = 2
  NoAgent = "none"
  CallNames = {"a", "b", "c"}
  AllowedCallees = {}
  DeniedCallees = {"c"}
  AllowSelfCall = FALSE
  CallDepthLimit = 2
  HasOrchestration = TRUE
  MaxCalledRuns = 3
  SwarmTasks = {"t1", "t2", "t3"}
  Priority <- MCPriority
  FailurePolicies = {"best_effort", "fail_fast"}
  SwarmLimit = 2
  MaxDepth = 2
  MaxSwarms = 2
  Actors <- MCActors
  Setups <- MCSetups
  WorldFacts = {"f", "g"}
  Deltas <- MCDeltas
  Evaluators = {"e", "f"}
  Cases <- MCCases
  Scores = {0, 1}
  MaxSuites = 1
  MaxEvalRuns = 1
  MaxReruns = 2
  ToolIds = {"c", "d"}
  MaxRunEvents = 2
SPECIFICATION MCSpec
INVARIANTS GateOfLiveRun AgentsHold
PROPERTIES KeepsPromise EveryCallEnds EndedStays AgentsEnd
\* Every counter is bounded: each component stops.
CHECK_DEADLOCK FALSE
