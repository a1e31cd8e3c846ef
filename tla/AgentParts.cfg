\* Admission: four runs, two agents, every limit in force.  Runtime: three
\* artifacts, keys and calls, two of what else is kept; every limit can be
\* reached.  Plugins: two runs, calls, sources or servers for each, three
\* where the order of two matters to a third.
CONSTANTS
  r1 = r1 r2 = r2 r3 = r3 r4 = r4 a1 = a1 a2 = a2 s1 = s1
  Runs = {r1, r2, r3, r4}
  Agents = {a1, a2}
  Sessions = {s1}
  NoSession = NoSession
  Engine = Engine
  None = None
  AgentOf <- MCAgentOf
  SessionOf <- MCSessionOf
  EngineLimit = 3
  AgentLimit = 2
  SessionLimit = 1
  Artifacts = {"x", "y", "z"}
  ArtifactRuns = {"r"}
  Offers <- MCOffers
  MaxEntries = 2
  MaxBytes = 4
  ArtifactTtl = 1
  PageLimits = {2}
  MaxClock = 1
  CkRuns = {"r", "s"}
  CkSequences = {1, 2}
  CkStatuses = {"running", "completed"}
  MaxCkRuns = 1
  MaxPerRun = 2
  MaxSaves = 4
  Keys = {"k1", "k2", "k3"}
  KvMaxSize = 2
  KvTtl = 1
  Scopes = {"s", "t"}
  Names = {"n"}
  MaxSessions = 1
  MaxKvClock = 2
  RateCalls = {"c", "d", "e"}
  Window = 2
  Rpm = 2
  MaxConcurrent = 1
  RateTimeout = 1
  MaxRateClock = 3
  StreamCalls = {0, 1}
  ArgumentPieces = 2
  TextPieces = 3
  IndexGiven = TRUE
  MaxStreamChunks = 7
  MaxStreamContent = 3
  Commands = {"c", "d"}
  CommandTools = {"python_exec", "shell", "pip_install"}
  MemUsers = {"u1", "u2", "u3"}
  MemScopes = {"p"}
  ScopeOfUser <- MCScopes
  Facts = {"f", "h"}
  Lasting = {"h"}
  Importance <- MCImportance
  MaxMemories = 1
  TopK = 1
  Overlapping = TRUE
  StoreMayFail = TRUE
  MaxRestarts = 0
  TraceCalls = {"c", "d"}
  TraceRounds = 2
  Sampled = {TRUE, FALSE}
  SampleErrors = TRUE
  QueueLimit = 2
  MaxSpans = 2
  ChatRounds = 3
  ChatAnswers = 2
  ChatCalls = {2}
  ResultKinds = {"plain", "durable"}
  MixedResults = FALSE
  TokenCounts = {1, 2}
  RecentRounds = 1
  InputBudget = 5
  ExtraTokens = 1
  Talks = {"t"}
  TalksOverlap = FALSE
  MaxItems = 5
  SummaryAfter = 2
  MaxFailures = 2
  DurableKeep = 2
  MaxProcesses = 3
  ToolCalls = {"c", "d"}
  RequestIds = {"i", "j"}
  NoId = "none"
  IdsReused = FALSE
  GuardedRuns = {"r", "s"}
  Tools = {"t", "u"}
  Args = {"a", "b"}
  HookRules <- MCHookRules
  RiskRules <- MCRiskRules
  AskLevel = 2
  SameCall = 2
  SameTool = 2
  TotalTool = 2
  MaxTurns = 2
  SkillNames = {"s", "t"}
  Places = 2
  Versions = {1, 2}
  AllowedSkills = {}
  DeniedSkills = {"t"}
  DuplicatePolicy = "replace"
  ScriptCalls = {"c"}
  MaxDiskChanges = 2
  Formats = {"none", "json_schema", "text"}
  RepairAttempts = 2
  TextIds = {1}
  Chunks <- MCChunks
  MountedDocs <- MCMounted
  StoreDocs <- MCStored
  Queries <- MCQueries
  HasIndex = TRUE
  HasEmbedding = TRUE
  HasVectors = TRUE
  KnowledgeRuns = {"r", "s"}
  NoRun = "none"
  TopicPassed = TRUE
  ResourcesFail = TRUE
  DocIds = {"d", "e"}
  DocValues <- MCDocValues
  IndexWriters = {"w", "x"}
  IndexReaders = {"r"}
  Requests <- MCRequests
  Rewrites <- MCRewrites
  RerankOrders <- MCRerankOrders
  CandidateK = 2
  ResultK = 2
  EmbedMayFail = FALSE
  Texts <- MCTexts
  LineRanges <- MCLineRanges
  MaxFileLength = 3
  GraphNames = {"n", "o", "p"}
  AliasSets = {{}, {"p"}}
  EntityTypes = {"concept", "secret"}
  DeniedTypes = {"secret"}
  RelationTypes = {"KNOWS"}
  MaxEntities = 3
  MaxRelations = 3
  SourceItems <- MCSourceItems
  MaxGraphCalls = 4
  GraphDepth = {0, 1, 2, 3}
  Servers <- MCServers
  ToolsOf <- MCToolsOf
  McpRuns = {"r", "s"}
  RunsOverlap = FALSE
  MaxConnects = 5
SPECIFICATION MCSpec
INVARIANTS PermitsConserved EntryMatchesUsers LimitsRespected
INVARIANTS RuntimeHolds  NothingLeftOut  
INVARIANTS FoundIsAllowed 
PROPERTIES KeepsPromise DurableKept RuntimeEnds
\* Every counter is bounded: each component stops.
CHECK_DEADLOCK FALSE
