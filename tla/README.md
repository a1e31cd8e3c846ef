# AxcAgentEngine in TLA+

AxcAgentEngine runs LLM agents: a host loads agents from YAML, starts runs of them
(`chat`, `stream`, `resume`), and each run alternates between asking an LLM and
executing the tool calls it answers with, possibly along a plan, possibly by calling
other agents. Everything happens in one process on one asyncio event loop. There are no
data races, and yet between any two `await`s other runs, the host's `cancel_run`,
timeouts and the garbage collector's finalizers may act. That is what these modules are
about.

Paths below are relative to `src/axc_agent_engine/`.

- [Inventory](#inventory): the parts, their state, operations and hazards
- [Modules](#modules): how each module corresponds to the code
- [Runs](#runs): what is checked, under which bounds
- [What the code does not keep](#what-the-code-does-not-keep)
- [Fairness](#fairness)
- [Proofs](#proofs)
- [Plan](#plan) and [what is not modelled](#not-modelled)

`tlasany M.tla` parses a module, `tlc -config X.cfg M.tla` checks a run (`runs` in
`PROJECT.json` names the pairs), `tlapm PartsProofs.tla` checks the proofs of a
module; the modules with proofs are those named `...Proofs`.

## Inventory

| Part | State | Operations | What makes it correct |
|---|---|---|---|
| Run admission (`runtime/concurrency.py`, `agent.py` `RunCoordinator`) | three kinds of semaphores; per-session gate entries with a reference count | enter engine, agent and session slot, time out, be cancelled, leave, be finalized | limits hold; no permit is lost or given twice; no two turns of one conversation overlap unless allowed; every run gets through or fails |
| Execution and run control (`core/executor.py`, `core/react_kernel.py`, `core/execution_run.py`, `runtime/run_control.py`) | round, messages, cancel flag, terminal event; per run id a token with contexts and tasks; checkpoints | start, round, end, fail, cancel, resume, nested start | a live run can be cancelled; a cancelled one does no more work; what the consumer hears is what the checkpoint says; every execution ends |
| Dispatcher and bus (`core/dispatcher.py`, `storage/in_memory.py`) | subscriptions with queues, one consumer task per agent, pending requests | request, consume, execute, reply, time out, stop, idle exit | one answer per request and never another's; slots are freed; circular calls do not block for ever; consumers stay in service |
| Plan-Observe-Replan (`planning/`) | plan with step statuses, current selection, replan count, round, checkpoints | announce, select, run shared or isolated steps, observe, replan, finalize, resume | nothing is built on a failed step; finished work is not lost or redone; bounded replanning; the run ends |
| Tool execution (`tools/orchestrator.py`, `batches.py`, `executor.py`, `core/react_loop.py`) | batches, each call's await, attempts, audit events, tool messages | begin, reject, run, retry, time out, complete, fail, hook raises, cancel | writes run alone and once; order between batches; every call of an answer has a result before the LLM is asked again; audit and result agree |
| Sessions (`core/session_manager.py`, `agent.py`) | an LRU cache of histories with a time to live; a persistence shared by all agents; a lock | get_or_create, restore, write back, save, get, remove, clear, expire, evict | a conversation is a log: turns are neither lost, repeated nor seen by another conversation |
| LLM calls (`core/llm_caller.py`, `core/stream_aggregator.py`, `llm/`) | attempt, partial message, emitted flag, bridge queue; pieces of tool calls by index; rate window | call, retry, fall back, idle timeout, emit, end; merge a chunk; wait for a place and a slot | what was shown is what is returned; only partial output costs the retry; parallel tool calls stay apart; the rate holds |
| Checkpoint store (`runtime/checkpoint.py`) | per run a list sorted by sequence; LRU of runs | save, latest, list, delete | the checkpoint of the highest sequence survives trimming |
| Workflow runtime (`workflow/`) | status per run | run, resume, pause, status | a resumption continues from the latest checkpoint |
| Artifact store (`storage/artifact_store.py`) | entries in LRU order, byte total | put, read, page, search, gc, delete | limits hold, durable entries stay, eviction ends, paging covers the content |
| Key-value, message and span stores (`storage/in_memory.py`) | ordered dictionaries with an age and a size limit | get, set, delete, save, clear | what was written last is there, unless it is old or was crowded out |
| Engine (`engine.py`) | agents by name, consumers, close state | instantiate, reload, unload, close | what is closed is not served; unload and close end |
| Plugin loading (`plugins/loader.py`) | the plugins made so far, dependency counts, Kahn's queue | make, initialize, sort, fail | each plugin comes after what it depends on; a circle is refused |
| Tool registry (`tools/registry.py`, `name_mapping.py`) | tools by name, aliases in both directions | register, freeze, register late, clear, look up | a model's name leads back to the tool it was made of |
| Human in the loop (`plugins/builtin/human_in_the_loop`) | futures and listeners per call, one queue per run | request, listen, respond, time out | a call is allowed only by its own approval |
| Collaboration, swarm | call depth; tasks of a dispatch | agent_call, orchestration tasks, swarm_dispatch | bounded depth, every task reported once |
| Multi-agent sessions, orchestration (`sidecar/multi_agent`, `orchestration`) | step, round, speakers, task status, worker task | create, schedule, ask, stop, cancel | turns are fair, a task's end is final, tasks end |
| Simulation (`sidecar/simulation`) | world, timeline, actors to go | select, observe, act, apply | the timeline replays to the world, the run stops |
| Evaluation (`sidecar/eval`) | suites and runs in LRU order | save cases, run, read results | the newest result of a case counts |
| Compression, memory, knowledge plugins | summary, buffer and boundary; memories per scope; local index, embeddings, keyword index | hooks and tools | nothing is forgotten or shown twice; the cache agrees with the store; a search is complete and filtered |
| Guards (`hooks`, `repetition_guard`, `risk_guard`), tracing | histories, stop flag; open spans, background saves | pre/post hooks | what is executed is what was judged; every span is accounted for |
| Skill, graph, output format plugins | table of skills; entities and relations; the answer in repair | load, reload, run a script; upsert, search; validate, repair | scripts are audited; limits and denied types hold; the contract holds |
| MCP plugin (`plugins/builtin/mcp`) | tools and connections; process, pipe and lock of a connection | connect, call, time out, reconnect | a run has all tools; an answer is that of its request |
| File and command tools (`builtin_tools`, `runtime/sandbox_*.py`) | a file and its `.tmp`; processes, venv, temporary scripts | read, write, append, edit; run, time out, cancel | an edit changes its place only; a finished command leaves nothing behind |
| HTTP API (`api/routes/chat.py`) | noted usage, chunks, response | check, stream, answer, fail | what a client is told agrees with the run |
| CLI, schemas, offline reports | none that changes during runs | validate, report | pure functions |

How they interact: a host call passes **admission**, reads the **session**, then the
**executor** registers with **run control** and loops; each round calls the **LLM** and
the **tool pipeline**, or hands over to **planning**; both save **checkpoints**; a tool
may `agent_call` through the **dispatcher**, whose consumer passes admission again and
executes under the caller's run id; after the last event the session is written back and
the slots are released. `Engine.cancel_run` cuts across all of it: it flags the contexts
and cancels the tasks of a run id, wherever they are suspended.

The hard behaviours, with their lines, are listed under `hazards` in `PROJECT.json`.
They come in a few kinds: a `CancelledError` at an await that nobody thought of; an
operation in two locked halves; state read before an await and written after it; the
order of checkpoints that are numbered by something else than time; cleaning up half of
what was acquired; tasks that outlive the one who waited for them.

## Modules

In every module a *phase* or *pc* value names the await at which a task is suspended;
what the code does between two awaits is one action. Comments starting with "Defect:" or
"For a mutant:" introduce forms of an operator that no specification uses: they are the
plausible bugs against which the properties were tried.

### Admission (with AdmissionPromise)

`Agent._execute_stream` enters `RunCoordinator.slots`: engine limiter, agent limiter,
session gate, in this order. `pc[r]` is the gate a run is at; `Pass`, `Acquire`,
`Suspend`, `Resume` are `ExecutionLimiter.slot` up to its `yield`, `GetEntry` and
`ReleaseEntry` the reference-counted entries of the session gate, `Abandon` a timeout or
cancellation while queued, `Leave` the end of the body. The semaphores are modelled as
CPython implements them: `value`, the FIFO of `waiters`, and the waiters whose future is
`granted`; a woken waiter that is cancelled passes the permit on. `slots()` collects the
gates in an `AsyncExitStack` nobody closes when a later gate raises; the gates already
entered come back when their suspended generators are finalized, at any later time
(`stranded`, `Finalize`).

`AdmissionPromise` says what admission is for: at most so many runs in the engine, on an
agent, in a conversation. `KeepsPromise` is the refinement.

### Execution

The executions of one run id: the host's own (`Executor.run_stream`), nested ones of
called agents, and resumptions. `contexts`, `tasks` and `cancelled` are the token of
`RunControlRegistry`. The phases before the `try` block (start hooks, start checkpoint)
and after it (end hooks) behave differently under cancellation, and the model keeps them
apart. `latest` is `CheckpointStore.latest`: the record with the highest sequence,
computed as the code computes it. `Drop` is a consumer that closes the event stream.

### Dispatcher (with CallPromise)

Host runs and `agent_call` requests between agents whose consumers execute one envelope
after the other. `call` is the caller's view, `run` the callee's. The session slot is
included since the circle "a calls b calls a" closes through it. The `gate` here is one
slot for each agent and conversation, the case of `max_session_concurrent_runs = 1` that
Admission covers in general. A `CancelledError` is thrown into whatever the task awaits:
an execution that swallows it, or the consumer loop itself. `CallPromise` says what
`request` promises: a call has one outcome, an answer of its own execution or a failure.

### PlanRun

The graph of `planning/graph_runtime.py`: announce, select (`DAGScheduler`), run shared
or isolated steps, observe, replan, finalize. Observations and replans of an LLM are
arbitrary members of small sets, with duplicated and missing ids among them; without a
utility model the heuristic observer and replanner apply. Steps are named by their
position in the plan; `next` and `seen` are the positions selected and those observed,
and an observation takes the first of those that are left (`IsFirst`), as the code's
loop over the selection does. A replan keeps the steps that are done or failed, in
their order, before the new ones (`KeptInOrder`). A checkpoint is saved where
`PORCheckpointer` saves one, numbered `round * 1000 + step id`; `Interrupt` is a crash
or a cancellation; `Resume` starts from the checkpoint with the highest sequence and a
round count of zero.

### ToolFlow

The tool calls of an execution's answers: batches (`partition_tool_calls`, which gives
each position of an answer the number of its batch), each call's
pre hooks, tool, post hooks and failure hooks, attempts of `SingleToolExecutor`,
`asyncio.wait_for` around the call, and `asyncio.gather` around the batch, which leaves
siblings running when one raises. With `Planned` the flows are those of a plan's steps,
so that a flow that raises does not end the execution. Capability policy, argument
validation and guards are one `Reject`.

### SessionStore (with SessionPromise)

One `SessionManager` per agent over one shared persistence. Operations run under the
manager's `asyncio.Lock`, which is FIFO; `queue` holds those that wait, and the one at
the head is one step, since nothing else can touch cache or persistence meanwhile.
`Read` is `get_or_create` and `restore_context`; `WriteBack` the second `get_or_create`
and the assignment that follows without an await; `Save` takes the lock again. Histories
are sequences of turns: which turns' messages they hold. Expiry happens in
`get_or_create` only (`Kept`). What stays of a dictionary's keys or of the queue when
some go is `Without`, given by the positions that stay. `SessionPromise` has no cache and no persistence: a
conversation is a log that a turn reads and is appended to.

### LLMCall

The LLM calls of one context, one after the other. `modes` says how each is made:
"bridged" through `StreamLLMBridge` (the rounds of an execution), "direct" without a
sink (a planner's call, the steps of a plan, the final answer), "sync" when the context
does not stream. `task` is the await of `LLMCaller.call`, `attempt` 1 and 2 the primary
provider and 3 the fallback, `heard` the chunks an attempt's aggregator has merged,
`emitted` the context's `stream_delta_emitted`. Of a chunk only its kind is kept, since
retry and emitter look at nothing else. A put that finds the queue full leaves the
remaining events in `out`. `reader` is the generator of the bridge as its consumer
drives it: it waits for the queue, is held at an event, or waits in `cancel_and_wait`
with the task `doomed` to a CancelledError. Providers are external: a stream gives
chunks, ends, breaks with a retryable error or fails.

### StreamMerge and RateLimiter

`StreamMerge` is `StreamAggregator.aggregate`: one action per chunk of the provider,
which interleaves the pieces of parallel tool calls, with an index or (as some providers
do) without. `toolCallsMap` is the map of the code, an id and the pieces so far;
`stream` says how the loop was left: whole, cut by a limit or silence (`partial`), or
raised.

`RateLimiter` is the sliding window and the semaphore behind it. Times are ticks, a call
that found the window full sleeps until `wake` or later, and looks again; `placedAt` is
a history of all places given, from which `PlacesPerWindow` counts any window, not just
the one the code looks at.

### ArtifactStore and InMemoryStores (with KeptItems)

In both an operation runs under a lock or without an await and is one action. The
exception is made on purpose: each turn of `_evict_to_limits` is an action (`EvictOne`,
`EvictionDone`), so that `EvictionEnds` can ask whether the loop ends. A content is the
sequence of its bytes, each given by the number of the character it belongs to
(`Encoded`), since `read` cuts text by characters and counts the next offset in bytes.
The count of inline bytes is a sum in the code and the cardinality of a set of pairs of
an artifact and a byte in the model (`InlineOf`), which adds up the same.

`InMemoryStores` keeps in `usage` the order of last use for ever, with which
`StoresKeepLatest` says who may be missing; its second part, the checkpoints, keeps in
`ckSaved` what a run saved since it came into the store, and `HighestKept` compares it
with what trimming left. `KeptItems` is the list comprehension and the removal from an
ordered dict that all of them, and Eval, are made of.

### BuiltinTools

Two parts. A command is prepared (the shared venv), spawned, runs, is logged and returned; beside
it is its process, which may fork a child that survives it. `command` is the tool call's
await, `process` and `strays` the operating system's side, `venv` what the commands
share: `python -m venv` makes `bin/python` first, which is all that `ensure_venv` looks
for. The file tools have one file and its `.tmp`; a write is two disk operations, and
`ProcessDies` may come between them. A text is a sequence of tokens, with a curly quote
that `file_edit` normalizes.

### CompressPlugin

Its first part grows a conversation the way the executor does and has the compressor's
pure pipeline as operators: normalize, the rounds of the recent window, durable results,
completing tool call pairs, packing into the token budget. Its invariants are about that
pipeline in every conversation that can come up. The second part is the state between
the calls: buffer, summary, durable results and the boundary that is saved each round
and loaded by the next process; summarizing awaits a model that may fail.

### MemoryPlugin and Knowledge

`MemoryPlugin` is one plugin object shared by an agent's runs: `inject_context` takes no
lock, extraction awaits a model under the lock, `_load_memories` swaps the working set
when the scope changes. Saving and loading go to a key-value store whose reads may fail.
`Knowledge` builds its local index once under an `asyncio.Lock` and asks the mounted
resources in turn; its second part is what is inside: documents, embeddings and keyword
index, with the await of the embedding client in the middle of `upsert_documents` and of
`search`.

### Approval and Guards

Each waiting call of `Approval` has a `listener` that takes an item off the queue it
shares with all others and puts back what is not its own. The host is external: it takes
requests off the same queue and answers each once, at any time. `Guards` is the chain
`PluginHookRunner` drives before a tool call: hooks that may rewrite the arguments,
repetition_guard, risk_guard, and the human, the only one that awaits.
`ExecutedAsJudged` relates the call that is executed to the one the later guards saw.

### Tracing, OutputFormat, Skill, Graph

`Tracing` opens and closes spans in the hooks of one execution, whose tool calls run
side by side; finished spans are saved by background tasks whose queue may be full.
`OutputFormat` validates the final answer and has it repaired up to `repair_attempts`
times. `Skill` loads skills from the catalog and the directories in order, again on
`reload_skills`, while scripts run; the disk changes at any time. `Graph` is one action
per tool call, since no handler awaits; `SearchIsComplete` compares the code's walk,
depth first with every entity expanded once, with reachability. The limit of ten
relations that the walk takes of an entity is not in the model.

### Mcp and McpConnection

`Mcp` connects to the servers on the first run of an agent, one after the other.
`McpConnection` is one stdio connection: `unread` and `pipe` are the two directions,
`requestLock` the lock its calls share, `lastId` the counter of the transport. A call
that is cancelled leaves its answer in the pipe; `AnswerIsOwn` says that nobody else
takes it for theirs.

### AgentEvents and Collaboration

`AgentEvents` refines one aspect of Dispatcher: the two listeners of `request`, one for
the reply and one for the events of the called run, and what they make of each other's
end. `Collaboration` follows the depth of nested calls, which travels in the metadata of
requests and through the tasks of the orchestration; its second part is one
`swarm_dispatch` at a time: tasks in the order of their priorities, a limit on how many run, `best_effort`
or `fail_fast`, a timeout.

### EngineLife, PluginLoading and ToolRegistry

`EngineLife` numbers the instances of agents: `agents` and `consumers` are the engine's
and the dispatcher's tables, which point to an instance each; a consumer task that the
table has forgotten lives on. `UnloadStarts` to `AgentCloses` are the awaits of
`unload`, `CloseStarts` to `CloseEnds` those of `close`, between which hosts may load
and unload. `PluginLoading` makes and initializes the plugins in the order of their
ranks and sorts them by Kahn's algorithm, a turn of its loop an action. `ToolRegistry`
has names as strings with an abstract sanitizer (`Sanitized`, `Suffixed`) and decodes a
call where the code does, twice.

### MultiAgent, Simulation and Eval

`MultiAgent` is an orchestration task with its worker and the session it runs: the
scheduler of the mode gives the speakers of a step, each is asked through the
dispatcher, the stop condition is looked at before every step. `Simulation` runs ticks:
selected actors observe, act, and their deltas change the world and the timeline in one
step. `Eval` has evaluators that save a suite, run its cases and read back, over one
store that drops the suites and runs used least recently.

### ChatApi

`POST /v1/chat/completions` around a run that is the environment here: it may report,
end and raise in any order. `noted` is the usage the handler has seen, `chunks` what it
streamed, `response` what it answered.

### MCAgentParts and MCEngineParts

The components above share no variables. Instead of an instance for each, two modules
extend them all: `MCAgentParts` what an agent is made of (Admission among them),
`MCEngineParts` the engine and the services around agents (Dispatcher among them). A
behaviour is a behaviour of one component, named by `part`; the others stay in a fixed
initial state. An invariant of a component is guarded by its `part` in `RuntimeHolds`,
`PluginsHold`, `NothingLeftOut` and `AgentsHold`; action properties hold trivially where nothing changes
and need no guard; fairness is that of the component's own `Fairness`, guarded. A
composite property says no more and no less than its parts: its definition names them,
each part is stated with a comment in the component's module, and every one of them was
tried against a "Defect:" or "For a mutant" operator of its component under these two
configurations, with a counterexample each.

## Runs

"Pass" runs are exhaustive for their instance.

| Run | Instance | What it shows |
|---|---|---|
| AgentParts | Admission with 4 runs, 2 agents, 1 shared session id and stateless runs, limits 3, 2, 1; or one of the 19 components of MCAgentParts with two or three of everything | all gates in force: permits are conserved, limits hold, the promise is kept, every run ends. Stores keep their limits and what must stay; rates hold; streams merge; commands leave nothing; plugins keep their invariants; eviction, commands and runs end |
| ExecutionSharedId | a run, the run of an agent it calls and its resumption, 1 round, 2 cancellations, 1 fault | all stay reachable, cancellation is honoured, checkpoint and outcome agree, all end |
| EngineParts | Dispatcher with host -> a -> b -> a in one conversation, 1 cancellation, stops, idleness; or one of the other 11 components of MCEngineParts | no deadlock beyond the timeout, slots freed, answers right. Closed agents are unserved, plugins and turns in order, names and answers lead back, every swarm task is reported, ends are final, unload, close, tasks and simulations end |
| PlanRuns | chains, joins, a fork and a diamond of up to 4 steps without an LLM; pairs of steps under adversarial observations and replans; 2 resumptions | nothing built on failure, full plans, durable progress, results survive bounded replanning, termination |
| ToolCalls | module ToolFlow; 3 reads and 2 writes in two answers, 2 retries, step timeouts, 2 raising hooks, 1 cancellation | write isolation, order, once-only writes, audit, answers, termination |
| LLMCalls | module LLMCall; 2 calls of any kind in one context, streams of up to 3 chunks, a fallback, a queue of 2 events | what was shown is what is returned; bridged calls keep their retry; calls end, also when the consumer leaves |
| SessionScopes | 2 agents, 4 conversations, any 4 of 5 turns, caches of 2; one of: a wait of one or two hours, a resumption, a reset, a clear, a get | no turn lost to eviction or expiry, isolation of agents, durability between write-backs |

Why these bounds are enough to meet the interesting cases: each hazard needs a certain
number of actors (three runs for a handed-over permit with a cancelled waiter, three
calls for a circle, two reads and a write for a batch boundary, two conversations more
than cache entries for an eviction), and each instance has one more than needed where
TLC can afford it. The counters bounded in guards (`MaxRounds`, `MaxCancels`,
`MaxFaults`, `MaxResumes`, `MaxTurns`, `MaxTime`, `MaxEvents`) are all constants, named
and commented where they are declared. `MaxRounds`, `MaxReplanCount`, `MaxRetries` and
the limits are the code's own configuration with smaller values. `CHECK_DEADLOCK FALSE`
is set where all tasks may be over: each such configuration says so.

The components in AgentParts and EngineParts are small enough to be exhausted in seconds
each, and their instances are chosen by what it takes to break them: three artifacts for
two places, so that the choice of the one to evict matters; two calls that wait for
approval and two request ids; three tool calls on an MCP connection, one cancelled, one
whose process is replaced and one retried; three plugins with every combination of
dependencies; a red, a blue and a judge who is due every third turn; two evaluators for
a store of one run. Where a property speaks of a configuration the documentation allows
but the code does not support, the instance stays on the supported side, and the next
section says what happens on the other.

SessionScopes runs with `RunLimit <= MaxSessions`, which is what makes `EvictedIsSaved`
pass: with more runs at a time than cache entries a session can be evicted between its
write-back and its save, which then does nothing. It also leaves out a cancellation
during the write-back (`"saving"` is not in `Interruptible`), after which a delivered
turn stays in the cache alone and can be lost with it. Time passes only while no
operation waits for the lock, a tick being an hour.

`OutcomeRecorded` speaks of a run until it calls an agent: from then on executions of
two agents save under one run id, numbered each by its own messages, and the latest
checkpoint may be the other's. `BuiltOnSuccess`, `WholePlanDone` and `ProgressIsDurable`
speak of plans without a utility model, whose observations an LLM cannot overrule.
`BridgedIsRetried` speaks of contexts without direct calls, for the reason
`LLMDirectRetry` shows. The queue of two events stands for one of 1000: thinking before
content makes three events of two chunks, so that puts wait.

## What the code does not keep

Each of these runs checks one statement of the documentation, a docstring or a test and
ends in a counterexample; `findings` in `PROJECT.json` quotes the statement.

| Run | Statement | What happens |
|---|---|---|
| ExecutionNestedCancel | cancelling a run reaches nested calls | one still in an inbox registers later under a fresh token |
| PlanFinished | a finished run's checkpoint is completed | the finalize checkpoint is never the latest |
| ToolTimeoutCancels | a step timeout is a retryable tool failure | it cancels the whole execution |
| LLMDirectRetry | an LLM call is given up only after partial output | the flag that an earlier call of the plan gave content, which only the bridge clears, denies it to later ones |
| ToolOverlap | writes run serially | after a raising hook a plan's next write overlaps an orphaned read |

The models contain, without a run of their own, further behaviour of this kind: a run
cancelled in its start hooks ends without a `cancelled` event and leaves its token to a
later resumption; one cancelled in its start or end hooks as a nested run ends the
consumer task that executes it, for good; a resumed plan counts rounds from zero, so its
checkpoints sort below the one it came from and a second resumption does finished steps
again; a consumer that is stopped while it executes swallows the cancellation and goes
on; a cancelled nested run is answered with an empty success; a step two dependencies
behind a failed one stays pending when the plan is finalized; a tool call left behind by
a raising sibling is not reached by `cancel_run`; a turn under way writes the history
back that a reset removed; the bridge of an LLM call whose consumer left its queue full
is not released (the exception in `CallEnds`).

The modules of AgentParts and EngineParts contain more of it. Some is the reason for a
constant, which the configurations set so that the stated property holds; with the other
value TLC finds the counterexample:

| Property and constant | What happens with the other value |
|---|---|
| `AllowedIsApproved`, `IdsReused = FALSE` | a request id is made of `id(arguments)`: a late answer allows the next call that got the same address |
| `CallsAreAnswered`, `MixedResults = FALSE` | a window that keeps one durable result of an answer keeps the answer, but not the results of its other calls |
| `CacheIsStored`, `MaxRestarts = 0` | the context is injected before the scope is loaded: after a restart the empty list it finds becomes the cache of the scope, and what is stored is never loaded |
| `RunsHaveAllTools`, `RunsOverlap = FALSE` | two first runs connect at once; the second empties the list of tools the first is filling |
| `ShownIsFound`, one source in `Chunks` | chunks are numbered within their source and looked up in the list of all: with two sources the context shows other chunks than were found |
| `FoundIsAllowed`, no position twice in `RerankOrders` | a model that reranks may name a document twice, and nothing drops the second: the answer shows it twice |
| `KeywordsAreCurrent`, `EmbedMayFail = FALSE` | a failed embedding leaves documents in the table that the keyword index was not rebuilt from |
| `NothingForgotten`, one conversation in `Talks` | buffer, summary and durable results of a second conversation mix with the first's |

Further properties are defined and commented in their modules and checked by no run,
because what the code does refutes them:

- `NothingOutlives`, `VenvIsWhole` (BuiltinTools): the process of a cancelled command runs
  on, a child survives the timeout of its parent, a half-made venv passes for a whole
  one;
- `OneEndShown` (AgentEvents): a caller may be shown a timeout and then the completion;
- `ChainBounded` (Collaboration): the speakers of an orchestration task count the depth
  anew;
- `CancelledIsUndone` (Collaboration): the requests of a cancelled dispatch go on in their
  agents;
- `ExecutedOnce`, `StoppedOnUnload` (EngineLife): loading a name again leaves the old
  consumer subscribed beside the new one, and unloading stops the new one only;
- `UsageIsSent`, `CompletedIsDone` (ChatApi): a failed or cancelled stream sends no
  usage; a cancelled run is answered with an empty completion;
- `ShownIsOwn` (MemoryPlugin): a context is made of the memories of whichever scope was
  loaded last, which may be another user's;
- `BoundaryIsOwn` (CompressPlugin): with two conversations, one's rounds are saved as
  the other's;
- `DeniedStaysOut`, `AddingKeepsOthers` (Graph): the entity is stored before its type is
  refused; an id is made of the number of rows, so after a deletion a new row takes the
  place of another;
- `ConnectionsAreOwned` (Mcp): a start that fails at a later server leaves the
  connections to the earlier ones open, and the next start replaces them.

`PagesInOrder` asks for completeness of one-byte text only: a text of longer characters
is cut by characters and continued by bytes, so pages skip some.

`SearchIsComplete` promises all relations within a depth of two only: deeper, an entity
that the walk meets first at the end of a long way is not expanded again when a short
way leads to it, so that a search to the default depth of three may miss relations that
are near enough.

Without a property of their own: `partial` of a cut stream is read by nobody, and
repeated usage chunks are added up; a queue of listeners may swap each other's answers
for ever; the repetition guard's stop flag is never reset and its histories are shared
by all runs; `reload_skills` that fails half way leaves half a table; with `auto_repair`
off a wrapped JSON is delivered as it is; a failed embedding leaves documents that
keyword search finds and vector search does not; a load that fails leaves the plugins
before it initialized; unloading a busy agent waits for up to half an hour; `close`
raises "changed size" when a host loads meanwhile; a simulation that selects only actors
without a policy ticks for ever (in `Setups` every selection meets one with a policy);
the judge interval of a red-blue session counts steps, not rounds.

## Fairness

Safety needs none. The liveness properties use weak fairness only, per task, and only
for what the event loop or the interpreter guarantees:

- asyncio runs every task that is ready, in FIFO order, so a task that stays ready takes
  its step (`Step(r)`, `Step(e)`, `CallStep`, `ConsumerStep`, `Node`, `LoopStep`);
- an admitted run ends its body (`Leave`) and what it strands is finalized (`Finalize`):
  CPython finalizes unreachable generators through the event loop's hooks;
- a `request` has a timeout, so it does not wait for ever (`Timeout` of Dispatcher);
- a tool is assumed to return or to exceed its own timeout, an LLM turn to return or
  fail; a stream gives a chunk within `stream_idle_timeout` or is given up, and has at
  most `STREAM_MAX_CHUNKS` (`TaskStep` of LLMCall);
- the consumer of an LLM call's events goes on reading or closes the stream
  (`ReaderStep`);
- a loop that holds the store's lock goes on (`EvictOne`, `EvictionDone`), a command's
  own task goes on and has a timeout (`CommandStep`);
- `unload` and `close` go on from each of their awaits, an execution and a consumer's
  wait for an envelope end (`EngineFairness`);
- an orchestration worker goes on: a request it waits for is answered or times out
  (`WorkerStep`); a simulation's policies answer (`SimulationNext`).

Nothing is assumed of the host: cancellations, resets, stops, resumptions and
interruptions have no fairness. Where a property holds only since a queue timeout may or
may not be configured, the wait is left without fairness.

## Proofs

What the runs show on an instance, these theorems show for all constants that satisfy
the assumptions of the modules: any number of runs, agents, calls, steps, rounds,
cancellations and faults. The assumptions say what a constant is (finite sets, natural
numbers, functions between the right sets); where one says more, it is named below.
Every proof follows one pattern. The property is not inductive as it stands, so an
invariant `IInv` adds what else is true; `IInv` was first checked with TLC as an
invariant of the component's run. One lemma for each action shows that it keeps `IInv`,
and the theorem follows.

### ExecutionProofs

| Theorem | Statement |
|---|---|
| `AlwaysCancellable` | `Spec => []RunningIsCancellable` |
| `CancellationHonoured` | `Spec => CancelHonoured`, an action property |
| `OutcomesRecorded` | `Spec => OutcomeRecorded`, an action property |

`Registered` ties the phase of an execution to the token of its run. `MarkedIsPending`
says that a context marked cancelled has a CancelledError on its way until it leaves the
kernel: without it nothing would keep a marked execution from beginning another turn.
`OutcomeRecorded` needs that the checkpoint saved last is the one `latest` finds, which
is a question of sequences: `SequencesGrow` says that, as long as no agent was called,
the latest checkpoint is numbered by its own size and round and that no live execution is
behind it; `OneOfTheHost`, that the host's executions follow one another, so that only
one of them counts.

### PlanRunProofs

| Theorem | Statement |
|---|---|
| `BuildsOnSuccess` | `Spec => []BuiltOnSuccess` |
| `FinishesWholePlan` | `Spec => []WholePlanDone` |
| `DurableProgress` | `Spec => ProgressIsDurable`, an action property |
| `ReplanKeepsResults` | `Spec => ResultsSurviveReplan`, an action property |

`PlanAssumption` asks of plans what `validate_plan` accepts: ids of their own, known
dependencies and no circle, the last as a rank of the steps that every dependency
lowers. Replans need not be valid, only sequences of steps. Without a utility model
(`~utility`) the invariant is `Followed`: the plan, and the plan in the latest
checkpoint, say of each step what happened to it (`Honest`), neither is behind
(`Ahead`), and the node of the graph tells which steps may be running (`PhaseState`).
Both plans are needed, since `Resume` continues from the checkpoint. That nothing is
left when the selection comes up empty is an argument about the least: among the steps
still pending, one of the lowest rank has all its dependencies settled, so either one of
them failed or the step is ready. `ReplanKeepsResults` is about the kept steps and holds
with an LLM too.

### ToolFlowProofs

| Theorem | Statement |
|---|---|
| `OrderKept` | `Spec => []EarlierCallsDone` |
| `WritesOnce` | `Spec => []WriteOnce` |
| `AuditMatches` | `Spec => []AuditAgrees` |
| `WritesAlone` | `~Planned` implies `Spec => []WriteAlone` |
| `AnsweredBeforeAsked` | `~Planned` implies `Spec => ToolCallsAnswered` |

For any answers of the model, any calls that are read-only and any retries. The
partition is part of what is proved: lemmas about the batch numbers say that they grow
along an answer and that a call that writes shares its number with no other.
`BatchesInOrder` says that calls of earlier batches are done and those of later ones
wait; `NotTried` and `FailureRecorded` what the attempts and the audit of a call are in
each phase. The last two theorems speak of executions that are not a plan's, as the
properties do: a plan goes on after a flow that raised and leaves reads behind (the run
ToolOverlap). For the others `RunningInFlow` adds that what is under way belongs to one
batch, and `FlowsAnswered` that all earlier answers have their tool messages.

### LLMCallProofs

| Theorem | Statement |
|---|---|
| `ShownAsReturned` | `Spec => []ShownIsReturned` |
| `RetriedBeforePartial` | `Spec => []BridgedIsRetried` |

For any sequence of calls, any number of chunks and any queue. The events of a call are
one stream: shown, queued, and held by a put that found the queue full. `Conserved` says
that its content is that of the chunks the attempt has merged, `OwnAttempt` that none of
it is of an earlier attempt; both hold while the consumer stays, and `EndIsLast` and
`Delivered` carry them to the end of the stream. Why an attempt that emitted nothing
can be started again is `SilentUnlessEmitted`, and that the flag is this call's own and
not left over is `FlagIsOwn`, which fails for contexts with direct calls (the run
LLMDirectRetry); `BridgedIsRetried` speaks of the others.

### SessionStoreProofs

| Theorem | Statement |
|---|---|
| `AllIsSaved` | `Spec => []SavedAfterTurn` |
| `EvictionSavesAll` | `Spec => EvictedIsSaved`, an action property |
| `SessionsKeepPromise` | `Spec => KeepsPromise`, that is, SessionStore implements SessionPromise |

All three assume `SessionsFit`: there is a persistence and it has room for every
conversation (1000 of them unless configured), a conversation runs one turn at a time
(the default of `max_session_concurrent_runs`), no more runs execute than a cache has
places (1000 by default; the host has to set `max_engine_concurrent_runs`, whose default
is no limit), and a save that waits is not interrupted. Agents, conversations, turns,
resumptions, resets and the time to live are any.

The critical stretch is the one between the write-back and its save, when the lock is
free and the history in the cache alone. `SavesInTime` is why it survives: the places
behind the conversation in the LRU order and the turns' operations ahead of the save in
the lock's queue are together fewer than `MaxSessions`. An operation that runs pushes at
most one conversation behind and leaves the queue, so the sum does not grow; when the
save begins to wait nothing is behind, and ahead of it are operations of other turns
under way, one each (`FewWait`). A conversation evicted for its place has
`MaxSessions - 1` others behind it, and the operation that evicts it is itself ahead of
the save. Expiry cannot hit it either, since no time passes while an operation waits.
`QueueFollowsPhase` ties the queue to the phases, `HistoriesOfEnded` bounds the
histories, and `SeenIsLog` says that a turn that was not overtaken has read what its
conversation still consists of, which makes its write-back the `End` of SessionPromise.
The first half of the module is about sequences: what stays of an OrderedDict's keys or
a lock's queue when some go, and in what order.

### PartsProofs

| Theorem | Statement |
|---|---|
| `TypeCorrect` | `Spec => []TypeOK` of Admission |
| `NoPermitLost` | `Spec => []PermitsConserved` |
| `EntriesExact` | `Spec => []EntryMatchesUsers` |
| `AdmissionLimits` | `Spec => []LimitsRespected` |
| `Implementation` | `Spec => KeepsPromise`, that is, Admission implements AdmissionPromise |
| `ApprovedOnly` | `~IdsReused` implies `ApprovalSpec => []AllowedIsApproved` |
| `OnlyJudgedExecuted` | `GuardsSpec => []ExecutedAsJudged` |
| `CacheMatchesStore` | one scope and no restart imply `MemorySpec => []CacheIsStored` |
| `SearchesAreWhole` | `KnowledgeSpec => [](KnowledgeTypeOK /\ AnswersAreWhole)` |
| `AllowedIsFound` | rankings without repetition imply `IndexSpec => []FoundIsAllowed` |
| `GraphStaysSound` | `GraphSpec => [](GraphTypeOK /\ GraphIsSound)` |
| `ToolsAreThere` | `~RunsOverlap` implies `McpSpec => [](McpTypeOK /\ RunsHaveAllTools)` |
| `RuntimeStays` | `IndexGiven` implies `MCSpec => []RuntimeHolds`, of AgentParts |
| `DurableStay` | `MCSpec => DurableKept`, of AgentParts |
| `PluginsStay` | `PluginsMayRely` implies `MCSpec => []PluginsHold`, of AgentParts |

Components of AgentParts. `PermitsConserved` says for each semaphore that the permits free, on their way and held
add up to its limit. To carry it through a release one must know that the releasing run
holds the semaphore, which is `GatesHeld` (where a run is tells what it holds, and at
which entry it waits); through `ReleaseEntry`, that no user is left when an entry goes,
which is `EntryMatchesUsers` and `EntriesNamed` (an entry is named after a run that
created it, and two conversations never share one). `Release` and `WakeAll`, which five
actions share, have lemmas of their own. `AdmissionLimits` then follows by counting: an
executing run holds each of its gates, and the holders of a semaphore are at most its
limit. The refinement uses the limits in the next state: a step that makes a run
executing is `Admit`, since the room for it was there.

`QueueIsTrue` says of everything in the shared approval queue,
whoever has put it back, that a request is still unanswered and an answer is the one the
host gave; `OneCallPerId` needs `~IdsReused`. For the guards, `HistoryCounts` counts:
the calls of a tool that are executed or asked for are at most the entries of the shared
history. The working memories, the cached ones and the stored ones change together, in a
process that serves one scope and was not restarted.

- *Knowledge.* `SearchOK` says of a search in each phase what it has found so far: once it
  is past the local index, all local documents near to its query. A run that mounts or
  embeds holds the lock and finds the index not ready. A context shows what was found if
  there is one source (`OneSource`).
- *The index.* `SearcherOK` follows the lists of a search through its awaits: whatever is
  ranked by words or by vectors passed the filter (`RankingOK`), the fusion takes each
  document once, at its last appearance (`LastHitsFacts`), and a reranker picks from
  what it is given. `KeywordsAreCurrent` rests on deletions rebuilding the index from the
  table while a write waits for embeddings.
- *The graph.* A new row takes the place of one with its id, which is a number of rows
  and may be taken (`PutRowIs`); that neither two relations of one meaning nor two
  entities of one name and type come up, and that a deleted entity takes its relations
  along, is `GraphIInv`. The items of a source are stored by a recursive function, about
  which `StepsStay` of RuntimeProofs says that what each step keeps holds at the end.
- *mcp.* `McpProgress` says which servers have been connected at each point of a start,
  and that their tools are in the table.

`RuntimeStays` and `PluginsStay` put components together: their invariants are conjoined
in `RuntimeIInv` and `PluginsIInv`, a step of `MCNext` is a step of one of them and a
stutter of the others, and each of them keeps its own. `PluginsMayRely` gathers what the
components need: the values of the constants that [What the code does not
keep](#what-the-code-does-not-keep) names, all of which AgentParts.cfg gives, and none
of which bounds a number of runs, calls, rounds, documents or servers.

### RuntimeProofs

| Theorem | Statement |
|---|---|
| `CommandsStayClean` | `SandboxSpec => [](SandboxTypeOK /\ CommandsLeaveNothing)` |
| `PlacesStayWithin` | `RateSpec => [](RateTypeOK /\ PlacesPerWindow)` |
| `StoresHoldLatest` | `StoresSpec => [](StoresTypeOK /\ StoresKeepLatest)` |
| `LatestIsKept` | `CheckpointSpec => [](CheckpointTypeOK /\ HighestKept)` |
| `PiecesStayApart` | `IndexGiven` implies `StreamSpec => [](StreamTypeOK /\ CallsKeptApart /\ WholeIsAll /\ StreamBounded)` |
| `ArtifactsInOrder` | `ArtifactSpec => [](ArtifactTypeOK /\ LimitsHold /\ PagesInOrder)` |
| `EditsStayLocal` | `FileSpec => [](FileTypeOK /\ EditIsLocal /\ WholeIsWhole)` |
| `SpansStayAccounted` | `TraceSpec => [](TraceTypeOK /\ SpansAccounted)` |
| `CallsStayAnswered` | `ResultsAlike` implies `ContextSpec => [](ContextTypeOK /\ CallsAreAnswered)` |
| `NothingIsForgotten` | one conversation implies `CompressSpec => [](CompressTypeOK /\ NothingForgotten /\ BoundaryIsOwn)` |
| `ScriptsStayAccounted` | `SkillSpec => [](SkillTypeOK /\ SkillsAccounted)` |
| `ContractsAreKept` | `FormatSpec => [](FormatTypeOK /\ ContractKept)` |

- *The sandbox.* `CommandInPlace` ties a command to its process and its script: a process
  that makes the venv is waited for or was given up, and a script is there only for a
  command that is to read it.
- *The rate limiter.* `PlacesPerWindow` speaks of every window, the code looks at one.
  `StampsTell` joins them: for each moment of the last minute, no more calls were given a
  place since than there are timestamps.
- *The bounded stores.* `Held` says of a store that it has each of its keys once and is
  the end of its history of use. That removing a key, moving one to the end and giving up
  the first ones keep it rests on the lemmas about `Omitting` and `Capped`, which the
  artifact store uses as well.
- *The checkpoints.* `Highest` says which of all the saves a run's items are, through a
  function from their places into the history. A new checkpoint is inserted where the
  stable sort puts it (`InsertedLemma`), and only the first item can be one too many.
- *The merging of streams.* The message is at all times what the provider has sent of
  each call (`MessageOf`), by induction over the pieces of a chunk. It needs a provider
  that numbers its calls: without `index` all pieces go to one entry, and the theorem
  would be false. `IndexGiven` is that assumption; nothing in the code checks it.
- *Artifacts.* `StoreOK` counts the bytes held: the store's counter is the size of the
  set of pairs of an artifact and one of its bytes. `ReaderOK` says what a reader has
  seen. A page of a text may end beyond its characters, as its next offset counts bytes;
  what holds is that nothing seen comes again and, with characters of one byte, that all
  up to the offset was seen. For `DurableKept` one needs that a durable entry never
  expires (also in `StoreOK`), that eviction looks for one that is not durable, and that
  `delete_run` passes over them.
- *Files.* An edit copies what it does not change: by induction over the turns of the
  search (`ScanStep`), the copy of an edit of one place is the text before the place, the
  new text and the text after it (`Local`). The ranges of lines that are shown, clamped and in order, are the whole
  only if their lines are `1..total`.
- *Tracing.* `Finishes` says what may have been finished at each point of a round, so
  that a span that finishes now is a new one; with it each counter grows by the spans
  that take its way.
- *The window.* In a conversation an answer is followed by its results (`AnswerOK`,
  `ResultOK`). A group of the packer has either all of them or none, and the window is a
  union of groups; `ResultsAlike` is needed since a durable result is kept for itself.
- *Compression.* `TalkOK`: summary and buffer cover every round that was saved, both in
  the process and in the boundary from which a new process goes on, and none of them, nor
  a durable result, is of another conversation.
- *Skills.* `GoodTables` are the tables the policy allows; loading is a fold over the
  places (`LoadedUpTo`), each of which adds, replaces or refuses (`LoadOneIs`).
- *The format.* A repair begins only where the answer is not valid and the contract asks
  for one, within the number of attempts.

Lemmas at the head of the module are about sequences (`Omitting`, `Keeping`, `Capped`,
suffixes) and about recursive functions: `StepsExist`, `AreSteps` and `StepsStay` say
that a function given step by step exists, and that what its first value has and each
step keeps, its last value has.

### EngineProofs

| Theorem | Statement |
|---|---|
| `AgentsStay` | `SuffixesTellApart` and `FormsAreOwn` imply `MCSpec => []AgentsHold` |
| `EndsStay` | `MCSpec => EndedStays`, an action property |
| `GateFollowsRun` | `Spec => []GateOfLiveRun` of Dispatcher |
| `Implementation` | `Spec => KeepsPromise`, that is, Dispatcher implements CallPromise |
| `EventsStayInOrder`, `QuietWhenAnswered` | AgentEvents: `EventsAreInOrder`, `QuietAfterAnswer` |
| `ClosedWhenEnded` | EngineLife: `ClosedIsUnserved` |
| `PluginsStartInOrder` | PluginLoading: `PluginsInOrder` |
| `NamesStayApart`, `MeantIsCalled` | ToolRegistry: `NamesLeadBack`, `CalledIsMeant` |
| `AnswersAreOwn` | McpConnection: `AnswerIsOwn` |
| `TurnsStayFair`, `ResultsStay` | MultiAgent: `TurnsAreFair`, `FinalStays` |
| `CallsStayBounded`, `TasksAreReported` | Collaboration: `CallsAreBounded`, `EachTaskReported` |
| `TimelinesReplay` | Simulation: `TimelineReplays`, `StopsAtLimit` |
| `NewestResultsCount` | Eval: `ResultsAreLatest` |
| `ToldAgrees` | ChatApi: `AnswerAgrees` |

Everything the run EngineParts checks but the liveness. Each component has its own
inductive invariant (`EventsIInv`, `EngineIInv`, `LoadIInv`, `RegistryIInv`, ...) and the
three facts about it; the last section puts them together. `PartsIInv` is
the conjunction of all of them: a step of `MCSpec` is a step of the component that
`part` names while every other one stutters, so each conjunct is kept by the lemma of
its component, and a component that does not run keeps its invariant all the same.

*Dispatcher.* For any graph of calls, circles included, and any consumers, at most one for an agent.
A slot is freed by whatever ends its run, and that no run is begun twice rests on the
inboxes: they hold queued calls to their own agent (`InboxQueued`), each once
(`InboxOnce`). A run waits for one call at a time (`OneRequest`), so that a failing
request is that of the run that fails.

*AgentEvents.* While a request waits, what was published of its run is what the callback
was shown followed by what still waits in the queue of events (`QueueContinues`), over
timeouts and cancellations of other requests of the same consumer.

*EngineLife.* As long as the engine is open, the consumer of a name is that of the agent
loaded under it (`ConsumersOfAgents`), so that stopping the one ends the service of the
other.

*PluginLoading.* `Sorting` is the invariant of Kahn's algorithm: `waiting` of a name is
what it depends on and is not placed, the queue holds exactly the names left that wait
for nothing, and what was placed came after all it depends on and after what ranks lower
and was not waiting (`Laid`). If the queue runs empty while names are left, each of them
waits for another one that is left: the circle `PluginsInOrder` speaks of. Sorting by
rank is a selection by counting (`Listing`), about which the first lemmas are.

*ToolRegistry.* The registry makes names for the model by sanitizing, and by a hash of
the name where two collide; `AliasesAgree` says that the two dicts are each other's
inverse. `SuffixesTellApart` says that different names never get the same hashed form and
that no hashed form is another name's sanitized one; the registry assumes it.
`FormsAreOwn` says that no form of a name is itself the name of another tool: the
registry does *not* check that, and `CalledIsMeant` fails without it, since `decode` is
applied twice.

*McpConnection.* `AnswerIsOwn` is inductive with the count of what was sent
(`SentByTries`): a call reads under the lock until it meets its own id, and passes over
late answers to requests that were cancelled.

*MultiAgent.* `TurnsTaken` says for each point of a round how far each participant is
ahead of the rounds that are complete. *Collaboration* counts along the chain of
callers: the counter of a run is its depth, and one more while it waits for a call.
*Simulation* and *Eval* are about sequences: what the timeline adds and removes up to a
step, and which of a store's entries are a suffix of what was written. *ChatApi* ties the
chunks already sent to the state of the run (`StreamIsOpen`, `StreamIsClosed`).

### What stays with TLC

- Liveness under fairness: that runs, calls, plans, tools and tasks end, and anything
  about `ENABLED`.
- `NothingLeftOut`: that the window uses its budget (`WindowIsUsed`), which is a greedy
  choice computed by a fold over sums of tokens, and that a search of the graph finds
  what is near (`SearchIsComplete`), a recursion over the relations. Both say what a
  computation over data returns for every input, which takes induction over the data.
- The properties that [What the code does not keep](#what-the-code-does-not-keep) lists
  are not theorems, of course; the hypotheses of the theorems say where they begin.

## Plan

Done: Admission, Execution, Dispatcher, PlanRun, ToolFlow, LLMCall and SessionStore with
their proofs; the stores, rate limiter, stream merging, plugins, tools, engine
lifecycle, orchestration, simulation, evaluation and chat API, gathered in AgentParts
and EngineParts, with proofs of every safety invariant these two runs check but
`NothingLeftOut`. Next, in this order:

1. Theorems: `WindowIsUsed` of CompressPlugin, whose fold takes one group after the other
   and would need sums of tokens over groups; the limit of `Expand` of Graph from above
   (a search finds nothing far).
2. Compositions: EngineLife with Dispatcher (a reload under requests), Approval with ToolFlow
   (an approval that outlives its tool's timeout), the checkpoints of
   InMemoryStores under Execution.
3. Pure algorithms against reference definitions: tool-argument validation, the JSON
   extraction of OutputFormat.
4. What is left of the components that are only partly modelled: see their notes in
   `PROJECT.json`.

## Not modelled

Text: prompts, summaries, schemas, formatting and token counts, except where a number of
messages orders checkpoints or a count of tokens decides what is sent; the similarity
and the scores of texts are any. What is outside the process: files and processes appear
as what the tools can see of them, model providers, HTTP servers and MCP servers as an
environment that may do anything its protocol allows. What is built once before the
first run and cannot go wrong by order: YAML templates, configuration schemas, plugin
discovery by entry points. Offline reports over recorded runs: failure mining,
distillation, cost optimization, agent selection. Filters of text: the safety,
post-process and reflexion plugins. The CLI and the routes of the API beside chat. The
components in `PROJECT.json` say for each part what is left out and why.
