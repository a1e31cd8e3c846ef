----------------------------- MODULE MCEngineParts -----------------------------
(***************************************************************************)
(* The engine and the services around agents, on small instances: agents   *)
(* calling each other, the engine's loading and unloading, plugins and     *)
(* tools, sessions of several agents, swarms, simulations, evaluation and  *)
(* the HTTP API.  A behaviour is one of any one of these components, named *)
(* by part, while the others stay as they began.                           *)
(***************************************************************************)
EXTENDS Dispatcher, AgentEvents, EngineLife, PluginLoading, ToolRegistry,
  McpConnection, MultiAgent, Collaboration, Simulation, Eval, ChatApi

CONSTANTS q1, q2, q3, ca, cb, a, b

(* q1: the host runs a.  q2: a, in q1, calls b.  q3: b, in q2, calls a     *)
(* back, whose session slot q1 still holds.                                *)
MCCaller == [q \in Calls |-> CASE q = q2 -> q1 [] q = q3 -> q2 [] OTHER -> None]
MCCallee == [q \in Calls |-> IF q = q2 THEN b ELSE a]
MCServes == [c \in Consumers |-> IF c = ca THEN a ELSE b]

(* Three plugins; what they depend on, in every combination.               *)
MCConfigured == <<"p", "q", "r">>
MCDepends == {{}, {"p"}, {"q"}, {"p", "q"}}
MCPlain == [enabled |-> TRUE, rank |-> 1, depends |-> {}]

(* Two names that have one sanitized form, and one that needs none.        *)
MCSanitized(n) == IF n \in {"a.b", "a/b"} THEN "a_b" ELSE n
MCSuffixed(n) == CASE n = "a.b" -> "a_b_1" [] n = "a/b" -> "a_b_2" [] OTHER -> "c_3"

(* A red, a blue and a judge; the first is the supervisor too.             *)
MCMembers == <<"m1", "m2", "m3">>
MCTeam == [m \in {"m1", "m2", "m3"} |->
             CASE m = "m1" -> "red" [] m = "m2" -> "blue" [] OTHER -> "judge"]

MCPriority == [t \in {"t1", "t2", "t3"} |-> CASE t = "t1" -> 2 [] t = "t2" -> 1 [] OTHER -> 3]

MCActors == <<"m1", "m2">>
MCSetup(all, policies, max) == [all |-> all, policies |-> policies, max |-> max]
MCSetups == {MCSetup(TRUE, {"m2"}, 2), MCSetup(FALSE, {"m1", "m2"}, 2),
             MCSetup(TRUE, {"m1", "m2"}, 1), MCSetup(FALSE, {"m1", "m2"}, 0)}
MCDeltas == [added : SUBSET {"f", "g"}, removed : SUBSET {"f", "g"}]

MCCases == <<"k", "l">>
MCRequest == [flaw |-> "none", stream |-> FALSE, usage |-> FALSE]

VARIABLE part      (* the component that runs in this behaviour           *)

Parts == {"calls", "events", "engine", "plugins", "tools", "mcp", "team",
          "callers", "swarm", "simulation", "eval", "chat"}

(* What a component may start from is not told apart where it only waits.  *)
MCInit ==
  /\ part \in Parts
  /\ Init
  /\ EventsInit
  /\ EngineInit
  /\ (part # "plugins" => about = [n \in PluginNames |-> MCPlain]) /\ LoadInit
  /\ RegistryInit
  /\ McpConnInit
  /\ (part # "team" => mode = "parallel") /\ MultiAgentInit
  /\ (part # "callers" => calledRuns = <<NewRun("a", 0, 0, 0)>>) /\ CollabInit
  /\ (part # "swarm" => callDepth = 0) /\ SwarmInit
  /\ (part # "simulation" => setup = MCSetup(TRUE, {"m2"}, 2)) /\ SimulationInit
  /\ EvalInit
  /\ (part # "chat" => request = MCRequest) /\ ChatInit

MCNext ==
  /\ UNCHANGED part
  /\ IF part = "calls" THEN Next ELSE UNCHANGED vars
  /\ IF part = "events" THEN EventsNext ELSE UNCHANGED eventVars
  /\ IF part = "engine" THEN EngineNext ELSE UNCHANGED engineVars
  /\ IF part = "plugins" THEN LoadNext ELSE UNCHANGED loadVars
  /\ IF part = "tools" THEN RegistryNext ELSE UNCHANGED registryVars
  /\ IF part = "mcp" THEN McpConnNext ELSE UNCHANGED mcpConnVars
  /\ IF part = "team" THEN MultiAgentNext ELSE UNCHANGED maVars
  /\ IF part = "callers" THEN CollabNext ELSE UNCHANGED collabVars
  /\ IF part = "swarm" THEN SwarmNext ELSE UNCHANGED swarmVars
  /\ IF part = "simulation" THEN SimulationNext ELSE UNCHANGED simVars
  /\ IF part = "eval" THEN EvalNext ELSE UNCHANGED evalVars
  /\ IF part = "chat" THEN ChatNext ELSE UNCHANGED chatVars

mcVars == <<part, vars, eventVars, engineVars, loadVars, registryVars,
            mcpConnVars, maVars, collabVars, swarmVars, simVars, evalVars,
            chatVars>>

(* The fairness of each component, where it is the one that runs.          *)
MCFairness ==
  /\ \A q \in Calls : /\ WF_vars(part = "calls" /\ CallStep(q))
                      /\ WF_vars(part = "calls" /\ Timeout(q))
  /\ \A c \in Consumers : WF_vars(part = "calls" /\ ConsumerStep(c))
  /\ WF_engineVars(part = "engine" /\ StopNext)
  /\ WF_engineVars(part = "engine" /\ StopAwaited)
  /\ WF_engineVars(part = "engine" /\ CloseAgents)
  /\ WF_engineVars(part = "engine" /\ (CloseNext \/ CloseEnds \/ CloseRaises))
  /\ \A i \in 1..MaxInstances :
       /\ WF_engineVars(part = "engine" /\ i \in Instances
                         /\ (Subscribes(i) \/ HandleEnvelope(i) \/ EnvelopeHandled(i)))
       /\ WF_engineVars(part = "engine" /\ i \in Instances /\ IdleEnds(i))
       /\ WF_engineVars(part = "engine" /\ i \in Instances
                         /\ (TaskAwaited(i) \/ AgentCloses(i)))
  /\ WF_maVars(part = "team" /\ WorkerStep)
  /\ WF_simVars(part = "simulation" /\ SimulationNext)

MCSpec == MCInit /\ [][MCNext]_mcVars /\ MCFairness

--------------------------------------------------------------------------------
(* The invariants of the components of this run, see their modules: what a *)
(* caller is shown of a called run, what the engine has closed is not      *)
(* served, plugins start after what they depend on, names lead back to the *)
(* tools they were made of, an MCP answer is that of its request, speakers *)
(* take fair turns, nested calls are bounded, every task of a swarm is     *)
(* reported once, a timeline replays to its world, the newest result of a  *)
(* case counts, and what a client is told agrees with the run.             *)
AgentsHold ==
  /\ part = "calls" => TypeOK
  /\ part = "events" => EventsTypeOK /\ EventsAreInOrder
  /\ part = "engine" => EngineTypeOK /\ ClosedIsUnserved
  /\ part = "plugins" => LoadTypeOK /\ PluginsInOrder
  /\ part = "tools" => RegistryTypeOK /\ NamesLeadBack /\ CalledIsMeant
  /\ part = "mcp" => McpConnTypeOK /\ AnswerIsOwn
  /\ part = "team" => MultiAgentTypeOK /\ TurnsAreFair
  /\ part = "callers" => CollabTypeOK /\ CallsAreBounded
  /\ part = "swarm" => SwarmTypeOK /\ EachTaskReported
  /\ part = "simulation" => SimulationTypeOK /\ TimelineReplays /\ StopsAtLimit
  /\ part = "eval" => EvalTypeOK /\ ResultsAreLatest
  /\ part = "chat" => ChatTypeOK /\ AnswerAgrees

(* What has ended stays as it ended: a task of several agents that reached *)
(* its end, and what a caller was shown when it got its answer.            *)
EndedStays == FinalStays /\ QuietAfterAnswer

(* What was begun ends: an envelope a consumer has taken, an agent being   *)
(* unloaded and the engine's close, a started task of several agents, a    *)
(* simulation.                                                             *)
AgentsEnd == ConsumersRecover /\ UnloadEnds /\ TaskEnds /\ SimulationEnds
================================================================================
