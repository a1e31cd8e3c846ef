---------------------------- MODULE Collaboration ----------------------------
(***************************************************************************)
(* The collaboration plugin (plugins/builtin/collaboration/plugin.py):     *)
(* agents that call agents, to a depth that travels in the metadata of the *)
(* request and is taken up by the context of the called run (agent.py),    *)
(* and agents that start orchestration tasks, whose speakers run by        *)
(* requests of the session.  How a request reaches its agent is the module *)
(* Dispatcher, the session is MultiAgent.  The swarm plugin, which asks    *)
(* many agents in one call, is the second part.                            *)
(***************************************************************************)
EXTENDS Integers, Sequences, FiniteSets

CONSTANTS CallNames,      \* agents
          AllowedCallees, DeniedCallees,  \* sets of agents; none allowed means all are
          AllowSelfCall,
          CallDepthLimit,
          HasOrchestration,  \* the host has mounted the service
          MaxCalledRuns   \* bound on the runs of a behaviour

ASSUME CollabAssumption == CallDepthLimit \in Nat

VARIABLES calledRuns,  \* the runs in the order of their start
          tasksMade    \* orchestration tasks that have no speaker yet: the run that made each

collabVars == <<calledRuns, tasksMade>>

\* "depth" is what the metadata told, "current" the context's counter and
\* "chain" how many runs there are between this one and the host's.
NewRun(agent, caller, depth, chain) ==
    [agent |-> agent, caller |-> caller, depth |-> depth, current |-> depth, chain |-> chain, phase |-> "running"]

CollabInit == \E a \in CallNames : calledRuns = <<NewRun(a, 0, 0, 0)>> /\ tasksMade = <<>>

CalleeAllowed(agent, caller) ==
    /\ ~AllowSelfCall => agent # caller
    /\ agent \notin DeniedCallees
    /\ AllowedCallees = {} \/ agent \in AllowedCallees

Room == Len(calledRuns) < MaxCalledRuns

\* For a mutant: the limit is looked up after the counter was raised for the
\* callee only.
AgentCallUncounted(r) ==
    /\ Room /\ calledRuns[r].phase = "running"
    /\ calledRuns[r].depth < CallDepthLimit
    /\ \E a \in CallNames :
         /\ CalleeAllowed(a, calledRuns[r].agent)
         /\ calledRuns' = Append([calledRuns EXCEPT ![r].phase = "calling", ![r].current = @ + 1],
                                 NewRun(a, r, calledRuns[r].depth, calledRuns[r].chain + 1))
    /\ UNCHANGED tasksMade

\* A call that is allowed raises the counter and waits for the answer; the
\* called run starts with the raised counter.  (A refused call is an error
\* answered at once and changes nothing.)
AgentCall(r) ==
    /\ Room /\ calledRuns[r].phase = "running"
    /\ calledRuns[r].current < CallDepthLimit
    /\ \E a \in CallNames :
         /\ CalleeAllowed(a, calledRuns[r].agent)
         /\ calledRuns' = Append([calledRuns EXCEPT ![r].phase = "calling", ![r].current = @ + 1],
                                 NewRun(a, r, calledRuns[r].current + 1, calledRuns[r].chain + 1))
    /\ UNCHANGED tasksMade

\* For a mutant: the counter is restored on an answer only.
CallEndsRaised(r) ==
    /\ calledRuns[r].phase = "calling"
    /\ calledRuns' = [calledRuns EXCEPT ![r].phase = "running"]
    /\ UNCHANGED tasksMade

\* Answered, failed, timed out or cancelled: the counter is what it was when
\* the call began.  After a timeout the called run may still be running.
CallEnds(r) ==
    /\ calledRuns[r].phase = "calling"
    /\ calledRuns' = [calledRuns EXCEPT ![r].phase = "running", ![r].current = calledRuns[r].depth]
    /\ UNCHANGED tasksMade

RunEnds(r) ==
    /\ calledRuns[r].phase = "running"
    /\ calledRuns' = [calledRuns EXCEPT ![r].phase = "done"]
    /\ UNCHANGED tasksMade

\* A task is created at once and works beside the run.
OrchestrationTaskCreate(r) ==
    /\ HasOrchestration
    /\ calledRuns[r].phase = "running"
    /\ Len(calledRuns) + Len(tasksMade) < MaxCalledRuns
    /\ tasksMade' = Append(tasksMade, r)
    /\ UNCHANGED calledRuns

\* The session asks a speaker; its request has the session's metadata and no
\* depth.
SpeakerRuns ==
    /\ tasksMade # <<>> /\ Room
    /\ \E a \in CallNames :
         /\ CalleeAllowed(a, calledRuns[Head(tasksMade)].agent)
         /\ calledRuns' = Append(calledRuns, NewRun(a, Head(tasksMade), 0, calledRuns[Head(tasksMade)].chain + 1))
    /\ tasksMade' = Tail(tasksMade)

CollabNext == SpeakerRuns \/ \E r \in DOMAIN calledRuns : \/ AgentCall(r) \/ CallEnds(r) \/ RunEnds(r)
                                                          \/ OrchestrationTaskCreate(r)

CollabSpec == CollabInit /\ [][CollabNext]_collabVars

\* The types of the variables.
CollabTypeOK == \A r \in DOMAIN calledRuns :
                    /\ calledRuns[r].agent \in CallNames
                    /\ calledRuns[r].caller \in 0..(r - 1)
                    /\ calledRuns[r].phase \in {"running", "calling", "done"}

\* Whatever the order in which runs call, time out, go on and end, no run is
\* further from its caller's task than the limit, and a counter is above its
\* run's own depth only while the run waits for a call.
CallsAreBounded ==
    \A r \in DOMAIN calledRuns :
        /\ calledRuns[r].depth <= CallDepthLimit
        /\ calledRuns[r].current = calledRuns[r].depth + (IF calledRuns[r].phase = "calling" THEN 1 ELSE 0)

\* No chain of runs is longer than the limit.  One is when agents start
\* orchestration tasks: their speakers begin to count anew.
ChainBounded == \A r \in DOMAIN calledRuns : calledRuns[r].chain <= CallDepthLimit
--------------------------------------------------------------------------------
(***************************************************************************)
(* swarm_dispatch (plugins/builtin/swarm/plugin.py): one tool call that    *)
(* asks several agents at once, a bounded number of them at a time and in  *)
(* the order of their priorities, and reports one result for each task.    *)
(* Asking an agent is the request of the module Dispatcher; here it is     *)
(* answered, well or badly, or still open when the tool call ends.         *)
(***************************************************************************)
CONSTANTS SwarmTasks,
          Priority,       \* [SwarmTasks -> Nat], all different: ties go by index
          FailurePolicies,
          SwarmLimit,     \* max_concurrent
          MaxDepth,       \* of calls of agents by agents
          MaxSwarms       \* tool calls that are made, one after the other

ASSUME SwarmAssumption == IsFiniteSet(SwarmTasks) /\ MaxDepth \in Nat

VARIABLES swarm,      \* the tool call: [state, policy]
          tasks,      \* what became of the request of each task
          collected,  \* tasks whose result fail_fast has taken
          reports,    \* the results: a set of records [task, status]
          callDepth, swarms

swarmVars == <<swarm, tasks, collected, reports, callDepth, swarms>>

SwarmInit == /\ swarm = [state |-> "none", policy |-> "best_effort"]
             /\ tasks = [t \in SwarmTasks |-> "none"]
             /\ collected = {} /\ reports = {}
             /\ callDepth \in 0..MaxDepth /\ swarms = 0

\* The tasks are checked before the first one is asked; at the limit of the
\* depth none is.
DispatchSwarm ==
    /\ swarm.state # "running"
    /\ swarms < MaxSwarms
    /\ swarms' = swarms + 1
    /\ callDepth < MaxDepth
    /\ \E policy \in FailurePolicies : swarm' = [state |-> "running", policy |-> policy]
    /\ tasks' = [t \in SwarmTasks |-> "waiting"]
    /\ collected' = {} /\ reports' = {}
    /\ callDepth' = callDepth + 1

Earlier(t) == {u \in SwarmTasks : Priority[u] < Priority[t]}
TasksCalling == {t \in SwarmTasks : tasks[t] = "calling"}
Finished == {t \in SwarmTasks : tasks[t] \in {"success", "error"}}

\* The semaphore lets tasks in as they came, which is as they were sorted.
TaskStarts(t) ==
    /\ swarm.state = "running"
    /\ tasks[t] = "waiting"
    /\ \A u \in Earlier(t) : tasks[u] # "waiting"
    /\ Cardinality(TasksCalling) < SwarmLimit
    /\ tasks' = [tasks EXCEPT ![t] = "calling"]
    /\ UNCHANGED <<swarm, collected, reports, callDepth, swarms>>

TaskAnswered(t) ==
    /\ tasks[t] = "calling"
    /\ \E status \in {"success", "error"} : tasks' = [tasks EXCEPT ![t] = status]
    /\ UNCHANGED <<swarm, collected, reports, callDepth, swarms>>

ReportAs(T, status) == {[task |-> t, status |-> status] : t \in T}
Answers(T) == {[task |-> t, status |-> tasks[t]] : t \in T}

\* The depth is put back and requests still open are cancelled.
SwarmReturns(results) ==
    /\ swarm' = [swarm EXCEPT !.state = "returned"]
    /\ reports' = results
    /\ tasks' = [t \in SwarmTasks |-> IF t \in Finished THEN tasks[t] ELSE "cancelled"]
    /\ callDepth' = callDepth - 1
    /\ UNCHANGED <<collected, swarms>>

AllFinished ==
    /\ swarm.state = "running"
    /\ swarm.policy = "best_effort"
    /\ Finished = SwarmTasks
    /\ SwarmReturns(Answers(SwarmTasks))

\* fail_fast takes results as they come, the ones there together in any
\* order.
CollectSuccess ==
    /\ swarm.state = "running"
    /\ swarm.policy = "fail_fast"
    /\ \E T \in SUBSET (Finished \ collected) :
         /\ T # {}
         /\ \A t \in T : tasks[t] = "success"
         /\ collected' = collected \cup T
    /\ UNCHANGED <<swarm, tasks, reports, callDepth, swarms>>

AllCollected ==
    /\ swarm.state = "running"
    /\ swarm.policy = "fail_fast"
    /\ collected = SwarmTasks
    /\ SwarmReturns(Answers(SwarmTasks))

\* For a mutant: what was not collected is left out of the report when its
\* request is over.
CollectFailureAlone ==
    /\ swarm.state = "running"
    /\ swarm.policy = "fail_fast"
    /\ \E t \in Finished \ collected :
         /\ tasks[t] = "error"
         /\ SwarmReturns(Answers(collected \cup {t})
                            \cup ReportAs(SwarmTasks \ (Finished \cup collected), "cancelled"))

\* The first error ends the swarm: every task not collected is reported as
\* cancelled, the ones whose answer is there included.
CollectFailure ==
    /\ swarm.state = "running"
    /\ swarm.policy = "fail_fast"
    /\ \E t \in Finished \ collected :
         /\ tasks[t] = "error"
         /\ SwarmReturns(Answers(collected \cup {t}) \cup ReportAs(SwarmTasks \ (collected \cup {t}), "cancelled"))

\* The timeout of the whole swarm reports every task as cancelled.
SwarmTimesOut ==
    /\ swarm.state = "running"
    /\ SwarmReturns(ReportAs(SwarmTasks, "cancelled"))

SwarmNext == \/ DispatchSwarm \/ \E t \in SwarmTasks : TaskStarts(t) \/ TaskAnswered(t)
             \/ AllFinished \/ CollectSuccess \/ AllCollected \/ CollectFailure \/ SwarmTimesOut

SwarmSpec == SwarmInit /\ [][SwarmNext]_swarmVars

\* The types of the variables.
SwarmTypeOK ==
    /\ swarm.state \in {"none", "running", "returned"}
    /\ tasks \in [SwarmTasks -> {"none", "waiting", "calling", "success", "error", "cancelled"}]
    /\ collected \subseteq SwarmTasks
    /\ callDepth \in 0..MaxDepth

\* When the tool call is over no request of it is open, each task has exactly
\* one result, and a result of success or error is the answer of the agent.
EachTaskReported ==
    swarm.state = "returned" =>
        /\ TasksCalling = {}
        /\ \A t \in SwarmTasks : \E report \in reports : report.task = t
        /\ Cardinality(reports) = Cardinality(SwarmTasks)
        /\ \A report \in reports : report.status # "cancelled" => tasks[report.task] = report.status

\* A task reported as cancelled was not answered with success.
CancelledIsUndone ==
    \A report \in reports : report.status = "cancelled" => tasks[report.task] # "success"
================================================================================
