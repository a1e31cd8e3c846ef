----------------------------- MODULE EngineLife -----------------------------
(***************************************************************************)
(* Loading, unloading and closing (engine.py), with the consumer task that *)
(* the dispatcher starts for each agent (core/dispatcher.py) and the queue *)
(* each task subscribes to (storage/in_memory.py).                         *)
(*                                                                         *)
(* Instances are numbered in the order of their instantiation and each has *)
(* the consumer task of its number.  What an execution does is the module  *)
(* Execution; here it runs, and a cancellation that strikes it is taken by *)
(* the execution, so the consumer task goes on.                            *)
(***************************************************************************)
EXTENDS Integers, FiniteSets, Sequences

CONSTANTS AgentNames,
          MaxInstances, MaxEnvelopes,  \* bounds
          ReloadLoaded,       \* hosts instantiate a name that is loaded
          ChangeWhileClosing  \* hosts instantiate and unload while the engine closes

VARIABLES named,       \* the name of each instance
          agents,      \* Engine._agents: the instance under each name, or 0
          consumers,   \* AgentMessageDispatcher._consumers, or 0
          task,        \* the consumer task of each instance
          queue,       \* the envelopes that wait in its queue
          executed,    \* the executions of each envelope so far
          unloading,   \* how far the close of each instance is
          closing      \* Engine.close: its phase, the names left to stop, the task
                       \* it awaits, the names walked and the size it began with

engineVars == <<named, agents, consumers, task, queue, executed, unloading, closing>>

Instances == DOMAIN named
Loaded(n) == agents[n] # 0

EngineInit == /\ named = <<>> /\ task = <<>> /\ queue = <<>> /\ executed = <<>> /\ unloading = <<>>
              /\ agents = [n \in AgentNames |-> 0]
              /\ consumers = [n \in AgentNames |-> 0]
              /\ closing = [phase |-> "open", left |-> {}, awaits |-> 0, walked |-> {}, size |-> 0]

MayChange == closing.phase = "open" \/ (ChangeWhileClosing /\ closing.phase \in {"stopping", "agents"})

\* The task subscribes when it first runs.
Instantiate(n) ==
    /\ Len(named) < MaxInstances
    /\ Loaded(n) => ReloadLoaded
    /\ MayChange
    /\ named' = Append(named, n)
    /\ agents' = [agents EXCEPT ![n] = Len(named')]
    /\ consumers' = [consumers EXCEPT ![n] = Len(named')]
    /\ task' = Append(task, "created")
    /\ queue' = Append(queue, <<>>)
    /\ unloading' = Append(unloading, "no")
    /\ UNCHANGED <<executed, closing>>

(***************************************************************************)
(* The consumer task                                                       *)
(***************************************************************************)

Subscribes(i) ==
    /\ task[i] = "created"
    /\ task' = [task EXCEPT ![i] = "listening"]
    /\ UNCHANGED <<named, agents, consumers, queue, executed, unloading, closing>>

Live(i) == task[i] \in {"listening", "busy"}

\* A message goes into the queue of every subscriber of the channel.
Publish(n) ==
    /\ Len(executed) < MaxEnvelopes
    /\ executed' = Append(executed, 0)
    /\ queue' = [i \in Instances |-> IF named[i] = n /\ Live(i) THEN Append(queue[i], Len(executed')) ELSE queue[i]]
    /\ UNCHANGED <<named, agents, consumers, task, unloading, closing>>

HandleEnvelope(i) ==
    /\ task[i] = "listening" /\ queue[i] # <<>>
    /\ task' = [task EXCEPT ![i] = "busy"]
    /\ executed' = [executed EXCEPT ![Head(queue[i])] = @ + 1]
    /\ queue' = [queue EXCEPT ![i] = Tail(@)]
    /\ UNCHANGED <<named, agents, consumers, unloading, closing>>

EnvelopeHandled(i) ==
    /\ task[i] = "busy"
    /\ task' = [task EXCEPT ![i] = "listening"]
    /\ UNCHANGED <<named, agents, consumers, queue, executed, unloading, closing>>

\* For a mutant: the wait begins again, however often it was in vain.
IdleAgain(i) ==
    /\ task[i] = "listening" /\ queue[i] = <<>>
    /\ UNCHANGED engineVars

\* Half an hour without a message ends the subscription and the task.
IdleEnds(i) ==
    /\ task[i] = "listening" /\ queue[i] = <<>>
    /\ task' = [task EXCEPT ![i] = "ended"]
    /\ UNCHANGED <<named, agents, consumers, queue, executed, unloading, closing>>

\* cancel_and_wait: a task that waits for a message ends, an execution is
\* cancelled and its task listens again.
Cancelled(i) == IF task[i] = "busy" THEN task ELSE [task EXCEPT ![i] = "ended"]

(***************************************************************************)
(* unload_agent                                                            *)
(***************************************************************************)

\* For a mutant: the agent is closed without waiting for its task.
UnloadStartsClosing(n) ==
    /\ Loaded(n) /\ MayChange
    /\ agents' = [agents EXCEPT ![n] = 0]
    /\ consumers' = [consumers EXCEPT ![n] = 0]
    /\ unloading' = [unloading EXCEPT ![agents[n]] = "closing"]
    /\ task' = IF consumers[n] = 0 THEN task ELSE Cancelled(consumers[n])
    /\ closing' = [closing EXCEPT !.walked = @ \ {n}]
    /\ UNCHANGED <<named, queue, executed>>

UnloadStarts(n) ==
    /\ Loaded(n) /\ MayChange
    /\ agents' = [agents EXCEPT ![n] = 0]
    /\ consumers' = [consumers EXCEPT ![n] = 0]
    /\ unloading' = [unloading EXCEPT ![agents[n]] = IF consumers[n] = 0 THEN "closing" ELSE "waiting"]
    /\ task' = IF consumers[n] = 0 THEN task ELSE Cancelled(consumers[n])
    /\ closing' = [closing EXCEPT !.walked = @ \ {n}]
    /\ UNCHANGED <<named, queue, executed>>

TaskAwaited(i) ==
    /\ unloading[i] = "waiting" /\ task[i] = "ended"
    /\ unloading' = [unloading EXCEPT ![i] = "closing"]
    /\ UNCHANGED <<named, agents, consumers, task, queue, executed, closing>>

\* agent.close: the plugins are closed, at most five seconds each.
AgentCloses(i) ==
    /\ unloading[i] = "closing"
    /\ unloading' = [unloading EXCEPT ![i] = "closed"]
    /\ UNCHANGED <<named, agents, consumers, task, queue, executed, closing>>

(***************************************************************************)
(* Engine.close                                                            *)
(***************************************************************************)

\* stop_all works on the names it finds at the start.
CloseStarts ==
    /\ closing.phase = "open"
    /\ closing' = [closing EXCEPT !.phase = "stopping", !.left = {n \in AgentNames : consumers[n] # 0}]
    /\ UNCHANGED <<named, agents, consumers, task, queue, executed, unloading>>

StopNext ==
    /\ closing.phase = "stopping" /\ closing.awaits = 0
    /\ \E n \in closing.left :
         /\ closing' = [closing EXCEPT !.left = @ \ {n}, !.awaits = consumers[n]]
         /\ consumers' = [consumers EXCEPT ![n] = 0]
         /\ task' = IF consumers[n] = 0 THEN task ELSE Cancelled(consumers[n])
    /\ UNCHANGED <<named, agents, queue, executed, unloading>>

StopAwaited ==
    /\ closing.awaits # 0 /\ task[closing.awaits] = "ended"
    /\ closing' = [closing EXCEPT !.awaits = 0]
    /\ UNCHANGED <<named, agents, consumers, task, queue, executed, unloading>>

Size == Cardinality({n \in AgentNames : Loaded(n)})

\* The agents of the table are closed one by one.  The walk over the table
\* raises when the table has changed its size while an agent was closed.
CloseAgents ==
    /\ closing.phase = "stopping" /\ closing.left = {} /\ closing.awaits = 0
    /\ closing' = [closing EXCEPT !.phase = "agents", !.size = Size]
    /\ UNCHANGED <<named, agents, consumers, task, queue, executed, unloading>>

CloseNext ==
    /\ closing.phase = "agents" /\ closing.size = Size
    /\ \E n \in AgentNames \ closing.walked :
         /\ Loaded(n)
         /\ unloading' = [unloading EXCEPT ![agents[n]] = "closed"]
         /\ closing' = [closing EXCEPT !.walked = @ \cup {n}]
    /\ UNCHANGED <<named, agents, consumers, task, queue, executed>>

CloseEnds ==
    /\ closing.phase = "agents" /\ closing.size = Size
    /\ \A n \in AgentNames \ closing.walked : ~Loaded(n)
    /\ closing' = [closing EXCEPT !.phase = "done"]
    /\ agents' = [n \in AgentNames |-> 0]
    /\ UNCHANGED <<named, consumers, task, queue, executed, unloading>>

CloseRaises ==
    /\ closing.phase = "agents" /\ closing.size # Size
    /\ closing' = [closing EXCEPT !.phase = "failed"]
    /\ UNCHANGED <<named, agents, consumers, task, queue, executed, unloading>>

EngineNext == \/ CloseStarts \/ StopNext \/ StopAwaited
              \/ CloseAgents \/ CloseNext \/ CloseEnds \/ CloseRaises
              \/ \E n \in AgentNames : Instantiate(n) \/ Publish(n) \/ UnloadStarts(n)
              \/ \E i \in Instances : \/ Subscribes(i) \/ HandleEnvelope(i) \/ EnvelopeHandled(i) \/ IdleEnds(i)
                                      \/ TaskAwaited(i) \/ AgentCloses(i)

\* Fairness is that of the event loop: a task that can go on does, and an
\* unused subscription times out.
EngineFairness ==
    /\ WF_engineVars(StopNext) /\ WF_engineVars(StopAwaited)
    /\ WF_engineVars(CloseAgents) /\ WF_engineVars(CloseNext \/ CloseEnds \/ CloseRaises)
    /\ \A i \in 1..MaxInstances :
         /\ WF_engineVars(i \in Instances /\ (Subscribes(i) \/ HandleEnvelope(i) \/ EnvelopeHandled(i)))
         /\ WF_engineVars(i \in Instances /\ IdleEnds(i))
         /\ WF_engineVars(i \in Instances /\ (TaskAwaited(i) \/ AgentCloses(i)))

EngineSpec == EngineInit /\ [][EngineNext]_engineVars /\ EngineFairness

(***************************************************************************)
(* Properties                                                              *)
(***************************************************************************)

\* The types of the variables.
EngineTypeOK ==
    /\ named \in Seq(AgentNames)
    /\ agents \in [AgentNames -> 0..Len(named)] /\ consumers \in [AgentNames -> 0..Len(named)]
    /\ task \in [Instances -> {"created", "listening", "busy", "ended"}]
    /\ unloading \in [Instances -> {"no", "waiting", "closing", "closed"}]
    /\ closing.phase \in {"open", "stopping", "agents", "done", "failed"}

\* An agent is closed only after its consumer has ended: its plugins are not
\* taken away from an execution that still uses them.  Closing the engine
\* gives this up for what hosts load and unload meanwhile.
ClosedIsUnserved ==
    closing.phase = "open" =>
        \A i \in Instances : unloading[i] \in {"closing", "closed"} => task[i] = "ended"

\* An envelope is executed once.  It is not: a name that is loaded again
\* while an earlier consumer of it still listens has two of them.
ExecutedOnce == \A e \in DOMAIN executed : executed[e] <= 1

\* Loading starts a consumer and unloading stops it: no consumer of a name
\* listens when no agent is loaded under it and none is being unloaded.  One
\* does when the name was loaded twice.
StoppedOnUnload ==
    \A i \in Instances :
        (~Loaded(named[i]) /\ \A j \in Instances : named[j] = named[i] => unloading[j] # "waiting") => ~Live(i)

Unloading(i, phase) == i \in Instances /\ unloading[i] = phase

\* Unloading and closing end, although a busy consumer takes the
\* cancellation for its execution's and listens on until it is idle.
UnloadEnds ==
    /\ \A i \in 1..MaxInstances : Unloading(i, "waiting") ~> Unloading(i, "closed")
    /\ closing.phase = "stopping" ~> closing.phase \in {"done", "failed"}
=============================================================================
