------------------------------- MODULE Dispatcher ------------------------------
(***************************************************************************)
(* Agents calling agents: AgentMessageDispatcher (core/dispatcher.py) over *)
(* InMemoryMessageBus (storage/in_memory.py), with the session gate and    *)
(* the run registry its executions pass through.                           *)
(*                                                                         *)
(* A call is either the host's own agent.stream(), executed in the host's  *)
(* task, or an agent_call made by a running call, published to the inbox   *)
(* of another agent and executed by that agent's consumer task, one after  *)
(* the other.  All calls here belong to one conversation, which an agent   *)
(* executes one turn at a time, and to one run id.                         *)
(*                                                                         *)
(* Executor.run_stream turns a CancelledError thrown into a running        *)
(* execution into a cancelled event; before that point (waiting for the    *)
(* session gate, in the start hooks) the error leaves the execution.       *)
(***************************************************************************)
EXTENDS Integers, FiniteSets, Sequences, SequencesExt

CONSTANTS
  Calls,         (* the host's runs and the agent_call requests            *)
  Agents,
  Consumers,     (* consumer tasks, one per loaded agent instance          *)
  None,
  Caller,        (* the call that makes this one; None: the host           *)
  Callee,        (* the agent a call is for                                *)
  Serves,        (* the agent of a consumer                                *)
  MaxCancels     (* bound: calls of Engine.cancel_run                      *)

ASSUME CallsAssumption ==
  /\ IsFiniteSet(Calls) /\ None \notin Calls
  /\ Caller \in [Calls -> Calls \cup {None}]
  /\ Callee \in [Calls -> Agents]

ASSUME ConsumersAssumption ==
  /\ IsFiniteSet(Consumers) /\ None \notin Consumers
  /\ Calls \cap Consumers = {}
  /\ Serves \in [Consumers -> Agents]
  /\ \A c, d \in Consumers : Serves[c] = Serves[d] => c = d

ASSUME BoundAssumption == MaxCancels \in Nat

VARIABLES
  call,          (* the caller's view: new, waiting, answered, failed      *)
  run,           (* the callee's view, see Runs                            *)
  consumer,      (* created, waiting (at its inbox), busy or ended         *)
  inbox,         (* the queue of a consumer's subscription                 *)
  current,       (* the call a busy consumer executes                      *)
  gate,          (* the call that holds an agent's session slot            *)
  pending,       (* tasks (consumers, host calls) with an undelivered      *)
                 (* CancelledError                                         *)
  stopped,       (* consumers that stop_consumer has cancelled             *)
  cancels

vars == <<call, run, consumer, inbox, current, gate, pending, stopped, cancels>>

--------------------------------------------------------------------------------
(* A run is in a queue ("queued"), waits for the session gate              *)
(* ("admission"), is in its start hooks ("starting"), executes             *)
(* ("running"), or has ended: with a terminal event (done, error,          *)
(* cancelled), with an exception (raised), or with its consumer: before it *)
(* had begun (lost) or in its end hooks (aborted).                         *)
Ended == {"done", "error", "cancelled", "raised"}
Runs == {"none", "queued", "admission", "starting", "running", "lost", "aborted"} \cup Ended

Active == {"starting", "running"}

Direct(q) == Caller[q] = None

(* The task that executes q.                                               *)
Executor(q) == {p \in {q} : Direct(p)} \cup {c \in Consumers : current[c] = q}

Subscribers(a) == {c \in Consumers : Serves[c] = a /\ consumer[c] \in {"waiting", "busy"}}

(* q waits for the answer to a call it made.                               *)
Calling(q) == \E p \in Calls : Caller[p] = q /\ call[p] = "waiting"

(* Defect: only a run that ends by itself leaves its slot.                 *)
FreeGateOnReturn(q) ==
  gate' = [a \in Agents |-> IF gate[a] = q /\ Executor(q) \cap pending = {}
                            THEN None ELSE gate[a]]

(* The session slot is left when the run's generator is closed.            *)
FreeGate(q) == gate' = [a \in Agents |-> IF gate[a] = q THEN None ELSE gate[a]]

(* The finally of request() when the caller's turn is interrupted.         *)
GiveUp(q) == [p \in Calls |-> IF Caller[p] = q /\ call[p] = "waiting"
                              THEN "failed" ELSE call[p]]

--------------------------------------------------------------------------------
Init ==
  /\ call = [q \in Calls |-> "new"]
  /\ run = [q \in Calls |-> "none"]
  /\ consumer = [c \in Consumers |-> "created"]
  /\ inbox = [c \in Consumers |-> <<>>]
  /\ current = [c \in Consumers |-> None]
  /\ gate = [a \in Agents |-> None]
  /\ pending = {} /\ stopped = {}
  /\ cancels = 0

(* _consumer_loop subscribes to the agent's inbox.                         *)
Subscribe(c) ==
  /\ consumer[c] = "created"
  /\ c \notin pending
  /\ consumer' = [consumer EXCEPT ![c] = "waiting"]
  /\ UNCHANGED <<call, run, inbox, current, gate, pending, stopped, cancels>>

(* The host executes an agent itself.                                      *)
HostCall(q) ==
  /\ Direct(q) /\ call[q] = "new"
  /\ call' = [call EXCEPT ![q] = "waiting"]
  /\ run' = [run EXCEPT ![q] = "admission"]
  /\ UNCHANGED <<consumer, inbox, current, gate, pending, stopped, cancels>>

(* request(): the envelope reaches whoever subscribes now, perhaps nobody. *)
Request(q) ==
  /\ ~Direct(q) /\ call[q] = "new"
  /\ run[Caller[q]] = "running" /\ ~Calling(Caller[q])
  /\ Executor(Caller[q]) \cap pending = {}
  /\ call' = [call EXCEPT ![q] = "waiting"]
  /\ inbox' = [c \in Consumers |-> IF c \in Subscribers(Callee[q])
                                   THEN Append(inbox[c], q) ELSE inbox[c]]
  /\ run' = [run EXCEPT ![q] = IF Subscribers(Callee[q]) = {} THEN "lost" ELSE "queued"]
  /\ UNCHANGED <<consumer, current, gate, pending, stopped, cancels>>

(* The subscription yields the next envelope to the consumer.              *)
Take(c) ==
  /\ consumer[c] = "waiting" /\ inbox[c] # <<>>
  /\ c \notin pending
  /\ consumer' = [consumer EXCEPT ![c] = "busy"]
  /\ current' = [current EXCEPT ![c] = Head(inbox[c])]
  /\ inbox' = [inbox EXCEPT ![c] = Tail(@)]
  /\ run' = [run EXCEPT ![Head(inbox[c])] = "admission"]
  /\ UNCHANGED <<call, gate, pending, stopped, cancels>>

Admit(q) ==
  /\ run[q] = "admission" /\ gate[Callee[q]] = None
  /\ Executor(q) \cap pending = {}
  /\ gate' = [gate EXCEPT ![Callee[q]] = q]
  /\ run' = [run EXCEPT ![q] = "starting"]
  /\ UNCHANGED <<call, consumer, inbox, current, pending, stopped, cancels>>

Begin(q) ==
  /\ run[q] = "starting"
  /\ Executor(q) \cap pending = {}
  /\ run' = [run EXCEPT ![q] = "running"]
  /\ UNCHANGED <<call, consumer, inbox, current, gate, pending, stopped, cancels>>

(* Defect: the consumer keeps the call it has handled.                     *)
ResumeIdle(q) ==
  /\ consumer' = [c \in Consumers |-> IF current[c] = q THEN "waiting" ELSE consumer[c]]
  /\ UNCHANGED current

(* The consumer has handled its envelope and waits for the next one.       *)
Resume(q) ==
  /\ consumer' = [c \in Consumers |-> IF current[c] = q THEN "waiting" ELSE consumer[c]]
  /\ current' = [c \in Consumers |-> IF current[c] = q THEN None ELSE current[c]]

(* The run ends by itself, in its start hooks only with an exception.      *)
Finish(q) ==
  /\ run[q] \in Active /\ ~Calling(q)
  /\ Executor(q) \cap pending = {}
  /\ \E o \in {"done", "error", "raised"} :
       /\ run[q] = "starting" => o = "raised"
       /\ run' = [run EXCEPT ![q] = o]
  /\ FreeGate(q)
  /\ Resume(q)
  /\ UNCHANGED <<call, inbox, pending, stopped, cancels>>

(* The reply envelope of an execution: "error" only when the run yielded   *)
(* an error event or raised.                                               *)
ReplyType(q) == IF run[q] \in {"error", "raised"} THEN "failed" ELSE "answered"

(* Defect: a late reply still reaches a caller that gave up.               *)
ReplyLate(q) ==
  /\ call[q] \in {"waiting", "failed"}
  /\ run[q] \in Ended
  /\ call' = [call EXCEPT ![q] = ReplyType(q)]
  /\ UNCHANGED <<run, consumer, inbox, current, gate, pending, stopped, cancels>>

(* The reply channel completes the caller's future; a host's call returns. *)
(* An execution that CancelledError took its consumer from never replies.  *)
Reply(q) ==
  /\ call[q] = "waiting"
  /\ run[q] \in Ended
  /\ call' = [call EXCEPT ![q] = ReplyType(q)]
  /\ UNCHANGED <<run, consumer, inbox, current, gate, pending, stopped, cancels>>

(* Defect: the wait is bounded only while the callee has not begun.        *)
TimeoutUntilTaken(q) ==
  /\ ~Direct(q) /\ call[q] = "waiting" /\ run[q] \in {"queued", "lost"}
  /\ call' = [call EXCEPT ![q] = "failed"]
  /\ UNCHANGED <<run, consumer, inbox, current, gate, pending, stopped, cancels>>

(* asyncio.wait_for gives up on the future.                                *)
Timeout(q) ==
  /\ ~Direct(q) /\ call[q] = "waiting"
  /\ call' = [call EXCEPT ![q] = "failed"]
  /\ UNCHANGED <<run, consumer, inbox, current, gate, pending, stopped, cancels>>

(* CancelledError is thrown into a running execution: it ends with a       *)
(* cancelled event, and its task goes on.                                  *)
InterruptRun(q) ==
  /\ run[q] = "running"
  /\ Executor(q) \cap pending # {}
  /\ pending' = pending \ Executor(q)
  /\ run' = [run EXCEPT ![q] = "cancelled"]
  /\ call' = GiveUp(q)
  /\ FreeGate(q)
  /\ Resume(q)
  /\ UNCHANGED <<inbox, stopped, cancels>>

(* It is thrown before the execution has begun: it leaves the host's call. *)
InterruptHost(q) ==
  /\ Direct(q) /\ q \in pending
  /\ run[q] \in {"admission", "starting"}
  /\ pending' = pending \ {q}
  /\ run' = [run EXCEPT ![q] = "lost"]
  /\ call' = [call EXCEPT ![q] = "failed"]
  /\ FreeGate(q)
  /\ UNCHANGED <<consumer, inbox, current, stopped, cancels>>

(* A consumer's subscription ends; what its queue holds is dropped.        *)
Unsubscribe(c, q) ==
  /\ consumer' = [consumer EXCEPT ![c] = "ended"]
  /\ current' = [current EXCEPT ![c] = None]
  /\ inbox' = [inbox EXCEPT ![c] = <<>>]
  /\ run' = [p \in Calls |-> IF p \notin {q} \cup ToSet(inbox[c]) THEN run[p]
                               ELSE IF run[p] = "running" THEN "aborted" ELSE "lost"]

(* It is thrown while a consumer waits at its inbox, into an execution     *)
(* that has not begun, or into its end hooks: _consumer_loop returns.      *)
InterruptConsumer(c) ==
  /\ c \in pending
  /\ \/ consumer[c] \in {"created", "waiting"}
     \/ /\ consumer[c] = "busy"
        /\ \/ run[current[c]] \in {"admission", "starting"}
           \/ run[current[c]] = "running" /\ ~Calling(current[c])
  /\ pending' = pending \ {c}
  /\ Unsubscribe(c, current[c])
  /\ gate' = [a \in Agents |-> IF gate[a] # None /\ gate[a] = current[c]
                               THEN None ELSE gate[a]]
  /\ UNCHANGED <<call, stopped, cancels>>

(* InMemoryMessageBus.subscribe returns after thirty idle minutes.         *)
IdleExit(c) ==
  /\ consumer[c] = "waiting" /\ inbox[c] = <<>>
  /\ c \notin pending
  /\ Unsubscribe(c, None)
  /\ UNCHANGED <<call, gate, pending, stopped, cancels>>

(* stop_consumer: cancel the task, then wait for its end.                  *)
Stop(c) ==
  /\ c \notin stopped
  /\ stopped' = stopped \cup {c}
  /\ pending' = IF consumer[c] = "ended" THEN pending ELSE pending \cup {c}
  /\ UNCHANGED <<call, run, consumer, inbox, current, gate, cancels>>

(* Engine.cancel_run: every task registered for the run id is cancelled.   *)
CancelRun ==
  /\ cancels < MaxCancels
  /\ cancels' = cancels + 1
  /\ pending' = pending \cup UNION {Executor(q) : q \in {p \in Calls : run[p] \in Active}}
  /\ UNCHANGED <<call, run, consumer, inbox, current, gate, stopped>>

CallStep(q) ==
  \/ Admit(q) \/ Begin(q) \/ Finish(q) \/ Reply(q)
  \/ InterruptRun(q) \/ InterruptHost(q)

ConsumerStep(c) == Subscribe(c) \/ Take(c) \/ InterruptConsumer(c)

Next ==
  \/ \E q \in Calls : HostCall(q) \/ Request(q) \/ CallStep(q) \/ Timeout(q)
  \/ \E c \in Consumers : ConsumerStep(c) \/ IdleExit(c) \/ Stop(c)
  \/ CancelRun

Spec == Init /\ [][Next]_vars

(* The event loop runs ready tasks, runs end (rounds and time are limited) *)
(* and every request has a timeout.                                        *)
Fairness ==
  /\ \A q \in Calls : WF_vars(CallStep(q)) /\ WF_vars(Timeout(q))
  /\ \A c \in Consumers : WF_vars(ConsumerStep(c))

FairSpec == Spec /\ Fairness
--------------------------------------------------------------------------------
(* Properties.                                                             *)

(* The type invariant.                                                     *)
TypeOK ==
  /\ call \in [Calls -> {"new", "waiting", "answered", "failed"}]
  /\ run \in [Calls -> Runs]
  /\ consumer \in [Consumers -> {"created", "waiting", "busy", "ended"}]
  /\ inbox \in [Consumers -> Seq(Calls)]
  /\ current \in [Consumers -> Calls \cup {None}]
  /\ \A c \in Consumers : consumer[c] = "busy" <=> current[c] # None
  /\ gate \in [Agents -> Calls \cup {None}]
  /\ pending \subseteq Calls \cup Consumers
  /\ stopped \subseteq Consumers
  /\ cancels \in 0..MaxCancels

(* An agent's session slot is held by a live run of that agent and by      *)
(* nothing else: however a run is cut off - its consumer stopped, the run  *)
(* cancelled, the caller gone - the next turn can be admitted, and two     *)
(* turns of the conversation never overlap on one agent.                   *)
GateOfLiveRun ==
  \A a \in Agents, q \in Calls : gate[a] = q <=> Callee[q] = a /\ run[q] \in Active

(* request() keeps what it promises: CallPromise.                          *)
Promise == INSTANCE CallPromise WITH
             executed <- {q \in Calls : run[q] \in Ended \cup {"running", "aborted"}}
KeepsPromise == Promise!Spec

(* Agents that call each other in a circle, or the agent whose turn made   *)
(* the call, do not block each other for ever: every call is answered or   *)
(* fails, through its timeout if need be.                                  *)
EveryCallEnds == \A q \in Calls : call[q] = "waiting" ~> call[q] \in {"answered", "failed"}

(* A consumer is never busy with one envelope for ever, whatever its run   *)
(* waits for.                                                              *)
ConsumersRecover == \A c \in Consumers : consumer[c] = "busy" ~> consumer[c] # "busy"
================================================================================
