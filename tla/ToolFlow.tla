-------------------------------- MODULE ToolFlow --------------------------------
(***************************************************************************)
(* The tool calls of one execution: ToolCallFlow and ReActTurnRunner       *)
(* (core/react_loop.py), ToolExecutionPipeline (tools/orchestrator.py)     *)
(* with its batches (tools/batches.py), hooks, audit events and timeout,   *)
(* and the attempts of SingleToolExecutor (tools/executor.py).             *)
(*                                                                         *)
(* The LLM's answers carry the calls of Flows, one flow after the other.   *)
(* The calls of a batch are tasks that run concurrently; a phase names the *)
(* await at which a call is suspended.  A call that raises ends its flow   *)
(* at once, and asyncio.gather leaves the others of its batch running.     *)
(***************************************************************************)
EXTENDS Integers, Sequences, FiniteSets, SequencesExt

CONSTANTS
  Calls,
  Flows,          (* the tool calls of each answer, in order               *)
  ReadOnly,       (* the calls whose ToolDefinition is read-only           *)
  MaxRetries,     (* ToolRetryPolicy.max_retries of a read-only tool       *)
  StepTimeout,    (* whether ctx.config.step_timeout is set                *)
  Planned,        (* whether the answers are those of a plan's steps       *)
  MaxFaults,      (* bound: exceptions raised by hooks                     *)
  MaxCancels      (* bound: calls of cancel_run                            *)

ASSUME CallsAssumption ==
  /\ Flows \in Seq(Seq(Calls))
  /\ ReadOnly \subseteq Calls
  /\ \A f, g \in DOMAIN Flows : \A i \in DOMAIN Flows[f], j \in DOMAIN Flows[g] :
       Flows[f][i] = Flows[g][j] => f = g /\ i = j
  /\ Calls = UNION {ToSet(Flows[f]) : f \in DOMAIN Flows}

ASSUME BoundsAssumption == {MaxRetries, MaxFaults, MaxCancels} \subseteq Nat

VARIABLES
  pc,             (* where the execution's own task is                     *)
  flow,           (* the flow under way, or the next one                   *)
  batch,          (* its batch under way, or the next one                  *)
  phase,          (* each call's await                                     *)
  attempts,       (* how often each call's tool was started                *)
  outcome,        (* the ToolResult each call is going to have             *)
  audit,          (* the type of each call's last audit event              *)
  answered,       (* the calls with a tool message in the message store    *)
  flagged,        (* ctx.state.cancelled                                   *)
  faults, cancels

loop == <<pc, flow, batch>>
call == <<phase, attempts, outcome, audit>>
vars == <<loop, call, answered, flagged, faults, cancels>>

--------------------------------------------------------------------------------
(* partition_tool_calls.                                                   *)

(* Defect: reads join the batch before them even when it writes.           *)
JoinsAny(calls, i) == i > 1 /\ calls[i] \in ReadOnly

(* The i-th call joins the batch of the one before it.                     *)
Joins(calls, i) == i > 1 /\ {calls[i - 1], calls[i]} \subseteq ReadOnly

(* The number of each call's batch: one for every call that did not join.  *)
Batches(calls) ==
  [i \in DOMAIN calls |-> Cardinality({j \in 1..i : ~Joins(calls, j)})]

BatchesOf == [f \in DOMAIN Flows |-> Batches(Flows[f])]

BatchCalls(f, b) == {Flows[f][i] : i \in {j \in DOMAIN Flows[f] : BatchesOf[f][j] = b}}

(* The batch under way.                                                    *)
Current == BatchCalls(flow, batch)

--------------------------------------------------------------------------------
(* The awaits of a call: the pre hooks; its tool, or the sleep before it   *)
(* is tried again; the post hooks; the failure hooks, within the timeout   *)
(* or after it.                                                            *)
Active == {"pre", "tool", "post", "failing", "timedOut"}

Phases == Active \cup {"waiting", "done", "raised", "killed"}

TypeOK ==
  /\ pc \in {"asking", "starting", "running", "over", "cancelled"}
  /\ flow \in 1..(Len(Flows) + 1)
  /\ batch \in Nat \ {0}
  /\ phase \in [Calls -> Phases]
  /\ attempts \in [Calls -> 0..(MaxRetries + 1)]
  /\ outcome \in [Calls -> {"none", "ok", "error"}]
  /\ audit \in [Calls -> {"none", "started", "completed", "rejected", "failed"}]
  /\ answered \subseteq Calls
  /\ flagged \in BOOLEAN
  /\ faults \in 0..MaxFaults
  /\ cancels \in 0..MaxCancels

Init ==
  /\ pc = "asking"
  /\ flow = 1
  /\ batch = 1
  /\ phase = [c \in Calls |-> "waiting"]
  /\ attempts = [c \in Calls |-> 0]
  /\ outcome = [c \in Calls |-> "none"]
  /\ audit = [c \in Calls |-> "none"]
  /\ answered = {}
  /\ flagged = FALSE
  /\ faults = 0
  /\ cancels = 0

--------------------------------------------------------------------------------
(* The execution's task.                                                   *)

(* The head of the round: check_cancelled, then the LLM is asked with all  *)
(* messages so far, and its answer is appended before its calls run.       *)
Ask ==
  /\ pc = "asking"
  /\ pc' = IF flow > Len(Flows) THEN "over"
           ELSE IF flagged THEN "cancelled" ELSE "starting"
  /\ UNCHANGED <<flow, batch, call, answered, flagged, faults, cancels>>

(* The next batch of ToolExecutionPipeline.execute.                        *)
StartBatch ==
  /\ pc = "starting"
  /\ ~ flagged
  /\ phase' = [c \in Calls |-> IF c \in Current THEN "pre" ELSE phase[c]]
  /\ pc' = "running"
  /\ UNCHANGED <<flow, batch, attempts, outcome, audit, answered, flagged, faults,
                 cancels>>

(* Defect: the batch is over with the first of its results.                *)
BatchEndsEarly == \E c \in Current : phase[c] = "done"

(* Defect: a failure is waited for to be made good.                        *)
BatchSucceeds == \A c \in Current : phase[c] = "done" /\ outcome[c] = "ok"

BatchEnds == \A c \in Current : phase[c] = "done"

(* Defect: a failed call gets no tool message.                             *)
Successes == {c \in ToSet(Flows[flow]) : outcome[c] = "ok"}

(* append_tool_results: a tool message for each call, failed or not.       *)
Results == ToSet(Flows[flow])

EndBatch ==
  /\ pc = "running"
  /\ BatchEnds
  /\ IF \E i \in DOMAIN Flows[flow] : BatchesOf[flow][i] > batch
     THEN batch' = batch + 1 /\ pc' = "starting" /\ UNCHANGED <<flow, answered>>
     ELSE /\ answered' = answered \cup Results
          /\ flow' = flow + 1
          /\ batch' = 1
          /\ pc' = "asking"
  /\ UNCHANGED <<call, flagged, faults, cancels>>

(* The exception of a call, or of a check_cancelled of the pipeline, leaves*)
(* the flow.  ReActKernel.run reports it and ends; a plan's step fails and *)
(* the plan goes on with its next step.                                    *)
Raise ==
  /\ \/ pc = "starting" /\ flagged
     \/ pc = "running" /\ \E c \in Current : phase[c] = "raised"
  /\ flow' = flow + 1
  /\ batch' = 1
  /\ pc' = IF Planned THEN "asking" ELSE "over"
  /\ UNCHANGED <<call, answered, flagged, faults, cancels>>

(* cancel_run: CancelledError is thrown into the execution's task, which   *)
(* cancels the flow's task and with it the calls of the current batch.     *)
Cancel ==
  /\ pc \in {"asking", "starting", "running"}
  /\ cancels < MaxCancels
  /\ cancels' = cancels + 1
  /\ flagged' = TRUE
  /\ pc' = "cancelled"
  /\ phase' = [c \in Calls |->
                IF pc = "running" /\ c \in Current /\ phase[c] \in Active
                THEN "killed" ELSE phase[c]]
  /\ UNCHANGED <<flow, batch, attempts, outcome, audit, answered, faults>>

--------------------------------------------------------------------------------
(* A call.                                                                 *)

Goes(c, p) == phase' = [phase EXCEPT ![c] = p]

Records(c, event) == audit' = [audit EXCEPT ![c] = event]

(* _fail_tool_call up to its hooks.                                        *)
Fails(c, event, p) ==
  /\ Goes(c, p)
  /\ Records(c, event)
  /\ outcome' = [outcome EXCEPT ![c] = "error"]

(* The pre hooks let the call pass, and so does the policy.                *)
Begin(c) ==
  /\ phase[c] = "pre"
  /\ Goes(c, "tool")
  /\ Records(c, "started")
  /\ attempts' = [attempts EXCEPT ![c] = @ + 1]
  /\ UNCHANGED <<loop, outcome, answered, flagged, faults, cancels>>

(* A hook or the policy rejects the call, or there is no such tool.        *)
Reject(c) ==
  /\ phase[c] = "pre"
  /\ Fails(c, "rejected", "failing")
  /\ UNCHANGED <<loop, attempts, answered, flagged, faults, cancels>>

(* The tool returns a ToolOutput, of success or of an error.               *)
Output(c) ==
  /\ phase[c] = "tool"
  /\ Goes(c, IF flagged THEN "raised" ELSE "post")
  /\ \E result \in {"ok", "error"} : outcome' = [outcome EXCEPT ![c] = result]
  /\ UNCHANGED <<loop, attempts, audit, answered, flagged, faults, cancels>>

(* Defect: every tool is tried again.                                      *)
MayRetryAll(c) == attempts[c] <= MaxRetries

(* Defect: one attempt too many.                                           *)
MayRetryOnceMore(c) == c \in ReadOnly /\ attempts[c] <= MaxRetries + 1

MayRetry(c) == c \in ReadOnly /\ attempts[c] <= MaxRetries

(* The tool raises or times out, and is tried again after a sleep.         *)
Retry(c) ==
  /\ phase[c] = "tool"
  /\ MayRetry(c)
  /\ attempts' = [attempts EXCEPT ![c] = @ + 1]
  /\ UNCHANGED <<loop, phase, outcome, audit, answered, flagged, faults, cancels>>

(* The last attempt raises or times out, or returns no ToolOutput.         *)
GiveUp(c) ==
  /\ phase[c] = "tool"
  /\ Fails(c, "failed", "failing")
  /\ UNCHANGED <<loop, attempts, answered, flagged, faults, cancels>>

(* The post hooks are through.                                             *)
Complete(c) ==
  /\ phase[c] = "post"
  /\ IF outcome[c] = "ok"
     THEN Goes(c, "done") /\ Records(c, "completed") /\ UNCHANGED outcome
     ELSE Fails(c, "failed", "failing")
  /\ UNCHANGED <<loop, attempts, answered, flagged, faults, cancels>>

(* The failure hooks are through: the failure is the call's result.        *)
Settle(c) ==
  /\ phase[c] \in {"failing", "timedOut"}
  /\ Goes(c, "done")
  /\ UNCHANGED <<loop, attempts, outcome, audit, answered, flagged, faults, cancels>>

HookRaises(c) ==
  /\ phase[c] \in Active \ {"tool"}
  /\ faults < MaxFaults
  /\ faults' = faults + 1
  /\ Goes(c, "raised")
  /\ UNCHANGED <<loop, attempts, outcome, audit, answered, flagged, cancels>>

(* Defect: the timeout is not reported to the audit sink.                  *)
TimesOutSilently(c) ==
  /\ Goes(c, "timedOut")
  /\ outcome' = [outcome EXCEPT ![c] = "error"]
  /\ UNCHANGED audit

TimesOut(c) == Fails(c, "failed", "timedOut")

(* asyncio.wait_for cancels the call.  At its tool, the handler of         *)
(* CancelledError cancels the whole context.                               *)
Timeout(c) ==
  /\ StepTimeout
  /\ phase[c] \in Active \ {"timedOut"}
  /\ TimesOut(c)
  /\ flagged' = (flagged \/ phase[c] = "tool")
  /\ UNCHANGED <<loop, attempts, answered, faults, cancels>>

Progress(c) ==
  Begin(c) \/ Reject(c) \/ Output(c) \/ GiveUp(c) \/ Complete(c) \/ Settle(c)

CallStep(c) == Progress(c) \/ Retry(c) \/ HookRaises(c) \/ Timeout(c)

LoopStep == Ask \/ StartBatch \/ EndBatch \/ Raise

Next == LoopStep \/ Cancel \/ \E c \in Calls : CallStep(c)

Spec == Init /\ [][Next]_vars

(* A tool that is tried often enough gives up, its hooks return, and the   *)
(* loop is always ready: asyncio runs every task that is.                  *)
FairSpec == Spec /\ WF_vars(LoopStep) /\ \A c \in Calls : WF_vars(CallStep(c))
--------------------------------------------------------------------------------
(* Properties.                                                             *)

(* "read-only runs concurrent, write serial" (README): while a call that   *)
(* writes is under way, no other call of the execution is.                 *)
WriteAlone ==
  \A c \in Calls \ ReadOnly : phase[c] \in Active =>
    \A d \in Calls \ {c} : phase[d] \notin Active

(* A call runs only when all calls of earlier batches have their results:  *)
(* a read that the LLM asked for after a write sees the write.             *)
EarlierCallsDone ==
  \A f \in DOMAIN Flows : \A i, j \in DOMAIN Flows[f] :
    BatchesOf[f][j] < BatchesOf[f][i] /\ phase[Flows[f][i]] # "waiting"
      => phase[Flows[f][j]] = "done"

(* The tool of a call that writes is started at most once, and that of a   *)
(* call that reads (the types say) once more than its retries.             *)
WriteOnce == TypeOK /\ \A c \in Calls \ ReadOnly : attempts[c] <= 1

(* What a call reports is what the audit says of it.                       *)
AuditAgrees ==
  \A c \in Calls : phase[c] = "done" =>
    /\ outcome[c] = "ok" <=> audit[c] = "completed"
    /\ outcome[c] = "error" <=> audit[c] \in {"rejected", "failed"}

(* The LLM is never asked with a tool call that has no tool message.       *)
ToolCallsAnswered ==
  [][pc = "asking" /\ pc' = "starting" =>
       \A f \in 1..(flow - 1) : ToSet(Flows[f]) \subseteq answered]_vars

(* Every call of a flow ends, and so does the execution.                   *)
ExecutionEnds == <>(pc \in {"over", "cancelled"} /\ \A c \in Calls : phase[c] \notin Active)

(* A call whose timeout is reported as retryable leaves the execution      *)
(* uncancelled, unless the host cancelled it.                              *)
TimeoutIsRetryable == flagged => cancels > 0
--------------------------------------------------------------------------------
(* The instance of the runs: reads around a write, then a write.           *)
TwoAnswers == <<<<"r1", "r2", "w1", "r3">>, <<"w2">>>>
================================================================================
