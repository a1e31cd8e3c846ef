------------------------------- MODULE Execution -------------------------------
(***************************************************************************)
(* The life of the executions that carry one run id: Executor.run_stream   *)
(* (core/executor.py) driving ReActKernel.run (core/react_kernel.py), its  *)
(* plugin hooks and checkpoints (core/execution_run.py), and the token of  *)
(* RunControlRegistry (runtime/run_control.py) through which               *)
(* Engine.cancel_run reaches them.                                         *)
(*                                                                         *)
(* Several executions share a run id: the host's own, those of the agents  *)
(* its agent_call tools ask for (the run id travels in the metadata), and  *)
(* those that resume the run from its latest checkpoint.  Each is a task.  *)
(*                                                                         *)
(* A phase names the await at which the task is suspended.  task.cancel()  *)
(* throws CancelledError there; a hook or the checkpoint store may raise.  *)
(* What the code does between two awaits is one step.                      *)
(***************************************************************************)
EXTENDS Integers, FiniteSets

CONSTANTS
  Executions,
  None,
  CallerOf,      (* the execution whose agent_call asks for this one, or   *)
                 (* None: started, or resumed, by the host                 *)
  MaxRounds,     (* ctx.config.max_rounds                                  *)
  MaxCancels,    (* bound: how often the host calls cancel_run             *)
  MaxFaults      (* bound: exceptions raised by hooks, turns and the store *)

ASSUME ExecutionsAssumption ==
  /\ IsFiniteSet(Executions)
  /\ None \notin Executions
  /\ CallerOf \in [Executions -> Executions \cup {None}]

ASSUME BoundsAssumption ==
  MaxRounds \in Nat /\ MaxCancels \in Nat /\ MaxFaults \in Nat

VARIABLES
  pc,            (* where the execution's task is suspended                *)
  pending,       (* task.cancel() was called, CancelledError not yet thrown*)
  flagged,       (* ctx.state.cancelled                                    *)
  round,         (* ctx.state.current_round                                *)
  size,          (* len(message store)                                     *)
  terminal,      (* the terminal event the consumer has received, or       *)
                 (* "dropped" when it gave the stream up before one        *)
  contexts,      (* the token's contexts                                   *)
  tasks,         (* the token's tasks                                      *)
  cancelled,     (* the token's cancelled flag                             *)
  latest,        (* CheckpointStore.latest of the run id                   *)
  asked,         (* the executions that were queued or running, without an *)
                 (* outcome, at some call of cancel_run                    *)
  cancels,       (* calls of cancel_run so far                             *)
  faults         (* exceptions so far                                      *)

task == <<pc, pending, flagged, round, size, terminal>>
token == <<contexts, tasks, cancelled>>
vars == <<task, token, latest, asked, cancels, faults>>

--------------------------------------------------------------------------------
(* Phases.                                                                 *)

(* Awaits before the try block: on_execution_start and the first save.     *)
Prologue == {"starting", "savingStart"}

(* Awaits of the kernel and of the event loop around it: an exception      *)
(* there is handled by the except clauses of run_stream.                   *)
Body == {"savingRound", "turn", "turnFailed", "answered", "toolsDone",
         "completing", "savingDone", "savingError"}

(* Awaits of the except clauses.                                           *)
Handlers == {"savingCancelled", "savingException", "reporting"}

Awaiting == Prologue \cup Body \cup Handlers \cup {"ending"}

(* run_stream has registered the execution and not yet returned or raised. *)
Live == Awaiting \cup {"yielded"}

Phases == Live \cup {"idle", "queued", "over"}

Saving == {"savingStart", "savingRound", "toolsDone", "savingDone",
           "savingError", "savingCancelled", "savingException"}

(* The "phase" a save records in the checkpoint's state.                   *)
Recorded(p) ==
  CASE p = "savingStart" -> "start"
    [] p = "savingRound" -> "round_start"
    [] p = "toolsDone" -> "round_end"
    [] p = "savingDone" -> "done"
    [] p = "savingError" -> "error"
    [] p = "savingCancelled" -> "cancelled"
    [] OTHER -> "exception"

--------------------------------------------------------------------------------
(* RunControlToken and RunControlRegistry.  The registry holds a token for *)
(* the run id exactly while the token has contexts or tasks.               *)

Known == contexts \cup tasks # {}

(* Defect: a task joins only the token it creates.                         *)
RegisterTokenLate(e) ==
  /\ contexts' = contexts \cup {e}
  /\ tasks' = IF Known THEN tasks ELSE {e}
  /\ flagged' = [flagged EXCEPT ![e] = cancelled]
  /\ UNCHANGED cancelled

RegisterToken(e) ==
  /\ contexts' = contexts \cup {e}
  /\ tasks' = tasks \cup {e}
  /\ flagged' = [flagged EXCEPT ![e] = cancelled]
  /\ UNCHANGED cancelled

(* Defect: the first execution to end takes the token away.                *)
UnregisterTokenAll(e) == contexts' = {} /\ tasks' = {} /\ cancelled' = FALSE

UnregisterToken(e) ==
  /\ contexts' = contexts \ {e}
  /\ tasks' = tasks \ {e}
  /\ cancelled' = (cancelled /\ contexts' \cup tasks' # {})

--------------------------------------------------------------------------------
(* CheckpointRecorder.save: the sequence is the number of messages plus    *)
(* the round; the store keeps its checkpoints sorted by sequence, so the   *)
(* latest is the last written of the highest sequence.                     *)

NoCheckpoint == [seq |-> -1, phase |-> "none", size |-> 0, round |-> 0, by |-> None]

(* Defect: the sequence counts rounds only.                                *)
CheckpointByRound(e) ==
  [seq |-> round[e], phase |-> Recorded(pc[e]),
   size |-> size[e], round |-> 0, by |-> e]

Checkpoint(e) ==
  [seq |-> size[e] + round[e], phase |-> Recorded(pc[e]),
   size |-> size[e], round |-> round[e], by |-> e]

Save(e) ==
  latest' = IF pc[e] \in Saving /\ Checkpoint(e).seq >= latest.seq
            THEN Checkpoint(e) ELSE latest

(* A save that is interrupted or fails may have written or not.            *)
MaySave(e) == Save(e) \/ UNCHANGED latest

--------------------------------------------------------------------------------
Init ==
  /\ pc = [e \in Executions |-> "idle"]
  /\ pending = [e \in Executions |-> FALSE]
  /\ flagged = [e \in Executions |-> FALSE]
  /\ round = [e \in Executions |-> 0]
  /\ size = [e \in Executions |-> 0]
  /\ terminal = [e \in Executions |-> "none"]
  /\ contexts = {} /\ tasks = {} /\ cancelled = FALSE
  /\ latest = NoCheckpoint
  /\ asked = {}
  /\ cancels = 0 /\ faults = 0

Bounds == <<asked, cancels, faults>>

(* A tool of the caller's turn publishes the request for another agent.    *)
Ask(e) ==
  /\ pc[e] = "idle"
  /\ CallerOf[e] # None
  /\ pc[CallerOf[e]] = "turn"
  /\ pc' = [pc EXCEPT ![e] = "queued"]
  /\ UNCHANGED <<pending, flagged, round, size, terminal, token, latest, Bounds>>

(* run_stream up to its first await, with messages and round from the      *)
(* request or from the snapshot of the latest checkpoint.  The host gives   *)
(* a new run a new id, and resumes a run when no earlier execution of its  *)
(* own is left.                                                            *)
Start(e) ==
  /\ \/ pc[e] = "queued"
     \/ /\ pc[e] = "idle" /\ CallerOf[e] = None
        /\ \A f \in Executions : CallerOf[f] = None => pc[f] \in {"idle", "over"}
  /\ RegisterToken(e)
  /\ \/ /\ CallerOf[e] # None \/ latest = NoCheckpoint
        /\ size' = [size EXCEPT ![e] = 1]
        /\ round' = [round EXCEPT ![e] = 0]
     \/ /\ CallerOf[e] = None
        /\ latest # NoCheckpoint
        /\ size' = [size EXCEPT ![e] = latest.size]
        /\ round' = [round EXCEPT ![e] = latest.round]
  /\ pc' = [pc EXCEPT ![e] = "starting"]
  /\ UNCHANGED <<pending, terminal, latest, Bounds>>

Started(e) ==
  /\ pc[e] = "starting"
  /\ ~pending[e]
  /\ pc' = [pc EXCEPT ![e] = "savingStart"]
  /\ UNCHANGED <<pending, flagged, round, size, terminal, token, latest, Bounds>>

(* Defects: the loop never checks for a cancellation; it runs one round    *)
(* too many.                                                               *)
LoopHeadUnchecked(e) ==
  \/ /\ pc' = [pc EXCEPT ![e] = "savingError"]
     /\ UNCHANGED round
  \/ /\ round[e] < MaxRounds
     /\ pc' = [pc EXCEPT ![e] = "savingRound"]
     /\ round' = [round EXCEPT ![e] = @ + 1]

LoopHeadOneMore(e) ==
  /\ round[e] <= MaxRounds
  /\ pc' = [pc EXCEPT ![e] = IF flagged[e] THEN "savingCancelled" ELSE "savingRound"]
  /\ round' = [round EXCEPT ![e] = @ + 1]

(* The head of ReActKernel.run's loop, reached without an await: it raises *)
(* when the context is cancelled, gives up when time or rounds are over,   *)
(* and otherwise begins a round.                                           *)
LoopHead(e) ==
  \/ /\ flagged[e]
     /\ pc' = [pc EXCEPT ![e] = "savingCancelled"]
     /\ UNCHANGED round
  \/ /\ ~flagged[e]
     /\ pc' = [pc EXCEPT ![e] = "savingError"]
     /\ UNCHANGED round
  \/ /\ ~flagged[e]
     /\ round[e] < MaxRounds
     /\ pc' = [pc EXCEPT ![e] = "savingRound"]
     /\ round' = [round EXCEPT ![e] = @ + 1]

EnterLoop(e) ==
  /\ pc[e] = "savingStart"
  /\ ~pending[e]
  /\ Save(e)
  /\ LoopHead(e)
  /\ UNCHANGED <<pending, flagged, size, terminal, token, Bounds>>

(* The round_start checkpoint is saved; a plugin may stop the run.         *)
BeginTurn(e) ==
  /\ pc[e] = "savingRound"
  /\ ~pending[e]
  /\ Save(e)
  /\ \E p \in {"turn", "completing"} : pc' = [pc EXCEPT ![e] = p]
  /\ UNCHANGED <<pending, flagged, round, size, terminal, token, Bounds>>

(* The turn ends with an answer, with the results of its tools, or with an *)
(* exception, raised before or after the assistant's message was stored.   *)
EndTurn(e) ==
  /\ pc[e] = "turn"
  /\ ~pending[e]
  /\ \/ /\ size' = [size EXCEPT ![e] = @ + 1]
        /\ pc' = [pc EXCEPT ![e] = "answered"]
        /\ UNCHANGED faults
     \/ /\ size' = [size EXCEPT ![e] = @ + 2]
        /\ pc' = [pc EXCEPT ![e] = "toolsDone"]
        /\ UNCHANGED faults
     \/ /\ faults < MaxFaults
        /\ faults' = faults + 1
        /\ \E grown \in {0, 1} : size' = [size EXCEPT ![e] = @ + grown]
        /\ pc' = [pc EXCEPT ![e] = "turnFailed"]
  /\ UNCHANGED <<pending, flagged, round, terminal, token, latest, asked, cancels>>

(* on_error and on_round_end have run.                                     *)
Reported(e) ==
  /\ ~pending[e]
  /\ \/ /\ pc[e] = "turnFailed"
        /\ pc' = [pc EXCEPT ![e] = "savingError"]
     \/ /\ pc[e] = "answered"
        /\ pc' = [pc EXCEPT ![e] = "completing"]
     \/ /\ pc[e] = "completing"
        /\ pc' = [pc EXCEPT ![e] = "savingDone"]
  /\ UNCHANGED <<pending, flagged, round, size, terminal, token, latest, Bounds>>

(* The round_end checkpoint is saved: a plugin stops the run, or the loop  *)
(* goes on.                                                                *)
EndRound(e) ==
  /\ pc[e] = "toolsDone"
  /\ ~pending[e]
  /\ Save(e)
  /\ \/ /\ pc' = [pc EXCEPT ![e] = "completing"]
        /\ UNCHANGED round
     \/ LoopHead(e)
  /\ UNCHANGED <<pending, flagged, size, terminal, token, Bounds>>

(* The outcome is saved and its event handed to the consumer.              *)
Yield(e) ==
  /\ ~pending[e]
  /\ \E p \in {<<"savingDone", "done">>, <<"savingError", "error">>,
               <<"savingCancelled", "cancelled">>} :
       /\ pc[e] = p[1]
       /\ terminal' = [terminal EXCEPT ![e] = p[2]]
  /\ Save(e)
  /\ pc' = [pc EXCEPT ![e] = "yielded"]
  /\ UNCHANGED <<pending, flagged, round, size, token, Bounds>>

(* The FAILED checkpoint and on_error of an exception that is re-raised.   *)
Raise(e) ==
  /\ ~pending[e]
  /\ \/ pc[e] = "savingException" /\ pc' = [pc EXCEPT ![e] = "reporting"]
     \/ pc[e] = "reporting" /\ pc' = [pc EXCEPT ![e] = "ending"]
  /\ Save(e)
  /\ UNCHANGED <<pending, flagged, round, size, terminal, token, Bounds>>

(* The consumer takes the terminal event and asks for more, or drops the   *)
(* stream; a cancellation may strike while the consumer itself awaits.     *)
Consume(e) ==
  /\ pc[e] = "yielded"
  /\ \/ UNCHANGED pending
     \/ pending' = [pending EXCEPT ![e] = FALSE]
  /\ pc' = [pc EXCEPT ![e] = "ending"]
  /\ UNCHANGED <<flagged, round, size, terminal, token, latest, Bounds>>

(* The consumer drops the stream at an event of the turn.                  *)
Drop(e) ==
  /\ pc[e] = "turn"
  /\ pc' = [pc EXCEPT ![e] = "ending"]
  /\ pending' = [pending EXCEPT ![e] = FALSE]
  /\ terminal' = [terminal EXCEPT ![e] = "dropped"]
  /\ UNCHANGED <<flagged, round, size, token, latest, Bounds>>

(* Defect: the token is given up by the last of its executions only.       *)
EndTogether(e) ==
  /\ pc[e] = "ending"
  /\ ~pending[e]
  /\ contexts = {e}
  /\ UnregisterToken(e)
  /\ pc' = [pc EXCEPT ![e] = "over"]
  /\ UNCHANGED <<pending, flagged, round, size, terminal, latest, Bounds>>

(* on_execution_end has run: the execution leaves the registry.            *)
End(e) ==
  /\ pc[e] = "ending"
  /\ ~pending[e]
  /\ UnregisterToken(e)
  /\ pc' = [pc EXCEPT ![e] = "over"]
  /\ UNCHANGED <<pending, flagged, round, size, terminal, latest, Bounds>>

(* Where an exception leads.  Before the try block, in the except clauses  *)
(* and in the finally nothing catches it, and the first and the last skip  *)
(* unregister.                                                             *)
Escape(e, handler) ==
  pc' = [pc EXCEPT ![e] = IF @ \in Prologue \cup {"ending"} THEN "over"
                          ELSE IF @ \in Body THEN handler ELSE "ending"]

(* asyncio.CancelledError is thrown at the await.                          *)
Interrupt(e) ==
  /\ pc[e] \in Awaiting
  /\ pending[e]
  /\ pending' = [pending EXCEPT ![e] = FALSE]
  /\ flagged' = [flagged EXCEPT ![e] = @ \/ pc[e] \in Body]
  /\ MaySave(e)
  /\ Escape(e, "savingCancelled")
  /\ UNCHANGED <<round, size, terminal, token, Bounds>>

(* A hook or the checkpoint store raises (a turn's own exceptions are      *)
(* caught by the kernel, see EndTurn).                                     *)
Fault(e) ==
  /\ pc[e] \in Awaiting \ {"turn"}
  /\ ~pending[e]
  /\ faults < MaxFaults
  /\ faults' = faults + 1
  /\ MaySave(e)
  /\ Escape(e, "savingException")
  /\ UNCHANGED <<pending, flagged, round, size, terminal, token, asked, cancels>>

(* Engine.cancel_run: flags every context and cancels every task that is   *)
(* not done.                                                               *)
CancelRun ==
  /\ Known
  /\ cancels < MaxCancels
  /\ cancels' = cancels + 1
  /\ cancelled' = TRUE
  /\ flagged' = [e \in Executions |-> flagged[e] \/ e \in contexts]
  /\ pending' = [e \in Executions |->
                   pending[e] \/ (e \in tasks /\ pc[e] # "over")]
  /\ asked' = asked \cup {e \in Executions : /\ pc[e] \notin {"idle", "over"}
                                             /\ terminal[e] = "none"}
  /\ UNCHANGED <<pc, round, size, terminal, contexts, tasks, latest, faults>>

Step(e) ==
  \/ Started(e) \/ EnterLoop(e) \/ BeginTurn(e) \/ EndTurn(e) \/ Reported(e)
  \/ EndRound(e) \/ Yield(e) \/ Raise(e) \/ Consume(e) \/ End(e) \/ Interrupt(e)

Next ==
  \/ \E e \in Executions : Ask(e) \/ Start(e) \/ Step(e) \/ Drop(e) \/ Fault(e)
  \/ CancelRun

Spec == Init /\ [][Next]_vars

(* The event loop resumes every task whose await is over: hooks, stores,   *)
(* providers and tools return (they have timeouts), a consumer goes on.    *)
Fairness == \A e \in Executions : WF_vars(Step(e))

FairSpec == Spec /\ Fairness
--------------------------------------------------------------------------------
(* Properties.                                                             *)

SavedPhases ==
  {"none", "start", "round_start", "round_end", "done", "error", "cancelled", "exception"}

(* The type invariant; a round is never counted past max_rounds.           *)
TypeOK ==
  /\ pc \in [Executions -> Phases]
  /\ pending \in [Executions -> BOOLEAN]
  /\ flagged \in [Executions -> BOOLEAN]
  /\ round \in [Executions -> 0..MaxRounds]
  /\ size \in [Executions -> Nat]
  /\ terminal \in [Executions -> {"none", "done", "error", "cancelled", "dropped"}]
  /\ contexts \subseteq Executions
  /\ tasks \subseteq Executions
  /\ cancelled \in BOOLEAN
  /\ latest \in [seq : Int, phase : SavedPhases, size : Nat, round : 0..MaxRounds,
                 by : Executions \cup {None}]
  /\ asked \subseteq Executions
  /\ cancels \in 0..MaxCancels
  /\ faults \in 0..MaxFaults

(* From its registration to its end an execution can be reached by         *)
(* cancel_run, whichever executions of the same run id register, end,      *)
(* fail or leave their token behind meanwhile (RunControlRegistry).  Its   *)
(* first part is that of the types.                                        *)
RunningIsCancellable ==
  /\ TypeOK
  /\ \A e \in Executions : pc[e] \in Live => e \in contexts \cap tasks

(* Once its context is marked cancelled an execution begins no further     *)
(* turn and reports no outcome but "cancelled", wherever its task was when *)
(* the cancellation came (executor.py run_stream, react_kernel.py run).    *)
CancelHonoured ==
  [][\A e \in Executions : flagged[e] =>
       /\ pc'[e] = "turn" => pc[e] = "turn"
       /\ terminal'[e] \in {terminal[e], "cancelled", "dropped"}]_vars

(* When the consumer receives done, error or cancelled, the checkpoint a   *)
(* resume would find is the execution's own and records that outcome, as   *)
(* long as no agent it calls saves its own under the same run id.          *)
OutcomeRecorded ==
  [][\A e \in Executions :
       /\ terminal'[e] \in {"done", "error", "cancelled"} \ {terminal[e]}
       /\ \A n \in Executions : CallerOf[n] # None => pc[n] = "idle"
       => latest'.by = e /\ latest'.phase = terminal'[e]]_vars

(* A started execution ends: its rounds are limited, and neither a         *)
(* cancellation nor a failing hook or store keeps it from its end.         *)
EveryExecutionEnds == \A e \in Executions : pc[e] \in Live ~> pc[e] = "over"

--------------------------------------------------------------------------------
(* What the documentation says of cancellation and the code does not keep. *)

(* README.md: "Hosts should cancel a run through the Engine so nested      *)
(* agent_call, [...] share the same cancellation signal".  No execution of *)
(* the run that was asked for before cancel_run begins a turn afterwards.  *)
CancelReachesNested ==
  [][\A e \in asked : pc'[e] = "turn" => pc[e] = "turn"]_vars
--------------------------------------------------------------------------------
(* The instance of the runs: x1 and x2 are the host's, a run and its       *)
(* resumption; n1 is the run of another agent that x1 calls.               *)
OneNested == [e \in Executions |-> IF e = "n1" THEN "x1" ELSE None]
================================================================================
