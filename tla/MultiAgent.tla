------------------------------- MODULE MultiAgent ------------------------------
(***************************************************************************)
(* A task of the orchestration sidecar (orchestration/service.py) and the  *)
(* multi-agent session it runs (multi_agent/session.py): the schedulers    *)
(* choose who speaks in a step, the speakers of a step are asked one after *)
(* the other through the dispatcher, the stop condition is asked before    *)
(* every step, rounds are counted in steps.                                *)
(*                                                                         *)
(* A reply is abstracted to the worker it names, which only the supervisor *)
(* scheduler reads.                                                        *)
(***************************************************************************)
EXTENDS Integers, FiniteSets, SequencesExt

CONSTANTS
  Members,         (* all agents, the supervisor first                     *)
  Modes,           (* of round_robin, parallel, debate, redblue and        *)
                   (* supervisor: the schedulers of the session's modes    *)
  Team,            (* red, blue or judge: the teams the personas give      *)
  JudgeInterval,   (* judge_interval                                       *)
  MaxRounds,       (* max_rounds                                           *)
  CheckInterval,   (* check_interval of LLMBasedStop, 0 for MaxRoundsStop  *)
  NoAgent

AgentSet == ToSet(Members)

ASSUME SessionAssumption ==
  /\ Members \in Seq(AgentSet) /\ Len(Members) >= 2 /\ IsInjective(Members)
  /\ Modes \subseteq {"round_robin", "parallel", "debate", "redblue", "supervisor"}
  /\ Team \in [AgentSet -> {"red", "blue", "judge"}]
  /\ {JudgeInterval, MaxRounds} \subseteq Nat \ {0} /\ CheckInterval \in Nat
  /\ NoAgent \notin AgentSet

VARIABLES
  taskStatus,      (* OrchestrationTask.status, or absent                  *)
  worker,          (* the asyncio task: none, ready, running, cancelling   *)
                   (* (told to stop) or done                               *)
  mode,
  step, roundNum, stepInRound,
  speaking,        (* the speakers of this step that have not spoken       *)
  asked,           (* the first of them has been asked                     *)
  last,            (* the last message of the shared context: its author   *)
                   (* and the worker it names                              *)
  workerIndex,     (* of the supervisor's fallback rotation                *)
  turns,           (* _agent_speaks                                        *)
  evt,             (* the task's events, counted by type                   *)
  stopRequested    (* _stopped                                             *)

sessionVars == <<step, roundNum, stepInRound, speaking, asked, last, workerIndex, turns, evt>>
maVars == <<taskStatus, worker, mode, sessionVars, stopRequested>>

Final == {"completed", "failed", "cancelled"}

MultiAgentInit ==
  /\ taskStatus = "absent" /\ worker = "none"
  /\ mode \in Modes
  /\ step = 0 /\ roundNum = 0 /\ stepInRound = 0
  /\ speaking = <<>> /\ asked = FALSE
  /\ last = [agent |-> NoAgent, names |-> NoAgent]
  /\ workerIndex = 0
  /\ turns = [a \in AgentSet |-> 0]
  /\ evt = [start |-> 0, end |-> 0, message |-> 0, error |-> 0, done |-> 0]
  /\ stopRequested = FALSE

--------------------------------------------------------------------------------
(* The schedulers.                                                         *)

Cyclic(team, i) == team[(i % Len(team)) + 1]

Every2nd(first) == [i \in 1..((Len(Members) - first) \div 2 + 1) |-> Members[first + 2 * (i - 1)]]
DebateSpeaker(n) == Cyclic(Every2nd(IF n % 2 = 0 THEN 1 ELSE 2), n \div 2)

(* The members of a team, in their order.                                  *)
OfTeam(team) ==
  LET placed == {i \in DOMAIN Members : Team[Members[i]] = team}
  IN  [k \in 1..Cardinality(placed) |->
         Members[CHOOSE i \in placed : Cardinality({j \in placed : j <= i}) = k]]
RedBlueSpeaker(n) ==
  LET team == OfTeam(IF n % 2 = 0 THEN "red" ELSE "blue") IN
  IF OfTeam("judge") # <<>> /\ n > 0 /\ n % JudgeInterval = 0
    THEN Last(OfTeam("judge"))
    ELSE IF team = <<>> THEN Head(Members) ELSE Cyclic(team, n \div 2)

(* The supervisor at even steps; at odd ones the worker that the last      *)
(* message names, if it is the supervisor's, or else the workers in turn.  *)
Supervisor == Head(Members)
Workers == Tail(Members)
Assigned == IF last.agent = Supervisor THEN last.names ELSE NoAgent
FallsBack(n) == mode = "supervisor" /\ n % 2 = 1 /\ Assigned = NoAgent
SupervisorSpeaker(n) ==
  IF n % 2 = 0 THEN Supervisor
  ELSE IF FallsBack(n) THEN Cyclic(Workers, workerIndex) ELSE Assigned

Speakers(n) ==
  CASE mode = "round_robin" -> <<Cyclic(Members, n)>>
    [] mode = "parallel"    -> Members
    [] mode = "debate"      -> <<DebateSpeaker(n)>>
    [] mode = "redblue"     -> <<RedBlueSpeaker(n)>>
    [] mode = "supervisor"  -> <<SupervisorSpeaker(n)>>

(* steps_per_round.  Defect: a round is always one turn of all agents.     *)
StepsPerRoundOfAll == Len(Members)
StepsPerRound ==
  CASE mode = "round_robin" -> Len(Members)
    [] mode = "parallel"    -> 1
    [] OTHER                -> 2

--------------------------------------------------------------------------------
(* The session.                                                            *)

Going == worker = "running" /\ taskStatus = "running"

Done(events) ==
  /\ evt' = [events EXCEPT !.done = @ + 1]
  /\ taskStatus' = "completed" /\ worker' = "done"

(* The head of the loop of _execute: stopped, the stop condition, and the  *)
(* speakers of the step.                                                   *)
Stopped ==
  /\ Going /\ speaking = <<>> /\ stopRequested
  /\ Done(evt)
  /\ UNCHANGED <<mode, step, roundNum, stepInRound, speaking, asked, last, workerIndex, turns, stopRequested>>

AsksModel == CheckInterval > 0 /\ roundNum > 0 /\ roundNum % CheckInterval = 0

(* should_stop.  Defect: where a model is asked, nothing else ends it.     *)
ConditionMetByModel ==
  /\ Going /\ speaking = <<>> /\ ~stopRequested /\ AsksModel
  /\ Done(evt)
  /\ UNCHANGED <<mode, step, roundNum, stepInRound, speaking, asked, last, workerIndex, turns, stopRequested>>

ConditionMet ==
  /\ Going /\ speaking = <<>> /\ ~stopRequested
  /\ roundNum >= MaxRounds \/ AsksModel
  /\ Done(evt)
  /\ UNCHANGED <<mode, step, roundNum, stepInRound, speaking, asked, last, workerIndex, turns, stopRequested>>

(* _evaluate may leave the model's advice as a system message.             *)
SelectSpeakers ==
  /\ Going /\ speaking = <<>> /\ ~stopRequested /\ roundNum < MaxRounds
  /\ \E advice \in {FALSE} \cup {AsksModel} :
       last' = IF advice THEN [agent |-> NoAgent, names |-> NoAgent] ELSE last
  /\ speaking' = Speakers(step)
  /\ workerIndex' = IF FallsBack(step) THEN workerIndex + 1 ELSE workerIndex
  /\ UNCHANGED <<taskStatus, worker, mode, step, roundNum, stepInRound, asked, turns, evt, stopRequested>>

(* _record_speak and the request to the dispatcher                         *)
AskSpeaker ==
  /\ Going /\ speaking # <<>> /\ ~asked
  /\ asked' = TRUE
  /\ turns' = [turns EXCEPT ![Head(speaking)] = @ + 1]
  /\ UNCHANGED <<taskStatus, worker, mode, step, roundNum, stepInRound, speaking, last, workerIndex,
                 evt, stopRequested>>

(* The speaker's reply or error is an event; after the last speaker, the   *)
(* step and perhaps the round end.                                         *)
AfterSpeaker(events) ==
  LET stepEnds == Len(speaking) = 1
      roundEnds == stepEnds /\ stepInRound + 1 >= StepsPerRound
  IN  /\ asked' = FALSE
      /\ speaking' = Tail(speaking)
      /\ step' = IF stepEnds THEN step + 1 ELSE step
      /\ stepInRound' = IF roundEnds THEN 0 ELSE IF stepEnds THEN stepInRound + 1 ELSE stepInRound
      /\ roundNum' = IF roundEnds THEN roundNum + 1 ELSE roundNum
      /\ evt' = IF ~roundEnds THEN events
                ELSE [events EXCEPT !.end = @ + 1, !.start = IF stopRequested THEN @ ELSE @ + 1]
      /\ UNCHANGED <<taskStatus, worker, mode, workerIndex, turns, stopRequested>>

Replies(names) ==
  /\ Going /\ asked
  /\ last' = [agent |-> Head(speaking), names |-> names]
  /\ AfterSpeaker([evt EXCEPT !.message = @ + 1])

RequestFails ==
  /\ Going /\ asked
  /\ AfterSpeaker([evt EXCEPT !.error = @ + 1])
  /\ UNCHANGED last

(* stop() of the session, from another coroutine                           *)
StopSession ==
  /\ Going /\ ~stopRequested
  /\ stopRequested' = TRUE
  /\ UNCHANGED <<taskStatus, worker, mode, sessionVars>>

--------------------------------------------------------------------------------
(* The task service.                                                       *)

CreateTask(start) ==
  /\ taskStatus = "absent"
  /\ taskStatus' = "pending"
  /\ worker' = IF start THEN "ready" ELSE "none"
  /\ UNCHANGED <<mode, sessionVars, stopRequested>>

(* The worker starts: an agent that is not found or a mode that is unknown *)
(* or refuses its agents fails the task; or the first round starts.        *)
WorkerFails ==
  /\ worker = "ready"
  /\ taskStatus' = "failed" /\ worker' = "done"
  /\ UNCHANGED <<mode, sessionVars, stopRequested>>

WorkerStarts ==
  /\ worker = "ready"
  /\ taskStatus' = "running" /\ worker' = "running"
  /\ evt' = [evt EXCEPT !.start = @ + 1]
  /\ UNCHANGED <<mode, step, roundNum, stepInRound, speaking, asked, last, workerIndex, turns, stopRequested>>

(* cancel_task, and close, which cancels every worker that is not done:    *)
(* the worker is told, and ends with its next step.                        *)
(* Defect: the task's status is not looked at.                             *)
CancelTaskAnyway ==
  /\ taskStatus # "absent"
  /\ IF worker \in {"none", "done"} THEN taskStatus' = "cancelled" /\ UNCHANGED worker
     ELSE worker' = "cancelling" /\ UNCHANGED taskStatus
  /\ UNCHANGED <<mode, sessionVars, stopRequested>>

CancelTask ==
  /\ taskStatus \notin {"absent", "completed", "failed"}
  /\ IF worker \in {"none", "done"} THEN taskStatus' = "cancelled" /\ UNCHANGED worker
     ELSE worker' = "cancelling" /\ UNCHANGED taskStatus
  /\ UNCHANGED <<mode, sessionVars, stopRequested>>

WorkerCancelled ==
  /\ worker = "cancelling"
  /\ worker' = "done" /\ taskStatus' = "cancelled"
  /\ UNCHANGED <<mode, sessionVars, stopRequested>>

WorkerStep ==
  \/ Stopped \/ ConditionMet \/ SelectSpeakers \/ AskSpeaker
  \/ RequestFails \/ \E names \in ToSet(Workers) \cup {NoAgent} : Replies(names)
  \/ WorkerStarts \/ WorkerFails \/ WorkerCancelled

MultiAgentNext ==
  WorkerStep \/ StopSession \/ CancelTask \/ \E start \in BOOLEAN : CreateTask(start)

(* The loop runs what is ready, and a request ends within its timeout.     *)
MultiAgentFair == WF_maVars(WorkerStep)
MultiAgentSpec == MultiAgentInit /\ [][MultiAgentNext]_maVars /\ MultiAgentFair

--------------------------------------------------------------------------------
MultiAgentTypeOK ==
  /\ taskStatus \in {"absent", "pending", "running"} \cup Final
  /\ worker \in {"none", "ready", "running", "cancelling", "done"}
  /\ roundNum \in 0..MaxRounds /\ stepInRound \in 0..(StepsPerRound - 1)
  /\ ToSet(speaking) \subseteq AgentSet /\ asked \in BOOLEAN
  /\ turns \in [AgentSet -> Nat]

(* The turns of a team: each is a member and how many it has had by then.  *)
TurnsOf(team) == Cardinality(UNION {{a} \X (1..turns[a]) : a \in ToSet(team)})

(* Between two rounds everybody has had the turns the mode promises: one a *)
(* round for every agent that takes part in turn or in parallel, one for   *)
(* each side of a debate, one for the supervisor and one for a worker; a   *)
(* turn that failed counts.                                                *)
TurnsAreFair ==
  taskStatus = "running" /\ speaking = <<>> /\ stepInRound = 0 =>
    CASE mode \in {"round_robin", "parallel"} -> \A a \in AgentSet : turns[a] = roundNum
      [] mode = "debate"     -> TurnsOf(Every2nd(1)) = roundNum /\ TurnsOf(Every2nd(2)) = roundNum
      [] mode = "supervisor" -> turns[Supervisor] = roundNum /\ TurnsOf(Workers) = roundNum
      [] mode = "redblue"    -> TurnsOf(Members) = 2 * roundNum

(* A task that is over stays as it ended, with no event or turn more:      *)
(* what cancels it late does not take a result back.                       *)
FinalStays == [][(taskStatus \in Final) => UNCHANGED <<taskStatus, evt, turns>>]_maVars

(* A task whose worker was started comes to its end.                       *)
TaskEnds == worker = "ready" ~> taskStatus \in Final
================================================================================
