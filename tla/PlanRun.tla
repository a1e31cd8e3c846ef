-------------------------------- MODULE PlanRun --------------------------------
(***************************************************************************)
(* The Plan-Observe-Replan run of one run id: PORExecutionService and its  *)
(* StepRunner (planning/por_runner.py) driven by the graph of              *)
(* planning/graph_runtime.py, with the scheduler, observer and replanner,  *)
(* the checkpoints it saves and its resumption from the latest of them.    *)
(*                                                                         *)
(* The run enters POR from a ReAct round (round = 1), so the sequences of  *)
(* its checkpoints, round * 1000 + step id, are above those of Executor,   *)
(* which count messages; Executor's checkpoints are left to Execution.     *)
(* A process that dies and a CancelledError thrown at an await both leave  *)
(* only the checkpoints behind: Interrupt stands for either.               *)
(***************************************************************************)
EXTENDS Integers, Sequences, FiniteSets

CONSTANTS
  Setups,          (* runs: the plan an LLM answer carries, a sequence of  *)
                   (* [id, deps] (detect_plan passes only valid ones on),  *)
                   (* and whether ctx.utility_model is set                 *)
  Replans,         (* the new steps the LLM may answer to a failure with   *)
  MaxReplanCount,  (* MAX_REPLAN_COUNT                                     *)
  MaxRounds,       (* ctx.config.max_rounds                                *)
  MinStepRounds,   (* _MIN_STEP_ROUNDS                                     *)
  MaxResumes       (* bound: how often the host resumes the run            *)

(* validate_plan: ids are unique, dependencies are steps of the plan and   *)
(* form no cycle, so that the steps can be ranked.                         *)
Valid(steps) ==
  /\ \A i, j \in DOMAIN steps : steps[i].id = steps[j].id => i = j
  /\ \A i \in DOMAIN steps : steps[i].deps \subseteq {steps[j].id : j \in DOMAIN steps}
  /\ \E rank \in [DOMAIN steps -> DOMAIN steps] :
       \A i, j \in DOMAIN steps : steps[j].id \in steps[i].deps => rank[j] < rank[i]

Steps == [id : Int, deps : SUBSET Int]

ASSUME PlanAssumption ==
  /\ \A u \in Setups :
       u.llm \in BOOLEAN /\ u.plan \in Seq(Steps) \ {<<>>} /\ Valid(u.plan)
  /\ Replans \subseteq Seq(Steps) \ {<<>>}
  /\ {MaxReplanCount, MaxRounds, MaxResumes} \subseteq Nat /\ MinStepRounds \in Nat \ {0}

VARIABLES
  utility,         (* ctx.utility_model is set                             *)
  pc,              (* the graph node under way                             *)
  plan,            (* plan.steps                                           *)
  replans,         (* plan.replan_count                                    *)
  next,            (* the positions in plan of state.next_steps, which     *)
                   (* keep the order of the plan                           *)
  seen,            (* those of them the observer has handled               *)
  goal,            (* state.goal_achieved                                  *)
  round,           (* ctx.state.current_round                              *)
  flagged,         (* the run registered with a cancelled token            *)
  latest,          (* CheckpointStore.latest of the run id                 *)
  resumes,         (* resumptions so far                                   *)
  results          (* history: how the last execution of each id ended     *)

volatile == <<plan, replans, next, seen, goal, round, flagged>>
history == <<resumes, results>>
vars == <<utility, pc, volatile, latest, history>>

--------------------------------------------------------------------------------
(* Plans.                                                                  *)

Statuses == {"pending", "running", "done", "failed", "skipped"}

Ids ==
  UNION {UNION {{s[i].id} \cup s[i].deps : i \in DOMAIN s} :
           s \in {u.plan : u \in Setups} \cup Replans}

(* create_plan, and the steps replan makes: every step starts out pending. *)
Pending(steps) ==
  [i \in DOMAIN steps |->
     [id |-> steps[i].id, deps |-> steps[i].deps, status |-> "pending"]]

Positions(status) == {i \in DOMAIN plan : plan[i].status = status}

IdsWith(steps, status) == {steps[i].id : i \in {j \in DOMAIN steps : steps[j].status = status}}

(* _get_step: the first step with the id, of those a lookup may meet.      *)
First(steps, id) ==
  CHOOSE i \in DOMAIN steps :
    steps[i].id = id /\ \A j \in 1..(i - 1) : steps[j].id # id

Known(steps, id) == \E i \in DOMAIN steps : steps[i].id = id

(* Defect: a dependency that has ended, well or not, is met.               *)
DepsEnded(steps, step) ==
  \A d \in step.deps :
    Known(steps, d) /\ steps[First(steps, d)].status \in {"done", "failed"}

(* A dependency that names no step is never met.                           *)
DepsDone(steps, step) ==
  \A d \in step.deps : Known(steps, d) /\ steps[First(steps, d)].status = "done"

(* Defect: only steps whose dependencies stand before them are found.      *)
ReadyInOrder(steps) ==
  {i \in DOMAIN steps :
     steps[i].status = "pending" /\ DepsDone(SubSeq(steps, 1, i), steps[i])}

(* get_next_steps, as positions in the plan.                               *)
Ready(steps) == {i \in DOMAIN steps : steps[i].status = "pending" /\ DepsDone(steps, steps[i])}

(* The first of some positions.                                            *)
IsFirst(i, I) == i \in I /\ \A j \in I : i <= j

Mark(i, status) == [plan EXCEPT ![i].status = status]

(* mark_step_done, mark_step_failed: on the first step with that id.       *)
MarkId(id, status) == [plan EXCEPT ![First(plan, id)].status = status]

--------------------------------------------------------------------------------
(* Checkpoints.                                                            *)

NoCheckpoint == [seq |-> -1, status |-> "none", plan |-> <<>>, replans |-> 0]

(* _save_plan_checkpoint: the store keeps the checkpoints sorted by        *)
(* sequence; of equal sequences the one saved later is the later.          *)
Save(status, id) ==
  LET c == [seq |-> round * 1000 + id, status |-> status,
            plan |-> plan', replans |-> replans']
  IN  latest' = IF c.seq >= latest.seq THEN c ELSE latest

--------------------------------------------------------------------------------
Live == {"announce", "select", "starting", "shared", "parallel", "observe",
         "replan"}

PlanSteps == [id : Ids, deps : SUBSET Ids, status : Statuses]
ReplanLimit == MaxReplanCount + IF utility THEN 1 ELSE 0
Checkpoints ==
  [seq : Int, status : {"none", "running", "completed"},
   plan : Seq(PlanSteps), replans : 0..ReplanLimit]

TypeOK ==
  /\ utility \in BOOLEAN
  /\ pc \in Live \cup {"done", "lost"}
  /\ plan \in Seq(PlanSteps)
  /\ replans \in 0..ReplanLimit
  /\ next \subseteq DOMAIN plan /\ seen \subseteq next
  /\ goal \in BOOLEAN
  /\ round \in 0..(MaxRounds + MinStepRounds)
  /\ flagged \in BOOLEAN
  /\ latest \in Checkpoints
  /\ resumes \in 0..MaxResumes
  /\ results \in [Ids -> {"none", "ok", "failed"}]

Init ==
  /\ \E u \in Setups : plan = Pending(u.plan) /\ utility = u.llm
  /\ pc = "announce"
  /\ replans = 0
  /\ next = {} /\ seen = {}
  /\ goal = FALSE
  /\ round = 1
  /\ flagged = FALSE
  /\ latest = NoCheckpoint
  /\ resumes = 0
  /\ results = [id \in Ids |-> "none"]

Announce ==
  /\ pc = "announce"
  /\ pc' = "select"
  /\ UNCHANGED <<volatile, resumes, results>>
  /\ Save("running", 0)

(* _finalize_plan.  Its summary falls back on the results when the LLM     *)
(* fails.                                                                  *)
Finalize ==
  /\ pc' = "done"
  /\ UNCHANGED <<volatile, resumes, results>>
  /\ Save("completed", 0)

(* Defect: the loop of select_steps only leaves when no step is pending.   *)
StuckUntilSettled == ~ flagged /\ Positions("pending") = {}

(* No step is ready, whether or not some are still pending.                *)
Stuck == ~ flagged /\ Ready(plan) = {}

(* select_steps.  check_cancelled raises when the run was registered with  *)
(* a cancelled token; the graph turns that into an error event.            *)
SelectCancelled ==
  /\ pc = "select"
  /\ flagged
  /\ pc' = "lost"
  /\ UNCHANGED <<volatile, latest, history>>

SelectNothing == pc = "select" /\ Stuck /\ Finalize

SelectOne ==
  /\ pc = "select"
  /\ ~ flagged
  /\ Cardinality(Ready(plan)) = 1
  /\ next' = Ready(plan)
  /\ seen' = {}
  /\ pc' = "starting"
  /\ UNCHANGED <<plan, replans, goal, round, flagged, resumes, results>>
  /\ \E i \in next' : Save("running", plan[i].id)

(* _execute_parallel starts an isolated run of every step that is ready.   *)
SelectMany ==
  /\ pc = "select"
  /\ ~ flagged
  /\ Cardinality(Ready(plan)) > 1
  /\ next' = Ready(plan)
  /\ seen' = {}
  /\ plan' = [i \in DOMAIN plan |->
               IF i \in Ready(plan) THEN [plan[i] EXCEPT !.status = "running"] ELSE plan[i]]
  /\ pc' = "parallel"
  /\ UNCHANGED <<replans, goal, round, flagged, latest, history>>

(* run_shared sets the step running after its step_start checkpoint.       *)
StartShared ==
  /\ pc = "starting"
  /\ \E i \in next : plan' = Mark(i, "running")
  /\ pc' = "shared"
  /\ UNCHANGED <<replans, next, seen, goal, round, flagged, latest, history>>

(* An execution of the step at i ends, well or not.                        *)
Returned(i, ok) ==
  /\ plan' = Mark(i, IF ok THEN "done" ELSE "failed")
  /\ results' = [results EXCEPT ![plan[i].id] = IF ok THEN "ok" ELSE "failed"]

(* The ReAct rounds a shared step may take: its floor may exceed what is   *)
(* left of max_rounds.                                                     *)
StepRounds ==
  LET configured == IF MaxRounds \div 4 > MinStepRounds
                    THEN MaxRounds \div 4 ELSE MinStepRounds
      left == IF MaxRounds - round > MinStepRounds
              THEN MaxRounds - round ELSE MinStepRounds
  IN IF configured < left THEN configured ELSE left

SharedReturns ==
  /\ pc = "shared"
  /\ \E i \in next :
       \/ round >= MaxRounds /\ Returned(i, FALSE) /\ UNCHANGED round
       \/ /\ round < MaxRounds
          /\ \E k \in 1..StepRounds, ok \in BOOLEAN : Returned(i, ok) /\ round' = round + k
  /\ pc' = "observe"
  /\ UNCHANGED <<replans, next, seen, goal, flagged, latest, resumes>>

(* A child counts its rounds in its own context, not in the plan's.        *)
IsolatedReturns(i) ==
  /\ pc = "parallel"
  /\ plan[i].status = "running"
  /\ \E ok \in BOOLEAN : Returned(i, ok)
  /\ UNCHANGED <<pc, replans, next, seen, goal, round, flagged, latest, resumes>>

Gather ==
  /\ pc = "parallel"
  /\ Positions("running") = {}
  /\ pc' = "observe"
  /\ UNCHANGED <<volatile, latest, history>>

(* observe_step without an LLM, or when its answer is of no use.           *)
Heuristic(i) ==
  CASE plan[i].status = "done" /\ Positions("pending") = {} -> "achieved"
    [] plan[i].status # "done" -> "failed"
    [] OTHER -> "done"

(* What _handle_step_result makes of the observation: the LLM's action and *)
(* step_ok are taken as they are.                                          *)
Verdicts(i) ==
  {Heuristic(i)} \cup
  (IF utility THEN {"achieved", "failed", "done"} ELSE {})

(* _handle_step_result for the next of the steps executed.  Only the       *)
(* single step's achieved goal reaches the graph.                          *)
Observe ==
  /\ pc = "observe"
  /\ \E i \in next \ seen : \E verdict \in Verdicts(i) :
       /\ IsFirst(i, next \ seen)
       /\ plan' = MarkId(plan[i].id, IF verdict = "failed" THEN "failed" ELSE "done")
       /\ goal' = (verdict = "achieved" /\ next = {i})
       /\ seen' = seen \cup {i}
       /\ UNCHANGED <<replans, next, round, flagged, resumes, results>>
       /\ Save(IF verdict = "achieved" THEN "completed" ELSE "running", plan[i].id)
  /\ pc' = IF seen' = next THEN "replan" ELSE "observe"

(* Defect: one replan too many.                                            *)
ShouldReplanOnceMore == replans <= MaxReplanCount

ShouldReplan == replans < MaxReplanCount

FailedNext == next \cap Positions("failed")

(* The replanner without an LLM.                                           *)
SkipDependents ==
  plan' = [i \in DOMAIN plan |->
             IF plan[i].status = "pending" /\ plan[i].deps \cap IdsWith(plan, "failed") # {}
             THEN [plan[i] EXCEPT !.status = "skipped"] ELSE plan[i]]

(* Defect: what failed is forgotten.                                       *)
KeptDone(step) == step.status = "done"

Kept(step) == step.status \in {"done", "failed"}

(* The positions of the steps that are kept, listed in their order.        *)
KeptPositions == {i \in DOMAIN plan : Kept(plan[i])}
KeptInOrder ==
  {order \in [1..Cardinality(KeptPositions) -> KeptPositions] :
     \A k, l \in DOMAIN order : k < l => order[k] < order[l]}

(* The LLM's new steps replace what is neither done nor failed, and are    *)
(* not validated.  An entry that is no object is met after the count.      *)
Replan ==
  \/ SkipDependents /\ replans' = replans + 1
  \/ /\ utility
     /\ \/ \E s \in Replans, order \in KeptInOrder :
             /\ plan' = [k \in DOMAIN order |-> plan[order[k]]] \o Pending(s)
             /\ replans' = replans + 1
        \/ SkipDependents /\ replans' = replans + 2

(* replan_step.                                                            *)
ReplanGoal == pc = "replan" /\ goal /\ Finalize

ReplanFailed ==
  /\ pc = "replan"
  /\ ~ goal
  /\ ShouldReplan
  /\ Replan
  /\ next' = {} /\ seen' = {}
  /\ pc' = "select"
  /\ UNCHANGED <<goal, round, flagged, resumes, results>>
  /\ \E i \in FailedNext : IsFirst(i, FailedNext) /\ Save("running", plan[i].id)

ReplanNothing ==
  /\ pc = "replan"
  /\ ~ goal
  /\ FailedNext = {} \/ ~ ShouldReplan
  /\ next' = {} /\ seen' = {}
  /\ pc' = "select"
  /\ UNCHANGED <<plan, replans, goal, round, flagged, latest, history>>

(* The process dies, or CancelledError is thrown at an await.              *)
Interrupt ==
  /\ pc \in Live
  /\ pc' = "lost"
  /\ plan' = <<>> /\ replans' = 0 /\ next' = {} /\ seen' = {}
  /\ goal' = FALSE /\ round' = 0 /\ flagged' = FALSE
  /\ UNCHANGED <<latest, history>>

(* Defect: a resumption starts every step over.                            *)
RestoredFresh(steps) == Pending(steps)

(* run_from_checkpoint_state: what was under way is to be done again.      *)
Restored(steps) ==
  [i \in DOMAIN steps |->
     IF steps[i].status = "running"
     THEN [steps[i] EXCEPT !.status = "pending"] ELSE steps[i]]

(* A resumption of the run from its latest checkpoint, whatever its status.*)
(* A plan's checkpoint carries no round: the count starts at zero.         *)
Resume ==
  /\ pc \in {"done", "lost"}
  /\ latest # NoCheckpoint
  /\ resumes < MaxResumes
  /\ resumes' = resumes + 1
  /\ plan' = Restored(latest.plan)
  /\ replans' = latest.replans
  /\ next' = {} /\ seen' = {} /\ goal' = FALSE /\ round' = 0
  /\ flagged' \in BOOLEAN
  /\ pc' = "select"
  /\ UNCHANGED <<latest, results>>

Node ==
  \/ Announce \/ SelectCancelled \/ SelectNothing \/ SelectOne \/ SelectMany
  \/ StartShared \/ SharedReturns \/ Gather \/ Observe
  \/ ReplanGoal \/ ReplanFailed \/ ReplanNothing

Next ==
  /\ Node \/ (\E i \in DOMAIN plan : IsolatedReturns(i)) \/ Interrupt \/ Resume
  /\ UNCHANGED utility

Spec == Init /\ [][Next]_vars

(* The graph goes on, and every execution of a step ends: its rounds are   *)
(* bounded and so is each LLM call and tool call in time.                  *)
FairSpec ==
  Spec /\ WF_vars(Node /\ UNCHANGED utility) /\ WF_vars(\E i \in DOMAIN plan : IsolatedReturns(i) /\ UNCHANGED utility)
--------------------------------------------------------------------------------
(* Properties.                                                             *)

(* Without an LLM to overrule it, nothing is built on a failure: a step    *)
(* that runs or is done has dependencies whose last execution succeeded,   *)
(* and what counts as done did succeed, across replans and resumptions.    *)
(* Its first part is that of the types, and that replans stay bounded.     *)
BuiltOnSuccess ==
  /\ TypeOK
  /\ ~utility => \A i \in DOMAIN plan :
       /\ plan[i].status \in {"running", "done"} =>
            \A d \in plan[i].deps : results[d] = "ok"
       /\ plan[i].status = "done" => results[plan[i].id] = "ok"

(* Without an LLM, a plan none of whose steps failed is finished only when *)
(* every step of it is done, whatever the order it lists them in and       *)
(* however often it was interrupted.                                       *)
WholePlanDone ==
  ~utility /\ pc = "done" /\ (\A id \in Ids : results[id] # "failed")
    => \A i \in DOMAIN plan : plan[i].status = "done"

(* Without an LLM, what the latest checkpoint records as done stays done   *)
(* in every later one: a resumption never falls behind an earlier one.     *)
ProgressIsDurable ==
  [][~utility =>
       IdsWith(latest.plan, "done") \subseteq IdsWith(latest'.plan, "done")]_vars

(* A replan keeps what is known: no step that ended is lost or changed.    *)
ResultsSurviveReplan ==
  [][ReplanFailed => \A s \in {"done", "failed"} : IdsWith(plan, s) \subseteq IdsWith(plan', s)]_vars

(* The loop of select, execute, observe and replan ends: replans are       *)
(* bounded, and a plan that can go no further is finalized.                *)
RunEnds == pc \in Live ~> pc \in {"done", "lost"}

(* What the code's durability comes short of: a finished run is recorded   *)
(* as completed.                                                           *)
FinishedIsCompleted == pc = "done" => latest.status = "completed"
--------------------------------------------------------------------------------
(* The instances of the runs.                                              *)
PlanStep(id, deps) == [id |-> id, deps |-> deps]

(* A chain listed backwards.                                               *)
Chain == <<PlanStep(3, {2}), PlanStep(2, {1}), PlanStep(1, {})>>

(* Two independent steps and one that needs both.                          *)
Join == <<PlanStep(1, {}), PlanStep(2, {}), PlanStep(3, {1, 2})>>

(* The same, with the higher ids first.                                    *)
JoinDown == <<PlanStep(3, {}), PlanStep(2, {}), PlanStep(1, {2, 3})>>

(* A step that needs only one of two.                                      *)
Side == <<PlanStep(1, {}), PlanStep(2, {}), PlanStep(3, {1})>>

(* One step and two that need it.                                          *)
Fork == <<PlanStep(1, {}), PlanStep(2, {1}), PlanStep(3, {1})>>

(* Two branches from one step that meet again.                             *)
Diamond == <<PlanStep(4, {2, 3}), PlanStep(1, {}), PlanStep(2, {1}), PlanStep(3, {1})>>

SmallPlans == {Chain, Join, JoinDown, Side, Fork, Diamond}

(* Two steps, one after the other or together.                             *)
PairPlans == {<<PlanStep(1, {}), PlanStep(2, {1})>>, <<PlanStep(1, {}), PlanStep(2, {})>>}

(* The larger plans without a utility model, the pairs with one.           *)
SmallSetups == [plan : SmallPlans, llm : {FALSE}] \cup [plan : PairPlans, llm : {TRUE}]
HeuristicSetups == [plan : SmallPlans, llm : {FALSE}]

(* A retry under the same id, a step in place of the failed one, and a     *)
(* step whose dependency the plan does not have.                           *)
SmallReplans == {<<PlanStep(1, {})>>, <<PlanStep(2, {}), PlanStep(3, {2})>>, <<PlanStep(3, {4})>>}
================================================================================
