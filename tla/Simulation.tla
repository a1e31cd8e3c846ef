------------------------------- MODULE Simulation ------------------------------
(***************************************************************************)
(* A run of the simulation sidecar (simulation/runner.py): until the stop  *)
(* condition holds, actors are selected and each in turn observes the      *)
(* world, acts through its policy, and the delta of its action is applied  *)
(* and recorded in the timeline.                                           *)
(*                                                                         *)
(* Of the world, its step and its facts are kept: variables, resources,    *)
(* risks and artifacts are overwritten by deltas in the same way.          *)
(***************************************************************************)
EXTENDS Integers, FiniteSets, SequencesExt

CONSTANTS
  Actors,          (* scenario.agents                                      *)
  Setups,          (* of the runner: whether every tick selects all actors *)
                   (* (AllActorsSelector) or one in turn, the actors with  *)
                   (* a policy, and scenario.max_steps                     *)
  WorldFacts,
  Deltas           (* of actions: the facts they add and those they remove *)

ASSUME SimulationAssumption ==
  /\ Actors \in Seq(ToSet(Actors))
  /\ \A s \in Setups : s.all \in BOOLEAN /\ s.policies \subseteq ToSet(Actors) /\ s.max \in Nat
  /\ Deltas \subseteq [added : SUBSET WorldFacts, removed : SUBSET WorldFacts]

VARIABLES
  setup,
  simPhase,        (* new, tick, acting, stepping or done                  *)
  world,
  timeline,        (* the steps: actor, observation and delta              *)
  selected,        (* the actors of this tick that have not had their turn *)
  simEvents,       (* the events yielded, counted by type                  *)
  simError         (* the report's error                                   *)

simVars == <<setup, simPhase, world, timeline, selected, simEvents, simError>>

SimulationInit ==
  /\ setup \in Setups
  /\ simPhase = "new"
  /\ world = [step |-> 0, facts |-> {}]
  /\ timeline = <<>> /\ selected = <<>>
  /\ simEvents = [started |-> 0, completed |-> 0, error |-> 0, done |-> 0]
  /\ simError = FALSE

(* A delta on the world: what it removes, then what it adds.               *)
(* Defect: it removes last.                                                *)
ApplyDeltaLast(w, d) ==
  [step |-> w.step + 1, facts |-> (w.facts \cup d.added) \ d.removed]
ApplyDelta(w, d) ==
  [step |-> w.step + 1, facts |-> (w.facts \ d.removed) \cup d.added]

(* The timeline with a step more, whose observation is a copy of the world *)
(* (DefaultObservationBuilder).  Defect: observations are the world itself *)
(* and change with it.                                                     *)
RecordedAlias(tl, entry) ==
  [i \in 1..(Len(tl) + 1) |->
    IF i <= Len(tl) THEN [tl[i] EXCEPT !.seen = entry.seen] ELSE entry]
Recorded(tl, entry) == Append(tl, entry)

AtLimit == Len(timeline) >= setup.max
SelectedActors ==
  IF setup.all THEN Actors ELSE <<Actors[(Len(timeline) % Len(Actors)) + 1]>>

(* The report is built and the last event yielded.                         *)
Report(events) ==
  /\ simPhase' = "done"
  /\ simEvents' = [events EXCEPT !.done = @ + 1]

SimStart ==
  /\ simPhase = "new"
  /\ IF Actors = <<>> THEN Report(simEvents) ELSE simPhase' = "tick" /\ UNCHANGED simEvents
  /\ UNCHANGED <<world, timeline, selected, simError>>

TickStops ==
  /\ simPhase = "tick" /\ AtLimit
  /\ Report(simEvents)
  /\ UNCHANGED <<world, timeline, selected, simError>>

SelectActors ==
  /\ simPhase = "tick" /\ ~AtLimit
  /\ simPhase' = "acting"
  /\ selected' = SelectedActors
  /\ UNCHANGED <<world, timeline, simEvents, simError>>

(* Defect: an actor without a policy ends the tick.                        *)
SkipTick ==
  /\ simPhase = "acting" /\ selected # <<>> /\ Head(selected) \notin setup.policies
  /\ selected' = <<>>
  /\ UNCHANGED <<simPhase, world, timeline, simEvents, simError>>

SkipActor ==
  /\ simPhase = "acting" /\ selected # <<>> /\ Head(selected) \notin setup.policies
  /\ selected' = Tail(selected)
  /\ UNCHANGED <<simPhase, world, timeline, simEvents, simError>>

TickEnds ==
  /\ simPhase = "acting" /\ selected = <<>>
  /\ simPhase' = "tick"
  /\ UNCHANGED <<world, timeline, selected, simEvents, simError>>

StartStep ==
  /\ simPhase = "acting" /\ selected # <<>> /\ Head(selected) \in setup.policies
  /\ simPhase' = "stepping"
  /\ simEvents' = [simEvents EXCEPT !.started = @ + 1]
  /\ UNCHANGED <<world, timeline, selected, simError>>

(* The policy acts (an agent's reply is parsed), the environment makes a   *)
(* delta of it, the evaluator scores it, and it is applied; the stop       *)
(* condition is asked again.  Defect: only a new tick asks it.             *)
StepCompletesTick(d) ==
  /\ simPhase = "stepping"
  /\ timeline' = Recorded(timeline, [actor |-> Head(selected), seen |-> world, delta |-> d])
  /\ world' = ApplyDelta(world, d)
  /\ selected' = Tail(selected)
  /\ simPhase' = "acting"
  /\ simEvents' = [simEvents EXCEPT !.completed = @ + 1]
  /\ UNCHANGED simError

StepCompletes(d) ==
  /\ simPhase = "stepping"
  /\ timeline' = Recorded(timeline, [actor |-> Head(selected), seen |-> world, delta |-> d])
  /\ world' = ApplyDelta(world, d)
  /\ selected' = Tail(selected)
  /\ IF Len(timeline') >= setup.max
       THEN Report([simEvents EXCEPT !.completed = @ + 1])
       ELSE simPhase' = "acting" /\ simEvents' = [simEvents EXCEPT !.completed = @ + 1]
  /\ UNCHANGED simError

(* A policy, a parser, the environment or the evaluator raises.            *)
StepFails ==
  /\ simPhase = "stepping"
  /\ simError' = TRUE
  /\ Report([simEvents EXCEPT !.error = @ + 1])
  /\ UNCHANGED <<world, timeline, selected>>

SimulationNext ==
  /\ \/ SimStart \/ TickStops \/ SelectActors \/ SkipActor \/ TickEnds \/ StartStep \/ StepFails
     \/ \E d \in Deltas : StepCompletes(d)
  /\ UNCHANGED setup

(* The host reads the stream to its end and policies answer.               *)
SimulationFair == WF_simVars(SimulationNext)
SimulationSpec == SimulationInit /\ [][SimulationNext]_simVars /\ SimulationFair

--------------------------------------------------------------------------------
SimulationTypeOK ==
  /\ simPhase \in {"new", "tick", "acting", "stepping", "done"}
  /\ world.facts \subseteq WorldFacts
  /\ \A i \in DOMAIN timeline : timeline[i].actor \in setup.policies /\ timeline[i].delta \in Deltas
  /\ simEvents.started - simEvents.completed \in 0..1 /\ simEvents.done \in 0..1

(* The facts of the world before step i of the timeline, by the deltas     *)
(* alone: those that a step added and no later one removed for good.       *)
FactsBefore(i) ==
  {f \in WorldFacts :
     \E j \in 1..(i - 1) : /\ f \in timeline[j].delta.added
                           /\ \A k \in (j + 1)..(i - 1) : f \notin timeline[k].delta.removed}

(* The timeline can be replayed: every observation is the world the steps  *)
(* before it made, and the final state is what all of them made; nothing   *)
(* that happens later shows in an earlier step.                            *)
TimelineReplays ==
  /\ \A i \in DOMAIN timeline : timeline[i].seen = [step |-> i - 1, facts |-> FactsBefore(i)]
  /\ world = [step |-> Len(timeline), facts |-> FactsBefore(Len(timeline) + 1)]

(* The run stops at max_steps, even in the middle of a tick, and its one   *)
(* report tells an error from a run that reached its limit.                *)
StopsAtLimit ==
  /\ Len(timeline) <= setup.max /\ Len(timeline) = simEvents.completed
  /\ simPhase = "done" /\ ~simError /\ Actors # <<>> => Len(timeline) = setup.max

(* A run of the simulation ends with its report.                           *)
SimulationEnds == simPhase = "tick" ~> simEvents.done = 1
================================================================================
