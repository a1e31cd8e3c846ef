----------------------------- MODULE PlanRunProofs -----------------------------
(***************************************************************************)
(* Proofs about PlanRun, for all valid plans, replans, rounds and numbers  *)
(* of resumptions.  Without an LLM that overrules what happened, the plan  *)
(* and the plan of the latest checkpoint each tell the truth about their   *)
(* steps, and the plan never falls behind the checkpoint.                  *)
(***************************************************************************)
EXTENDS PlanRun, FiniteSetTheorems, WellFoundedInduction, TLAPS

(* Every dependency of a step is done.                                     *)
Met(steps, i) ==
  \A d \in steps[i].deps : \E j \in DOMAIN steps : steps[j].id = d /\ steps[j].status = "done"

(* What a plan says of its steps is what happened to them.                 *)
Honest(steps, res) ==
  \A i \in DOMAIN steps :
    /\ steps[i].status = "done" => res[steps[i].id] = "ok"
    /\ steps[i].status = "failed" => res[steps[i].id] = "failed"
    /\ steps[i].status \in {"running", "done"} => Met(steps, i)
    /\ steps[i].status = "skipped" => \E j \in DOMAIN steps : steps[j].status = "failed"

SameShape(p, q) ==
  DOMAIN p = DOMAIN q /\ \A i \in DOMAIN p : p[i].id = q[i].id /\ p[i].deps = q[i].deps

Settled == {"done", "failed", "skipped"}

(* What p records as settled is settled in q.                              *)
Ahead(p, q) ==
  SameShape(p, q) /\ \A i \in DOMAIN p : p[i].status \in Settled => q[i].status = p[i].status

(* Where the graph is says which steps run, wait or have ended.            *)
PhaseState ==
  /\ pc \notin {"shared", "parallel"} => Positions("running") = {}
  /\ pc = "starting" => \E i \in next : next = {i} /\ plan[i].status = "pending" /\ Met(plan, i)
  /\ pc = "shared" => \E i \in next : next = {i} /\ Positions("running") = {i}
  /\ pc = "parallel" => \A i \in DOMAIN plan : plan[i].status = "running" => i \in next
  /\ pc = "parallel" => \A i \in next : plan[i].status \in {"running", "done", "failed"}
  /\ pc = "observe" => \A i \in next : plan[i].status \in {"done", "failed"}
  /\ goal => pc \in {"replan", "done", "lost"}
  /\ goal /\ pc = "replan" => Positions("pending") = {}

(* The plan and the recorded one are true, and neither is behind.          *)
Followed ==
  /\ Valid(plan) /\ Honest(plan, results)
  /\ Valid(latest.plan) /\ Honest(latest.plan, results)
  /\ pc # "lost" /\ latest # NoCheckpoint => Ahead(latest.plan, plan)
  /\ PhaseState

IInv ==
  /\ TypeOK
  /\ ~utility => Followed /\ WholePlanDone

--------------------------------------------------------------------------------
(* Types.                                                                  *)
LEMMA PlannedIds ==
  ASSUME NEW s \in {u.plan : u \in Setups} \cup Replans
  PROVE  s \in Seq(Steps) /\ \A i \in DOMAIN s : s[i].id \in Ids /\ s[i].deps \subseteq Ids
<1>1. s \in Seq(Steps)
  BY PlanAssumption
<1>2. SUFFICES ASSUME NEW i \in DOMAIN s PROVE s[i].id \in Ids /\ s[i].deps \subseteq Ids
  BY <1>1
<1> DEFINE of(t) == UNION {{t[j].id} \cup t[j].deps : j \in DOMAIN t}
           all == {of(t) : t \in {u.plan : u \in Setups} \cup Replans}
<1>3. Ids = UNION all
  BY DEF Ids
<1>4. of(s) \in all
  OBVIOUS
<1>5. of(s) \subseteq Ids
  BY <1>3, <1>4
<1>6. {s[i].id} \cup s[i].deps \subseteq of(s)
  OBVIOUS
<1> QED BY <1>5, <1>6

LEMMA PendingType ==
  ASSUME NEW s \in {u.plan : u \in Setups} \cup Replans
  PROVE  Pending(s) \in Seq(PlanSteps) /\ DOMAIN Pending(s) = DOMAIN s
<1>1. /\ s \in Seq(Steps) /\ DOMAIN s = 1..Len(s) /\ Len(s) \in Nat
      /\ \A i \in DOMAIN s : s[i].id \in Ids /\ s[i].deps \subseteq Ids
  BY PlannedIds
<1>2. Pending(s) \in [1..Len(s) -> PlanSteps]
  BY <1>1 DEF Pending, PlanSteps, Statuses
<1> QED BY <1>1, <1>2 DEF Pending

(* The steps at positions I get a status: what marking, selecting,         *)
(* skipping and restoring steps has in common.                             *)
Restatus(steps, I, status) ==
  [i \in DOMAIN steps |-> IF i \in I THEN [steps[i] EXCEPT !.status = status] ELSE steps[i]]

LEMMA RestatusType ==
  ASSUME NEW steps \in Seq(PlanSteps), NEW I, NEW status \in Statuses
  PROVE  /\ Restatus(steps, I, status) \in Seq(PlanSteps)
         /\ DOMAIN Restatus(steps, I, status) = DOMAIN steps
         /\ \A j \in DOMAIN steps :
              /\ Restatus(steps, I, status)[j].id = steps[j].id
              /\ Restatus(steps, I, status)[j].deps = steps[j].deps
              /\ Restatus(steps, I, status)[j].status = IF j \in I THEN status ELSE steps[j].status
<1> DEFINE q == Restatus(steps, I, status)
<1>1. steps \in [1..Len(steps) -> PlanSteps] /\ Len(steps) \in Nat /\ DOMAIN steps = 1..Len(steps)
  OBVIOUS
<1>2. q \in [1..Len(steps) -> PlanSteps] /\ DOMAIN q = DOMAIN steps
  BY <1>1 DEF Restatus, PlanSteps
<1>3. q \in Seq(PlanSteps)
  BY <1>1, <1>2
<1>4. ASSUME NEW j \in DOMAIN steps
      PROVE  /\ q[j].id = steps[j].id /\ q[j].deps = steps[j].deps
             /\ q[j].status = IF j \in I THEN status ELSE steps[j].status
  <2>1. steps[j] \in PlanSteps
        /\ q[j] = IF j \in I THEN [steps[j] EXCEPT !.status = status] ELSE steps[j]
    BY <1>1 DEF Restatus
  <2> QED BY <2>1 DEF PlanSteps
<1> QED BY <1>2, <1>3, <1>4

LEMMA MarkIsRestatus ==
  ASSUME TypeOK, NEW i, NEW status PROVE Mark(i, status) = Restatus(plan, {i}, status)
<1>1. plan \in [1..Len(plan) -> PlanSteps] /\ DOMAIN plan = 1..Len(plan)
  BY DEF TypeOK
<1> QED BY <1>1 DEF Mark, Restatus

LEMMA StepType ==
  ASSUME NEW steps \in Seq(PlanSteps), NEW i \in DOMAIN steps
  PROVE  /\ steps[i] \in PlanSteps /\ steps[i].id \in Ids /\ steps[i].deps \subseteq Ids
         /\ steps[i].status \in Statuses
<1>1. steps[i] \in PlanSteps
  OBVIOUS
<1> QED BY <1>1 DEF PlanSteps

LEMMA IdsAreInt == Ids \subseteq Int
<1> DEFINE of(t) == UNION {{t[j].id} \cup t[j].deps : j \in DOMAIN t}
           plans == {u.plan : u \in Setups} \cup Replans
<1>1. Ids = UNION {of(t) : t \in plans}
  BY DEF Ids
<1> SUFFICES ASSUME NEW t \in plans, NEW id \in of(t) PROVE id \in Int
  BY <1>1
<1>2. PICK j \in DOMAIN t : id \in {t[j].id} \cup t[j].deps
  OBVIOUS
<1>3. t[j] \in Steps
  BY PlannedIds
<1> QED BY <1>2, <1>3 DEF Steps

(* A checkpoint records the plan as it is after the step, or is none.      *)
LEMMA RecordsPlan ==
  ASSUME TypeOK, NEW status \in {"running", "completed"}, NEW id \in Ids \cup {0}, Save(status, id),
         plan' \in Seq(PlanSteps), replans' \in 0..ReplanLimit, UNCHANGED utility
  PROVE  /\ latest' \in Checkpoints /\ Checkpoints' = Checkpoints
         /\ latest' = latest \/ latest'.plan = plan'
<1>1. id \in Int /\ round \in Int /\ latest \in Checkpoints
  BY IdsAreInt DEF TypeOK
<1> DEFINE c == [seq |-> round * 1000 + id, status |-> status, plan |-> plan', replans |-> replans']
<1>2. Checkpoints' = Checkpoints
  BY DEF Checkpoints, ReplanLimit
<1>3. c \in Checkpoints /\ c.plan = plan'
  BY <1>1 DEF Checkpoints
<1>4. latest' = c \/ latest' = latest
  BY DEF Save
<1> QED BY <1>1, <1>2, <1>3, <1>4

LEMMA SameReplans ==
  ASSUME TypeOK, UNCHANGED <<utility, replans>> PROVE replans' \in 0..ReplanLimit /\ ReplanLimit' = ReplanLimit
BY DEF TypeOK, ReplanLimit

LEMMA KeptIsFinite ==
  ASSUME TypeOK PROVE IsFiniteSet(KeptPositions) /\ Cardinality(KeptPositions) \in Nat
<1>1. IsFiniteSet(DOMAIN plan)
  <2>1. DOMAIN plan = 1..Len(plan) /\ Len(plan) \in Nat
    BY DEF TypeOK
  <2> QED BY <2>1, FS_Interval
<1>2. KeptPositions \in SUBSET DOMAIN plan
  BY DEF KeptPositions
<1> QED BY <1>1, <1>2, FS_Subset, FS_CardinalityType

LEMMA ReadyIsFinite == ASSUME TypeOK PROVE IsFiniteSet(Ready(plan))
<1>1. IsFiniteSet(DOMAIN plan)
  <2>1. DOMAIN plan = 1..Len(plan) /\ Len(plan) \in Nat
    BY DEF TypeOK
  <2> QED BY <2>1, FS_Interval
<1>2. Ready(plan) \in SUBSET DOMAIN plan
  BY DEF Ready
<1> QED BY <1>1, <1>2, FS_Subset

LEMMA ReadyType == ASSUME TypeOK PROVE Ready(plan) \subseteq DOMAIN plan
BY DEF Ready

LEMMA InitTypeOK == Init => TypeOK
<1> SUFFICES ASSUME Init PROVE TypeOK
  OBVIOUS
<1>1. PICK u \in Setups : plan = Pending(u.plan) /\ utility = u.llm
  BY Zenon DEF Init
<1>2. plan \in Seq(PlanSteps)
  BY <1>1, PendingType
<1>3. utility \in BOOLEAN /\ flagged \in BOOLEAN /\ goal \in BOOLEAN
  <2>1. flagged = FALSE /\ goal = FALSE
    BY DEF Init
  <2> QED BY <1>1, <2>1, PlanAssumption, Zenon
<1>4. latest \in Checkpoints
  BY PlanAssumption DEF Init, NoCheckpoint, Checkpoints, ReplanLimit
<1> QED BY <1>2, <1>3, <1>4, PlanAssumption DEF Init, TypeOK, Live, ReplanLimit

(* The steps that leave the plan as it is.                                 *)
LEMMA StayTypeOK ==
  ASSUME TypeOK, UNCHANGED utility,
         Announce \/ SelectCancelled \/ SelectNothing \/ SelectOne \/ Gather \/ ReplanGoal \/ ReplanNothing
  PROVE  TypeOK' /\ UNCHANGED <<plan, results>> /\ (latest' = latest \/ latest'.plan = plan')
<1>1. /\ UNCHANGED <<plan, replans, round, flagged, resumes, results>> /\ goal' = goal
      /\ pc' \in Live \cup {"done", "lost"} /\ next' \subseteq DOMAIN plan /\ seen' \subseteq next'
  BY ReadyType DEF TypeOK, Announce, SelectCancelled, SelectNothing, SelectOne, Gather, ReplanGoal,
     ReplanNothing, Finalize, volatile, history, Live
<1>2. plan' \in Seq(PlanSteps) /\ replans' \in 0..ReplanLimit
  BY <1>1, SameReplans DEF TypeOK
<1>3. latest' = latest \/ \E status \in {"running", "completed"}, id \in Ids \cup {0} : Save(status, id)
  <2>1. ASSUME NEW i \in Ready(plan) PROVE plan[i].id \in Ids
    BY <2>1, ReadyType, StepType DEF TypeOK
  <2> QED BY <2>1 DEF Announce, SelectCancelled, SelectNothing, SelectOne, Gather, ReplanGoal,
     ReplanNothing, Finalize, volatile, history
<1>4. latest' \in Checkpoints' /\ (latest' = latest \/ latest'.plan = plan')
  <2>1. CASE latest' = latest
    BY <2>1 DEF TypeOK, Checkpoints, ReplanLimit
  <2>2. CASE latest' # latest
    BY <1>2, <1>3, <2>2, RecordsPlan
  <2> QED BY <2>1, <2>2
<1> QED BY <1>1, <1>2, <1>4, SameReplans DEF TypeOK

(* The steps of the graph that change the plan.                            *)
LEMMA MarkTypeOK ==
  ASSUME TypeOK, UNCHANGED utility,
         SelectMany \/ StartShared \/ SharedReturns \/ (\E i \in DOMAIN plan : IsolatedReturns(i))
  PROVE  TypeOK' /\ UNCHANGED latest
<1>1. /\ UNCHANGED <<replans, flagged, resumes, latest>> /\ goal' = goal
      /\ pc' \in Live \cup {"done", "lost"} /\ next' \subseteq DOMAIN plan /\ seen' \subseteq next'
  BY ReadyType DEF TypeOK, SelectMany, StartShared, SharedReturns, IsolatedReturns, volatile, history, Live
<1>2. {"running", "done", "failed"} \subseteq Statuses
  BY DEF Statuses
<1>3. plan' \in Seq(PlanSteps) /\ DOMAIN plan' = DOMAIN plan
  <2>1. CASE SelectMany
    <3>1. plan' = Restatus(plan, Ready(plan), "running")
      BY <2>1 DEF SelectMany, Restatus
    <3> QED BY <1>2, <3>1, RestatusType DEF TypeOK
  <2>2. CASE StartShared
    <3>1. PICK i \in next : plan' = Mark(i, "running")
      BY <2>2 DEF StartShared
    <3>2. plan' = Restatus(plan, {i}, "running")
      BY <3>1, MarkIsRestatus
    <3> QED BY <1>2, <3>2, RestatusType DEF TypeOK
  <2>3. CASE SharedReturns \/ \E i \in DOMAIN plan : IsolatedReturns(i)
    <3>1. PICK i \in DOMAIN plan, ok \in BOOLEAN : Returned(i, ok)
      BY <2>3 DEF SharedReturns, IsolatedReturns, TypeOK
    <3>2. plan' = Restatus(plan, {i}, IF ok THEN "done" ELSE "failed")
      BY <3>1, MarkIsRestatus DEF Returned
    <3>3. (IF ok THEN "done" ELSE "failed") \in Statuses
      BY <1>2
    <3> QED BY <3>2, <3>3, RestatusType DEF TypeOK
  <2> QED BY <2>1, <2>2, <2>3
<1>4. round' \in 0..(MaxRounds + MinStepRounds)
  <2>1. CASE SharedReturns
    <3>1. CASE UNCHANGED round
      BY <3>1 DEF TypeOK
    <3>2. CASE round < MaxRounds /\ \E k \in 1..StepRounds : round' = round + k
      <4>1. round \in Nat /\ MaxRounds \in Nat /\ MinStepRounds \in Nat /\ MaxRounds \div 4 \in Int
        BY PlanAssumption DEF TypeOK
      <4>2. PICK k \in 1..StepRounds : round' = round + k
        BY <3>2
      <4>3. StepRounds \in Int /\ (StepRounds <= MaxRounds - round \/ StepRounds <= MinStepRounds)
        BY <4>1 DEF StepRounds
      <4> QED BY <3>2, <4>1, <4>2, <4>3
    <3> QED BY <2>1, <3>1, <3>2 DEF SharedReturns
  <2>2. CASE ~SharedReturns
    BY <2>2 DEF TypeOK, SelectMany, StartShared, IsolatedReturns
  <2> QED BY <2>1, <2>2
<1>5. results' \in [Ids -> {"none", "ok", "failed"}]
  BY DEF TypeOK, SelectMany, StartShared, SharedReturns, IsolatedReturns, Returned, history
<1>6. Checkpoints' = Checkpoints
  BY DEF Checkpoints, ReplanLimit
<1> QED BY <1>1, <1>3, <1>4, <1>5, <1>6, SameReplans DEF TypeOK

LEMMA ObserveTypeOK ==
  ASSUME TypeOK, UNCHANGED utility, Observe
  PROVE  TypeOK' /\ (latest' = latest \/ latest'.plan = plan')
<1>1. PICK i \in next \ seen : \E verdict \in Verdicts(i) :
        /\ plan' = MarkId(plan[i].id, IF verdict = "failed" THEN "failed" ELSE "done")
        /\ goal' = (verdict = "achieved" /\ next = {i})
        /\ seen' = seen \cup {i}
        /\ Save(IF verdict = "achieved" THEN "completed" ELSE "running", plan[i].id)
  BY Zenon DEF Observe
<1>2. PICK verdict \in Verdicts(i) :
        /\ plan' = MarkId(plan[i].id, IF verdict = "failed" THEN "failed" ELSE "done")
        /\ goal' = (verdict = "achieved" /\ next = {i})
        /\ Save(IF verdict = "achieved" THEN "completed" ELSE "running", plan[i].id)
  BY <1>1, Zenon
<1>3. /\ UNCHANGED <<replans, next, round, flagged, resumes, results>>
      /\ pc' \in Live /\ pc' = IF seen' = next THEN "replan" ELSE "observe"
  BY DEF Observe, Live
<1>4. i \in DOMAIN plan /\ plan[i].id \in Ids
  BY StepType DEF TypeOK
<1>5. plan' \in Seq(PlanSteps) /\ DOMAIN plan' = DOMAIN plan
  <2>1. \E status \in Statuses : plan' = Restatus(plan, {First(plan, plan[i].id)}, status)
    BY <1>2, MarkIsRestatus DEF MarkId, Mark, Statuses
  <2> QED BY <2>1, RestatusType DEF TypeOK
<1>6. replans' \in 0..ReplanLimit
  BY <1>3, SameReplans
<1>7. latest' \in Checkpoints /\ Checkpoints' = Checkpoints /\ (latest' = latest \/ latest'.plan = plan')
  <2>1. \E status \in {"running", "completed"} : Save(status, plan[i].id)
    BY <1>2
  <2> QED BY <1>4, <1>5, <1>6, <2>1, RecordsPlan
<1>8. goal' \in BOOLEAN
  BY <1>2, Zenon
<1> QED BY <1>1, <1>3, <1>4, <1>5, <1>6, <1>7, <1>8, SameReplans DEF TypeOK

LEMMA ReplanTypeOK ==
  ASSUME TypeOK, UNCHANGED utility, ReplanFailed
  PROVE  TypeOK' /\ (latest' = latest \/ latest'.plan = plan')
<1>1. /\ next' = {} /\ seen' = {} /\ pc' = "select" /\ replans < MaxReplanCount /\ goal' = goal
      /\ UNCHANGED <<round, flagged, resumes, results>>
      /\ \E i \in FailedNext : Save("running", plan[i].id)
  BY DEF ReplanFailed, ShouldReplan
<1>2. PICK i \in FailedNext : Save("running", plan[i].id)
  BY <1>1
<1>3. i \in DOMAIN plan /\ plan[i].id \in Ids
  BY StepType DEF TypeOK, FailedNext, Positions
<1>4. plan' \in Seq(PlanSteps)
  <2>1. CASE SkipDependents
    <3>1. plan' = Restatus(plan, {j \in DOMAIN plan : plan[j].status = "pending"
                                    /\ plan[j].deps \cap IdsWith(plan, "failed") # {}}, "skipped")
      BY <2>1 DEF SkipDependents, Restatus
    <3> QED BY <3>1, RestatusType DEF TypeOK, Statuses
  <2>2. ASSUME NEW s \in Replans, NEW order \in KeptInOrder,
               plan' = [k \in DOMAIN order |-> plan[order[k]]] \o Pending(s)
        PROVE  plan' \in Seq(PlanSteps)
    <3> DEFINE kept == [k \in DOMAIN order |-> plan[order[k]]]
    <3>1. order \in [1..Cardinality(KeptPositions) -> KeptPositions] /\ KeptPositions \subseteq DOMAIN plan
      BY DEF KeptInOrder, KeptPositions
    <3>2. Cardinality(KeptPositions) \in Nat
      BY KeptIsFinite
    <3>3. kept \in Seq(PlanSteps)
      BY <3>1, <3>2 DEF TypeOK
    <3>4. Pending(s) \in Seq(PlanSteps)
      BY PendingType
    <3> HIDE DEF kept
    <3> QED BY <2>2, <3>3, <3>4 DEF kept
  <2> QED BY <2>1, <2>2 DEF ReplanFailed, Replan
<1>5. replans' \in 0..ReplanLimit
  <2>1. replans \in Nat /\ MaxReplanCount \in Nat
    BY PlanAssumption DEF TypeOK, ReplanLimit
  <2>2. replans' = replans + 1 \/ (utility /\ replans' = replans + 2)
    BY DEF ReplanFailed, Replan
  <2> QED BY <1>1, <2>1, <2>2 DEF ReplanLimit
<1>6. latest' \in Checkpoints /\ Checkpoints' = Checkpoints /\ (latest' = latest \/ latest'.plan = plan')
  BY <1>2, <1>3, <1>4, <1>5, RecordsPlan
<1>7. ReplanLimit' = ReplanLimit
  BY DEF ReplanLimit
<1> QED BY <1>1, <1>4, <1>5, <1>6, <1>7 DEF TypeOK, Live

LEMMA OutsideTypeOK ==
  ASSUME TypeOK, UNCHANGED utility, Interrupt \/ Resume
  PROVE  TypeOK' /\ UNCHANGED latest
<1>1. ReplanLimit' = ReplanLimit /\ Checkpoints' = Checkpoints
  BY DEF ReplanLimit, Checkpoints
<1>2. CASE Interrupt
  <2>1. goal' \in BOOLEAN /\ flagged' \in BOOLEAN
    <3>1. goal' = FALSE /\ flagged' = FALSE
      BY <1>2 DEF Interrupt
    <3> QED BY <3>1, Zenon
  <2> QED BY <1>1, <1>2, <2>1, PlanAssumption DEF Interrupt, TypeOK, history, ReplanLimit
<1>3. CASE Resume
  <2>1. goal' \in BOOLEAN /\ flagged' \in BOOLEAN
    <3>1. goal' = FALSE /\ flagged' \in BOOLEAN
      BY <1>3 DEF Resume
    <3> QED BY <3>1, Zenon
  <2>2. plan' \in Seq(PlanSteps)
    <3>1. plan' = Restatus(latest.plan, {i \in DOMAIN latest.plan : latest.plan[i].status = "running"}, "pending")
      BY <1>3 DEF Resume, Restored, Restatus
    <3>2. latest.plan \in Seq(PlanSteps)
      BY DEF TypeOK, Checkpoints
    <3> QED BY <3>1, <3>2, RestatusType DEF Statuses
  <2>3. replans' \in 0..ReplanLimit /\ resumes' \in 0..MaxResumes
    BY <1>3, PlanAssumption DEF Resume, TypeOK, Checkpoints
  <2>4. /\ pc' \in Live /\ next' = {} /\ seen' = {} /\ round' = 0 /\ UNCHANGED <<latest, results>>
    BY <1>3 DEF Resume, Live
  <2> QED BY <1>1, <2>1, <2>2, <2>3, <2>4, PlanAssumption DEF TypeOK
<1> QED BY <1>2, <1>3

LEMMA NextTypeOK == TypeOK /\ [Next]_vars => TypeOK'
<1> SUFFICES ASSUME TypeOK, [Next]_vars PROVE TypeOK'
  OBVIOUS
<1>1. CASE UNCHANGED vars
  BY <1>1 DEF vars, volatile, history, TypeOK, PlanSteps, Checkpoints, ReplanLimit
<1>2. CASE Next
  BY <1>2, StayTypeOK, MarkTypeOK, ObserveTypeOK, ReplanTypeOK, OutsideTypeOK DEF Next, Node
<1> QED BY <1>1, <1>2

--------------------------------------------------------------------------------
(* Plans.                                                                  *)

(* How a plan may evolve, given how executions ended: a step is started    *)
(* only when what it needs is done, and skipped only after a failure.      *)
Moves(p, q, res) ==
  \A i \in DOMAIN p :
    \/ q[i].status = p[i].status
    \/ p[i].status = "pending" /\ q[i].status = "running" /\ Met(p, i)
    \/ /\ p[i].status = "pending" /\ q[i].status = "skipped"
       /\ \E j \in DOMAIN p : p[j].status = "failed"
    \/ p[i].status = "running" /\ q[i].status = "pending"
    \/ p[i].status = "running" /\ q[i].status = "done" /\ res[p[i].id] = "ok"
    \/ p[i].status = "running" /\ q[i].status = "failed" /\ res[p[i].id] = "failed"

Undisturbed(p, res, later) ==
  \A i \in DOMAIN p : p[i].status \in {"done", "failed"} => later[p[i].id] = res[p[i].id]

LEMMA LeastNat ==
  ASSUME NEW T, T \subseteq Nat, T # {}
  PROVE  \E x \in T : \A y \in T : ~(y < x)
<1>1. PICK x \in T : \A y \in T : <<y, x>> \notin OpToRel(<, Nat)
  BY NatLessThanWellFounded, WFMin
<1>2. \A y \in T : y < x => <<y, x>> \in OpToRel(<, Nat)
  BY DEF OpToRel
<1> QED BY <1>1, <1>2

LEMMA ShapeIsValid == ASSUME NEW p, NEW q, Valid(p), SameShape(p, q) PROVE Valid(q)
BY DEF Valid, SameShape

LEMMA MovesHonest ==
  ASSUME NEW p, NEW q, NEW res, NEW later,
         Honest(p, res), SameShape(p, q), Moves(p, q, later), Undisturbed(p, res, later)
  PROVE  Honest(q, later) /\ Ahead(p, q)
<1>1. Ahead(p, q)
  BY DEF Ahead, Settled, Moves
<1>2. ASSUME NEW i \in DOMAIN p, Met(p, i) PROVE Met(q, i)
  BY <1>1, <1>2 DEF Met, Ahead, SameShape, Settled
<1>3. ASSUME NEW i \in DOMAIN q
      PROVE  /\ q[i].status = "done" => later[q[i].id] = "ok"
             /\ q[i].status = "failed" => later[q[i].id] = "failed"
  BY DEF Honest, SameShape, Moves, Undisturbed
<1>4. ASSUME NEW i \in DOMAIN q, q[i].status \in {"running", "done"} PROVE Met(q, i)
  BY <1>2, <1>4 DEF Honest, SameShape, Moves
<1>5. ASSUME NEW i \in DOMAIN q, q[i].status = "skipped"
      PROVE  \E j \in DOMAIN q : q[j].status = "failed"
  <2>1. \E j \in DOMAIN p : p[j].status = "failed"
    BY <1>5 DEF Honest, SameShape, Moves
  <2> QED BY <1>1, <2>1 DEF Ahead, SameShape, Settled
<1> QED BY <1>1, <1>3, <1>4, <1>5 DEF Honest

LEMMA AheadIsTransitive == ASSUME NEW p, NEW q, NEW r, Ahead(p, q), Ahead(q, r) PROVE Ahead(p, r)
BY DEF Ahead, SameShape, Settled

LEMMA FirstIs ==
  ASSUME NEW steps \in Seq(PlanSteps), Valid(steps), NEW i \in DOMAIN steps
  PROVE  First(steps, steps[i].id) = i
<1>1. DOMAIN steps = 1..Len(steps) /\ Len(steps) \in Nat
  OBVIOUS
<1>2. \A j \in DOMAIN steps : steps[j].id = steps[i].id => j = i
  BY DEF Valid
<1>3. \A j \in 1..(i - 1) : j \in DOMAIN steps /\ j # i
  BY <1>1
<1> QED BY <1>2, <1>3 DEF First

(* In a valid plan a dependency is met when the step it names is done.     *)
LEMMA MetIsDone ==
  ASSUME NEW steps \in Seq(PlanSteps), Valid(steps), NEW i \in DOMAIN steps
  PROVE  DepsDone(steps, steps[i]) <=> Met(steps, i)
<1>1. ASSUME NEW d \in steps[i].deps
      PROVE  (Known(steps, d) /\ steps[First(steps, d)].status = "done")
               <=> \E j \in DOMAIN steps : steps[j].id = d /\ steps[j].status = "done"
  <2>1. PICK j \in DOMAIN steps : steps[j].id = d
    BY <1>1 DEF Valid
  <2>2. First(steps, d) = j /\ Known(steps, d)
    BY <2>1, FirstIs DEF Known
  <2>3. \A k \in DOMAIN steps : steps[k].id = d => k = j
    BY <2>1 DEF Valid
  <2> QED BY <2>1, <2>2, <2>3
<1> QED BY <1>1 DEF DepsDone, Met

(* A plan without failures in which nothing runs or can run is done: of    *)
(* the steps that would still be pending, the first in the order of the    *)
(* dependencies would be ready.                                            *)
LEMMA NothingLeft ==
  ASSUME TypeOK, Valid(plan), Honest(plan, results), Positions("running") = {},
         Ready(plan) = {} \/ Positions("pending") = {},
         \A id \in Ids : results[id] # "failed"
  PROVE  \A i \in DOMAIN plan : plan[i].status = "done"
<1>1. \A i \in DOMAIN plan : plan[i].status \in {"pending", "done"}
  <2>1. \A i \in DOMAIN plan : plan[i].status # "failed"
    BY StepType DEF TypeOK, Honest
  <2>2. \A i \in DOMAIN plan : plan[i].status # "skipped"
    BY <2>1 DEF Honest
  <2>3. \A i \in DOMAIN plan : plan[i].status \in Statuses /\ plan[i].status # "running"
    BY StepType DEF TypeOK, Positions
  <2> QED BY <2>1, <2>2, <2>3 DEF Statuses
<1> SUFFICES ASSUME Positions("pending") # {} PROVE FALSE
  BY <1>1 DEF Positions
<1>2. PICK rank \in [DOMAIN plan -> DOMAIN plan] :
        \A i, j \in DOMAIN plan : plan[j].id \in plan[i].deps => rank[j] < rank[i]
  BY DEF Valid
<1>3. DOMAIN plan \subseteq Nat
  BY DEF TypeOK
<1> DEFINE ranks == {rank[i] : i \in Positions("pending")}
<1>4. ranks \subseteq Nat /\ ranks # {}
  BY <1>2, <1>3 DEF Positions
<1>5. PICK r \in ranks : \A y \in ranks : ~(y < r)
  BY <1>4, LeastNat
<1>6. PICK i \in Positions("pending") : r = rank[i]
  BY <1>5
<1>7. Met(plan, i)
  <2> SUFFICES ASSUME NEW d \in plan[i].deps
               PROVE  \E j \in DOMAIN plan : plan[j].id = d /\ plan[j].status = "done"
    BY DEF Met
  <2>1. PICK j \in DOMAIN plan : plan[j].id = d
    BY DEF Valid, Positions
  <2>2. rank[j] < rank[i]
    BY <1>2, <2>1 DEF Positions
  <2>3. j \notin Positions("pending")
    BY <1>5, <1>6, <2>2
  <2> QED BY <1>1, <2>1, <2>3 DEF Positions
<1>8. i \in Ready(plan)
  BY <1>7, MetIsDone DEF TypeOK, Positions, Ready
<1> QED BY <1>8

--------------------------------------------------------------------------------
(* Without an LLM, steps follow what happened.                             *)
FollowedPlans ==
  /\ Valid(plan) /\ Honest(plan, results)
  /\ Valid(latest.plan) /\ Honest(latest.plan, results)
  /\ pc # "lost" /\ latest # NoCheckpoint => Ahead(latest.plan, plan)

LEMMA AheadOfItself == Ahead(plan, plan) /\ Ahead(plan', plan')
BY DEF Ahead, SameShape

(* Every step of the graph keeps the plan and its latest checkpoint true.  *)
LEMMA StepFollows ==
  ASSUME FollowedPlans, pc # "lost",
         SameShape(plan, plan'), Moves(plan, plan', results'), Undisturbed(plan, results, results'),
         latest' = latest \/ latest'.plan = plan'
  PROVE  FollowedPlans' /\ Ahead(plan, plan')
<1>1. Honest(plan', results') /\ Ahead(plan, plan') /\ Valid(plan')
  BY MovesHonest, ShapeIsValid DEF FollowedPlans
<1>2. Honest(latest.plan, results')
  <2>1. CASE latest = NoCheckpoint
    BY <2>1 DEF NoCheckpoint, Honest
  <2>2. CASE latest # NoCheckpoint
    <3>1. Ahead(latest.plan, plan)
      BY <2>2 DEF FollowedPlans
    <3>2. Undisturbed(latest.plan, results, results')
      BY <3>1 DEF Undisturbed, Ahead, SameShape, Settled
    <3>3. SameShape(latest.plan, latest.plan) /\ Moves(latest.plan, latest.plan, results')
      BY DEF SameShape, Moves
    <3> QED BY <3>2, <3>3, MovesHonest DEF FollowedPlans
  <2> QED BY <2>1, <2>2
<1>3. CASE latest' = latest
  <2>1. latest # NoCheckpoint => Ahead(latest.plan, plan')
    BY <1>1, AheadIsTransitive DEF FollowedPlans
  <2> QED BY <1>1, <1>2, <1>3, <2>1 DEF FollowedPlans
<1>4. CASE latest'.plan = plan'
  BY <1>1, <1>4, AheadOfItself DEF FollowedPlans
<1> QED BY <1>3, <1>4

(* The steps that leave the plan as it is.                                 *)
LEMMA StayIInv ==
  ASSUME IInv, ~utility, UNCHANGED utility,
         Announce \/ SelectCancelled \/ SelectNothing \/ SelectOne \/ Gather \/ ReplanGoal \/ ReplanNothing
  PROVE  IInv' /\ Ahead(plan, plan')
<1>1. /\ TypeOK /\ TypeOK' /\ UNCHANGED <<plan, results>> /\ (latest' = latest \/ latest'.plan = plan')
      /\ FollowedPlans /\ PhaseState /\ pc # "lost"
  BY StayTypeOK DEF IInv, Followed, FollowedPlans, Announce, SelectCancelled, SelectNothing, SelectOne, Gather,
     ReplanGoal, ReplanNothing
<1>2. SameShape(plan, plan') /\ Moves(plan, plan', results') /\ Undisturbed(plan, results, results')
  BY <1>1 DEF SameShape, Moves, Undisturbed
<1>3. FollowedPlans' /\ Ahead(plan, plan')
  BY <1>1, <1>2, StepFollows
<1>4. Positions("running") = {} /\ Positions("running")' = {} /\ Positions("pending")' = Positions("pending")
  BY <1>1 DEF PhaseState, Positions, Announce, SelectCancelled, SelectNothing, SelectOne, Gather, ReplanGoal, ReplanNothing
<1>5. PhaseState'
  <2>1. CASE SelectOne
    <3>1. Cardinality(Ready(plan)) = 1 /\ next' = Ready(plan) /\ pc' = "starting" /\ goal' = goal /\ pc = "select"
      BY <2>1 DEF SelectOne
    <3>2. PICK i : next' = {i}
      BY <1>1, <3>1, ReadyIsFinite, FS_Singleton
    <3>3. i \in DOMAIN plan /\ plan[i].status = "pending" /\ Met(plan, i)
      BY <1>1, <3>1, <3>2, MetIsDone DEF Ready, TypeOK, FollowedPlans
    <3> QED BY <1>1, <1>4, <3>1, <3>2, <3>3 DEF PhaseState, Met
  <2>2. CASE Gather
    <3>1. pc = "parallel" /\ pc' = "observe" /\ UNCHANGED <<next, goal>>
      BY <2>2 DEF Gather, volatile
    <3>2. \A i \in next : i \in DOMAIN plan /\ plan[i].status # "running"
      BY <1>1, <1>4 DEF TypeOK, Positions
    <3> QED BY <1>1, <1>4, <3>1, <3>2 DEF PhaseState
  <2>3. CASE ~SelectOne /\ ~Gather
    <3>1. pc' \in {"select", "done", "lost"} /\ goal' = goal
          /\ (goal => pc' = "done")
      BY <1>1, <2>3 DEF PhaseState, Announce, SelectCancelled, SelectNothing, ReplanGoal, ReplanNothing, Finalize, volatile
    <3> QED BY <1>1, <1>4, <3>1 DEF PhaseState
  <2> QED BY <2>1, <2>2, <2>3
<1>6. WholePlanDone'
  <2> SUFFICES ASSUME pc' = "done", \A id \in Ids : results[id] # "failed"
               PROVE  \A i \in DOMAIN plan : plan[i].status = "done"
    BY <1>1 DEF WholePlanDone
  <2>1. Ready(plan) = {} \/ Positions("pending") = {}
    BY <1>1 DEF PhaseState, Announce, SelectCancelled, SelectNothing, SelectOne, Gather, ReplanGoal, ReplanNothing, Stuck
  <2> QED BY <1>1, <1>4, <2>1, NothingLeft DEF FollowedPlans
<1> QED BY <1>1, <1>3, <1>5, <1>6 DEF IInv, Followed, FollowedPlans

LEMMA RestatusShape ==
  ASSUME NEW steps \in Seq(PlanSteps), NEW I, NEW status \in Statuses
  PROVE  SameShape(steps, Restatus(steps, I, status))
BY RestatusType DEF SameShape

LEMMA SelectManyIInv ==
  ASSUME IInv, ~utility, UNCHANGED utility, SelectMany
  PROVE  IInv' /\ Ahead(plan, plan')
<1>1. /\ TypeOK /\ TypeOK' /\ FollowedPlans /\ PhaseState /\ pc = "select" /\ pc' = "parallel"
      /\ plan' = Restatus(plan, Ready(plan), "running") /\ "running" \in Statuses
      /\ next' = Ready(plan) /\ UNCHANGED <<goal, results, latest>> /\ plan \in Seq(PlanSteps)
  BY MarkTypeOK DEF IInv, Followed, FollowedPlans, SelectMany, Restatus, history, TypeOK, Statuses
<1>2. /\ DOMAIN plan' = DOMAIN plan
      /\ \A j \in DOMAIN plan : plan'[j].status = IF j \in Ready(plan) THEN "running" ELSE plan[j].status
  BY <1>1, RestatusType
<1>3. SameShape(plan, plan')
  BY <1>1, RestatusShape
<1>4. \A j \in Ready(plan) : j \in DOMAIN plan /\ plan[j].status = "pending" /\ Met(plan, j)
  BY <1>1, MetIsDone DEF Ready, FollowedPlans
<1>5. Moves(plan, plan', results') /\ Undisturbed(plan, results, results')
  BY <1>1, <1>2, <1>4 DEF Moves, Undisturbed
<1>6. FollowedPlans' /\ Ahead(plan, plan')
  BY <1>1, <1>3, <1>5, StepFollows
<1>7. PhaseState'
  <2>1. \A j \in DOMAIN plan : plan[j].status # "running"
    BY <1>1 DEF PhaseState, Positions
  <2> QED BY <1>1, <1>2, <1>4, <2>1 DEF PhaseState
<1>8. WholePlanDone'
  BY <1>1 DEF WholePlanDone
<1> QED BY <1>1, <1>6, <1>7, <1>8 DEF IInv, Followed, FollowedPlans

LEMMA StartSharedIInv ==
  ASSUME IInv, ~utility, UNCHANGED utility, StartShared
  PROVE  IInv' /\ Ahead(plan, plan')
<1>1. /\ TypeOK /\ TypeOK' /\ FollowedPlans /\ PhaseState /\ pc = "starting" /\ pc' = "shared"
      /\ "running" \in Statuses /\ plan \in Seq(PlanSteps)
      /\ UNCHANGED <<next, goal, results, latest>>
  BY MarkTypeOK DEF IInv, Followed, FollowedPlans, StartShared, history, TypeOK, Statuses
<1>2. PICK i \in next : next = {i} /\ plan[i].status = "pending" /\ Met(plan, i)
  BY <1>1 DEF PhaseState
<1>3. plan' = Restatus(plan, {i}, "running") /\ i \in DOMAIN plan
  BY <1>1, <1>2, MarkIsRestatus DEF StartShared, TypeOK
<1>4. /\ DOMAIN plan' = DOMAIN plan
      /\ \A j \in DOMAIN plan : plan'[j].status = IF j = i THEN "running" ELSE plan[j].status
  BY <1>1, <1>3, RestatusType
<1>5. SameShape(plan, plan')
  BY <1>1, <1>3, RestatusShape
<1>6. Moves(plan, plan', results') /\ Undisturbed(plan, results, results')
  BY <1>1, <1>2, <1>4 DEF Moves, Undisturbed
<1>7. FollowedPlans' /\ Ahead(plan, plan')
  BY <1>1, <1>5, <1>6, StepFollows
<1>8. PhaseState'
  <2>1. \A j \in DOMAIN plan : plan[j].status # "running"
    BY <1>1 DEF PhaseState, Positions
  <2>2. Positions("running")' = {i}
    BY <1>3, <1>4, <2>1 DEF Positions
  <2> QED BY <1>1, <1>2, <2>2 DEF PhaseState
<1>9. WholePlanDone'
  BY <1>1 DEF WholePlanDone
<1> QED BY <1>1, <1>7, <1>8, <1>9 DEF IInv, Followed, FollowedPlans

(* A shared step returns, or one of those that run in parallel.            *)
LEMMA ReturnIInv ==
  ASSUME IInv, ~utility, UNCHANGED utility, SharedReturns \/ \E i \in DOMAIN plan : IsolatedReturns(i)
  PROVE  IInv' /\ Ahead(plan, plan')
<1>1. /\ TypeOK /\ TypeOK' /\ FollowedPlans /\ PhaseState /\ plan \in Seq(PlanSteps)
      /\ {"done", "failed"} \subseteq Statuses /\ UNCHANGED <<next, goal, latest>>
  BY MarkTypeOK DEF IInv, Followed, FollowedPlans, SharedReturns, IsolatedReturns, TypeOK, Statuses
<1>2. \/ pc = "shared" /\ pc' = "observe" /\ \E i \in next, ok \in BOOLEAN : Returned(i, ok)
      \/ /\ pc = "parallel" /\ pc' = "parallel"
         /\ \E i \in DOMAIN plan, ok \in BOOLEAN : plan[i].status = "running" /\ Returned(i, ok)
  BY DEF SharedReturns, IsolatedReturns
<1>3. PICK i \in DOMAIN plan, ok \in BOOLEAN :
        /\ Returned(i, ok) /\ plan[i].status = "running" /\ i \in next
        /\ pc = "shared" => next = {i} /\ Positions("running") = {i}
  BY <1>1, <1>2 DEF PhaseState, Positions
<1> DEFINE status == IF ok THEN "done" ELSE "failed"
           result == IF ok THEN "ok" ELSE "failed"
<1>4. plan' = Restatus(plan, {i}, status) /\ status \in Statuses
      /\ results' = [results EXCEPT ![plan[i].id] = result]
  BY <1>1, <1>3, MarkIsRestatus DEF Returned
<1> HIDE DEF status
<1>5. /\ DOMAIN plan' = DOMAIN plan
      /\ \A j \in DOMAIN plan : plan'[j].status = IF j = i THEN status ELSE plan[j].status
  BY <1>1, <1>4, RestatusType
<1>6. SameShape(plan, plan')
  BY <1>1, <1>4, RestatusShape
<1>7. Undisturbed(plan, results, results') /\ results'[plan[i].id] = result
  <2>1. \A j \in DOMAIN plan : j # i => plan[j].id # plan[i].id
    BY DEF IInv, Followed, Valid
  <2>2. results \in [Ids -> {"none", "ok", "failed"}] /\ \A j \in DOMAIN plan : plan[j].id \in Ids
    BY <1>1, StepType DEF TypeOK
  <2> QED BY <1>3, <1>4, <2>1, <2>2 DEF Undisturbed
<1>8. Moves(plan, plan', results')
  BY <1>3, <1>5, <1>7 DEF Moves, status
<1>9. FollowedPlans' /\ Ahead(plan, plan')
  BY <1>1, <1>2, <1>6, <1>7, <1>8, StepFollows
<1>10. PhaseState'
  <2>0. status \in {"done", "failed"} /\ ~goal
    BY <1>1, <1>2 DEF status, PhaseState
  <2>1. CASE pc = "shared"
    <3>1. Positions("running")' = {}
      BY <1>3, <1>5, <2>0, <2>1 DEF Positions
    <3> QED BY <1>1, <1>2, <1>3, <1>5, <2>0, <2>1, <3>1 DEF PhaseState
  <2>2. CASE pc = "parallel"
    <3>1. \A j \in next : j \in DOMAIN plan
      BY <1>1 DEF TypeOK
    <3> QED BY <1>1, <1>2, <1>3, <1>5, <2>0, <2>2, <3>1 DEF PhaseState
  <2> QED BY <1>2, <2>1, <2>2
<1>11. WholePlanDone'
  BY <1>2 DEF WholePlanDone
<1> QED BY <1>1, <1>9, <1>10, <1>11 DEF IInv, Followed, FollowedPlans

(* Without an LLM the observer finds what was recorded.                    *)
LEMMA ObserveIInv ==
  ASSUME IInv, ~utility, UNCHANGED utility, Observe
  PROVE  IInv' /\ Ahead(plan, plan')
<1>1. /\ TypeOK /\ TypeOK' /\ FollowedPlans /\ PhaseState /\ plan \in Seq(PlanSteps)
      /\ (latest' = latest \/ latest'.plan = plan')
      /\ pc = "observe" /\ pc' \in {"observe", "replan"} /\ UNCHANGED <<next, results>>
  BY ObserveTypeOK DEF IInv, Followed, FollowedPlans, Observe, TypeOK
<1>0. PICK i \in next \ seen : \E verdict \in Verdicts(i) :
        /\ plan' = MarkId(plan[i].id, IF verdict = "failed" THEN "failed" ELSE "done")
        /\ goal' = (verdict = "achieved" /\ next = {i})
        /\ seen' = seen \cup {i}
  BY Zenon DEF Observe
<1>2. PICK verdict \in Verdicts(i) :
        /\ plan' = MarkId(plan[i].id, IF verdict = "failed" THEN "failed" ELSE "done")
        /\ goal' = (verdict = "achieved" /\ next = {i})
        /\ seen' = seen \cup {i}
  BY <1>0, Zenon
<1>3. i \in DOMAIN plan /\ plan[i].status \in {"done", "failed"}
  BY <1>1 DEF TypeOK, PhaseState
<1>4. verdict = Heuristic(i)
  BY <1>2 DEF Verdicts
<1>5. plan' = plan
  <2>1. First(plan, plan[i].id) = i
    BY <1>1, <1>3, FirstIs DEF FollowedPlans
  <2>2. (IF verdict = "failed" THEN "failed" ELSE "done") = plan[i].status
    BY <1>3, <1>4 DEF Heuristic
  <2>3. plan' = Mark(i, plan[i].status)
    BY <1>2, <2>1, <2>2 DEF MarkId, Mark
  <2>4. plan[i] \in PlanSteps
    BY <1>1, <1>3, StepType
  <2>5. [plan[i] EXCEPT !.status = plan[i].status] = plan[i]
    BY <2>4 DEF PlanSteps
  <2> QED BY <1>1, <2>3, <2>5 DEF Mark
<1>6. SameShape(plan, plan') /\ Moves(plan, plan', results') /\ Undisturbed(plan, results, results')
  BY <1>1, <1>5 DEF SameShape, Moves, Undisturbed
<1>7. FollowedPlans' /\ Ahead(plan, plan')
  BY <1>1, <1>6, StepFollows
<1>8. PhaseState'
  <2>1. Positions("running")' = {} /\ Positions("pending")' = Positions("pending")
    BY <1>1, <1>5 DEF PhaseState, Positions
  <2>2. goal' => next = {i} /\ Positions("pending") = {}
    BY <1>2, <1>4 DEF Heuristic
  <2>3. goal' => pc' = "replan"
    <3>1. next = {i} => seen' = next
      BY <1>1, <1>2 DEF TypeOK
    <3> QED BY <2>2, <3>1 DEF Observe
  <2> QED BY <1>1, <1>5, <2>1, <2>2, <2>3 DEF PhaseState
<1>9. WholePlanDone'
  BY <1>1 DEF WholePlanDone
<1> QED BY <1>1, <1>7, <1>8, <1>9 DEF IInv, Followed, FollowedPlans

LEMMA ReplanIInv ==
  ASSUME IInv, ~utility, UNCHANGED utility, ReplanFailed
  PROVE  IInv' /\ Ahead(plan, plan')
<1> DEFINE hit == {j \in DOMAIN plan : plan[j].status = "pending"
                                        /\ plan[j].deps \cap IdsWith(plan, "failed") # {}}
<1>1. /\ TypeOK /\ TypeOK' /\ FollowedPlans /\ PhaseState /\ plan \in Seq(PlanSteps)
      /\ (latest' = latest \/ latest'.plan = plan') /\ "skipped" \in Statuses
      /\ pc = "replan" /\ pc' = "select" /\ ~goal /\ goal' = goal /\ UNCHANGED results
  BY ReplanTypeOK DEF IInv, Followed, FollowedPlans, ReplanFailed, TypeOK, Statuses
<1>2. plan' = Restatus(plan, hit, "skipped")
  BY DEF ReplanFailed, Replan, SkipDependents, Restatus
<1>3. /\ DOMAIN plan' = DOMAIN plan
      /\ \A j \in DOMAIN plan : plan'[j].status = IF j \in hit THEN "skipped" ELSE plan[j].status
  BY <1>1, <1>2, RestatusType
<1>4. SameShape(plan, plan')
  BY <1>1, <1>2, RestatusShape
<1>5. \A j \in hit : plan[j].status = "pending" /\ \E k \in DOMAIN plan : plan[k].status = "failed"
  BY DEF IdsWith
<1> HIDE DEF hit
<1>6. Moves(plan, plan', results') /\ Undisturbed(plan, results, results')
  BY <1>1, <1>3, <1>5 DEF Moves, Undisturbed
<1>7. FollowedPlans' /\ Ahead(plan, plan')
  BY <1>1, <1>4, <1>6, StepFollows
<1>8. PhaseState'
  <2>1. Positions("running")' = {}
    BY <1>1, <1>3 DEF PhaseState, Positions
  <2> QED BY <1>1, <2>1 DEF PhaseState
<1>9. WholePlanDone'
  BY <1>1 DEF WholePlanDone
<1> QED BY <1>1, <1>7, <1>8, <1>9 DEF IInv, Followed, FollowedPlans

(* A death leaves the checkpoint, a resumption starts from it.             *)
LEMMA OutsideIInv ==
  ASSUME IInv, ~utility, UNCHANGED utility, Interrupt \/ Resume
  PROVE  IInv'
<1>1. /\ TypeOK /\ TypeOK' /\ FollowedPlans /\ PhaseState /\ UNCHANGED <<latest, results>>
  BY OutsideTypeOK DEF IInv, Followed, FollowedPlans, Interrupt, Resume, history
<1>2. CASE Interrupt
  <2>1. plan' = <<>> /\ pc' = "lost" /\ goal' = FALSE
    BY <1>2 DEF Interrupt
  <2>2. Valid(plan') /\ Honest(plan', results') /\ Positions("running")' = {}
    <3>1. DOMAIN plan' = {}
      BY <2>1
    <3>2. [x \in {} |-> x] \in [DOMAIN plan' -> DOMAIN plan']
      BY <3>1
    <3>3. Valid(plan')
      BY <3>1, <3>2 DEF Valid
    <3> QED BY <3>1, <3>3 DEF Honest, Positions
  <2>3. PhaseState' /\ WholePlanDone'
    BY <2>1, <2>2 DEF PhaseState, WholePlanDone
  <2> QED BY <1>1, <2>1, <2>2, <2>3 DEF IInv, Followed, FollowedPlans
<1>3. CASE Resume
  <2> DEFINE under == {i \in DOMAIN latest.plan : latest.plan[i].status = "running"}
  <2>1. /\ plan' = Restatus(latest.plan, under, "pending") /\ pc' = "select" /\ goal' = FALSE
        /\ latest.plan \in Seq(PlanSteps) /\ "pending" \in Statuses
    BY <1>1, <1>3 DEF Resume, Restored, Restatus, TypeOK, Checkpoints, Statuses
  <2>2. /\ DOMAIN plan' = DOMAIN latest.plan
        /\ \A j \in DOMAIN latest.plan :
             plan'[j].status = IF j \in under THEN "pending" ELSE latest.plan[j].status
    BY <2>1, RestatusType
  <2>3. SameShape(latest.plan, plan')
    BY <2>1, RestatusShape
  <2>4. Moves(latest.plan, plan', results') /\ Undisturbed(latest.plan, results, results')
    BY <1>1, <2>2 DEF Moves, Undisturbed
  <2>5. Honest(plan', results') /\ Ahead(latest.plan, plan') /\ Valid(plan')
    BY <1>1, <2>3, <2>4, MovesHonest, ShapeIsValid DEF FollowedPlans
  <2>6. FollowedPlans'
    BY <1>1, <2>5 DEF FollowedPlans
  <2>7. Positions("running")' = {}
    BY <2>2 DEF Positions
  <2>8. PhaseState' /\ WholePlanDone'
    BY <2>1, <2>7 DEF PhaseState, WholePlanDone
  <2> QED BY <1>1, <2>6, <2>8 DEF IInv, Followed, FollowedPlans
<1> QED BY <1>2, <1>3

LEMMA InitIInv == Init => IInv
<1> SUFFICES ASSUME Init PROVE IInv
  OBVIOUS
<1>1. PICK u \in Setups : plan = Pending(u.plan) /\ utility = u.llm
  BY Zenon DEF Init
<1>2. u.plan \in Seq(Steps) /\ Valid(u.plan)
  BY PlanAssumption
<1>3. /\ DOMAIN plan = DOMAIN u.plan
      /\ \A i \in DOMAIN plan :
           plan[i].id = u.plan[i].id /\ plan[i].deps = u.plan[i].deps /\ plan[i].status = "pending"
  BY <1>1 DEF Pending
<1>4. SameShape(u.plan, plan)
  BY <1>3 DEF SameShape
<1>5. Valid(plan) /\ Honest(plan, results) /\ Positions("running") = {}
  BY <1>2, <1>3, <1>4, ShapeIsValid DEF Honest, Positions
<1>6. latest = NoCheckpoint /\ pc = "announce" /\ goal = FALSE
  BY DEF Init
<1>7. Valid(latest.plan) /\ Honest(latest.plan, results)
  <2>1. DOMAIN latest.plan = {}
    BY <1>6 DEF NoCheckpoint
  <2>2. [x \in {} |-> x] \in [DOMAIN latest.plan -> DOMAIN latest.plan]
    BY <2>1
  <2>3. Valid(latest.plan)
    BY <2>1, <2>2 DEF Valid
  <2> QED BY <2>1, <2>3 DEF Honest
<1>8. PhaseState /\ WholePlanDone
  BY <1>5, <1>6 DEF PhaseState, WholePlanDone
<1> QED BY <1>5, <1>6, <1>7, <1>8, InitTypeOK DEF IInv, Followed

LEMMA NextIInv == IInv /\ [Next]_vars => IInv'
<1> SUFFICES ASSUME IInv, [Next]_vars PROVE IInv'
  OBVIOUS
<1>1. TypeOK'
  BY NextTypeOK DEF IInv
<1>2. UNCHANGED utility
  BY DEF Next, vars
<1>3. CASE utility
  BY <1>1, <1>2, <1>3 DEF IInv
<1>4. CASE ~utility /\ UNCHANGED vars
  BY <1>1, <1>4
     DEF IInv, vars, volatile, history, Followed, PhaseState, WholePlanDone, Positions, Met
<1>5. CASE ~utility /\ Next
  BY <1>2, <1>5, StayIInv, SelectManyIInv, StartSharedIInv, ReturnIInv, ObserveIInv, ReplanIInv,
     OutsideIInv DEF Next, Node
<1> QED BY <1>3, <1>4, <1>5

(* IInv holds in every state, for every valid plan and every limit.        *)
THEOREM Invariance == Spec => []IInv
BY InitIInv, NextIInv, PTL DEF Spec

(* For every valid plan, however it is interrupted, resumed and replanned: *)
(* what runs or is done has dependencies that succeeded, and what counts   *)
(* as done did succeed; replans stay within their limit.                   *)
THEOREM BuildsOnSuccess == Spec => []BuiltOnSuccess
<1>1. IInv => BuiltOnSuccess
  <2> SUFFICES ASSUME IInv, ~utility, NEW i \in DOMAIN plan
               PROVE  /\ plan[i].status \in {"running", "done"} =>
                           \A d \in plan[i].deps : results[d] = "ok"
                      /\ plan[i].status = "done" => results[plan[i].id] = "ok"
    BY DEF IInv, BuiltOnSuccess
  <2> QED BY DEF IInv, Followed, Honest, Met
<1> QED BY <1>1, Invariance, PTL

(* A plan none of whose steps failed is finished only when all of its      *)
(* steps are done, whatever the order and the shape of its dependencies.   *)
THEOREM FinishesWholePlan == Spec => []WholePlanDone
<1>1. IInv => WholePlanDone
  BY DEF IInv, WholePlanDone
<1> QED BY <1>1, Invariance, PTL

(* What the latest checkpoint records as done stays done in every later    *)
(* one, although resumed runs count their sequences from the start.        *)
THEOREM DurableProgress == Spec => ProgressIsDurable
<1>1. ASSUME IInv, [Next]_vars
      PROVE  [~utility => IdsWith(latest.plan, "done") \subseteq IdsWith(latest'.plan, "done")]_vars
  <2> SUFFICES ASSUME ~utility, Next
               PROVE  IdsWith(latest.plan, "done") \subseteq IdsWith(latest'.plan, "done")
    BY <1>1
  <2>1. CASE Interrupt \/ Resume
    BY <1>1, <2>1, OutsideTypeOK DEF IInv, Next
  <2>2. CASE Node \/ \E i \in DOMAIN plan : IsolatedReturns(i)
    <3>1. Ahead(plan, plan') /\ (latest' = latest \/ latest'.plan = plan') /\ pc # "lost"
      BY <1>1, <2>2, StayIInv, SelectManyIInv, StartSharedIInv, ReturnIInv, ObserveIInv, ReplanIInv,
         StayTypeOK, MarkTypeOK, ObserveTypeOK, ReplanTypeOK
         DEF IInv, Next, Node, Announce, SelectCancelled, SelectNothing, SelectOne, SelectMany, Gather, StartShared,
             SharedReturns, IsolatedReturns, Observe, ReplanGoal, ReplanFailed, ReplanNothing
    <3>2. CASE latest = NoCheckpoint
      BY <3>2 DEF NoCheckpoint, IdsWith
    <3>3. CASE latest # NoCheckpoint
      <4>1. Ahead(latest.plan, plan')
        BY <1>1, <3>1, <3>3, AheadIsTransitive DEF IInv, Followed
      <4> QED BY <3>1, <4>1 DEF IdsWith, Ahead, SameShape, Settled
    <3> QED BY <3>2, <3>3
  <2> QED BY <2>1, <2>2 DEF Next
<1> QED BY <1>1, Invariance, PTL DEF Spec, ProgressIsDurable

(* A strictly rising list of all kept positions leaves none out.           *)
LEMMA KeptAreAllListed ==
  ASSUME TypeOK, NEW order \in KeptInOrder, NEW i \in KeptPositions
  PROVE  \E k \in DOMAIN order : order[k] = i
<1> DEFINE n == Cardinality(KeptPositions)
<1>1. IsFiniteSet(KeptPositions) /\ n \in Nat /\ KeptPositions \subseteq Nat
  <2>1. DOMAIN plan \subseteq Nat
    BY DEF TypeOK
  <2> QED BY <2>1, KeptIsFinite DEF KeptPositions
<1>2. order \in [1..n -> KeptPositions] /\ \A k, l \in 1..n : k < l => order[k] < order[l]
  BY DEF KeptInOrder
<1>3. \A k, l \in 1..n : order[k] = order[l] => k = l
  <2> SUFFICES ASSUME NEW k \in 1..n, NEW l \in 1..n, k # l PROVE order[k] # order[l]
    OBVIOUS
  <2>1. order[k] \in Nat /\ order[l] \in Nat
    BY <1>1, <1>2
  <2>2. k < l \/ l < k
    BY <1>1
  <2>3. order[k] < order[l] \/ order[l] < order[k]
    BY <1>2, <2>2
  <2> QED BY <2>1, <2>3
<1>4. order \in Injection(1..n, KeptPositions)
  BY <1>2, <1>3 DEF Injection, IsInjective
<1>5. Cardinality(1..n) = n /\ IsFiniteSet(1..n)
  BY <1>1, FS_Interval
<1>6. order \in Surjection(1..n, KeptPositions)
  BY <1>1, <1>4, <1>5, FS_Injection
<1> QED BY <1>2, <1>6 DEF Surjection

(* Whatever new steps an LLM answers to a failure, the steps that ended    *)
(* keep their results.                                                     *)
THEOREM ReplanKeepsResults == Spec => ResultsSurviveReplan
<1>1. ASSUME TypeOK, ReplanFailed, NEW s \in {"done", "failed"}
      PROVE  IdsWith(plan, s) \subseteq IdsWith(plan', s)
  <2> SUFFICES ASSUME NEW i \in DOMAIN plan, plan[i].status = s PROVE plan[i].id \in IdsWith(plan', s)
    BY DEF IdsWith
  <2>1. CASE SkipDependents
    <3>1. i \in DOMAIN plan' /\ plan'[i] = plan[i]
      BY <2>1 DEF SkipDependents
    <3> QED BY <3>1 DEF IdsWith
  <2>2. ASSUME NEW t \in Replans, NEW order \in KeptInOrder,
               plan' = [k \in DOMAIN order |-> plan[order[k]]] \o Pending(t)
        PROVE  plan[i].id \in IdsWith(plan', s)
    <3> DEFINE kept == [k \in DOMAIN order |-> plan[order[k]]]
    <3>1. PICK k \in DOMAIN order : order[k] = i
      BY <1>1, KeptAreAllListed DEF KeptPositions, Kept
    <3>2. kept \in Seq(PlanSteps) /\ DOMAIN kept = 1..Len(kept) /\ k \in DOMAIN kept /\ kept[k] = plan[i]
      <4>1. order \in [1..Cardinality(KeptPositions) -> KeptPositions] /\ KeptPositions \subseteq DOMAIN plan
        BY DEF KeptInOrder, KeptPositions
      <4>2. Cardinality(KeptPositions) \in Nat
        BY <1>1, KeptIsFinite
      <4> QED BY <1>1, <3>1, <4>1, <4>2 DEF TypeOK
    <3>3. Pending(t) \in Seq(PlanSteps)
      BY PendingType
    <3> HIDE DEF kept
    <3>4. k \in DOMAIN (kept \o Pending(t)) /\ (kept \o Pending(t))[k] = kept[k]
      BY <3>2, <3>3
    <3>5. plan' = kept \o Pending(t)
      BY <2>2 DEF kept
    <3> QED BY <3>2, <3>4, <3>5 DEF IdsWith
  <2> QED BY <1>1, <2>1, <2>2 DEF ReplanFailed, Replan
<1>2. TypeOK /\ [Next]_vars =>
        [ReplanFailed => \A s \in {"done", "failed"} : IdsWith(plan, s) \subseteq IdsWith(plan', s)]_vars
  BY <1>1
<1>3. IInv => TypeOK
  BY DEF IInv
<1> QED BY <1>2, <1>3, Invariance, PTL DEF Spec, ResultsSurviveReplan
================================================================================
