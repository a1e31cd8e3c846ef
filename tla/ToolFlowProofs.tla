----------------------------- MODULE ToolFlowProofs -----------------------------
(***************************************************************************)
(* Proofs about the tool calls of an execution, for any answers of the     *)
(* LLM, any read-only calls, and any number of retries, timeouts, raising  *)
(* hooks and cancellations: batches keep the order of the calls, a call    *)
(* that writes runs alone and once, and the audit says what the results    *)
(* say.                                                                    *)
(*                                                                         *)
(* What a flow leaves running when a call raises ends with the execution,  *)
(* unless the answers are those of a plan's steps: WriteAlone and          *)
(* ToolCallsAnswered hold of executions that are not Planned.              *)
(***************************************************************************)
EXTENDS ToolFlow, FiniteSetTheorems, TLAPS

(* A flow is under way while pc says so, from its first batch on.          *)
InFlow ==
  /\ pc \in {"starting", "running"} => flow \in DOMAIN Flows
  /\ pc = "asking" => batch = 1

(* The flows to come have not begun.                                       *)
LaterFlowsWait ==
  \A f \in DOMAIN Flows : \A i \in DOMAIN Flows[f] :
    f > flow \/ (f = flow /\ pc = "asking") => phase[Flows[f][i]] = "waiting"

(* The batches of the flow under way: those before the current one are     *)
(* done, those after it have not begun, nor has it while pc is "starting". *)
BatchesInOrder ==
  pc \in {"starting", "running"} =>
    \A i \in DOMAIN Flows[flow] :
      /\ BatchesOf[flow][i] < batch => phase[Flows[flow][i]] = "done"
      /\ BatchesOf[flow][i] > batch \/ (BatchesOf[flow][i] = batch /\ pc = "starting")
           => phase[Flows[flow][i]] = "waiting"

(* No tool has been started before the pre hooks are through.              *)
NotTried == \A c \in Calls : phase[c] \in {"waiting", "pre"} => attempts[c] = 0

(* A failure is recorded before its hooks run.                             *)
FailureRecorded ==
  \A c \in Calls : phase[c] \in {"failing", "timedOut"} =>
    outcome[c] = "error" /\ audit[c] \in {"rejected", "failed"}

IInv ==
  /\ TypeOK /\ InFlow /\ LaterFlowsWait /\ BatchesInOrder
  /\ EarlierCallsDone /\ NotTried /\ FailureRecorded
  /\ WriteOnce /\ AuditAgrees

SameBatch(c, d) ==
  \E f \in DOMAIN Flows : \E i, j \in DOMAIN Flows[f] :
    c = Flows[f][i] /\ d = Flows[f][j] /\ BatchesOf[f][i] = BatchesOf[f][j]

(* What else holds of an execution that is no plan's: calls run in a       *)
(* running flow only, or are what a call that raised has left behind.      *)
RunningInFlow ==
  /\ pc \in {"asking", "starting", "cancelled"} => \A c \in Calls : phase[c] \notin Active
  /\ pc = "running" => \A c \in Calls : phase[c] \in Active => c \in Current
  /\ \A c, d \in Calls : {phase[c], phase[d]} \subseteq Active => SameBatch(c, d)

FlowsAnswered ==
  pc \in {"asking", "starting", "running"} =>
    \A f \in 1..(flow - 1) : ToSet(Flows[f]) \subseteq answered

IInvReAct == IInv /\ RunningInFlow /\ FlowsAnswered

--------------------------------------------------------------------------------
(* The numbers of the batches are those of a partition in order: a call    *)
(* that writes shares its number with no other call of its flow.           *)

LEMMA FlowsType ==
  ASSUME NEW f \in DOMAIN Flows
  PROVE  Flows[f] \in Seq(Calls) /\ DOMAIN Flows[f] = 1..Len(Flows[f])
BY CallsAssumption

LEMMA FlowCalls ==
  /\ \A c \in Calls : \E f \in DOMAIN Flows : \E i \in DOMAIN Flows[f] : c = Flows[f][i]
  /\ \A f \in DOMAIN Flows : ToSet(Flows[f]) \subseteq Calls
BY CallsAssumption DEF ToSet

LEMMA BatchNumberType ==
  ASSUME NEW f \in DOMAIN Flows, NEW i \in DOMAIN Flows[f]
  PROVE  BatchesOf[f][i] \in Nat \ {0}
<1> DEFINE starts == {m \in 1..i : ~Joins(Flows[f], m)}
<1>0. i \in Nat \ {0}
  BY FlowsType
<1>1. IsFiniteSet(1..i)
  BY <1>0, FS_Interval
<1>2. IsFiniteSet(starts)
  BY <1>1, FS_Subset
<1>3. 1 \in starts
  BY <1>0 DEF Joins
<1>4. Cardinality(starts) \in Nat \ {0}
  BY <1>2, <1>3, FS_CardinalityType, FS_EmptySet
<1> QED BY <1>4 DEF BatchesOf, Batches

(* Two calls that a start of a batch lies between are in different ones.   *)
LEMMA BatchesApart ==
  ASSUME NEW f \in DOMAIN Flows, NEW i \in DOMAIN Flows[f], NEW j \in DOMAIN Flows[f],
         NEW k \in (i + 1)..j, ~Joins(Flows[f], k)
  PROVE  BatchesOf[f][i] < BatchesOf[f][j]
<1> DEFINE starts(n) == {m \in 1..n : ~Joins(Flows[f], m)}
<1>1. i \in Nat /\ j \in Nat /\ i < j /\ k \in Nat
  BY FlowsType
<1>2. BatchesOf[f][i] = Cardinality(starts(i)) /\ BatchesOf[f][j] = Cardinality(starts(j))
  BY FlowsType DEF BatchesOf, Batches
<1>3. starts(i) \subseteq starts(j) /\ k \in starts(j) /\ k \notin starts(i)
  BY <1>1
<1>4. IsFiniteSet(starts(j))
  <2>1. IsFiniteSet(1..j)
    BY <1>1, FS_Interval
  <2> QED BY <2>1, FS_Subset
<1>5. Cardinality(starts(i)) < Cardinality(starts(j))
  <2>1. starts(i) \in SUBSET starts(j) /\ starts(i) # starts(j)
    BY <1>3
  <2> HIDE DEF starts
  <2>2. /\ IsFiniteSet(starts(i))
        /\ Cardinality(starts(i)) <= Cardinality(starts(j))
        /\ Cardinality(starts(i)) # Cardinality(starts(j))
    BY <1>4, <2>1, FS_Subset
  <2>3. Cardinality(starts(i)) \in Nat /\ Cardinality(starts(j)) \in Nat
    BY <1>4, <2>2, FS_CardinalityType
  <2> QED BY <2>2, <2>3
<1> QED BY <1>2, <1>5

LEMMA WriteBatchAlone ==
  ASSUME NEW c, NEW d, SameBatch(c, d), c \notin ReadOnly
  PROVE  c = d
<1>0. PICK f \in DOMAIN Flows : \E i, j \in DOMAIN Flows[f] :
        c = Flows[f][i] /\ d = Flows[f][j] /\ BatchesOf[f][i] = BatchesOf[f][j]
  BY DEF SameBatch
<1>1. PICK i \in DOMAIN Flows[f], j \in DOMAIN Flows[f] :
        c = Flows[f][i] /\ d = Flows[f][j] /\ BatchesOf[f][i] = BatchesOf[f][j]
  BY <1>0
<1>2. i \in Nat /\ j \in Nat
  BY FlowsType
<1>3. \A m, n \in DOMAIN Flows[f] :
        Flows[f][m] \notin ReadOnly \/ Flows[f][n] \notin ReadOnly =>
          (m < n => BatchesOf[f][m] < BatchesOf[f][n])
  <2> SUFFICES ASSUME NEW m \in DOMAIN Flows[f], NEW n \in DOMAIN Flows[f], m < n,
                      Flows[f][m] \notin ReadOnly \/ Flows[f][n] \notin ReadOnly
               PROVE  BatchesOf[f][m] < BatchesOf[f][n]
    OBVIOUS
  <2>1. m \in Nat /\ n \in Nat
    BY FlowsType
  <2>2. CASE Flows[f][m] \notin ReadOnly
    <3>1. ~Joins(Flows[f], m + 1) /\ m + 1 \in (m + 1)..n
      BY <2>1, <2>2 DEF Joins
    <3> QED BY <3>1, BatchesApart
  <2>3. CASE Flows[f][n] \notin ReadOnly
    <3>1. ~Joins(Flows[f], n) /\ n \in (m + 1)..n
      BY <2>1, <2>3 DEF Joins
    <3> QED BY <3>1, BatchesApart
  <2> QED BY <2>2, <2>3
<1>4. BatchesOf[f][i] \in Nat
  BY BatchNumberType
<1>5. i = j
  BY <1>1, <1>2, <1>3, <1>4
<1> QED BY <1>1, <1>5

LEMMA CurrentCalls ==
  ASSUME InFlow, pc \in {"starting", "running"}
  PROVE  /\ flow \in DOMAIN Flows
         /\ Current \subseteq Calls
         /\ \A i \in DOMAIN Flows[flow] : Flows[flow][i] \in Current <=> BatchesOf[flow][i] = batch
BY CallsAssumption, FlowsType DEF InFlow, Current, BatchCalls

--------------------------------------------------------------------------------
LEMMA InitIInv == Init => IInv
<1> SUFFICES ASSUME Init PROVE IInv
  OBVIOUS
<1>1. TypeOK /\ WriteOnce
  <2>1. 1 \in 1..(Len(Flows) + 1)
    BY CallsAssumption
  <2>2. 0 \in 0..(MaxRetries + 1) /\ 0 \in 0..MaxFaults /\ 0 \in 0..MaxCancels
    BY BoundsAssumption
  <2>3. /\ phase \in [Calls -> Phases] /\ attempts \in [Calls -> 0..(MaxRetries + 1)]
        /\ outcome \in [Calls -> {"none", "ok", "error"}]
        /\ audit \in [Calls -> {"none", "started", "completed", "rejected", "failed"}]
    BY <2>2 DEF Init, Phases
  <2>4. /\ pc \in {"asking", "starting", "running", "over", "cancelled"}
        /\ batch \in Nat \ {0} /\ answered \subseteq Calls
    BY DEF Init
  <2>5. flow \in 1..(Len(Flows) + 1) /\ flagged \in BOOLEAN
    BY <2>1, Zenon DEF Init
  <2>6. TypeOK
    BY <2>2, <2>3, <2>4, <2>5 DEF Init, TypeOK
  <2> QED BY <2>6 DEF Init, WriteOnce
<1>2. LaterFlowsWait /\ EarlierCallsDone
  BY FlowsType DEF Init, LaterFlowsWait, EarlierCallsDone
<1>3. InFlow /\ BatchesInOrder
  BY DEF Init, InFlow, BatchesInOrder
<1>4. NotTried /\ FailureRecorded /\ AuditAgrees
  BY DEF Init, NotTried, FailureRecorded, AuditAgrees
<1> QED BY <1>1, <1>2, <1>3, <1>4 DEF IInv

(* What a step of one call keeps: it is under way before, and whatever     *)
(* becomes of it, it does not wait again.                                  *)
LEMMA CallKeepsOrder ==
  ASSUME IInv, NEW c \in Calls, phase[c] \in Active,
         NEW p \in Phases \ {"waiting"}, phase' = [phase EXCEPT ![c] = p], UNCHANGED loop
  PROVE  InFlow' /\ LaterFlowsWait' /\ BatchesInOrder' /\ EarlierCallsDone'
<1>0. TypeOK /\ phase[c] \notin {"waiting", "done"}
  BY DEF IInv, Active
<1>1. \A f \in DOMAIN Flows : \A i \in DOMAIN Flows[f] : Flows[f][i] \in Calls
  BY FlowsType
<1>2. \A d \in Calls : /\ phase[d] \in {"waiting", "done"} => phase'[d] = phase[d]
                       /\ phase'[d] = "waiting" => phase[d] = "waiting"
  BY <1>0 DEF TypeOK
<1>3. InFlow'
  BY DEF IInv, InFlow, loop
<1>4. LaterFlowsWait'
  BY <1>1, <1>2 DEF IInv, LaterFlowsWait, loop
<1>5. BatchesInOrder'
  BY <1>1, <1>2 DEF IInv, InFlow, BatchesInOrder, loop
<1>6. EarlierCallsDone'
  <2> SUFFICES ASSUME NEW f \in DOMAIN Flows, NEW i \in DOMAIN Flows[f], NEW j \in DOMAIN Flows[f],
                      BatchesOf[f][j] < BatchesOf[f][i], phase'[Flows[f][i]] # "waiting"
               PROVE  phase'[Flows[f][j]] = "done"
    BY DEF EarlierCallsDone
  <2>1. CASE phase[Flows[f][i]] # "waiting"
    BY <1>1, <1>2, <2>1 DEF IInv, EarlierCallsDone
  <2>2. CASE phase[Flows[f][i]] = "waiting"
    BY <1>0, <1>1, <1>2, <2>2
  <2> QED BY <2>1, <2>2
<1> QED BY <1>3, <1>4, <1>5, <1>6

LEMMA CallIInv ==
  ASSUME IInv, NEW c \in Calls, CallStep(c)
  PROVE  IInv'
<1> USE DEF CallStep, Progress, Goes, Records, Fails
<1>0. TypeOK /\ NotTried /\ FailureRecorded /\ WriteOnce /\ AuditAgrees
  BY DEF IInv
<1>1. /\ phase[c] \in Active /\ UNCHANGED loop
      /\ \E p \in Phases \ {"waiting", "pre"} : phase' = [phase EXCEPT ![c] = p]
  BY <1>0 DEF TypeOK, Active, Phases, Begin, Reject, Output, GiveUp, Complete, Settle, Retry,
              HookRaises, Timeout, TimesOut
<1>2. TypeOK'
  <2>1. phase' \in [Calls -> Phases] /\ UNCHANGED <<pc, flow, batch>>
    BY <1>0, <1>1 DEF TypeOK, loop
  <2>2. attempts' \in [Calls -> 0..(MaxRetries + 1)]
    <3>1. CASE Begin(c)
      <4>1. attempts[c] = 0
        BY <1>0, <3>1 DEF Begin, NotTried
      <4> QED BY <1>0, <3>1, <4>1, BoundsAssumption DEF TypeOK, Begin
    <3>2. CASE Retry(c)
      BY <1>0, <3>2, BoundsAssumption DEF TypeOK, Retry, MayRetry
    <3>3. CASE UNCHANGED attempts
      BY <1>0, <3>3 DEF TypeOK
    <3> QED
      BY <3>1, <3>2, <3>3 DEF Reject, Output, GiveUp, Complete, Settle, HookRaises, Timeout
  <2>3. /\ outcome' \in [Calls -> {"none", "ok", "error"}]
        /\ audit' \in [Calls -> {"none", "started", "completed", "rejected", "failed"}]
    BY <1>0 DEF TypeOK, Begin, Reject, Output, GiveUp, Complete, Settle, Retry, HookRaises,
                Timeout, TimesOut
  <2>4. UNCHANGED <<answered, cancels>> /\ flagged' \in BOOLEAN /\ faults' \in {faults, faults + 1}
    BY <1>0
       DEF TypeOK, Begin, Reject, Output, GiveUp, Complete, Settle, Retry, HookRaises, Timeout
  <2>5. faults' \in 0..MaxFaults
    <3>1. CASE HookRaises(c)
      BY <1>0, <3>1, BoundsAssumption DEF TypeOK, HookRaises
    <3>2. CASE UNCHANGED faults
      BY <1>0, <3>2 DEF TypeOK
    <3> QED
      BY <3>1, <3>2 DEF Begin, Reject, Output, GiveUp, Complete, Settle, Retry, Timeout
  <2> QED BY <1>0, <2>1, <2>2, <2>3, <2>4, <2>5 DEF TypeOK
<1>3. InFlow' /\ LaterFlowsWait' /\ BatchesInOrder' /\ EarlierCallsDone'
  BY <1>1, CallKeepsOrder
<1>4. \A d \in Calls \ {c} : /\ phase'[d] = phase[d] /\ attempts'[d] = attempts[d]
                             /\ outcome'[d] = outcome[d] /\ audit'[d] = audit[d]
  BY <1>0 DEF TypeOK, Begin, Reject, Output, GiveUp, Complete, Settle, Retry, HookRaises,
              Timeout, TimesOut
<1>5. NotTried'
  <2>1. phase'[c] \notin {"waiting", "pre"}
    BY <1>0, <1>1 DEF TypeOK
  <2> QED BY <1>0, <1>4, <2>1 DEF NotTried
<1>6. FailureRecorded'
  <2>1. phase'[c] \in {"failing", "timedOut"} =>
          outcome'[c] = "error" /\ audit'[c] \in {"rejected", "failed"}
    BY <1>0 DEF TypeOK, Begin, Reject, Output, GiveUp, Complete, Settle, Retry, HookRaises,
                Timeout, TimesOut
  <2> QED BY <1>0, <1>4, <2>1 DEF FailureRecorded
<1>7. AuditAgrees'
  <2>1. phase'[c] = "done" =>
          /\ outcome'[c] = "ok" <=> audit'[c] = "completed"
          /\ outcome'[c] = "error" <=> audit'[c] \in {"rejected", "failed"}
    BY <1>0 DEF TypeOK, FailureRecorded, Begin, Reject, Output, GiveUp, Complete, Settle, Retry,
                HookRaises, Timeout, TimesOut
  <2> QED BY <1>0, <1>4, <2>1 DEF AuditAgrees
<1>8. WriteOnce'
  <2>1. c \notin ReadOnly => attempts'[c] <= 1
    <3>1. CASE Begin(c)
      BY <1>0, <3>1 DEF TypeOK, Begin, NotTried
    <3>2. CASE Retry(c)
      BY <3>2 DEF Retry, MayRetry
    <3>3. CASE UNCHANGED attempts
      BY <1>0, <3>3 DEF WriteOnce
    <3> QED
      BY <3>1, <3>2, <3>3 DEF Reject, Output, GiveUp, Complete, Settle, HookRaises, Timeout
  <2> QED BY <1>0, <1>2, <1>4, <2>1 DEF WriteOnce
<1> QED BY <1>2, <1>3, <1>5, <1>6, <1>7, <1>8 DEF IInv

--------------------------------------------------------------------------------
(* The steps of the execution's own task change no attempt, outcome or     *)
(* audit event, and no call that is done.                                  *)
LEMMA LoopKeepsCalls ==
  ASSUME IInv, UNCHANGED <<attempts, outcome, audit>>, TypeOK',
         \A c \in Calls : \/ phase'[c] = phase[c]
                          \/ phase[c] = "waiting" /\ phase'[c] = "pre"
                          \/ phase'[c] = "killed"
  PROVE  NotTried' /\ FailureRecorded' /\ WriteOnce' /\ AuditAgrees'
BY DEF IInv, NotTried, FailureRecorded, WriteOnce, AuditAgrees

(* The flow under way is over, whatever has become of its calls.           *)
LEMMA LaterKept ==
  ASSUME LaterFlowsWait, flow \in 1..Len(Flows), flow' = flow + 1, UNCHANGED phase
  PROVE  LaterFlowsWait'
<1> SUFFICES ASSUME NEW f \in DOMAIN Flows, NEW i \in DOMAIN Flows[f], f >= flow + 1
             PROVE  phase[Flows[f][i]] = "waiting"
  BY CallsAssumption DEF LaterFlowsWait
<1>1. f > flow
  BY CallsAssumption
<1> QED BY <1>1 DEF LaterFlowsWait

LEMMA AskIInv == IInv /\ Ask => IInv'
<1> SUFFICES ASSUME IInv, Ask PROVE IInv'
  OBVIOUS
<1> USE DEF Ask, call
<1>1. TypeOK'
  BY DEF IInv, TypeOK
<1>2. InFlow' /\ LaterFlowsWait'
  BY CallsAssumption DEF IInv, TypeOK, InFlow, LaterFlowsWait
<1>3. BatchesInOrder'
  <2> SUFFICES ASSUME pc' = "starting", NEW i \in DOMAIN Flows[flow]
               PROVE  ~(BatchesOf[flow][i] < batch) /\ phase[Flows[flow][i]] = "waiting"
    BY DEF BatchesInOrder
  <2>1. flow \in DOMAIN Flows
    BY CallsAssumption DEF IInv, TypeOK
  <2> QED BY <2>1, BatchNumberType DEF IInv, InFlow, LaterFlowsWait
<1>4. EarlierCallsDone'
  BY DEF IInv, EarlierCallsDone
<1>5. NotTried' /\ FailureRecorded' /\ WriteOnce' /\ AuditAgrees'
  BY <1>1, LoopKeepsCalls
<1> QED BY <1>1, <1>2, <1>3, <1>4, <1>5 DEF IInv

LEMMA StartBatchIInv == IInv /\ StartBatch => IInv'
<1> SUFFICES ASSUME IInv, StartBatch PROVE IInv'
  OBVIOUS
<1> USE DEF StartBatch
<1>0. /\ flow \in DOMAIN Flows /\ Flows[flow] \in Seq(Calls)
      /\ \A i \in DOMAIN Flows[flow] : Flows[flow][i] \in Current <=> BatchesOf[flow][i] = batch
  BY CurrentCalls, FlowsType DEF IInv
<1>1. TypeOK'
  BY DEF IInv, TypeOK, Phases, Active
<1>2. \A c \in Current : phase[c] = "waiting"
  BY <1>0 DEF IInv, BatchesInOrder, Current, BatchCalls
<1>3. \A c \in Calls : phase'[c] = IF c \in Current THEN "pre" ELSE phase[c]
  OBVIOUS
<1>4. \A f \in DOMAIN Flows : \A i \in DOMAIN Flows[f] :
        Flows[f][i] \in Calls /\ (Flows[f][i] \in Current => f = flow)
  BY <1>0, FlowsType, CallsAssumption DEF Current, BatchCalls
<1>5. InFlow' /\ LaterFlowsWait'
  BY <1>0, <1>3, <1>4 DEF IInv, TypeOK, InFlow, LaterFlowsWait
<1>6. BatchesInOrder'
  <2> SUFFICES ASSUME NEW i \in DOMAIN Flows[flow]
               PROVE  /\ BatchesOf[flow][i] < batch => phase'[Flows[flow][i]] = "done"
                      /\ BatchesOf[flow][i] > batch => phase'[Flows[flow][i]] = "waiting"
    BY DEF BatchesInOrder
  <2> QED BY <1>0, <1>3, <1>4 DEF IInv, TypeOK, BatchesInOrder
<1>7. EarlierCallsDone'
  <2> SUFFICES ASSUME NEW f \in DOMAIN Flows, NEW i \in DOMAIN Flows[f], NEW j \in DOMAIN Flows[f],
                      BatchesOf[f][j] < BatchesOf[f][i], phase'[Flows[f][i]] # "waiting"
               PROVE  phase'[Flows[f][j]] = "done"
    BY DEF EarlierCallsDone
  <2>1. CASE Flows[f][i] \in Current
    <3>1. f = flow /\ BatchesOf[f][j] < batch
      BY <1>0, <1>4, <2>1
    <3>2. phase[Flows[f][j]] = "done" /\ Flows[f][j] \notin Current
      BY <1>0, <1>2, <3>1 DEF IInv, BatchesInOrder
    <3> QED BY <1>3, <1>4, <3>2
  <2>2. CASE Flows[f][i] \notin Current
    <3>1. phase[Flows[f][j]] = "done"
      BY <1>3, <1>4, <2>2 DEF IInv, EarlierCallsDone
    <3> QED BY <1>2, <1>3, <1>4, <3>1
  <2> QED BY <2>1, <2>2
<1>8. NotTried' /\ FailureRecorded' /\ WriteOnce' /\ AuditAgrees'
  BY <1>1, <1>2, <1>3, LoopKeepsCalls
<1> QED BY <1>1, <1>5, <1>6, <1>7, <1>8 DEF IInv

LEMMA EndBatchIInv == IInv /\ EndBatch => IInv'
<1> SUFFICES ASSUME IInv, EndBatch PROVE IInv'
  OBVIOUS
<1> USE DEF EndBatch, call
<1>0. /\ flow \in DOMAIN Flows /\ flow \in 1..Len(Flows) /\ Current \subseteq Calls
      /\ \A i \in DOMAIN Flows[flow] : Flows[flow][i] \in Current <=> BatchesOf[flow][i] = batch
  BY CurrentCalls, CallsAssumption DEF IInv
<1>1. TypeOK'
  <2>1. Results \subseteq Calls
    BY <1>0, FlowCalls DEF Results
  <2> QED BY <1>0, <2>1 DEF IInv, TypeOK
<1>2. CASE \E i \in DOMAIN Flows[flow] : BatchesOf[flow][i] > batch
  <2>0. batch' = batch + 1 /\ pc' = "starting" /\ flow' = flow /\ phase' = phase
    BY <1>2
  <2>1. InFlow' /\ LaterFlowsWait'
    BY <1>0, <2>0 DEF IInv, TypeOK, InFlow, LaterFlowsWait
  <2>2. BatchesInOrder'
    <3>1. ASSUME NEW i \in DOMAIN Flows[flow]
          PROVE  /\ BatchesOf[flow][i] < batch' => phase[Flows[flow][i]] = "done"
                 /\ BatchesOf[flow][i] >= batch' => phase[Flows[flow][i]] = "waiting"
      <4>1. BatchesOf[flow][i] \in Nat /\ batch \in Nat
        BY <1>0, BatchNumberType DEF IInv, TypeOK
      <4> QED BY <1>0, <2>0, <4>1 DEF IInv, BatchesInOrder, BatchEnds
    <3>2. \A i \in DOMAIN Flows[flow] : BatchesOf[flow][i] \in Nat
      BY <1>0, BatchNumberType
    <3> QED BY <2>0, <3>1, <3>2, <1>1 DEF BatchesInOrder, TypeOK
  <2> QED BY <1>1, <2>0, <2>1, <2>2, LoopKeepsCalls DEF IInv, EarlierCallsDone
<1>3. CASE ~ \E i \in DOMAIN Flows[flow] : BatchesOf[flow][i] > batch
  <2>0. flow' = flow + 1 /\ pc' = "asking" /\ batch' = 1 /\ phase' = phase
    BY <1>3
  <2>1. InFlow' /\ LaterFlowsWait' /\ BatchesInOrder'
    BY <1>0, <2>0, LaterKept DEF IInv, InFlow, BatchesInOrder
  <2> QED BY <1>1, <2>0, <2>1, LoopKeepsCalls DEF IInv, EarlierCallsDone
<1> QED BY <1>2, <1>3

LEMMA RaiseIInv == IInv /\ Raise => IInv'
<1> SUFFICES ASSUME IInv, Raise PROVE IInv'
  OBVIOUS
<1> USE DEF Raise, call
<1>0. flow \in 1..Len(Flows) /\ pc' \in {"asking", "over"}
  BY CallsAssumption DEF IInv, InFlow
<1>1. TypeOK'
  BY <1>0 DEF IInv, TypeOK
<1>2. InFlow' /\ LaterFlowsWait' /\ BatchesInOrder'
  BY <1>0, LaterKept DEF IInv, InFlow, BatchesInOrder
<1>3. EarlierCallsDone'
  BY DEF IInv, EarlierCallsDone
<1> QED BY <1>1, <1>2, <1>3, LoopKeepsCalls DEF IInv

LEMMA CancelIInv == IInv /\ Cancel => IInv'
<1> SUFFICES ASSUME IInv, Cancel PROVE IInv'
  OBVIOUS
<1> USE DEF Cancel
<1>0. TypeOK
  BY DEF IInv
<1>1. TypeOK'
  BY <1>0, BoundsAssumption DEF TypeOK, Phases
<1>2. \A c \in Calls : \/ phase'[c] = phase[c]
                       \/ phase[c] \in Active /\ phase'[c] = "killed"
  BY <1>0 DEF TypeOK
<1>3. \A f \in DOMAIN Flows : \A i \in DOMAIN Flows[f] : Flows[f][i] \in Calls
  BY FlowsType
<1>4. InFlow' /\ BatchesInOrder'
  BY DEF InFlow, BatchesInOrder
<1>5. LaterFlowsWait'
  BY <1>2, <1>3 DEF IInv, LaterFlowsWait, Active
<1>6. EarlierCallsDone'
  BY <1>2, <1>3 DEF IInv, EarlierCallsDone, Active
<1> QED BY <1>1, <1>2, <1>4, <1>5, <1>6, LoopKeepsCalls DEF IInv

LEMMA NextIInv == IInv /\ [Next]_vars => IInv'
<1> SUFFICES ASSUME IInv, [Next]_vars PROVE IInv'
  OBVIOUS
<1>1. CASE UNCHANGED vars
  <2> USE <1>1 DEF vars, loop, call
  <2>1. TypeOK' /\ InFlow' /\ LaterFlowsWait' /\ BatchesInOrder' /\ EarlierCallsDone'
    BY DEF IInv, TypeOK, InFlow, LaterFlowsWait, BatchesInOrder, EarlierCallsDone
  <2> QED BY <2>1, LoopKeepsCalls DEF IInv
<1> QED
  BY <1>1, AskIInv, StartBatchIInv, EndBatchIInv, RaiseIInv, CancelIInv, CallIInv DEF Next, LoopStep

(* The inductive invariant holds in every reachable state.                 *)
THEOREM Invariance == Spec => []IInv
BY InitIInv, NextIInv, PTL DEF Spec

(* A read that the LLM asked for after a write sees the write: a call runs *)
(* only when all calls of the earlier batches of its answer have results.  *)
THEOREM OrderKept == Spec => []EarlierCallsDone
<1>1. IInv => EarlierCallsDone
  BY DEF IInv
<1> QED BY <1>1, Invariance, PTL

(* However attempts fail, time out and are interrupted, the tool of a call *)
(* that writes is started once, and that of another no more often than its *)
(* retries allow.                                                          *)
THEOREM WritesOnce == Spec => []WriteOnce
<1>1. IInv => WriteOnce
  BY DEF IInv
<1> QED BY <1>1, Invariance, PTL

(* The audit ends with the event of the result a call reports, wherever    *)
(* the timeout strikes.                                                    *)
THEOREM AuditMatches == Spec => []AuditAgrees
<1>1. IInv => AuditAgrees
  BY DEF IInv
<1> QED BY <1>1, Invariance, PTL

--------------------------------------------------------------------------------
(* Executions that are no plan's.                                          *)

LEMMA InitReAct == Init => IInvReAct
<1> SUFFICES ASSUME Init PROVE RunningInFlow /\ FlowsAnswered
  BY InitIInv DEF IInvReAct
<1> QED BY CallsAssumption DEF Init, RunningInFlow, FlowsAnswered, Active

(* Fewer calls run, and the execution goes on or not.                      *)
LEMMA FewerRun ==
  ASSUME RunningInFlow, \A c \in Calls : phase'[c] \in Active => phase[c] \in Active,
         UNCHANGED loop
  PROVE  RunningInFlow'
BY DEF RunningInFlow, loop, Current, BatchCalls

LEMMA CallReAct ==
  ASSUME IInvReAct, NEW c \in Calls, CallStep(c)
  PROVE  RunningInFlow' /\ FlowsAnswered'
<1>1. phase[c] \in Active /\ UNCHANGED <<loop, answered>>
  BY DEF CallStep, Progress, Active, Begin, Reject, Output, GiveUp, Complete, Settle, Retry,
         HookRaises, Timeout
<1>2. \A d \in Calls \ {c} : phase'[d] = phase[d]
  BY DEF IInvReAct, IInv, TypeOK, CallStep, Progress, Begin, Reject, Output, GiveUp, Complete,
         Settle, Retry, HookRaises, Timeout, TimesOut, Goes, Fails
<1>3. RunningInFlow'
  BY <1>1, <1>2, FewerRun DEF IInvReAct
<1> QED BY <1>1, <1>3 DEF IInvReAct, FlowsAnswered, loop

LEMMA LoopReAct ==
  ASSUME ~Planned, IInvReAct, LoopStep \/ Cancel
  PROVE  RunningInFlow' /\ FlowsAnswered'
<1> USE DEF IInvReAct
<1>0. TypeOK /\ InFlow
  BY DEF IInv
<1>1. CASE Ask
  BY <1>1 DEF Ask, call, RunningInFlow, FlowsAnswered
<1>2. CASE StartBatch
  <2>1. \A c, d \in Current : SameBatch(c, d)
    BY <1>0, <1>2 DEF StartBatch, InFlow, SameBatch, Current, BatchCalls
  <2>2. \A c \in Calls : phase'[c] \in Active => c \in Current
    BY <1>0, <1>2 DEF StartBatch, RunningInFlow, TypeOK
  <2>3. Current' = Current
    BY <1>2 DEF StartBatch, Current, BatchCalls
  <2>4. RunningInFlow'
    BY <1>2, <2>1, <2>2, <2>3 DEF StartBatch, RunningInFlow
  <2> QED BY <1>2, <2>4 DEF StartBatch, FlowsAnswered
<1>3. CASE EndBatch
  <2>1. \A c \in Calls : phase'[c] \notin Active
    BY <1>3 DEF EndBatch, BatchEnds, RunningInFlow, call, Active
  <2>2. RunningInFlow'
    BY <1>3, <2>1 DEF EndBatch, RunningInFlow
  <2>3. ASSUME flow' = flow, answered' = answered PROVE FlowsAnswered'
    BY <1>3, <2>3 DEF EndBatch, FlowsAnswered
  <2>4. ASSUME flow' = flow + 1, answered' = answered \cup Results PROVE FlowsAnswered'
    <3>1. \A f \in 1..flow : f = flow \/ f \in 1..(flow - 1)
      BY <1>0 DEF TypeOK
    <3>2. \A f \in 1..(flow - 1) : ToSet(Flows[f]) \subseteq answered
      BY <1>3 DEF EndBatch, FlowsAnswered
    <3>3. flow' - 1 = flow
      BY <1>0, <2>4 DEF TypeOK
    <3> QED BY <2>4, <3>1, <3>2, <3>3 DEF FlowsAnswered, Results
  <2>5. FlowsAnswered'
    BY <1>3, <2>3, <2>4 DEF EndBatch
  <2> QED BY <2>2, <2>5
<1>4. CASE Raise
  BY <1>4 DEF Raise, RunningInFlow, FlowsAnswered, call
<1>5. CASE Cancel
  <2>1. \A c \in Calls : phase'[c] \notin Active
    BY <1>0, <1>5 DEF Cancel, RunningInFlow, TypeOK, Active
  <2> QED BY <1>5, <2>1 DEF Cancel, RunningInFlow, FlowsAnswered
<1> QED BY <1>1, <1>2, <1>3, <1>4, <1>5 DEF LoopStep

LEMMA NextReAct ==
  ASSUME ~Planned, IInvReAct, [Next]_vars
  PROVE  IInvReAct'
<1> SUFFICES RunningInFlow' /\ FlowsAnswered'
  BY NextIInv DEF IInvReAct
<1>1. CASE UNCHANGED vars
  <2>1. RunningInFlow'
    BY <1>1, FewerRun DEF IInvReAct, vars, call
  <2>2. FlowsAnswered'
    BY <1>1 DEF IInvReAct, FlowsAnswered, vars, loop
  <2> QED BY <2>1, <2>2
<1>2. CASE Next
  <2>1. CASE LoopStep \/ Cancel
    BY <2>1, LoopReAct
  <2>2. CASE \E c \in Calls : CallStep(c)
    BY <2>2, CallReAct
  <2> QED BY <1>2, <2>1, <2>2 DEF Next
<1> QED BY <1>1, <1>2

THEOREM ReActInvariance == ASSUME ~Planned PROVE Spec => []IInvReAct
<1>1. IInvReAct /\ [Next]_vars => IInvReAct'
  BY NextReAct
<1> QED BY InitReAct, <1>1, PTL DEF Spec

(* "read-only runs concurrent, write serial": whatever calls raise, time   *)
(* out or are cancelled, no other call runs beside one that writes.        *)
THEOREM WritesAlone == ASSUME ~Planned PROVE Spec => []WriteAlone
<1>1. IInvReAct => WriteAlone
  <2> SUFFICES ASSUME IInvReAct, NEW c \in Calls \ ReadOnly, phase[c] \in Active,
                      NEW d \in Calls \ {c}, phase[d] \in Active
               PROVE  FALSE
    BY DEF WriteAlone
  <2>1. SameBatch(c, d)
    BY DEF IInvReAct, RunningInFlow
  <2> QED BY <2>1, WriteBatchAlone
<1> QED BY <1>1, ReActInvariance, PTL

(* Every request to the LLM finds a tool message for each call of the      *)
(* answers before it.                                                      *)
THEOREM AnsweredBeforeAsked == ASSUME ~Planned PROVE Spec => ToolCallsAnswered
<1>1. IInvReAct /\ [Next]_vars =>
        [pc = "asking" /\ pc' = "starting" =>
           \A f \in 1..(flow - 1) : ToSet(Flows[f]) \subseteq answered]_vars
  BY DEF IInvReAct, FlowsAnswered
<1> QED BY <1>1, ReActInvariance, PTL DEF Spec, ToolCallsAnswered
================================================================================
