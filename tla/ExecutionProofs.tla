----------------------------- MODULE ExecutionProofs ----------------------------
(***************************************************************************)
(* Proofs about the executions of one run id, for any number of them, any  *)
(* calls between them, any number of rounds, cancellations and faults.     *)
(* The inductive invariant ties the phase of an execution to the token of  *)
(* its run (who is registered), to its cancellation (a marked context has  *)
(* a CancelledError on its way until the kernel is left) and to the latest *)
(* checkpoint (no execution that is still to save falls behind it).        *)
(***************************************************************************)
EXTENDS Execution, TLAPS

(* From registration to unregister() the token names the execution.        *)
Registered ==
  \A e \in Executions : pc[e] \in Live => e \in contexts /\ e \in tasks

(* A context is marked cancelled within the kernel only by cancel_run,     *)
(* which cancels the task too.                                             *)
MarkedIsPending ==
  \A e \in Executions : flagged[e] /\ pc[e] \in Body => pending[e]

(* The host resumes a run when no execution of its own is left.            *)
HostOf(e) == CallerOf[e] = None
OneOfTheHost ==
  \A e, f \in Executions :
    HostOf(e) /\ HostOf(f) /\ pc[e] \notin {"idle", "over"} /\ pc[f] \notin {"idle", "over"}
      => e = f

(* Sequences grow with an execution, and a resumption starts at the        *)
(* sequence of the checkpoint it continues.                                *)
NoneNested == \A n \in Executions : CallerOf[n] # None => pc[n] = "idle"
SequencesGrow ==
  NoneNested =>
    /\ latest = NoCheckpoint \/ latest.seq = latest.size + latest.round
    /\ \A e \in Executions :
         HostOf(e) /\ pc[e] \in Live => latest.seq <= size[e] + round[e]

IInv == TypeOK /\ Registered /\ MarkedIsPending /\ OneOfTheHost /\ SequencesGrow

--------------------------------------------------------------------------------
LEMMA InitIInv == Init => IInv
<1> SUFFICES ASSUME Init PROVE IInv
  OBVIOUS
<1>1. TypeOK
  <2>1. NoCheckpoint \in [seq : Int, phase : SavedPhases, size : Nat,
                          round : 0..MaxRounds, by : Executions \cup {None}]
    BY BoundsAssumption DEF NoCheckpoint, SavedPhases
  <2>2. latest \in [seq : Int, phase : SavedPhases, size : Nat,
                          round : 0..MaxRounds, by : Executions \cup {None}]
    BY <2>1 DEF Init
  <2>3. pc \in [Executions -> Phases] /\ round \in [Executions -> 0..MaxRounds] 
    BY BoundsAssumption DEF Init, Phases
  <2>4.  cancels \in 0..MaxCancels /\ faults \in 0..MaxFaults
    BY BoundsAssumption DEF Init
  <2>5. /\ pending \in [Executions -> BOOLEAN]
  /\ flagged \in [Executions -> BOOLEAN]
   /\ size \in [Executions -> Nat]
  /\ terminal \in [Executions -> {"none", "done", "error", "cancelled", "dropped"}]
  /\ contexts \subseteq Executions
  /\ tasks \subseteq Executions
  /\ cancelled \in BOOLEAN
    BY DEF Init
  <2> QED BY <2>2, <2>3, <2>4, <2>5 DEF Init, TypeOK
<1>2. Registered /\ MarkedIsPending /\ OneOfTheHost /\ SequencesGrow
  BY DEF Init, Registered, MarkedIsPending, OneOfTheHost, SequencesGrow, NoCheckpoint,
         Prologue, Body, Handlers, Awaiting, Live
<1> QED BY <1>1, <1>2 DEF IInv

(* What a save leaves behind, whether or not it is interrupted: a          *)
(* checkpoint of the execution itself, or the one there was.               *)
LEMMA SaveEffect ==
  ASSUME TypeOK, NEW e \in Executions, MaySave(e)
  PROVE  /\ \/ latest' = latest
            \/ latest' = Checkpoint(e) /\ Checkpoint(e).seq >= latest.seq
         /\ Checkpoint(e).seq = size[e] + round[e]
         /\ Checkpoint(e).size = size[e] /\ Checkpoint(e).round = round[e]
         /\ Checkpoint(e).by = e /\ Checkpoint(e).phase = Recorded(pc[e])
         /\ Checkpoint(e) \in [seq : Int, phase : SavedPhases, size : Nat,
                               round : 0..MaxRounds, by : Executions \cup {None}]
<1>1. Recorded(pc[e]) \in SavedPhases
  BY DEF Recorded, SavedPhases
<1>2. size[e] \in Nat /\ round[e] \in 0..MaxRounds
  BY DEF TypeOK
<1> QED BY <1>1, <1>2, BoundsAssumption DEF MaySave, Save, Checkpoint

--------------------------------------------------------------------------------
(* The steps of one execution.                                             *)

(* A step of e from its registration on: e goes to another phase or is     *)
(* over, its messages and rounds do not become fewer, nobody else's state  *)
(* changes.                                                                *)
Moves(e) ==
  /\ pc[e] \in Live /\ pc'[e] \in Live \cup {"over"}
  /\ pc' = [pc EXCEPT ![e] = pc'[e]]
  /\ pending'[e] \in BOOLEAN /\ pending' = [pending EXCEPT ![e] = pending'[e]]
  /\ flagged'[e] \in BOOLEAN /\ flagged' = [flagged EXCEPT ![e] = flagged'[e]]
  /\ round'[e] \in 0..MaxRounds /\ round' = [round EXCEPT ![e] = round'[e]]
  /\ size'[e] \in Nat /\ size' = [size EXCEPT ![e] = size'[e]]
  /\ size'[e] + round'[e] >= size[e] + round[e]
  /\ flagged'[e] /\ pc'[e] \in Body => pending'[e]
  /\ MaySave(e)
  /\ \/ UNCHANGED token
     \/ pc'[e] = "over" /\ UnregisterToken(e)

LEMMA MovesIInv ==
  ASSUME IInv, NEW e \in Executions, Moves(e),
         terminal' \in [Executions -> {"none", "done", "error", "cancelled", "dropped"}],
         asked' \subseteq Executions, cancels' \in 0..MaxCancels, faults' \in 0..MaxFaults
  PROVE  IInv'
<1>0. TypeOK /\ Registered /\ MarkedIsPending /\ OneOfTheHost /\ SequencesGrow
  BY DEF IInv
<1>1. \A f \in Executions : /\ f # e => pc'[f] = pc[f] /\ pending'[f] = pending[f]
                            /\ f # e => flagged'[f] = flagged[f] /\ round'[f] = round[f]
                            /\ f # e => size'[f] = size[f]
  BY <1>0 DEF Moves, TypeOK
<1>2. contexts' \subseteq contexts /\ tasks' \subseteq tasks /\ cancelled' \in BOOLEAN
  BY <1>0 DEF Moves, UnregisterToken, token, TypeOK
<1>3. \A f \in Executions : f \in contexts /\ f \in tasks /\ pc'[f] # "over"
                              => f \in contexts' /\ f \in tasks'
  BY <1>1 DEF Moves, UnregisterToken, token
<1>4. TypeOK'
  <2>1. latest' \in [seq : Int, phase : SavedPhases, size : Nat,
                     round : 0..MaxRounds, by : Executions \cup {None}]
    BY <1>0, SaveEffect DEF Moves, TypeOK
  <2>2. pc' \in [Executions -> Phases]
    BY <1>0 DEF Moves, TypeOK, Phases
  <2> QED BY <1>0, <1>2, <2>1, <2>2 DEF Moves, TypeOK
<1>5. Registered'
  BY <1>0, <1>1, <1>3, "over" \notin Live
     DEF Registered, Moves, Live, Awaiting, Prologue, Body, Handlers
<1>6. MarkedIsPending'
  BY <1>0, <1>1 DEF MarkedIsPending, Moves
<1>7. OneOfTheHost'
  <2>1. pc[e] \notin {"idle", "over"}
    BY DEF Moves, Live, Awaiting, Prologue, Body, Handlers
  <2> QED BY <1>0, <1>1, <2>1 DEF OneOfTheHost, HostOf
<1>8. SequencesGrow'
  <2> SUFFICES ASSUME NoneNested'
               PROVE  /\ latest' = NoCheckpoint \/ latest'.seq = latest'.size + latest'.round
                      /\ \A f \in Executions :
                           HostOf(f) /\ pc'[f] \in Live => latest'.seq <= size'[f] + round'[f]
    BY DEF SequencesGrow, HostOf
  <2>1. pc'[e] # "idle" /\ pc[e] \notin {"idle", "over"}
    BY DEF Moves, Live, Awaiting, Prologue, Body, Handlers
  <2>2. HostOf(e) /\ NoneNested
    BY <1>1, <2>1 DEF NoneNested, HostOf
  <2>3. /\ latest = NoCheckpoint \/ latest.seq = latest.size + latest.round
        /\ latest.seq <= size[e] + round[e]
    BY <1>0, <2>2 DEF SequencesGrow, Moves
  <2>4. /\ latest' = NoCheckpoint \/ latest'.seq = latest'.size + latest'.round
        /\ latest'.seq <= size[e] + round[e]
    <3>1. CASE latest' = latest
      BY <3>1, <2>3
    <3>2. CASE latest' = Checkpoint(e)
      BY <3>2, <1>0, SaveEffect DEF Moves, TypeOK
    <3> QED BY <3>1, <3>2, <1>0, SaveEffect DEF Moves
  <2>5. latest'.seq <= size'[e] + round'[e]
    <3>1. latest'.seq \in Int /\ size[e] \in Nat /\ round[e] \in Nat
      BY <1>0, <1>4, BoundsAssumption DEF TypeOK
    <3>2. size'[e] \in Nat /\ round'[e] \in Nat
      BY <1>4, BoundsAssumption DEF TypeOK
    <3> QED BY <2>4, <3>1, <3>2 DEF Moves
  <2>6. ASSUME NEW f \in Executions, HostOf(f), pc'[f] \in Live
        PROVE  f = e
    <3>1. f # e => pc[f] \notin {"idle", "over"}
      BY <1>1, <2>6 DEF Live, Awaiting, Prologue, Body, Handlers
    <3> QED BY <3>1, <1>0, <2>1, <2>2, <2>6 DEF OneOfTheHost
  <2> QED BY <2>4, <2>5, <2>6
<1> QED BY <1>4, <1>5, <1>6, <1>7, <1>8 DEF IInv

(* Every step of the executor's own task, of its consumer and of a hook or *)
(* store that raises is such a move.                                       *)
LEMMA StepMoves ==
  ASSUME IInv, NEW e \in Executions, Step(e) \/ Drop(e) \/ Fault(e)
  PROVE  Moves(e)
<1> USE DEF token, Bounds, Live, Awaiting, Prologue, Body, Handlers
<1>0. /\ TypeOK /\ MarkedIsPending
      /\ pending[e] \in BOOLEAN /\ flagged[e] \in BOOLEAN
      /\ round[e] \in 0..MaxRounds /\ size[e] \in Nat
  BY DEF IInv, TypeOK
<1>1. CASE Started(e)
  BY <1>0, <1>1 DEF Started, Moves, MaySave, TypeOK
<1>2. CASE EnterLoop(e)
  BY <1>0, <1>2, BoundsAssumption DEF EnterLoop, LoopHead, Moves, MaySave, TypeOK
<1>3. CASE BeginTurn(e)
  BY <1>0, <1>3 DEF BeginTurn, Moves, MaySave, MarkedIsPending, TypeOK
<1>4. CASE EndTurn(e)
  BY <1>0, <1>4 DEF EndTurn, Moves, MaySave, MarkedIsPending, TypeOK
<1>5. CASE Reported(e)
  BY <1>0, <1>5 DEF Reported, Moves, MaySave, MarkedIsPending, TypeOK
<1>6. CASE EndRound(e)
  BY <1>0, <1>6, BoundsAssumption DEF EndRound, LoopHead, Moves, MaySave, MarkedIsPending, TypeOK
<1>7. CASE Yield(e)
  BY <1>0, <1>7 DEF Yield, Moves, MaySave, TypeOK
<1>8. CASE Raise(e)
  BY <1>0, <1>8 DEF Raise, Moves, MaySave, TypeOK
<1>9. CASE Consume(e)
  <2>1. pending' = [pending EXCEPT ![e] = pending'[e]] /\ pending'[e] \in BOOLEAN
    BY <1>0, <1>9 DEF Consume, TypeOK
  <2> QED BY <1>0, <1>9, <2>1 DEF Consume, Moves, MaySave, TypeOK
<1>10. CASE End(e)
  BY <1>0, <1>10 DEF End, Moves, MaySave, TypeOK
<1>11. CASE Interrupt(e)
  BY <1>0, <1>11 DEF Interrupt, Escape, Moves, TypeOK
<1>12. CASE Drop(e)
  BY <1>0, <1>12 DEF Drop, Moves, MaySave, TypeOK
<1>13. CASE Fault(e)
  BY <1>0, <1>13 DEF Fault, Escape, Moves, TypeOK
<1> QED BY <1>1, <1>2, <1>3, <1>4, <1>5, <1>6, <1>7, <1>8, <1>9, <1>10, <1>11, <1>12,
           <1>13 DEF Step

LEMMA StepIInv ==
  ASSUME IInv, NEW e \in Executions, Step(e) \/ Drop(e) \/ Fault(e)
  PROVE  IInv'
<1>1. terminal' \in [Executions -> {"none", "done", "error", "cancelled", "dropped"}]
  BY DEF IInv, TypeOK, Step, Started, EnterLoop, BeginTurn, EndTurn, Reported, EndRound,
         Yield, Raise, Consume, End, Interrupt, Drop, Fault
<1>2. asked' \subseteq Executions /\ cancels' \in 0..MaxCancels /\ faults' \in 0..MaxFaults
  BY BoundsAssumption DEF IInv, TypeOK, Step, Started, EnterLoop, BeginTurn, EndTurn,
         Reported, EndRound, Yield, Raise, Consume, End, Interrupt, Drop, Fault, Bounds
<1> QED BY <1>1, <1>2, StepMoves, MovesIInv

(* An execution that is asked for is not registered yet; the host's own    *)
(* invocations are not nested.                                             *)
LEMMA AskIInv ==
  ASSUME IInv, NEW e \in Executions, Ask(e)
  PROVE  IInv'
<1> USE DEF Ask, token, Bounds
<1>0. TypeOK /\ Registered /\ MarkedIsPending /\ OneOfTheHost /\ SequencesGrow
  BY DEF IInv
<1>1. TypeOK'
  BY <1>0 DEF TypeOK, Phases
<1>2. Registered' /\ MarkedIsPending' /\ OneOfTheHost'
  BY <1>0 DEF TypeOK, Registered, MarkedIsPending, OneOfTheHost, HostOf, Live, Awaiting,
              Prologue, Body, Handlers
<1>3. ~NoneNested'
  BY <1>0 DEF TypeOK, NoneNested
<1> QED BY <1>1, <1>2, <1>3 DEF IInv, SequencesGrow

LEMMA StartIInv ==
  ASSUME IInv, NEW e \in Executions, Start(e)
  PROVE  IInv'
<1> USE DEF token, Bounds
<1>0. TypeOK /\ Registered /\ MarkedIsPending /\ OneOfTheHost /\ SequencesGrow
  BY DEF IInv
<1>1. /\ contexts' = contexts \cup {e} /\ tasks' = tasks \cup {e}
      /\ flagged' = [flagged EXCEPT ![e] = cancelled] /\ UNCHANGED cancelled
      /\ pc' = [pc EXCEPT ![e] = "starting"]
      /\ UNCHANGED <<pending, terminal, latest, asked, cancels, faults>>
  BY DEF Start, RegisterToken
<1>2. \E s \in Nat, r \in 0..MaxRounds :
        /\ size' = [size EXCEPT ![e] = s] /\ round' = [round EXCEPT ![e] = r]
        /\ \/ CallerOf[e] # None
           \/ latest = NoCheckpoint /\ s = 1 /\ r = 0
           \/ s = latest.size /\ r = latest.round
  BY SMTT(40), <1>0, BoundsAssumption DEF Start, TypeOK
<1>3. TypeOK'
  BY <1>0, <1>1, <1>2 DEF TypeOK, Phases, Live, Awaiting, Prologue
<1>4. Registered' /\ MarkedIsPending'
  BY <1>0, <1>1 DEF TypeOK, Registered, MarkedIsPending, Body
<1>5. OneOfTheHost'
  BY <1>0, <1>1 DEF Start, TypeOK, OneOfTheHost, HostOf
<1>6. SequencesGrow'
  <2> SUFFICES ASSUME NoneNested'
               PROVE  /\ latest' = NoCheckpoint \/ latest'.seq = latest'.size + latest'.round
                      /\ \A f \in Executions :
                           HostOf(f) /\ pc'[f] \in Live => latest'.seq <= size'[f] + round'[f]
    BY DEF SequencesGrow, HostOf
  <2>1. HostOf(e) /\ NoneNested
    BY <1>0, <1>1 DEF NoneNested, HostOf, TypeOK
  <2>2. latest = NoCheckpoint \/ latest.seq = latest.size + latest.round
    BY <1>0, <2>1 DEF SequencesGrow
  <2>3. latest.seq <= size'[e] + round'[e]
    BY <1>0, <1>2, <2>1, <2>2 DEF HostOf, TypeOK, NoCheckpoint
  <2>4. ASSUME NEW f \in Executions, HostOf(f), pc'[f] \in Live
        PROVE  f = e
    <3>1. pc'[e] \notin {"idle", "over"} /\ pc'[f] \notin {"idle", "over"}
      BY <1>0, <1>1, <2>4 DEF TypeOK, Live, Awaiting, Prologue, Body, Handlers
    <3> QED BY <3>1, <1>5, <2>1, <2>4 DEF OneOfTheHost, HostOf
  <2> QED BY <1>1, <2>2, <2>3, <2>4
<1> QED BY <1>3, <1>4, <1>5, <1>6 DEF IInv

(* cancel_run marks the contexts and cancels the tasks of the token: who   *)
(* is registered is marked and cancelled at once.                          *)
LEMMA CancelRunIInv ==
  ASSUME IInv, CancelRun
  PROVE  IInv'
<1> USE DEF CancelRun
<1>0. TypeOK /\ Registered /\ MarkedIsPending /\ OneOfTheHost /\ SequencesGrow
  BY DEF IInv
<1>1. TypeOK'
  BY <1>0, BoundsAssumption DEF TypeOK
<1>2. Registered' /\ OneOfTheHost'
  BY <1>0 DEF Registered, OneOfTheHost, HostOf
<1>3. MarkedIsPending'
  BY <1>0 DEF TypeOK, MarkedIsPending, Registered, Live, Awaiting, Prologue, Body, Handlers
<1>4. SequencesGrow'
  BY <1>0 DEF SequencesGrow, NoneNested, HostOf
<1> QED BY <1>1, <1>2, <1>3, <1>4 DEF IInv

LEMMA NextIInv == IInv /\ [Next]_vars => IInv'
<1> SUFFICES ASSUME IInv, [Next]_vars PROVE IInv'
  OBVIOUS
<1>1. CASE Next
  BY <1>1, AskIInv, StartIInv, StepIInv, CancelRunIInv DEF Next
<1>2. CASE UNCHANGED vars
  <2> USE <1>2 DEF vars, task, token, IInv
  <2>1. TypeOK'
    BY DEF TypeOK
  <2>2. Registered' /\ MarkedIsPending' /\ OneOfTheHost' /\ SequencesGrow'
    BY DEF Registered, MarkedIsPending, OneOfTheHost, SequencesGrow, NoneNested, HostOf
  <2> QED BY <2>1, <2>2
<1> QED BY <1>1, <1>2

(* The inductive invariant holds in every reachable state.                 *)
THEOREM Invariance == Spec => []IInv
BY InitIInv, NextIInv, PTL DEF Spec

--------------------------------------------------------------------------------
(* Whatever executions of the same run id register, end, fail or leave     *)
(* behind, cancel_run reaches every registered one (RunControlRegistry).   *)
THEOREM AlwaysCancellable == Spec => []RunningIsCancellable
<1>1. IInv => RunningIsCancellable
  BY DEF IInv, Registered, RunningIsCancellable
<1> QED BY <1>1, Invariance, PTL

(* An execution whose context is marked cancelled begins no turn and       *)
(* reports neither done nor error (Executor.run_stream, ReActKernel.run).  *)
THEOREM CancellationHonoured == Spec => CancelHonoured
<1> DEFINE Honours(e) ==
      flagged[e] => /\ pc'[e] = "turn" => pc[e] = "turn"
                    /\ terminal'[e] \in {terminal[e], "cancelled", "dropped"}
<1>1. ASSUME IInv, [Next]_vars, NEW e \in Executions PROVE Honours(e)
  <2>0. TypeOK /\ MarkedIsPending
    BY <1>1 DEF IInv
  <2>1. ASSUME NEW f \in Executions, Ask(f) PROVE Honours(e)
    BY <2>0, <2>1 DEF Ask, TypeOK
  <2>2. ASSUME NEW f \in Executions, Start(f) PROVE Honours(e)
    BY <2>0, <2>2 DEF Start, TypeOK
  <2>3. ASSUME NEW f \in Executions, Step(f) \/ Drop(f) \/ Fault(f), f # e PROVE Honours(e)
    <3>1. pc'[e] = pc[e]
      BY <1>1, <2>0, <2>3, StepMoves DEF Moves, TypeOK
    <3>2. terminal'[e] = terminal[e]
      BY <2>0, <2>3
         DEF TypeOK, Step, Started, EnterLoop, BeginTurn, EndTurn, Reported, EndRound, Yield,
             Raise, Consume, End, Interrupt, Drop, Fault
    <3> QED BY <3>1, <3>2
  <2>4. CASE Step(e) \/ Drop(e) \/ Fault(e)
    BY <2>0, <2>4
       DEF TypeOK, MarkedIsPending, Body, Step, Started, EnterLoop, LoopHead, BeginTurn,
           EndTurn, Reported, EndRound, Yield, Raise, Consume, End, Interrupt, Escape, Drop,
           Fault
  <2>5. CASE CancelRun
    BY <2>5 DEF CancelRun
  <2>6. CASE UNCHANGED vars
    BY <2>6 DEF vars, task
  <2> QED BY <1>1, <2>1, <2>2, <2>3, <2>4, <2>5, <2>6 DEF Next
<1>2. IInv /\ [Next]_vars =>
        [\A e \in Executions : flagged[e] =>
           /\ pc'[e] = "turn" => pc[e] = "turn"
           /\ terminal'[e] \in {terminal[e], "cancelled", "dropped"}]_vars
  BY <1>1
<1> QED BY <1>2, Invariance, PTL DEF Spec, CancelHonoured

(* The checkpoint that a resumption would find records the outcome that    *)
(* the consumer was told, as long as no agent the run calls saves its own  *)
(* under the same run id (CheckpointRecorder.save, the checkpoint store).  *)
THEOREM OutcomesRecorded == Spec => OutcomeRecorded
<1> DEFINE Agrees(e) ==
      /\ terminal'[e] \in {"done", "error", "cancelled"} \ {terminal[e]}
      /\ \A n \in Executions : CallerOf[n] # None => pc[n] = "idle"
      => latest'.by = e /\ latest'.phase = terminal'[e]
<1>1. ASSUME IInv, [Next]_vars, NEW e \in Executions PROVE Agrees(e)
  <2> SUFFICES ASSUME terminal'[e] \in {"done", "error", "cancelled"} \ {terminal[e]},
                      NoneNested
               PROVE  latest'.by = e /\ latest'.phase = terminal'[e]
    BY DEF NoneNested
  <2>0. TypeOK /\ SequencesGrow
    BY <1>1 DEF IInv
  <2>1. PICK f \in Executions : Yield(f)
    <3>1. CASE CancelRun
      BY <3>1 DEF CancelRun
    <3>2. CASE UNCHANGED vars
      BY <3>2 DEF vars, task
    <3>3. ASSUME NEW f \in Executions, Drop(f) PROVE FALSE
      BY <2>0, <3>3 DEF Drop, TypeOK
    <3>4. ASSUME NEW f \in Executions, Ask(f) \/ Start(f) \/ Fault(f) PROVE FALSE
      BY <3>4 DEF Ask, Start, Fault
    <3>5. ASSUME NEW f \in Executions, Step(f), ~Yield(f) PROVE FALSE
      BY <3>5 DEF Step, Started, EnterLoop, BeginTurn, EndTurn, Reported, EndRound, Raise,
                  Consume, End, Interrupt
    <3> QED BY <1>1, <3>1, <3>2, <3>3, <3>4, <3>5 DEF Next
  <2>2. f = e
    BY <2>0, <2>1 DEF Yield, TypeOK
  <2>3. /\ pc[e] \in {"savingDone", "savingError", "savingCancelled"}
        /\ Recorded(pc[e]) = terminal'[e]
    BY <2>0, <2>1, <2>2 DEF Yield, TypeOK, Recorded
  <2>4. latest.seq <= size[e] + round[e]
    BY <2>0, <2>3 DEF SequencesGrow, NoneNested, HostOf, Live, Awaiting, Body, Handlers
  <2>5. Save(e)
    BY <2>1, <2>2 DEF Yield
  <2>6. /\ Checkpoint(e).seq = size[e] + round[e]
        /\ Checkpoint(e).by = e /\ Checkpoint(e).phase = Recorded(pc[e])
    BY <2>0, <2>5, SaveEffect DEF MaySave
  <2>7. latest' = Checkpoint(e)
    BY <2>0, <2>3, <2>4, <2>5, <2>6, BoundsAssumption DEF Save, Saving, TypeOK
  <2> QED BY <2>3, <2>6, <2>7
<1>2. IInv /\ [Next]_vars =>
        [\A e \in Executions :
           /\ terminal'[e] \in {"done", "error", "cancelled"} \ {terminal[e]}
           /\ \A n \in Executions : CallerOf[n] # None => pc[n] = "idle"
           => latest'.by = e /\ latest'.phase = terminal'[e]]_vars
  BY <1>1
<1> QED BY <1>2, Invariance, PTL DEF Spec, OutcomeRecorded

================================================================================
