------------------------------- MODULE Admission -------------------------------
(***************************************************************************)
(* Admission of agent runs: RunCoordinator.slots (agent.py) enters three   *)
(* gates in a fixed order - the engine's ExecutionLimiter, the agent's     *)
(* ExecutionLimiter and the agent's SessionExecutionGate                   *)
(* (runtime/concurrency.py) - before a run may touch its conversation.     *)
(*                                                                         *)
(* Every gate is an asyncio.Semaphore.  The session gate creates one per   *)
(* conversation on demand, counts its users and drops it with the last     *)
(* one; the semaphore object is named here after the run that created it.  *)
(*                                                                         *)
(* slots() collects the gates in an AsyncExitStack that nobody closes when *)
(* a later gate raises (queue timeout, cancelled task): the gates already  *)
(* entered are given back only when the interpreter finalizes their        *)
(* suspended generators, one after the other and at any later time.        *)
(***************************************************************************)
EXTENDS Integers, FiniteSets, Sequences, SequencesExt

CONSTANTS
  Runs,          (* the attempts to execute an agent, one task each        *)
  Agents,        (* the agents sharing one engine                          *)
  Sessions,      (* the non-empty session ids                              *)
  NoSession,     (* the empty session id of a stateless run                *)
  Engine,        (* the engine-wide semaphore                              *)
  None,          (* no entry                                               *)
  AgentOf,       (* the agent of a run                                     *)
  SessionOf,     (* the session id of a run                                *)
  EngineLimit,   (* max_engine_concurrent_runs, 0 means unlimited          *)
  AgentLimit,    (* max_agent_concurrent_runs, 0 means unlimited           *)
  SessionLimit   (* max_session_concurrent_runs, 0 means no gate           *)

ASSUME RunsAssumption == IsFiniteSet(Runs)

ASSUME SemaphoreAssumption ==
  /\ Runs \cap Agents = {}
  /\ Engine \notin Runs \cup Agents
  /\ None \notin Runs

ASSUME SessionAssumption == NoSession \notin Sessions

ASSUME RequestAssumption ==
  /\ AgentOf \in [Runs -> Agents]
  /\ SessionOf \in [Runs -> Sessions \cup {NoSession}]

ASSUME LimitAssumption ==
  EngineLimit \in Nat /\ AgentLimit \in Nat /\ SessionLimit \in Nat

VARIABLES
  pc,            (* the gate a run is at, or what has become of it         *)
  value,         (* Semaphore._value: the free permits                     *)
  waiters,       (* Semaphore._waiters: the runs suspended in acquire      *)
  granted,       (* the waiters whose future has its result already        *)
  holders,       (* the runs whose gate generator is past its acquire      *)
  entries,       (* SessionExecutionGate._entries, per conversation        *)
  refCount,      (* _SessionGateEntry.ref_count, per entry                 *)
  entry          (* the local variable "entry" of the run's slot()         *)

vars == <<pc, value, waiters, granted, holders, entries, refCount, entry>>

--------------------------------------------------------------------------------
(* Gates and semaphores.                                                   *)

Gates == {"engine", "agent", "session"}

Semaphores == {Engine} \cup Agents \cup Runs

Limit(s) == IF s = Engine THEN EngineLimit
            ELSE IF s \in Agents THEN AgentLimit ELSE SessionLimit

(* The gate after a gate, in the order of RunCoordinator.slots.            *)
After(g) == CASE g = "engine" -> "agent" [] g = "agent" -> "session" [] OTHER -> "running"

(* Defect: a limit of one is taken for no limit.                           *)
GatedAboveOne(r) == SessionOf[r] # NoSession /\ SessionLimit > 1

(* The session gate serializes r: it is on and r has a session.            *)
Gated(r) == SessionOf[r] # NoSession /\ SessionLimit > 0

(* slot() yields at once.                                                  *)
Bypassed(r) ==
  \/ pc[r] = "engine" /\ EngineLimit = 0
  \/ pc[r] = "agent" /\ AgentLimit = 0
  \/ pc[r] = "session" /\ ~Gated(r)

(* The semaphore run r acquires at its present gate.                       *)
Target(r) == CASE pc[r] = "engine" -> Engine
               [] pc[r] = "agent" -> AgentOf[r]
               [] OTHER -> entry[r]

Conversations == Agents \X Sessions
Conversation(r) == <<AgentOf[r], SessionOf[r]>>

HeldBy(r) == {s \in Semaphores : r \in holders[s]}

--------------------------------------------------------------------------------
(* asyncio.Semaphore.                                                      *)

(* locked(): no permit, or somebody queued before (granted or not).        *)
Locked(s) == value[s] = 0 \/ waiters[s] # <<>>

Earlier(s, q, r) ==
  \E i, j \in 1..Len(waiters[s]) : i < j /\ waiters[s][i] = q /\ waiters[s][j] = r

Positions(s) == {i \in 1..Len(waiters[s]) : waiters[s][i] \notin granted[s]}

Pending(s) == {waiters[s][i] : i \in Positions(s)}

(* _wake_up_next: the longest-waiting run whose future is not done.        *)
FirstPending(s) == waiters[s][Min(Positions(s))]

(* release() on every semaphore of S: one permit back, one waiter woken.   *)
Release(S) ==
  /\ value' = [s \in Semaphores |->
                 IF s \in S /\ Pending(s) = {} THEN value[s] + 1 ELSE value[s]]
  /\ granted' = [s \in Semaphores |->
                   IF s \in S /\ Pending(s) # {}
                   THEN granted[s] \cup {FirstPending(s)} ELSE granted[s]]

(* The tail of acquire(): "while value > 0: wake up next".  The run r has  *)
(* just left the queue of s, where v permits are now free.                 *)
WakeAll(s, r, v) ==
  LET pend == Pending(s) \ {r}
  IN \E woken \in SUBSET pend :
       /\ \A q \in woken, p \in pend : Earlier(s, p, q) => p \in woken
       /\ \/ Cardinality(woken) = v
          \/ woken = pend /\ Cardinality(woken) < v
       /\ value' = [value EXCEPT ![s] = v - Cardinality(woken)]
       /\ granted' = [granted EXCEPT ![s] = (@ \ {r}) \cup woken]

Dequeue(s, r) ==
  \E i \in 1..Len(waiters[s]) :
    /\ waiters[s][i] = r
    /\ waiters' = [waiters EXCEPT ![s] = RemoveAt(@, i)]

--------------------------------------------------------------------------------
(* Defect: the entry goes while one user is left.                          *)
ReleaseEntryEarly(r) ==
  IF entry[r] = None
  THEN UNCHANGED <<entries, refCount, entry>>
  ELSE LET c == Conversation(r)
           e == entries[c]
       IN /\ entry' = [entry EXCEPT ![r] = None]
          /\ IF e = None
             THEN UNCHANGED <<entries, refCount>>
             ELSE /\ refCount' = [refCount EXCEPT ![e] = @ - 1]
                  /\ entries' = [entries EXCEPT ![c] = IF refCount[e] - 1 <= 1 THEN None ELSE e]

(* SessionExecutionGate._release_entry, in the finally of slot().          *)
ReleaseEntry(r) ==
  IF entry[r] = None
  THEN UNCHANGED <<entries, refCount, entry>>
  ELSE LET c == Conversation(r)
           e == entries[c]
       IN /\ entry' = [entry EXCEPT ![r] = None]
          /\ IF e = None
             THEN UNCHANGED <<entries, refCount>>
             ELSE /\ refCount' = [refCount EXCEPT ![e] = @ - 1]
                  /\ entries' = [entries EXCEPT ![c] = IF refCount[e] - 1 <= 0 THEN None ELSE e]

--------------------------------------------------------------------------------
(* The steps of a run's task.                                              *)

Waiting(r) == r \in ToSet(waiters[Target(r)])

Init ==
  /\ pc = [r \in Runs |-> "engine"]
  /\ value = [s \in Semaphores |-> Limit(s)]
  /\ waiters = [s \in Semaphores |-> <<>>]
  /\ granted = [s \in Semaphores |-> {}]
  /\ holders = [s \in Semaphores |-> {}]
  /\ entries = [c \in Conversations |-> None]
  /\ refCount = [r \in Runs |-> 0]
  /\ entry = [r \in Runs |-> None]

Pass(r) ==
  /\ pc[r] \in Gates
  /\ Bypassed(r)
  /\ pc' = [pc EXCEPT ![r] = After(@)]
  /\ UNCHANGED <<value, waiters, granted, holders, entries, refCount, entry>>

(* _get_entry: find or create the conversation's entry and count the run.  *)
GetEntry(r) ==
  /\ pc[r] = "session"
  /\ ~Bypassed(r)
  /\ entry[r] = None
  /\ LET c == Conversation(r)
         e == IF entries[c] = None THEN r ELSE entries[c]
     IN /\ entries' = [entries EXCEPT ![c] = e]
        /\ refCount' = [refCount EXCEPT ![e] = @ + 1]
        /\ entry' = [entry EXCEPT ![r] = e]
  /\ UNCHANGED <<pc, value, waiters, granted, holders>>

AtSemaphore(r) ==
  /\ pc[r] \in Gates
  /\ ~Bypassed(r)
  /\ pc[r] = "session" => entry[r] # None

(* acquire() with a free permit does not suspend.                          *)
Acquire(r) ==
  /\ AtSemaphore(r)
  /\ ~Waiting(r)
  /\ ~Locked(Target(r))
  /\ value' = [value EXCEPT ![Target(r)] = @ - 1]
  /\ holders' = [holders EXCEPT ![Target(r)] = @ \cup {r}]
  /\ pc' = [pc EXCEPT ![r] = After(@)]
  /\ UNCHANGED <<waiters, granted, entries, refCount, entry>>

Suspend(r) ==
  /\ AtSemaphore(r)
  /\ ~Waiting(r)
  /\ Locked(Target(r))
  /\ waiters' = [waiters EXCEPT ![Target(r)] = Append(@, r)]
  /\ UNCHANGED <<pc, value, granted, holders, entries, refCount, entry>>

(* The event loop resumes a run whose future has its result.               *)
Resume(r) ==
  /\ AtSemaphore(r)
  /\ Waiting(r)
  /\ r \in granted[Target(r)]
  /\ Dequeue(Target(r), r)
  /\ WakeAll(Target(r), r, value[Target(r)])
  /\ holders' = [holders EXCEPT ![Target(r)] = @ \cup {r}]
  /\ pc' = [pc EXCEPT ![r] = After(@)]
  /\ UNCHANGED <<entries, refCount, entry>>

(* The queue timeout or the cancellation of the task interrupts the wait,  *)
(* perhaps after the permit was granted: acquire() then hands it on.  The  *)
(* exception leaves slots() without closing the stack.                     *)
Abandon(r) ==
  /\ AtSemaphore(r)
  /\ Waiting(r)
  /\ Dequeue(Target(r), r)
  /\ WakeAll(Target(r), r,
             value[Target(r)] + (IF r \in granted[Target(r)] THEN 1 ELSE 0))
  /\ ReleaseEntry(r)
  /\ pc' = [pc EXCEPT ![r] = IF HeldBy(r) = {} THEN "done" ELSE "stranded"]
  /\ UNCHANGED holders

(* Defect: the semaphores are not released.                                *)
LeaveUnreleased(r) ==
  /\ pc[r] = "running"
  /\ UNCHANGED <<value, granted>>
  /\ holders' = [s \in Semaphores |-> holders[s] \ {r}]
  /\ ReleaseEntry(r)
  /\ pc' = [pc EXCEPT ![r] = "done"]
  /\ UNCHANGED waiters

(* The "async with" around the run's body exits: every gate of the stack   *)
(* is left, in reverse order and without suspending.                       *)
Leave(r) ==
  /\ pc[r] = "running"
  /\ Release(HeldBy(r))
  /\ holders' = [s \in Semaphores |-> holders[s] \ {r}]
  /\ ReleaseEntry(r)
  /\ pc' = [pc EXCEPT ![r] = "done"]
  /\ UNCHANGED waiters

(* Defect: release() is not in a finally.                                  *)
FinalizeLeaky(r) ==
  /\ pc[r] = "stranded"
  /\ holders' = [s \in Semaphores |-> holders[s] \ {r}]
  /\ pc' = [pc EXCEPT ![r] = "done"]
  /\ UNCHANGED <<value, granted, waiters, entries, refCount, entry>>

(* The interpreter finalizes one gate generator of an unclosed stack.      *)
Finalize(r) ==
  /\ pc[r] = "stranded"
  /\ \E s \in HeldBy(r) :
       /\ Release({s})
       /\ holders' = [holders EXCEPT ![s] = @ \ {r}]
       /\ pc' = [pc EXCEPT ![r] = IF HeldBy(r) = {s} THEN "done" ELSE "stranded"]
  /\ UNCHANGED <<waiters, entries, refCount, entry>>

Step(r) == Pass(r) \/ GetEntry(r) \/ Acquire(r) \/ Suspend(r) \/ Resume(r)

Next == \E r \in Runs : Step(r) \/ Abandon(r) \/ Leave(r) \/ Finalize(r)

Spec == Init /\ [][Next]_vars

(* The event loop runs every ready task, a run ends (its rounds and its    *)
(* time are limited), and an unreachable generator is finalized.           *)
Fairness ==
  \A r \in Runs : WF_vars(Step(r)) /\ WF_vars(Leave(r)) /\ WF_vars(Finalize(r))

FairSpec == Spec /\ Fairness
--------------------------------------------------------------------------------
(* Properties.                                                             *)

(* The type invariant: every permit counter and user counter stays a       *)
(* natural number and every queue holds runs only.                         *)
TypeOK ==
  /\ pc \in [Runs -> Gates \cup {"running", "stranded", "done"}]
  /\ value \in [Semaphores -> Nat]
  /\ waiters \in [Semaphores -> Seq(Runs)]
  /\ granted \in [Semaphores -> SUBSET Runs]
  /\ holders \in [Semaphores -> SUBSET Runs]
  /\ entries \in [Conversations -> Runs \cup {None}]
  /\ refCount \in [Runs -> Nat]
  /\ entry \in [Runs -> Runs \cup {None}]

(* No interleaving of admissions, timeouts, cancellations and late         *)
(* finalizations loses or duplicates a permit of a limiter or of a session *)
(* entry: a permit is free, on its way to a woken run, or held by a run    *)
(* (ExecutionLimiter.slot, SessionExecutionGate.slot).                     *)
PermitsConserved ==
  \A s \in Semaphores :
    value[s] + Cardinality(granted[s]) + Cardinality(holders[s]) = Limit(s)

Users(c) == {r \in Runs : entry[r] # None /\ Conversation(r) = c}

(* The gate keeps an entry exactly as long as a run waits at it or holds   *)
(* it, all of them at the same entry (_get_entry, _release_entry): an      *)
(* entry dropped early would let two turns of a conversation run at once,  *)
(* one kept too long would never be freed.                                 *)
EntryMatchesUsers ==
  \A c \in Conversations :
    /\ entries[c] = None => Users(c) = {}
    /\ entries[c] # None =>
         /\ Users(c) # {}
         /\ refCount[entries[c]] = Cardinality(Users(c))
         /\ \A r \in Users(c) : entry[r] = entries[c]

Executing == {r \in Runs : pc[r] = "running"}

(* The docstrings of ConcurrencyConfig and SessionExecutionGate: no more    *)
(* runs execute in the engine, on one agent and in one conversation than   *)
(* each limit allows, whichever of them timed out or were cancelled while  *)
(* they queued and however late their gates were given back.               *)
EngineLimited == EngineLimit > 0 => Cardinality(Executing) <= EngineLimit

AgentLimited ==
  AgentLimit > 0 =>
    \A a \in Agents : Cardinality({r \in Executing : AgentOf[r] = a}) <= AgentLimit

ConversationLimited ==
  SessionLimit > 0 =>
    \A c \in Conversations :
      Cardinality({r \in Executing : Conversation(r) = c}) <= SessionLimit

LimitsRespected == EngineLimited /\ AgentLimited /\ ConversationLimited

(* Admission keeps what it promises: AdmissionPromise, where a run is over *)
(* from the moment it leaves its body or its admission fails.              *)
Promise == INSTANCE AdmissionPromise WITH
             executing <- Executing,
             over <- {r \in Runs : pc[r] \in {"stranded", "done"}}
KeepsPromise == Promise!Spec

(* Every run ends: it is admitted and executes, or its wait is abandoned,  *)
(* and what it held comes back.  Gates taken in one fixed order cannot     *)
(* deadlock, and no wake-up is lost when a woken run is cancelled.         *)
EveryRunEnds == \A r \in Runs : <>(pc[r] = "done")
================================================================================
