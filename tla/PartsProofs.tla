------------------------------- MODULE PartsProofs ------------------------------
(***************************************************************************)
(* Proofs about parts of an agent, each a component of its own.            *)
(*                                                                         *)
(* Run admission: for any number of runs, agents and conversations and any *)
(* limits, permits are conserved and the limits respected.                 *)
(*                                                                         *)
(* human_in_the_loop: for any number of calls that wait at once and any    *)
(* host, a call is let through only with an approval of its own, as long   *)
(* as request ids are not given out twice (~IdsReused).                    *)
(*                                                                         *)
(* The order of the guards: for any rules, limits and overlapping runs,    *)
(* what is executed is what was judged, and no tool exceeds its limit.     *)
(*                                                                         *)
(* The memory plugin: in a process that serves one scope, what it keeps is *)
(* what the store holds.                                                   *)
(*                                                                         *)
(* Knowledge: whatever fails while the local index is built, an answer has *)
(* all that is near to its query, and what a search of the index finds     *)
(* passes its filter, once each.                                           *)
(*                                                                         *)
(* graph: both tables stay sound.  mcp: a run that uses the servers has    *)
(* the tools of all of them.                                               *)
(*                                                                         *)
(* Together: the components of RuntimeProofs and of this module, as the    *)
(* run AgentParts checks them (RuntimeHolds, DurableKept, PluginsHold).    *)
(***************************************************************************)
EXTENDS MCAgentParts, RuntimeProofs

--------------------------------------------------------------------------------
(***************************************************************************)
(* Run admission.  The inductive invariant adds to the conservation of     *)
(* permits which gates a run holds at which point of slots(), and which    *)
(* conversation an entry belongs to.                                       *)
(***************************************************************************)

(* A pending waiter is a run, and there is a first one when there is any.  *)
LEMMA PendingRuns ==
  ASSUME TypeOK, NEW s \in Semaphores
  PROVE  /\ Pending(s) \subseteq Runs
         /\ Pending(s) \cap granted[s] = {}
         /\ Pending(s) # {} => FirstPending(s) \in Pending(s)
<1>1. waiters[s] \in Seq(Runs)
  BY DEF TypeOK
<1>2. Pending(s) \subseteq Runs /\ Pending(s) \cap granted[s] = {}
  BY <1>1 DEF Pending, Positions
<1>3. Pending(s) # {} => Positions(s) # {}
  BY DEF Pending
<1>4. Positions(s) \subseteq Nat
  BY <1>1 DEF Positions
<1>5. Positions(s) # {} => Min(Positions(s)) \in Positions(s)
  BY <1>4, MinOfNaturals
<1> QED BY <1>2, <1>3, <1>5 DEF FirstPending, Pending

(* Removing a position from a queue of runs leaves a queue of runs.        *)
LEMMA RemoveAtType ==
  ASSUME NEW S, NEW q \in Seq(S), NEW i \in 1..Len(q)
  PROVE  RemoveAt(q, i) \in Seq(S)
<1>1. SubSeq(q, 1, i-1) \in Seq(S)
  OBVIOUS
<1>2. SubSeq(q, i+1, Len(q)) \in Seq(S)
  OBVIOUS
<1> QED BY <1>1, <1>2 DEF RemoveAt

LEMMA DequeueType ==
  ASSUME TypeOK, NEW s \in Semaphores, NEW r, Dequeue(s, r)
  PROVE  waiters' \in [Semaphores -> Seq(Runs)]
<1>1. PICK i \in 1..Len(waiters[s]) :
        waiters' = [waiters EXCEPT ![s] = RemoveAt(@, i)]
  BY DEF Dequeue
<1>2. waiters[s] \in Seq(Runs)
  BY DEF TypeOK
<1>3. RemoveAt(waiters[s], i) \in Seq(Runs)
  BY <1>2, RemoveAtType
<1> QED BY <1>1, <1>3 DEF TypeOK

(* Sets of runs are finite, so their cardinalities are natural numbers.    *)
LEMMA RunSets ==
  ASSUME NEW S, S \subseteq Runs
  PROVE  IsFiniteSet(S) /\ Cardinality(S) \in Nat
BY RunsAssumption, FS_Subset, FS_CardinalityType

LEMMA LimitType == \A s : Limit(s) \in Nat
BY LimitAssumption DEF Limit

(* release(): whatever a holder gives back is free again or already handed *)
(* to the first pending waiter.                                            *)
LEMMA ReleaseConserves ==
  ASSUME TypeOK, PermitsConserved, NEW r \in Runs,
         NEW S, S \subseteq HeldBy(r), Release(S),
         holders' = [s \in Semaphores |-> IF s \in S THEN holders[s] \ {r} ELSE holders[s]]
  PROVE  /\ value' \in [Semaphores -> Nat]
         /\ granted' \in [Semaphores -> SUBSET Runs]
         /\ holders' \in [Semaphores -> SUBSET Runs]
         /\ PermitsConserved'
<1>1. ASSUME NEW s \in Semaphores
      PROVE  /\ value'[s] \in Nat
             /\ granted'[s] \subseteq Runs
             /\ holders'[s] \subseteq Runs
             /\ value'[s] + Cardinality(granted'[s]) + Cardinality(holders'[s]) = Limit(s)
  <2>1. /\ value[s] \in Nat
        /\ granted[s] \subseteq Runs
        /\ holders[s] \subseteq Runs
        /\ value[s] + Cardinality(granted[s]) + Cardinality(holders[s]) = Limit(s)
    BY DEF TypeOK, PermitsConserved
  <2>2. /\ IsFiniteSet(granted[s]) /\ Cardinality(granted[s]) \in Nat
        /\ IsFiniteSet(holders[s]) /\ Cardinality(holders[s]) \in Nat
    BY <2>1, RunSets
  <2>3. CASE s \notin S
    <3>1. value'[s] = value[s] /\ granted'[s] = granted[s] /\ holders'[s] = holders[s]
      BY <2>3 DEF Release
    <3> QED BY <3>1, <2>1
  <2>4. CASE s \in S
    <3>1. r \in holders[s]
      BY <2>4 DEF HeldBy
    <3>2. holders'[s] = holders[s] \ {r}
      BY <2>4
    <3>3. Cardinality(holders'[s]) = Cardinality(holders[s]) - 1
      BY <3>1, <3>2, <2>2, FS_RemoveElement
    <3>4. CASE Pending(s) = {}
      <4>1. value'[s] = value[s] + 1 /\ granted'[s] = granted[s]
        BY <2>4, <3>4 DEF Release
      <4> QED BY <4>1, <3>2, <3>3, <2>1, <2>2
    <3>5. CASE Pending(s) # {}
      <4>1. /\ value'[s] = value[s]
            /\ granted'[s] = granted[s] \cup {FirstPending(s)}
        BY <2>4, <3>5 DEF Release
      <4>2. FirstPending(s) \in Runs /\ FirstPending(s) \notin granted[s]
        BY <3>5, PendingRuns
      <4>3. Cardinality(granted'[s]) = Cardinality(granted[s]) + 1
        BY <4>1, <4>2, <2>2, FS_AddElement
      <4> QED BY <4>1, <4>2, <4>3, <3>2, <3>3, <2>1, <2>2
    <3> QED BY <3>4, <3>5
  <2> QED BY <2>3, <2>4
<1>2. /\ value' = [s \in Semaphores |-> value'[s]]
      /\ granted' = [s \in Semaphores |-> granted'[s]]
  BY DEF Release
<1> QED BY <1>1, <1>2 DEF PermitsConserved

(* The tail of acquire(): waking waiters turns free permits into grants.   *)
LEMMA WakeAllConserves ==
  ASSUME TypeOK, NEW s \in Semaphores, NEW r, NEW v \in Nat, WakeAll(s, r, v)
  PROVE  /\ value' \in [Semaphores -> Nat]
         /\ granted' \in [Semaphores -> SUBSET Runs]
         /\ value'[s] + Cardinality(granted'[s]) = v + Cardinality(granted[s] \ {r})
         /\ \A t \in Semaphores \ {s} : value'[t] = value[t] /\ granted'[t] = granted[t]
<1>1. PICK woken \in SUBSET (Pending(s) \ {r}) :
        /\ Cardinality(woken) = v
           \/ (woken = Pending(s) \ {r} /\ Cardinality(woken) < v)
        /\ value' = [value EXCEPT ![s] = v - Cardinality(woken)]
        /\ granted' = [granted EXCEPT ![s] = (@ \ {r}) \cup woken]
  BY DEF WakeAll
<1>2. woken \subseteq Runs /\ woken \cap granted[s] = {}
  BY <1>1, PendingRuns
<1>3. granted[s] \subseteq Runs
  BY DEF TypeOK
<1>4. /\ IsFiniteSet(woken) /\ Cardinality(woken) \in Nat
      /\ IsFiniteSet(granted[s] \ {r}) /\ Cardinality(granted[s] \ {r}) \in Nat
  BY <1>2, <1>3, RunSets
<1>5. Cardinality(woken) =< v
  BY <1>1, <1>4
<1>6. Cardinality((granted[s] \ {r}) \cup woken) =
        Cardinality(granted[s] \ {r}) + Cardinality(woken)
  <2>1. (granted[s] \ {r}) \cap woken = {}
    BY <1>2
  <2>2. Cardinality((granted[s] \ {r}) \cap woken) = 0
    BY <2>1, FS_EmptySet
  <2>3. Cardinality((granted[s] \ {r}) \cup woken) =
          Cardinality(granted[s] \ {r}) + Cardinality(woken)
            - Cardinality((granted[s] \ {r}) \cap woken)
    BY <1>4, FS_Union
  <2> QED BY <2>2, <2>3, <1>4
<1>7. value'[s] = v - Cardinality(woken) /\ granted'[s] = (granted[s] \ {r}) \cup woken
  BY <1>1 DEF TypeOK
<1> QED BY <1>1, <1>2, <1>3, <1>4, <1>5, <1>6, <1>7 DEF TypeOK

--------------------------------------------------------------------------------
(* The strengthening: which gates a run holds where.  A stranded run holds *)
(* no session semaphore: the session gate is the last one of the stack.    *)
GatesHeld ==
  \A r \in Runs :
    /\ pc[r] \in {"agent", "session", "running"} /\ EngineLimit > 0 => r \in holders[Engine]
    /\ pc[r] \in {"session", "running"} /\ AgentLimit > 0 => r \in holders[AgentOf[r]]
    /\ pc[r] = "running" /\ Gated(r) => entry[r] # None /\ r \in holders[entry[r]]
    /\ r \in holders[Engine] => pc[r] # "engine"
    /\ \A a \in Agents : r \in holders[a] => pc[r] \notin {"engine", "agent"}
    /\ \A e \in Runs : r \in holders[e] => pc[r] = "running" /\ entry[r] = e
    /\ entry[r] # None => pc[r] \in {"session", "running"} /\ Gated(r)

(* An entry is known under the conversation of the run that created it,    *)
(* and is counted only while it is known.                                  *)
EntriesNamed ==
  /\ \A c \in Conversations : entries[c] # None => Conversation(entries[c]) = c
  /\ \A e \in Runs : refCount[e] # 0 =>
       Conversation(e) \in Conversations /\ entries[Conversation(e)] = e

IInv == TypeOK /\ PermitsConserved /\ GatesHeld /\ EntryMatchesUsers /\ EntriesNamed

(* What a run may be at when it is at a semaphore.                         *)
LEMMA TargetType ==
  ASSUME TypeOK, NEW r \in Runs, AtSemaphore(r)
  PROVE  /\ Target(r) \in Semaphores
         /\ pc[r] = "engine" => Target(r) = Engine
         /\ pc[r] = "agent" => Target(r) = AgentOf[r] /\ AgentOf[r] \in Agents
         /\ pc[r] = "session" => Target(r) = entry[r] /\ entry[r] \in Runs /\ Gated(r)
         /\ pc[r] \in Gates
BY RequestAssumption, SemaphoreAssumption
   DEF TypeOK, AtSemaphore, Target, Semaphores, Bypassed, Gates

LEMMA AfterType ==
  ASSUME NEW g \in Gates
  PROVE  /\ After(g) \in Gates \cup {"running"}
         /\ g = "engine" => After(g) = "agent"
         /\ g = "agent" => After(g) = "session"
         /\ g = "session" => After(g) = "running"
BY DEF After, Gates

(* A run that passes a semaphore was not a holder of it.                   *)
LEMMA NotYetHolder ==
  ASSUME TypeOK, GatesHeld, NEW r \in Runs, AtSemaphore(r)
  PROVE  r \notin holders[Target(r)]
BY TargetType DEF GatesHeld, Gates

LEMMA InitIInv == Init => IInv
<1> SUFFICES ASSUME Init PROVE IInv
  OBVIOUS
<1> USE DEF Init
<1>1. TypeOK
  BY LimitType, RunsAssumption DEF TypeOK, Gates
<1>2. PermitsConserved
  BY LimitType, FS_EmptySet DEF PermitsConserved
<1>3. GatesHeld
  BY RequestAssumption, SemaphoreAssumption DEF GatesHeld, Semaphores
<1>4. EntryMatchesUsers
  BY DEF EntryMatchesUsers, Users
<1>5. EntriesNamed
  BY DEF EntriesNamed
<1> QED BY <1>1, <1>2, <1>3, <1>4, <1>5 DEF IInv

(* Entering a gate whose permit r has just taken.                          *)
LEMMA EnterGatesHeld ==
  ASSUME TypeOK, GatesHeld, NEW r \in Runs, AtSemaphore(r),
         holders' = [holders EXCEPT ![Target(r)] = @ \cup {r}],
         pc' = [pc EXCEPT ![r] = After(@)],
         UNCHANGED entry
  PROVE  GatesHeld'
<1> DEFINE t == Target(r)
<1>1. /\ \A q \in Runs : q # r => pc'[q] = pc[q]
      /\ pc'[r] = After(pc[r])
  BY DEF TypeOK
<1>2. /\ \A s \in Semaphores : s # t => holders'[s] = holders[s]
      /\ holders'[t] = holders[t] \cup {r}
      /\ t \in Semaphores
  BY TargetType DEF TypeOK
<1>3. /\ Engine \in Semaphores /\ AgentOf[r] \in Semaphores
      /\ \A a \in Agents : a \in Semaphores /\ a # Engine /\ a \notin Runs
      /\ \A e \in Runs : e \in Semaphores /\ e # Engine /\ e \notin Agents
      /\ \A q \in Runs : AgentOf[q] \in Agents /\ entry[q] \in Runs \cup {None}
  BY SemaphoreAssumption, RequestAssumption DEF Semaphores, TypeOK
<1>4. CASE pc[r] = "engine"
  <2>1. t = Engine /\ pc'[r] = "agent"
    BY <1>1, <1>4, TargetType, AfterType DEF Gates
  <2> QED BY <1>1, <1>2, <1>3, <1>4, <2>1 DEF GatesHeld, Gated
<1>5. CASE pc[r] = "agent"
  <2>1. t = AgentOf[r] /\ pc'[r] = "session"
    BY <1>1, <1>5, TargetType, AfterType DEF Gates
  <2> QED BY <1>1, <1>2, <1>3, <1>5, <2>1 DEF GatesHeld, Gated
<1>6. CASE pc[r] = "session"
  <2>1. t = entry[r] /\ entry[r] \in Runs /\ Gated(r) /\ pc'[r] = "running"
    BY <1>1, <1>6, TargetType, AfterType DEF Gates
  <2>2. ASSUME NEW q \in Runs
        PROVE  /\ pc'[q] = "running" /\ Gated(q) => entry'[q] # None /\ q \in holders'[entry'[q]]
               /\ \A e \in Runs : q \in holders'[e] => pc'[q] = "running" /\ entry'[q] = e
    <3>1. CASE q = r
      <4>1. \A e \in Runs : r \notin holders[e]
        BY <1>6 DEF GatesHeld
      <4>2. \A e \in Runs : r \in holders'[e] => e = t
        BY <4>1, <1>2, <1>3
      <4>3. r \in holders'[entry[r]] /\ entry[r] # None
        BY <1>2, <2>1, SemaphoreAssumption
      <4> QED BY <3>1, <4>2, <4>3, <2>1
    <3>2. CASE q # r
      <4>1. \A e \in Runs : q \in holders'[e] <=> q \in holders[e]
        BY <3>2, <1>2, <1>3
      <4> QED BY <3>2, <4>1, <1>1, <1>3 DEF GatesHeld
    <3> QED BY <3>1, <3>2
  <2>3. ASSUME NEW q \in Runs
        PROVE  /\ pc'[q] \in {"agent", "session", "running"} /\ EngineLimit > 0 => q \in holders'[Engine]
               /\ pc'[q] \in {"session", "running"} /\ AgentLimit > 0 => q \in holders'[AgentOf[q]]
               /\ q \in holders'[Engine] => pc'[q] # "engine"
               /\ \A a \in Agents : q \in holders'[a] => pc'[q] \notin {"engine", "agent"}
               /\ entry'[q] # None => pc'[q] \in {"session", "running"} /\ Gated(q)
    BY <1>1, <1>2, <1>3, <1>6, <2>1 DEF GatesHeld
  <2> QED BY <2>2, <2>3 DEF GatesHeld, Gated
<1> QED BY <1>4, <1>5, <1>6, TargetType DEF Gates

LEMMA PassIInv ==
  ASSUME IInv, NEW r \in Runs, Pass(r)
  PROVE  IInv'
<1> USE DEF IInv, Pass
<1>1. TypeOK'
  BY AfterType DEF TypeOK
<1>2. PermitsConserved'
  BY DEF PermitsConserved
<1>3. GatesHeld'
  <2> USE DEF TypeOK, Gates
  <2>1. CASE pc[r] = "engine"
    BY <2>1, AfterType DEF GatesHeld, Bypassed, Gated
  <2>2. CASE pc[r] = "agent"
    BY <2>2, AfterType DEF GatesHeld, Bypassed, Gated
  <2>3. CASE pc[r] = "session"
    BY <2>3, AfterType DEF GatesHeld, Bypassed, Gated
  <2> QED BY <2>1, <2>2, <2>3
<1>4. EntryMatchesUsers' /\ EntriesNamed'
  BY DEF EntryMatchesUsers, Users, EntriesNamed, Conversation
<1> QED BY <1>1, <1>2, <1>3, <1>4

LEMMA AcquireIInv ==
  ASSUME IInv, NEW r \in Runs, Acquire(r)
  PROVE  IInv'
<1> USE DEF IInv, Acquire
<1> DEFINE t == Target(r)
<1>1. t \in Semaphores /\ pc[r] \in Gates /\ r \notin holders[t]
  BY TargetType, NotYetHolder
<1>2. value[t] \in Nat /\ value[t] # 0
  BY <1>1 DEF Locked, TypeOK
<1>3. TypeOK'
  BY <1>1, <1>2, AfterType DEF TypeOK
<1>4. PermitsConserved'
  <2> SUFFICES ASSUME NEW s \in Semaphores
               PROVE  value'[s] + Cardinality(granted'[s]) + Cardinality(holders'[s]) = Limit(s)
    BY DEF PermitsConserved
  <2>1. value[s] + Cardinality(granted[s]) + Cardinality(holders[s]) = Limit(s)
    BY DEF PermitsConserved
  <2>2. /\ IsFiniteSet(holders[s]) /\ Cardinality(holders[s]) \in Nat
        /\ Cardinality(granted[s]) \in Nat
    BY RunSets DEF TypeOK
  <2>3. CASE s # t
    BY <2>1, <2>3, <1>1 DEF TypeOK
  <2>4. CASE s = t
    <3>1. Cardinality(holders'[t]) = Cardinality(holders[t]) + 1
      BY <2>2, <2>4, <1>1, FS_AddElement DEF TypeOK
    <3>2. value'[t] = value[t] - 1 /\ granted'[t] = granted[t]
      BY <1>1 DEF TypeOK
    <3> QED BY <3>1, <3>2, <2>1, <2>2, <2>4, <1>2
  <2> QED BY <2>3, <2>4
<1>5. GatesHeld'
  BY EnterGatesHeld
<1>6. EntryMatchesUsers' /\ EntriesNamed'
  BY DEF EntryMatchesUsers, Users, EntriesNamed, Conversation
<1> QED BY <1>3, <1>4, <1>5, <1>6

LEMMA SuspendIInv ==
  ASSUME IInv, NEW r \in Runs, Suspend(r)
  PROVE  IInv'
<1> USE DEF IInv, Suspend
<1>1. TypeOK'
  BY TargetType DEF TypeOK
<1>2. PermitsConserved'
  BY DEF PermitsConserved
<1>3. GatesHeld'
  BY DEF GatesHeld
<1>4. EntryMatchesUsers' /\ EntriesNamed'
  BY DEF EntryMatchesUsers, Users, EntriesNamed, Conversation
<1> QED BY <1>1, <1>2, <1>3, <1>4

LEMMA ResumeIInv ==
  ASSUME IInv, NEW r \in Runs, Resume(r)
  PROVE  IInv'
<1> USE DEF IInv, Resume
<1> DEFINE t == Target(r)
<1>1. t \in Semaphores /\ pc[r] \in Gates /\ r \notin holders[t]
  BY TargetType, NotYetHolder
<1>2. value[t] \in Nat /\ r \in granted[t]
  BY <1>1 DEF TypeOK
<1>3. /\ value' \in [Semaphores -> Nat]
      /\ granted' \in [Semaphores -> SUBSET Runs]
      /\ value'[t] + Cardinality(granted'[t]) = value[t] + Cardinality(granted[t] \ {r})
      /\ \A s \in Semaphores \ {t} : value'[s] = value[s] /\ granted'[s] = granted[s]
  BY <1>1, <1>2, WakeAllConserves
<1>4. TypeOK'
  BY <1>1, <1>3, AfterType, DequeueType DEF TypeOK
<1>5. PermitsConserved'
  <2> SUFFICES ASSUME NEW s \in Semaphores
               PROVE  value'[s] + Cardinality(granted'[s]) + Cardinality(holders'[s]) = Limit(s)
    BY DEF PermitsConserved
  <2>1. value[s] + Cardinality(granted[s]) + Cardinality(holders[s]) = Limit(s)
    BY DEF PermitsConserved
  <2>2. /\ IsFiniteSet(holders[s]) /\ Cardinality(holders[s]) \in Nat
        /\ IsFiniteSet(granted[s]) /\ Cardinality(granted[s]) \in Nat
        /\ Cardinality(granted'[s]) \in Nat
    BY <1>4, RunSets DEF TypeOK
  <2>3. CASE s # t
    BY <2>1, <2>3, <1>1, <1>3 DEF TypeOK
  <2>4. CASE s = t
    <3>1. Cardinality(holders'[t]) = Cardinality(holders[t]) + 1
      BY <2>2, <2>4, <1>1, FS_AddElement DEF TypeOK
    <3>2. Cardinality(granted[t] \ {r}) = Cardinality(granted[t]) - 1
      BY <2>2, <2>4, <1>2, FS_RemoveElement
    <3> QED BY <3>1, <3>2, <2>1, <2>2, <2>4, <1>2, <1>3
  <2> QED BY <2>3, <2>4
<1>6. GatesHeld'
  BY EnterGatesHeld
<1>7. EntryMatchesUsers' /\ EntriesNamed'
  BY DEF EntryMatchesUsers, Users, EntriesNamed, Conversation
<1> QED BY <1>4, <1>5, <1>6, <1>7

(* Counting one more user of a conversation's entry.                       *)
LEMMA GetEntryIInv ==
  ASSUME IInv, NEW r \in Runs, GetEntry(r)
  PROVE  IInv'
<1> USE DEF IInv, GetEntry
<1> DEFINE c == Conversation(r)
           e == IF entries[c] = None THEN r ELSE entries[c]
<1>1. c \in Conversations /\ Gated(r) /\ r \notin Users(c)
  BY RequestAssumption DEF Conversation, Conversations, Bypassed, Gated, Users
<1>2. e \in Runs /\ e # None
  BY <1>1, SemaphoreAssumption DEF TypeOK
<1>3. /\ entries' = [entries EXCEPT ![c] = e]
      /\ refCount' = [refCount EXCEPT ![e] = @ + 1]
      /\ entry' = [entry EXCEPT ![r] = e]
  OBVIOUS
<1>4. TypeOK'
  BY <1>1, <1>2, <1>3 DEF TypeOK
<1>5. PermitsConserved'
  BY DEF PermitsConserved
<1>6. GatesHeld'
  BY <1>1, <1>2, <1>3 DEF GatesHeld, TypeOK, Gated
<1>7. /\ \A d \in Conversations : d # c => Users(d)' = Users(d)
      /\ Users(c)' = Users(c) \cup {r}
  <2>1. \A q \in Runs : q # r => entry'[q] = entry[q]
    BY <1>3 DEF TypeOK
  <2>2. entry'[r] # None
    BY <1>2, <1>3 DEF TypeOK
  <2>3. \A d : Users(d)' = {q \in Runs : entry'[q] # None /\ Conversation(q) = d}
    BY DEF Users, Conversation
  <2> HIDE DEF c, e
  <2>4. ASSUME NEW d \in Conversations, d # Conversation(r)
        PROVE  Users(d)' = Users(d)
    BY <2>1, <2>3, <2>4 DEF Users
  <2>5. Users(Conversation(r))' = Users(Conversation(r)) \cup {r}
    BY <2>1, <2>2, <2>3 DEF Users
  <2> QED BY <2>4, <2>5 DEF c
<1>8. Users(c) \subseteq Runs /\ IsFiniteSet(Users(c)) /\ Cardinality(Users(c)) \in Nat
  <2>1. Users(c) \subseteq Runs
    BY DEF Users
  <2> QED BY <2>1, RunSets
<1>9. Cardinality(Users(c)') = Cardinality(Users(c)) + 1
  BY <1>1, <1>7, <1>8, FS_AddElement
<1>10. Conversation(e) = c
  BY <1>1 DEF EntriesNamed
<1>11. refCount[e] = Cardinality(Users(c))
  <2>1. CASE entries[c] = None
    <3>1. Users(c) = {} /\ e = r
      BY <2>1, <1>1 DEF EntryMatchesUsers
    <3>2. refCount[r] = 0
      BY <2>1, <1>1, <1>2, <3>1 DEF EntriesNamed
    <3> QED BY <3>1, <3>2, FS_EmptySet
  <2>2. CASE entries[c] # None
    BY <2>2, <1>1 DEF EntryMatchesUsers
  <2> QED BY <2>1, <2>2
<1>12. refCount'[e] = Cardinality(Users(c)')
  BY <1>2, <1>3, <1>9, <1>11 DEF TypeOK
<1>13. entries'[c] = e /\ \A d \in Conversations : d # c => entries'[d] = entries[d]
  BY <1>1, <1>3 DEF TypeOK
<1>14. \A d \in Conversations : d # c /\ entries[d] # None => entries[d] # e
  BY <1>10 DEF EntriesNamed
<1>15. \A q \in Users(c)' : entry'[q] = e
  <2>1. \A q \in Users(c) : q \in Runs /\ q # r /\ entry[q] = e
    BY <1>1 DEF EntryMatchesUsers, Users
  <2>2. \A q \in Users(c) : entry'[q] = entry[q]
    BY <2>1, <1>3 DEF TypeOK
  <2>3. entry'[r] = e
    BY <1>3 DEF TypeOK
  <2> QED BY <2>1, <2>2, <2>3, <1>7
<1>16. EntryMatchesUsers'
  <2> SUFFICES ASSUME NEW d \in Conversations
               PROVE  /\ entries'[d] = None => Users(d)' = {}
                      /\ entries'[d] # None =>
                           /\ Users(d)' # {}
                           /\ refCount'[entries'[d]] = Cardinality(Users(d)')
                           /\ \A q \in Users(d)' : entry'[q] = entries'[d]
    BY DEF EntryMatchesUsers
  <2>1. CASE d = c
    BY <2>1, <1>2, <1>7, <1>12, <1>13, <1>15
  <2>2. CASE d # c
    <3>1. entries'[d] = entries[d] /\ Users(d)' = Users(d)
      BY <2>2, <1>7, <1>13
    <3>2. entries[d] # None => refCount'[entries[d]] = refCount[entries[d]]
      BY <2>2, <1>2, <1>3, <1>14 DEF TypeOK
    <3>3. \A q \in Users(d) : entry'[q] = entry[q]
      BY <2>2, <1>3 DEF TypeOK, Users
    <3> QED BY <3>1, <3>2, <3>3 DEF EntryMatchesUsers
  <2> QED BY <2>1, <2>2
<1>17. EntriesNamed'
  <2>1. \A d \in Conversations : entries'[d] # None => Conversation(entries'[d]) = d
    BY <1>10, <1>13 DEF EntriesNamed
  <2>2. ASSUME NEW f \in Runs, refCount'[f] # 0
        PROVE  Conversation(f) \in Conversations /\ entries'[Conversation(f)] = f
    <3>1. CASE f = e
      BY <3>1, <1>1, <1>10, <1>13
    <3>2. CASE f # e
      <4>1. Conversation(f) \in Conversations /\ entries[Conversation(f)] = f
        BY <2>2, <3>2, <1>2, <1>3 DEF EntriesNamed, TypeOK
      <4>2. Conversation(f) # c
        BY <4>1, <3>2, SemaphoreAssumption
      <4> QED BY <4>1, <4>2, <1>13
    <3> QED BY <3>1, <3>2
  <2> QED BY <2>1, <2>2 DEF EntriesNamed, Conversation
<1> QED BY <1>4, <1>5, <1>6, <1>16, <1>17

(* One user of an entry less; the last one takes the entry along.          *)
LEMMA ReleaseEntryKeeps ==
  ASSUME TypeOK, GatesHeld, EntryMatchesUsers, EntriesNamed,
         NEW r \in Runs, ReleaseEntry(r)
  PROVE  /\ entries' \in [Conversations -> Runs \cup {None}]
         /\ refCount' \in [Runs -> Nat]
         /\ entry' = [entry EXCEPT ![r] = None]
         /\ EntryMatchesUsers'
         /\ EntriesNamed'
<1> DEFINE c == Conversation(r)
           e == entries[c]
<1>1. CASE entry[r] = None
  <2>1. UNCHANGED <<entries, refCount, entry>>
    BY <1>1 DEF ReleaseEntry
  <2> QED BY <2>1, <1>1 DEF TypeOK, EntryMatchesUsers, Users, EntriesNamed, Conversation
<1>2. CASE entry[r] # None
  <2>1. c \in Conversations /\ r \in Users(c)
    BY <1>2, RequestAssumption
       DEF GatesHeld, Gated, Conversation, Conversations, Users
  <2>2. e # None /\ e \in Runs /\ refCount[e] = Cardinality(Users(c))
    BY <2>1 DEF EntryMatchesUsers, TypeOK
  <2>3. /\ entry' = [entry EXCEPT ![r] = None]
        /\ refCount' = [refCount EXCEPT ![e] = @ - 1]
        /\ entries' = [entries EXCEPT ![c] = IF refCount[e] - 1 =< 0 THEN None ELSE e]
    BY <1>2, <2>2 DEF ReleaseEntry
  <2>4. /\ Users(c) \subseteq Runs /\ IsFiniteSet(Users(c))
        /\ Cardinality(Users(c)) \in Nat /\ Cardinality(Users(c)) # 0
    <3>1. Users(c) \subseteq Runs
      BY DEF Users
    <3> QED BY <3>1, <2>1, RunSets, FS_EmptySet
  <2>5. /\ \A d \in Conversations : d # c => Users(d)' = Users(d)
        /\ Users(c)' = Users(c) \ {r}
    <3>1. \A q \in Runs : q # r => entry'[q] = entry[q]
      BY <2>3 DEF TypeOK
    <3>2. entry'[r] = None
      BY <2>3 DEF TypeOK
    <3>3. \A d : Users(d)' = {q \in Runs : entry'[q] # None /\ Conversation(q) = d}
      BY DEF Users, Conversation
    <3> HIDE DEF c, e
    <3>4. ASSUME NEW d \in Conversations, d # Conversation(r)
          PROVE  Users(d)' = Users(d)
      BY <3>1, <3>3, <3>4 DEF Users
    <3>5. Users(Conversation(r))' = Users(Conversation(r)) \ {r}
      BY <3>1, <3>2, <3>3 DEF Users
    <3> QED BY <3>4, <3>5 DEF c
  <2>6. Cardinality(Users(c)') = Cardinality(Users(c)) - 1
    BY <2>1, <2>4, <2>5, FS_RemoveElement
  <2>7. refCount' \in [Runs -> Nat] /\ refCount'[e] = Cardinality(Users(c)')
    BY <2>2, <2>3, <2>4, <2>6 DEF TypeOK
  <2>8. /\ entries' \in [Conversations -> Runs \cup {None}]
        /\ entries'[c] = IF Users(c)' = {} THEN None ELSE e
        /\ \A d \in Conversations : d # c => entries'[d] = entries[d]
    <3>1. Users(c)' = {} <=> Cardinality(Users(c)) = 1
      <4>1. IsFiniteSet(Users(c)')
        BY <2>4, <2>5, FS_RemoveElement
      <4> QED BY <4>1, <2>4, <2>6, FS_EmptySet
    <3>2. refCount[e] - 1 =< 0 <=> Cardinality(Users(c)) = 1
      BY <2>2, <2>4
    <3> QED BY <3>1, <3>2, <2>1, <2>2, <2>3 DEF TypeOK
  <2>9. /\ Conversation(e) = c
        /\ \A d \in Conversations : d # c /\ entries[d] # None => entries[d] # e
    BY <2>1, <2>2 DEF EntriesNamed
  <2>10. EntryMatchesUsers'
    <3> SUFFICES ASSUME NEW d \in Conversations
                 PROVE  /\ entries'[d] = None => Users(d)' = {}
                        /\ entries'[d] # None =>
                             /\ Users(d)' # {}
                             /\ refCount'[entries'[d]] = Cardinality(Users(d)')
                             /\ \A q \in Users(d)' : entry'[q] = entries'[d]
      BY DEF EntryMatchesUsers
    <3>1. CASE d = c
      <4>1. entries'[c] = None => Users(c)' = {}
        BY <2>2, <2>8
      <4>2. entries'[c] # None => Users(c)' # {} /\ entries'[c] = e
        BY <2>8
      <4>3. \A q \in Users(c)' : entry'[q] = e
        <5>1. \A q \in Users(c)' : q \in Users(c) /\ q # r /\ q \in Runs /\ entry[q] = e
          BY <2>1, <2>2, <2>4, <2>5 DEF EntryMatchesUsers
        <5> QED BY <5>1, <2>3 DEF TypeOK
      <4> QED BY <3>1, <4>1, <4>2, <4>3, <2>7
    <3>2. CASE d # c
      <4>1. entries'[d] = entries[d] /\ Users(d)' = Users(d)
        BY <3>2, <2>5, <2>8
      <4>2. entries[d] # None => refCount'[entries[d]] = refCount[entries[d]]
        BY <3>2, <2>2, <2>3, <2>9 DEF TypeOK
      <4>3. \A q \in Users(d) : entry'[q] = entry[q]
        BY <3>2, <2>3 DEF TypeOK, Users
      <4> QED BY <4>1, <4>2, <4>3 DEF EntryMatchesUsers
    <3> QED BY <3>1, <3>2
  <2>11. EntriesNamed'
    <3>1. \A d \in Conversations : entries'[d] # None => Conversation(entries'[d]) = d
      BY <2>8, <2>9 DEF EntriesNamed
    <3>2. ASSUME NEW f \in Runs, refCount'[f] # 0
          PROVE  Conversation(f) \in Conversations /\ entries'[Conversation(f)] = f
      <4>1. CASE f = e
        <5>1. Users(c)' # {}
          BY <3>2, <4>1, <2>7, FS_EmptySet
        <5> QED BY <4>1, <5>1, <2>1, <2>8, <2>9
      <4>2. CASE f # e
        <5>1. Conversation(f) \in Conversations /\ entries[Conversation(f)] = f
          BY <3>2, <4>2, <2>2, <2>3 DEF EntriesNamed, TypeOK
        <5>2. Conversation(f) # c
          BY <5>1, <4>2
        <5> QED BY <5>1, <5>2, <2>8
      <4> QED BY <4>1, <4>2
    <3> QED BY <3>1, <3>2 DEF EntriesNamed, Conversation
  <2> QED BY <2>3, <2>7, <2>8, <2>10, <2>11
<1> QED BY <1>1, <1>2

LEMMA AbandonIInv ==
  ASSUME IInv, NEW r \in Runs, Abandon(r)
  PROVE  IInv'
<1> USE DEF IInv, Abandon
<1> DEFINE t == Target(r)
           v == value[t] + (IF r \in granted[t] THEN 1 ELSE 0)
<1>1. t \in Semaphores /\ pc[r] \in Gates
  BY TargetType
<1>2. value[t] \in Nat /\ v \in Nat
  BY <1>1 DEF TypeOK
<1>3. /\ value' \in [Semaphores -> Nat]
      /\ granted' \in [Semaphores -> SUBSET Runs]
      /\ value'[t] + Cardinality(granted'[t]) = v + Cardinality(granted[t] \ {r})
      /\ \A s \in Semaphores \ {t} : value'[s] = value[s] /\ granted'[s] = granted[s]
  <2>1. WakeAll(t, r, v)
    OBVIOUS
  <2> QED BY <1>1, <1>2, <2>1, WakeAllConserves
<1>4. /\ entries' \in [Conversations -> Runs \cup {None}]
      /\ refCount' \in [Runs -> Nat]
      /\ entry' = [entry EXCEPT ![r] = None]
      /\ EntryMatchesUsers'
      /\ EntriesNamed'
  BY ReleaseEntryKeeps
<1>5. TypeOK'
  BY <1>1, <1>3, <1>4, DequeueType DEF TypeOK
<1>6. PermitsConserved'
  <2> SUFFICES ASSUME NEW s \in Semaphores
               PROVE  value'[s] + Cardinality(granted'[s]) + Cardinality(holders'[s]) = Limit(s)
    BY DEF PermitsConserved
  <2>1. value[s] + Cardinality(granted[s]) + Cardinality(holders[s]) = Limit(s)
    BY DEF PermitsConserved
  <2>2. /\ Cardinality(holders[s]) \in Nat
        /\ IsFiniteSet(granted[s]) /\ Cardinality(granted[s]) \in Nat
        /\ Cardinality(granted'[s]) \in Nat
    BY <1>5, RunSets DEF TypeOK
  <2>3. CASE s # t
    BY <2>1, <2>3, <1>1, <1>3 DEF TypeOK
  <2>4. CASE s = t /\ r \in granted[t]
    <3>1. Cardinality(granted[t] \ {r}) = Cardinality(granted[t]) - 1
      BY <2>2, <2>4, FS_RemoveElement
    <3> QED BY <3>1, <2>1, <2>2, <2>4, <1>2, <1>3
  <2>5. CASE s = t /\ r \notin granted[t]
    <3>1. granted[t] \ {r} = granted[t] /\ v = value[t]
      BY <2>5, <1>2
    <3> QED BY <3>1, <2>1, <2>2, <2>5, <1>2, <1>3
  <2> QED BY <2>3, <2>4, <2>5
<1>7. GatesHeld'
  <2>1. pc'[r] \in {"done", "stranded"} /\ \A q \in Runs : q # r => pc'[q] = pc[q]
    BY DEF TypeOK
  <2>2. entry'[r] = None /\ \A q \in Runs : q # r => entry'[q] = entry[q]
    BY <1>4 DEF TypeOK
  <2>3. \A e \in Runs : r \notin holders[e]
    BY <1>1 DEF GatesHeld, Gates
  <2> QED BY <2>1, <2>2, <2>3 DEF GatesHeld, Gated
<1> QED BY <1>4, <1>5, <1>6, <1>7

LEMMA LeaveIInv ==
  ASSUME IInv, NEW r \in Runs, Leave(r)
  PROVE  IInv'
<1> USE DEF IInv, Leave
<1>1. /\ entries' \in [Conversations -> Runs \cup {None}]
      /\ refCount' \in [Runs -> Nat]
      /\ entry' = [entry EXCEPT ![r] = None]
      /\ EntryMatchesUsers'
      /\ EntriesNamed'
  BY ReleaseEntryKeeps
<1>2. holders' = [s \in Semaphores |-> IF s \in HeldBy(r) THEN holders[s] \ {r} ELSE holders[s]]
  BY DEF HeldBy, TypeOK
<1>3. /\ value' \in [Semaphores -> Nat]
      /\ granted' \in [Semaphores -> SUBSET Runs]
      /\ holders' \in [Semaphores -> SUBSET Runs]
      /\ PermitsConserved'
  BY <1>2, ReleaseConserves
<1>4. TypeOK'
  BY <1>1, <1>3 DEF TypeOK
<1>5. GatesHeld'
  <2>1. pc'[r] = "done" /\ \A q \in Runs : q # r => pc'[q] = pc[q]
    BY DEF TypeOK
  <2>2. entry'[r] = None /\ \A q \in Runs : q # r => entry'[q] = entry[q]
    BY <1>1 DEF TypeOK
  <2>3. \A s \in Semaphores, q \in Runs : q \in holders'[s] <=> q \in holders[s] /\ q # r
    OBVIOUS
  <2>4. /\ Engine \in Semaphores
        /\ \A q \in Runs : q \in Semaphores /\ AgentOf[q] \in Semaphores
        /\ \A a \in Agents : a \in Semaphores
    BY RequestAssumption DEF Semaphores
  <2>5. \A q \in Runs : entry[q] # None => entry[q] \in Runs
    BY DEF TypeOK
  <2> SUFFICES ASSUME NEW q \in Runs
               PROVE  GatesHeld!(q)'
    BY DEF GatesHeld
  <2>6. CASE q = r
    BY <2>1, <2>2, <2>3, <2>4, <2>6
  <2>7. CASE q # r
    BY <2>1, <2>2, <2>3, <2>4, <2>5, <2>7 DEF GatesHeld, Gated
  <2> QED BY <2>6, <2>7
<1> QED BY <1>1, <1>3, <1>4, <1>5

LEMMA FinalizeIInv ==
  ASSUME IInv, NEW r \in Runs, Finalize(r)
  PROVE  IInv'
<1> USE DEF IInv
<1>1. PICK s \in HeldBy(r) :
        /\ pc[r] = "stranded"
        /\ Release({s})
        /\ holders' = [holders EXCEPT ![s] = @ \ {r}]
        /\ pc' = [pc EXCEPT ![r] = IF HeldBy(r) = {s} THEN "done" ELSE "stranded"]
        /\ UNCHANGED <<waiters, entries, refCount, entry>>
  BY DEF Finalize
<1>2. s \in Semaphores /\ {s} \subseteq HeldBy(r)
  BY DEF HeldBy
<1>3. holders' = [t \in Semaphores |-> IF t \in {s} THEN holders[t] \ {r} ELSE holders[t]]
  BY <1>1, <1>2 DEF TypeOK
<1>4. /\ value' \in [Semaphores -> Nat]
      /\ granted' \in [Semaphores -> SUBSET Runs]
      /\ holders' \in [Semaphores -> SUBSET Runs]
      /\ PermitsConserved'
  <2> HIDE DEF IInv
  <2> QED BY <1>1, <1>2, <1>3, ReleaseConserves DEF IInv
<1>5. TypeOK'
  BY <1>1, <1>4 DEF TypeOK
<1>6. GatesHeld'
  <2>1. /\ pc[r] = "stranded" /\ pc'[r] \in {"stranded", "done"}
        /\ \A q \in Runs : q # r => pc'[q] = pc[q]
    BY <1>1 DEF TypeOK
  <2>2. \A t \in Semaphores, q \in Runs : q # r => (q \in holders'[t] <=> q \in holders[t])
    BY <1>3
  <2>3. \A t \in Semaphores : r \in holders'[t] => r \in holders[t]
    BY <1>3
  <2>4. /\ Engine \in Semaphores
        /\ \A q \in Runs : q \in Semaphores /\ AgentOf[q] \in Semaphores
        /\ \A a \in Agents : a \in Semaphores
    BY RequestAssumption DEF Semaphores
  <2>5. \A q \in Runs : entry[q] # None => entry[q] \in Runs
    BY DEF TypeOK
  <2> SUFFICES ASSUME NEW q \in Runs
               PROVE  GatesHeld!(q)'
    BY DEF GatesHeld
  <2>6. CASE q = r
    BY <1>1, <2>1, <2>3, <2>4, <2>6 DEF GatesHeld
  <2>7. CASE q # r
    BY <1>1, <2>1, <2>2, <2>4, <2>5, <2>7 DEF GatesHeld, Gated
  <2> QED BY <2>6, <2>7
<1>7. EntryMatchesUsers' /\ EntriesNamed'
  BY <1>1 DEF EntryMatchesUsers, Users, EntriesNamed, Conversation
<1> QED BY <1>4, <1>5, <1>6, <1>7

LEMMA NextIInv == IInv /\ [Next]_vars => IInv'
<1> SUFFICES ASSUME IInv, [Next]_vars PROVE IInv'
  OBVIOUS
<1>1. ASSUME NEW r \in Runs, Step(r) PROVE IInv'
  BY <1>1, PassIInv, GetEntryIInv, AcquireIInv, SuspendIInv, ResumeIInv DEF Step
<1>2. ASSUME NEW r \in Runs, Abandon(r) PROVE IInv'
  BY <1>2, AbandonIInv
<1>3. ASSUME NEW r \in Runs, Leave(r) PROVE IInv'
  BY <1>3, LeaveIInv
<1>4. ASSUME NEW r \in Runs, Finalize(r) PROVE IInv'
  BY <1>4, FinalizeIInv
<1>5. CASE UNCHANGED vars
  <2> USE <1>5 DEF vars, IInv
  <2>1. TypeOK'
    BY DEF TypeOK
  <2>2. PermitsConserved'
    BY DEF PermitsConserved
  <2>3. GatesHeld'
    BY DEF GatesHeld, Gated
  <2>4. EntryMatchesUsers' /\ EntriesNamed'
    BY DEF EntryMatchesUsers, Users, Conversation, EntriesNamed
  <2> QED BY <2>1, <2>2, <2>3, <2>4
<1> QED BY <1>1, <1>2, <1>3, <1>4, <1>5 DEF Next

(* The inductive invariant holds in every reachable state.                 *)
THEOREM Invariance == Spec => []IInv
BY InitIInv, NextIInv, PTL DEF Spec

(* Every state of RunCoordinator.slots, the limiters and the session gate  *)
(* has the shape TypeOK gives it, for any number of runs and any limits.   *)
THEOREM TypeCorrect == Spec => []TypeOK
<1>1. IInv => TypeOK
  BY DEF IInv
<1> QED BY <1>1, Invariance, PTL

(* No permit of ExecutionLimiter.slot or SessionExecutionGate.slot is lost *)
(* or duplicated, whatever is cancelled, times out or is finalized late.   *)
THEOREM NoPermitLost == Spec => []PermitsConserved
<1>1. IInv => PermitsConserved
  BY DEF IInv
<1> QED BY <1>1, Invariance, PTL

(* _get_entry and _release_entry keep exactly the entries in use.          *)
THEOREM EntriesExact == Spec => []EntryMatchesUsers
<1>1. IInv => EntryMatchesUsers
  BY DEF IInv
<1> QED BY <1>1, Invariance, PTL

--------------------------------------------------------------------------------
(* The limits follow: whoever executes holds the semaphores in force, and  *)
(* a semaphore has no more holders than permits.                           *)
LEMMA HoldersBounded ==
  ASSUME IInv, NEW s \in Semaphores, NEW S, S \subseteq holders[s]
  PROVE  Cardinality(S) =< Limit(s)
<1>1. /\ value[s] \in Nat
      /\ granted[s] \subseteq Runs
      /\ holders[s] \subseteq Runs
      /\ value[s] + Cardinality(granted[s]) + Cardinality(holders[s]) = Limit(s)
  BY DEF IInv, TypeOK, PermitsConserved
<1>2. /\ Cardinality(granted[s]) \in Nat
      /\ IsFiniteSet(holders[s]) /\ Cardinality(holders[s]) \in Nat
      /\ Cardinality(S) \in Nat
  BY <1>1, RunSets
<1>3. Cardinality(S) =< Cardinality(holders[s])
  BY <1>2, FS_Subset
<1> QED BY <1>1, <1>2, <1>3, LimitType

LEMMA IInvLimits == IInv => LimitsRespected
<1> SUFFICES ASSUME IInv PROVE LimitsRespected
  OBVIOUS
<1>1. EngineLimited
  <2> SUFFICES ASSUME EngineLimit > 0 PROVE Cardinality(Executing) =< EngineLimit
    BY DEF EngineLimited
  <2>1. Executing \subseteq holders[Engine]
    BY DEF Executing, IInv, GatesHeld
  <2> QED BY <2>1, HoldersBounded DEF Semaphores, Limit
<1>2. AgentLimited
  <2> SUFFICES ASSUME AgentLimit > 0, NEW a \in Agents
               PROVE  Cardinality({r \in Executing : AgentOf[r] = a}) =< AgentLimit
    BY DEF AgentLimited
  <2>1. {r \in Executing : AgentOf[r] = a} \subseteq holders[a]
    BY DEF Executing, IInv, GatesHeld
  <2>2. a \in Semaphores /\ Limit(a) = AgentLimit
    BY SemaphoreAssumption DEF Semaphores, Limit
  <2> QED BY <2>1, <2>2, HoldersBounded
<1>3. ConversationLimited
  <2> SUFFICES ASSUME SessionLimit > 0, NEW c \in Conversations,
                      {r \in Executing : Conversation(r) = c} # {}
               PROVE  Cardinality({r \in Executing : Conversation(r) = c}) =< SessionLimit
    BY FS_EmptySet, LimitAssumption DEF ConversationLimited
  <2> DEFINE S == {r \in Executing : Conversation(r) = c}
             e == entries[c]
  <2>1. ASSUME NEW r \in S
        PROVE  entry[r] = e /\ e \in Runs /\ r \in holders[e]
    <3>1. r \in Runs /\ pc[r] = "running" /\ Conversation(r) = c
      BY DEF Executing
    <3>2. CASE SessionOf[r] = NoSession
      <4>1. c = <<AgentOf[r], NoSession>>
        BY <3>1, <3>2 DEF Conversation
      <4>2. NoSession \in Sessions
        BY <4>1 DEF Conversations
      <4> QED BY <4>2, SessionAssumption
    <3>3. CASE SessionOf[r] # NoSession
      <4>1. entry[r] # None /\ r \in holders[entry[r]]
        BY <3>1, <3>3, LimitAssumption DEF Gated, IInv, GatesHeld
      <4>2. r \in Users(c)
        BY <3>1, <4>1 DEF Users
      <4> QED BY <4>1, <4>2 DEF IInv, EntryMatchesUsers, TypeOK
    <3> QED BY <3>2, <3>3
  <2>2. e \in Semaphores /\ Limit(e) = SessionLimit /\ S \subseteq holders[e]
    BY <2>1, SemaphoreAssumption DEF Semaphores, Limit
  <2> QED BY <2>2, HoldersBounded
<1> QED BY <1>1, <1>2, <1>3 DEF LimitsRespected

(* The three concurrency limits hold for any values and any requests.      *)
THEOREM AdmissionLimits == Spec => []LimitsRespected
BY Invariance, IInvLimits, PTL

--------------------------------------------------------------------------------
(* Refinement: every step is an admission, an end, a refusal or a stutter  *)
(* of AdmissionPromise.                                                    *)
Over == {r \in Runs : pc[r] \in {"stranded", "done"}}

LEMMA SameCardinality == \A S : Promise!Cardinality(S) = Cardinality(S)
BY DEF Promise!Cardinality, Cardinality

LEMMA EnterRefines ==
  ASSUME IInv, LimitsRespected', NEW r \in Runs, pc[r] \in Gates, pc' = [pc EXCEPT ![r] = After(@)]
  PROVE  Promise!Next \/ UNCHANGED <<Executing, Over>>
<1> USE DEF Promise!RoomFor, Promise!SameConversation, Promise!HasConversation
<1>0. pc \in [Runs -> Gates \cup {"running", "stranded", "done"}]
  BY DEF IInv, TypeOK
<1>1. CASE pc[r] # "session"
  <2>1. After(pc[r]) \in Gates
    BY <1>1, AfterType DEF Gates
  <2> QED BY <2>1, <1>0 DEF Executing, Over, Gates
<1>2. CASE pc[r] = "session"
  <2>1. /\ Executing' = Executing \cup {r} /\ r \notin Executing
        /\ Over' = Over /\ r \notin Over
        /\ Executing \subseteq Runs
    BY <1>2, <1>0, AfterType DEF Executing, Over, Gates
  <2>3. ASSUME NEW S, NEW n \in Nat, S \subseteq Executing,
               Cardinality(S \cup {r}) =< n
        PROVE  Cardinality(S) < n
    <3>1. IsFiniteSet(S) /\ Cardinality(S) \in Nat
      BY <2>1, <2>3, RunSets
    <3>2. Cardinality(S \cup {r}) = Cardinality(S) + 1
      BY <3>1, <2>1, <2>3, FS_AddElement
    <3> QED BY <3>1, <3>2, <2>3
  <2>4. EngineLimit = 0 \/ Cardinality(Executing) < EngineLimit
    BY <2>1, <2>3, LimitAssumption DEF LimitsRespected, EngineLimited
  <2>5. AgentLimit = 0 \/ Cardinality({q \in Executing : AgentOf[q] = AgentOf[r]}) < AgentLimit
    <3> DEFINE S == {q \in Executing : AgentOf[q] = AgentOf[r]}
    <3>1. {q \in Executing' : AgentOf[q] = AgentOf[r]} = S \cup {r}
      BY <2>1
    <3>2. AgentLimit > 0 => Cardinality(S \cup {r}) =< AgentLimit
      BY <3>1, RequestAssumption DEF LimitsRespected, AgentLimited
    <3> QED BY <3>2, <2>3, LimitAssumption
  <2>6. \/ SessionLimit = 0
        \/ SessionOf[r] = NoSession
        \/ Cardinality({q \in Executing : AgentOf[q] = AgentOf[r] /\ SessionOf[q] = SessionOf[r]})
             < SessionLimit
    <3> SUFFICES ASSUME SessionLimit # 0, SessionOf[r] # NoSession
                 PROVE  Cardinality({q \in Executing : AgentOf[q] = AgentOf[r]
                                       /\ SessionOf[q] = SessionOf[r]}) < SessionLimit
      OBVIOUS
    <3> DEFINE S == {q \in Executing : AgentOf[q] = AgentOf[r] /\ SessionOf[q] = SessionOf[r]}
    <3>1. Conversation(r) \in Conversations
      BY RequestAssumption DEF Conversation, Conversations
    <3>2. {q \in Executing' : Conversation(q) = Conversation(r)} = S \cup {r}
      BY <2>1 DEF Conversation
    <3>3. Cardinality(S \cup {r}) =< SessionLimit
      BY <3>1, <3>2, LimitAssumption DEF LimitsRespected, ConversationLimited, Conversation
    <3> QED BY <3>3, <2>3, LimitAssumption
  <2>7. Promise!RoomFor(r, Executing)
    BY <2>4, <2>5, <2>6, SameCardinality
  <2>8. Promise!Admit(r)
    BY <2>1, <2>7 DEF Promise!Admit, Over
  <2> QED BY <2>8 DEF Promise!Next
<1> QED BY <1>1, <1>2

LEMMA StepRefines ==
  IInv /\ LimitsRespected' /\ [Next]_vars => Promise!Next \/ UNCHANGED <<Executing, Over>>
<1> SUFFICES ASSUME IInv, LimitsRespected', [Next]_vars
             PROVE  Promise!Next \/ UNCHANGED <<Executing, Over>>
  OBVIOUS
<1>0. pc \in [Runs -> Gates \cup {"running", "stranded", "done"}]
  BY DEF IInv, TypeOK
<1>1. ASSUME NEW r \in Runs, Pass(r) \/ Acquire(r) \/ Resume(r)
      PROVE  Promise!Next \/ UNCHANGED <<Executing, Over>>
  BY <1>1, EnterRefines DEF Pass, Acquire, Resume, AtSemaphore
<1>2. ASSUME NEW r \in Runs, GetEntry(r) \/ Suspend(r)
      PROVE  UNCHANGED <<Executing, Over>>
  BY <1>2 DEF GetEntry, Suspend, Executing, Over
<1>3. ASSUME NEW r \in Runs, Abandon(r)
      PROVE  Promise!Next
  <2>1. pc[r] \in Gates /\ pc' = [pc EXCEPT ![r] = IF HeldBy(r) = {} THEN "done" ELSE "stranded"]
    BY <1>3 DEF Abandon, AtSemaphore
  <2>2. Executing' = Executing /\ Over' = Over \cup {r} /\ r \notin Executing \cup Over
    BY <2>1, <1>0 DEF Executing, Over, Gates
  <2> QED BY <2>2 DEF Promise!Next, Promise!Refuse, Over
<1>4. ASSUME NEW r \in Runs, Leave(r)
      PROVE  Promise!Next
  <2>1. pc[r] = "running" /\ pc' = [pc EXCEPT ![r] = "done"]
    BY <1>4 DEF Leave
  <2>2. Executing' = Executing \ {r} /\ Over' = Over \cup {r} /\ r \in Executing
    BY <2>1, <1>0 DEF Executing, Over
  <2> QED BY <2>2 DEF Promise!Next, Promise!Finish, Over
<1>5. ASSUME NEW r \in Runs, Finalize(r)
      PROVE  UNCHANGED <<Executing, Over>>
  <2>1. pc[r] = "stranded" /\ (pc' = pc \/ pc' = [pc EXCEPT ![r] = "done"])
    BY ZenonT(40), <1>5, <1>0 DEF Finalize
  <2> QED BY <2>1, <1>0 DEF Executing, Over
<1>6. CASE UNCHANGED vars
  BY <1>6 DEF vars, Executing, Over
<1> QED BY <1>1, <1>2, <1>3, <1>4, <1>5, <1>6 DEF Next, Step

(* RunCoordinator.slots implements the promise of admission.               *)
THEOREM Implementation == Spec => KeepsPromise
<1>1. Init => Promise!Init
  BY DEF Init, Promise!Init, Executing, Gates
<1>2. IInv /\ LimitsRespected' /\ [Next]_vars => [Promise!Next]_(Promise!pvars)
  BY StepRefines DEF Promise!pvars, Over
<1> QED BY <1>1, <1>2, Invariance, AdmissionLimits, PTL DEF Spec, Promise!Spec, KeepsPromise

--------------------------------------------------------------------------------
(***************************************************************************)
(* Approval, the guards and the memory plugin.                             *)
(***************************************************************************)

(* A call that asked for nothing yet has no id, no answer and no request.  *)
NewIsUnasked ==
  \A c \in ToolCalls :
    /\ approval[c] = "new" <=> requestOf[c] = NoId
    /\ approval[c] = "new" => verdict[c] = "none" /\ c \notin atHost

OneCallPerId ==
  \A c, d \in ToolCalls : requestOf[c] = requestOf[d] /\ requestOf[c] # NoId => c = d

(* What a future holds the host has answered.                              *)
FutureIsVerdict == \A c \in ToolCalls : future[c] # "empty" => future[c] = verdict[c]

(* The host answers a request it has taken, which is answered once.        *)
AtHostUnanswered == \A c \in atHost : verdict[c] = "none"

(* What the queue holds: requests not yet taken, and the host's answers.   *)
QueueIsTrue ==
  \A i \in DOMAIN approvalQueue :
    LET item == approvalQueue[i] IN
    /\ item.id = requestOf[item.call]
    /\ item.kind = "request" => verdict[item.call] = "none" /\ item.call \notin atHost
    /\ item.kind \in Answers => verdict[item.call] = item.kind

RequestedOnce ==
  \A i, j \in DOMAIN approvalQueue :
    /\ approvalQueue[i].kind = "request" /\ approvalQueue[j].kind = "request"
    /\ approvalQueue[i].call = approvalQueue[j].call
    => i = j

ApprovalIInv ==
  /\ ApprovalTypeOK /\ AllowedIsApproved
  /\ NewIsUnasked /\ OneCallPerId /\ FutureIsVerdict /\ AtHostUnanswered
  /\ QueueIsTrue /\ RequestedOnce

--------------------------------------------------------------------------------
QueueItems == [kind : Answers \cup {"request"}, id : RequestIds, call : ToolCalls]

LEMMA QueueType ==
  ASSUME ApprovalTypeOK
  PROVE  /\ approvalQueue \in Seq(QueueItems)
         /\ \A i \in DOMAIN approvalQueue : approvalQueue[i] \in QueueItems
<1>1. approvalQueue \in Seq(QueueItems)
  BY DEF ApprovalTypeOK, QueueItems
<1> QED BY <1>1

LEMMA QueueHead ==
  ASSUME ApprovalTypeOK, approvalQueue # <<>>
  PROVE  /\ 1 \in DOMAIN approvalQueue /\ Head(approvalQueue) = approvalQueue[1]
         /\ Head(approvalQueue) \in QueueItems
         /\ Tail(approvalQueue) \in Seq(QueueItems)
         /\ Append(Tail(approvalQueue), Head(approvalQueue)) \in Seq(QueueItems)
<1>1. 1 \in DOMAIN approvalQueue /\ Head(approvalQueue) = approvalQueue[1]
  BY QueueType
<1>2. Head(approvalQueue) \in QueueItems
  BY <1>1, QueueType
<1>3. Tail(approvalQueue) \in Seq(QueueItems)
  BY QueueType
<1> QED BY <1>1, <1>2, <1>3

(* A queue one item longer.                                                *)
LEMMA QueueGrows ==
  ASSUME ApprovalTypeOK, NEW item \in QueueItems
  PROVE  /\ Append(approvalQueue, item) \in Seq(QueueItems)
         /\ \A i \in DOMAIN Append(approvalQueue, item) :
              \/ /\ i \in DOMAIN approvalQueue
                 /\ Append(approvalQueue, item)[i] = approvalQueue[i]
              \/ i = Len(approvalQueue) + 1 /\ Append(approvalQueue, item)[i] = item
BY QueueType

LEMMA ApprovalInitIInv == ApprovalInit => ApprovalIInv
<1> SUFFICES ASSUME ApprovalInit PROVE ApprovalIInv
  OBVIOUS
<1>1. ApprovalTypeOK
  BY DEF ApprovalInit, ApprovalTypeOK
<1>2. AllowedIsApproved /\ NewIsUnasked /\ OneCallPerId /\ FutureIsVerdict /\ AtHostUnanswered
  BY DEF ApprovalInit, AllowedIsApproved, NewIsUnasked, OneCallPerId, FutureIsVerdict,
         AtHostUnanswered
<1>3. QueueIsTrue /\ RequestedOnce
  BY DEF ApprovalInit, QueueIsTrue, RequestedOnce
<1> QED BY <1>1, <1>2, <1>3 DEF ApprovalIInv

(* What the queue holds after its first item was taken.                    *)
LEMMA QueueTail ==
  ASSUME ApprovalIInv, approvalQueue # <<>>, UNCHANGED requestOf,
         UNCHANGED verdict, approvalQueue' = Tail(approvalQueue),
         \/ UNCHANGED atHost
         \/ /\ Head(approvalQueue).kind = "request"
            /\ atHost' = atHost \cup {Head(approvalQueue).call}
  PROVE  QueueIsTrue' /\ RequestedOnce'
<1>1. ASSUME NEW i \in DOMAIN approvalQueue'
      PROVE  /\ i \in Nat /\ i + 1 \in DOMAIN approvalQueue /\ i + 1 # 1 /\ 1 \in DOMAIN approvalQueue
             /\ approvalQueue'[i] = approvalQueue[i + 1]
             /\ Head(approvalQueue) = approvalQueue[1]
  BY QueueType, QueueHead DEF ApprovalIInv
<1>2. QueueIsTrue'
  BY <1>1 DEF ApprovalIInv, QueueIsTrue, RequestedOnce
<1>3. RequestedOnce'
  <2> SUFFICES ASSUME NEW i \in DOMAIN approvalQueue', NEW j \in DOMAIN approvalQueue',
                      approvalQueue'[i].kind = "request", approvalQueue'[j].kind = "request",
                      approvalQueue'[i].call = approvalQueue'[j].call
               PROVE  i = j
    BY DEF RequestedOnce
  <2>1. i + 1 = j + 1 /\ i \in Nat /\ j \in Nat
    BY <1>1 DEF ApprovalIInv, RequestedOnce
  <2> QED BY <2>1
<1> QED BY <1>2, <1>3

(* An item is put back at the end.                                         *)
LEMMA QueueTurns ==
  ASSUME ApprovalIInv, approvalQueue # <<>>, UNCHANGED <<requestOf, atHost, verdict>>,
         approvalQueue' = Append(Tail(approvalQueue), Head(approvalQueue))
  PROVE  QueueIsTrue' /\ RequestedOnce'
<1> DEFINE was(i) == IF i = Len(approvalQueue) THEN 1 ELSE i + 1
<1>1. ASSUME NEW i \in DOMAIN approvalQueue'
      PROVE  /\ i \in 1..Len(approvalQueue) /\ Len(approvalQueue) \in Nat
             /\ was(i) \in DOMAIN approvalQueue
             /\ approvalQueue'[i] = approvalQueue[was(i)]
  BY QueueType, QueueHead DEF ApprovalIInv
<1>2. QueueIsTrue'
  BY <1>1 DEF ApprovalIInv, QueueIsTrue
<1>3. RequestedOnce'
  <2> SUFFICES ASSUME NEW i \in DOMAIN approvalQueue', NEW j \in DOMAIN approvalQueue',
                      approvalQueue'[i].kind = "request", approvalQueue'[j].kind = "request",
                      approvalQueue'[i].call = approvalQueue'[j].call
               PROVE  i = j
    BY DEF RequestedOnce
  <2>1. was(i) = was(j)
    BY <1>1 DEF ApprovalIInv, RequestedOnce
  <2> QED BY <1>1, <2>1
<1> QED BY <1>2, <1>3

(* Only the call whose id it is receives an answer.                        *)
LEMMA OnePending ==
  ASSUME ApprovalIInv, NEW c \in ToolCalls, requestOf[c] # NoId
  PROVE  PendingCalls(requestOf[c]) \subseteq {c}
BY DEF ApprovalIInv, OneCallPerId, PendingCalls

--------------------------------------------------------------------------------
LEMMA RequestIInv ==
  ASSUME ~IdsReused, ApprovalIInv, NEW c \in ToolCalls, RequestApproval(c)
  PROVE  ApprovalIInv'
<1> USE DEF RequestApproval
<1>0. ApprovalTypeOK
  BY DEF ApprovalIInv
<1>1. PICK i \in RequestIds :
        /\ \A d \in ToolCalls : requestOf[d] # i
        /\ requestOf' = [requestOf EXCEPT ![c] = i]
        /\ approvalQueue' = Append(approvalQueue, [kind |-> "request", id |-> i, call |-> c])
  BY DEF IdFree
<1>2. requestOf[c] = NoId /\ verdict[c] = "none" /\ c \notin atHost /\ i # NoId
  BY ApprovalAssumption DEF ApprovalIInv, NewIsUnasked
<1> DEFINE item == [kind |-> "request", id |-> i, call |-> c]
<1>3. ApprovalTypeOK'
  <2>1. item \in QueueItems
    BY DEF QueueItems
  <2>2. approvalQueue' \in Seq(QueueItems)
    BY <1>0, <1>1, <2>1, QueueGrows
  <2> QED BY <1>0, <1>1, <2>2 DEF ApprovalTypeOK, QueueItems
<1>4. AllowedIsApproved' /\ NewIsUnasked' /\ OneCallPerId' /\ FutureIsVerdict' /\ AtHostUnanswered'
  BY <1>0, <1>1, <1>2
     DEF ApprovalIInv, ApprovalTypeOK, AllowedIsApproved, NewIsUnasked, OneCallPerId,
         FutureIsVerdict, AtHostUnanswered
<1>5. ASSUME NEW n \in DOMAIN approvalQueue'
      PROVE  \/ /\ n \in DOMAIN approvalQueue /\ approvalQueue'[n] = approvalQueue[n]
                /\ approvalQueue[n].call \in ToolCalls \ {c}
             \/ n = Len(approvalQueue) + 1 /\ approvalQueue'[n] = item
  <2>1. item \in QueueItems
    BY DEF QueueItems
  <2>2. CASE n \in DOMAIN approvalQueue /\ approvalQueue'[n] = approvalQueue[n]
    <3>1. approvalQueue[n].call \in ToolCalls /\ approvalQueue[n].id \in RequestIds
      BY <1>0, <2>2, QueueType DEF QueueItems
    <3> QED BY <1>2, <2>2, <3>1, ApprovalAssumption DEF ApprovalIInv, QueueIsTrue
  <2> QED BY <1>0, <1>1, <2>1, <2>2, QueueGrows
<1>6. QueueIsTrue'
  BY <1>0, <1>1, <1>2, <1>5 DEF ApprovalIInv, ApprovalTypeOK, QueueIsTrue, Answers
<1>7. RequestedOnce'
  BY <1>5 DEF ApprovalIInv, RequestedOnce
<1> QED BY <1>3, <1>4, <1>6, <1>7 DEF ApprovalIInv

(* The call goes on, and its listener goes round.                          *)
LEMMA CallGoesOnIInv ==
  ASSUME ApprovalIInv, NEW c \in ToolCalls,
         ApprovalResumes(c) \/ ApprovalEndsUnanswered(c) \/ ListenerLoops(c)
  PROVE  ApprovalIInv'
<1> USE DEF ApprovalResumes, ApprovalEndsUnanswered, ListenerLoops
<1>1. ApprovalTypeOK'
  BY DEF ApprovalIInv, ApprovalTypeOK
<1>2. AllowedIsApproved'
  BY DEF ApprovalIInv, ApprovalTypeOK, AllowedIsApproved, FutureIsVerdict
<1>3. NewIsUnasked'
  BY DEF ApprovalIInv, ApprovalTypeOK, NewIsUnasked
<1>4. OneCallPerId' /\ FutureIsVerdict' /\ AtHostUnanswered' /\ QueueIsTrue' /\ RequestedOnce'
  BY DEF ApprovalIInv, OneCallPerId, FutureIsVerdict, AtHostUnanswered, QueueIsTrue, RequestedOnce
<1> QED BY <1>1, <1>2, <1>3, <1>4 DEF ApprovalIInv

LEMMA ListenerTakesIInv ==
  ASSUME ApprovalIInv, NEW c \in ToolCalls, ListenerTakes(c)
  PROVE  ApprovalIInv'
<1> USE DEF ListenerTakes
<1> DEFINE item == Head(approvalQueue)
<1>0. /\ ApprovalTypeOK /\ approvalQueue # <<>> /\ 1 \in DOMAIN approvalQueue
      /\ item = approvalQueue[1]
      /\ item.kind \in Answers \cup {"request"} /\ item.id \in RequestIds /\ item.call \in ToolCalls
      /\ approvalQueue' \in Seq(QueueItems)
  BY QueueHead DEF ApprovalIInv, QueueItems
<1>1. ApprovalTypeOK'
  <2>1. future' \in [ToolCalls -> Answers \cup {"empty"}]
    BY <1>0 DEF ApprovalTypeOK, Settled, IsOwnResponse
  <2>2. listener' \in [ToolCalls -> {"off", "sleeping", "getting"}]
    BY <1>0 DEF ApprovalTypeOK
  <2> QED BY <1>0, <2>1, <2>2 DEF ApprovalTypeOK, QueueItems
<1>2. AllowedIsApproved' /\ NewIsUnasked' /\ OneCallPerId' /\ AtHostUnanswered'
  BY DEF ApprovalIInv, AllowedIsApproved, NewIsUnasked, OneCallPerId, AtHostUnanswered
<1>3. CASE IsOwnResponse(c, item) /\ approvalQueue' = Tail(approvalQueue)
             /\ future' = Settled(PendingCalls(requestOf[c]), item.kind)
  <2>1. item.call = c /\ verdict[c] = item.kind /\ requestOf[c] # NoId
    BY <1>0, <1>3, ApprovalAssumption
       DEF ApprovalIInv, QueueIsTrue, OneCallPerId, IsOwnResponse
  <2>2. FutureIsVerdict'
    BY <1>3, <2>1, OnePending DEF ApprovalIInv, FutureIsVerdict, Settled
  <2>3. QueueIsTrue' /\ RequestedOnce'
    BY <1>0, <1>3, QueueTail
  <2> QED BY <1>1, <1>2, <2>2, <2>3 DEF ApprovalIInv
<1>4. CASE approvalQueue' = Append(Tail(approvalQueue), item) /\ UNCHANGED future
  <2>1. QueueIsTrue' /\ RequestedOnce'
    BY <1>0, <1>4, QueueTurns
  <2>2. FutureIsVerdict'
    BY <1>4 DEF ApprovalIInv, FutureIsVerdict
  <2> QED BY <1>1, <1>2, <2>1, <2>2 DEF ApprovalIInv
<1> QED BY <1>3, <1>4

LEMMA HostTakesIInv ==
  ASSUME ApprovalIInv, HostTakes
  PROVE  ApprovalIInv'
<1> USE DEF HostTakes
<1> DEFINE item == Head(approvalQueue)
<1>0. /\ ApprovalTypeOK /\ approvalQueue # <<>> /\ 1 \in DOMAIN approvalQueue
      /\ item = approvalQueue[1]
      /\ item.kind \in Answers \cup {"request"} /\ item.id \in RequestIds /\ item.call \in ToolCalls
      /\ approvalQueue' \in Seq(QueueItems)
  BY QueueHead DEF ApprovalIInv, QueueItems
<1>1. ApprovalTypeOK'
  BY <1>0 DEF ApprovalTypeOK, QueueItems
<1>2. AllowedIsApproved' /\ OneCallPerId' /\ FutureIsVerdict'
  BY DEF ApprovalIInv, AllowedIsApproved, OneCallPerId, FutureIsVerdict
<1>3. CASE item.kind = "request"
  <2>1. verdict[item.call] = "none" /\ requestOf[item.call] # NoId
    BY <1>0, <1>3, ApprovalAssumption DEF ApprovalIInv, QueueIsTrue
  <2>2. AtHostUnanswered' /\ NewIsUnasked'
    BY <1>0, <1>3, <2>1 DEF ApprovalIInv, AtHostUnanswered, NewIsUnasked
  <2>3. QueueIsTrue' /\ RequestedOnce'
    BY <1>0, <1>3, QueueTail
  <2> QED BY <1>1, <1>2, <2>2, <2>3 DEF ApprovalIInv
<1>4. CASE item.kind # "request"
  <2>1. QueueIsTrue' /\ RequestedOnce'
    BY <1>0, <1>4, QueueTurns
  <2>2. AtHostUnanswered' /\ NewIsUnasked'
    BY <1>4 DEF ApprovalIInv, AtHostUnanswered, NewIsUnasked
  <2> QED BY <1>1, <1>2, <2>1, <2>2 DEF ApprovalIInv
<1> QED BY <1>3, <1>4

(* The verdict of a call that is at the host is new, whichever way it goes.*)
LEMMA VerdictIInv ==
  ASSUME ApprovalIInv, NEW c \in atHost, NEW given \in Answers,
         atHost' = atHost \ {c}, verdict' = [verdict EXCEPT ![c] = given],
         UNCHANGED <<requestOf, approval>>
  PROVE  /\ AllowedIsApproved' /\ NewIsUnasked' /\ OneCallPerId' /\ AtHostUnanswered'
         /\ c \in ToolCalls /\ future[c] = "empty" /\ requestOf[c] # NoId
         /\ \A i \in DOMAIN approvalQueue : approvalQueue[i].call # c
<1>0. ApprovalTypeOK /\ c \in ToolCalls /\ verdict[c] = "none"
  BY DEF ApprovalIInv, ApprovalTypeOK, AtHostUnanswered
<1>1. approval[c] # "allowed" /\ approval[c] # "new" /\ future[c] = "empty" /\ requestOf[c] # NoId
  BY <1>0 DEF ApprovalIInv, AllowedIsApproved, NewIsUnasked, FutureIsVerdict, ApprovalTypeOK, Answers
<1>2. AllowedIsApproved' /\ NewIsUnasked' /\ OneCallPerId' /\ AtHostUnanswered'
  BY <1>0, <1>1
     DEF ApprovalIInv, ApprovalTypeOK, AllowedIsApproved, NewIsUnasked, OneCallPerId,
         AtHostUnanswered
<1>3. ASSUME NEW i \in DOMAIN approvalQueue, approvalQueue[i].call = c
      PROVE  FALSE
  <2>1. approvalQueue[i].kind \in Answers \cup {"request"}
    BY <1>0, QueueType DEF QueueItems
  <2> QED BY <1>0, <1>3, <2>1 DEF ApprovalIInv, QueueIsTrue, Answers
<1> QED BY <1>0, <1>1, <1>2, <1>3

LEMMA HostAnswersIInv ==
  ASSUME ApprovalIInv, NEW c \in ToolCalls, NEW given \in Answers,
         HostAnswers(c, given) \/ HostResolves(c, given)
  PROVE  ApprovalIInv'
<1> USE DEF HostAnswers, HostResolves
<1>0. ApprovalTypeOK
  BY DEF ApprovalIInv
<1>1. /\ AllowedIsApproved' /\ NewIsUnasked' /\ OneCallPerId' /\ AtHostUnanswered'
      /\ future[c] = "empty" /\ requestOf[c] # NoId
      /\ \A i \in DOMAIN approvalQueue : approvalQueue[i].call # c
  BY VerdictIInv
<1>2. CASE HostAnswers(c, given)
  <2> DEFINE item == [kind |-> given, id |-> requestOf[c], call |-> c]
  <2>1. item \in QueueItems
    BY <1>0, <1>1 DEF ApprovalTypeOK, QueueItems
  <2>2. ApprovalTypeOK'
    <3>1. approvalQueue' \in Seq(QueueItems)
      BY <1>0, <1>2, <2>1, QueueGrows
    <3> QED BY <1>0, <1>2, <3>1 DEF ApprovalTypeOK, QueueItems
  <2>3. FutureIsVerdict'
    BY <1>0, <1>1, <1>2 DEF ApprovalIInv, ApprovalTypeOK, FutureIsVerdict
  <2>4. ASSUME NEW n \in DOMAIN approvalQueue'
        PROVE  \/ /\ n \in DOMAIN approvalQueue /\ approvalQueue'[n] = approvalQueue[n]
                  /\ approvalQueue[n].call \in ToolCalls \ {c}
               \/ approvalQueue'[n] = item
    <3>1. n \in DOMAIN approvalQueue => approvalQueue[n].call \in ToolCalls
      BY <1>0, QueueType DEF QueueItems
    <3> QED BY <1>0, <1>1, <1>2, <2>1, <3>1, QueueGrows
  <2>5. QueueIsTrue'
    BY <1>0, <1>2, <2>4 DEF ApprovalIInv, ApprovalTypeOK, QueueIsTrue, Answers
  <2>6. RequestedOnce'
    BY <2>4 DEF ApprovalIInv, RequestedOnce, Answers
  <2> QED BY <1>1, <2>2, <2>3, <2>5, <2>6 DEF ApprovalIInv
<1>3. CASE HostResolves(c, given)
  <2>1. ApprovalTypeOK'
    BY <1>0, <1>3 DEF ApprovalTypeOK, Settled
  <2>2. FutureIsVerdict'
    BY <1>0, <1>1, <1>3, OnePending
       DEF ApprovalIInv, ApprovalTypeOK, FutureIsVerdict, Settled
  <2>3. QueueIsTrue'
    BY <1>0, <1>1, <1>3 DEF ApprovalIInv, ApprovalTypeOK, QueueIsTrue
  <2>4. RequestedOnce'
    BY <1>3 DEF ApprovalIInv, RequestedOnce
  <2> QED BY <1>1, <2>1, <2>2, <2>3, <2>4 DEF ApprovalIInv
<1> QED BY <1>2, <1>3

LEMMA ApprovalNextIInv ==
  ASSUME ~IdsReused, ApprovalIInv, [ApprovalNext]_approvalVars
  PROVE  ApprovalIInv'
<1>1. CASE UNCHANGED approvalVars
  BY <1>1
     DEF approvalVars, ApprovalIInv, ApprovalTypeOK, AllowedIsApproved, NewIsUnasked, OneCallPerId,
         FutureIsVerdict, AtHostUnanswered, QueueIsTrue, RequestedOnce
<1>2. CASE ApprovalNext
  BY <1>2, RequestIInv, CallGoesOnIInv, ListenerTakesIInv, HostTakesIInv, HostAnswersIInv
     DEF ApprovalNext
<1> QED BY <1>1, <1>2

(* The inductive invariant holds while no request id is given out twice.   *)
THEOREM ApprovalInvariance == ASSUME ~IdsReused PROVE ApprovalSpec => []ApprovalIInv
<1>1. ApprovalIInv /\ [ApprovalNext]_approvalVars => ApprovalIInv'
  BY ApprovalNextIInv
<1> QED BY ApprovalInitIInv, <1>1, PTL DEF ApprovalSpec

(* Whatever other listeners and late answers do to the queue they share, a *)
(* call is let through only when the host approved that call.              *)
THEOREM ApprovedOnly == ASSUME ~IdsReused PROVE ApprovalSpec => []AllowedIsApproved
<1>1. ApprovalIInv => AllowedIsApproved
  BY DEF ApprovalIInv
<1> QED BY <1>1, ApprovalInvariance, PTL

--------------------------------------------------------------------------------
(* The order of the guards.                                                *)

Passed == {"ask", "approved", "execute"}

(* The runs whose call of a tool has passed the guards and is to come.     *)
Asking(tool) ==
  {r \in GuardedRuns : turn[r] \in Passed /\ \E call \in asked[r] : call.tool = tool}

AskedIsOne == \A r \in GuardedRuns : turn[r] \in Passed => \E call \in GuardedCall : asked[r] = {call}

(* What a run waits for or executes is what risk_guard let through.        *)
AskedIsJudged ==
  \A r \in GuardedRuns : \A call \in asked[r] :
    /\ turn[r] \in Passed => RiskOf(call) < Blocked
    /\ turn[r] = "execute" => RiskOf(call) < AskLevel

(* Every call executed or to come has its own entry of the history.        *)
HistoryCounts ==
  \A t \in Tools :
    /\ Cardinality(ExecutedOf(t)) + Cardinality(Asking(t)) <= Cardinality(CallsOf(t, toolHistory))
    /\ Cardinality(CallsOf(t, toolHistory)) <= TotalTool

GuardsIInv == GuardsTypeOK /\ AskedIsOne /\ AskedIsJudged /\ HistoryCounts /\ ExecutedAsJudged

LEMMA RiskRange == ASSUME NEW call PROVE RiskOf(call) \in 0..Blocked
<1> DEFINE levels == {0} \cup {r.level : r \in {q \in RiskRules : call \in q.matches}}
<1>1. levels \subseteq 0..3 /\ 0 \in levels
  BY GuardAssumption DEF Blocked
<1>2. \E x \in levels : \A y \in levels : x >= y
  <2>1. CASE 3 \in levels
    BY SMTT(40), <1>1, <2>1
  <2>2. CASE 3 \notin levels /\ 2 \in levels
    BY SMTT(40), <1>1, <2>2
  <2>3. CASE 3 \notin levels /\ 2 \notin levels /\ 1 \in levels
    BY <1>1, <2>3
  <2>4. CASE 3 \notin levels /\ 2 \notin levels /\ 1 \notin levels
    BY <1>1, <2>4
  <2> QED BY <2>1, <2>2, <2>3, <2>4
<1>3. Max(levels) \in levels
  BY <1>2 DEF Max
<1> HIDE DEF levels
<1>4. Max(levels) \in 0..3
  BY <1>1, <1>3
<1> QED BY <1>4 DEF RiskOf, levels, Blocked

(* The sets that are counted are finite, and a longer sequence has one     *)
(* call of its last one's tool more.                                       *)
LEMMA CountsAreFinite ==
  ASSUME GuardsTypeOK, NEW t
  PROVE  /\ IsFiniteSet(CallsOf(t, toolHistory)) /\ Cardinality(CallsOf(t, toolHistory)) \in Nat
         /\ IsFiniteSet(ExecutedOf(t)) /\ Cardinality(ExecutedOf(t)) \in Nat
         /\ IsFiniteSet(Asking(t)) /\ Cardinality(Asking(t)) \in Nat
<1>1. DOMAIN toolHistory = 1..Len(toolHistory) /\ Len(toolHistory) \in Nat
  BY DEF GuardsTypeOK
<1>2. DOMAIN executed = 1..Len(executed) /\ Len(executed) \in Nat
  BY DEF GuardsTypeOK
<1>3. IsFiniteSet(CallsOf(t, toolHistory))
  <2>1. IsFiniteSet(1..Len(toolHistory))
    BY <1>1, FS_Interval
  <2>2. CallsOf(t, toolHistory) \in SUBSET (1..Len(toolHistory))
    BY <1>1 DEF CallsOf
  <2> QED BY <2>1, <2>2, FS_Subset
<1>4. IsFiniteSet(ExecutedOf(t))
  <2>1. IsFiniteSet(1..Len(executed))
    BY <1>2, FS_Interval
  <2>2. ExecutedOf(t) \in SUBSET (1..Len(executed))
    BY <1>2 DEF ExecutedOf
  <2> QED BY <2>1, <2>2, FS_Subset
<1>5. IsFiniteSet(Asking(t))
  BY GuardAssumption, FS_Subset DEF Asking
<1> QED BY <1>3, <1>4, <1>5, FS_CardinalityType

LEMMA HistoryGrows ==
  ASSUME GuardsTypeOK, NEW call \in GuardedCall, NEW t, toolHistory' = Append(toolHistory, call)
  PROVE  Cardinality(CallsOf(t, toolHistory')) =
           Cardinality(CallsOf(t, toolHistory)) + IF call.tool = t THEN 1 ELSE 0
<1> DEFINE new == Len(toolHistory) + 1
<1>1. /\ Len(toolHistory) \in Nat /\ DOMAIN toolHistory = 1..Len(toolHistory)
      /\ DOMAIN toolHistory' = 1..new /\ toolHistory'[new] = call
      /\ \A i \in DOMAIN toolHistory : toolHistory'[i] = toolHistory[i]
  BY DEF GuardsTypeOK
<1>2. new \notin CallsOf(t, toolHistory)
  BY <1>1 DEF CallsOf
<1>3. CASE call.tool = t
  <2>1. CallsOf(t, toolHistory') = CallsOf(t, toolHistory) \cup {new}
    BY <1>1, <1>3 DEF CallsOf
  <2> QED BY ZenonT(40), <1>2, <1>3, <2>1, CountsAreFinite, FS_AddElement
<1>4. CASE call.tool # t
  <2>1. CallsOf(t, toolHistory') = CallsOf(t, toolHistory)
    BY <1>1, <1>4 DEF CallsOf
  <2> QED BY <1>4, <2>1, CountsAreFinite
<1> QED BY <1>3, <1>4

LEMMA ExecutedGrows ==
  ASSUME GuardsTypeOK, NEW call \in GuardedCall, NEW ok \in BOOLEAN, NEW t,
         executed' = Append(executed, [call |-> call, approved |-> ok])
  PROVE  Cardinality(ExecutedOf(t)') =
           Cardinality(ExecutedOf(t)) + IF call.tool = t THEN 1 ELSE 0
<1> DEFINE new == Len(executed) + 1
<1>1. /\ Len(executed) \in Nat /\ DOMAIN executed = 1..Len(executed)
      /\ DOMAIN executed' = 1..new /\ executed'[new].call = call
      /\ \A i \in DOMAIN executed : executed'[i] = executed[i]
  BY DEF GuardsTypeOK
<1>2. new \notin ExecutedOf(t)
  BY <1>1 DEF ExecutedOf
<1>3. CASE call.tool = t
  <2>1. ExecutedOf(t)' = ExecutedOf(t) \cup {new}
    BY <1>1, <1>3 DEF ExecutedOf
  <2> QED BY <1>2, <1>3, <2>1, CountsAreFinite, FS_AddElement
<1>4. CASE call.tool # t
  <2>1. ExecutedOf(t)' = ExecutedOf(t)
    BY <1>1, <1>4 DEF ExecutedOf
  <2> QED BY <1>4, <2>1, CountsAreFinite
<1> QED BY <1>3, <1>4

LEMMA GuardsInitIInv == GuardsInit => GuardsIInv
<1> SUFFICES ASSUME GuardsInit PROVE GuardsIInv
  OBVIOUS
<1>1. GuardsTypeOK
  <2>1. MaxTurns \in Nat
    BY GuardAssumption
  <2>2. rounds \in [GuardedRuns -> 0..MaxTurns]
    BY <2>1 DEF GuardsInit
  <2>3. <<>> \in Seq(GuardedCall) /\ <<>> \in Seq([call : GuardedCall, approved : BOOLEAN])
    OBVIOUS
  <2> QED BY <2>2, <2>3 DEF GuardsInit, GuardsTypeOK
<1>2. AskedIsOne /\ AskedIsJudged
  BY DEF GuardsInit, AskedIsOne, AskedIsJudged, Passed
<1>3. ASSUME NEW t \in Tools
      PROVE  ExecutedOf(t) = {} /\ CallsOf(t, toolHistory) = {} /\ Asking(t) = {}
  BY DEF GuardsInit, ExecutedOf, CallsOf, Asking, Passed
<1>4. Cardinality({}) = 0 /\ TotalTool \in Nat
  BY FS_EmptySet, GuardAssumption
<1>5. HistoryCounts
  BY <1>3, <1>4 DEF HistoryCounts
<1>6. ExecutedAsJudged
  BY <1>3, <1>4 DEF ExecutedAsJudged, GuardsInit
<1> QED BY <1>1, <1>2, <1>5, <1>6 DEF GuardsIInv

(* A step that neither judges nor executes a call: no run comes to pass    *)
(* the guards by it.                                                       *)
LEMMA OtherTurnIInv ==
  ASSUME GuardsIInv, NEW r \in GuardedRuns,
         \/ StartTurn(r) \/ HumanDecides(r) \/ GuardRoundEnds(r) \/ AnswerEnds(r) \/ NextRun(r)
  PROVE  GuardsIInv'
<1> USE DEF StartTurn, HumanDecides, GuardRoundEnds, AnswerEnds, NextRun
<1>0. GuardsTypeOK /\ UNCHANGED <<toolHistory, executed>>
  BY DEF GuardsIInv
<1>1. GuardsTypeOK'
  <2>1. MaxTurns \in Nat
    BY GuardAssumption
  <2>2. rounds' \in [GuardedRuns -> 0..MaxTurns]
    <3>1. \A s \in GuardedRuns : rounds[s] \in 0..MaxTurns
      BY <1>0 DEF GuardsTypeOK
    <3>2. CASE StartTurn(r) /\ ~UNCHANGED rounds
      <4>1. rounds[r] < MaxTurns /\ rounds' = [rounds EXCEPT ![r] = @ + 1]
        BY <3>2
      <4>2. rounds[r] + 1 \in 0..MaxTurns
        BY <2>1, <3>1, <4>1
      <4> QED BY <1>0, <4>1, <4>2 DEF GuardsTypeOK
    <3>3. CASE UNCHANGED rounds
      BY <1>0, <3>3 DEF GuardsTypeOK
    <3> QED BY <3>2, <3>3
  <2>3. turn' \in [GuardedRuns -> {"check", "think", "ask", "approved", "execute", "round_end", "ended"}]
    BY <1>0 DEF GuardsTypeOK
  <2>4. asked' \in [GuardedRuns -> SUBSET GuardedCall] /\ shouldStop' \in BOOLEAN
    BY <1>0 DEF GuardsTypeOK
  <2> QED BY <1>0, <2>2, <2>3, <2>4 DEF GuardsTypeOK
<1>2. \A s \in GuardedRuns :
        turn'[s] \in Passed =>
          /\ turn[s] \in Passed /\ asked'[s] = asked[s]
          /\ turn'[s] = "execute" => turn[s] = "execute"
  BY <1>0 DEF GuardsTypeOK, Passed
<1>3. AskedIsOne' /\ AskedIsJudged'
  BY <1>0, <1>2 DEF GuardsIInv, AskedIsOne, AskedIsJudged, Passed, RiskOf
<1>4. ASSUME NEW t \in Tools
      PROVE  /\ CallsOf(t, toolHistory)' = CallsOf(t, toolHistory) /\ ExecutedOf(t)' = ExecutedOf(t)
             /\ Cardinality(Asking(t)') <= Cardinality(Asking(t)) /\ Cardinality(Asking(t)') \in Nat
  <2>1. Asking(t)' \subseteq Asking(t)
    BY <1>2 DEF Asking
  <2> QED BY <1>0, <1>1, <2>1, CountsAreFinite, FS_Subset, FS_CardinalityType DEF CallsOf, ExecutedOf
<1>5. HistoryCounts'
  BY <1>0, <1>4, CountsAreFinite, GuardAssumption DEF GuardsIInv, HistoryCounts
<1>6. ExecutedAsJudged'
  BY <1>0, <1>4 DEF GuardsIInv, ExecutedAsJudged
<1> QED BY <1>1, <1>3, <1>5, <1>6 DEF GuardsIInv

(* apply_pre_tool_call: what passes has an entry of its own.               *)
LEMMA GuardCallIInv ==
  ASSUME GuardsIInv, NEW r \in GuardedRuns, NEW call \in GuardedCall, GuardCall(r, call)
  PROVE  GuardsIInv'
<1>0. GuardsTypeOK /\ turn[r] = "think" /\ UNCHANGED <<rounds, executed>>
  BY DEF GuardsIInv, GuardCall
<1>1. CASE /\ turn' = [turn EXCEPT ![r] = "round_end"] /\ UNCHANGED <<toolHistory, asked>>
           /\ shouldStop' \in {shouldStop, TRUE}
  <2>1. GuardsTypeOK'
    BY <1>0, <1>1 DEF GuardsTypeOK
  <2>2. \A s \in GuardedRuns : turn'[s] \in Passed => turn'[s] = turn[s]
    BY <1>0, <1>1 DEF GuardsTypeOK, Passed
  <2>3. AskedIsOne' /\ AskedIsJudged'
    BY <1>1, <2>2 DEF GuardsIInv, AskedIsOne, AskedIsJudged, RiskOf, Passed
  <2>4. \A t \in Tools :
          /\ CallsOf(t, toolHistory)' = CallsOf(t, toolHistory) /\ ExecutedOf(t)' = ExecutedOf(t)
          /\ Asking(t)' = Asking(t)
    BY <1>0, <1>1, <2>2 DEF GuardsTypeOK, CallsOf, ExecutedOf, Asking, Passed
  <2>5. HistoryCounts' /\ ExecutedAsJudged'
    BY <1>0, <2>4 DEF GuardsIInv, HistoryCounts, ExecutedAsJudged, RiskOf
  <2> QED BY <2>1, <2>3, <2>5 DEF GuardsIInv
<1>2. CASE \E passed \in Hooked(call) : ~Repeated(passed) /\ toolHistory' = Append(toolHistory, passed)
  <2>1. PICK passed \in GuardedCall :
          /\ ~Repeated(passed) /\ toolHistory' = Append(toolHistory, passed)
          /\ turn' = [turn EXCEPT ![r] = IF RiskOf(passed) = Blocked THEN "round_end"
                                        ELSE IF RiskOf(passed) >= AskLevel THEN "ask"
                                        ELSE "execute"]
          /\ asked' = [asked EXCEPT ![r] = {passed}] /\ UNCHANGED shouldStop
    <3>1. Hooked(call) \subseteq GuardedCall
      BY Zenon DEF Hooked
    <3>2. toolHistory' # toolHistory
      BY <1>0, <1>2, <3>1 DEF GuardsTypeOK
    <3> QED BY <3>1, <3>2 DEF GuardCall, Judged
  <2>2. RiskOf(passed) \in 0..Blocked /\ AskLevel \in Nat /\ TotalTool \in Nat
    BY RiskRange, GuardAssumption
  <2>3. GuardsTypeOK'
    <3>1. turn' \in [GuardedRuns -> {"check", "think", "ask", "approved", "execute", "round_end", "ended"}]
      BY <1>0, <2>1 DEF GuardsTypeOK
    <3>2. asked' \in [GuardedRuns -> SUBSET GuardedCall] /\ toolHistory' \in Seq(GuardedCall)
      BY <1>0, <2>1 DEF GuardsTypeOK
    <3> QED BY <1>0, <2>1, <3>1, <3>2 DEF GuardsTypeOK
  <2>4. /\ asked'[r] = {passed}
        /\ turn'[r] \in Passed => RiskOf(passed) < Blocked
        /\ turn'[r] = "execute" => RiskOf(passed) < AskLevel
        /\ \A s \in GuardedRuns \ {r} : turn'[s] = turn[s] /\ asked'[s] = asked[s]
    BY <1>0, <2>1, <2>2 DEF GuardsTypeOK, Passed, Blocked
  <2>5. AskedIsOne' /\ AskedIsJudged'
    BY <2>1, <2>4 DEF GuardsIInv, AskedIsOne, AskedIsJudged
  <2>6. ASSUME NEW t \in Tools
        PROVE  /\ Cardinality(ExecutedOf(t)') + Cardinality(Asking(t)') <= Cardinality(CallsOf(t, toolHistory'))
               /\ Cardinality(CallsOf(t, toolHistory')) <= TotalTool
               /\ ExecutedOf(t)' = ExecutedOf(t)
    <3>1. ExecutedOf(t)' = ExecutedOf(t)
      BY <1>0 DEF ExecutedOf
    <3>2. Cardinality(CallsOf(t, toolHistory')) =
            Cardinality(CallsOf(t, toolHistory)) + IF passed.tool = t THEN 1 ELSE 0
      BY <1>0, <2>1, HistoryGrows
    <3>3. Asking(t)' \subseteq Asking(t) \cup (IF passed.tool = t THEN {r} ELSE {})
      BY <2>4 DEF Asking
    <3>4. /\ Cardinality(Asking(t)') \in Nat
          /\ Cardinality(Asking(t)') <= Cardinality(Asking(t)) + (IF passed.tool = t THEN 1 ELSE 0)
      <4>0. IsFiniteSet(Asking(t)) /\ Cardinality(Asking(t)) \in Nat
        BY <1>0, CountsAreFinite
      <4>1. CASE passed.tool = t
        <5>1. IsFiniteSet(Asking(t) \cup {r})
          BY <4>0, FS_AddElement
        <5>2. Cardinality(Asking(t) \cup {r}) <= Cardinality(Asking(t)) + 1
          <6>1. Cardinality(Asking(t) \cup {r}) =
                  IF r \in Asking(t) THEN Cardinality(Asking(t)) ELSE Cardinality(Asking(t)) + 1
            BY <4>0, FS_AddElement, Zenon
          <6> QED BY <4>0, <6>1
        <5>3. Asking(t)' \in SUBSET (Asking(t) \cup {r})
          BY <3>3, <4>1
        <5>4. IsFiniteSet(Asking(t)') /\ Cardinality(Asking(t)') <= Cardinality(Asking(t) \cup {r})
          BY <5>1, <5>3, FS_Subset
        <5>5. Cardinality(Asking(t)') \in Nat /\ Cardinality(Asking(t) \cup {r}) \in Nat
          BY <5>1, <5>4, FS_CardinalityType
        <5> QED BY <4>0, <4>1, <5>2, <5>4, <5>5
      <4>2. CASE passed.tool # t
        <5>1. Asking(t)' \in SUBSET Asking(t)
          BY <3>3, <4>2
        <5>2. IsFiniteSet(Asking(t)') /\ Cardinality(Asking(t)') <= Cardinality(Asking(t))
          BY <4>0, <5>1, FS_Subset
        <5>3. Cardinality(Asking(t)') \in Nat
          BY <5>2, FS_CardinalityType
        <5> QED BY <4>0, <4>2, <5>2, <5>3
      <4> QED BY <4>1, <4>2
    <3>5. passed.tool = t => Cardinality(CallsOf(t, toolHistory)) < TotalTool
      <4>1. ~(Cardinality(CallsOf(passed.tool, toolHistory)) >= TotalTool)
        BY <2>1 DEF Repeated
      <4>2. Cardinality(CallsOf(passed.tool, toolHistory)) \in Nat
        BY <1>0, CountsAreFinite
      <4> QED BY <2>2, <4>1, <4>2
    <3>6. /\ Cardinality(ExecutedOf(t)) + Cardinality(Asking(t)) <= Cardinality(CallsOf(t, toolHistory))
          /\ Cardinality(CallsOf(t, toolHistory)) <= TotalTool
      BY DEF GuardsIInv, HistoryCounts
    <3>7. /\ Cardinality(ExecutedOf(t)) \in Nat /\ Cardinality(Asking(t)) \in Nat
          /\ Cardinality(CallsOf(t, toolHistory)) \in Nat
      BY <1>0, CountsAreFinite
    <3> QED BY <2>2, <3>1, <3>2, <3>4, <3>5, <3>6, <3>7
  <2>7. HistoryCounts'
    BY <2>6 DEF HistoryCounts
  <2>8. ExecutedAsJudged'
    BY <1>0, <2>6 DEF GuardsIInv, ExecutedAsJudged, RiskOf
  <2> QED BY <2>3, <2>5, <2>7, <2>8 DEF GuardsIInv
<1> QED BY <1>1, <1>2 DEF GuardCall

LEMMA ExecuteCallIInv ==
  ASSUME GuardsIInv, NEW r \in GuardedRuns, ExecuteCall(r)
  PROVE  GuardsIInv'
<1>0. GuardsTypeOK /\ turn[r] \in Passed /\ UNCHANGED <<toolHistory, asked, rounds>>
  BY DEF GuardsIInv, ExecuteCall, Passed
<1>1. PICK call \in GuardedCall : asked[r] = {call}
  BY <1>0 DEF GuardsIInv, AskedIsOne
<1> DEFINE ok == turn[r] = "approved"
<1>2. /\ executed' = Append(executed, [call |-> call, approved |-> ok])
      /\ turn' = [turn EXCEPT ![r] = "round_end"] /\ shouldStop' \in {shouldStop, TRUE}
      /\ turn[r] \in {"execute", "approved"}
  BY <1>1 DEF ExecuteCall
<1>3. GuardsTypeOK'
  <2>1. [call |-> call, approved |-> ok] \in [call : GuardedCall, approved : BOOLEAN]
    OBVIOUS
  <2>2. executed' \in Seq([call : GuardedCall, approved : BOOLEAN])
    BY <1>0, <1>2, <2>1 DEF GuardsTypeOK
  <2> QED BY <1>0, <1>2, <2>2 DEF GuardsTypeOK
<1>4. \A s \in GuardedRuns : turn'[s] \in Passed => turn'[s] = turn[s] /\ s # r
  BY <1>0, <1>2 DEF GuardsTypeOK, Passed
<1>5. AskedIsOne' /\ AskedIsJudged'
  BY <1>0, <1>4 DEF GuardsIInv, AskedIsOne, AskedIsJudged, RiskOf, Passed
<1>6. RiskOf(call) < Blocked /\ (RiskOf(call) >= AskLevel => ok)
  <2>1. RiskOf(call) \in 0..Blocked /\ AskLevel \in Nat
    BY RiskRange, GuardAssumption
  <2> QED BY <1>0, <1>1, <1>2, <2>1 DEF GuardsIInv, AskedIsJudged
<1>7. ASSUME NEW t \in Tools
      PROVE  /\ Cardinality(ExecutedOf(t)') + Cardinality(Asking(t)') <= Cardinality(CallsOf(t, toolHistory'))
             /\ Cardinality(CallsOf(t, toolHistory')) <= TotalTool
             /\ Cardinality(ExecutedOf(t)') <= TotalTool
  <2>1. CallsOf(t, toolHistory') = CallsOf(t, toolHistory)
    BY <1>0 DEF CallsOf
  <2>2. Cardinality(ExecutedOf(t)') = Cardinality(ExecutedOf(t)) + IF call.tool = t THEN 1 ELSE 0
    BY <1>0, <1>2, ExecutedGrows
  <2>3. Cardinality(Asking(t)') = Cardinality(Asking(t)) - IF call.tool = t THEN 1 ELSE 0
    <3>1. CASE call.tool = t
      <4>1. r \in Asking(t) /\ Asking(t)' = Asking(t) \ {r}
        BY <1>0, <1>1, <1>2, <1>4, <3>1 DEF Asking, GuardsTypeOK
      <4>2. IsFiniteSet(Asking(t)) /\ Cardinality(Asking(t)) \in Nat
        BY <1>0, CountsAreFinite
      <4>3. Cardinality(Asking(t) \ {r}) = Cardinality(Asking(t)) - 1
        BY <4>1, <4>2, FS_RemoveElement
      <4> QED BY <3>1, <4>1, <4>3
    <3>2. CASE call.tool # t
      <4>1. Asking(t)' = Asking(t)
        BY <1>0, <1>1, <1>2, <1>4, <3>2 DEF Asking, GuardsTypeOK
      <4> QED BY <1>0, <3>2, <4>1, CountsAreFinite
    <3> QED BY <3>1, <3>2
  <2>4. TotalTool \in Nat
    BY GuardAssumption
  <2>5. /\ Cardinality(ExecutedOf(t)) + Cardinality(Asking(t)) <= Cardinality(CallsOf(t, toolHistory))
        /\ Cardinality(CallsOf(t, toolHistory)) <= TotalTool
    BY DEF GuardsIInv, HistoryCounts
  <2>6. /\ Cardinality(ExecutedOf(t)) \in Nat /\ Cardinality(Asking(t)) \in Nat
        /\ Cardinality(CallsOf(t, toolHistory)) \in Nat
    BY <1>0, CountsAreFinite
  <2>7. Cardinality(Asking(t)') >= 0
    <3>1. Asking(t)' \in SUBSET Asking(t)
      BY <1>0, <1>4 DEF Asking
    <3>2. IsFiniteSet(Asking(t)')
      BY <1>0, <3>1, CountsAreFinite, FS_Subset
    <3> QED BY <3>2, FS_CardinalityType
  <2> QED BY <2>1, <2>2, <2>3, <2>4, <2>5, <2>6, <2>7
<1>8. HistoryCounts'
  BY <1>7 DEF HistoryCounts
<1>9. ExecutedAsJudged'
  <2>1. ASSUME NEW i \in DOMAIN executed'
        PROVE  \/ i \in DOMAIN executed /\ executed'[i] = executed[i]
               \/ executed'[i].call = call /\ executed'[i].approved = ok
    BY <1>0, <1>2 DEF GuardsTypeOK
  <2>2. ASSUME NEW i \in DOMAIN executed'
        PROVE  /\ RiskOf(executed'[i].call) < Blocked
               /\ RiskOf(executed'[i].call) >= AskLevel => executed'[i].approved
    BY <1>6, <2>1 DEF GuardsIInv, ExecutedAsJudged
  <2> QED BY <1>7, <2>2 DEF ExecutedAsJudged
<1> QED BY <1>3, <1>5, <1>8, <1>9 DEF GuardsIInv

LEMMA GuardsNextIInv ==
  ASSUME GuardsIInv, [GuardsNext]_guardVars
  PROVE  GuardsIInv'
<1>1. CASE UNCHANGED guardVars
  BY <1>1 DEF guardVars, GuardsIInv, GuardsTypeOK, AskedIsOne, AskedIsJudged, HistoryCounts,
              ExecutedAsJudged, Passed, Asking, CallsOf, ExecutedOf, RiskOf
<1>2. CASE GuardsNext
  BY <1>2, OtherTurnIInv, GuardCallIInv, ExecuteCallIInv DEF GuardsNext
<1> QED BY <1>1, <1>2

(* The inductive invariant of the guards holds in every reachable state.   *)
THEOREM GuardsInvariance == GuardsSpec => []GuardsIInv
<1>1. GuardsIInv /\ [GuardsNext]_guardVars => GuardsIInv'
  BY GuardsNextIInv
<1> QED BY GuardsInitIInv, <1>1, PTL DEF GuardsSpec

(* Whatever hooks make of the arguments and however runs of the agent      *)
(* overlap, what is executed is what was judged: no blocked call, none at  *)
(* or above the threshold without an approval, and no tool more often than *)
(* its limit over all runs.                                                *)
THEOREM OnlyJudgedExecuted == GuardsSpec => []ExecutedAsJudged
<1>1. GuardsIInv => ExecutedAsJudged
  BY DEF GuardsIInv
<1> QED BY <1>1, GuardsInvariance, PTL

--------------------------------------------------------------------------------
(* The memory plugin of an agent that serves one scope in one process.     *)

(* No run has begun: there is no memory yet.                               *)
NothingLoaded ==
  /\ \A u \in MemUsers : userPhase[u] = "new"
  /\ working = {} /\ cached = {} /\ persisting = {}
  /\ \A s \in MemScopes : kv[s] = {}

(* The working memories, the cached ones and the stored ones are the same. *)
ScopeLoaded ==
  \A s \in MemScopes :
    active = s /\ s \in cached /\ scopeCache[s] = working /\ kv[s] = working

MemoryIInv == MemoryTypeOK /\ restarts = 0 /\ (NothingLoaded \/ ScopeLoaded)

OneScope == \A s, t \in MemScopes : s = t

LEMMA MemoryInitIInv == MemoryInit => MemoryIInv
BY MemoryAssumption DEF MemoryInit, MemoryIInv, MemoryTypeOK, NothingLoaded, Phases, view

(* A handler of a run whose scope is loaded: it leaves the three the same. *)
LEMMA HandlerIInv ==
  ASSUME OneScope, MemoryIInv, NEW u \in MemUsers,
         \/ OnExecutionStart(u) \/ AskModel(u) \/ ExtractionEnds(u) \/ OnExecutionEnd(u)
         \/ ToolSearch(u)
         \/ \E f \in Facts : AddMessage(u, f) \/ ExtractFact(u, f) \/ ToolAdd(u, f)
         \/ \E m \in Memories : ToolDelete(u, m)
  PROVE  MemoryIInv'
<1> DEFINE s == ScopeOfUser[u]
<1>0. MemoryTypeOK /\ s \in MemScopes /\ UNCHANGED restarts
  BY MemoryAssumption
     DEF MemoryIInv, OnExecutionStart, AskModel, ExtractionEnds, OnExecutionEnd, ToolSearch,
         AddMessage, ExtractFact, ToolAdd, ToolDelete
<1>1. ScopeLoaded /\ userPhase[u] # "new"
  BY DEF MemoryIInv, NothingLoaded, OnExecutionStart, AskModel, ExtractionEnds, OnExecutionEnd,
         ToolSearch, AddMessage, ExtractFact, ToolAdd, ToolDelete
<1>2. /\ active = s /\ s \in cached /\ scopeCache[s] = working /\ kv[s] = working
      /\ \A load \in Loads(s) : load = [ms |-> working, ok |-> TRUE] /\ load.ms = working
  BY <1>0, <1>1 DEF ScopeLoaded, Loads
<1>3. ASSUME NEW ms \in SUBSET Memories, WorkOn(s, ms), kv' = [kv EXCEPT ![s] = ms],
             userPhase' \in [MemUsers -> Phases], shown' \in [MemUsers -> SUBSET Memories],
             UNCHANGED persisting
      PROVE  MemoryIInv'
  BY <1>0, <1>3 DEF MemoryIInv, MemoryTypeOK, ScopeLoaded, WorkOn, OneScope
<1>4. ASSUME UNCHANGED <<view, kv, persisting>>, userPhase' \in [MemUsers -> Phases],
             shown' \in [MemUsers -> SUBSET Memories]
      PROVE  MemoryIInv'
  BY <1>0, <1>1, <1>4 DEF MemoryIInv, MemoryTypeOK, ScopeLoaded, view
<1>5. ASSUME NEW f \in Facts, AddMemory(s, f, s, working), UNCHANGED <<userPhase, persisting, shown>>
      PROVE  MemoryIInv'
  <2> DEFINE same == {m \in working : m.fact = f}
             new == IF same = {} THEN {[fact |-> f, owner |-> s]} ELSE same
  <2>1. PICK V \in Victims(working \cup new) :
          /\ WorkOn(s, (working \cup new) \ V)
          /\ kv' = [kv EXCEPT ![s] = (@ \ V) \cup (new \ V)]
    BY <1>5, Zenon DEF AddMemory
  <2>2. new \subseteq Memories /\ working \subseteq Memories
    BY <1>0 DEF MemoryTypeOK, Memories
  <2> HIDE DEF new
  <2>3. kv' = [kv EXCEPT ![s] = (working \cup new) \ V]
    BY <1>0, <1>2, <2>1 DEF MemoryTypeOK
  <2> QED BY ZenonT(40), <1>0, <1>3, <1>5, <2>1, <2>2, <2>3 DEF MemoryTypeOK
<1>6. CASE AskModel(u) \/ ExtractionEnds(u)
  BY <1>0, <1>4, <1>6 DEF AskModel, ExtractionEnds, To, MemoryTypeOK, Phases
<1>7. CASE OnExecutionStart(u)
  <2>1. WorkOn(s, working) /\ UNCHANGED <<kv, persisting, shown>>
    BY <1>2, <1>7 DEF OnExecutionStart, Load
  <2>2. userPhase' \in [MemUsers -> Phases]
    BY <1>0, <1>7 DEF OnExecutionStart, To, MemoryTypeOK, Phases
  <2>3. kv' = [kv EXCEPT ![s] = working]
    BY <1>0, <1>2, <2>1 DEF MemoryTypeOK
  <2> QED BY <1>0, <1>3, <2>1, <2>2, <2>3 DEF MemoryTypeOK
<1>8. CASE OnExecutionEnd(u)
  <2>0. userPhase' \in [MemUsers -> Phases] /\ shown' \in [MemUsers -> SUBSET Memories]
        /\ UNCHANGED persisting
    BY <1>0, <1>8 DEF OnExecutionEnd, To, MemoryTypeOK, Phases
  <2>1. PICK old \in SUBSET working :
          IF old = {} THEN UNCHANGED <<view, kv>>
          ELSE WorkOn(active, working \ old) /\ kv' = [kv EXCEPT ![s] = @ \ old]
    BY <1>8 DEF OnExecutionEnd
  <2>2. CASE old = {}
    BY <1>4, <2>0, <2>1, <2>2 DEF view
  <2>3. CASE old # {}
    <3>1. WorkOn(s, working \ old) /\ kv' = [kv EXCEPT ![s] = working \ old]
      BY <1>0, <1>2, <2>1, <2>3 DEF MemoryTypeOK
    <3>2. working \ old \in SUBSET Memories
      BY <1>0 DEF MemoryTypeOK
    <3> QED BY <1>3, <2>0, <3>1, <3>2
  <2> QED BY <2>2, <2>3
<1>9. CASE ToolSearch(u)
  <2>1. PICK R \in Retrieved(working) :
          /\ WorkOn(s, working)
          /\ shown' = [shown EXCEPT ![u] = R] /\ kv' = [kv EXCEPT ![s] = @ \cup R]
    <3>1. PICK load \in Loads(s) :
            \E R \in Retrieved(load.ms) :
              /\ WorkOn(s, load.ms)
              /\ shown' = [shown EXCEPT ![u] = R] /\ kv' = [kv EXCEPT ![s] = @ \cup R]
      BY <1>9, Zenon DEF ToolSearch
    <3>2. load.ms = working
      BY <1>2
    <3> QED BY <3>1, <3>2
  <2>2. R \subseteq working /\ UNCHANGED <<userPhase, persisting>>
    BY <1>9 DEF Retrieved, ToolSearch
  <2>3. kv' = [kv EXCEPT ![s] = working]
    BY <1>0, <1>2, <2>1, <2>2 DEF MemoryTypeOK
  <2> QED BY <1>0, <1>3, <2>1, <2>2, <2>3 DEF MemoryTypeOK
<1>10. CASE \E f \in Facts : AddMessage(u, f) \/ ExtractFact(u, f)
  BY <1>2, <1>5, <1>10 DEF AddMessage, ExtractFact
<1>11. ASSUME Load(s, [ms |-> working, ok |-> TRUE]), UNCHANGED <<kv, userPhase, persisting, shown>>
       PROVE  MemoryIInv'
  <2>1. WorkOn(s, working) /\ kv' = [kv EXCEPT ![s] = working]
    BY <1>0, <1>2, <1>11 DEF Load, MemoryTypeOK
  <2> QED BY <1>0, <1>3, <1>11, <2>1 DEF MemoryTypeOK
<1>12. CASE \E f \in Facts : ToolAdd(u, f)
  <2>1. PICK f \in Facts : ToolAdd(u, f)
    BY <1>12
  <2>2. PICK load \in Loads(s) :
          IF \E m \in load.ms : m.fact = f
            THEN Load(s, load) /\ UNCHANGED kv ELSE AddMemory(s, f, s, load.ms)
    BY <2>1, Zenon DEF ToolAdd
  <2>3. load = [ms |-> working, ok |-> TRUE] /\ load.ms = working
    BY <1>2
  <2>4. (Load(s, [ms |-> working, ok |-> TRUE]) /\ UNCHANGED kv) \/ AddMemory(s, f, s, working)
    BY <2>2, <2>3
  <2>5. UNCHANGED <<userPhase, persisting, shown>>
    BY <2>1 DEF ToolAdd
  <2> QED BY <1>5, <1>11, <2>4, <2>5
<1>13. CASE \E m \in Memories : ToolDelete(u, m)
  <2>1. PICK m \in Memories :
          /\ UNCHANGED <<userPhase, persisting, shown>>
          /\ IF m \notin working THEN Load(s, [ms |-> working, ok |-> TRUE]) /\ UNCHANGED kv
             ELSE WorkOn(s, working \ {m}) /\ kv' = [kv EXCEPT ![s] = @ \ {m}]
    <3>1. PICK m \in Memories : ToolDelete(u, m)
      BY <1>13
    <3>2. PICK load \in Loads(s) :
            IF m \notin load.ms THEN Load(s, load) /\ UNCHANGED kv
            ELSE WorkOn(s, load.ms \ {m}) /\ kv' = [kv EXCEPT ![s] = @ \ {m}]
      BY <3>1, Zenon DEF ToolDelete
    <3>3. load = [ms |-> working, ok |-> TRUE] /\ load.ms = working
      BY <1>2
    <3> QED BY <3>1, <3>2, <3>3 DEF ToolDelete
  <2>2. CASE m \in working
    <3>1. kv' = [kv EXCEPT ![s] = working \ {m}]
      BY <1>0, <1>2, <2>1, <2>2 DEF MemoryTypeOK
    <3> QED BY <1>0, <1>3, <2>1, <2>2, <3>1 DEF MemoryTypeOK
  <2> QED BY <1>11, <2>1, <2>2
<1> QED BY <1>6, <1>7, <1>8, <1>9, <1>10, <1>12, <1>13

(* The first context a run is given has no memories, or those of the scope.*)
LEMMA InjectIInv ==
  ASSUME OneScope, MemoryIInv, NEW u \in MemUsers, InjectContext(u)
  PROVE  MemoryIInv'
<1> DEFINE s == ScopeOfUser[u]
<1>0. MemoryTypeOK /\ s \in MemScopes /\ WorkOn(s, working) /\ UNCHANGED <<kv, restarts>>
  BY MemoryAssumption DEF MemoryIInv, InjectContext
<1>1. kv[s] = working
  BY <1>0 DEF MemoryIInv, NothingLoaded, ScopeLoaded
<1>2. ScopeLoaded'
  BY <1>0, <1>1 DEF ScopeLoaded, WorkOn, OneScope, MemoryTypeOK
<1>3. PICK R \in Retrieved(working) :
        /\ shown' = [shown EXCEPT ![u] = R]
        /\ persisting' = IF R = {} THEN persisting
                         ELSE persisting \cup {[scope |-> s, ids |-> R]}
  BY DEF InjectContext
<1>4. MemoryTypeOK'
  <2>1. R \subseteq Memories /\ userPhase' \in [MemUsers -> Phases]
    BY <1>0, <1>3 DEF Retrieved, MemoryTypeOK, InjectContext, To, Phases
  <2>2. shown' \in [MemUsers -> SUBSET Memories]
    BY <1>0, <1>3, <2>1 DEF MemoryTypeOK
  <2>3. [scope |-> s, ids |-> R] \in [scope : MemScopes, ids : SUBSET Memories]
    BY <1>0, <2>1
  <2>4. persisting' \subseteq [scope : MemScopes, ids : SUBSET Memories]
    BY <1>0, <1>3, <2>3 DEF MemoryTypeOK
  <2>5. /\ active' \in MemScopes \cup {NoScope} /\ working' \subseteq Memories
        /\ cached' \subseteq MemScopes \cup {NoScope}
        /\ scopeCache' \in [MemScopes \cup {NoScope} -> SUBSET Memories]
        /\ kv' \in [MemScopes -> SUBSET Memories]
    BY <1>0 DEF MemoryTypeOK, WorkOn
  <2> QED BY <2>1, <2>2, <2>4, <2>5 DEF MemoryTypeOK
<1> QED BY <1>0, <1>2, <1>4 DEF MemoryIInv

LEMMA MemoryNextIInv ==
  ASSUME OneScope, MaxRestarts = 0, MemoryIInv, [MemoryNext]_memVars
  PROVE  MemoryIInv'
<1>1. CASE UNCHANGED memVars
  BY <1>1 DEF memVars, view, MemoryIInv, MemoryTypeOK, NothingLoaded, ScopeLoaded
<1>2. CASE \E task \in persisting : PersistTask(task)
  <2>1. PICK task \in persisting : PersistTask(task)
    BY <1>2
  <2>2. /\ MemoryTypeOK /\ task.scope \in MemScopes /\ ScopeLoaded
        /\ kv[task.scope] \cup Touched(task) = kv[task.scope]
    BY <2>1 DEF MemoryIInv, MemoryTypeOK, NothingLoaded, ScopeLoaded, Touched
  <2>3. UNCHANGED kv
    BY <2>1, <2>2 DEF PersistTask, MemoryTypeOK
  <2> QED BY <2>1, <2>2, <2>3 DEF PersistTask, MemoryIInv, MemoryTypeOK, ScopeLoaded, view
<1>3. CASE Restart
  BY <1>3 DEF Restart, MemoryIInv
<1> QED BY <1>1, <1>2, <1>3, HandlerIInv, InjectIInv DEF MemoryNext

(* In a process that serves one scope, what the plugin keeps is what the   *)
(* store holds, whatever is merged, ages or is removed to make room, and   *)
(* however its runs overlap.                                               *)
THEOREM CacheMatchesStore ==
  ASSUME OneScope, MaxRestarts = 0 PROVE MemorySpec => []CacheIsStored
<1>1. MemoryIInv /\ [MemoryNext]_memVars => MemoryIInv'
  BY MemoryNextIInv
<1>2. MemoryIInv => CacheIsStored
  BY DEF MemoryIInv, NothingLoaded, ScopeLoaded, CacheIsStored
<1> QED BY MemoryInitIInv, <1>1, <1>2, PTL DEF MemorySpec

--------------------------------------------------------------------------------
(***************************************************************************)
(* knowledge: the local index, once ready, holds every local document, and *)
(* only the run that has the lock builds it.                               *)
(***************************************************************************)

Searches == [phase : {"start", "waiting", "mounting", "embedding", "running", "failed",
                      "asking index", "ensuring", "asking vectors", "answered"},
             query : Queries \cup {{}}, found : SUBSET (LocalDocs \cup StoreDocs),
             shown : SUBSET {ByNumber(c) : c \in ToSet(Chunks)}, matched : SUBSET ToSet(Chunks)]

(* A run, with what it has found; ready and lock are of the index.         *)
SearchOK(r, me, ready, lock) ==
  /\ me \in Searches
  /\ me.phase \in {"mounting", "embedding"} => lock = r /\ ~ready
  /\ me.phase \in {"asking vectors", "answered"} => LocalDocs \cap me.query \subseteq me.found
  /\ me.shown = {ByNumber(c) : c \in me.matched}

KnowledgeIInv ==
  /\ localIndex \subseteq LocalDocs /\ indexReady \in BOOLEAN
  /\ indexLock \in KnowledgeRuns \cup {NoRun}
  /\ indexReady => localIndex = LocalDocs
  /\ indexLock # NoRun => searching[indexLock].phase \in {"mounting", "embedding"}
  /\ DOMAIN searching = KnowledgeRuns
  /\ searching = [r \in KnowledgeRuns |-> searching[r]]
  /\ \A r \in KnowledgeRuns : SearchOK(r, searching[r], indexReady, indexLock)

LEMMA KnowledgeInitHolds == KnowledgeInit => KnowledgeIInv
<1> SUFFICES ASSUME KnowledgeInit PROVE KnowledgeIInv
  OBVIOUS
<1>1. \A r : SearchOK(r, IdleSearch, FALSE, NoRun)
  BY DEF SearchOK, Searches, IdleSearch
<1>2. searching = [r \in KnowledgeRuns |-> IdleSearch]
  BY DEF KnowledgeInit
<1>3. localIndex = {} /\ indexReady = FALSE /\ indexLock = NoRun
  BY DEF KnowledgeInit
<1> QED BY <1>1, <1>2, <1>3 DEF KnowledgeIInv

(* A step of a run that leaves the index alone.                            *)
LEMMA SearchGoesOn ==
  ASSUME KnowledgeIInv, NEW r \in KnowledgeRuns, NEW to,
         SearchOK(r, to, indexReady, indexLock),
         to.phase \in {"mounting", "embedding"} <=> searching[r].phase \in {"mounting", "embedding"},
         searching' = [searching EXCEPT ![r] = to],
         UNCHANGED <<localIndex, indexReady, indexLock>>
  PROVE  KnowledgeIInv'
<1>1. searching'[r] = to /\ \A s \in KnowledgeRuns \ {r} : searching'[s] = searching[s]
  BY DEF KnowledgeIInv
<1>2. DOMAIN searching' = KnowledgeRuns /\ searching' = [s \in KnowledgeRuns |-> searching'[s]]
  BY DEF KnowledgeIInv
<1>3. \A s \in KnowledgeRuns : SearchOK(s, searching'[s], indexReady', indexLock')
  BY <1>1 DEF KnowledgeIInv
<1>4. indexLock' # NoRun => searching'[indexLock'].phase \in {"mounting", "embedding"}
  BY <1>1 DEF KnowledgeIInv
<1> QED BY <1>2, <1>3, <1>4 DEF KnowledgeIInv

(* A run that comes to another phase of the building.                      *)
LEMMA PhaseMoves ==
  ASSUME NEW r, NEW me, NEW was, NEW held, SearchOK(r, me, was, held),
         NEW phase \in {"waiting", "mounting", "embedding", "running", "failed"},
         NEW ready, NEW lock, phase \in {"mounting", "embedding"} => lock = r /\ ~ready
  PROVE  /\ SearchOK(r, [me EXCEPT !.phase = phase], ready, lock)
         /\ [me EXCEPT !.phase = phase].phase = phase
<1> DEFINE to == [me EXCEPT !.phase = phase]
<1>1. me \in Searches
  BY DEF SearchOK
<1>2. to.phase = phase /\ to.shown = me.shown /\ to.matched = me.matched /\ to \in Searches
  BY <1>1 DEF Searches
<1> HIDE DEF to
<1>3. SearchOK(r, to, ready, lock)
  BY <1>2 DEF SearchOK
<1> QED BY <1>2, <1>3 DEF to

LEMMA RunMoves ==
  ASSUME KnowledgeIInv, NEW r \in KnowledgeRuns, NEW phase \in {"waiting", "running"},
         Goes(r, phase), searching[r].phase \notin {"mounting", "embedding"},
         UNCHANGED <<localIndex, indexReady, indexLock>>
  PROVE  KnowledgeIInv'
<1> DEFINE to == [searching[r] EXCEPT !.phase = phase]
<1>1. searching' = [searching EXCEPT ![r] = to]
  BY DEF Goes
<1>2. SearchOK(r, searching[r], indexReady, indexLock)
  BY DEF KnowledgeIInv
<1>3. SearchOK(r, to, indexReady, indexLock) /\ to.phase = phase
  BY ZenonT(40), <1>2, PhaseMoves
<1> HIDE DEF to
<1> QED BY <1>1, <1>3, SearchGoesOn

(* The run that builds, or begins to: nobody else does.                    *)
LEMMA BuilderMoves ==
  ASSUME KnowledgeIInv, NEW r \in KnowledgeRuns,
         NEW phase \in {"mounting", "embedding", "running", "failed"}, Goes(r, phase),
         indexLock \in {NoRun, r}, indexLock' \in {NoRun, r},
         indexLock' = r <=> phase \in {"mounting", "embedding"},
         indexLock' = r => ~indexReady',
         localIndex' \subseteq LocalDocs, indexReady' \in BOOLEAN,
         indexReady' => localIndex' = LocalDocs
  PROVE  KnowledgeIInv'
<1> DEFINE to == [searching[r] EXCEPT !.phase = phase]
<1>1. searching' = [searching EXCEPT ![r] = to]
  BY DEF Goes
<1>2. SearchOK(r, searching[r], indexReady, indexLock)
  BY DEF KnowledgeIInv
<1>3. /\ to \in Searches /\ to.phase = phase
      /\ to.shown = searching[r].shown /\ to.matched = searching[r].matched
  BY <1>2 DEF SearchOK, Searches
<1> HIDE DEF to
<1>4. SearchOK(r, to, indexReady', indexLock')
  BY <1>2, <1>3 DEF SearchOK
<1>5. searching'[r] = to /\ \A s \in KnowledgeRuns \ {r} : searching'[s] = searching[s]
  BY <1>1 DEF KnowledgeIInv
<1>6. DOMAIN searching' = KnowledgeRuns /\ searching' = [s \in KnowledgeRuns |-> searching'[s]]
  BY <1>1 DEF KnowledgeIInv
<1>7. \A s \in KnowledgeRuns \ {r} : searching[s].phase \notin {"mounting", "embedding"}
  BY KnowledgeAssumption DEF KnowledgeIInv, SearchOK
<1>8. \A s \in KnowledgeRuns \ {r} : SearchOK(s, searching'[s], indexReady', indexLock')
  BY <1>5, <1>7 DEF KnowledgeIInv, SearchOK
<1>9. \A s \in KnowledgeRuns : SearchOK(s, searching'[s], indexReady', indexLock')
  BY <1>4, <1>5, <1>8
<1>10. indexLock' # NoRun => searching'[indexLock'].phase \in {"mounting", "embedding"}
  BY <1>3, <1>5
<1> QED BY <1>6, <1>9, <1>10 DEF KnowledgeIInv

LEMMA BuildingHolds ==
  ASSUME KnowledgeIInv, NEW r \in KnowledgeRuns,
         RunStarts(r) \/ LockTaken(r) \/ DocumentsMounted(r) \/ IndexBuilt(r) \/ BuildFails(r)
  PROVE  KnowledgeIInv'
<1>1. SearchOK(r, searching[r], indexReady, indexLock) /\ indexReady \in BOOLEAN
      /\ localIndex \subseteq LocalDocs /\ NoRun # r
  BY KnowledgeAssumption DEF KnowledgeIInv
<1>2. CASE RunStarts(r)
  <2>1. \E phase \in {"waiting", "running"} : Goes(r, phase)
    BY <1>2 DEF RunStarts
  <2> QED BY <1>2, <2>1, RunMoves DEF RunStarts
<1>3. CASE LockTaken(r)
  <2>1. CASE indexReady
    BY <1>3, <2>1, RunMoves DEF LockTaken
  <2>2. CASE ~indexReady
    <3>1. Goes(r, "mounting") /\ indexLock = NoRun /\ indexLock' = r /\ ~indexReady'
          /\ localIndex' \subseteq LocalDocs /\ indexReady' \in BOOLEAN
      BY <1>1, <1>3, <2>2 DEF LockTaken
    <3> QED BY <3>1, BuilderMoves
  <2> QED BY <2>1, <2>2
<1>4. CASE DocumentsMounted(r)
  <2>0. indexLock = r /\ ~indexReady
    BY <1>1, <1>4 DEF DocumentsMounted, SearchOK
  <2>1. CASE HasEmbedding
    <3>1. Goes(r, "embedding") /\ indexLock' = r /\ ~indexReady'
          /\ localIndex' \subseteq LocalDocs /\ indexReady' \in BOOLEAN
      BY <1>1, <1>4, <2>0, <2>1 DEF DocumentsMounted
    <3> QED BY <2>0, <3>1, BuilderMoves
  <2>2. CASE ~HasEmbedding
    <3>1. Goes(r, "running") /\ indexLock' = NoRun /\ localIndex' = LocalDocs
          /\ indexReady' = TRUE
      BY <1>4, <2>2 DEF DocumentsMounted
    <3> QED BY <1>1, <2>0, <3>1, BuilderMoves
  <2> QED BY <2>1, <2>2
<1>5. CASE IndexBuilt(r)
  <2>1. Goes(r, "running") /\ indexLock' = NoRun /\ localIndex' = LocalDocs
        /\ indexReady' = TRUE /\ indexLock = r
    BY <1>1, <1>5 DEF IndexBuilt, SearchOK
  <2> QED BY <1>1, <2>1, BuilderMoves
<1>6. CASE BuildFails(r)
  <2>1. Goes(r, "failed") /\ indexLock' = NoRun /\ indexLock = r /\ ~indexReady'
        /\ localIndex' \subseteq LocalDocs /\ indexReady' \in BOOLEAN
    BY <1>1, <1>6 DEF BuildFails, SearchOK
  <2> QED BY <1>1, <2>1, BuilderMoves
<1> QED BY <1>2, <1>3, <1>4, <1>5, <1>6

LEMMA SearchingHolds ==
  ASSUME KnowledgeIInv, NEW r \in KnowledgeRuns,
         ContextInjected(r) \/ SearchBegins(r) \/ IndexAnswers(r) \/ LocalAnswers(r)
           \/ VectorsAnswer(r) \/ KnowledgeSearchFails(r) \/ SearchReturns(r)
  PROVE  KnowledgeIInv'
<1> DEFINE me == searching[r]
<1>1. SearchOK(r, me, indexReady, indexLock) /\ me \in Searches
  BY DEF KnowledgeIInv, SearchOK
<1>2. me.phase \notin {"mounting", "embedding"} /\ UNCHANGED <<localIndex, indexReady, indexLock>>
  BY DEF ContextInjected, SearchBegins, IndexAnswers, LocalAnswers, VectorsAnswer,
         KnowledgeSearchFails, SearchReturns
<1> SUFFICES \E to : /\ SearchOK(r, to, indexReady, indexLock)
                     /\ to.phase \notin {"mounting", "embedding"}
                     /\ searching' = [searching EXCEPT ![r] = to]
  BY <1>2, SearchGoesOn
<1>3. CASE ContextInjected(r)
  <2>1. PICK query \in Queries :
          searching' = [searching EXCEPT ![r].matched = ToSet(Chunks) \cap query,
                          ![r].shown = {ByNumber(c) : c \in ToSet(Chunks) \cap query}]
    BY <1>3 DEF ContextInjected
  <2> DEFINE to == [me EXCEPT !.matched = ToSet(Chunks) \cap query,
                              !.shown = {ByNumber(c) : c \in ToSet(Chunks) \cap query}]
  <2>2. searching' = [searching EXCEPT ![r] = to]
    BY <2>1 DEF KnowledgeIInv
  <2>3. to.phase = "running" /\ to.matched = ToSet(Chunks) \cap query
        /\ to.shown = {ByNumber(c) : c \in ToSet(Chunks) \cap query} /\ to \in Searches
    BY <1>1, <1>3 DEF Searches, ContextInjected
  <2>4. SearchOK(r, to, indexReady, indexLock)
    BY <2>3 DEF SearchOK
  <2> QED BY <2>2, <2>3, <2>4
<1>4. CASE SearchBegins(r)
  <2>1. PICK query \in Queries : searching' = [searching EXCEPT ![r] =
          [@ EXCEPT !.query = query, !.found = {},
                    !.phase = IF HasIndex THEN "asking index" ELSE "ensuring"]]
    BY <1>4 DEF SearchBegins
  <2> DEFINE to == [me EXCEPT !.query = query, !.found = {},
                              !.phase = IF HasIndex THEN "asking index" ELSE "ensuring"]
  <2>2. searching' = [searching EXCEPT ![r] = to]
    BY <2>1 DEF KnowledgeIInv
  <2>3. to.phase \in {"asking index", "ensuring"} /\ to.shown = me.shown /\ to.matched = me.matched
        /\ to \in Searches
    BY <1>1 DEF Searches
  <2>4. SearchOK(r, to, indexReady, indexLock)
    BY <1>1, <2>3 DEF SearchOK
  <2> QED BY <2>2, <2>3, <2>4
<1>5. CASE IndexAnswers(r)
  <2> DEFINE to == [me EXCEPT !.phase = "ensuring", !.found = StoreDocs \cap me.query]
  <2>2. searching' = [searching EXCEPT ![r] = to]
    BY <1>5 DEF IndexAnswers, KnowledgeIInv
  <2>3. to.phase = "ensuring" /\ to.shown = me.shown /\ to.matched = me.matched /\ to \in Searches
    BY <1>1 DEF Searches
  <2>4. SearchOK(r, to, indexReady, indexLock)
    BY <1>1, <2>3 DEF SearchOK
  <2> QED BY <2>2, <2>3, <2>4
<1>6. CASE LocalAnswers(r)
  <2> DEFINE to == [me EXCEPT !.phase = IF HasVectors THEN "asking vectors" ELSE "answered",
                              !.found = @ \cup (localIndex \cap me.query)]
  <2>2. searching' = [searching EXCEPT ![r] = to]
    BY <1>6 DEF LocalAnswers, KnowledgeIInv
  <2>3. to.phase \in {"asking vectors", "answered"} /\ to.shown = me.shown /\ to.query = me.query
        /\ to.matched = me.matched /\ to.found = me.found \cup (localIndex \cap me.query)
        /\ to \in Searches
    BY <1>1 DEF Searches, KnowledgeIInv
  <2>4. HasDocuments => localIndex = LocalDocs
    BY <1>6 DEF LocalAnswers, KnowledgeIInv
  <2>5. ~HasDocuments => LocalDocs = {}
    BY DEF HasDocuments, LocalDocs, ToSet
  <2>6. SearchOK(r, to, indexReady, indexLock)
    BY <1>1, <2>3, <2>4, <2>5 DEF SearchOK
  <2> QED BY <2>2, <2>3, <2>6
<1>7. CASE VectorsAnswer(r)
  <2> DEFINE to == [me EXCEPT !.phase = "answered", !.found = @ \cup (StoreDocs \cap me.query)]
  <2>2. searching' = [searching EXCEPT ![r] = to]
    BY <1>7 DEF VectorsAnswer, KnowledgeIInv
  <2>3. to.phase = "answered" /\ to.shown = me.shown /\ to.query = me.query
        /\ to.matched = me.matched /\ to.found = me.found \cup (StoreDocs \cap me.query)
        /\ to \in Searches
    BY <1>1 DEF Searches
  <2>4. SearchOK(r, to, indexReady, indexLock)
    BY <1>1, <1>7, <2>3 DEF SearchOK, VectorsAnswer
  <2> QED BY <2>2, <2>3, <2>4
<1>8. CASE KnowledgeSearchFails(r)
  <2> DEFINE to == [me EXCEPT !.phase = "running", !.found = {}, !.query = {}]
  <2>2. searching' = [searching EXCEPT ![r] = to]
    BY <1>8 DEF KnowledgeSearchFails, KnowledgeIInv
  <2>3. to.phase = "running" /\ to.shown = me.shown /\ to.matched = me.matched /\ to \in Searches
    BY <1>1 DEF Searches
  <2>4. SearchOK(r, to, indexReady, indexLock)
    BY <1>1, <2>3 DEF SearchOK
  <2> QED BY <2>2, <2>3, <2>4
<1>9. CASE SearchReturns(r)
  <2> DEFINE to == [me EXCEPT !.phase = "running"]
  <2>2. searching' = [searching EXCEPT ![r] = to]
    BY <1>9 DEF SearchReturns, Goes, KnowledgeIInv
  <2>3. to.phase = "running" /\ to.shown = me.shown /\ to.matched = me.matched /\ to \in Searches
    BY <1>1 DEF Searches
  <2>4. SearchOK(r, to, indexReady, indexLock)
    BY <1>1, <2>3 DEF SearchOK
  <2> QED BY <2>2, <2>3, <2>4
<1> QED BY <1>3, <1>4, <1>5, <1>6, <1>7, <1>8, <1>9

LEMMA KnowledgeStepHolds == ASSUME KnowledgeIInv, [KnowledgeNext]_knowledgeVars PROVE KnowledgeIInv'
<1>1. CASE KnowledgeNext
  BY <1>1, BuildingHolds, SearchingHolds DEF KnowledgeNext
<1>2. CASE UNCHANGED knowledgeVars
  BY <1>2 DEF knowledgeVars, KnowledgeIInv
<1> QED BY <1>1, <1>2

(* One source: the number of a chunk is its place in the list of all.      *)
OneSource == \A chunk \in ToSet(Chunks) : ByNumber(chunk) = chunk

LEMMA KnowledgeImplies ==
  ASSUME KnowledgeIInv
  PROVE  KnowledgeTypeOK /\ AnswersAreWhole /\ (OneSource => ShownIsFound)
<1>1. KnowledgeTypeOK
  BY DEF KnowledgeIInv, KnowledgeTypeOK, SearchOK, Searches
<1>2. AnswersAreWhole
  BY DEF KnowledgeIInv, AnswersAreWhole, SearchOK
<1>3. ASSUME OneSource PROVE ShownIsFound
  <2> SUFFICES ASSUME NEW r \in KnowledgeRuns PROVE searching[r].shown = searching[r].matched
    BY DEF ShownIsFound
  <2>1. searching[r].matched \subseteq ToSet(Chunks)
        /\ searching[r].shown = {ByNumber(c) : c \in searching[r].matched}
    BY DEF KnowledgeIInv, SearchOK, Searches
  <2>2. \A c \in searching[r].matched : ByNumber(c) = c
    BY <1>3, <2>1 DEF OneSource
  <2> QED BY <2>1, <2>2
<1> QED BY <1>1, <1>2, <1>3

(* However many runs start while the local index is built, and whatever    *)
(* fails, a search that answers has found every local document near to its *)
(* query, and only a run that builds holds the lock.                       *)
THEOREM SearchesAreWhole == KnowledgeSpec => [](KnowledgeTypeOK /\ AnswersAreWhole)
<1>1. KnowledgeIInv /\ [KnowledgeNext]_knowledgeVars => KnowledgeIInv'
  BY KnowledgeStepHolds
<1>2. KnowledgeIInv => KnowledgeTypeOK /\ AnswersAreWhole
  BY KnowledgeImplies
<1> QED BY <1>1, <1>2, KnowledgeInitHolds, PTL DEF KnowledgeSpec

--------------------------------------------------------------------------------
(***************************************************************************)
(* The knowledge index: the keyword index is that of the documents.        *)
(***************************************************************************)

(* What a request allows, each document once.                              *)
AllowedHits(request) == {h \in [id : DocIds, doc : DocValues] : Matches(request, h.doc)}
OncePerId(H) == \A g, h \in H : g.id = h.id => g = h
RankingOK(request, q) ==
  /\ q \in Seq(AllowedHits(request))
  /\ \A n, m \in DOMAIN q : n # m => q[n].id # q[m].id

LEMMA EmptyRanking == \A request : RankingOK(request, <<>>)
BY DEF RankingOK

LEMMA FirstFacts ==
  ASSUME NEW request, NEW q, RankingOK(request, q), NEW limit \in Nat
  PROVE  RankingOK(request, FirstOf(q, limit))
<1>1. PICK S : S = AllowedHits(request)
  OBVIOUS
<1>2. q \in Seq(S) /\ Len(q) \in Nat /\ DOMAIN q = 1..Len(q)
      /\ \A n, m \in DOMAIN q : n # m => q[n].id # q[m].id
  BY <1>1 DEF RankingOK
<1>3. PICK k : k = IF Len(q) > limit THEN limit ELSE Len(q)
  OBVIOUS
<1>4. k \in 0..Len(q)
  <2>1. Len(q) \in Nat /\ limit \in Nat
    BY <1>2
  <2>2. CASE Len(q) > limit
    BY <1>3, <2>1, <2>2
  <2>3. CASE ~(Len(q) > limit)
    BY <1>3, <2>1, <2>3
  <2> QED BY <2>2, <2>3
<1>5. PICK t : t = SubSeq(q, 1, k)
  OBVIOUS
<1>6. t \in Seq(S) /\ Len(t) = k /\ \A n \in 1..k : t[n] = q[n]
  <2>1. CASE k = 0
    BY <1>5, <2>1
  <2>2. CASE k # 0
    <3>1. 1 \in 1..Len(q) /\ k \in 1..Len(q) /\ k - 1 + 1 = k
      BY <1>2, <1>4, <2>2
    <3>2. t \in Seq(S) /\ Len(t) = k - 1 + 1 /\ \A n \in 1..(k - 1 + 1) : t[n] = q[1 + n - 1]
      BY <1>2, <1>5, <3>1, SubSeqProperties
    <3> QED BY <1>4, <3>1, <3>2
  <2> QED BY <2>1, <2>2
<1>7. DOMAIN t = 1..k /\ \A n \in 1..k : n \in DOMAIN q
  BY <1>2, <1>4, <1>6
<1>8. \A n, m \in DOMAIN t : n # m => t[n].id # t[m].id
  BY <1>2, <1>6, <1>7
<1>9. FirstOf(q, limit) = t
  BY <1>3, <1>5 DEF FirstOf
<1> QED BY <1>1, <1>6, <1>8, <1>9 DEF RankingOK

(* Hits of different documents are as many as documents at most, and any   *)
(* ranking of them is a ranking.                                             *)
LEMMA OrderFacts ==
  ASSUME NEW request, NEW H, H \subseteq AllowedHits(request), OncePerId(H), NEW q \in SetToSeqs(H)
  PROVE  RankingOK(request, q)
<1>1. PICK f : f = [h \in H |-> h.id]
  OBVIOUS
<1>2. f \in Injection(H, DocIds)
  BY <1>1 DEF AllowedHits, OncePerId, Injection, IsInjective
<1>3. IsFiniteSet(H)
  BY <1>2, IndexAssumption, FS_Injection
<1>4. PICK N : N = Cardinality(H) /\ N \in Nat
  BY <1>3, FS_CardinalityType
<1>5. q \in [1..N -> H] /\ \A n, m \in 1..N : n # m => q[n] # q[m]
  BY <1>4 DEF SetToSeqs
<1>6. q \in Seq(AllowedHits(request)) /\ DOMAIN q = 1..N
  BY <1>4, <1>5
<1> QED BY <1>5, <1>6 DEF RankingOK, OncePerId

LEMMA RankingsAllowed ==
  ASSUME NEW request, NEW H, H \subseteq AllowedHits(request), OncePerId(H), NEW q \in Rankings(H)
  PROVE  RankingOK(request, q)
<1>1. PICK o \in SetToSeqs(H) : q = FirstOf(o, CandidateK)
  BY DEF Rankings
<1>2. CandidateK \in Nat
  BY IndexAssumption
<1> QED BY <1>1, <1>2, OrderFacts, FirstFacts

(* What is fused of such rankings.                                         *)
ListsOK(request, lists) == \A l \in DOMAIN lists : RankingOK(request, lists[l])

LEMMA LastHitsFacts ==
  ASSUME NEW request, NEW S, NEW lists \in Seq(S), ListsOK(request, lists)
  PROVE  LastHits(lists) \subseteq AllowedHits(request) /\ OncePerId(LastHits(lists))
<1>1. ASSUME NEW p \in Appearances(lists)
      PROVE  p[1] \in Nat /\ p[2] \in Nat /\ lists[p[1]][p[2]] \in AllowedHits(request)
  <2>1. PICK l \in DOMAIN lists : p \in {l} \X DOMAIN lists[l]
    BY <1>1 DEF Appearances
  <2>2. p[1] = l /\ p[2] \in DOMAIN lists[l]
    BY <2>1
  <2>3. lists[l] \in Seq(AllowedHits(request))
    BY DEF ListsOK, RankingOK
  <2> QED BY <2>1, <2>2, <2>3
<1>2. LastHits(lists) \subseteq AllowedHits(request)
  BY <1>1 DEF LastHits
<1>3. ASSUME NEW p \in Appearances(lists), NEW q \in Appearances(lists)
      PROVE  Sooner(p, q) \/ Sooner(q, p) \/ (p[1] = q[1] /\ p[2] = q[2])
  BY <1>1 DEF Sooner
<1>4. ASSUME NEW g \in LastHits(lists), NEW h \in LastHits(lists), g.id = h.id PROVE g = h
  <2>1. PICK p \in Appearances(lists) :
          g = lists[p[1]][p[2]] /\ \A o \in Appearing(lists, g.id) : ~Sooner(p, o)
    BY DEF LastHits
  <2>2. PICK q \in Appearances(lists) :
          h = lists[q[1]][q[2]] /\ \A o \in Appearing(lists, h.id) : ~Sooner(q, o)
    BY DEF LastHits
  <2>3. p \in Appearing(lists, h.id) /\ q \in Appearing(lists, g.id)
    BY <1>4, <2>1, <2>2 DEF Appearing
  <2>4. p[1] = q[1] /\ p[2] = q[2]
    BY <1>3, <2>1, <2>2, <2>3
  <2> QED BY <2>1, <2>2, <2>4
<1> QED BY <1>2, <1>4 DEF OncePerId

LEMMA MergesAllowed ==
  ASSUME NEW request, NEW S, NEW lists \in Seq(S), ListsOK(request, lists),
         NEW limit \in Nat, NEW q \in RrfMerges(lists, limit)
  PROVE  RankingOK(request, q)
<1>1. PICK o \in SetToSeqs(LastHits(lists)) : q = FirstOf(o, limit)
  BY DEF RrfMerges
<1> QED BY <1>1, LastHitsFacts, OrderFacts, FirstFacts

(* What a reranker leaves, who names no position twice.                    *)
LEMMA RerankedAllowed ==
  ASSUME NEW request, NEW merged, RankingOK(request, merged), NEW ranking \in Seq(Nat), IsInjective(ranking)
  PROVE  RankingOK(request, Reranked(merged, ranking))
<1>1. PICK I, known : I = {n \in DOMAIN ranking : ranking[n] \in DOMAIN merged} /\ known = Keeping(ranking, I)
  OBVIOUS
<1>2. I \in SUBSET DOMAIN ranking
  BY <1>1
<1>3. PICK at : KeepsAt(known, ranking, I, at)
  BY <1>1, <1>2, KeepingKeeps
<1>4. known \in Seq(Nat) /\ Len(known) \in Nat /\ DOMAIN known = 1..Len(known)
  BY <1>1, <1>2, KeepingKeeps
<1>5. \A n \in 1..Len(known) : at[n] \in I /\ known[n] = ranking[at[n]]
  BY <1>3 DEF KeepsAt
<1>6. \A n \in DOMAIN known : known[n] \in DOMAIN merged
  BY <1>1, <1>4, <1>5
<1>7. ASSUME NEW n \in DOMAIN known, NEW m \in DOMAIN known, n # m PROVE known[n] # known[m]
  <2>1. n \in 1..Len(known) /\ m \in 1..Len(known) /\ n \in Int /\ m \in Int
    BY <1>4
  <2>2. at[n] \in DOMAIN ranking /\ at[m] \in DOMAIN ranking /\ at[n] \in Int /\ at[m] \in Int
    BY <1>2, <1>5, <2>1
  <2>3. at[n] # at[m]
    <3>1. CASE n < m
      BY <1>3, <2>1, <2>2, <3>1 DEF KeepsAt
    <3>2. CASE m < n
      BY <1>3, <2>1, <2>2, <3>2 DEF KeepsAt
    <3> QED BY <1>7, <2>1, <3>1, <3>2
  <2>4. ranking[at[n]] # ranking[at[m]]
    BY <2>2, <2>3 DEF IsInjective
  <2> QED BY <1>5, <2>1, <2>4
<1>8. PICK new : new = [n \in DOMAIN known |-> merged[known[n]]]
  OBVIOUS
<1>9. RankingOK(request, new)
  <2>1. merged \in Seq(AllowedHits(request)) /\ \A n, m \in DOMAIN merged : n # m => merged[n].id # merged[m].id
    BY DEF RankingOK
  <2>2. \A n \in DOMAIN known : merged[known[n]] \in AllowedHits(request)
    BY <1>6, <2>1
  <2>3. DOMAIN new = 1..Len(known) /\ new \in [1..Len(known) -> AllowedHits(request)]
    BY <1>4, <1>8, <2>2
  <2>4. new \in Seq(AllowedHits(request))
    BY <1>4, <2>3
  <2>5. \A n, m \in DOMAIN new : n # m => new[n].id # new[m].id
    BY <1>4, <1>6, <1>7, <1>8, <2>1, <2>3
  <2> QED BY <2>4, <2>5 DEF RankingOK
<1>10. Reranked(merged, ranking) = IF known = <<>> THEN merged ELSE new
  BY <1>1, <1>8 DEF Reranked
<1> QED BY <1>9, <1>10
(* A reader: what it has ranked so far is allowed.                         *)
SearcherFields == {"phase", "request", "snapshot", "queries", "lists", "blind", "merged", "found"}
SearcherOK(me) ==
  /\ DOMAIN me = SearcherFields
  /\ me.phase \in {"idle", "rewriting", "embedding", "reranking", "done", "failed"}
  /\ me.phase = "idle" => me = IdleReader
  /\ me.snapshot \in Contents
  /\ me.lists \in Seq(Seq(AllowedHits(me.request))) /\ ListsOK(me.request, me.lists)
  /\ RankingOK(me.request, me.merged) /\ RankingOK(me.request, me.found)

IndexIInv ==
  /\ documents \in Contents /\ keywordIndex \in Contents
  /\ DOMAIN embeddings \subseteq DocIds
  /\ DOMAIN writing = IndexWriters /\ DOMAIN reading = IndexReaders
  /\ \A w \in IndexWriters :
        /\ writing[w] \in [phase : {"idle", "embedding", "done"}, docs : Contents]
  /\ \A r \in IndexReaders : SearcherOK(reading[r])

LEMMA ContentsFacts ==
  /\ <<>> \in Contents /\ DOMAIN <<>> = {}
  /\ \A f \in Contents : DOMAIN f \subseteq DocIds
  /\ \A f, g \in Contents : UpdatedWith(f, g) \in Contents
  /\ \A f \in Contents, D \in SUBSET DocIds : WithoutIds(f, D) \in Contents
<1>1. \A D \in SUBSET DocIds : [D -> DocValues] \subseteq Contents
  BY DEF Contents
<1>2. \A f \in Contents : \E D \in SUBSET DocIds : f \in [D -> DocValues]
  BY DEF Contents
<1>3. <<>> \in [{} -> DocValues]
  OBVIOUS
<1>4. DOMAIN <<>> = {}
  OBVIOUS
<1>5. \A f \in Contents : DOMAIN f \in SUBSET DocIds /\ \A i \in DOMAIN f : f[i] \in DocValues
  BY <1>2
<1>6. ASSUME NEW f \in Contents, NEW g \in Contents PROVE UpdatedWith(f, g) \in Contents
  <2>1. UpdatedWith(f, g) \in [DOMAIN g \cup DOMAIN f -> DocValues]
    BY <1>5 DEF UpdatedWith
  <2>2. DOMAIN g \cup DOMAIN f \in SUBSET DocIds
    BY <1>5
  <2> QED BY <1>1, <2>1, <2>2
<1>7. ASSUME NEW f \in Contents, NEW D \in SUBSET DocIds PROVE WithoutIds(f, D) \in Contents
  <2>1. WithoutIds(f, D) \in [DOMAIN f \ D -> DocValues]
    BY <1>5 DEF WithoutIds
  <2>2. DOMAIN f \ D \in SUBSET DocIds
    BY <1>5
  <2> QED BY <1>1, <2>1, <2>2
<1> QED BY <1>1, <1>3, <1>4, <1>5, <1>6, <1>7

LEMMA IndexInitHolds == IndexInit => IndexIInv
<1> SUFFICES ASSUME IndexInit PROVE IndexIInv
  OBVIOUS
<1>1. /\ documents = <<>> /\ embeddings = <<>> /\ keywordIndex = <<>>
      /\ writing = [w \in IndexWriters |-> [phase |-> "idle", docs |-> <<>>]]
      /\ reading = [r \in IndexReaders |-> IdleReader]
  BY DEF IndexInit
<1>2. /\ DOMAIN IdleReader = SearcherFields /\ IdleReader.phase = "idle"
      /\ IdleReader.snapshot = <<>> /\ IdleReader.lists = <<>> /\ IdleReader.merged = <<>>
      /\ IdleReader.found = <<>>
  BY DEF IdleReader, SearcherFields
<1>3. SearcherOK(IdleReader)
  BY <1>2, ContentsFacts, EmptyRanking DEF SearcherOK, ListsOK
<1>4. \A w \in IndexWriters : writing[w] \in [phase : {"idle", "embedding", "done"}, docs : Contents]
  BY <1>1, ContentsFacts
<1> QED BY <1>1, <1>3, <1>4, ContentsFacts DEF IndexIInv

(* A step of a writer.                                                     *)
LEMMA WriterHolds ==
  ASSUME IndexIInv, NEW w \in IndexWriters,
         UpsertStarts(w) \/ UpsertEnds(w) \/ UpsertFails(w) \/ DeleteDocuments(w)
  PROVE  IndexIInv'
<1>0. /\ documents \in Contents /\ keywordIndex \in Contents /\ DOMAIN embeddings \subseteq DocIds
      /\ writing[w] \in [phase : {"idle", "embedding", "done"}, docs : Contents]
      /\ DOMAIN writing = IndexWriters
  BY DEF IndexIInv
<1>1. CASE UpsertStarts(w)
  <2>1. PICK docs \in Contents : /\ documents' = UpdatedWith(documents, docs)
                                 /\ writing' = [writing EXCEPT ![w] = [phase |-> "embedding", docs |-> docs]]
    BY <1>1 DEF UpsertStarts
  <2>2. UNCHANGED <<embeddings, keywordIndex, reading>>
    BY <1>1 DEF UpsertStarts
  <2>3. documents' \in Contents
    BY <1>0, <2>1, ContentsFacts
  <2>4. writing'[w].phase = "embedding"
    BY <1>0, <2>1
  <2>5. \A v \in IndexWriters : writing'[v] \in [phase : {"idle", "embedding", "done"}, docs : Contents]
    BY <2>1 DEF IndexIInv
  <2>6. DOMAIN writing' = IndexWriters
    BY <1>0, <2>1
  <2> QED BY <2>2, <2>3, <2>4, <2>5, <2>6 DEF IndexIInv
<1>2. CASE UpsertEnds(w)
  <2>1. /\ keywordIndex' = documents /\ documents' = documents /\ reading' = reading
        /\ writing' = [writing EXCEPT ![w].phase = "done"]
        /\ DOMAIN embeddings' = DOMAIN writing[w].docs \cup DOMAIN embeddings
    BY <1>2 DEF UpsertEnds, UpdatedWith
  <2>2. DOMAIN embeddings' \subseteq DocIds
    BY <1>0, <2>1, ContentsFacts
  <2>3. \A v \in IndexWriters : writing'[v] \in [phase : {"idle", "embedding", "done"}, docs : Contents]
    BY <2>1 DEF IndexIInv
  <2>4. DOMAIN writing' = IndexWriters
    BY <1>0, <2>1
  <2> QED BY <2>1, <2>2, <2>3, <2>4 DEF IndexIInv
<1>3. CASE DeleteDocuments(w)
  <2>1. PICK D \in SUBSET DocIds :
          /\ documents' = WithoutIds(documents, D) /\ embeddings' = WithoutIds(embeddings, D)
          /\ keywordIndex' = IF D \cap DOMAIN documents = {} THEN keywordIndex ELSE documents'
    BY <1>3 DEF DeleteDocuments
  <2>2. /\ writing' = [writing EXCEPT ![w].phase = "done"] /\ reading' = reading
        /\ writing[w].phase = "idle"
    BY <1>3 DEF DeleteDocuments
  <2>3. documents' \in Contents
    BY <1>0, <2>1, ContentsFacts
  <2>4. DOMAIN embeddings' \subseteq DocIds
    BY <1>0, <2>1 DEF WithoutIds
  <2>5. keywordIndex' \in Contents
    BY <1>0, <2>1, <2>3
  <2>6. \A v \in IndexWriters : writing'[v] \in [phase : {"idle", "embedding", "done"}, docs : Contents]
    BY <2>2 DEF IndexIInv
  <2>7. DOMAIN writing' = IndexWriters
    BY <1>0, <2>2
  <2> QED BY <2>2, <2>3, <2>4, <2>5, <2>6, <2>7 DEF IndexIInv
<1>4. CASE UpsertFails(w)
  <2>1. /\ writing' = [writing EXCEPT ![w].phase = "done"]
        /\ UNCHANGED <<documents, embeddings, keywordIndex, reading>>
    BY <1>4 DEF UpsertFails
  <2>2. \A v \in IndexWriters : writing'[v] \in [phase : {"idle", "embedding", "done"}, docs : Contents]
    BY <2>1 DEF IndexIInv
  <2>3. DOMAIN writing' = IndexWriters
    BY <1>0, <2>1
  <2> QED BY <2>1, <2>2, <2>3 DEF IndexIInv
<1> QED BY <1>1, <1>2, <1>3, <1>4

(* While no embedding fails, a writer leaves the keyword index as the      *)
(* documents are, or others write still.                                   *)
LEMMA WriterKeepsKeywords ==
  ASSUME ~EmbedMayFail, IndexIInv, KeywordsAreCurrent, NEW w \in IndexWriters,
         UpsertStarts(w) \/ UpsertEnds(w) \/ UpsertFails(w) \/ DeleteDocuments(w)
  PROVE  KeywordsAreCurrent'
<1>1. CASE UpsertStarts(w)
  <2>1. PICK docs \in Contents : writing' = [writing EXCEPT ![w] = [phase |-> "embedding", docs |-> docs]]
    BY <1>1 DEF UpsertStarts
  <2>2. writing'[w].phase = "embedding"
    BY <2>1 DEF IndexIInv
  <2> QED BY <2>2 DEF KeywordsAreCurrent
<1>2. CASE UpsertEnds(w)
  BY <1>2 DEF UpsertEnds, KeywordsAreCurrent
<1>3. CASE DeleteDocuments(w)
  <2>0. documents \in Contents /\ writing[w] \in [phase : {"idle", "embedding", "done"}, docs : Contents]
        /\ DOMAIN writing = IndexWriters
    BY DEF IndexIInv
  <2>1. PICK D \in SUBSET DocIds :
          /\ documents' = WithoutIds(documents, D)
          /\ keywordIndex' = IF D \cap DOMAIN documents = {} THEN keywordIndex ELSE documents'
    BY <1>3 DEF DeleteDocuments
  <2>2. writing' = [writing EXCEPT ![w].phase = "done"] /\ writing[w].phase = "idle"
    BY <1>3 DEF DeleteDocuments
  <2>3. SUFFICES ASSUME \A v \in IndexWriters : writing'[v].phase # "embedding"
                 PROVE  keywordIndex' = documents'
    BY DEF KeywordsAreCurrent
  <2>4. \A v \in IndexWriters : writing[v].phase # "embedding"
    BY <2>0, <2>2, <2>3
  <2>5. keywordIndex = documents
    BY <2>4 DEF KeywordsAreCurrent
  <2>6. CASE D \cap DOMAIN documents = {}
    <3>1. DOMAIN documents \ D = DOMAIN documents
      BY <2>6
    <3>2. documents = [i \in DOMAIN documents |-> documents[i]]
      BY <2>0 DEF Contents
    <3> QED BY <2>1, <2>5, <2>6, <3>1, <3>2 DEF WithoutIds
  <2> QED BY <2>1, <2>6
<1> QED BY <1>1, <1>2, <1>3 DEF UpsertFails

(* A step of a reader, to another record.                                  *)
LEMMA ReaderMoves ==
  ASSUME IndexIInv, NEW r \in IndexReaders, NEW me, SearcherOK(me), reading' = [reading EXCEPT ![r] = me],
         UNCHANGED <<documents, embeddings, keywordIndex, writing>>
  PROVE  IndexIInv'
<1>1. DOMAIN reading' = IndexReaders /\ \A s \in IndexReaders : SearcherOK(reading'[s])
  BY DEF IndexIInv
<1> QED BY <1>1 DEF IndexIInv

(* The hits of a query, by words or by vector.                             *)
LEMMA KeywordHitsFacts ==
  ASSUME NEW docs \in Contents, NEW query, NEW request
  PROVE  /\ KeywordHits(docs, query, request) \subseteq AllowedHits(request)
         /\ OncePerId(KeywordHits(docs, query, request))
<1>1. \A i \in DOMAIN docs : i \in DocIds /\ docs[i] \in DocValues
  BY DEF Contents
<1> QED BY <1>1 DEF KeywordHits, AllowedHits, OncePerId, Hit

LEMMA VectorHitsFacts ==
  ASSUME documents \in Contents, NEW query, NEW request
  PROVE  /\ VectorHits(query, request) \subseteq AllowedHits(request)
         /\ OncePerId(VectorHits(query, request))
<1>1. \A i \in DOMAIN documents : i \in DocIds /\ documents[i] \in DocValues
  BY DEF Contents
<1> QED BY <1>1 DEF VectorHits, AllowedHits, OncePerId, Hit

(* The embedding of a query is back.                                       *)
LEMMA EmbeddedHolds ==
  ASSUME IndexIInv, NEW r \in IndexReaders, QueryEmbedded(r)
  PROVE  IndexIInv'
<1> DEFINE me == reading[r]
           request == me.request
           limit == IF CandidateK > ResultK THEN CandidateK ELSE ResultK
           query == me.queries[Len(me.lists) + 1]
<1>1. QueryEmbedded(r)
  OBVIOUS
<1>2. /\ SearcherOK(me) /\ documents \in Contents /\ me.snapshot \in Contents
      /\ CandidateK \in Nat /\ ResultK \in Nat
  BY IndexAssumption DEF IndexIInv, SearcherOK
<1>4. limit \in Nat
  BY <1>2
<1>5a. PICK bm25 \in Rankings(KeywordHits(me.snapshot, query, request)),
           vector \in Rankings(IF me.blind THEN {} ELSE VectorHits(query, request)) :
          \E fused \in RrfMerges(<<bm25, vector>>, limit) :
          \E merged \in RrfMerges(Append(me.lists, fused), limit) :
            LET lists == Append(me.lists, fused)
                next == IF Len(lists) < Len(me.queries) THEN "embedding"
                        ELSE IF merged = <<>> THEN "done" ELSE "reranking"
            IN reading' = [reading EXCEPT ![r] = [@ EXCEPT !.phase = next, !.lists = lists,
                              !.blind = (documents = <<>>),
                              !.merged = IF next = "reranking" THEN merged ELSE <<>>]]
  BY <1>1, Zenon DEF QueryEmbedded
<1>5b. PICK fused \in RrfMerges(<<bm25, vector>>, limit) :
          \E merged \in RrfMerges(Append(me.lists, fused), limit) :
            LET lists == Append(me.lists, fused)
                next == IF Len(lists) < Len(me.queries) THEN "embedding"
                        ELSE IF merged = <<>> THEN "done" ELSE "reranking"
            IN reading' = [reading EXCEPT ![r] = [@ EXCEPT !.phase = next, !.lists = lists,
                              !.blind = (documents = <<>>),
                              !.merged = IF next = "reranking" THEN merged ELSE <<>>]]
  BY <1>5a, Zenon
<1>5c. PICK merged \in RrfMerges(Append(me.lists, fused), limit) :
            LET lists == Append(me.lists, fused)
                next == IF Len(lists) < Len(me.queries) THEN "embedding"
                        ELSE IF merged = <<>> THEN "done" ELSE "reranking"
            IN reading' = [reading EXCEPT ![r] = [@ EXCEPT !.phase = next, !.lists = lists,
                              !.blind = (documents = <<>>),
                              !.merged = IF next = "reranking" THEN merged ELSE <<>>]]
  BY <1>5b, Zenon
<1> DEFINE next == IF Len(Append(me.lists, fused)) < Len(me.queries) THEN "embedding"
                   ELSE IF merged = <<>> THEN "done" ELSE "reranking"
<1>5. /\ next \in {"embedding", "done", "reranking"}
      /\ reading' = [reading EXCEPT ![r] = [@ EXCEPT !.phase = next, !.lists = Append(me.lists, fused),
                          !.blind = (documents = <<>>),
                          !.merged = IF next = "reranking" THEN merged ELSE <<>>]]
  BY <1>5c
<1>me. me = reading[r] /\ request = me.request
  OBVIOUS
<1> HIDE DEF me, request, limit, query, next
<1>6. RankingOK(request, bm25)
  BY <1>2, <1>5a, KeywordHitsFacts, RankingsAllowed
<1>7. RankingOK(request, vector)
  <2>1. PICK hits : hits = IF me.blind THEN {} ELSE VectorHits(query, request)
    OBVIOUS
  <2>2. hits \subseteq AllowedHits(request) /\ OncePerId(hits)
    BY <1>2, <2>1, VectorHitsFacts DEF OncePerId
  <2> QED BY <1>5a, <2>1, <2>2, RankingsAllowed
<1>8. PICK S : S = Seq(AllowedHits(request))
  OBVIOUS
<1>9. RankingOK(request, fused)
  <2>1. PICK two : two = <<bm25, vector>>
    OBVIOUS
  <2>2. two \in Seq(S) /\ ListsOK(request, two)
    BY <1>6, <1>7, <1>8, <2>1 DEF ListsOK, RankingOK
  <2> QED BY <1>4, <1>5b, <2>1, <2>2, MergesAllowed
<1>10. PICK lists : lists = Append(me.lists, fused)
  OBVIOUS
<1>11. lists \in Seq(S) /\ ListsOK(request, lists)
  <2>1. me.lists \in Seq(S) /\ ListsOK(request, me.lists) /\ fused \in S
    BY <1>me, <1>2, <1>8, <1>9 DEF SearcherOK, RankingOK
  <2>2. /\ lists \in Seq(S) /\ Len(lists) = Len(me.lists) + 1 /\ lists[Len(me.lists) + 1] = fused
        /\ \A i \in 1..Len(me.lists) : lists[i] = me.lists[i]
    BY <1>10, <2>1, AppendProperties
  <2>3. DOMAIN me.lists = 1..Len(me.lists) /\ DOMAIN lists = 1..Len(lists) /\ Len(me.lists) \in Nat
    BY <2>1, <2>2
  <2>4. \A i \in DOMAIN lists : i \in 1..Len(me.lists) \/ i = Len(me.lists) + 1
    BY <2>2, <2>3
  <2> QED BY <1>9, <2>1, <2>2, <2>3, <2>4 DEF ListsOK
<1>12. RankingOK(request, merged)
  BY <1>4, <1>5c, <1>10, <1>11, MergesAllowed
<1>13. PICK blind, kept : blind = (documents = <<>>) /\ kept = IF next = "reranking" THEN merged ELSE <<>>
  OBVIOUS
<1>14. RankingOK(request, kept)
  BY <1>12, <1>13, EmptyRanking
<1>15. PICK to : to = [me EXCEPT !.phase = next, !.lists = lists, !.blind = blind, !.merged = kept]
  OBVIOUS
<1>16. /\ DOMAIN to = SearcherFields /\ to.phase = next /\ to.request = request /\ to.found = me.found
       /\ to.snapshot = me.snapshot /\ to.lists = lists /\ to.merged = kept
  BY <1>me, <1>2, <1>15 DEF SearcherOK, SearcherFields
<1>17. SearcherOK(to)
  BY <1>me, <1>2, <1>5, <1>8, <1>11, <1>14, <1>16 DEF SearcherOK
<1>18. reading' = [reading EXCEPT ![r] = to]
  BY <1>me, <1>5, <1>10, <1>13, <1>15
<1> QED BY <1>1, <1>17, <1>18, ReaderMoves DEF QueryEmbedded

LEMMA ReaderHolds ==
  ASSUME IndexIInv, \A ranking \in RerankOrders : ranking \in Seq(Nat) /\ IsInjective(ranking),
         NEW r \in IndexReaders,
         \/ KeywordSearch(r) \/ SearchStarts(r) \/ QueriesKnown(r)
         \/ QueryEmbedded(r) \/ SearchReranked(r) \/ SearchFails(r)
  PROVE  IndexIInv'
<1>1. PICK me : me = reading[r]
  OBVIOUS
<1>2. SearcherOK(me) /\ documents \in Contents /\ keywordIndex \in Contents
      /\ CandidateK \in Nat /\ ResultK \in Nat
  BY <1>1, IndexAssumption DEF IndexIInv
<1>3. CASE KeywordSearch(r)
  <2>1. PICK request, ranked :
          /\ ranked \in Rankings(KeywordHits(keywordIndex, request.query, request))
          /\ reading' = [reading EXCEPT ![r] = [@ EXCEPT !.phase = "done", !.request = request,
                                                         !.queries = <<request.query>>, !.found = ranked]]
    BY <1>3 DEF KeywordSearch
  <2>2. me = IdleReader /\ UNCHANGED <<documents, embeddings, keywordIndex, writing>>
    BY <1>1, <1>2, <1>3 DEF KeywordSearch, SearcherOK
  <2>3. RankingOK(request, ranked)
    BY <1>2, <2>1, KeywordHitsFacts, RankingsAllowed
  <2>4. PICK to : to = [me EXCEPT !.phase = "done", !.request = request,
                                  !.queries = <<request.query>>, !.found = ranked]
    OBVIOUS
  <2>5. /\ DOMAIN to = SearcherFields /\ to.phase = "done" /\ to.request = request /\ to.found = ranked
        /\ to.snapshot = me.snapshot /\ to.lists = me.lists /\ to.merged = me.merged
    BY <1>2, <2>4 DEF SearcherOK, SearcherFields
  <2>6. me.lists = <<>> /\ me.merged = <<>>
    BY <2>2 DEF IdleReader
  <2>7. SearcherOK(to)
    BY <1>2, <2>3, <2>5, <2>6, EmptyRanking DEF SearcherOK, ListsOK
  <2> QED BY <1>1, <2>1, <2>2, <2>4, <2>7, ReaderMoves
<1>4. CASE SearchStarts(r)
  <2>1. PICK request \in Requests :
          reading' = [reading EXCEPT ![r] = [IdleReader EXCEPT !.phase = "rewriting", !.request = request,
                                                               !.snapshot = documents]]
    BY <1>4 DEF SearchStarts
  <2>2. UNCHANGED <<documents, embeddings, keywordIndex, writing>>
    BY <1>4 DEF SearchStarts
  <2>3. PICK to : to = [IdleReader EXCEPT !.phase = "rewriting", !.request = request, !.snapshot = documents]
    OBVIOUS
  <2>4. /\ DOMAIN to = SearcherFields /\ to.phase = "rewriting" /\ to.request = request
        /\ to.snapshot = documents /\ to.lists = <<>> /\ to.merged = <<>> /\ to.found = <<>>
    BY <2>3 DEF IdleReader, SearcherFields
  <2>5. SearcherOK(to)
    BY <1>2, <2>4, EmptyRanking DEF SearcherOK, ListsOK
  <2> QED BY <2>1, <2>2, <2>3, <2>5, ReaderMoves
<1>5. CASE QueriesKnown(r)
  <2>1. PICK extra : reading' = [reading EXCEPT ![r] = [@ EXCEPT !.phase = "embedding", !.blind = (documents = <<>>),
                                                        !.queries = <<reading[r].request.query>> \o extra]]
    BY <1>5 DEF QueriesKnown
  <2>2. UNCHANGED <<documents, embeddings, keywordIndex, writing>>
    BY <1>5 DEF QueriesKnown
  <2>3. PICK queries, blind : queries = <<reading[r].request.query>> \o extra /\ blind = (documents = <<>>)
    OBVIOUS
  <2>4. PICK to : to = [me EXCEPT !.phase = "embedding", !.blind = blind, !.queries = queries]
    OBVIOUS
  <2>5. /\ DOMAIN to = SearcherFields /\ to.phase = "embedding" /\ to.request = me.request
        /\ to.snapshot = me.snapshot /\ to.lists = me.lists /\ to.merged = me.merged /\ to.found = me.found
    BY <1>2, <2>4 DEF SearcherOK, SearcherFields
  <2>6. SearcherOK(to)
    BY <1>2, <2>5 DEF SearcherOK
  <2>7. reading' = [reading EXCEPT ![r] = to]
    BY <1>1, <2>1, <2>3, <2>4
  <2> QED BY <2>2, <2>6, <2>7, ReaderMoves
<1>6. CASE QueryEmbedded(r)
  BY <1>6, EmbeddedHolds
<1>7. CASE SearchReranked(r)
  <2>1. PICK ranking \in RerankOrders :
          reading' = [reading EXCEPT ![r] = [@ EXCEPT !.phase = "done",
                         !.found = FirstOf(Reranked(reading[r].merged, ranking), ResultK)]]
    BY <1>7 DEF SearchReranked
  <2>2. UNCHANGED <<documents, embeddings, keywordIndex, writing>>
    BY <1>7 DEF SearchReranked
  <2>3. PICK found : found = FirstOf(Reranked(me.merged, ranking), ResultK)
    OBVIOUS
  <2>4. RankingOK(me.request, me.merged)
    BY <1>2 DEF SearcherOK
  <2>5. RankingOK(me.request, found)
    BY <1>2, <2>3, <2>4, RerankedAllowed, FirstFacts
  <2>6. PICK to : to = [me EXCEPT !.phase = "done", !.found = found]
    OBVIOUS
  <2>7. /\ DOMAIN to = SearcherFields /\ to.phase = "done" /\ to.request = me.request /\ to.found = found
        /\ to.snapshot = me.snapshot /\ to.lists = me.lists /\ to.merged = me.merged
    BY <1>2, <2>6 DEF SearcherOK, SearcherFields
  <2>8. SearcherOK(to)
    BY <1>2, <2>5, <2>7 DEF SearcherOK
  <2>9. reading' = [reading EXCEPT ![r] = to]
    BY <1>1, <2>1, <2>3, <2>6
  <2> QED BY <2>2, <2>8, <2>9, ReaderMoves
<1>8. CASE SearchFails(r)
  <2>1. reading' = [reading EXCEPT ![r].phase = "failed"]
        /\ UNCHANGED <<documents, embeddings, keywordIndex, writing>>
    BY <1>8 DEF SearchFails
  <2>2. PICK to : to = [me EXCEPT !.phase = "failed"]
    OBVIOUS
  <2>3. /\ DOMAIN to = SearcherFields /\ to.phase = "failed" /\ to.request = me.request /\ to.found = me.found
        /\ to.snapshot = me.snapshot /\ to.lists = me.lists /\ to.merged = me.merged
    BY <1>2, <2>2 DEF SearcherOK, SearcherFields
  <2>4. SearcherOK(to)
    BY <1>2, <2>3 DEF SearcherOK
  <2>5. reading' = [reading EXCEPT ![r] = to]
    BY <1>1, <2>1, <2>2
  <2> QED BY <2>1, <2>4, <2>5, ReaderMoves
<1> QED BY <1>3, <1>4, <1>5, <1>6, <1>7, <1>8

LEMMA IndexStepHolds ==
  ASSUME \A ranking \in RerankOrders : ranking \in Seq(Nat) /\ IsInjective(ranking),
         IndexIInv, [IndexNext]_indexVars
  PROVE  IndexIInv'
<1>1. CASE UNCHANGED indexVars
  BY <1>1 DEF indexVars, IndexIInv
<1>2. ASSUME NEW w \in IndexWriters,
             UpsertStarts(w) \/ UpsertEnds(w) \/ UpsertFails(w) \/ DeleteDocuments(w)
      PROVE  IndexIInv'
  BY <1>2, WriterHolds
<1>3. ASSUME NEW r \in IndexReaders,
             \/ KeywordSearch(r) \/ SearchStarts(r) \/ QueriesKnown(r)
             \/ QueryEmbedded(r) \/ SearchReranked(r) \/ SearchFails(r)
      PROVE  IndexIInv'
  BY <1>3, ReaderHolds
<1> QED BY <1>1, <1>2, <1>3 DEF IndexNext

LEMMA KeywordsStepHolds ==
  ASSUME ~EmbedMayFail, IndexIInv, KeywordsAreCurrent, [IndexNext]_indexVars
  PROVE  KeywordsAreCurrent'
<1>1. CASE UNCHANGED indexVars
  BY <1>1 DEF indexVars, KeywordsAreCurrent
<1>2. ASSUME NEW w \in IndexWriters,
             UpsertStarts(w) \/ UpsertEnds(w) \/ UpsertFails(w) \/ DeleteDocuments(w)
      PROVE  KeywordsAreCurrent'
  BY <1>2, WriterKeepsKeywords
<1>3. ASSUME NEW r \in IndexReaders,
             \/ KeywordSearch(r) \/ SearchStarts(r) \/ QueriesKnown(r)
             \/ QueryEmbedded(r) \/ SearchReranked(r) \/ SearchFails(r)
      PROVE  KeywordsAreCurrent'
  <2>1. UNCHANGED <<documents, keywordIndex, writing>>
    BY <1>3 DEF KeywordSearch, SearchStarts, QueriesKnown, QueryEmbedded, SearchReranked, SearchFails
  <2> QED BY <2>1 DEF KeywordsAreCurrent
<1> QED BY <1>1, <1>2, <1>3 DEF IndexNext

LEMMA IndexImplies == IndexIInv => IndexTypeOK /\ FoundIsAllowed
<1> SUFFICES ASSUME IndexIInv PROVE IndexTypeOK /\ FoundIsAllowed
  OBVIOUS
<1>1. IndexTypeOK
  BY DEF IndexIInv, IndexTypeOK, SearcherOK
<1>2. ASSUME NEW r \in IndexReaders
      PROVE  /\ \A n \in DOMAIN reading[r].found : Matches(reading[r].request, reading[r].found[n].doc)
             /\ \A n, m \in DOMAIN reading[r].found :
                  n # m => reading[r].found[n].id # reading[r].found[m].id
  <2>1. PICK request, found : request = reading[r].request /\ found = reading[r].found
    OBVIOUS
  <2>2. RankingOK(request, found)
    BY <2>1 DEF IndexIInv, SearcherOK
  <2>3. /\ \A n \in DOMAIN found : found[n] \in AllowedHits(request)
        /\ \A n, m \in DOMAIN found : n # m => found[n].id # found[m].id
    BY <2>2 DEF RankingOK
  <2> QED BY <2>1, <2>3 DEF AllowedHits
<1> QED BY <1>1, <1>2 DEF FoundIsAllowed

(* Whatever documents, writers, readers and queries there are: what a      *)
(* search answers passes its filter and names no document twice, if no     *)
(* reranker names a position twice.                                        *)
THEOREM AllowedIsFound ==
  ASSUME \A ranking \in RerankOrders : ranking \in Seq(Nat) /\ IsInjective(ranking)
  PROVE  IndexSpec => []FoundIsAllowed
<1>1. IndexInit => IndexIInv
  BY IndexInitHolds
<1>2. IndexIInv /\ [IndexNext]_indexVars => IndexIInv'
  BY IndexStepHolds
<1>3. IndexIInv => FoundIsAllowed
  BY IndexImplies
<1> QED BY <1>1, <1>2, <1>3, PTL DEF IndexSpec

--------------------------------------------------------------------------------
(***************************************************************************)
(* graph: both tables stay sound, whatever is written and deleted.         *)
(***************************************************************************)
EntityRow == [id : Nat \ {0}, name : GraphNames, type : EntityTypes, aliases : SUBSET GraphNames]
RelationRow == [id : Nat \ {0}, source : Nat, target : Nat, type : RelationTypes]

(* A table without two rows of one identity or one meaning.                *)
OneEntity(t) == \A n, m \in DOMAIN t : n # m =>
  t[n].id # t[m].id /\ (t[n].name # t[m].name \/ t[n].type # t[m].type)
OneRelation(t) == \A n, m \in DOMAIN t : n # m =>
  /\ t[n].id # t[m].id
  /\ t[n].source # t[m].source \/ t[n].target # t[m].target \/ t[n].type # t[m].type
EntityTable(t) == t \in Seq(EntityRow) /\ OneEntity(t)
JoinedTo(t, ids) == \A n \in DOMAIN t : t[n].source \in ids /\ t[n].target \in ids
RelationTable(t, ids) == t \in Seq(RelationRow) /\ OneRelation(t) /\ JoinedTo(t, ids)

GraphIInv ==
  /\ EntityTable(entities) /\ RelationTable(relations, Ids(entities))
  /\ graphCalls \in 0..MaxGraphCalls

LEMMA FirstPlaceIs ==
  ASSUME NEW I, I \subseteq Nat
  PROVE  (FirstPlace(I) = 0 /\ I = {}) \/ FirstPlace(I) \in I
<1>1. CASE I = {}
  BY <1>1 DEF FirstPlace
<1>2. CASE I # {}
  <2>1. \E n \in I : \A m \in I : n <= m
    BY <1>2, LeastIs
  <2> QED BY <1>2, <2>1 DEF FirstPlace
<1> QED BY <1>1, <1>2

LEMMA IdsAre ==
  ASSUME NEW S, NEW t \in Seq(S)
  PROVE  Ids(t) = {t[n].id : n \in DOMAIN t}
BY DEF Ids, ToSet

(* A row put into a table stands at k; the others are as they were.        *)
PutAt(new, t, row, k) ==
  /\ k \in DOMAIN new /\ new[k] = row /\ DOMAIN new = DOMAIN t \cup {k}
  /\ \A n \in DOMAIN new \ {k} : n \in DOMAIN t /\ new[n] = t[n] /\ t[n].id # row.id
  /\ k \in DOMAIN t => t[k].id = row.id

LEMMA PutRowIs ==
  ASSUME NEW S, NEW t \in Seq(S), NEW row \in S,
         \A n, m \in DOMAIN t : n # m => t[n].id # t[m].id
  PROVE  PutRow(t, row) \in Seq(S) /\ \E k : PutAt(PutRow(t, row), t, row, k)
<1>1. Len(t) \in Nat /\ DOMAIN t = 1..Len(t)
  OBVIOUS
<1>2. PICK I, n : I = {m \in DOMAIN t : t[m].id = row.id} /\ n = FirstPlace(I)
  OBVIOUS
<1>3. (n = 0 /\ I = {}) \/ n \in I
  <2>1. I \subseteq Nat
    BY <1>1, <1>2
  <2> QED BY <1>2, <2>1, FirstPlaceIs
<1>4. PutRow(t, row) = IF n = 0 THEN Append(t, row) ELSE [t EXCEPT ![n] = row]
  BY <1>2 DEF PutRow
<1>5. CASE n = 0
  <2>1. I = {}
    BY <1>1, <1>2, <1>3, <1>5
  <2>2. PICK new : new = Append(t, row)
    OBVIOUS
  <2>3. /\ new \in Seq(S) /\ Len(new) = Len(t) + 1 /\ new[Len(t) + 1] = row
        /\ \A i \in 1..Len(t) : new[i] = t[i]
    BY <2>2, AppendProperties
  <2>4. DOMAIN new = 1..(Len(t) + 1) /\ Len(t) + 1 \notin 1..Len(t)
        /\ 1..(Len(t) + 1) = (1..Len(t)) \cup {Len(t) + 1}
    BY <1>1, <2>3
  <2>5. PutAt(new, t, row, Len(t) + 1)
    BY <1>1, <1>2, <2>1, <2>3, <2>4 DEF PutAt
  <2> QED BY <1>4, <1>5, <2>2, <2>3, <2>5
<1>6. CASE n # 0
  <2>1. n \in DOMAIN t /\ t[n].id = row.id
    BY <1>2, <1>3, <1>6
  <2>2. PICK new : new = [t EXCEPT ![n] = row]
    OBVIOUS
  <2>3. new \in Seq(S) /\ DOMAIN new = DOMAIN t /\ new[n] = row /\ \A i \in DOMAIN t \ {n} : new[i] = t[i]
    BY <1>1, <2>1, <2>2
  <2>4. PutAt(new, t, row, n)
    BY <2>1, <2>3 DEF PutAt
  <2> QED BY <1>4, <1>6, <2>2, <2>3, <2>4
<1> QED BY <1>5, <1>6

(* An entity is stored: the table stays sound, no identity is lost, and    *)
(* the name stands for an entity of the table.                             *)
LEMMA WithEntityIs ==
  ASSUME NEW t, EntityTable(t), NEW name \in GraphNames, NEW type \in EntityTypes,
         NEW aliases \in SUBSET GraphNames, NEW new, new = WithEntity(t, name, type, aliases)
  PROVE  /\ EntityTable(new) /\ Ids(t) \subseteq Ids(new)
         /\ type = "concept" /\ aliases = {} => EntityOf(new, name) \in Ids(new)
<1>1. t \in Seq(EntityRow) /\ Len(t) \in Nat /\ DOMAIN t = 1..Len(t) /\ OneEntity(t)
  BY DEF EntityTable
<1>2. PICK I, n : I = {m \in DOMAIN t : StandsFor(t[m], name, type, aliases)} /\ n = FirstPlace(I)
  OBVIOUS
<1>3. (n = 0 /\ I = {}) \/ n \in I
  <2>1. I \subseteq Nat
    BY <1>1, <1>2
  <2> QED BY <1>2, <2>1, FirstPlaceIs
<1>4. PICK row : row = NewRow(name, type, aliases, t)
  OBVIOUS
<1>5. row \in EntityRow /\ row.name = name /\ row.type = type
  BY <1>1, <1>4 DEF NewRow, EntityRow
<1>6. new = IF n = 0 THEN PutRow(t, row) ELSE [t EXCEPT ![n].aliases = @ \cup aliases]
  BY <1>2, <1>4 DEF WithEntity, Resolved
<1>7. Ids(t) = {t[m].id : m \in DOMAIN t}
  BY <1>1, IdsAre
<1>8. ASSUME EntityTable(new), NEW k \in DOMAIN new, StandsFor(new[k], name, "concept", {})
      PROVE  EntityOf(new, name) \in Ids(new)
  <2>1. PICK J : J = {m \in DOMAIN new : StandsFor(new[m], name, "concept", {})}
    OBVIOUS
  <2>2. J \subseteq Nat /\ J # {} /\ new \in Seq(EntityRow)
    BY <1>8, <2>1 DEF EntityTable
  <2>3. FirstPlace(J) \in DOMAIN new
    BY <2>1, <2>2, FirstPlaceIs
  <2>4. EntityOf(new, name) = new[FirstPlace(J)].id
    BY <2>1 DEF EntityOf, Resolved
  <2>5. Ids(new) = {new[m].id : m \in DOMAIN new}
    BY <2>2, IdsAre
  <2> QED BY <2>3, <2>4, <2>5
<1>9. CASE n = 0
  <2>1. I = {} /\ new = PutRow(t, row)
    BY <1>1, <1>2, <1>3, <1>6, <1>9
  <2>2. \A i, m \in DOMAIN t : i # m => t[i].id # t[m].id
    BY <1>1 DEF OneEntity
  <2>3. PICK k : new \in Seq(EntityRow) /\ PutAt(new, t, row, k)
    BY <1>1, <1>5, <2>1, <2>2, PutRowIs
  <2>4. \A m \in DOMAIN t : t[m].name # name \/ t[m].type # type
    BY <1>2, <2>1 DEF StandsFor
  <2>5. OneEntity(new)
    BY <1>1, <1>5, <2>3, <2>4 DEF OneEntity, PutAt
  <2>6. EntityTable(new)
    BY <2>3, <2>5 DEF EntityTable
  <2>7. Ids(new) = {new[m].id : m \in DOMAIN new}
    BY <2>3, IdsAre
  <2>8. Ids(t) \subseteq Ids(new)
    BY <1>7, <2>3, <2>7 DEF PutAt
  <2>9. k \in DOMAIN new /\ StandsFor(new[k], name, "concept", {})
    BY <1>5, <2>3 DEF PutAt, StandsFor
  <2> QED BY <1>8, <2>6, <2>8, <2>9
<1>10. CASE n # 0
  <2>1. n \in DOMAIN t /\ StandsFor(t[n], name, type, aliases)
    BY <1>2, <1>3, <1>10
  <2>2. t[n] \in EntityRow
    BY <1>1, <2>1
  <2>3. PICK to : to = [t[n] EXCEPT !.aliases = @ \cup aliases]
    OBVIOUS
  <2>4. to \in EntityRow /\ to.id = t[n].id /\ to.name = t[n].name /\ to.type = t[n].type
        /\ to.aliases = t[n].aliases \cup aliases
    BY <2>2, <2>3 DEF EntityRow
  <2>5. new = [t EXCEPT ![n] = to]
    BY <1>6, <1>10, <2>3
  <2>6. new \in Seq(EntityRow) /\ DOMAIN new = DOMAIN t /\ new[n] = to
        /\ \A m \in DOMAIN t \ {n} : new[m] = t[m]
    BY <1>1, <2>1, <2>4, <2>5
  <2>7. \A m \in DOMAIN t : new[m].id = t[m].id /\ new[m].name = t[m].name /\ new[m].type = t[m].type
    BY <2>4, <2>6
  <2>8. EntityTable(new)
    BY <1>1, <2>6, <2>7 DEF EntityTable, OneEntity
  <2>9. Ids(new) = {new[m].id : m \in DOMAIN new}
    BY <2>6, IdsAre
  <2>10. Ids(t) \subseteq Ids(new)
    BY <1>7, <2>6, <2>7, <2>9
  <2>11. ASSUME type = "concept", aliases = {} PROVE StandsFor(new[n], name, "concept", {})
    BY <2>1, <2>4, <2>6, <2>11 DEF StandsFor
  <2> QED BY <1>8, <2>1, <2>6, <2>8, <2>10, <2>11
<1> QED BY <1>1, <1>3, <1>9, <1>10

(* A relation is stored between entities of the table.                     *)
LEMMA WithRelationIs ==
  ASSUME NEW ids \in SUBSET Nat, NEW t, RelationTable(t, ids), NEW source \in ids, NEW target \in ids,
         NEW type \in RelationTypes
  PROVE  RelationTable(WithRelation(t, source, target, type), ids)
<1>1. t \in Seq(RelationRow) /\ Len(t) \in Nat /\ DOMAIN t = 1..Len(t) /\ OneRelation(t) /\ JoinedTo(t, ids)
  BY DEF RelationTable
<1>2. CASE \E row \in ToSet(t) : row.source = source /\ row.target = target /\ row.type = type
  BY <1>2 DEF WithRelation
<1>3. CASE ~\E row \in ToSet(t) : row.source = source /\ row.target = target /\ row.type = type
  <2>1. PICK row : row = [id |-> Len(t) + 1, source |-> source, target |-> target, type |-> type]
    OBVIOUS
  <2>2. row \in RelationRow /\ row.source = source /\ row.target = target /\ row.type = type
    BY <1>1, <2>1 DEF RelationRow
  <2>3. \A n, m \in DOMAIN t : n # m => t[n].id # t[m].id
    BY <1>1 DEF OneRelation
  <2>4. PICK new : new = PutRow(t, row)
    OBVIOUS
  <2>5. PICK k : new \in Seq(RelationRow) /\ PutAt(new, t, row, k)
    BY <1>1, <2>2, <2>3, <2>4, PutRowIs
  <2>6. \A n \in DOMAIN t : t[n].source # source \/ t[n].target # target \/ t[n].type # type
    BY <1>3 DEF ToSet
  <2>7. OneRelation(new)
    BY <1>1, <2>2, <2>5, <2>6 DEF OneRelation, PutAt
  <2>8. JoinedTo(new, ids)
    BY <1>1, <2>2, <2>5 DEF JoinedTo, PutAt
  <2>9. WithRelation(t, source, target, type) = new
    BY <1>3, <2>1, <2>4 DEF WithRelation
  <2> QED BY <2>5, <2>7, <2>8, <2>9 DEF RelationTable
<1> QED BY <1>2, <1>3

LEMMA JoinedMore ==
  ASSUME NEW t, NEW ids, RelationTable(t, ids), NEW more, ids \subseteq more
  PROVE  RelationTable(t, more)
BY DEF RelationTable, JoinedTo

(* The rows kept of a table, and where they stood.                         *)
KeptFrom(kept, t, I, at) ==
  /\ \A n \in DOMAIN kept : at[n] \in I /\ kept[n] = t[at[n]]
  /\ \A n, m \in DOMAIN kept : n # m => at[n] # at[m]
  /\ \A i \in I : \E n \in DOMAIN kept : kept[n] = t[i]

(* What is kept of a table.                                                *)
LEMMA KeptRows ==
  ASSUME NEW S, NEW t \in Seq(S), NEW I \in SUBSET DOMAIN t, NEW kept, kept = Keeping(t, I)
  PROVE  /\ kept \in Seq(S)
         /\ \E at : KeptFrom(kept, t, I, at)
<1>1. PICK at : KeepsAt(kept, t, I, at)
  BY KeepingKeeps
<1>2. kept \in Seq(S) /\ Len(kept) \in Nat /\ DOMAIN kept = 1..Len(kept)
  BY KeepingKeeps
<1>3. \A n \in DOMAIN kept : at[n] \in I /\ kept[n] = t[at[n]]
  BY <1>1, <1>2 DEF KeepsAt
<1>4. \A n, m \in DOMAIN kept : n # m => at[n] # at[m]
  <2> SUFFICES ASSUME NEW n \in DOMAIN kept, NEW m \in DOMAIN kept, n # m PROVE at[n] # at[m]
    OBVIOUS
  <2>1. n \in 1..Len(kept) /\ m \in 1..Len(kept) /\ n \in Int /\ m \in Int
    BY <1>2
  <2>2. at[n] \in DOMAIN t /\ at[m] \in DOMAIN t
    BY <1>3
  <2>3. at[n] \in Int /\ at[m] \in Int
    BY <2>2
  <2>4. CASE n < m
    BY <1>1, <2>1, <2>3, <2>4 DEF KeepsAt
  <2>5. CASE m < n
    BY <1>1, <2>1, <2>3, <2>5 DEF KeepsAt
  <2> QED BY <2>1, <2>4, <2>5
<1>5. \A i \in I : \E n \in DOMAIN kept : kept[n] = t[i]
  BY <1>1, <1>2, <1>3 DEF KeepsAt
<1> QED BY <1>2, <1>3, <1>4, <1>5 DEF KeptFrom

LEMMA KeptEntities ==
  ASSUME NEW t, EntityTable(t), NEW id, NEW kept, kept = WithoutRow(t, id)
  PROVE  EntityTable(kept) /\ Ids(t) \ {id} \subseteq Ids(kept)
<1>1. t \in Seq(EntityRow) /\ OneEntity(t)
  BY DEF EntityTable
<1>2. PICK I : I = {n \in DOMAIN t : t[n].id # id}
  OBVIOUS
<1>3. I \in SUBSET DOMAIN t /\ kept = Keeping(t, I)
  BY <1>2 DEF WithoutRow
<1>4. kept \in Seq(EntityRow)
  BY <1>1, <1>3, KeptRows
<1>5. PICK at : KeptFrom(kept, t, I, at)
  BY <1>1, <1>3, KeptRows
<1>6. OneEntity(kept)
  BY <1>1, <1>3, <1>5 DEF OneEntity, KeptFrom
<1>7. Ids(t) = {t[n].id : n \in DOMAIN t} /\ Ids(kept) = {kept[n].id : n \in DOMAIN kept}
  BY <1>1, <1>4, IdsAre
<1>8. Ids(t) \ {id} \subseteq Ids(kept)
  BY <1>2, <1>5, <1>7 DEF KeptFrom
<1> QED BY <1>4, <1>6, <1>8 DEF EntityTable

(* A smaller table of relations, whose ends are left.                      *)
LEMMA KeptRelations ==
  ASSUME NEW ids, NEW t, RelationTable(t, ids), NEW I \in SUBSET DOMAIN t, NEW left,
         \A n \in I : t[n].source \in left /\ t[n].target \in left
  PROVE  RelationTable(Keeping(t, I), left)
<1>1. t \in Seq(RelationRow) /\ OneRelation(t)
  BY DEF RelationTable
<1>2. PICK kept : kept = Keeping(t, I)
  OBVIOUS
<1>4. kept \in Seq(RelationRow)
  BY <1>1, <1>2, KeptRows
<1>5. PICK at : KeptFrom(kept, t, I, at)
  BY <1>1, <1>2, KeptRows
<1>6. OneRelation(kept)
  BY <1>1, <1>5 DEF OneRelation, KeptFrom
<1>7. JoinedTo(kept, left)
  BY <1>5 DEF JoinedTo, KeptFrom
<1> QED BY <1>2, <1>4, <1>6, <1>7 DEF RelationTable

(* Loading of the source items, from a table.                              *)
LoadedTables(ids) ==
  {s \in [table : Seq(EntityRow), failed : BOOLEAN] : OneEntity(s.table) /\ ids \subseteq Ids(s.table)}

LEMMA LoadItemIs ==
  ASSUME NEW ids, NEW acc \in LoadedTables(ids), NEW n \in 1..Len(SourceItems)
  PROVE  LoadItem(acc, SourceItems[n]) \in LoadedTables(ids)
<1>1. PICK item : item = SourceItems[n]
  OBVIOUS
<1>2. item \in [name : GraphNames, type : EntityTypes]
  <2>1. PICK T : T = [name : GraphNames, type : EntityTypes]
    OBVIOUS
  <2>2. SourceItems \in Seq(T)
    BY <2>1, GraphAssumption
  <2>3. n \in 1..Len(SourceItems)
    OBVIOUS
  <2>4. SourceItems[n] \in T
    BY <2>2, <2>3
  <2> QED BY <1>1, <2>1, <2>4
<1>3. item.name \in GraphNames /\ item.type \in EntityTypes
  BY <1>2
<1>4. acc.table \in Seq(EntityRow) /\ OneEntity(acc.table) /\ ids \subseteq Ids(acc.table)
  BY DEF LoadedTables
<1>5. PICK new : new = WithEntity(acc.table, item.name, item.type, {})
  OBVIOUS
<1>6. EntityTable(new) /\ Ids(acc.table) \subseteq Ids(new)
  <2>1. {} \in SUBSET GraphNames /\ EntityTable(acc.table)
    BY <1>4 DEF EntityTable
  <2> QED BY <1>3, <1>5, <2>1, WithEntityIs
<1>7. \A t, b : t \in Seq(EntityRow) /\ OneEntity(t) /\ ids \subseteq Ids(t) /\ b \in BOOLEAN
                => [table |-> t, failed |-> b] \in LoadedTables(ids)
  BY DEF LoadedTables
<1>8. LoadItem(acc, item) \in {[table |-> acc.table, failed |-> TRUE], [table |-> new, failed |-> FALSE]}
  BY <1>5 DEF LoadItem
<1>9. new \in Seq(EntityRow) /\ OneEntity(new) /\ ids \subseteq Ids(new)
  BY <1>4, <1>6 DEF EntityTable
<1>10. [table |-> acc.table, failed |-> TRUE] \in LoadedTables(ids)
  BY <1>4, <1>7
<1>11. [table |-> new, failed |-> FALSE] \in LoadedTables(ids)
  BY <1>7, <1>9
<1> QED BY <1>1, <1>8, <1>10, <1>11

LEMMA SourcesAre ==
  ASSUME NEW t, EntityTable(t)
  PROVE  EntityTable(SourcesLoaded(t)) /\ Ids(t) \subseteq Ids(SourcesLoaded(t))
<1>1. PICK ids, N, S, a : /\ ids = Ids(t) /\ N = Len(SourceItems) /\ S = LoadedTables(ids)
                          /\ a = [table |-> t, failed |-> FALSE]
  OBVIOUS
<1>2. N \in Nat /\ a \in S
  BY <1>1, GraphAssumption DEF LoadedTables, EntityTable
<1>3. PICK step : step = [n \in 1..N |-> [s \in S |-> LoadItem(s, SourceItems[n])]]
  OBVIOUS
<1>4. AreSteps(step, N, S)
  <2>1. \A n \in 1..N : \A s \in S : LoadItem(s, SourceItems[n]) \in S
    BY <1>1, LoadItemIs
  <2> QED BY <1>3, <2>1 DEF AreSteps
<1>5. PICK f \in [0..N -> S] : f[0] = a /\ \A n \in 1..N : f[n] = step[n][f[n - 1]]
  <2>1. N \in Nat /\ a \in S /\ AreSteps(step, N, S)
    BY <1>2, <1>4
  <2>2. \E f \in [0..N -> S] : f[0] = a /\ \A n \in 1..N : f[n] = step[n][f[n - 1]]
    BY <2>1, StepsExist
  <2> QED BY <2>2
<1>6. \A n \in 1..N : f[n] = LoadItem(f[n - 1], SourceItems[n])
  <2> SUFFICES ASSUME NEW n \in 1..N PROVE f[n] = LoadItem(f[n - 1], SourceItems[n])
    OBVIOUS
  <2>1. f[n - 1] \in S
    BY <1>2, <1>5
  <2> QED BY <1>3, <1>5, <2>1
<1> DEFINE Is(g) == g = [n \in 0..N |-> IF n = 0 THEN a ELSE LoadItem(g[n - 1], SourceItems[n])]
<1>7. Is(f)
  <2>1. \A n \in 0..N : n # 0 => n \in 1..N
    BY <1>2
  <2>2. \A n \in 0..N : f[n] = IF n = 0 THEN a ELSE LoadItem(f[n - 1], SourceItems[n])
    BY <1>5, <1>6, <2>1
  <2> QED BY <1>5, <2>2
<1>8. ItemsLoaded(t) = CHOOSE g : Is(g)
  BY <1>1 DEF ItemsLoaded
<1>9. PICK g : g = ItemsLoaded(t) /\ Is(g)
  <2> HIDE DEF Is
  <2> QED BY <1>7, <1>8
<1>10. g[0] = a /\ \A n \in 1..N : g[n] = LoadItem(g[n - 1], SourceItems[n])
  <2>1. \A n \in 0..N : g[n] = IF n = 0 THEN a ELSE LoadItem(g[n - 1], SourceItems[n])
    BY <1>9
  <2>2. 0 \in 0..N /\ \A n \in 1..N : n \in 0..N /\ n # 0
    BY <1>2
  <2> QED BY <2>1, <2>2
<1>11. \A n \in 1..N : g[n - 1] \in S => g[n] \in S
  BY <1>1, <1>10, LoadItemIs
<1>12. g[N] \in S
  <2>1. \A n \in 0..N : g[n] \in S
    BY <1>2, <1>10, <1>11, StepsStay
  <2> QED BY <1>2, <2>1
<1>13. SourcesLoaded(t) = g[N].table
  BY <1>1, <1>9 DEF SourcesLoaded
<1> QED BY <1>1, <1>12, <1>13 DEF LoadedTables, EntityTable

LEMMA IdsAreNumbers == ASSUME NEW t, EntityTable(t) PROVE Ids(t) \in SUBSET Nat
<1>1. t \in Seq(EntityRow) /\ Ids(t) = {t[n].id : n \in DOMAIN t}
  BY IdsAre DEF EntityTable
<1>2. \A n \in DOMAIN t : t[n] \in EntityRow
  BY <1>1
<1> QED BY <1>1, <1>2 DEF EntityRow

LEMMA GraphInitHolds == GraphInit => GraphIInv
<1> SUFFICES ASSUME GraphInit PROVE GraphIInv
  OBVIOUS
<1>1. entities = <<>> /\ relations = <<>> /\ graphCalls = 0
  BY DEF GraphInit
<1>2. EntityTable(<<>>) /\ \A ids : RelationTable(<<>>, ids)
  BY DEF EntityTable, RelationTable, OneEntity, OneRelation, JoinedTo
<1> QED BY <1>1, <1>2, GraphAssumption DEF GraphIInv

LEMMA GraphStepHolds ==
  ASSUME GraphIInv, [GraphNext]_graphVars
  PROVE  GraphIInv'
<1>1. CASE UNCHANGED graphVars
  BY <1>1 DEF graphVars, GraphIInv
<1>2. PICK E, R : E = entities /\ R = relations
  OBVIOUS
<1>3. PICK newE, newR : newE = entities' /\ newR = relations'
  OBVIOUS
<1>4. EntityTable(E) /\ RelationTable(R, Ids(E)) /\ graphCalls \in 0..MaxGraphCalls /\ MaxGraphCalls \in Nat
  BY <1>2, GraphAssumption DEF GraphIInv
<1>5. ASSUME EntityTable(newE), RelationTable(newR, Ids(newE)), Call(1) PROVE GraphIInv'
  <2>1. graphCalls' \in 0..MaxGraphCalls
    BY <1>4, <1>5 DEF Call
  <2>2. Ids(entities)' = Ids(newE)
    BY <1>3 DEF Ids
  <2> QED BY <1>3, <1>5, <2>1, <2>2 DEF GraphIInv
<1>6. CASE GraphUpsertEntity
  <2>1. newR = R /\ Call(1)
    BY <1>2, <1>3, <1>6 DEF GraphUpsertEntity
  <2>2. PICK name \in GraphNames, type \in EntityTypes, aliases \in AliasSets :
          newE \in {E, WithEntity(E, name, type, aliases)}
    BY <1>2, <1>3, <1>6 DEF GraphUpsertEntity
  <2>3. aliases \in SUBSET GraphNames
    BY GraphAssumption
  <2>4. EntityTable(newE) /\ Ids(E) \subseteq Ids(newE)
    BY <1>4, <2>2, <2>3, WithEntityIs
  <2>5. RelationTable(newR, Ids(newE))
    BY <1>4, <2>1, <2>4, JoinedMore
  <2> QED BY <1>5, <2>1, <2>4, <2>5
<1>7. CASE GraphUpsertRelation
  <2>1. Call(1)
    BY <1>7 DEF GraphUpsertRelation
  <2>2. PICK source \in GraphNames, target \in GraphNames, type \in RelationTypes : \E one, two :
          /\ one = WithEntity(E, source, "concept", {}) /\ two = WithEntity(one, target, "concept", {})
          /\ \/ newE = E /\ newR = R
             \/ newE = two /\ newR = WithRelation(R, EntityOf(one, source), EntityOf(two, target), type)
    BY <1>2, <1>3, <1>7 DEF GraphUpsertRelation
  <2>9. PICK one, two :
          /\ one = WithEntity(E, source, "concept", {}) /\ two = WithEntity(one, target, "concept", {})
          /\ \/ newE = E /\ newR = R
             \/ newE = two /\ newR = WithRelation(R, EntityOf(one, source), EntityOf(two, target), type)
    BY <2>2
  <2>3. "concept" \in EntityTypes /\ {} \in SUBSET GraphNames
    BY GraphAssumption
  <2>4. EntityTable(one) /\ Ids(E) \subseteq Ids(one) /\ EntityOf(one, source) \in Ids(one)
    BY <1>4, <2>9, <2>3, WithEntityIs
  <2>5. EntityTable(two) /\ Ids(one) \subseteq Ids(two) /\ EntityOf(two, target) \in Ids(two)
    BY <2>9, <2>3, <2>4, WithEntityIs
  <2>6. PICK ids, s, t : ids = Ids(two) /\ s = EntityOf(one, source) /\ t = EntityOf(two, target)
    OBVIOUS
  <2>7. RelationTable(R, ids) /\ s \in ids /\ t \in ids /\ ids \in SUBSET Nat
    <3>1. Ids(E) \subseteq ids
      BY <2>4, <2>5, <2>6
    <3> QED BY <1>4, <2>4, <2>5, <2>6, <3>1, JoinedMore, IdsAreNumbers
  <2>8. RelationTable(WithRelation(R, s, t, type), ids)
    BY <2>7, WithRelationIs
  <2> QED BY <1>4, <1>5, <2>1, <2>9, <2>5, <2>6, <2>8
<1>8. CASE GraphDeleteEntity
  <2>1. Call(1)
    BY <1>8 DEF GraphDeleteEntity
  <2>2. PICK id : newE = WithoutRow(E, id) /\ newR = Unjoined(R, id)
    BY <1>2, <1>3, <1>8 DEF GraphDeleteEntity
  <2>3. EntityTable(newE) /\ Ids(E) \ {id} \subseteq Ids(newE)
    BY <1>4, <2>2, KeptEntities
  <2>4. PICK I, left : I = {n \in DOMAIN R : id \notin {R[n].source, R[n].target}} /\ left = Ids(newE)
    OBVIOUS
  <2>5. I \in SUBSET DOMAIN R /\ \A n \in I : R[n].source \in left /\ R[n].target \in left
    BY <1>4, <2>3, <2>4 DEF RelationTable, JoinedTo
  <2>6. RelationTable(Keeping(R, I), left)
    BY <1>4, <2>5, KeptRelations
  <2>7. RelationTable(newR, left)
    BY <2>2, <2>4, <2>6 DEF Unjoined
  <2> QED BY <1>5, <2>1, <2>3, <2>4, <2>7
<1>9. CASE GraphDeleteRelation
  <2>1. Call(1) /\ newE = E
    BY <1>2, <1>3, <1>9 DEF GraphDeleteRelation
  <2>2. PICK id : newR = WithoutRow(R, id)
    BY <1>2, <1>3, <1>9 DEF GraphDeleteRelation
  <2>3. PICK I, left : I = {n \in DOMAIN R : R[n].id # id} /\ left = Ids(E)
    OBVIOUS
  <2>4. I \in SUBSET DOMAIN R /\ \A n \in I : R[n].source \in left /\ R[n].target \in left
    BY <1>4, <2>3 DEF RelationTable, JoinedTo
  <2>5. RelationTable(Keeping(R, I), left)
    BY <1>4, <2>4, KeptRelations
  <2>6. RelationTable(newR, left)
    BY <2>2, <2>3, <2>5 DEF WithoutRow
  <2> QED BY <1>4, <1>5, <2>1, <2>3, <2>6
<1>10. CASE GraphReloadSources
  <2>1. Call(1) /\ newR = R /\ newE = SourcesLoaded(E)
    BY <1>2, <1>3, <1>10 DEF GraphReloadSources
  <2>2. EntityTable(newE) /\ Ids(E) \subseteq Ids(newE)
    BY <1>4, <2>1, SourcesAre
  <2>3. RelationTable(newR, Ids(newE))
    BY <1>4, <2>1, <2>2, JoinedMore
  <2> QED BY <1>5, <2>1, <2>2, <2>3
<1> QED BY <1>1, <1>6, <1>7, <1>8, <1>9, <1>10 DEF GraphNext

LEMMA GraphImplies == GraphIInv => GraphTypeOK /\ GraphIsSound
<1> SUFFICES ASSUME GraphIInv PROVE GraphTypeOK /\ GraphIsSound
  OBVIOUS
<1>1. entities \in Seq(EntityRow) /\ relations \in Seq(RelationRow) /\ graphCalls \in 0..MaxGraphCalls
  BY DEF GraphIInv, EntityTable, RelationTable
<1>2. ToSet(entities) \subseteq EntityRow /\ ToSet(relations) \subseteq RelationRow
  BY <1>1 DEF ToSet
<1>3. GraphTypeOK
  BY <1>1, <1>2 DEF GraphTypeOK, EntityRow, RelationRow
<1>4. GraphIsSound
  BY DEF GraphIInv, EntityTable, RelationTable, OneEntity, OneRelation, JoinedTo, GraphIsSound, ToSet
<1> QED BY <1>3, <1>4

(* Whatever is written, deleted and loaded: every relation joins entities  *)
(* of the graph, and no row of a table repeats another.                    *)
THEOREM GraphStaysSound == GraphSpec => [](GraphTypeOK /\ GraphIsSound)
<1>1. GraphInit => GraphIInv
  BY GraphInitHolds
<1>2. GraphIInv /\ [GraphNext]_graphVars => GraphIInv'
  BY GraphStepHolds
<1>3. GraphIInv => GraphTypeOK /\ GraphIsSound
  BY GraphImplies
<1> QED BY <1>1, <1>2, <1>3, PTL DEF GraphSpec

--------------------------------------------------------------------------------
(***************************************************************************)
(* mcp: while runs do not start during another one's connecting, the       *)
(* servers before the one it is at are listed and connected.               *)
(***************************************************************************)

(* A server whose tools are in a list, by a connection that is open.       *)
Listed(s, list, conns, open) ==
  ToolsOf[s] \subseteq list /\ s \in DOMAIN conns /\ conns[s] \in open

McpShape ==
  /\ mcpReady \in BOOLEAN /\ connects \in 0..MaxConnects
  /\ openConns \subseteq 1..MaxConnects
  /\ DOMAIN connections \subseteq AllServers
  /\ mcpTools \subseteq UNION {ToolsOf[s] : s \in AllServers}
  /\ connecting \in [McpRuns -> [phase : {"idle", "connecting", "running", "failed"},
                                 server : DOMAIN Servers, conn : Nat]]

McpProgress ==
  /\ \A r, s \in McpRuns :
       connecting[r].phase = "connecting" /\ connecting[s].phase = "connecting" => r = s
  /\ \A r \in McpRuns : connecting[r].phase = "connecting" =>
       /\ ~mcpReady
       /\ connecting[r].conn # 0 => connecting[r].conn \in openConns
       /\ \A n \in DOMAIN Servers : n < connecting[r].server =>
            Listed(Servers[n], mcpTools, connections, openConns)
  /\ \A r \in McpRuns : connecting[r].phase = "running" => mcpReady
  /\ mcpReady => \A s \in AllServers : Listed(s, registered, connections, openConns)

McpIInv == McpShape /\ McpProgress

LEMMA ServersFacts ==
  /\ Len(Servers) \in Nat \ {0} /\ DOMAIN Servers = 1..Len(Servers)
  /\ \A n \in DOMAIN Servers : Servers[n] \in AllServers
  /\ \A s \in AllServers : \E n \in DOMAIN Servers : Servers[n] = s
<1>1. Servers \in Seq(DOMAIN ToolsOf) /\ Servers # <<>>
  BY McpAssumption
<1>2. Len(Servers) \in Nat /\ DOMAIN Servers = 1..Len(Servers) /\ Len(Servers) # 0
  BY <1>1
<1> QED BY <1>2 DEF AllServers, ToSet

LEMMA McpInitHolds == McpInit => McpIInv
<1> SUFFICES ASSUME McpInit PROVE McpIInv
  OBVIOUS
<1>1. 1 \in DOMAIN Servers /\ MaxConnects \in Nat
  BY ServersFacts, McpAssumption
<1>2. DOMAIN connections = {}
  BY DEF McpInit
<1>3. McpShape
  <2>1. connecting \in [McpRuns -> [phase : {"idle", "connecting", "running", "failed"},
                                   server : DOMAIN Servers, conn : Nat]]
    BY <1>1 DEF McpInit, At
  <2>2. mcpReady = FALSE /\ connects = 0 /\ openConns = {} /\ mcpTools = {}
    BY DEF McpInit
  <2>3. 0 \in 0..MaxConnects
    BY <1>1
  <2>4. mcpReady \in BOOLEAN /\ connects \in 0..MaxConnects
    BY <2>2, <2>3
  <2>5. openConns \subseteq 1..MaxConnects /\ DOMAIN connections \subseteq AllServers
        /\ mcpTools \subseteq UNION {ToolsOf[s] : s \in AllServers}
    BY <2>2, <1>2
  <2> QED BY <2>1, <2>4, <2>5 DEF McpShape
<1>4. McpProgress
  BY DEF McpInit, McpProgress, At
<1> QED BY <1>3, <1>4 DEF McpIInv

LEMMA RunStartsHolds ==
  ASSUME McpIInv, ~RunsOverlap, NEW r \in McpRuns, McpRunStarts(r)
  PROVE  McpIInv'
<1> DEFINE to == At(IF mcpReady THEN "running" ELSE "connecting", 1, 0)
<1>1. connecting' = [connecting EXCEPT ![r] = to]
  BY DEF McpRunStarts
<1>2. 1 \in DOMAIN Servers /\ MaxConnects \in Nat
  BY ServersFacts, McpAssumption
<1>3. McpShape'
  BY <1>1, <1>2 DEF McpIInv, McpShape, McpRunStarts, At
<1>4. \A s \in McpRuns : connecting[s].phase # "connecting"
  BY DEF McpRunStarts
<1>5. connecting'[r].phase = (IF mcpReady THEN "running" ELSE "connecting")
      /\ connecting'[r].server = 1 /\ connecting'[r].conn = 0
      /\ \A s \in McpRuns \ {r} : connecting'[s] = connecting[s]
  BY <1>1 DEF McpIInv, McpShape, At
<1>6. \A n \in DOMAIN Servers : ~(n < 1)
  BY ServersFacts
<1>7. McpProgress'
  BY <1>4, <1>5, <1>6 DEF McpIInv, McpProgress, McpRunStarts
<1> QED BY <1>3, <1>7 DEF McpIInv

LEMMA ConnectsHolds ==
  ASSUME McpIInv, NEW r \in McpRuns, ServerConnects(r)
  PROVE  McpIInv'
<1>1. connecting' = [connecting EXCEPT ![r].conn = connects + 1]
      /\ openConns' = openConns \cup {connects + 1} /\ connects' = connects + 1
  BY DEF ServerConnects
<1>2. connects + 1 \in 1..MaxConnects /\ MaxConnects \in Nat
  BY McpAssumption DEF ServerConnects, McpIInv, McpShape
<1>3. McpShape'
  BY <1>1, <1>2 DEF McpIInv, McpShape, ServerConnects
<1>4. connecting'[r].phase = connecting[r].phase /\ connecting'[r].server = connecting[r].server
      /\ connecting'[r].conn = connects + 1
      /\ \A s \in McpRuns \ {r} : connecting'[s] = connecting[s]
  BY <1>1 DEF McpIInv, McpShape
<1>5. McpProgress'
  BY <1>1, <1>4 DEF McpIInv, McpProgress, ServerConnects, Listed
<1> QED BY <1>3, <1>5 DEF McpIInv

LEMMA ListsHolds ==
  ASSUME McpIInv, NEW r \in McpRuns, ServerLists(r)
  PROVE  McpIInv'
<1> DEFINE at == connecting[r].server
           server == Servers[at]
           conn == connecting[r].conn
           last == at = Len(Servers)
<1>1. at \in DOMAIN Servers /\ server \in AllServers /\ conn \in openConns /\ ~mcpReady
  BY ServersFacts DEF ServerLists, McpIInv, McpShape, McpProgress
<1>2. /\ mcpTools' = mcpTools \cup ToolsOf[server]
      /\ connections' = Connected(server, conn)
      /\ mcpReady' = (mcpReady \/ last)
      /\ registered' = IF last THEN registered \cup mcpTools' ELSE registered
      /\ openConns' = openConns /\ connects' = connects
  BY DEF ServerLists
<1>3. /\ DOMAIN connections' = {server} \cup DOMAIN connections
      /\ connections'[server] = conn
      /\ \A s \in DOMAIN connections : s # server => connections'[s] = connections[s]
  BY <1>2 DEF Connected
<1>4. connecting' = [connecting EXCEPT ![r] = IF last THEN At("running", at, conn)
                                              ELSE At("connecting", at + 1, 0)]
  BY DEF ServerLists
<1>5. /\ \A s \in McpRuns \ {r} : connecting'[s] = connecting[s]
      /\ last => connecting'[r].phase = "running" /\ connecting'[r].server = at
                 /\ connecting'[r].conn = conn
      /\ ~last => connecting'[r].phase = "connecting" /\ connecting'[r].server = at + 1
                  /\ connecting'[r].conn = 0
  BY <1>4 DEF McpIInv, McpShape, At
<1>6. connecting' \in [McpRuns -> [phase : {"idle", "connecting", "running", "failed"},
                                   server : DOMAIN Servers, conn : Nat]]
  <2>1. ~last => at + 1 \in DOMAIN Servers
    BY <1>1, ServersFacts
  <2> QED BY <1>4, <2>1, <1>1 DEF McpIInv, McpShape, At
<1>7. McpShape'
  <2>1. mcpReady' \in BOOLEAN
    BY <1>2 DEF McpIInv, McpShape
  <2>2. mcpTools' \subseteq UNION {ToolsOf[s] : s \in AllServers}
    BY <1>1, <1>2 DEF McpIInv, McpShape
  <2>3. DOMAIN connections' \subseteq AllServers
    BY <1>1, <1>3 DEF McpIInv, McpShape
  <2> QED BY <1>2, <1>6, <2>1, <2>2, <2>3 DEF McpIInv, McpShape
<1>8. \A n \in DOMAIN Servers : n <= at =>
        Listed(Servers[n], mcpTools', connections', openConns')
  <2> SUFFICES ASSUME NEW n \in DOMAIN Servers, n <= at
               PROVE  Listed(Servers[n], mcpTools', connections', openConns')
    OBVIOUS
  <2>1. CASE Servers[n] = server
    BY <2>1, <1>1, <1>2, <1>3 DEF Listed
  <2>2. CASE Servers[n] # server
    <3>1. n < at
      BY <2>2, <1>1, ServersFacts
    <3>2. Listed(Servers[n], mcpTools, connections, openConns)
      BY <3>1 DEF ServerLists, McpIInv, McpProgress
    <3> QED BY <2>2, <3>2, <1>2, <1>3 DEF Listed
  <2> QED BY <2>1, <2>2
<1>9. mcpReady' => \A s \in AllServers : Listed(s, registered', connections', openConns')
  <2> SUFFICES ASSUME last, NEW s \in AllServers
               PROVE  Listed(s, registered', connections', openConns')
    BY <1>1, <1>2
  <2>1. PICK n \in DOMAIN Servers : Servers[n] = s
    BY ServersFacts
  <2>2. n <= at
    BY ServersFacts
  <2> QED BY <2>1, <2>2, <1>8, <1>2 DEF Listed
<1>10. connecting[r].phase = "connecting"
  BY DEF ServerLists
<1>11. \A s \in McpRuns : connecting'[s].phase = "connecting" => s = r /\ ~last
  BY <1>5, <1>10 DEF McpIInv, McpProgress
<1>12. \A s \in McpRuns : connecting'[s].phase = "running" => mcpReady'
  BY <1>1, <1>2, <1>5, <1>10 DEF McpIInv, McpProgress
<1>13. ~last => \A n \in DOMAIN Servers : n < connecting'[r].server =>
                  Listed(Servers[n], mcpTools', connections', openConns')
  BY <1>1, <1>5, <1>8, ServersFacts
<1>14. McpProgress'
  BY <1>1, <1>2, <1>5, <1>9, <1>11, <1>12, <1>13 DEF McpProgress
<1> QED BY <1>7, <1>14 DEF McpIInv

LEMMA FailsHolds ==
  ASSUME McpIInv, NEW r \in McpRuns, ServerFails(r)
  PROVE  McpIInv'
<1>1. connecting' = [connecting EXCEPT ![r].phase = "failed"]
  BY DEF ServerFails
<1>2. McpShape'
  BY <1>1 DEF McpIInv, McpShape, ServerFails
<1>3. \A s \in McpRuns : connecting[s].phase = "connecting" => s = r
  BY DEF McpIInv, McpProgress, ServerFails
<1>4. connecting'[r].phase = "failed" /\ \A s \in McpRuns \ {r} : connecting'[s] = connecting[s]
  BY <1>1 DEF McpIInv, McpShape
<1>5. McpProgress'
  BY <1>3, <1>4 DEF McpIInv, McpProgress, ServerFails
<1> QED BY <1>2, <1>5 DEF McpIInv

LEMMA ClosesHolds == ASSUME McpIInv, McpCloses PROVE McpIInv'
<1>1. 1 \in DOMAIN Servers /\ MaxConnects \in Nat
  BY ServersFacts, McpAssumption
<1>2. connecting' = [r \in McpRuns |-> At("idle", 1, 0)]
      /\ mcpReady' = FALSE /\ connections' = <<>> /\ openConns' \subseteq openConns
      /\ mcpTools' = mcpTools /\ connects' = connects
  BY DEF McpCloses
<1>3. DOMAIN connections' = {}
  BY <1>2
<1>4. McpShape'
  BY <1>1, <1>2, <1>3 DEF McpIInv, McpShape, At
<1>5. McpProgress'
  BY <1>2 DEF McpProgress, At
<1> QED BY <1>4, <1>5 DEF McpIInv

LEMMA McpStepHolds == ASSUME ~RunsOverlap, McpIInv, [McpNext]_mcpVars PROVE McpIInv'
<1>1. CASE McpNext
  BY <1>1, RunStartsHolds, ConnectsHolds, ListsHolds, FailsHolds, ClosesHolds DEF McpNext
<1>2. CASE UNCHANGED mcpVars
  BY <1>2 DEF mcpVars, McpIInv, McpShape, McpProgress
<1> QED BY <1>1, <1>2

LEMMA McpImplies == McpIInv => McpTypeOK /\ RunsHaveAllTools
BY DEF McpIInv, McpShape, McpProgress, McpTypeOK, RunsHaveAllTools, Listed

(* A run that goes on has every tool of every server registered, each with *)
(* a connection that is open, whatever failed in the runs before it and    *)
(* however often the plugin was closed, as long as no run starts while     *)
(* another one connects.                                                   *)
THEOREM ToolsAreThere ==
  ASSUME ~RunsOverlap PROVE McpSpec => [](McpTypeOK /\ RunsHaveAllTools)
<1>1. McpIInv /\ [McpNext]_mcpVars => McpIInv'
  BY McpStepHolds
<1> QED BY <1>1, McpInitHolds, McpImplies, PTL DEF McpSpec

--------------------------------------------------------------------------------
(* Together: each component keeps its invariant, whichever of them runs.   *)

RuntimeIInv ==
  /\ IInv
  /\ ArtifactIInv /\ CheckpointIInv /\ StoresIInv /\ RateIInv /\ StreamIInv /\ SandboxIInv

(* A step is one of the component that runs; the others stutter.           *)
LEMMA RuntimeSteps ==
  ASSUME [MCNext]_mcVars
  PROVE  /\ [Next]_vars
         /\ [ArtifactNext]_artVars /\ [CheckpointNext]_ckVars /\ [StoresNext]_storesVars
         /\ [RateNext]_rateVars /\ [StreamNext]_streamVars /\ [SandboxNext]_sandboxVars
BY DEF MCNext, mcVars

LEMMA RuntimeInitHolds == MCInit => RuntimeIInv
BY InitIInv, ArtifactInitHolds, CheckpointInitHolds, StoresInitHolds, RateInitHolds, StreamInitHolds,
   SandboxInitHolds DEF MCInit, RuntimeIInv

LEMMA RuntimeStepHolds ==
  ASSUME IndexGiven, RuntimeIInv, [MCNext]_mcVars
  PROVE  RuntimeIInv'
<1>1. ArtifactIInv' /\ CheckpointIInv' /\ StoresIInv'
  BY RuntimeSteps, ArtifactStepKeeps, CheckpointStepHolds, StoresStepHolds DEF RuntimeIInv
<1>2. RateIInv' /\ StreamIInv' /\ SandboxIInv'
  BY RuntimeSteps, RateStepHolds, StreamStepHolds, SandboxStepHolds DEF RuntimeIInv
<1>3. IInv'
  BY RuntimeSteps, NextIInv DEF RuntimeIInv
<1> QED BY <1>1, <1>2, <1>3 DEF RuntimeIInv

LEMMA RuntimeImplies == ASSUME IndexGiven, RuntimeIInv PROVE RuntimeHolds
BY ArtifactImplies, CheckpointImplies, StoresImply, RateImplies, StreamImplies, SandboxImplies
   DEF RuntimeIInv, RuntimeHolds, IInv

(* Every component of the runtime that the run of the agent's parts checks *)
(* keeps its promise, for any instance of them, if the provider numbers    *)
(* its parallel calls.                                                     *)
THEOREM RuntimeStays == ASSUME IndexGiven PROVE MCSpec => []RuntimeHolds
<1>1. RuntimeIInv /\ [MCNext]_mcVars => RuntimeIInv'
  BY RuntimeStepHolds
<1>2. RuntimeIInv => RuntimeHolds
  BY RuntimeImplies
<1> QED BY <1>1, <1>2, RuntimeInitHolds, PTL DEF MCSpec

(* A durable artifact leaves the store only when it is deleted by its id.  *)
THEOREM DurableStay == MCSpec => DurableKept
<1>1. MCInit => ArtifactIInv
  BY RuntimeInitHolds DEF RuntimeIInv
<1>2. ArtifactIInv /\ [MCNext]_mcVars => ArtifactIInv'
  BY RuntimeSteps, ArtifactStepKeeps
<1>3. ArtifactIInv /\ [MCNext]_mcVars =>
        [\A a \in ToSet(order) : entryOf[a].durable =>
           a \in ToSet(order') \/ (order' = Omitting(order, {a}) /\ ~evicting)]_artVars
  BY RuntimeSteps, ArtifactStepKeeps DEF Kept
<1> QED BY <1>1, <1>2, <1>3, PTL DEF MCSpec, DurableKept

--------------------------------------------------------------------------------
(* The plugins together.                                                   *)

PluginsIInv ==
  /\ MemoryIInv /\ TraceIInv /\ ChatIInv /\ CompressIInv
  /\ ApprovalIInv /\ GuardsIInv /\ SkillIInv /\ FormatIInv
  /\ KnowledgeIInv /\ IndexIInv /\ KeywordsAreCurrent
  /\ FileIInv /\ GraphIInv /\ McpIInv

(* What the plugins need to keep their promises: a process that serves one *)
(* scope of memory and one conversation, and does not lose its cache;      *)
(* request ids that are not given out twice; rounds whose tools all answer *)
(* with something, and alike; one source of knowledge, embeddings that do  *)
(* not fail, rerankers that name no position twice; and runs of an agent   *)
(* that do not overlap while it connects to its servers.                   *)
OneRanking == \A ranking \in RerankOrders : ranking \in Seq(Nat) /\ IsInjective(ranking)
PluginsMayRely ==
  /\ OneScope /\ MaxRestarts = 0 /\ OneTalk /\ Talks # {}
  /\ ~IdsReused /\ ResultsAlike
  /\ OneSource /\ ~EmbedMayFail /\ OneRanking
  /\ ~RunsOverlap

LEMMA PluginsSteps ==
  ASSUME [MCNext]_mcVars
  PROVE  /\ [MemoryNext]_memVars /\ [TraceNext]_trVars /\ [ContextNext]_chat
         /\ [CompressNext]_compressVars /\ [ApprovalNext]_approvalVars /\ [GuardsNext]_guardVars
         /\ [SkillNext]_skillVars /\ [FormatNext]_formatVars
         /\ [KnowledgeNext]_knowledgeVars /\ [IndexNext]_indexVars
         /\ [FileNext]_fileVars /\ [GraphNext]_graphVars /\ [McpNext]_mcpVars
BY DEF MCNext, mcVars

LEMMA PluginsInitHolds == MCInit => PluginsIInv
<1> SUFFICES ASSUME MCInit PROVE PluginsIInv
  OBVIOUS
<1>1. MemoryIInv /\ TraceIInv /\ ChatIInv /\ CompressIInv
  BY MemoryInitIInv, TraceInitHolds, ChatInitHolds, CompressInitHolds DEF MCInit
<1>2. ApprovalIInv /\ GuardsIInv /\ SkillIInv /\ FormatIInv
  BY ApprovalInitIInv, GuardsInitIInv, SkillInitHolds, FormatInitHolds DEF MCInit
<1>3. KnowledgeIInv /\ IndexIInv
  BY KnowledgeInitHolds, IndexInitHolds DEF MCInit
<1>4. KeywordsAreCurrent
  BY DEF MCInit, IndexInit, KeywordsAreCurrent
<1>5. FileIInv /\ GraphIInv /\ McpIInv
  BY FileInitHolds, GraphInitHolds, McpInitHolds DEF MCInit
<1> QED BY <1>1, <1>2, <1>3, <1>4, <1>5 DEF PluginsIInv

LEMMA PluginsStepHolds ==
  ASSUME PluginsMayRely, PluginsIInv, [MCNext]_mcVars
  PROVE  PluginsIInv'
<1>1. MemoryIInv' /\ TraceIInv'
  BY PluginsSteps, MemoryNextIInv, TraceStepHolds DEF PluginsIInv, PluginsMayRely
<1>2. ChatIInv' /\ CompressIInv'
  BY PluginsSteps, ChatStepHolds, CompressStepHolds DEF PluginsIInv, PluginsMayRely
<1>3. ApprovalIInv' /\ GuardsIInv'
  BY PluginsSteps, ApprovalNextIInv, GuardsNextIInv DEF PluginsIInv, PluginsMayRely
<1>4. SkillIInv' /\ FormatIInv'
  BY PluginsSteps, SkillStepHolds, FormatStepHolds DEF PluginsIInv
<1>5. KnowledgeIInv'
  BY PluginsSteps, KnowledgeStepHolds DEF PluginsIInv
<1>6. IndexIInv' /\ KeywordsAreCurrent'
  BY PluginsSteps, IndexStepHolds, KeywordsStepHolds DEF PluginsIInv, PluginsMayRely, OneRanking
<1>7. FileIInv' /\ GraphIInv' /\ McpIInv'
  BY PluginsSteps, FileStepHolds, GraphStepHolds, McpStepHolds DEF PluginsIInv, PluginsMayRely
<1> QED BY <1>1, <1>2, <1>3, <1>4, <1>5, <1>6, <1>7 DEF PluginsIInv

LEMMA PluginsImplies == ASSUME PluginsMayRely, PluginsIInv PROVE PluginsHold
<1>1. MemoryTypeOK /\ TraceTypeOK /\ SpansAccounted
  BY DEF PluginsIInv, MemoryIInv, TraceIInv
<1>2. ContextTypeOK /\ CallsAreAnswered /\ CompressTypeOK /\ NothingForgotten
  BY ChatImplies, CompressImplies DEF PluginsIInv, PluginsMayRely
<1>3. ApprovalTypeOK /\ GuardsTypeOK
  BY DEF PluginsIInv, ApprovalIInv, GuardsIInv
<1>4. SkillTypeOK /\ SkillsAccounted /\ FormatTypeOK /\ ContractKept
  BY SkillImplies DEF PluginsIInv, FormatIInv
<1>5. KnowledgeTypeOK /\ AnswersAreWhole /\ ShownIsFound
  BY KnowledgeImplies DEF PluginsIInv, PluginsMayRely
<1>6. IndexTypeOK /\ KeywordsAreCurrent
  BY IndexImplies DEF PluginsIInv
<1>7. FileTypeOK /\ EditIsLocal /\ WholeIsWhole /\ GraphTypeOK /\ GraphIsSound
  BY FileImplies, GraphImplies DEF PluginsIInv
<1>8. McpTypeOK /\ RunsHaveAllTools
  BY McpImplies DEF PluginsIInv
<1> QED BY <1>1, <1>2, <1>3, <1>4, <1>5, <1>6, <1>7, <1>8 DEF PluginsHold

(* Every plugin that the run of the agent's parts checks keeps its         *)
(* promise, for any instance of it that may rely on the above.             *)
THEOREM PluginsStay == ASSUME PluginsMayRely PROVE MCSpec => []PluginsHold
<1>1. PluginsIInv /\ [MCNext]_mcVars => PluginsIInv'
  BY PluginsStepHolds
<1>2. PluginsIInv => PluginsHold
  BY PluginsImplies
<1> QED BY <1>1, <1>2, PluginsInitHolds, PTL DEF MCSpec
================================================================================
