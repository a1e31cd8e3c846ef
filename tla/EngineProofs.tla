------------------------------- MODULE EngineProofs ------------------------------
(***************************************************************************)
(* Proofs about what is around an agent.                                   *)
(*                                                                         *)
(* Services, for any teams, tasks, actors, cases and requests: the turns   *)
(* of a team of agents are fair and its result stays, nested calls and     *)
(* swarms are bounded and report every task, a simulation's timeline       *)
(* replays to its world, the store of evaluations has the newest results,  *)
(* and what a client is told agrees with the run.                          *)
(*                                                                         *)
(* The engine, for any agents, plugins, tools and calls: agents that call  *)
(* each other, what a caller is shown of a run, loading and unloading, the *)
(* order of plugins, the names of tools and the requests to an MCP server. *)
(*                                                                         *)
(* Each component has an inductive invariant of its own.  The last part    *)
(* puts them together, as the run of MCEngineParts has them.               *)
(***************************************************************************)
EXTENDS MCEngineParts, FiniteSetTheorems, SequenceTheorems, TLAPS

--------------------------------------------------------------------------------
(* Counting: how many there are up to a position gives it a place.         *)

(* Positions each with those up to it: how many there are gives the        *)
(* position a place of its own.                                            *)
IsOrder(I, upTo) ==
  /\ upTo \in [I -> SUBSET I]
  /\ \A i \in I : i \in upTo[i]
  /\ \A i, k \in I : \/ i = k
                     \/ upTo[i] \subseteq upTo[k] /\ k \notin upTo[i]
                     \/ upTo[k] \subseteq upTo[i] /\ i \notin upTo[k]

Places(I, upTo) == [i \in I |-> Cardinality(upTo[i])]

LEMMA FiniteInterval == \A n \in Nat : IsFiniteSet(1..n) /\ Cardinality(1..n) = n
<1>1. ASSUME NEW n \in Nat PROVE IsFiniteSet(1..n) /\ Cardinality(1..n) = n
  BY FS_Interval
<1> QED BY <1>1

LEMMA IntervalSize == \A x, y \in Int : x <= y => Cardinality(x..y) = y - x + 1
<1>1. ASSUME NEW x \in Int, NEW y \in Int, x <= y PROVE Cardinality(x..y) = y - x + 1
  BY <1>1, FS_Interval
<1> QED BY <1>1

LEMMA PlacesCount ==
  ASSUME NEW I, IsFiniteSet(I), NEW upTo, IsOrder(I, upTo)
  PROVE  /\ IsFiniteSet(I) /\ Cardinality(I) \in Nat
         /\ \A i \in I : Cardinality(upTo[i]) \in 1..Cardinality(I)
         /\ \A i, k \in I : Cardinality(upTo[i]) = Cardinality(upTo[k]) => i = k
         /\ \A m \in 1..Cardinality(I) : \E i \in I : Cardinality(upTo[i]) = m
<1>1. IsFiniteSet(I) /\ Cardinality(I) \in Nat
  BY FS_CardinalityType
<1>2. \A i \in I : IsFiniteSet(upTo[i]) /\ Cardinality(upTo[i]) \in 1..Cardinality(I)
  <2> SUFFICES ASSUME NEW i \in I
               PROVE  IsFiniteSet(upTo[i]) /\ Cardinality(upTo[i]) \in 1..Cardinality(I)
    OBVIOUS
  <2>1. i \in upTo[i] /\ upTo[i] \in SUBSET I
    BY DEF IsOrder
  <2>2. IsFiniteSet(upTo[i]) /\ Cardinality(upTo[i]) <= Cardinality(I)
    BY <1>1, <2>1, FS_Subset
  <2>3. Cardinality(upTo[i]) \in Nat /\ Cardinality(upTo[i]) # 0
    BY <2>1, <2>2, FS_CardinalityType, FS_EmptySet
  <2> QED BY <1>1, <2>2, <2>3
<1>3. Places(I, upTo) \in [I -> 1..Cardinality(I)]
  BY <1>2 DEF Places
<1>4. ASSUME NEW A, NEW B, IsFiniteSet(B), A \subseteq B, NEW k \in B, k \notin A
      PROVE  Cardinality(A) # Cardinality(B)
  BY <1>4, FS_Subset
<1>5. \A i, k \in I : Places(I, upTo)[i] = Places(I, upTo)[k] => i = k
  <2> SUFFICES ASSUME NEW i \in I, NEW k \in I, i # k
               PROVE  Cardinality(upTo[i]) # Cardinality(upTo[k])
    BY DEF Places
  <2>1. i \in upTo[i] /\ k \in upTo[k]
    BY DEF IsOrder
  <2>2. CASE upTo[i] \subseteq upTo[k] /\ k \notin upTo[i]
    BY <1>2, <1>4, <2>1, <2>2
  <2>3. CASE upTo[k] \subseteq upTo[i] /\ i \notin upTo[k]
    BY <1>2, <1>4, <2>1, <2>3
  <2> QED BY <2>2, <2>3 DEF IsOrder
<1>6. Places(I, upTo) \in Injection(I, 1..Cardinality(I))
  BY <1>3, <1>5 DEF Injection, IsInjective
<1>7. IsFiniteSet(1..Cardinality(I)) /\ Cardinality(1..Cardinality(I)) = Cardinality(I)
  BY <1>1, FS_Interval
<1>8. Places(I, upTo) \in Surjection(I, 1..Cardinality(I))
  BY <1>6, <1>7, FS_Injection
<1>9. \A m \in 1..Cardinality(I) : \E i \in I : Places(I, upTo)[i] = m
  BY <1>8 DEF Surjection
<1> QED BY <1>1, <1>2, <1>5, <1>9 DEF Places

LEMMA PairHasTwo == ASSUME NEW x, NEW y, x # y PROVE Cardinality({x, y}) = 2
<1>1. IsFiniteSet({x}) /\ Cardinality({x}) = 1 /\ {x, y} = {x} \cup {y}
  BY FS_Singleton
<1>2. Cardinality({x} \cup {y}) = Cardinality({x}) + 1
  BY <1>1, FS_AddElement
<1> QED BY <1>1, <1>2

--------------------------------------------------------------------------------
(* MultiAgent: speakers take fair turns.                                   *)

(* A worker that has not ended works on a task that is not over.           *)
WorkerServes ==
  /\ worker \in {"none", "ready", "running", "cancelling", "done"}
  /\ worker = "ready" => taskStatus = "pending"
  /\ worker = "running" => taskStatus = "running"
  /\ worker = "cancelling" => taskStatus \in {"pending", "running"}

(* A step keeps this, and leaves what is over as it ended.                 *)
LEMMA ServingStep ==
  ASSUME WorkerServes, [MultiAgentNext]_maVars
  PROVE  WorkerServes' /\ (taskStatus \in Final => UNCHANGED <<taskStatus, evt, turns>>)
<1>1. ASSUME Going, UNCHANGED <<taskStatus, worker>> PROVE WorkerServes' /\ taskStatus \notin Final
  BY <1>1 DEF WorkerServes, Going, Final
<1>2. ASSUME Going, Done(evt) PROVE WorkerServes' /\ taskStatus \notin Final
  BY <1>2 DEF WorkerServes, Going, Final, Done
<1>3. ASSUME UNCHANGED <<taskStatus, worker, evt, turns>>
      PROVE WorkerServes' /\ UNCHANGED <<taskStatus, evt, turns>>
  BY <1>3 DEF WorkerServes
<1>4. Stopped \/ ConditionMet => Going /\ Done(evt)
  BY DEF Stopped, ConditionMet
<1>5. SelectSpeakers \/ AskSpeaker \/ StopSession => Going /\ UNCHANGED <<taskStatus, worker>>
  BY DEF SelectSpeakers, AskSpeaker, StopSession
<1>6. RequestFails \/ (\E names \in ToSet(Workers) \cup {NoAgent} : Replies(names))
        => Going /\ UNCHANGED <<taskStatus, worker>>
  BY DEF RequestFails, Replies, AfterSpeaker
<1>7. ASSUME WorkerStarts \/ WorkerFails \/ WorkerCancelled
      PROVE  WorkerServes' /\ taskStatus \notin Final
  BY <1>7 DEF WorkerStarts, WorkerFails, WorkerCancelled, WorkerServes, Final
<1>8. ASSUME NEW start \in BOOLEAN, CreateTask(start)
      PROVE  WorkerServes' /\ taskStatus \notin Final
  BY <1>8 DEF CreateTask, WorkerServes, Final
<1>9. ASSUME CancelTask
      PROVE  WorkerServes' /\ (taskStatus \in Final => UNCHANGED <<taskStatus, evt, turns>>)
  BY <1>9 DEF CancelTask, WorkerServes, Final, sessionVars
<1>10. CASE UNCHANGED maVars
  BY <1>3, <1>10 DEF maVars, sessionVars
<1> QED BY <1>1, <1>2, <1>4, <1>5, <1>6, <1>7, <1>8, <1>9, <1>10 DEF MultiAgentNext, WorkerStep

(* An orchestration task that is over stays as it ended: a late cancel or  *)
(* failure takes nothing back.                                             *)
THEOREM ResultsStay == MultiAgentSpec => FinalStays
<1>1. MultiAgentInit => WorkerServes
  BY DEF MultiAgentInit, WorkerServes
<1>2. WorkerServes /\ [MultiAgentNext]_maVars => WorkerServes'
  BY ServingStep
<1>3. WorkerServes /\ [MultiAgentNext]_maVars => [(taskStatus \in Final) => UNCHANGED <<taskStatus, evt, turns>>]_maVars
  BY ServingStep
<1> QED BY <1>1, <1>2, <1>3, PTL DEF MultiAgentSpec, FinalStays
LEMMA Division ==
  ASSUME NEW m \in Nat, NEW n \in Nat \ {0}, NEW q \in Int, NEW r \in 0..(n - 1), m = n * q + r
  PROVE  m % n = r
<1> DEFINE p == m \div n
           s == m % n
<1>1. p \in Int /\ s \in 0..(n - 1) /\ m = n * p + s
  OBVIOUS
<1> HIDE DEF p, s
<1>2. n * (p - q) = r - s
  BY <1>1
<1>3. CASE p - q >= 1
  <2>1. n * (p - q) >= n * 1
    BY <1>1, <1>3
  <2> QED BY <1>1, <1>2, <2>1
<1>4. CASE p - q <= -1
  <2>1. n * (p - q) <= n * (-1)
    BY <1>1, <1>4
  <2> QED BY <1>1, <1>2, <2>1
<1>5. CASE p = q
  BY <1>1, <1>2, <1>5 DEF s
<1> QED BY <1>1, <1>3, <1>4, <1>5
LEMMA NextPosition == ASSUME NEW m \in Nat, NEW n \in Nat \ {0} PROVE (m + 1) % n = IF (m % n) + 1 = n THEN 0 ELSE (m % n) + 1
<1> DEFINE p == m \div n
           s == m % n
<1>1. p \in Int /\ s \in 0..(n - 1) /\ m = n * p + s
  OBVIOUS
<1> HIDE DEF p, s
<1>2. CASE s + 1 = n
  <2>1. m + 1 = n * (p + 1) + 0
    BY <1>1, <1>2
  <2>2. m + 1 \in Nat /\ p + 1 \in Int /\ 0 \in 0..(n - 1)
    BY <1>1
  <2>3. (m + 1) % n = 0
    BY <2>1, <2>2, Division
  <2> QED BY <1>2, <2>3 DEF s
<1>3. CASE s + 1 # n
  <2>1. m + 1 = n * p + (s + 1) /\ s + 1 \in 0..(n - 1)
    BY <1>1, <1>3
  <2>2. m + 1 \in Nat
    BY <1>1
  <2>3. (m + 1) % n = s + 1
    BY <1>1, <2>1, <2>2, Division
  <2> QED BY <1>3, <2>3 DEF s
<1> QED BY <1>2, <1>3

(* The places of a finite set of positions, counted.                       *)
Rank(I) == [i \in I |-> Cardinality({j \in I : j <= i})]

LEMMA RankCounts ==
  ASSUME NEW n \in Nat, NEW I \in SUBSET (1..n)
  PROVE  /\ IsFiniteSet(I) /\ Cardinality(I) \in Nat
         /\ Rank(I) \in [I -> 1..Cardinality(I)]
         /\ \A i, k \in I : i < k => Rank(I)[i] < Rank(I)[k]
         /\ \A m \in 1..Cardinality(I) : \E i \in I : Rank(I)[i] = m
<1>1. IsFiniteSet(I) /\ Cardinality(I) \in Nat
  <2>1. IsFiniteSet(1..n)
    BY FiniteInterval
  <2> QED BY <2>1, FS_Subset, FS_CardinalityType
<1>2. \A i \in I : IsFiniteSet({j \in I : j <= i}) /\ Cardinality({j \in I : j <= i}) \in 1..Cardinality(I)
  <2> SUFFICES ASSUME NEW i \in I
               PROVE  IsFiniteSet({j \in I : j <= i}) /\ Cardinality({j \in I : j <= i}) \in 1..Cardinality(I)
    OBVIOUS
  <2>1. i \in {j \in I : j <= i} /\ {j \in I : j <= i} \in SUBSET I
    OBVIOUS
  <2>2. IsFiniteSet({j \in I : j <= i}) /\ Cardinality({j \in I : j <= i}) <= Cardinality(I)
    BY <1>1, <2>1, FS_Subset
  <2>3. Cardinality({j \in I : j <= i}) \in Nat /\ Cardinality({j \in I : j <= i}) # 0
    BY <2>1, <2>2, FS_CardinalityType, FS_EmptySet
  <2> QED BY <1>1, <2>2, <2>3
<1>3. Rank(I) \in [I -> 1..Cardinality(I)]
  BY <1>2 DEF Rank
<1>4. ASSUME NEW i \in I, NEW k \in I, i < k PROVE Rank(I)[i] < Rank(I)[k]
  <2> DEFINE below(m) == {j \in I : j <= m}
  <2>1. below(i) \in SUBSET below(k) /\ k \in below(k) /\ k \notin below(i)
    <3>1. i \in Nat /\ k \in Nat /\ I \subseteq Nat
      OBVIOUS
    <3>2. \A j \in I : j <= i => j <= k
      BY <1>4, <3>1
    <3>3. k <= k /\ ~(k <= i)
      BY <1>4, <3>1
    <3> QED BY <3>2, <3>3
  <2>2. IsFiniteSet(below(k)) /\ Cardinality(below(k)) \in Nat /\ Cardinality(below(i)) \in Nat
    BY <1>2
  <2>3. Cardinality(below(i)) <= Cardinality(below(k)) /\ Cardinality(below(i)) # Cardinality(below(k))
    BY <2>1, <2>2, FS_Subset
  <2>4. Rank(I)[i] = Cardinality(below(i)) /\ Rank(I)[k] = Cardinality(below(k))
    BY DEF Rank
  <2> QED BY <2>2, <2>3, <2>4
<1>5. \A i, k \in I : Rank(I)[i] = Rank(I)[k] => i = k
  <2> SUFFICES ASSUME NEW i \in I, NEW k \in I, i # k PROVE Rank(I)[i] # Rank(I)[k]
    OBVIOUS
  <2>1. Rank(I)[i] \in Nat /\ Rank(I)[k] \in Nat /\ (i < k \/ k < i)
    BY <1>1, <1>3
  <2> QED BY <1>4, <2>1
<1>6. Rank(I) \in Injection(I, 1..Cardinality(I))
  BY <1>3, <1>5 DEF Injection, IsInjective
<1>7. IsFiniteSet(1..Cardinality(I)) /\ Cardinality(1..Cardinality(I)) = Cardinality(I)
  BY <1>1, FiniteInterval
<1>8. Rank(I) \in Surjection(I, 1..Cardinality(I))
  BY <1>6, <1>7, FS_Injection
<1> QED BY <1>1, <1>3, <1>4, <1>8 DEF Surjection

--------------------------------------------------------------------------------
(* Turns and who takes them.                                               *)

TeamSize == Len(Members)

LEMMA MembersFacts ==
  /\ TeamSize \in Nat /\ TeamSize >= 2 /\ Members \in Seq(AgentSet) /\ DOMAIN Members = 1..TeamSize
  /\ \A i, j \in 1..TeamSize : Members[i] = Members[j] => i = j
  /\ AgentSet = {Members[i] : i \in 1..TeamSize}
<1>1. Members \in Seq(AgentSet) /\ TeamSize >= 2 /\ IsInjective(Members)
  BY SessionAssumption DEF TeamSize
<1>2. TeamSize \in Nat /\ DOMAIN Members = 1..TeamSize
  BY <1>1 DEF TeamSize
<1> QED BY <1>1, <1>2 DEF IsInjective, AgentSet, ToSet

Pairs(S) == UNION {{x} \X (1..turns[x]) : x \in S}
Tally(S, n) == IsFiniteSet(Pairs(S)) /\ Cardinality(Pairs(S)) = n

LEMMA TallyStarts == ASSUME NEW S, \A x \in S : turns[x] = 0 PROVE Tally(S, 0)
<1>1. \A x \in S : 1..turns[x] = {}
  OBVIOUS
<1>2. Pairs(S) = {}
  BY <1>1 DEF Pairs
<1> QED BY <1>2, FS_EmptySet DEF Tally

(* A turn counts where who takes it does.                                  *)
LEMMA TallyStep ==
  ASSUME NEW S \in SUBSET AgentSet, NEW n \in Nat, Tally(S, n), NEW y \in AgentSet,
         turns \in [AgentSet -> Nat], turns' = [turns EXCEPT ![y] = @ + 1]
  PROVE  Tally(S, IF y \in S THEN n + 1 ELSE n)'
<1>1. \A x \in AgentSet : turns'[x] = IF x = y THEN turns[x] + 1 ELSE turns[x]
  OBVIOUS
<1>2. turns[y] \in Nat /\ 1..(turns[y] + 1) = (1..turns[y]) \cup {turns[y] + 1} /\ turns[y] + 1 \notin 1..turns[y]
  OBVIOUS
<1>3. CASE y \notin S
  <2>1. \A x \in S : turns'[x] = turns[x]
    BY <1>1, <1>3
  <2>2. Pairs(S)' = Pairs(S)
    BY <2>1 DEF Pairs
  <2> QED BY <1>3, <2>2 DEF Tally
<1>4. CASE y \in S
  <2> DEFINE new == <<y, turns[y] + 1>>
  <2>1. new \notin Pairs(S)
    BY <1>2 DEF Pairs
  <2>2. \A p : p \in Pairs(S)' <=> \E x \in S : p \in {x} \X (1..turns'[x])
    BY DEF Pairs
  <2>3. \A p : p \in Pairs(S) <=> \E x \in S : p \in {x} \X (1..turns[x])
    BY DEF Pairs
  <2>4. \A p, x : x \in S => (p \in {x} \X (1..turns'[x]) <=> (p \in {x} \X (1..turns[x]) \/ (x = y /\ p = new)))
    BY <1>1, <1>2
  <2>5. Pairs(S)' = Pairs(S) \cup {new}
    BY <1>4, <2>2, <2>3, <2>4
  <2>6. IsFiniteSet(Pairs(S)') /\ Cardinality(Pairs(S)') = Cardinality(Pairs(S)) + 1
    BY SMTT(40), <2>1, <2>5, FS_AddElement DEF Tally
  <2> QED BY <1>4, <2>6 DEF Tally
<1> QED BY <1>3, <1>4

LEMMA EverySecond ==
  /\ Every2nd(1) \in Seq(AgentSet) /\ Every2nd(1) # <<>>
  /\ Every2nd(2) \in Seq(AgentSet) /\ Every2nd(2) # <<>>
  /\ ToSet(Every2nd(1)) \cap ToSet(Every2nd(2)) = {}
<1>1. ASSUME NEW first \in {1, 2}
      PROVE  /\ Every2nd(first) \in Seq(AgentSet) /\ Every2nd(first) # <<>>
             /\ \A x \in ToSet(Every2nd(first)) : \E i \in Nat : first + 2 * i \in 1..TeamSize /\ x = Members[first + 2 * i]
  <2> DEFINE n == (TeamSize - first) \div 2
  <2>1. n \in Nat /\ 2 * n <= TeamSize - first
    BY MembersFacts
  <2>2. Every2nd(first) = [i \in 1..(n + 1) |-> Members[first + 2 * (i - 1)]]
    BY DEF Every2nd, TeamSize
  <2> HIDE DEF n
  <2>3. \A i \in 1..(n + 1) : i - 1 \in Nat /\ first + 2 * (i - 1) \in 1..TeamSize
    BY <2>1, MembersFacts
  <2>4. \A i \in 1..(n + 1) : Members[first + 2 * (i - 1)] \in AgentSet
    BY <2>3, MembersFacts
  <2>5. Every2nd(first) \in [1..(n + 1) -> AgentSet]
    BY <2>2, <2>4
  <2>6. Every2nd(first) \in Seq(AgentSet) /\ Len(Every2nd(first)) = n + 1 /\ Every2nd(first) # <<>>
    BY <2>1, <2>5
  <2>7. ToSet(Every2nd(first)) = {Members[first + 2 * (i - 1)] : i \in 1..(n + 1)}
    BY <2>2 DEF ToSet
  <2> QED BY <2>3, <2>6, <2>7
<1>2. ASSUME NEW x \in ToSet(Every2nd(1)), x \in ToSet(Every2nd(2)) PROVE FALSE
  <2>1. PICK i \in Nat : 1 + 2 * i \in 1..TeamSize /\ x = Members[1 + 2 * i]
    BY <1>1
  <2>2. PICK j \in Nat : 2 + 2 * j \in 1..TeamSize /\ x = Members[2 + 2 * j]
    BY <1>1, <1>2
  <2>3. 1 + 2 * i = 2 + 2 * j
    BY <2>1, <2>2, MembersFacts
  <2> QED BY <2>3
<1> QED BY <1>1, <1>2

LEMMA CyclicMember ==
  ASSUME NEW S, NEW team \in Seq(S), team # <<>>, NEW n \in Nat
  PROVE  Cyclic(team, n) \in ToSet(team) /\ ToSet(team) \subseteq S
<1>1. Len(team) \in Nat \ {0} /\ DOMAIN team = 1..Len(team)
  OBVIOUS
<1>2. n % Len(team) \in 0..(Len(team) - 1)
  BY <1>1
<1>3. (n % Len(team)) + 1 \in DOMAIN team
  BY <1>1, <1>2
<1> QED BY <1>3 DEF Cyclic, ToSet

LEMMA TeamMembers == ASSUME NEW t PROVE OfTeam(t) \in Seq(AgentSet)
<1> DEFINE theirs == {i \in DOMAIN Members : Team[Members[i]] = t}
<1>1. theirs \in SUBSET (1..TeamSize)
  BY MembersFacts
<1>2. OfTeam(t) = [k \in 1..Cardinality(theirs) |-> Members[CHOOSE i \in theirs : Cardinality({j \in theirs : j <= i}) = k]]
  BY DEF OfTeam
<1> HIDE DEF theirs
<1>3. Cardinality(theirs) \in Nat /\ \A k \in 1..Cardinality(theirs) : \E i \in theirs : Cardinality({j \in theirs : j <= i}) = k
  <2>1. \A m \in 1..Cardinality(theirs) : \E i \in theirs : Rank(theirs)[i] = m
    BY <1>1, MembersFacts, RankCounts
  <2>2. Cardinality(theirs) \in Nat
    BY <1>1, MembersFacts, RankCounts
  <2> QED BY <2>1, <2>2 DEF Rank
<1>4. \A k \in 1..Cardinality(theirs) : (CHOOSE i \in theirs : Cardinality({j \in theirs : j <= i}) = k) \in 1..TeamSize
  BY <1>1, <1>3
<1> DEFINE at(k) == CHOOSE i \in theirs : Cardinality({j \in theirs : j <= i}) = k
<1>5. \A k \in 1..Cardinality(theirs) : at(k) \in 1..TeamSize
  BY <1>4
<1>6. OfTeam(t) = [k \in 1..Cardinality(theirs) |-> Members[at(k)]]
  BY <1>2
<1> HIDE DEF at
<1>7. \A k \in 1..Cardinality(theirs) : Members[at(k)] \in AgentSet
  BY <1>5, MembersFacts
<1>8. OfTeam(t) \in [1..Cardinality(theirs) -> AgentSet]
  BY <1>6, <1>7
<1> QED BY <1>3, <1>8

LEMMA RedBlueMember == ASSUME NEW n \in Nat PROVE RedBlueSpeaker(n) \in AgentSet
<1> DEFINE team == OfTeam(IF n % 2 = 0 THEN "red" ELSE "blue")
<1>1. team \in Seq(AgentSet) /\ OfTeam("judge") \in Seq(AgentSet)
  BY TeamMembers
<1>2. OfTeam("judge") # <<>> => Last(OfTeam("judge")) \in AgentSet
  BY <1>1 DEF Last
<1>3. n \div 2 \in Nat
  OBVIOUS
<1>4. team # <<>> => Cyclic(team, n \div 2) \in AgentSet
  BY <1>1, <1>3, CyclicMember
<1>5. Head(Members) \in AgentSet
  <2>1. Members # <<>>
    BY MembersFacts DEF TeamSize
  <2> QED BY <2>1, MembersFacts
<1> QED BY <1>2, <1>4, <1>5 DEF RedBlueSpeaker

LEMMA WorkersFacts ==
  /\ Supervisor = Members[1] /\ Supervisor \in AgentSet
  /\ Workers \in Seq(AgentSet) /\ Workers # <<>> /\ ToSet(Workers) \subseteq AgentSet
  /\ Supervisor \notin ToSet(Workers)
<1>1. Members \in Seq(AgentSet) /\ Members # <<>> /\ Len(Members) >= 2 /\ Len(Members) \in Nat
  BY MembersFacts DEF TeamSize
<1>2. Supervisor = Members[1] /\ 1 \in 1..TeamSize
  BY <1>1, HeadTailProperties DEF Supervisor, TeamSize
<1>3. Workers \in Seq(AgentSet) /\ Len(Workers) = Len(Members) - 1 /\ \A i \in 1..Len(Workers) : Workers[i] = Members[i + 1]
  BY <1>1, HeadTailProperties DEF Workers
<1>4. Workers # <<>> /\ DOMAIN Workers = 1..Len(Workers) /\ Len(Workers) \in Nat
  BY <1>1, <1>3
<1>5. ASSUME NEW i \in 1..Len(Workers) PROVE Workers[i] # Supervisor
  <2>1. Workers[i] = Members[i + 1] /\ i + 1 \in 1..TeamSize /\ i + 1 # 1
    BY <1>1, <1>3, <1>4 DEF TeamSize
  <2> QED BY <1>2, <2>1, MembersFacts
<1> QED BY SMTT(40), <1>2, <1>3, <1>4, <1>5, MembersFacts DEF ToSet

--------------------------------------------------------------------------------
(* The invariant: what was taken of a round, and who is due.               *)

(* The turns of a round.                                                   *)
Quota == IF mode \in {"round_robin", "parallel"} THEN TeamSize ELSE 2

(* Those one of whom takes the next turn, d turns of the round being taken. *)
Due(d) ==
  CASE mode \in {"round_robin", "parallel"} -> {Members[d + 1]}
    [] mode = "debate"     -> ToSet(Every2nd(IF d = 0 THEN 1 ELSE 2))
    [] mode = "supervisor" -> IF d = 0 THEN {Supervisor} ELSE ToSet(Workers)
    [] OTHER               -> AgentSet

(* r rounds have ended, and d turns of the next one are taken.             *)
Taken(r, d) ==
  CASE mode \in {"round_robin", "parallel"} ->
         \A i \in 1..TeamSize : turns[Members[i]] = r + (IF i <= d THEN 1 ELSE 0)
    [] mode = "debate" ->
         /\ Tally(ToSet(Every2nd(1)), r + (IF d >= 1 THEN 1 ELSE 0))
         /\ Tally(ToSet(Every2nd(2)), r + (IF d >= 2 THEN 1 ELSE 0))
    [] mode = "supervisor" ->
         /\ turns[Supervisor] = r + (IF d >= 1 THEN 1 ELSE 0)
         /\ Tally(ToSet(Workers), r + (IF d >= 2 THEN 1 ELSE 0))
    [] OTHER -> Tally(AgentSet, 2 * r + d)

Spoken == IF mode # "parallel" THEN stepInRound ELSE IF speaking = <<>> THEN 0 ELSE TeamSize - Len(speaking)

ModeNames == {"round_robin", "parallel", "debate", "redblue", "supervisor"}
TaskStatuses == {"absent", "pending", "running", "completed", "failed", "cancelled"}
WorkerStates == {"none", "ready", "running", "cancelling", "done"}

SessionTyped ==
  /\ taskStatus \in TaskStatuses /\ worker \in WorkerStates
  /\ mode \in ModeNames
  /\ step \in Nat /\ workerIndex \in Nat /\ roundNum \in 0..MaxRounds
  /\ speaking \in Seq(AgentSet) /\ asked \in BOOLEAN
  /\ turns \in [AgentSet -> Nat]
  /\ last.names \in ToSet(Workers) \cup {NoAgent}

(* A step of one speaker counts the steps of a round; where all speak, a   *)
(* step is a round, and who is left of it are the last of the members.     *)
StepInPlace ==
  /\ asked => speaking # <<>>
  /\ speaking # <<>> => roundNum < MaxRounds
  /\ stepInRound \in Nat
  /\ IF mode = "parallel"
       THEN /\ stepInRound = 0
            /\ Len(speaking) <= TeamSize
            /\ \A i \in 1..Len(speaking) : speaking[i] = Members[TeamSize - Len(speaking) + i]
       ELSE /\ stepInRound = step % Quota
            /\ Len(speaking) <= 1
            /\ speaking # <<>> => Head(speaking) \in Due(stepInRound)

TurnsTaken == Taken(roundNum, Spoken + (IF asked THEN 1 ELSE 0))

MultiIInv == SessionTyped /\ StepInPlace /\ TurnsTaken

LEMMA QuotaFacts == Quota \in Nat /\ Quota >= 2
BY MembersFacts DEF Quota

LEMMA DueMembers == ASSUME NEW d \in Nat, d < Quota PROVE Due(d) \subseteq AgentSet
<1>1. mode \in {"round_robin", "parallel"} => d + 1 \in 1..TeamSize
  BY MembersFacts DEF Quota
<1>2. mode \in {"round_robin", "parallel"} => Members[d + 1] \in AgentSet
  BY <1>1, MembersFacts
<1>3. \A i \in {1, 2} : ToSet(Every2nd(i)) \subseteq AgentSet
  BY EverySecond DEF ToSet
<1> QED BY <1>2, <1>3, WorkersFacts DEF Due

(* A round is over when its turns are taken.                               *)
LEMMA RoundIsOver == ASSUME NEW r \in Nat, Taken(r, Quota) PROVE Taken(r + 1, 0)
<1>1. CASE mode \in {"round_robin", "parallel"}
  BY <1>1, MembersFacts DEF Taken, Quota
<1>2. CASE mode = "debate"
  BY <1>2 DEF Taken, Quota
<1>3. CASE mode = "supervisor"
  BY <1>3 DEF Taken, Quota
<1>4. CASE mode \notin {"round_robin", "parallel", "debate", "supervisor"}
  BY <1>4 DEF Taken, Quota
<1> QED BY <1>1, <1>2, <1>3, <1>4

(* Who is due takes a turn.                                                *)
LEMMA TurnIsTaken ==
  ASSUME turns \in [AgentSet -> Nat], UNCHANGED mode,
         NEW r \in Nat, NEW d \in Nat, d < Quota, Taken(r, d), NEW y \in Due(d), turns' = [turns EXCEPT ![y] = @ + 1]
  PROVE  Taken(r, d + 1)'
<1>1. y \in AgentSet
  BY DueMembers
<1>2. \A x \in AgentSet : turns'[x] = IF x = y THEN turns[x] + 1 ELSE turns[x]
  BY <1>1
<1>3. CASE mode \in {"round_robin", "parallel"}
  <2>1. y = Members[d + 1] /\ d + 1 \in 1..TeamSize
    BY <1>3, MembersFacts DEF Due, Quota
  <2>2. \A i \in 1..TeamSize : turns[Members[i]] = r + (IF i <= d THEN 1 ELSE 0)
    BY <1>3 DEF Taken
  <2>3. ASSUME NEW i \in 1..TeamSize PROVE turns'[Members[i]] = r + (IF i <= d + 1 THEN 1 ELSE 0)
    <3>1. Members[i] \in AgentSet /\ (Members[i] = y <=> i = d + 1)
      BY <2>1, MembersFacts
    <3>2. turns'[Members[i]] = IF i = d + 1 THEN turns[Members[i]] + 1 ELSE turns[Members[i]]
      BY <1>2, <3>1
    <3>3. i \in Nat
      BY MembersFacts
    <3> QED BY <2>2, <3>2, <3>3
  <2> QED BY <1>3, <2>3 DEF Taken
<1>4. CASE mode = "debate"
  <2> DEFINE A == ToSet(Every2nd(1))
             B == ToSet(Every2nd(2))
  <2>0. \A i \in {1, 2} : ToSet(Every2nd(i)) \subseteq AgentSet
    BY EverySecond DEF ToSet
  <2>1. A \in SUBSET AgentSet /\ B \in SUBSET AgentSet /\ A \cap B = {}
    BY <2>0, EverySecond
  <2>2. /\ Tally(A, r + (IF d >= 1 THEN 1 ELSE 0)) /\ Tally(B, r + (IF d >= 2 THEN 1 ELSE 0))
        /\ y \in (IF d = 0 THEN A ELSE B) /\ d \in {0, 1}
    BY <1>4 DEF Taken, Due, Quota
  <2> HIDE DEF A, B
  <2>3. CASE d = 0
    <3>1. Tally(A, r) /\ Tally(B, r) /\ y \in A /\ y \notin B
      BY <2>1, <2>2, <2>3
    <3>2. Tally(A, r + 1)' /\ Tally(B, r)'
      BY <1>1, <2>1, <3>1, TallyStep
    <3> QED BY <1>4, <2>3, <3>2 DEF Taken, A, B
  <2>4. CASE d = 1
    <3>1. Tally(A, r + 1) /\ Tally(B, r) /\ y \in B /\ y \notin A
      BY <2>1, <2>2, <2>4
    <3>2. Tally(A, r + 1)'
      <4>1. r + 1 \in Nat
        OBVIOUS
      <4> QED BY <1>1, <2>1, <3>1, <4>1, TallyStep
    <3>3. Tally(B, r + 1)'
      BY <1>1, <2>1, <3>1, TallyStep
    <3> QED BY <1>4, <2>4, <3>2, <3>3 DEF Taken, A, B
  <2> QED BY <2>2, <2>3, <2>4
<1>5. CASE mode = "supervisor"
  <2> DEFINE B == ToSet(Workers)
  <2>1. B \in SUBSET AgentSet /\ Supervisor \in AgentSet /\ Supervisor \notin B
    BY WorkersFacts
  <2>2. /\ turns[Supervisor] = r + (IF d >= 1 THEN 1 ELSE 0) /\ Tally(B, r + (IF d >= 2 THEN 1 ELSE 0))
        /\ y \in (IF d = 0 THEN {Supervisor} ELSE B) /\ d \in {0, 1}
    BY <1>5 DEF Taken, Due, Quota
  <2> HIDE DEF B
  <2>3. CASE d = 0
    <3>1. turns[Supervisor] = r /\ Tally(B, r) /\ y = Supervisor /\ y \notin B
      BY <2>1, <2>2, <2>3
    <3>2. turns'[Supervisor] = r + 1 /\ Tally(B, r)'
      BY <1>1, <1>2, <2>1, <3>1, TallyStep
    <3> QED BY <1>5, <2>3, <3>2 DEF Taken, B
  <2>4. CASE d = 1
    <3>1. turns[Supervisor] = r + 1 /\ Tally(B, r) /\ y # Supervisor /\ y \in B
      BY <2>1, <2>2, <2>4
    <3>2. turns'[Supervisor] = r + 1 /\ Tally(B, r + 1)'
      BY <1>1, <1>2, <2>1, <3>1, TallyStep
    <3> QED BY <1>5, <2>4, <3>2 DEF Taken, B
  <2> QED BY <2>2, <2>3, <2>4
<1>6. CASE mode \notin {"round_robin", "parallel", "debate", "supervisor"}
  <2>1. Tally(AgentSet, 2 * r + d) /\ 2 * r + d \in Nat
    BY <1>6 DEF Taken
  <2>2. Tally(AgentSet, (2 * r + d) + 1)'
    BY <1>1, <2>1, TallyStep
  <2> QED BY <1>6, <2>2 DEF Taken
<1> QED BY <1>3, <1>4, <1>5, <1>6

--------------------------------------------------------------------------------
(* The steps keep it.                                                      *)

LEMMA MultiInitHolds == MultiAgentInit => MultiIInv
<1> SUFFICES ASSUME MultiAgentInit PROVE MultiIInv
  OBVIOUS
<1>0. /\ mode \in ModeNames /\ step = 0 /\ roundNum = 0 /\ stepInRound = 0 /\ speaking = <<>> /\ asked = FALSE
      /\ turns = [x \in AgentSet |-> 0] /\ last.names = NoAgent /\ workerIndex = 0 /\ MaxRounds \in Nat
  BY SessionAssumption DEF MultiAgentInit, ModeNames
<1>1. SessionTyped
  <2>1. taskStatus \in TaskStatuses /\ worker \in WorkerStates
    BY DEF MultiAgentInit, TaskStatuses, WorkerStates
  <2>2. turns \in [AgentSet -> Nat] /\ speaking \in Seq(AgentSet) /\ roundNum \in 0..MaxRounds
    BY <1>0
  <2> QED BY <1>0, <2>1, <2>2 DEF SessionTyped
<1>2. StepInPlace
  <2>1. 0 % Quota = 0
    BY QuotaFacts
  <2> QED BY <1>0, <2>1, MembersFacts DEF StepInPlace
<1>3. \A S \in SUBSET AgentSet : Tally(S, 0)
  BY <1>0, TallyStarts
<1>4. Spoken + (IF asked THEN 1 ELSE 0) = 0
  BY <1>0 DEF Spoken
<1>5. Taken(0, 0)
  <2>1. CASE mode \in {"round_robin", "parallel"}
    BY <1>0, <2>1, MembersFacts DEF Taken
  <2>2. CASE mode = "debate"
    <3>1. \A i \in {1, 2} : ToSet(Every2nd(i)) \subseteq AgentSet
      BY EverySecond DEF ToSet
    <3> QED BY <1>3, <2>2, <3>1 DEF Taken
  <2>3. CASE mode = "supervisor"
    BY <1>0, <1>3, <2>3, WorkersFacts DEF Taken
  <2>4. CASE mode \notin {"round_robin", "parallel", "debate", "supervisor"}
    BY <1>3, <2>4 DEF Taken
  <2> QED BY <2>1, <2>2, <2>3, <2>4
<1>6. TurnsTaken
  BY <1>0, <1>4, <1>5 DEF TurnsTaken
<1> QED BY <1>1, <1>2, <1>6 DEF MultiIInv

(* What leaves the session as it is keeps it.                              *)
LEMMA SessionKept ==
  ASSUME MultiIInv, UNCHANGED <<mode, step, roundNum, stepInRound, speaking, asked, last, workerIndex, turns>>,
         taskStatus' \in TaskStatuses, worker' \in WorkerStates
  PROVE  MultiIInv'
<1>1. SessionTyped'
  BY DEF MultiIInv, SessionTyped
<1>2. StepInPlace'
  BY DEF MultiIInv, StepInPlace, Quota, Due
<1>3. Spoken' = Spoken /\ \A r, d : Taken(r, d)' <=> Taken(r, d)
  BY DEF Spoken, Taken, Tally, Pairs
<1>4. TurnsTaken'
  BY <1>3 DEF MultiIInv, TurnsTaken
<1> QED BY <1>1, <1>2, <1>4 DEF MultiIInv

(* The scheduler chooses those who are due.                                *)
LEMMA ChosenAreDue ==
  ASSUME MultiIInv, roundNum < MaxRounds
  PROVE  IF mode = "parallel" THEN Speakers(step) = Members
         ELSE \E y \in Due(step % Quota) : Speakers(step) = <<y>>
<1>0. step \in Nat /\ workerIndex \in Nat /\ mode \in ModeNames /\ last.names \in ToSet(Workers) \cup {NoAgent}
  BY DEF MultiIInv, SessionTyped
<1>1. CASE mode = "parallel"
  BY <1>1 DEF Speakers
<1>2. CASE mode = "round_robin"
  <2>1. Speakers(step) = <<Members[(step % TeamSize) + 1]>>
    BY <1>2 DEF Speakers, Cyclic, TeamSize
  <2> QED BY <1>2, <2>1 DEF Due, Quota
<1>3. CASE mode = "debate"
  <2>1. step \div 2 \in Nat /\ step % 2 \in {0, 1}
    BY <1>0
  <2>2. Speakers(step) = <<DebateSpeaker(step)>>
    BY <1>3 DEF Speakers
  <2>3. DebateSpeaker(step) \in ToSet(Every2nd(IF step % 2 = 0 THEN 1 ELSE 2))
    BY <2>1, EverySecond, CyclicMember DEF DebateSpeaker
  <2> QED BY <1>3, <2>2, <2>3 DEF Due, Quota
<1>4. CASE mode = "supervisor"
  <2>1. step % 2 \in {0, 1}
    BY <1>0
  <2>2. Speakers(step) = <<SupervisorSpeaker(step)>>
    BY <1>4 DEF Speakers
  <2>3. Cyclic(Workers, workerIndex) \in ToSet(Workers)
    BY <1>0, WorkersFacts, CyclicMember
  <2>4. SupervisorSpeaker(step) \in (IF step % 2 = 0 THEN {Supervisor} ELSE ToSet(Workers))
    BY <1>0, <1>4, <2>1, <2>3 DEF SupervisorSpeaker, FallsBack, Assigned
  <2> QED BY <1>4, <2>2, <2>4 DEF Due, Quota
<1>5. CASE mode = "redblue"
  <2>1. Speakers(step) = <<RedBlueSpeaker(step)>>
    BY <1>5 DEF Speakers
  <2> QED BY <1>0, <1>5, <2>1, RedBlueMember DEF Due
<1> QED BY <1>0, <1>1, <1>2, <1>3, <1>4, <1>5 DEF ModeNames

LEMMA SpeakersSelected == ASSUME MultiIInv, SelectSpeakers PROVE MultiIInv'
<1>0. /\ speaking = <<>> /\ roundNum < MaxRounds /\ speaking' = Speakers(step) /\ ~asked
      /\ UNCHANGED <<taskStatus, worker, mode, step, roundNum, stepInRound, asked, turns>>
  BY DEF SelectSpeakers, MultiIInv, StepInPlace
<1>1. step % Quota \in Nat /\ step % Quota < Quota
  <2>1. step \in Nat
    BY DEF MultiIInv, SessionTyped
  <2> QED BY <2>1, QuotaFacts
<1>2. workerIndex' \in Nat /\ last'.names \in ToSet(Workers) \cup {NoAgent}
  BY DEF SelectSpeakers, MultiIInv, SessionTyped
<1>3. CASE mode = "parallel"
  <2>1. speaking' = Members
    BY <1>0, <1>3, ChosenAreDue
  <2>2. speaking' \in Seq(AgentSet) /\ Len(speaking') = TeamSize /\ speaking' # <<>>
    BY <2>1, MembersFacts DEF TeamSize
  <2>3. StepInPlace'
    BY <1>0, <1>3, <2>1, <2>2, MembersFacts DEF MultiIInv, StepInPlace
  <2>4. Spoken' = 0 /\ Spoken = 0
    BY <1>0, <1>3, <2>2, MembersFacts DEF Spoken
  <2> QED BY <1>0, <1>2, <2>2, <2>3, <2>4 DEF MultiIInv, SessionTyped, TurnsTaken, Taken, Tally, Pairs
<1>4. CASE mode # "parallel"
  <2>1. PICK y \in Due(step % Quota) : speaking' = <<y>>
    BY <1>0, <1>4, ChosenAreDue
  <2>2. y \in AgentSet
    BY <1>1, DueMembers
  <2>3. speaking' \in Seq(AgentSet) /\ Len(speaking') = 1 /\ speaking' # <<>> /\ Head(speaking') = y
    BY <2>1, <2>2
  <2>4. StepInPlace'
    BY <1>0, <1>4, <2>3 DEF MultiIInv, StepInPlace, Quota, Due
  <2>5. Spoken' = Spoken
    BY <1>0, <1>4 DEF Spoken
  <2> QED BY <1>0, <1>2, <2>3, <2>4, <2>5 DEF MultiIInv, SessionTyped, TurnsTaken, Taken, Tally, Pairs
<1> QED BY <1>3, <1>4

(* Who speaks first of those that are left is due.                         *)
LEMMA NextIsDue ==
  ASSUME MultiIInv, speaking # <<>>
  PROVE  Spoken \in Nat /\ Spoken < Quota /\ Head(speaking) \in Due(Spoken)
<1>0. speaking \in Seq(AgentSet) /\ step \in Nat /\ mode \in ModeNames /\ Len(speaking) \in Nat \ {0}
      /\ Head(speaking) = speaking[1]
  BY HeadTailProperties DEF MultiIInv, SessionTyped
<1>1. CASE mode = "parallel"
  <2>1. Spoken = TeamSize - Len(speaking) /\ Len(speaking) <= TeamSize /\ speaking[1] = Members[TeamSize - Len(speaking) + 1]
    BY <1>0, <1>1 DEF Spoken, MultiIInv, StepInPlace
  <2> QED BY <1>0, <1>1, <2>1, MembersFacts DEF Due, Quota
<1>2. CASE mode # "parallel"
  <2>1. Spoken = step % Quota /\ Head(speaking) \in Due(Spoken)
    BY <1>2 DEF Spoken, MultiIInv, StepInPlace
  <2> QED BY <1>0, <2>1, QuotaFacts
<1> QED BY <1>1, <1>2

LEMMA SpeakerAsked == ASSUME MultiIInv, AskSpeaker PROVE MultiIInv'
<1>0. /\ speaking # <<>> /\ ~asked /\ asked' = TRUE /\ turns' = [turns EXCEPT ![Head(speaking)] = @ + 1]
      /\ UNCHANGED <<taskStatus, worker, mode, step, roundNum, stepInRound, speaking, last, workerIndex>>
  BY DEF AskSpeaker
<1>1. Spoken \in Nat /\ Spoken < Quota /\ Head(speaking) \in Due(Spoken)
  BY <1>0, NextIsDue
<1>2. Taken(roundNum, Spoken) /\ roundNum \in Nat /\ turns \in [AgentSet -> Nat]
  <2>1. Spoken + 0 = Spoken
    BY <1>1
  <2> QED BY <1>0, <2>1, SessionAssumption DEF MultiIInv, TurnsTaken, SessionTyped
<1>3. \A r \in Nat, d \in Nat : d < Quota /\ Taken(r, d) /\ Head(speaking) \in Due(d) => Taken(r, d + 1)'
  BY <1>0, <1>2, TurnIsTaken
<1>4. PICK r \in Nat, d \in Nat : r = roundNum /\ d = Spoken
  BY <1>1, <1>2
<1>5. Taken(r, d + 1)'
  BY <1>1, <1>2, <1>3, <1>4
<1>6. roundNum' = r /\ Spoken' = d
  BY <1>0, <1>4 DEF Spoken
<1>7. TurnsTaken'
  BY <1>0, <1>5, <1>6 DEF TurnsTaken
<1>8. turns' \in [AgentSet -> Nat]
  <2>1. Head(speaking) \in AgentSet
    BY <1>1, DueMembers
  <2> QED BY <1>0, <1>2, <2>1
<1>9. SessionTyped'
  BY <1>0, <1>8 DEF MultiIInv, SessionTyped
<1>10. StepInPlace'
  BY <1>0 DEF MultiIInv, StepInPlace, Quota, Due
<1> QED BY <1>7, <1>9, <1>10 DEF MultiIInv

(* The turn of the first of those left ends.                               *)
LEMMA SpeakerDone ==
  ASSUME MultiIInv, asked, NEW events, AfterSpeaker(events),
         last'.names \in ToSet(Workers) \cup {NoAgent}
  PROVE  MultiIInv'
<1> DEFINE stepEnds == Len(speaking) = 1
           roundEnds == stepEnds /\ stepInRound + 1 >= StepsPerRound
           d == Spoken
<1>0. /\ asked' = FALSE /\ speaking' = Tail(speaking)
      /\ step' = IF stepEnds THEN step + 1 ELSE step
      /\ stepInRound' = IF roundEnds THEN 0 ELSE IF stepEnds THEN stepInRound + 1 ELSE stepInRound
      /\ roundNum' = IF roundEnds THEN roundNum + 1 ELSE roundNum
      /\ UNCHANGED <<taskStatus, worker, mode, workerIndex, turns>>
  BY DEF AfterSpeaker
<1>1. /\ speaking # <<>> /\ roundNum < MaxRounds /\ roundNum \in Nat /\ roundNum \in 0..MaxRounds
      /\ step \in Nat /\ stepInRound \in Nat /\ MaxRounds \in Nat
      /\ speaking \in Seq(AgentSet) /\ turns \in [AgentSet -> Nat]
      /\ Taken(roundNum, d + 1)
  BY SessionAssumption DEF MultiIInv, SessionTyped, StepInPlace, TurnsTaken
<1>2. d \in Nat /\ d < Quota
  BY <1>1, NextIsDue
<1>3. /\ Len(speaking) \in Nat \ {0} /\ Tail(speaking) \in Seq(AgentSet) /\ Len(Tail(speaking)) = Len(speaking) - 1
      /\ \A i \in 1..Len(Tail(speaking)) : Tail(speaking)[i] = speaking[i + 1]
  BY <1>1, HeadTailProperties
<1>4. Tail(speaking) = <<>> <=> Len(speaking) = 1
  <2> DEFINE left == Tail(speaking)
  <2>1. left \in Seq(AgentSet) /\ Len(left) \in Nat /\ Len(left) = Len(speaking) - 1 /\ Len(speaking) \in Nat
    BY <1>3
  <2> HIDE DEF left
  <2>2. left = <<>> <=> Len(left) = 0
    BY <2>1
  <2>3. left = <<>> <=> Len(speaking) = 1
    BY <2>1, <2>2
  <2> QED BY <2>3 DEF left
<1>5. roundNum + 1 \in 0..MaxRounds /\ step + 1 \in Nat /\ stepInRound + 1 \in Nat
  BY <1>1
<1>6. SessionTyped'
  BY <1>0, <1>1, <1>3, <1>5 DEF MultiIInv, SessionTyped
<1>7. \A r \in Nat : Taken(r, Quota) => Taken(r + 1, 0)
  BY RoundIsOver
<1>8. \A r, e : Taken(r, e) <=> Taken(r, e)'
  BY <1>0 DEF Taken, Tally, Pairs
<1>9. PICK r \in Nat, c \in Nat : r = roundNum /\ c = d
  BY <1>1, <1>2
<1>10. Taken(r, c + 1)' /\ (c + 1 = Quota => Taken(r + 1, 0)')
  BY <1>1, <1>7, <1>8, <1>9
<1>11. CASE mode = "parallel"
  <2>0. /\ stepInRound = 0 /\ Len(speaking) <= TeamSize /\ TeamSize \in Nat /\ Quota = TeamSize /\ StepsPerRound = 1
        /\ \A i \in 1..Len(speaking) : speaking[i] = Members[TeamSize - Len(speaking) + i]
        /\ d = TeamSize - Len(speaking)
    BY <1>1, <1>11, MembersFacts DEF MultiIInv, StepInPlace, Quota, StepsPerRound, Spoken
  <2>1. CASE stepEnds
    <3>1. speaking' = <<>> /\ stepInRound' = 0 /\ roundNum' = roundNum + 1 /\ mode' = "parallel" /\ Spoken' = 0
      BY <1>0, <1>4, <1>11, <2>0, <2>1 DEF Spoken
    <3>2. StepInPlace'
      <4>1. Len(speaking') = 0 /\ Len(speaking') <= TeamSize' /\ 1..Len(speaking') = {} /\ 0 \in Nat
        BY <2>0, <3>1 DEF TeamSize
      <4> QED BY <1>0, <3>1, <4>1 DEF StepInPlace
    <3>3. d + 1 = Quota
      BY <2>0, <2>1
    <3>4. Taken(r + 1, 0)'
      BY <1>9, <1>10, <3>3
    <3>5. TurnsTaken'
      BY <1>0, <1>9, <3>1, <3>4 DEF TurnsTaken
    <3> QED BY <1>6, <3>2, <3>5 DEF MultiIInv
  <2>2. CASE ~stepEnds
    <3>1. /\ speaking' # <<>> /\ speaking' = Tail(speaking) /\ stepInRound' = 0 /\ roundNum' = roundNum
          /\ mode' = "parallel" /\ Len(speaking') = Len(speaking) - 1 /\ asked' = FALSE
      BY <1>0, <1>3, <1>4, <1>11, <2>0, <2>2
    <3>2. \A i \in 1..Len(speaking') : speaking'[i] = Members[TeamSize - Len(speaking') + i]
      <4> TAKE i \in 1..Len(speaking')
      <4>1. i + 1 \in 1..Len(speaking) /\ speaking'[i] = speaking[i + 1]
        BY <1>3, <3>1
      <4>2. speaking[i + 1] = Members[TeamSize - Len(speaking) + (i + 1)]
        BY <2>0, <4>1
      <4>3. TeamSize - Len(speaking) + (i + 1) = TeamSize - Len(speaking') + i
        BY <1>3, <2>0, <3>1
      <4> QED BY <4>1, <4>2, <4>3
    <3>3. TeamSize' = TeamSize /\ Len(speaking') <= TeamSize /\ 0 \in Nat
      BY <1>3, <2>0, <3>1 DEF TeamSize
    <3>4. StepInPlace'
      BY <1>1, <3>1, <3>2, <3>3 DEF StepInPlace
    <3>5. Spoken' = d + 1
      BY <1>3, <2>0, <3>1 DEF Spoken, TeamSize
    <3>6. c + 1 + 0 = c + 1 /\ Spoken' = c + 1 /\ roundNum' = r
      BY <1>9, <3>1, <3>5
    <3>8. TurnsTaken'
      BY <1>10, <3>1, <3>6 DEF TurnsTaken
    <3> QED BY <1>6, <3>4, <3>8 DEF MultiIInv
  <2> QED BY <2>1, <2>2
<1>12. CASE mode # "parallel"
  <2>0. /\ stepInRound = step % Quota /\ Len(speaking) = 1 /\ stepEnds /\ Quota = StepsPerRound /\ d = stepInRound
        /\ Quota' = Quota
    BY SMTT(40), <1>0, <1>1, <1>3, <1>12 DEF MultiIInv, StepInPlace, Quota, StepsPerRound, Spoken, TeamSize, SessionTyped, ModeNames
  <2>1. (step + 1) % Quota = IF stepInRound + 1 = Quota THEN 0 ELSE stepInRound + 1
    <3>1. Quota \in Nat \ {0} /\ step \in Nat
      BY <1>1, QuotaFacts
    <3> QED BY <2>0, <3>1, NextPosition
  <2>2. speaking' = <<>> /\ Len(speaking') = 0 /\ step' = step + 1 /\ mode' = mode /\ asked' = FALSE
    BY <1>0, <1>3, <1>4, <2>0
  <2>3. roundEnds <=> stepInRound + 1 = Quota
    BY <1>1, <1>2, <2>0, QuotaFacts
  <2>4. stepInRound' = (step + 1) % Quota
    BY <1>0, <2>0, <2>1, <2>3
  <2>5. StepInPlace'
    BY SMTT(40), <1>5, <1>12, <1>1, <2>0, <2>2, <2>4, <2>1 DEF StepInPlace
  <2>6. Spoken' = stepInRound'
    BY <1>12, <2>2 DEF Spoken
  <2>7. CASE roundEnds
    <3>1. stepInRound' = 0 /\ roundNum' = roundNum + 1 /\ d + 1 = Quota
      BY <1>0, <2>0, <2>3, <2>7
    <3>2. Taken(r + 1, 0)'
      BY <1>9, <1>10, <3>1
    <3>3. TurnsTaken'
      BY <1>9, <2>2, <2>6, <3>1, <3>2 DEF TurnsTaken
    <3> QED BY <1>6, <2>5, <3>3 DEF MultiIInv
  <2>8. CASE ~roundEnds
    <3>1. stepInRound' = c + 1 /\ roundNum' = r /\ c + 1 + 0 = c + 1
      BY <1>0, <1>9, <2>0, <2>8
    <3>3. TurnsTaken'
      BY <1>10, <2>2, <2>6, <3>1 DEF TurnsTaken
    <3> QED BY <1>6, <2>5, <3>3 DEF MultiIInv
  <2> QED BY <2>7, <2>8
<1> QED BY <1>11, <1>12

LEMMA MultiStepHolds == MultiIInv /\ [MultiAgentNext]_maVars => MultiIInv'
<1> SUFFICES ASSUME MultiIInv, [MultiAgentNext]_maVars PROVE MultiIInv'
  OBVIOUS
<1>0. taskStatus \in TaskStatuses /\ worker \in WorkerStates /\ last.names \in ToSet(Workers) \cup {NoAgent}
  BY DEF MultiIInv, SessionTyped
<1>1. CASE Stopped \/ ConditionMet
  BY <1>1, SessionKept DEF Stopped, ConditionMet, Done, TaskStatuses, WorkerStates
<1>2. CASE SelectSpeakers
  BY <1>2, SpeakersSelected
<1>3. CASE AskSpeaker
  BY <1>3, SpeakerAsked
<1>4. CASE RequestFails
  BY <1>0, <1>4, SpeakerDone DEF RequestFails
<1>5. ASSUME NEW names \in ToSet(Workers) \cup {NoAgent}, Replies(names) PROVE MultiIInv'
  <2>1. last'.names = names
    BY <1>5 DEF Replies
  <2> QED BY <1>5, <2>1, SpeakerDone DEF Replies
<1>6. CASE WorkerStarts \/ WorkerFails \/ WorkerCancelled
  BY <1>6, SessionKept DEF WorkerStarts, WorkerFails, WorkerCancelled, sessionVars, TaskStatuses, WorkerStates
<1>7. CASE StopSession \/ CancelTask \/ (\E start \in BOOLEAN : CreateTask(start)) \/ UNCHANGED maVars
  BY <1>0, <1>7, SessionKept DEF StopSession, CancelTask, CreateTask, maVars, sessionVars, TaskStatuses, WorkerStates
<1> QED BY <1>1, <1>2, <1>3, <1>4, <1>5, <1>6, <1>7 DEF MultiAgentNext, WorkerStep

LEMMA MultiImplies == MultiIInv => MultiAgentTypeOK /\ TurnsAreFair
<1> SUFFICES ASSUME MultiIInv PROVE MultiAgentTypeOK /\ TurnsAreFair
  OBVIOUS
<1>0. /\ step \in Nat /\ roundNum \in 0..MaxRounds /\ roundNum \in Nat /\ speaking \in Seq(AgentSet)
      /\ asked \in BOOLEAN /\ turns \in [AgentSet -> Nat] /\ mode \in ModeNames
      /\ taskStatus \in TaskStatuses /\ worker \in WorkerStates
  BY SessionAssumption DEF MultiIInv, SessionTyped
<1>1. stepInRound \in 0..(StepsPerRound - 1)
  <2>1. mode = "parallel" => stepInRound = 0 /\ StepsPerRound = 1
    BY DEF MultiIInv, StepInPlace, StepsPerRound
  <2>2. mode # "parallel" => stepInRound = step % Quota /\ StepsPerRound = Quota
    BY DEF MultiIInv, StepInPlace, StepsPerRound, Quota, TeamSize
  <2>3. step % Quota \in 0..(Quota - 1)
    BY <1>0, QuotaFacts
  <2> QED BY <2>1, <2>2, <2>3
<1>2. MultiAgentTypeOK
  <2>1. ToSet(speaking) \subseteq AgentSet
    BY <1>0 DEF ToSet
  <2> QED BY <1>0, <1>1, <2>1 DEF MultiAgentTypeOK, TaskStatuses, WorkerStates, Final
<1>3. ASSUME speaking = <<>>, stepInRound = 0
      PROVE  CASE mode \in {"round_robin", "parallel"} -> \A m \in AgentSet : turns[m] = roundNum
               [] mode = "debate"     -> TurnsOf(Every2nd(1)) = roundNum /\ TurnsOf(Every2nd(2)) = roundNum
               [] mode = "supervisor" -> turns[Supervisor] = roundNum /\ TurnsOf(Workers) = roundNum
               [] mode = "redblue"    -> TurnsOf(Members) = 2 * roundNum
  <2>1. ~asked /\ Spoken = 0
    BY <1>3 DEF MultiIInv, StepInPlace, Spoken
  <2>2. Taken(roundNum, 0)
    BY <2>1 DEF MultiIInv, TurnsTaken
  <2>3. \A S, n : Tally(S, n) => Cardinality(UNION {{x} \X (1..turns[x]) : x \in S}) = n
    BY DEF Tally, Pairs
  <2>4. CASE mode \in {"round_robin", "parallel"}
    <3>1. \A i \in 1..TeamSize : turns[Members[i]] = roundNum
      BY <1>0, <2>2, <2>4, MembersFacts DEF Taken
    <3> QED BY <2>4, <3>1, MembersFacts
  <2>5. CASE mode = "debate"
    BY <1>0, <2>2, <2>3, <2>5 DEF Taken, TurnsOf
  <2>6. CASE mode = "supervisor"
    BY <1>0, <2>2, <2>3, <2>6 DEF Taken, TurnsOf
  <2>7. CASE mode = "redblue"
    <3>1. Tally(AgentSet, 2 * roundNum)
      BY <1>0, <2>2, <2>7 DEF Taken
    <3> QED BY <2>3, <2>7, <3>1 DEF TurnsOf, AgentSet
  <2> QED BY <1>0, <2>4, <2>5, <2>6, <2>7 DEF ModeNames
<1>4. TurnsAreFair
  BY <1>3 DEF TurnsAreFair
<1> QED BY <1>2, <1>4

(* For any team and any mode, between two rounds everybody has had the     *)
(* turns the mode promises, failed ones included.                          *)
THEOREM TurnsStayFair == MultiAgentSpec => [](MultiAgentTypeOK /\ TurnsAreFair)
<1> QED BY MultiInitHolds, MultiStepHolds, MultiImplies, PTL DEF MultiAgentSpec

--------------------------------------------------------------------------------
(* Collaboration: nested calls are bounded, and every task of a swarm is   *)
(* reported once.                                                          *)

CalledRuns == [agent : CallNames, caller : Nat, depth : Nat, current : Nat, chain : Nat,
               phase : {"running", "calling", "done"}]

RunNumbers == 1..Len(calledRuns)

(* A run was called by an earlier one, and a task was made by a run.       *)
CollabTyped ==
  /\ calledRuns \in Seq(CalledRuns) /\ \A r \in RunNumbers : calledRuns[r].caller < r
  /\ tasksMade \in Seq(RunNumbers)

(* The depth and the counter of a run, as CallsAreBounded has them.        *)
Counted(nested) ==
  /\ nested.depth <= CallDepthLimit
  /\ nested.current = nested.depth + (IF nested.phase = "calling" THEN 1 ELSE 0)

CollabIInv == CollabTyped /\ \A r \in RunNumbers : Counted(calledRuns[r])

LEMMA NewRunIsCounted ==
  ASSUME NEW callee \in CallNames, NEW r \in Nat, NEW depth \in 0..CallDepthLimit, NEW chain \in Nat
  PROVE  LET nested == NewRun(callee, r, depth, chain) IN
         nested \in CalledRuns /\ Counted(nested) /\ nested.caller = r
BY CollabAssumption DEF NewRun, CalledRuns, Counted

(* A run changes, another one may be added.                                *)
LEMMA RunChanges ==
  ASSUME CollabIInv, NEW r \in RunNumbers, NEW nested \in CalledRuns, Counted(nested), nested.caller = calledRuns[r].caller,
         calledRuns' = [calledRuns EXCEPT ![r] = nested], UNCHANGED tasksMade
  PROVE  CollabIInv'
<1>1. calledRuns \in Seq(CalledRuns) /\ tasksMade \in Seq(RunNumbers)
  BY DEF CollabIInv, CollabTyped
<1>2. calledRuns' \in Seq(CalledRuns) /\ Len(calledRuns') = Len(calledRuns)
  BY <1>1, ExceptSeq DEF RunNumbers
<1>3. \A q \in RunNumbers : calledRuns'[q] = IF q = r THEN nested ELSE calledRuns[q]
  BY <1>1, ExceptSeq DEF RunNumbers
<1>4. RunNumbers' = RunNumbers
  BY <1>2 DEF RunNumbers
<1>5. CollabTyped'
  BY <1>1, <1>2, <1>3, <1>4 DEF CollabIInv, CollabTyped
<1>6. \A q \in RunNumbers' : Counted(calledRuns'[q])
  BY <1>3, <1>4 DEF CollabIInv
<1> QED BY <1>5, <1>6 DEF CollabIInv, Counted

LEMMA RunAdded ==
  ASSUME CollabIInv, NEW nested \in CalledRuns, Counted(nested), nested.caller <= Len(calledRuns),
         calledRuns' = Append(calledRuns, nested), tasksMade' \in Seq(RunNumbers)
  PROVE  CollabIInv'
<1>1. calledRuns \in Seq(CalledRuns) /\ Len(calledRuns) \in Nat
  BY DEF CollabIInv, CollabTyped
<1>2. calledRuns' \in Seq(CalledRuns) /\ Len(calledRuns') = Len(calledRuns) + 1
  BY <1>1, AppendProperties
<1>3. RunNumbers' = RunNumbers \cup {Len(calledRuns) + 1}
  BY <1>1, <1>2 DEF RunNumbers
<1>4. calledRuns'[Len(calledRuns) + 1] = nested /\ \A q \in RunNumbers : calledRuns'[q] = calledRuns[q]
  BY <1>1, AppendProperties DEF RunNumbers
<1>5. tasksMade' \in Seq(RunNumbers')
  BY <1>3
<1>6. \A q \in RunNumbers' : calledRuns'[q].caller < q /\ Counted(calledRuns'[q])
  <2> TAKE q \in RunNumbers'
  <2>1. CASE q \in RunNumbers
    BY <1>4, <2>1 DEF CollabIInv, CollabTyped
  <2>2. CASE q = Len(calledRuns) + 1
    BY <1>1, <1>4, <2>2 DEF CalledRuns
  <2> QED BY <1>3, <2>1, <2>2
<1>7. CollabTyped'
  BY <1>2, <1>5, <1>6 DEF CollabTyped
<1> QED BY <1>6, <1>7 DEF CollabIInv, Counted

LEMMA CollabInitHolds == CollabInit => CollabIInv
<1> SUFFICES ASSUME NEW callee \in CallNames, calledRuns = <<NewRun(callee, 0, 0, 0)>>, tasksMade = <<>> PROVE CollabIInv
  BY DEF CollabInit
<1>1. NewRun(callee, 0, 0, 0) \in CalledRuns /\ Counted(NewRun(callee, 0, 0, 0)) /\ NewRun(callee, 0, 0, 0).caller = 0
  BY NewRunIsCounted, CollabAssumption
<1>2. calledRuns \in Seq(CalledRuns) /\ RunNumbers = {1} /\ calledRuns[1] = NewRun(callee, 0, 0, 0)
  BY <1>1 DEF RunNumbers
<1> QED BY <1>1, <1>2 DEF CollabIInv, CollabTyped

LEMMA CollabStepHolds == CollabIInv /\ [CollabNext]_collabVars => CollabIInv'
<1> SUFFICES ASSUME CollabIInv, [CollabNext]_collabVars PROVE CollabIInv'
  OBVIOUS
<1>0. /\ calledRuns \in Seq(CalledRuns) /\ tasksMade \in Seq(RunNumbers) /\ Len(calledRuns) \in Nat
      /\ DOMAIN calledRuns = RunNumbers /\ RunNumbers \subseteq Nat
      /\ \A r \in RunNumbers : calledRuns[r] \in CalledRuns /\ Counted(calledRuns[r])
  <2>1. calledRuns \in Seq(CalledRuns) /\ tasksMade \in Seq(RunNumbers)
    BY DEF CollabIInv, CollabTyped
  <2>2. \A r \in RunNumbers : Counted(calledRuns[r])
    BY DEF CollabIInv
  <2>3. /\ Len(calledRuns) \in Nat /\ DOMAIN calledRuns = 1..Len(calledRuns)
        /\ \A r \in 1..Len(calledRuns) : calledRuns[r] \in CalledRuns
    BY SMTT(40), <2>1
  <2>4. DOMAIN calledRuns = RunNumbers /\ \A r \in RunNumbers : calledRuns[r] \in CalledRuns
    BY <2>3 DEF RunNumbers
  <2>5. RunNumbers \subseteq Nat
    BY <2>3 DEF RunNumbers
  <2> QED BY <2>1, <2>2, <2>3, <2>4, <2>5
<1>1. ASSUME NEW r \in RunNumbers, AgentCall(r) PROVE CollabIInv'
  <2>1. PICK callee \in CallNames :
          calledRuns' = Append([calledRuns EXCEPT ![r].phase = "calling", ![r].current = @ + 1],
                               NewRun(callee, r, calledRuns[r].current + 1, calledRuns[r].chain + 1))
    BY <1>1 DEF AgentCall
  <2>2. /\ calledRuns[r] \in CalledRuns /\ calledRuns[r].phase = "running"
        /\ calledRuns[r].current < CallDepthLimit /\ tasksMade' = tasksMade
        /\ calledRuns[r].current = calledRuns[r].depth /\ calledRuns[r].depth <= CallDepthLimit
    BY SMTT(40), <1>1, <1>0 DEF AgentCall, Counted, CalledRuns
  <2> DEFINE nested == [calledRuns[r] EXCEPT !.phase = "calling", !.current = @ + 1]
             stepped == [calledRuns EXCEPT ![r] = nested]
             new == NewRun(callee, r, calledRuns[r].current + 1, calledRuns[r].chain + 1)
  <2>3. nested \in CalledRuns /\ Counted(nested) /\ nested.caller = calledRuns[r].caller
    <3>1. calledRuns[r].current + 1 \in Nat /\ calledRuns[r].depth \in Nat
      BY <2>2 DEF CalledRuns
    <3>2. nested \in CalledRuns
      BY <2>2, <3>1 DEF CalledRuns
    <3>3. /\ nested.depth = calledRuns[r].depth /\ nested.current = calledRuns[r].current + 1 /\ nested.phase = "calling"
          /\ nested.caller = calledRuns[r].caller
      BY <2>2 DEF CalledRuns
    <3> QED BY <2>2, <3>2, <3>3 DEF Counted
  <2>4. calledRuns' = Append(stepped, new)
    BY <2>1, <1>0
  <2>5. new \in CalledRuns /\ Counted(new) /\ new.caller = r
    <3>1. calledRuns[r].current + 1 \in 0..CallDepthLimit /\ calledRuns[r].chain + 1 \in Nat /\ r \in Nat
      BY SMTT(40), <2>2, <1>0, CollabAssumption DEF CalledRuns
    <3> QED BY <3>1, NewRunIsCounted
  <2> HIDE DEF nested, new
  <2>6. stepped \in Seq(CalledRuns) /\ Len(stepped) = Len(calledRuns) /\ DOMAIN stepped = RunNumbers
    BY <1>0, <2>3, ExceptSeq DEF RunNumbers
  <2>7. \A q \in RunNumbers : stepped[q] = IF q = r THEN nested ELSE calledRuns[q]
    BY <1>0
  <2> HIDE DEF stepped
  <2>8. /\ calledRuns' \in Seq(CalledRuns) /\ Len(calledRuns') = Len(calledRuns) + 1
        /\ calledRuns'[Len(calledRuns) + 1] = new
        /\ \A q \in RunNumbers : calledRuns'[q] = stepped[q]
    BY <2>4, <2>5, <2>6, AppendProperties DEF RunNumbers
  <2>9. RunNumbers' = RunNumbers \cup {Len(calledRuns) + 1}
    BY <1>0, <2>8 DEF RunNumbers
  <2>10. \A q \in RunNumbers' : calledRuns'[q].caller < q /\ Counted(calledRuns'[q])
    <3> TAKE q \in RunNumbers'
    <3>1. CASE q \in RunNumbers
      BY <2>3, <2>7, <2>8, <1>0, <3>1 DEF CollabIInv, CollabTyped
    <3>2. CASE q = Len(calledRuns) + 1
      BY <1>0, <2>5, <2>8, <3>2 DEF RunNumbers
    <3> QED BY <2>9, <3>1, <3>2
  <2>11. tasksMade' \in Seq(RunNumbers')
    BY <2>2, <2>9, <1>0
  <2> QED BY <2>8, <2>10, <2>11 DEF CollabIInv, CollabTyped, Counted
<1>2. ASSUME NEW r \in RunNumbers, CallEnds(r) PROVE CollabIInv'
  <2> DEFINE nested == [calledRuns[r] EXCEPT !.phase = "running", !.current = calledRuns[r].depth]
  <2>1. nested \in CalledRuns /\ Counted(nested) /\ nested.caller = calledRuns[r].caller
    <3>1. calledRuns[r] \in CalledRuns /\ calledRuns[r].depth \in Nat /\ calledRuns[r].depth <= CallDepthLimit
      BY <1>0 DEF Counted, CalledRuns
    <3>2. nested \in CalledRuns
      BY <3>1 DEF CalledRuns
    <3>3. /\ nested.depth = calledRuns[r].depth /\ nested.current = calledRuns[r].depth /\ nested.phase = "running"
          /\ nested.caller = calledRuns[r].caller
      BY <3>1 DEF CalledRuns
    <3> QED BY <3>1, <3>2, <3>3 DEF Counted
  <2>2. calledRuns' = [calledRuns EXCEPT ![r] = nested] /\ UNCHANGED tasksMade
    BY <1>2, <1>0 DEF CallEnds
  <2> HIDE DEF nested
  <2> QED BY <2>1, <2>2, RunChanges
<1>3. ASSUME NEW r \in RunNumbers, RunEnds(r) PROVE CollabIInv'
  <2> DEFINE nested == [calledRuns[r] EXCEPT !.phase = "done"]
  <2>1. nested \in CalledRuns /\ Counted(nested) /\ nested.caller = calledRuns[r].caller
    BY <1>3, <1>0 DEF CalledRuns, Counted, RunEnds
  <2>2. calledRuns' = [calledRuns EXCEPT ![r] = nested] /\ UNCHANGED tasksMade
    BY <1>3, <1>0 DEF RunEnds
  <2> HIDE DEF nested
  <2> QED BY <2>1, <2>2, RunChanges
<1>4. ASSUME NEW r \in RunNumbers, OrchestrationTaskCreate(r) PROVE CollabIInv'
  <2>1. tasksMade' \in Seq(RunNumbers) /\ calledRuns' = calledRuns
    BY <1>4, <1>0, AppendProperties DEF OrchestrationTaskCreate
  <2> QED BY <2>1 DEF CollabIInv, CollabTyped, RunNumbers, Counted
<1>5. ASSUME SpeakerRuns PROVE CollabIInv'
  <2>1. Head(tasksMade) \in RunNumbers /\ tasksMade' \in Seq(RunNumbers)
    BY <1>5, <1>0 DEF SpeakerRuns
  <2>2. PICK callee \in CallNames :
          calledRuns' = Append(calledRuns, NewRun(callee, Head(tasksMade), 0, calledRuns[Head(tasksMade)].chain + 1))
    BY <1>5 DEF SpeakerRuns
  <2> DEFINE nested == NewRun(callee, Head(tasksMade), 0, calledRuns[Head(tasksMade)].chain + 1)
  <2>3. calledRuns[Head(tasksMade)].chain + 1 \in Nat /\ Head(tasksMade) \in Nat /\ 0 \in 0..CallDepthLimit
    <3>1. calledRuns[Head(tasksMade)] \in CalledRuns
      BY <1>0, <2>1
    <3>2. Head(tasksMade) \in Nat
      BY <1>0, <2>1
    <3> QED BY <3>1, <3>2, CollabAssumption DEF CalledRuns
  <2>4. nested \in CalledRuns /\ Counted(nested) /\ nested.caller = Head(tasksMade)
    BY <2>3, NewRunIsCounted
  <2>5. nested.caller <= Len(calledRuns) /\ calledRuns' = Append(calledRuns, nested)
    BY <1>0, <2>1, <2>2, <2>4 DEF RunNumbers
  <2> HIDE DEF nested
  <2> QED BY <2>1, <2>4, <2>5, RunAdded
<1>6. CASE UNCHANGED collabVars
  BY <1>6 DEF collabVars, CollabIInv, CollabTyped, RunNumbers, Counted
<1> QED BY <1>0, <1>1, <1>2, <1>3, <1>4, <1>5, <1>6 DEF CollabNext

LEMMA CollabImplies == CollabIInv => CollabTypeOK /\ CallsAreBounded
<1> SUFFICES ASSUME CollabIInv PROVE CollabTypeOK /\ CallsAreBounded
  OBVIOUS
<1>1. /\ DOMAIN calledRuns = RunNumbers /\ RunNumbers \subseteq Nat
      /\ \A r \in RunNumbers :
           calledRuns[r] \in CalledRuns /\ calledRuns[r].caller < r /\ Counted(calledRuns[r])
  BY DEF CollabIInv, CollabTyped, RunNumbers
<1>2. CollabTypeOK
  <2> SUFFICES ASSUME NEW r \in RunNumbers
               PROVE  /\ calledRuns[r].agent \in CallNames /\ calledRuns[r].caller \in 0..(r - 1)
                      /\ calledRuns[r].phase \in {"running", "calling", "done"}
    BY <1>1 DEF CollabTypeOK
  <2>1. calledRuns[r] \in CalledRuns /\ calledRuns[r].caller < r /\ r \in Nat
    BY <1>1
  <2> QED BY <2>1 DEF CalledRuns
<1>3. CallsAreBounded
  BY <1>1 DEF CallsAreBounded, Counted
<1> QED BY <1>2, <1>3

(* Whatever the order in which runs call, time out, go on and end, no run  *)
(* is further from its caller's task than agent_call's limit.              *)
THEOREM CallsStayBounded == CollabSpec => [](CollabTypeOK /\ CallsAreBounded)
<1> QED BY CollabImplies, CollabInitHolds, CollabStepHolds, PTL DEF CollabSpec

--------------------------------------------------------------------------------
(* What a swarm has collected is finished, and nothing is asked unless it  *)
(* runs; its results are one for each task.                                *)
OneEach(status) == reports = {[task |-> t, status |-> status[t]] : t \in SwarmTasks}

SwarmWorks ==
  /\ collected \subseteq Finished
  /\ swarm.state # "running" => TasksCalling = {}
  /\ swarm.state = "running" => callDepth >= 1

SwarmReported ==
  swarm.state = "returned" =>
    \E status \in [SwarmTasks -> {"success", "error", "cancelled"}] :
      OneEach(status) /\ \A t \in SwarmTasks : status[t] # "cancelled" => tasks[t] = status[t]

SwarmTyped == SwarmTypeOK /\ swarm \in [state : {"none", "running", "returned"}, policy : FailurePolicies \cup {"best_effort"}]

SwarmIInv == SwarmTyped /\ SwarmWorks /\ SwarmReported

(* The results of a swarm are as many as its tasks.                        *)
LEMMA OneEachCounts ==
  ASSUME NEW status \in [SwarmTasks -> {"success", "error", "cancelled"}], OneEach(status)
  PROVE  Cardinality(reports) = Cardinality(SwarmTasks)
<1> DEFINE f == [t \in SwarmTasks |-> [task |-> t, status |-> status[t]]]
<1>1. f \in Bijection(SwarmTasks, reports)
  BY DEF OneEach, Bijection, Injection, Surjection, IsInjective
<1>2. ExistsBijection(SwarmTasks, reports)
  BY <1>1 DEF ExistsBijection
<1> QED BY <1>2, FS_Bijection, SwarmAssumption

LEMMA SwarmReturnsHolds ==
  ASSUME SwarmIInv, swarm.state = "running",
         NEW status \in [SwarmTasks -> {"success", "error", "cancelled"}],
         \A t \in SwarmTasks : status[t] # "cancelled" => t \in Finished /\ tasks[t] = status[t],
         NEW answers, answers = {[task |-> t, status |-> status[t]] : t \in SwarmTasks},
         SwarmReturns(answers)
  PROVE  SwarmIInv'
<1>1. /\ swarm' = [swarm EXCEPT !.state = "returned"] /\ reports' = answers
      /\ tasks' = [t \in SwarmTasks |-> IF t \in Finished THEN tasks[t] ELSE "cancelled"]
      /\ callDepth' = callDepth - 1 /\ collected' = collected
  BY DEF SwarmReturns
<1>2. swarm' \in [state : {"none", "running", "returned"}, policy : FailurePolicies \cup {"best_effort"}]
      /\ swarm'.state = "returned"
  BY <1>1 DEF SwarmIInv, SwarmTyped
<1>3. tasks' \in [SwarmTasks -> {"none", "waiting", "calling", "success", "error", "cancelled"}]
  BY <1>1 DEF SwarmIInv, SwarmTyped, SwarmTypeOK, Finished
<1>4. callDepth' \in 0..MaxDepth
  BY <1>1, SwarmAssumption DEF SwarmIInv, SwarmTyped, SwarmTypeOK, SwarmWorks
<1>5. SwarmTyped'
  BY <1>1, <1>2, <1>3, <1>4 DEF SwarmIInv, SwarmTyped, SwarmTypeOK
<1>6. SwarmWorks'
  BY <1>1, <1>2 DEF SwarmIInv, SwarmWorks, Finished, TasksCalling
<1>7. \A t \in SwarmTasks : status[t] # "cancelled" => tasks'[t] = status[t]
  BY <1>1
<1>8. SwarmReported'
  BY <1>1, <1>7 DEF SwarmReported, OneEach
<1> QED BY <1>5, <1>6, <1>8 DEF SwarmIInv

LEMMA SwarmInitHolds == SwarmInit => SwarmIInv
BY SwarmAssumption
   DEF SwarmInit, SwarmIInv, SwarmTyped, SwarmTypeOK, SwarmWorks, SwarmReported, Finished, TasksCalling

LEMMA SwarmStepHolds == SwarmIInv /\ [SwarmNext]_swarmVars => SwarmIInv'
<1> SUFFICES ASSUME SwarmIInv, [SwarmNext]_swarmVars PROVE SwarmIInv'
  OBVIOUS
<1>0. /\ SwarmTyped /\ SwarmWorks /\ SwarmReported
      /\ tasks \in [SwarmTasks -> {"none", "waiting", "calling", "success", "error", "cancelled"}]
      /\ swarm \in [state : {"none", "running", "returned"}, policy : FailurePolicies \cup {"best_effort"}]
      /\ callDepth \in 0..MaxDepth /\ collected \subseteq Finished
  BY DEF SwarmIInv, SwarmTyped, SwarmTypeOK, SwarmWorks
<1>1. ASSUME DispatchSwarm PROVE SwarmIInv'
  <2>1. PICK policy \in FailurePolicies : swarm' = [state |-> "running", policy |-> policy]
    BY <1>1 DEF DispatchSwarm
  <2>2. callDepth' = callDepth + 1 /\ callDepth < MaxDepth /\ collected' = {} /\ reports' = {}
    BY <1>1 DEF DispatchSwarm
  <2>3. tasks' \in [SwarmTasks -> {"none", "waiting", "calling", "success", "error", "cancelled"}]
    BY <1>1 DEF DispatchSwarm
  <2>4. SwarmTyped'
    BY <1>0, <2>1, <2>2, <2>3, SwarmAssumption DEF SwarmTyped, SwarmTypeOK
  <2>5. SwarmWorks' /\ SwarmReported'
    BY <1>0, <2>1, <2>2 DEF SwarmWorks, SwarmReported
  <2> QED BY <2>4, <2>5 DEF SwarmIInv
<1>2. ASSUME NEW t \in SwarmTasks, TaskStarts(t) PROVE SwarmIInv'
  <2> USE <1>2 DEF TaskStarts
  <2>1. SwarmTyped' /\ swarm'.state = "running"
    BY <1>0 DEF SwarmTyped, SwarmTypeOK
  <2>2. SwarmWorks'
    BY <1>0, <2>1 DEF SwarmWorks, Finished
  <2> QED BY <2>1, <2>2 DEF SwarmIInv, SwarmReported
<1>3. ASSUME NEW t \in SwarmTasks, TaskAnswered(t) PROVE SwarmIInv'
  <2>1. PICK status \in {"success", "error"} : tasks' = [tasks EXCEPT ![t] = status]
    BY <1>3 DEF TaskAnswered
  <2>2. tasks[t] = "calling" /\ UNCHANGED <<swarm, collected, reports, callDepth, swarms>>
    BY <1>3 DEF TaskAnswered
  <2>3. swarm.state = "running"
    BY <1>0, <2>2 DEF SwarmWorks, TasksCalling
  <2>4. SwarmTyped'
    BY <1>0, <2>1, <2>2 DEF SwarmTyped, SwarmTypeOK
  <2>5. SwarmWorks'
    BY <1>0, <2>1, <2>2, <2>3 DEF SwarmWorks, Finished
  <2> QED BY <2>2, <2>3, <2>4, <2>5 DEF SwarmIInv, SwarmReported
<1>4. ASSUME AllFinished \/ AllCollected PROVE SwarmIInv'
  <2> DEFINE status == [t \in SwarmTasks |-> tasks[t]]
  <2>1. Finished = SwarmTasks /\ swarm.state = "running" /\ SwarmReturns(Answers(SwarmTasks))
    BY <1>4, <1>0 DEF AllFinished, AllCollected, Finished
  <2>2. /\ status \in [SwarmTasks -> {"success", "error", "cancelled"}]
        /\ \A t \in SwarmTasks : status[t] # "cancelled" => t \in Finished /\ tasks[t] = status[t]
        /\ Answers(SwarmTasks) = {[task |-> t, status |-> status[t]] : t \in SwarmTasks}
    BY <2>1 DEF Finished, Answers
  <2> HIDE DEF status
  <2> QED BY <2>1, <2>2, SwarmReturnsHolds
<1>5. ASSUME CollectSuccess PROVE SwarmIInv'
  <2>1. collected' \subseteq Finished /\ swarm.state = "running" /\ UNCHANGED <<swarm, tasks, reports, callDepth>>
    BY <1>5, <1>0 DEF CollectSuccess
  <2> QED BY <1>0, <2>1 DEF SwarmIInv, SwarmTyped, SwarmTypeOK, SwarmWorks, SwarmReported, Finished
<1>6. ASSUME CollectFailure PROVE SwarmIInv'
  <2>1. PICK t \in Finished \ collected :
          SwarmReturns(Answers(collected \cup {t}) \cup ReportAs(SwarmTasks \ (collected \cup {t}), "cancelled"))
    BY <1>6 DEF CollectFailure
  <2> DEFINE T == collected \cup {t}
             status == [u \in SwarmTasks |-> IF u \in T THEN tasks[u] ELSE "cancelled"]
  <2>2. T \subseteq Finished /\ Finished \subseteq SwarmTasks
    BY <1>0, <2>1 DEF Finished
  <2>3. /\ status \in [SwarmTasks -> {"success", "error", "cancelled"}]
        /\ \A u \in SwarmTasks : status[u] # "cancelled" => u \in Finished /\ tasks[u] = status[u]
    BY <2>2 DEF Finished
  <2>4. Answers(T) \cup ReportAs(SwarmTasks \ T, "cancelled") = {[task |-> u, status |-> status[u]] : u \in SwarmTasks}
    BY <2>2 DEF Answers, ReportAs
  <2>5. swarm.state = "running" /\ SwarmReturns(Answers(T) \cup ReportAs(SwarmTasks \ T, "cancelled"))
    BY <1>6, <2>1 DEF CollectFailure
  <2> HIDE DEF T, status
  <2> QED BY <2>3, <2>4, <2>5, SwarmReturnsHolds
<1>7. ASSUME SwarmTimesOut PROVE SwarmIInv'
  <2> DEFINE status == [u \in SwarmTasks |-> "cancelled"]
  <2>1. /\ status \in [SwarmTasks -> {"success", "error", "cancelled"}]
        /\ \A u \in SwarmTasks : status[u] # "cancelled" => u \in Finished /\ tasks[u] = status[u]
        /\ ReportAs(SwarmTasks, "cancelled") = {[task |-> u, status |-> status[u]] : u \in SwarmTasks}
    BY DEF ReportAs
  <2>2. swarm.state = "running" /\ SwarmReturns(ReportAs(SwarmTasks, "cancelled"))
    BY <1>7 DEF SwarmTimesOut
  <2> HIDE DEF status
  <2> QED BY <2>1, <2>2, SwarmReturnsHolds
<1>8. CASE UNCHANGED swarmVars
  BY <1>8 DEF swarmVars, SwarmIInv, SwarmTyped, SwarmTypeOK, SwarmWorks, SwarmReported, OneEach, Finished, TasksCalling
<1> QED BY <1>1, <1>2, <1>3, <1>4, <1>5, <1>6, <1>7, <1>8 DEF SwarmNext

LEMMA SwarmImplies == SwarmIInv => SwarmTypeOK /\ EachTaskReported
<1> SUFFICES ASSUME SwarmIInv PROVE SwarmTypeOK /\ EachTaskReported
  OBVIOUS
<1>1. SwarmTypeOK /\ (swarm.state = "returned" => TasksCalling = {})
  BY DEF SwarmIInv, SwarmTyped, SwarmWorks
<1>2. ASSUME swarm.state = "returned"
      PROVE  /\ \A t \in SwarmTasks : \E report \in reports : report.task = t
             /\ Cardinality(reports) = Cardinality(SwarmTasks)
             /\ \A report \in reports : report.status # "cancelled" => tasks[report.task] = report.status
  <2>1. PICK status \in [SwarmTasks -> {"success", "error", "cancelled"}] :
          OneEach(status) /\ \A t \in SwarmTasks : status[t] # "cancelled" => tasks[t] = status[t]
    BY <1>2 DEF SwarmIInv, SwarmReported
  <2>2. Cardinality(reports) = Cardinality(SwarmTasks)
    BY <2>1, OneEachCounts
  <2>3. \A t \in SwarmTasks : \E report \in reports : report.task = t
    <3> TAKE t \in SwarmTasks
    <3>1. [task |-> t, status |-> status[t]] \in reports
      BY <2>1 DEF OneEach
    <3> QED BY <3>1
  <2>4. ASSUME NEW report \in reports, report.status # "cancelled" PROVE tasks[report.task] = report.status
    <3>1. PICK t \in SwarmTasks : report = [task |-> t, status |-> status[t]]
      BY <2>1 DEF OneEach
    <3> QED BY <2>1, <2>4, <3>1
  <2> QED BY <2>2, <2>3, <2>4
<1> QED BY <1>1, <1>2 DEF EachTaskReported

(* However the tasks of a swarm end, a call that is over has left no       *)
(* request open, and each task has one result, that of its agent.          *)
THEOREM TasksAreReported == SwarmSpec => [](SwarmTypeOK /\ EachTaskReported)
<1> QED BY SwarmImplies, SwarmInitHolds, SwarmStepHolds, PTL DEF SwarmSpec

--------------------------------------------------------------------------------
(* Simulation: a timeline replays to its world.                            *)

Worlds == [step : Nat, facts : SUBSET WorldFacts]
Entries == [actor : ToSet(Actors), seen : Worlds, delta : Deltas]
EventCounts == [started : Nat, completed : Nat, error : Nat, done : Nat]
SimPhases == {"new", "tick", "acting", "stepping", "done"}

SimTyped ==
  /\ setup \in Setups /\ simPhase \in SimPhases /\ simError \in BOOLEAN
  /\ world \in Worlds /\ timeline \in Seq(Entries) /\ selected \in Seq(ToSet(Actors))
  /\ simEvents \in EventCounts

StepsInPlace ==
  /\ \A i \in DOMAIN timeline : timeline[i].actor \in setup.policies
  /\ simPhase \in {"tick", "acting", "stepping"} => Actors # <<>>
  /\ simPhase = "stepping" => selected # <<>> /\ Head(selected) \in setup.policies

(* A turn is begun only below the limit, and the last event is one.        *)
EventsCounted ==
  /\ Len(timeline) <= setup.max /\ Len(timeline) = simEvents.completed
  /\ simPhase \in {"acting", "stepping"} => Len(timeline) < setup.max
  /\ simEvents.started = simEvents.completed + (IF simPhase = "stepping" \/ simError THEN 1 ELSE 0)
  /\ simEvents.done = IF simPhase = "done" THEN 1 ELSE 0
  /\ simError => simPhase = "done"
  /\ simPhase = "done" /\ ~simError /\ Actors # <<>> => Len(timeline) = setup.max

SimIInv == SimTyped /\ StepsInPlace /\ EventsCounted /\ TimelineReplays

(* What a step adds is there from then on, what it removes is not.         *)
LEMMA FactsAfter ==
  ASSUME NEW e \in Entries, NEW m \in Nat, m = Len(timeline), timeline \in Seq(Entries), timeline' = Append(timeline, e)
  PROVE  /\ \A i \in 1..(m + 1) : FactsBefore(i)' = FactsBefore(i)
         /\ FactsBefore(m + 2)' = (FactsBefore(m + 1) \ e.delta.removed) \cup e.delta.added
<1>1. timeline'[m + 1] = e /\ \A j \in 1..m : timeline'[j] = timeline[j]
  BY AppendProperties
<1>2. ASSUME NEW i \in 1..(m + 1) PROVE FactsBefore(i)' = FactsBefore(i)
  <2>1. \A j \in 1..(i - 1) : timeline'[j] = timeline[j] /\ \A k \in (j + 1)..(i - 1) : timeline'[k] = timeline[k]
    BY <1>1
  <2> QED BY <2>1 DEF FactsBefore
<1>3. e.delta.added \in SUBSET WorldFacts
  BY SimulationAssumption DEF Entries
<1>4. ASSUME NEW f \in WorldFacts
      PROVE  f \in FactsBefore(m + 2)' <=> f \in (FactsBefore(m + 1) \ e.delta.removed) \cup e.delta.added
  <2>1. (m + 1) - 1 = m /\ (m + 2) - 1 = m + 1
    OBVIOUS
  <2>2. f \in FactsBefore(m + 1) <=>
          \E j \in 1..m : f \in timeline[j].delta.added /\ \A k \in (j + 1)..m : f \notin timeline[k].delta.removed
    BY <2>1 DEF FactsBefore
  <2>3. f \in FactsBefore(m + 2)' <=>
          \E j \in 1..(m + 1) : f \in timeline'[j].delta.added /\ \A k \in (j + 1)..(m + 1) : f \notin timeline'[k].delta.removed
    BY <2>1 DEF FactsBefore
  <2>4. ASSUME NEW j \in 1..m
        PROVE  (\A k \in (j + 1)..(m + 1) : f \notin timeline'[k].delta.removed) <=>
                 (\A k \in (j + 1)..m : f \notin timeline[k].delta.removed) /\ f \notin e.delta.removed
    <3>1. (j + 1)..(m + 1) = (j + 1)..m \cup {m + 1} /\ \A k \in (j + 1)..m : timeline'[k] = timeline[k]
      BY <1>1
    <3> QED BY <1>1, <3>1
  <2>5. 1..(m + 1) = 1..m \cup {m + 1} /\ (m + 1 + 1)..(m + 1) = {}
    OBVIOUS
  <2>6. \A j \in 1..m : timeline'[j].delta.added = timeline[j].delta.added
    BY <1>1
  <2> QED BY <1>1, <2>2, <2>3, <2>4, <2>5, <2>6
<1>5. FactsBefore(m + 2)' \subseteq WorldFacts /\ FactsBefore(m + 1) \subseteq WorldFacts
  BY DEF FactsBefore
<1> QED BY <1>2, <1>3, <1>4, <1>5

LEMMA SimInitHolds == SimulationInit => SimIInv
<1> SUFFICES ASSUME SimulationInit PROVE SimIInv
  OBVIOUS
<1>1. /\ setup \in Setups /\ simPhase = "new" /\ world = [step |-> 0, facts |-> {}] /\ timeline = <<>> /\ selected = <<>>
      /\ simEvents = [started |-> 0, completed |-> 0, error |-> 0, done |-> 0] /\ simError = FALSE
  BY DEF SimulationInit
<1>2. setup.max \in Nat
  BY <1>1, SimulationAssumption
<1>3. world \in Worlds /\ simEvents \in EventCounts
  BY <1>1 DEF Worlds, EventCounts
<1>4. Len(timeline) = 0 /\ DOMAIN timeline = {} /\ timeline \in Seq(Entries) /\ selected \in Seq(ToSet(Actors))
  BY <1>1
<1>5. FactsBefore(1) = {}
  BY DEF FactsBefore
<1>6. SimTyped /\ StepsInPlace
  BY <1>1, <1>3, <1>4 DEF SimTyped, StepsInPlace, SimPhases
<1>7. EventsCounted
  BY <1>1, <1>2, <1>4 DEF EventsCounted
<1>8. TimelineReplays
  <2>1. world = [step |-> Len(timeline), facts |-> FactsBefore(Len(timeline) + 1)]
    <3>1. Len(timeline) + 1 = 1
      BY <1>4
    <3>2. FactsBefore(Len(timeline) + 1) = {}
      BY <1>5, <3>1
    <3> QED BY <1>1, <1>4, <3>2
  <2> QED BY <1>4, <2>1 DEF TimelineReplays
<1> QED BY <1>6, <1>7, <1>8 DEF SimIInv

(* What leaves the timeline and the world as they are keeps them.          *)
LEMMA ReplaysKept == TimelineReplays /\ UNCHANGED <<timeline, world>> => TimelineReplays'
BY DEF TimelineReplays, FactsBefore

LEMMA SimFacts ==
  ASSUME SimIInv
  PROVE  /\ setup.max \in Nat /\ setup.policies \subseteq ToSet(Actors) /\ Len(timeline) \in Nat
         /\ DOMAIN timeline = 1..Len(timeline) /\ timeline \in Seq(Entries) /\ selected \in Seq(ToSet(Actors))
         /\ world \in Worlds /\ simEvents \in EventCounts /\ simEvents.started \in Nat /\ simEvents.completed \in Nat
         /\ simEvents.error \in Nat /\ simEvents.done \in Nat
<1>1. timeline \in Seq(Entries) /\ selected \in Seq(ToSet(Actors)) /\ world \in Worlds /\ simEvents \in EventCounts
      /\ setup \in Setups
  BY DEF SimIInv, SimTyped
<1>2. setup.max \in Nat /\ setup.policies \subseteq ToSet(Actors)
  BY <1>1, SimulationAssumption
<1>3. Len(timeline) \in Nat /\ DOMAIN timeline = 1..Len(timeline)
  BY <1>1, LenProperties
<1>4. simEvents.started \in Nat /\ simEvents.completed \in Nat /\ simEvents.error \in Nat /\ simEvents.done \in Nat
  BY <1>1 DEF EventCounts
<1> QED BY <1>1, <1>2, <1>3, <1>4

(* The fields of the counts of events after a step that reports.           *)
LEMMA Reported ==
  ASSUME NEW events \in EventCounts, Report(events)
  PROVE  /\ simPhase' = "done" /\ simEvents' \in EventCounts /\ simEvents'.started = events.started
         /\ simEvents'.completed = events.completed /\ simEvents'.done = events.done + 1
<1>1. simPhase' = "done" /\ simEvents' = [events EXCEPT !.done = @ + 1]
  BY DEF Report
<1>2. simEvents'.started = events.started /\ simEvents'.completed = events.completed /\ simEvents'.done = events.done + 1
  BY <1>1 DEF EventCounts
<1>3. simEvents' \in EventCounts
  BY <1>1 DEF EventCounts
<1> QED BY <1>1, <1>2, <1>3

LEMMA SelectedTyped == ASSUME SimIInv, Actors # <<>> PROVE SelectedActors \in Seq(ToSet(Actors))
<1>1. Actors \in Seq(ToSet(Actors)) /\ Len(Actors) \in Nat \ {0}
  BY SimulationAssumption, EmptySeq
<1>2. Len(timeline) % Len(Actors) \in 0..(Len(Actors) - 1)
  BY <1>1, SimFacts
<1>3. (Len(timeline) % Len(Actors)) + 1 \in 1..Len(Actors)
  BY <1>1, <1>2
<1>4. Actors[(Len(timeline) % Len(Actors)) + 1] \in ToSet(Actors)
  BY <1>1, <1>3, ElementOfSeq
<1>5. <<Actors[(Len(timeline) % Len(Actors)) + 1]>> \in Seq(ToSet(Actors))
  BY <1>4
<1> QED BY <1>1, <1>5 DEF SelectedActors

(* A step of an actor completes: it is recorded and its delta applied.     *)
LEMMA StepRecorded ==
  ASSUME SimIInv, NEW d \in Deltas, StepCompletes(d), UNCHANGED setup
  PROVE  SimIInv'
<1> DEFINE m == Len(timeline)
           e == [actor |-> Head(selected), seen |-> world, delta |-> d]
           completed == [simEvents EXCEPT !.completed = @ + 1]
<1>0. /\ simPhase = "stepping" /\ timeline' = Append(timeline, e) /\ world' = ApplyDelta(world, d)
      /\ selected' = Tail(selected) /\ simError' = simError
      /\ IF Len(timeline') >= setup.max THEN Report(completed)
         ELSE simPhase' = "acting" /\ simEvents' = completed
  BY DEF StepCompletes, Recorded
<1>1. /\ m \in Nat /\ setup.max \in Nat /\ DOMAIN timeline = 1..m /\ timeline \in Seq(Entries) /\ world \in Worlds
      /\ selected \in Seq(ToSet(Actors)) /\ selected # <<>> /\ Head(selected) \in setup.policies
      /\ simEvents \in EventCounts /\ simEvents.started \in Nat /\ simEvents.completed \in Nat
      /\ m < setup.max /\ simEvents.done = 0 /\ ~simError /\ m = simEvents.completed
      /\ simEvents.started = m + 1 /\ Actors # <<>>
      /\ world = [step |-> m, facts |-> FactsBefore(m + 1)]
      /\ \A i \in 1..m : timeline[i].seen = [step |-> i - 1, facts |-> FactsBefore(i)]
  BY <1>0, SimFacts DEF SimIInv, StepsInPlace, EventsCounted, TimelineReplays
<1>2. e \in Entries /\ e.seen = world /\ e.delta = d /\ e.actor \in setup.policies
  <2>1. Head(selected) \in ToSet(Actors)
    BY <1>1, HeadTailProperties
  <2> QED BY <1>1, <2>1 DEF Entries
<1> HIDE DEF e
<1>3. /\ timeline' \in Seq(Entries) /\ Len(timeline') = m + 1 /\ DOMAIN timeline' = 1..(m + 1)
      /\ timeline'[m + 1] = e /\ \A i \in 1..m : timeline'[i] = timeline[i]
  BY <1>0, <1>1, <1>2, AppendProperties, LenProperties
<1>4. PICK n \in Nat : n = m
  BY <1>1
<1>5. /\ \A i \in 1..(n + 1) : FactsBefore(i)' = FactsBefore(i)
      /\ FactsBefore(n + 2)' = (FactsBefore(n + 1) \ d.removed) \cup d.added
  BY <1>0, <1>1, <1>2, <1>4, FactsAfter
<1>6. world' = [step |-> n + 1, facts |-> FactsBefore(n + 2)']
  <2>1. world.step = n /\ world.facts = FactsBefore(n + 1)
    BY <1>1, <1>4
  <2> QED BY <1>0, <1>5, <2>1 DEF ApplyDelta
<1>7. TimelineReplays'
  <2>1. \A i \in 1..(n + 1) : timeline'[i].seen = [step |-> i - 1, facts |-> FactsBefore(i)']
    <3> TAKE i \in 1..(n + 1)
    <3>1. CASE i \in 1..n
      BY <1>1, <1>3, <1>4, <1>5, <3>1
    <3>2. CASE i = n + 1
      <4>1. timeline'[i].seen = [step |-> n, facts |-> FactsBefore(n + 1)]
        BY <1>1, <1>2, <1>3, <1>4, <3>2
      <4>2. FactsBefore(i)' = FactsBefore(n + 1) /\ i - 1 = n
        BY <1>5, <3>2
      <4> QED BY <4>1, <4>2
    <3> QED BY <3>1, <3>2
  <2>2. Len(timeline') + 1 = n + 2 /\ Len(timeline') = n + 1 /\ DOMAIN timeline' = 1..(n + 1)
    BY <1>3, <1>4
  <2> QED BY <1>6, <2>1, <2>2 DEF TimelineReplays
<1>8. completed \in EventCounts /\ completed.started = m + 1 /\ completed.completed = m + 1 /\ completed.done = 0
  BY <1>1 DEF EventCounts
<1>9. world' \in Worlds
  <2>1. FactsBefore(n + 2)' \in SUBSET WorldFacts
    BY DEF FactsBefore
  <2> QED BY <1>6, <2>1 DEF Worlds
<1>10. \A i \in DOMAIN timeline' : timeline'[i].actor \in setup'.policies
  <2>1. \A i \in 1..m : timeline[i].actor \in setup.policies
    BY <1>1 DEF SimIInv, StepsInPlace
  <2> QED BY <1>1, <1>2, <1>3, <2>1
<1>11. selected' \in Seq(ToSet(Actors))
  BY <1>0, <1>1, HeadTailProperties
<1> HIDE DEF completed, m
<1>12. CASE m + 1 >= setup.max
  <2>1. Report(completed)
    BY <1>0, <1>3, <1>12
  <2>2. /\ simPhase' = "done" /\ simEvents' \in EventCounts /\ simEvents'.started = m + 1
        /\ simEvents'.completed = m + 1 /\ simEvents'.done = 1
    BY <1>8, <2>1, Reported
  <2>3. SimTyped'
    BY <1>0, <1>3, <1>9, <1>11, <2>2 DEF SimIInv, SimTyped, SimPhases
  <2>4. StepsInPlace'
    BY <1>10, <2>2 DEF StepsInPlace
  <2>5. EventsCounted'
    BY <1>0, <1>1, <1>3, <1>12, <2>2 DEF EventsCounted
  <2> QED BY <1>7, <2>3, <2>4, <2>5 DEF SimIInv
<1>13. CASE ~(m + 1 >= setup.max)
  <2>1. simPhase' = "acting" /\ simEvents' = completed
    BY <1>0, <1>3, <1>13
  <2>3. SimTyped'
    BY <1>0, <1>3, <1>8, <1>9, <1>11, <2>1 DEF SimIInv, SimTyped, SimPhases
  <2>4. StepsInPlace'
    BY <1>1, <1>10, <2>1 DEF StepsInPlace
  <2>5. EventsCounted'
    BY <1>0, <1>1, <1>3, <1>8, <1>13, <2>1 DEF EventsCounted
  <2> QED BY <1>7, <2>3, <2>4, <2>5 DEF SimIInv
<1> QED BY <1>12, <1>13

LEMMA SimStepHolds == SimIInv /\ [SimulationNext]_simVars => SimIInv'
<1> SUFFICES ASSUME SimIInv, [SimulationNext]_simVars PROVE SimIInv'
  OBVIOUS
<1>0. /\ setup.max \in Nat /\ Len(timeline) \in Nat /\ selected \in Seq(ToSet(Actors))
      /\ simEvents \in EventCounts /\ simEvents.started \in Nat /\ simEvents.completed \in Nat /\ simEvents.done \in Nat
      /\ SimTyped /\ StepsInPlace /\ EventsCounted /\ TimelineReplays
  BY SimFacts DEF SimIInv
<1>1. ASSUME UNCHANGED <<setup, timeline, world>>, simPhase \in {"new", "tick", "stepping"}, Report(simEvents), simError' = simError,
             selected' = selected, Actors = <<>> \/ Len(timeline) = setup.max, simPhase # "stepping"
      PROVE  SimIInv'
  <2>1. /\ simPhase' = "done" /\ simEvents' \in EventCounts /\ simEvents'.started = simEvents.started
        /\ simEvents'.completed = simEvents.completed /\ simEvents'.done = simEvents.done + 1
    BY <1>0, <1>1, Reported
  <2>2. SimTyped'
    BY <1>0, <1>1, <2>1 DEF SimTyped, SimPhases
  <2>3. StepsInPlace'
    BY <1>0, <1>1, <2>1 DEF StepsInPlace
  <2>4. EventsCounted'
    BY <1>0, <1>1, <2>1 DEF EventsCounted
  <2> QED BY <1>0, <1>1, <2>2, <2>3, <2>4, ReplaysKept DEF SimIInv
<1>2. ASSUME SimStart, UNCHANGED setup PROVE SimIInv'
  <2>1. CASE Actors = <<>>
    BY <1>1, <1>2, <2>1 DEF SimStart
  <2>2. CASE Actors # <<>>
    <3>1. simPhase = "new" /\ simPhase' = "tick" /\ UNCHANGED <<setup, simEvents, world, timeline, selected, simError>>
      BY <1>2, <2>2 DEF SimStart
    <3>2. SimTyped' /\ StepsInPlace'
      BY <1>0, <2>2, <3>1 DEF SimTyped, StepsInPlace, SimPhases
    <3>3. EventsCounted'
      BY <1>0, <3>1 DEF EventsCounted
    <3> QED BY <1>0, <3>1, <3>2, <3>3, ReplaysKept DEF SimIInv
  <2> QED BY <2>1, <2>2
<1>3. ASSUME TickStops, UNCHANGED setup PROVE SimIInv'
  <2>1. Len(timeline) = setup.max
    BY <1>0, <1>3 DEF TickStops, AtLimit, EventsCounted
  <2> QED BY <1>1, <1>3, <2>1 DEF TickStops
<1>4. ASSUME SelectActors, UNCHANGED setup PROVE SimIInv'
  <2>1. /\ simPhase = "tick" /\ Len(timeline) < setup.max /\ simPhase' = "acting" /\ selected' = SelectedActors
        /\ UNCHANGED <<setup, world, timeline, simEvents, simError>>
    BY <1>0, <1>4 DEF SelectActors, AtLimit
  <2>2. selected' \in Seq(ToSet(Actors)) /\ Actors # <<>>
    BY <1>0, <2>1, SelectedTyped DEF StepsInPlace
  <2>3. SimTyped' /\ StepsInPlace'
    BY <1>0, <2>1, <2>2 DEF SimTyped, StepsInPlace, SimPhases
  <2>4. EventsCounted'
    BY <1>0, <2>1 DEF EventsCounted
  <2> QED BY <1>0, <2>1, <2>3, <2>4, ReplaysKept DEF SimIInv
<1>5. ASSUME SkipActor, UNCHANGED setup PROVE SimIInv'
  <2>1. /\ simPhase = "acting" /\ selected # <<>> /\ selected' = Tail(selected)
        /\ UNCHANGED <<setup, simPhase, world, timeline, simEvents, simError>>
    BY <1>5 DEF SkipActor
  <2>2. selected' \in Seq(ToSet(Actors))
    BY <1>0, <2>1, HeadTailProperties
  <2>3. SimTyped' /\ StepsInPlace'
    BY <1>0, <2>1, <2>2 DEF SimTyped, StepsInPlace, SimPhases
  <2>4. EventsCounted'
    BY <1>0, <2>1 DEF EventsCounted
  <2> QED BY <1>0, <2>1, <2>3, <2>4, ReplaysKept DEF SimIInv
<1>6. ASSUME TickEnds, UNCHANGED setup PROVE SimIInv'
  <2>1. /\ simPhase = "acting" /\ simPhase' = "tick" /\ UNCHANGED <<setup, selected, world, timeline, simEvents, simError>>
    BY <1>6 DEF TickEnds
  <2>3. SimTyped' /\ StepsInPlace'
    BY <1>0, <2>1 DEF SimTyped, StepsInPlace, SimPhases
  <2>4. EventsCounted'
    BY <1>0, <2>1 DEF EventsCounted
  <2> QED BY <1>0, <2>1, <2>3, <2>4, ReplaysKept DEF SimIInv
<1>7. ASSUME StartStep, UNCHANGED setup PROVE SimIInv'
  <2>1. /\ simPhase = "acting" /\ simPhase' = "stepping" /\ UNCHANGED <<setup, selected, world, timeline, simError>>
        /\ selected # <<>> /\ Head(selected) \in setup.policies
        /\ simEvents' = [simEvents EXCEPT !.started = @ + 1]
    BY <1>7 DEF StartStep
  <2>2. /\ simEvents' \in EventCounts /\ simEvents'.started = simEvents.started + 1
        /\ simEvents'.completed = simEvents.completed /\ simEvents'.done = simEvents.done
    BY SMTT(40), <1>0, <2>1 DEF EventCounts
  <2>3. SimTyped' /\ StepsInPlace'
    BY <1>0, <2>1, <2>2 DEF SimTyped, StepsInPlace, SimPhases
  <2>4. EventsCounted'
    BY <1>0, <2>1, <2>2 DEF EventsCounted
  <2> QED BY <1>0, <2>1, <2>3, <2>4, ReplaysKept DEF SimIInv
<1>8. ASSUME StepFails, UNCHANGED setup PROVE SimIInv'
  <2> DEFINE failed == [simEvents EXCEPT !.error = @ + 1]
  <2>1. /\ simPhase = "stepping" /\ simError' = TRUE /\ UNCHANGED <<setup, selected, world, timeline>> /\ Report(failed)
    BY <1>8 DEF StepFails
  <2>2. /\ failed \in EventCounts /\ failed.started = simEvents.started
        /\ failed.completed = simEvents.completed /\ failed.done = simEvents.done
    BY <1>0 DEF EventCounts
  <2> HIDE DEF failed
  <2>3. /\ simPhase' = "done" /\ simEvents' \in EventCounts /\ simEvents'.started = simEvents.started
        /\ simEvents'.completed = simEvents.completed /\ simEvents'.done = simEvents.done + 1
    BY <2>1, <2>2, Reported
  <2>4. SimTyped' /\ StepsInPlace'
    BY <1>0, <2>1, <2>3 DEF SimTyped, StepsInPlace, SimPhases
  <2>5. EventsCounted'
    BY <1>0, <2>1, <2>3 DEF EventsCounted
  <2> QED BY <1>0, <2>1, <2>4, <2>5, ReplaysKept DEF SimIInv
<1>9. ASSUME NEW d \in Deltas, StepCompletes(d), UNCHANGED setup PROVE SimIInv'
  BY <1>9, StepRecorded
<1>10. CASE UNCHANGED simVars
  <2>1. UNCHANGED <<setup, simPhase, world, timeline, selected, simEvents, simError>>
    BY <1>10 DEF simVars
  <2>2. SimTyped' /\ StepsInPlace' /\ EventsCounted'
    BY <1>0, <2>1 DEF SimTyped, StepsInPlace, EventsCounted
  <2> QED BY <1>0, <2>1, <2>2, ReplaysKept DEF SimIInv
<1> QED BY <1>2, <1>3, <1>4, <1>5, <1>6, <1>7, <1>8, <1>9, <1>10 DEF SimulationNext

LEMMA SimImplies == SimIInv => SimulationTypeOK /\ TimelineReplays /\ StopsAtLimit
<1> SUFFICES ASSUME SimIInv PROVE SimulationTypeOK /\ StopsAtLimit
  BY DEF SimIInv
<1>0. /\ timeline \in Seq(Entries) /\ DOMAIN timeline = 1..Len(timeline) /\ world \in Worlds
      /\ simEvents.started \in Nat /\ simEvents.completed \in Nat
  BY SimFacts
<1>1. \A i \in DOMAIN timeline : timeline[i].actor \in setup.policies /\ timeline[i].delta \in Deltas
  <2>1. \A i \in DOMAIN timeline : timeline[i] \in Entries
    BY <1>0, ElementOfSeq
  <2> QED BY <2>1 DEF Entries, SimIInv, StepsInPlace
<1>2. simEvents.started - simEvents.completed \in 0..1 /\ simEvents.done \in 0..1
  BY <1>0 DEF SimIInv, EventsCounted
<1>3. SimulationTypeOK
  BY <1>0, <1>1, <1>2 DEF SimIInv, SimTyped, SimPhases, Worlds, SimulationTypeOK
<1>4. StopsAtLimit
  BY DEF SimIInv, EventsCounted, StopsAtLimit
<1> QED BY <1>3, <1>4

(* For any deltas, every observation is the world the earlier steps made   *)
(* and the final state what all made; a run stops at its limit.            *)
THEOREM TimelinesReplay == SimulationSpec => [](SimulationTypeOK /\ TimelineReplays /\ StopsAtLimit)
<1> QED BY SimInitHolds, SimStepHolds, SimImplies, PTL DEF SimulationSpec

--------------------------------------------------------------------------------
(* Eval: the newest result of a case counts.                               *)

(* What is kept of a sequence: some of its positions, in order.            *)
KeepsAt(kept, q, I, at) ==
  /\ at \in [1..Len(kept) -> I]
  /\ \A k \in 1..Len(kept) : kept[k] = q[at[k]]
  /\ \A k, l \in 1..Len(kept) : k < l => at[k] < at[l]
  /\ \A i \in I : \E k \in 1..Len(kept) : at[k] = i

(* The order of numbers is one.                                            *)
LEMMA NumbersAreOrdered ==
  ASSUME NEW I, \A i \in I : i \in Int, NEW upTo, upTo = [i \in I |-> {j \in I : j <= i}]
  PROVE  IsOrder(I, upTo)
<1>1. upTo \in [I -> SUBSET I] /\ \A i \in I : \A m \in I : m \in upTo[i] <=> m <= i
  OBVIOUS
<1>2. \A i, k \in I : i < k => upTo[i] \subseteq upTo[k] /\ k \notin upTo[i]
  <2> SUFFICES ASSUME NEW i \in I, NEW k \in I, i < k PROVE upTo[i] \subseteq upTo[k] /\ k \notin upTo[i]
    OBVIOUS
  <2>1. ASSUME NEW m \in upTo[i] PROVE m \in upTo[k]
    <3>1. m \in I /\ m <= i
      BY <1>1, <2>1
    <3>2. m \in Int /\ i \in Int /\ k \in Int
      BY <3>1
    <3> QED BY <1>1, <3>1, <3>2
  <2>2. ~(k <= i)
    <3>1. i \in Int /\ k \in Int
      OBVIOUS
    <3> QED BY <3>1
  <2> QED BY <1>1, <2>1, <2>2
<1>3. \A i, k \in I : i = k \/ i < k \/ k < i
  OBVIOUS
<1>4. \A i \in I : i \in upTo[i]
  BY <1>1
<1> QED BY <1>1, <1>2, <1>3, <1>4 DEF IsOrder

LEMMA KeepingKeeps ==
  ASSUME NEW S, NEW q \in Seq(S), NEW I \in SUBSET DOMAIN q
  PROVE  /\ Keeping(q, I) \in Seq(S) /\ Len(Keeping(q, I)) = Cardinality(I)
         /\ IsFiniteSet(I) /\ Cardinality(I) \in Nat /\ Cardinality(I) <= Len(q)
         /\ \E at : KeepsAt(Keeping(q, I), q, I, at)
<1>1. Len(q) \in Nat /\ DOMAIN q = 1..Len(q) /\ I \in SUBSET (1..Len(q)) /\ \A i \in I : q[i] \in S /\ i \in Int
  OBVIOUS
<1>2. IsFiniteSet(I) /\ Cardinality(I) \in Nat /\ Cardinality(I) <= Len(q)
  <2>1. IsFiniteSet(1..Len(q)) /\ Cardinality(1..Len(q)) = Len(q)
    BY <1>1, FiniteInterval
  <2>2. IsFiniteSet(I) /\ Cardinality(I) <= Len(q)
    BY <1>1, <2>1, FS_Subset
  <2> QED BY <2>2, FS_CardinalityType
<1>3. PICK upTo : upTo = [i \in I |-> {j \in I : j <= i}]
  OBVIOUS
<1>4. IsOrder(I, upTo)
  BY <1>1, <1>3, NumbersAreOrdered
<1>5. /\ \A i \in I : Cardinality(upTo[i]) \in 1..Cardinality(I)
      /\ \A i, k \in I : Cardinality(upTo[i]) = Cardinality(upTo[k]) => i = k
      /\ \A m \in 1..Cardinality(I) : \E i \in I : Cardinality(upTo[i]) = m
  BY <1>2, <1>4, PlacesCount
<1>6. PICK at : at = [k \in 1..Cardinality(I) |-> CHOOSE i \in I : Cardinality({j \in I : j <= i}) = k]
  OBVIOUS
<1>7. \A i \in I : Cardinality(upTo[i]) = Cardinality({j \in I : j <= i})
  BY <1>3
<1>8. ASSUME NEW k \in 1..Cardinality(I) PROVE at[k] \in I /\ Cardinality(upTo[at[k]]) = k
  <2>1. \E i \in I : Cardinality({j \in I : j <= i}) = k
    BY <1>5, <1>7
  <2>2. at[k] = CHOOSE i \in I : Cardinality({j \in I : j <= i}) = k
    BY <1>6
  <2>3. at[k] \in I /\ Cardinality({j \in I : j <= at[k]}) = k
    BY <2>1, <2>2
  <2> QED BY <1>7, <2>3
<1>9. at \in [1..Cardinality(I) -> I]
  BY <1>6, <1>8
<1> DEFINE kept == Keeping(q, I)
<1>10. kept = [k \in 1..Cardinality(I) |-> q[at[k]]]
  BY <1>6 DEF Keeping
<1> HIDE DEF kept
<1>11. kept \in [1..Cardinality(I) -> S]
  BY <1>1, <1>8, <1>10
<1>12. kept \in Seq(S) /\ Len(kept) = Cardinality(I)
  BY <1>2, <1>11
<1>13. \A k \in 1..Cardinality(I) : kept[k] = q[at[k]]
  BY <1>10
<1>14. ASSUME NEW k \in 1..Cardinality(I), NEW l \in 1..Cardinality(I), k < l PROVE at[k] < at[l]
  <2>1. at[k] \in I /\ at[l] \in I /\ Cardinality(upTo[at[k]]) = k /\ Cardinality(upTo[at[l]]) = l
    BY <1>8
  <2>2. at[k] \in Int /\ at[l] \in Int /\ k \in Int /\ l \in Int
    BY <1>1, <1>2, <2>1
  <2>3. ASSUME at[l] <= at[k] PROVE FALSE
    <3>1. upTo[at[l]] \in SUBSET upTo[at[k]]
      <4>1. CASE at[l] = at[k]
        BY <4>1
      <4>2. CASE at[l] < at[k]
        <5>1. upTo[at[k]] = {j \in I : j <= at[k]} /\ upTo[at[l]] = {j \in I : j <= at[l]}
          BY <1>3, <2>1
        <5>2. \A j \in I : j <= at[l] => j <= at[k]
          BY <1>1, <2>2, <4>2
        <5> QED BY <5>1, <5>2
      <4> QED BY <2>2, <2>3, <4>1, <4>2
    <3>2. upTo[at[k]] \in SUBSET I
      BY <1>3, <2>1
    <3>3. IsFiniteSet(upTo[at[k]])
      BY <1>2, <3>2, FS_Subset
    <3>4. Cardinality(upTo[at[l]]) <= Cardinality(upTo[at[k]])
      BY <3>1, <3>3, FS_Subset
    <3> QED BY <1>14, <2>1, <2>2, <3>4
  <2> QED BY <2>2, <2>3
<1>15. \A i \in I : \E k \in 1..Cardinality(I) : at[k] = i
  <2> SUFFICES ASSUME NEW i \in I PROVE \E k \in 1..Cardinality(I) : at[k] = i
    OBVIOUS
  <2>1. Cardinality(upTo[i]) \in 1..Cardinality(I)
    BY <1>5
  <2>2. at[Cardinality(upTo[i])] = i
    BY <1>5, <1>8, <2>1
  <2> QED BY <2>1, <2>2
<1>16. KeepsAt(kept, q, I, at)
  BY <1>9, <1>12, <1>13, <1>14, <1>15 DEF KeepsAt
<1> QED BY <1>2, <1>12, <1>16 DEF kept

LEMMA KeepingSet ==
  ASSUME NEW S, NEW q \in Seq(S), NEW I \in SUBSET DOMAIN q
  PROVE  ToSet(Keeping(q, I)) = {q[i] : i \in I}
<1>1. PICK kept : kept = Keeping(q, I)
  OBVIOUS
<1>2. PICK at : KeepsAt(kept, q, I, at)
  BY <1>1, KeepingKeeps
<1>3. kept \in Seq(S)
  BY <1>1, KeepingKeeps
<1>4. DOMAIN kept = 1..Len(kept)
  BY <1>3
<1>5. \A k \in 1..Len(kept) : at[k] \in I /\ kept[k] = q[at[k]]
  BY <1>2 DEF KeepsAt
<1>6. \A i \in I : \E k \in 1..Len(kept) : kept[k] = q[i]
  <2> SUFFICES ASSUME NEW i \in I PROVE \E k \in 1..Len(kept) : kept[k] = q[i]
    OBVIOUS
  <2>1. PICK k \in 1..Len(kept) : at[k] = i
    BY <1>2 DEF KeepsAt
  <2> QED BY <1>5, <2>1
<1>7. ToSet(kept) = {kept[k] : k \in 1..Len(kept)}
  BY <1>4 DEF ToSet
<1>8. ToSet(kept) = {q[i] : i \in I}
  BY <1>5, <1>6, <1>7
<1> QED BY <1>1, <1>8

--------------------------------------------------------------------------------
(* Ordered dicts: each key is there once.                                  *)

KeyOnce(dict) == \A i, j \in DOMAIN dict : dict[i][1] = dict[j][1] => i = j

(* A dictionary; an entry that was set last, the others being as they were *)
(* or gone; the entry of a key, if there is one, being as it was.          *)
Dict(dict, K, V) == dict \in Seq(K \X V) /\ KeyOnce(dict)
StoredIn(new, dict, kv) ==
  kv \in ToSet(new) /\ \A x \in ToSet(new) : x = kv \/ (x \in ToSet(dict) /\ x[1] # kv[1])
AsIn(new, dict, key) == \A kv \in ToSet(new) : kv[1] = key => kv \in ToSet(dict)

LEMMA SeqFacts ==
  ASSUME NEW S, NEW q \in Seq(S)
  PROVE  Len(q) \in Nat /\ DOMAIN q = 1..Len(q) /\ (\A i \in DOMAIN q : q[i] \in S /\ i \in Int)
OBVIOUS

LEMMA KeepingOnce ==
  ASSUME NEW S, NEW dict \in Seq(S), KeyOnce(dict), NEW I \in SUBSET DOMAIN dict
  PROVE  KeyOnce(Keeping(dict, I))
<1>1. PICK kept : kept = Keeping(dict, I)
  OBVIOUS
<1>2. PICK at : KeepsAt(kept, dict, I, at)
  BY <1>1, KeepingKeeps
<1>3. kept \in Seq(S)
  BY <1>1, KeepingKeeps
<1>4. DOMAIN kept = 1..Len(kept) /\ Len(kept) \in Nat
  BY <1>3
<1>5. ASSUME NEW k \in 1..Len(kept), NEW l \in 1..Len(kept), kept[k][1] = kept[l][1] PROVE k = l
  <2>1. at[k] \in DOMAIN dict /\ at[l] \in DOMAIN dict /\ kept[k] = dict[at[k]] /\ kept[l] = dict[at[l]]
    BY <1>2 DEF KeepsAt
  <2>2. at[k] = at[l]
    BY <1>5, <2>1 DEF KeyOnce
  <2>3. at[k] \in Int
    BY <2>1, SeqFacts
  <2>4. ~(k < l) /\ ~(l < k)
    BY <1>2, <2>2, <2>3 DEF KeepsAt
  <2> QED BY <1>4, <2>4
<1> QED BY <1>1, <1>4, <1>5 DEF KeyOnce

LEMMA OthersOnce ==
  ASSUME NEW K, NEW V, NEW dict \in Seq(K \X V), KeyOnce(dict), NEW key
  PROVE  /\ Others(dict, key) \in Seq(K \X V) /\ KeyOnce(Others(dict, key))
         /\ Len(Others(dict, key)) <= Len(dict)
         /\ \A x : x \in ToSet(Others(dict, key)) <=> x \in ToSet(dict) /\ x[1] # key
<1>1. PICK I : I = DOMAIN dict \ Under(dict, key)
  OBVIOUS
<1>2. I \in SUBSET DOMAIN dict /\ Others(dict, key) = Keeping(dict, I)
  BY <1>1 DEF Others
<1>3. /\ Keeping(dict, I) \in Seq(K \X V) /\ KeyOnce(Keeping(dict, I))
      /\ Len(Keeping(dict, I)) <= Len(dict) /\ ToSet(Keeping(dict, I)) = {dict[i] : i \in I}
  BY <1>2, KeepingKeeps, KeepingOnce, KeepingSet
<1>4. \A x : x \in {dict[i] : i \in I} <=> x \in ToSet(dict) /\ x[1] # key
  BY <1>1 DEF Under, ToSet
<1> QED BY <1>2, <1>3, <1>4

LEMMA AppendedOnce ==
  ASSUME NEW S, NEW dict \in Seq(S), KeyOnce(dict), NEW kv \in S,
         \A i \in DOMAIN dict : dict[i][1] # kv[1]
  PROVE  /\ Append(dict, kv) \in Seq(S) /\ KeyOnce(Append(dict, kv))
         /\ Len(Append(dict, kv)) = Len(dict) + 1 /\ Append(dict, kv)[Len(dict) + 1] = kv
         /\ ToSet(Append(dict, kv)) = ToSet(dict) \cup {kv}
<1>1. PICK new, n : new = Append(dict, kv) /\ n = Len(dict)
  OBVIOUS
<1>2. n \in Nat /\ DOMAIN dict = 1..n
  BY <1>1, SeqFacts
<1>3. new \in Seq(S) /\ Len(new) = n + 1 /\ new[n + 1] = kv /\ \A i \in 1..n : new[i] = dict[i]
  BY <1>1, AppendProperties
<1>4. DOMAIN new = 1..(n + 1)
  BY <1>3, SeqFacts
<1>5. \A i \in DOMAIN new : i \in 1..n \/ i = n + 1
  BY <1>2, <1>4
<1>6. \A i \in 1..n : i \in DOMAIN new /\ i # n + 1
  BY <1>2, <1>4
<1>7. KeyOnce(new)
  <2> SUFFICES ASSUME NEW i \in DOMAIN new, NEW j \in DOMAIN new, new[i][1] = new[j][1] PROVE i = j
    BY DEF KeyOnce
  <2>1. CASE i \in 1..n /\ j \in 1..n
    BY <1>2, <1>3, <2>1 DEF KeyOnce
  <2>2. CASE i = n + 1 /\ j \in 1..n
    BY <1>2, <1>3, <2>2
  <2>3. CASE j = n + 1 /\ i \in 1..n
    BY <1>2, <1>3, <2>3
  <2> QED BY <1>5, <2>1, <2>2, <2>3
<1>8. \A x : x \in ToSet(new) <=> x \in ToSet(dict) \/ x = kv
  <2>1. n + 1 \in DOMAIN new
    BY <1>2, <1>4
  <2>2. \A i \in DOMAIN new : new[i] = kv \/ \E j \in DOMAIN dict : new[i] = dict[j]
    BY <1>2, <1>3, <1>5
  <2>3. \A j \in DOMAIN dict : j \in DOMAIN new /\ new[j] = dict[j]
    BY <1>2, <1>3, <1>6
  <2> QED BY <1>3, <2>1, <2>2, <2>3 DEF ToSet
<1> QED BY <1>1, <1>3, <1>7, <1>8

(* Storing keeps at most max entries, the new one and of the others what   *)
(* they were.                                                              *)
LEMMA StoredOnce ==
  ASSUME NEW K, NEW V, NEW dict, Dict(dict, K, V), NEW key \in K, NEW value \in V, NEW max \in Nat \ {0}
  PROVE  /\ Dict(StoredLast(dict, key, value, max), K, V)
         /\ Len(StoredLast(dict, key, value, max)) <= max
         /\ StoredIn(StoredLast(dict, key, value, max), dict, <<key, value>>)
<1> dict \in Seq(K \X V) /\ KeyOnce(dict)
  BY DEF Dict
<1>1. PICK others, kv : others = Others(dict, key) /\ kv = <<key, value>>
  OBVIOUS
<1>2. /\ others \in Seq(K \X V) /\ KeyOnce(others)
      /\ \A x : x \in ToSet(others) <=> x \in ToSet(dict) /\ x[1] # key
  <2>1. Others(dict, key) \in Seq(K \X V)
    BY OthersOnce
  <2>2. KeyOnce(Others(dict, key))
    BY OthersOnce
  <2>3. \A x : x \in ToSet(Others(dict, key)) <=> x \in ToSet(dict) /\ x[1] # key
    BY OthersOnce
  <2> QED BY <1>1, <2>1, <2>2, <2>3
<1>3. kv \in K \X V /\ kv[1] = key /\ \A i \in DOMAIN others : others[i][1] # kv[1]
  <2>1. \A i \in DOMAIN others : others[i] \in ToSet(others)
    BY DEF ToSet
  <2> QED BY <1>1, <1>2, <2>1
<1>4. PICK all, n : all = Append(others, kv) /\ n = Len(others) + 1
  OBVIOUS
<1>5. /\ all \in Seq(K \X V) /\ KeyOnce(all) /\ Len(all) = n /\ all[n] = kv
      /\ ToSet(all) = ToSet(others) \cup {kv}
  BY <1>2, <1>3, <1>4, AppendedOnce
<1>6. n \in Nat /\ n >= 1 /\ DOMAIN all = 1..n
  <2>1. Len(others) \in Nat /\ DOMAIN all = 1..Len(all)
    BY <1>2, <1>5, SeqFacts
  <2> QED BY <1>4, <1>5, <2>1
<1>7. PICK I : I = {i \in DOMAIN all : i > Len(all) - max}
  OBVIOUS
<1>8. I \in SUBSET DOMAIN all /\ n \in I
  BY <1>5, <1>6, <1>7
<1>9. StoredLast(dict, key, value, max) = Keeping(all, I)
  BY <1>1, <1>4, <1>7 DEF StoredLast
<1>10. Cardinality(I) <= max
  <2>1. CASE n <= max
    <3>1. Cardinality(I) <= Len(all)
      BY <1>5, <1>8, KeepingKeeps
    <3>2. Cardinality(I) \in Nat
      BY <1>5, <1>8, KeepingKeeps
    <3> QED BY <1>5, <1>6, <2>1, <3>1, <3>2
  <2>2. CASE n > max
    <3>1. I = (n - max + 1)..n /\ n - max + 1 \in Int /\ n \in Int /\ n - max + 1 <= n
      BY <1>5, <1>6, <1>7, <2>2
    <3>2. Cardinality((n - max + 1)..n) = n - (n - max + 1) + 1
      BY <3>1, FS_Interval
    <3> QED BY <1>6, <3>1, <3>2
  <2> QED BY <1>6, <2>1, <2>2
<1>11. /\ Keeping(all, I) \in Seq(K \X V) /\ KeyOnce(Keeping(all, I))
       /\ Len(Keeping(all, I)) = Cardinality(I) /\ ToSet(Keeping(all, I)) = {all[i] : i \in I}
  BY <1>5, <1>8, KeepingKeeps, KeepingOnce, KeepingSet
<1>12. kv \in {all[i] : i \in I}
  BY <1>5, <1>8
<1>13. \A x \in {all[i] : i \in I} : x = kv \/ (x \in ToSet(dict) /\ x[1] # key)
  <2>1. \A i \in I : all[i] \in ToSet(all)
    BY <1>8 DEF ToSet
  <2> QED BY <1>2, <1>5, <2>1
<1>14. StoredIn(StoredLast(dict, key, value, max), dict, kv)
  BY <1>3, <1>9, <1>11, <1>12, <1>13 DEF StoredIn
<1>15. Dict(StoredLast(dict, key, value, max), K, V)
  BY <1>9, <1>11 DEF Dict
<1> QED BY <1>1, <1>9, <1>10, <1>11, <1>14, <1>15

(* Moving an entry keeps all.                                              *)
LEMMA MovedOnce ==
  ASSUME NEW K, NEW V, NEW dict, Dict(dict, K, V), NEW key
  PROVE  /\ Dict(MovedLast(dict, key), K, V)
         /\ Len(MovedLast(dict, key)) = Len(dict) /\ ToSet(MovedLast(dict, key)) \subseteq ToSet(dict)
<1> dict \in Seq(K \X V) /\ KeyOnce(dict)
  BY DEF Dict
<1>1. PICK U, I : U = Under(dict, key) /\ I = DOMAIN dict \ U
  OBVIOUS
<1>2. U \in SUBSET DOMAIN dict /\ I \in SUBSET DOMAIN dict /\ I \cup U = DOMAIN dict /\ I \cap U = {}
  BY <1>1 DEF Under
<1>3. PICK r, s : r = Keeping(dict, I) /\ s = Keeping(dict, U)
  OBVIOUS
<1>4. MovedLast(dict, key) = r \o s
  BY <1>1, <1>3 DEF MovedLast, Others
<1>5. /\ r \in Seq(K \X V) /\ KeyOnce(r) /\ Len(r) = Cardinality(I)
      /\ IsFiniteSet(I) /\ ToSet(r) = {dict[i] : i \in I}
  BY <1>2, <1>3, KeepingKeeps, KeepingOnce, KeepingSet
<1>6. /\ s \in Seq(K \X V) /\ KeyOnce(s) /\ Len(s) = Cardinality(U)
      /\ IsFiniteSet(U) /\ ToSet(s) = {dict[i] : i \in U}
  BY <1>2, <1>3, KeepingKeeps, KeepingOnce, KeepingSet
<1>7. Len(r) \in Nat /\ Len(s) \in Nat /\ DOMAIN r = 1..Len(r) /\ DOMAIN s = 1..Len(s)
      /\ Len(dict) \in Nat /\ DOMAIN dict = 1..Len(dict)
  BY <1>5, <1>6, SeqFacts
<1>8. Len(r) + Len(s) = Len(dict)
  <2>1. Cardinality(I \cup U) = Cardinality(I) + Cardinality(U) - Cardinality(I \cap U)
    BY <1>5, <1>6, FS_Union
  <2>2. Cardinality(I \cap U) = 0
    BY <1>2, FS_EmptySet
  <2>3. Cardinality(1..Len(dict)) = Len(dict)
    BY <1>7, FiniteInterval
  <2>4. Cardinality(I \cup U) = Len(dict)
    BY <1>2, <1>7, <2>3
  <2>5. Cardinality(I) \in Nat /\ Cardinality(U) \in Nat
    BY <1>5, <1>6, <1>7
  <2> QED BY <1>5, <1>6, <2>1, <2>2, <2>4, <2>5
<1>9. PICK moved, m : moved = r \o s /\ m = Len(r)
  OBVIOUS
<1>10. /\ moved \in Seq(K \X V) /\ Len(moved) = m + Len(s)
       /\ \A i \in 1..(m + Len(s)) : moved[i] = IF i <= m THEN r[i] ELSE s[i - m]
  BY <1>5, <1>6, <1>9, ConcatProperties
<1>11. DOMAIN moved = 1..(m + Len(s)) /\ m \in Nat /\ DOMAIN r = 1..m
  BY <1>7, <1>9, <1>10, SeqFacts
<1>12. ASSUME NEW i \in DOMAIN moved
       PROVE  \/ (i \in DOMAIN r /\ moved[i] = r[i])
              \/ (i - m \in DOMAIN s /\ moved[i] = s[i - m])
  <2>1. CASE i <= m
    BY <1>7, <1>10, <1>11, <2>1
  <2>2. CASE i > m
    BY <1>7, <1>10, <1>11, <2>2
  <2> QED BY <1>7, <1>11, <2>1, <2>2
<1>13. \A i \in DOMAIN r : r[i] \in ToSet(r)
  BY DEF ToSet
<1>14. \A i \in DOMAIN s : s[i] \in ToSet(s)
  BY DEF ToSet
<1>15. /\ \A x \in ToSet(r) : x[1] # key /\ x \in ToSet(dict)
       /\ \A x \in ToSet(s) : x[1] = key /\ x \in ToSet(dict)
  <2>1. \A i \in I : dict[i][1] # key /\ dict[i] \in ToSet(dict)
    BY <1>1, <1>2 DEF Under, ToSet
  <2>2. \A i \in U : dict[i][1] = key /\ dict[i] \in ToSet(dict)
    BY <1>1, <1>2 DEF Under, ToSet
  <2> QED BY <1>5, <1>6, <2>1, <2>2
<1>16. KeyOnce(moved)
  <2> SUFFICES ASSUME NEW i \in DOMAIN moved, NEW j \in DOMAIN moved, moved[i][1] = moved[j][1] PROVE i = j
    BY DEF KeyOnce
  <2>1. CASE i \in DOMAIN r /\ j \in DOMAIN r /\ moved[i] = r[i] /\ moved[j] = r[j]
    BY <1>5, <2>1 DEF KeyOnce
  <2>2. CASE i - m \in DOMAIN s /\ j - m \in DOMAIN s /\ moved[i] = s[i - m] /\ moved[j] = s[j - m]
    <3>1. i - m = j - m
      BY <1>6, <2>2 DEF KeyOnce
    <3> QED BY <1>11, <3>1
  <2> QED BY <1>12, <1>13, <1>14, <1>15, <2>1, <2>2
<1>17. \A x \in ToSet(moved) : x \in ToSet(dict)
  <2>1. \A i \in DOMAIN moved : moved[i] \in ToSet(r) \/ moved[i] \in ToSet(s)
    BY <1>12, <1>13, <1>14
  <2> QED BY <1>15, <2>1 DEF ToSet
<1> QED BY <1>4, <1>7, <1>8, <1>9, <1>10, <1>16, <1>17 DEF Dict

LEMMA ValueIs ==
  ASSUME NEW K, NEW V, NEW dict \in Seq(K \X V), KeyOnce(dict), NEW key
  PROVE  /\ \A v : <<key, v>> \in ToSet(dict) => ValueOf(dict, key) = v
         /\ ValueOf(dict, key) = <<>> \/ (<<key, ValueOf(dict, key)>> \in ToSet(dict) /\ ValueOf(dict, key) \in V)
<1>1. \A i : i \in Under(dict, key) <=> i \in DOMAIN dict /\ dict[i][1] = key
  BY DEF Under
<1>2. \A i \in DOMAIN dict : dict[i] \in K \X V /\ dict[i] \in ToSet(dict)
  BY SeqFacts DEF ToSet
<1>3. ASSUME NEW v, <<key, v>> \in ToSet(dict) PROVE ValueOf(dict, key) = v
  <2>1. PICK i \in DOMAIN dict : dict[i] = <<key, v>>
    BY <1>3 DEF ToSet
  <2>2. i \in Under(dict, key) /\ \A j \in Under(dict, key) : j = i
    BY <1>1, <2>1 DEF KeyOnce
  <2>3. (CHOOSE j \in Under(dict, key) : TRUE) = i
    BY <2>2
  <2> QED BY <2>1, <2>2, <2>3 DEF ValueOf
<1>4. CASE Under(dict, key) = {}
  BY <1>3, <1>4 DEF ValueOf
<1>5. CASE Under(dict, key) # {}
  <2>1. PICK i : i = CHOOSE j \in Under(dict, key) : TRUE
    OBVIOUS
  <2>2. i \in Under(dict, key)
    BY <1>5, <2>1
  <2>3. ValueOf(dict, key) = dict[i][2] /\ i \in DOMAIN dict /\ dict[i][1] = key
    BY <1>1, <1>5, <2>1, <2>2 DEF ValueOf
  <2>4. dict[i] = <<dict[i][1], dict[i][2]>> /\ dict[i][2] \in V
    BY <1>2, <2>3
  <2> QED BY <1>2, <1>3, <2>3, <2>4
<1> QED BY <1>3, <1>4, <1>5

(* An entry that is among those there were is the entry its key had.       *)
LEMMA ValueWas ==
  ASSUME NEW K, NEW V, NEW dict, Dict(dict, K, V), NEW new, Dict(new, K, V), NEW key, AsIn(new, dict, key)
  PROVE  ValueOf(new, key) = <<>> \/ ValueOf(new, key) = ValueOf(dict, key)
<1> dict \in Seq(K \X V) /\ KeyOnce(dict) /\ new \in Seq(K \X V) /\ KeyOnce(new)
  BY DEF Dict
<1>1. CASE ValueOf(new, key) # <<>>
  <2>1. PICK v : v = ValueOf(new, key)
    OBVIOUS
  <2>2. <<key, v>> \in ToSet(new)
    BY <1>1, <2>1, ValueIs
  <2>3. <<key, v>>[1] = key
    OBVIOUS
  <2>4. <<key, v>> \in ToSet(dict)
    BY <2>2, <2>3 DEF AsIn
  <2>5. \A w : <<key, w>> \in ToSet(dict) => ValueOf(dict, key) = w
    BY ValueIs
  <2> QED BY <2>1, <2>4, <2>5
<1> QED BY <1>1

--------------------------------------------------------------------------------
(* The invariant: what the store has of a run that is being evaluated.     *)

CaseSet == ToSet(Cases)
Results == [case : CaseSet, score : Scores]

CaseOnce(rs) == \A i, j \in DOMAIN rs : rs[i].case = rs[j].case => i = j

(* Of the results from given on the store has all, in their order, and it  *)
(* has no other of a case that has been run.                               *)
LatestFrom(stored, rs, given) ==
  /\ given \in 0..Len(rs)
  /\ \A j \in 1..Len(rs) : j > given => \E i \in DOMAIN stored : stored[i] = rs[j]
  /\ \A i \in DOMAIN stored, j \in 1..Len(rs) :
        stored[i].case = rs[j].case => j > given /\ stored[i] = rs[j]
  /\ \A i, k \in DOMAIN stored, j, l \in 1..Len(rs) :
        stored[i] = rs[j] /\ stored[k] = rs[l] /\ i < k => j < l
Latest(stored, rs) == CaseOnce(stored) /\ \E given \in Nat : LatestFrom(stored, rs, given)

SuiteLists == {cs \in Seq(CaseSet) : IsInjective(cs)}

EvalStateOK ==
  /\ evalPhase \in [Evaluators -> {"idle", "saving", "running"}]
  /\ todo \in [Evaluators -> Seq(CaseSet)] /\ results \in [Evaluators -> Seq(Results)]
SuitesOK ==
  /\ suites \in Seq(Evaluators \X SuiteLists) /\ KeyOnce(suites) /\ Len(suites) <= MaxSuites
RunsOK ==
  /\ runs \in Seq(Evaluators \X Seq(Results)) /\ KeyOnce(runs) /\ Len(runs) <= MaxEvalRuns
(* What is still to be run has not been run.                               *)
TurnOK(e) ==
  /\ evalPhase[e] # "running" => results[e] = <<>>
  /\ evalPhase[e] = "running" =>
        /\ IsInjective(todo[e])
        /\ \A i \in DOMAIN todo[e], j \in DOMAIN results[e] : todo[e][i] # results[e][j].case
  /\ CaseOnce(results[e])
EvalIInv ==
  /\ EvalStateOK /\ SuitesOK /\ RunsOK
  /\ \A e \in Evaluators : TurnOK(e) /\ Latest(ValueOf(runs, e), results[e])

LEMMA EmptyFacts == ASSUME NEW S PROVE <<>> \in Seq(S) /\ DOMAIN <<>> = {} /\ Len(<<>>) = 0 /\ CaseOnce(<<>>) /\ IsInjective(<<>>)
BY DEF CaseOnce, IsInjective

LEMMA NothingStored == ASSUME NEW rs \in Seq(Results) PROVE Latest(<<>>, rs)
<1>1. Len(rs) \in Nat
  OBVIOUS
<1>2. LatestFrom(<<>>, rs, Len(rs))
  BY <1>1, EmptyFacts DEF LatestFrom
<1> QED BY <1>1, <1>2, EmptyFacts DEF Latest

LEMMA NothingRun == ASSUME NEW stored \in Seq(Results), CaseOnce(stored) PROVE Latest(stored, <<>>)
<1>1. LatestFrom(stored, <<>>, 0)
  BY EmptyFacts DEF LatestFrom
<1> QED BY <1>1 DEF Latest

(* A result of a case that was not run yet.                                *)
LEMMA ResultIsLatest ==
  ASSUME NEW stored \in Seq(Results), NEW rs \in Seq(Results), NEW r \in Results,
         CaseOnce(rs), Latest(stored, rs), \A j \in DOMAIN rs : rs[j].case # r.case
  PROVE  /\ WithResult(stored, r) \in Seq(Results)
         /\ Append(rs, r) \in Seq(Results) /\ CaseOnce(Append(rs, r))
         /\ Latest(WithResult(stored, r), Append(rs, r))
<1>1. PICK I, kept : I = {i \in DOMAIN stored : stored[i].case # r.case} /\ kept = Keeping(stored, I)
  OBVIOUS
<1>2. I \in SUBSET DOMAIN stored /\ kept \in Seq(Results)
  BY <1>1, KeepingKeeps
<1>3. PICK at : KeepsAt(kept, stored, I, at)
  BY <1>1, <1>2, KeepingKeeps
<1>4. PICK new, n : new = Append(kept, r) /\ n = Len(kept)
  OBVIOUS
<1>5. n \in Nat /\ DOMAIN kept = 1..n
  BY <1>2, <1>4, SeqFacts
<1>6. new \in Seq(Results) /\ Len(new) = n + 1 /\ new[n + 1] = r /\ \A k \in 1..n : new[k] = kept[k]
  BY <1>2, <1>4, AppendProperties
<1>7. DOMAIN new = 1..(n + 1)
  BY <1>6, SeqFacts
<1>8. WithResult(stored, r) = new
  BY <1>1, <1>4 DEF WithResult
<1>9. \A k \in DOMAIN new : k \in 1..n \/ k = n + 1
  BY <1>5, <1>7
<1>10. ASSUME NEW k \in 1..n
       PROVE  /\ k \in DOMAIN new /\ k # n + 1 /\ at[k] \in DOMAIN stored /\ at[k] \in Int
              /\ new[k] = stored[at[k]] /\ new[k].case # r.case
  <2>1. at[k] \in I /\ new[k] = stored[at[k]]
    BY <1>3, <1>4, <1>6 DEF KeepsAt
  <2>2. at[k] \in DOMAIN stored /\ stored[at[k]].case # r.case
    BY <1>1, <2>1
  <2>3. at[k] \in Int
    BY <2>2, SeqFacts
  <2>4. k \in DOMAIN new /\ k # n + 1
    BY <1>5, <1>7
  <2> QED BY <2>1, <2>2, <2>3, <2>4
<1>11. CaseOnce(stored)
  BY DEF Latest
<1>12. \A k, l \in 1..n : k < l => at[k] < at[l]
  BY <1>3, <1>4 DEF KeepsAt
<1>13. CaseOnce(new)
  <2> SUFFICES ASSUME NEW k \in DOMAIN new, NEW l \in DOMAIN new, new[k].case = new[l].case PROVE k = l
    BY DEF CaseOnce
  <2>1. CASE k \in 1..n /\ l \in 1..n
    <3>1. at[k] = at[l]
      BY <1>10, <1>11, <2>1 DEF CaseOnce
    <3>2. ~(k < l) /\ ~(l < k)
      BY <1>10, <1>12, <2>1, <3>1
    <3> QED BY <1>5, <2>1, <3>2
  <2>2. CASE k = n + 1 /\ l \in 1..n
    BY <1>6, <1>10, <2>2
  <2>3. CASE l = n + 1 /\ k \in 1..n
    BY <1>6, <1>10, <2>3
  <2> QED BY <1>9, <2>1, <2>2, <2>3
<1>14. PICK all, m : all = Append(rs, r) /\ m = Len(rs)
  OBVIOUS
<1>15. m \in Nat /\ DOMAIN rs = 1..m
  BY <1>14, SeqFacts
<1>16. all \in Seq(Results) /\ Len(all) = m + 1 /\ all[m + 1] = r /\ \A j \in 1..m : all[j] = rs[j]
  BY <1>14, AppendProperties
<1>17. DOMAIN all = 1..(m + 1) /\ \A j \in 1..(m + 1) : j \in 1..m \/ j = m + 1
  BY <1>15, <1>16, SeqFacts
<1>18. \A j \in 1..m : all[j].case # r.case /\ j # m + 1 /\ j \in 1..(m + 1)
  BY <1>15, <1>16
<1>19. CaseOnce(all)
  <2> SUFFICES ASSUME NEW k \in DOMAIN all, NEW l \in DOMAIN all, all[k].case = all[l].case PROVE k = l
    BY DEF CaseOnce
  <2>1. CASE k \in 1..m /\ l \in 1..m
    BY <1>15, <1>16, <2>1 DEF CaseOnce
  <2>2. CASE k = m + 1 /\ l \in 1..m
    BY <1>16, <1>18, <2>2
  <2>3. CASE l = m + 1 /\ k \in 1..m
    BY <1>16, <1>18, <2>3
  <2> QED BY <1>17, <2>1, <2>2, <2>3
<1>20. PICK given \in Nat : LatestFrom(stored, rs, given)
  BY DEF Latest
<1>21. given \in 0..(m + 1) /\ given \in 0..m
  BY <1>14, <1>15, <1>20 DEF LatestFrom
<1>22. ASSUME NEW j \in 1..(m + 1), j > given PROVE \E k \in DOMAIN new : new[k] = all[j]
  <2>1. CASE j = m + 1
    <3>1. n + 1 \in DOMAIN new
      BY <1>5, <1>7
    <3> QED BY <1>6, <1>16, <2>1, <3>1
  <2>2. CASE j \in 1..m
    <3>1. PICK i \in DOMAIN stored : stored[i] = rs[j]
      BY <1>14, <1>20, <1>22, <2>2 DEF LatestFrom
    <3>2. stored[i].case # r.case
      BY <1>15, <2>2, <3>1
    <3>3. i \in I
      BY <1>1, <3>2
    <3>4. PICK k \in 1..n : at[k] = i
      BY <1>3, <1>4, <3>3 DEF KeepsAt
    <3>5. k \in DOMAIN new /\ new[k] = stored[i]
      BY <1>10, <3>4
    <3> QED BY <1>16, <2>2, <3>1, <3>5
  <2> QED BY <1>17, <2>1, <2>2
<1>23. ASSUME NEW k \in DOMAIN new, NEW j \in 1..(m + 1), new[k].case = all[j].case
       PROVE  j > given /\ new[k] = all[j]
  <2>1. CASE k \in 1..n /\ j \in 1..m
    <3>1. at[k] \in DOMAIN stored /\ stored[at[k]] = new[k] /\ all[j] = rs[j]
      BY <1>10, <1>16, <2>1
    <3> QED BY <1>14, <1>20, <1>23, <2>1, <3>1 DEF LatestFrom
  <2>2. CASE k = n + 1 /\ j = m + 1
    BY <1>6, <1>15, <1>16, <1>21, <2>2
  <2>3. CASE k = n + 1 /\ j \in 1..m
    BY <1>6, <1>18, <1>23, <2>3
  <2>4. CASE k \in 1..n /\ j = m + 1
    BY <1>10, <1>16, <1>23, <2>4
  <2> QED BY <1>9, <1>17, <2>1, <2>2, <2>3, <2>4
<1>24. ASSUME NEW i \in DOMAIN new, NEW k \in DOMAIN new, NEW j \in 1..(m + 1), NEW l \in 1..(m + 1),
              new[i] = all[j], new[k] = all[l], i < k
       PROVE  j < l
  <2>1. i \in 1..n
    BY <1>5, <1>7, <1>9, <1>24
  <2>2. j \in 1..m
    BY <1>10, <1>16, <1>17, <1>24, <2>1
  <2>3. CASE k \in 1..n
    <3>1. l \in 1..m
      BY <1>10, <1>16, <1>17, <1>24, <2>3
    <3>2. at[i] \in DOMAIN stored /\ at[k] \in DOMAIN stored /\ at[i] < at[k]
      BY <1>10, <1>12, <1>24, <2>1, <2>3
    <3>3. stored[at[i]] = rs[j] /\ stored[at[k]] = rs[l]
      BY <1>10, <1>16, <1>24, <2>1, <2>2, <2>3, <3>1
    <3> QED BY <1>14, <1>20, <2>2, <3>1, <3>2, <3>3 DEF LatestFrom
  <2>4. CASE k = n + 1
    <3>1. l \notin 1..m
      BY <1>6, <1>18, <1>24, <2>4
    <3>2. l = m + 1
      BY <1>17, <3>1
    <3> QED BY <1>15, <2>2, <3>2
  <2> QED BY <1>9, <2>3, <2>4
<1>25. LatestFrom(new, all, given)
  BY <1>16, <1>21, <1>22, <1>23, <1>24 DEF LatestFrom
<1> QED BY <1>6, <1>8, <1>13, <1>14, <1>16, <1>19, <1>25 DEF Latest

(* A function that grows over 1..n and leaves nothing out counts.          *)
Grows(f, n, low, high) ==
  /\ f \in [1..n -> (low + 1)..high]
  /\ \A k, l \in 1..n : k < l => f[k] < f[l]
  /\ \A j \in (low + 1)..high : \E k \in 1..n : f[k] = j

LEMMA GrowsByOne ==
  ASSUME NEW n \in Nat, NEW low \in Nat, NEW high \in Nat, low <= high,
         NEW f, Grows(f, n, low, high)
  PROVE  n = high - low /\ \A k \in 1..n : f[k] = low + k
<1>0. /\ f \in [1..n -> (low + 1)..high]
      /\ \A k, l \in 1..n : k < l => f[k] < f[l]
      /\ \A j \in (low + 1)..high : \E k \in 1..n : f[k] = j
  BY DEF Grows
<1>1. ASSUME NEW k \in 1..n PROVE f[k] = low + k
  <2>1. k \in Nat /\ f[k] \in (low + 1)..high /\ f[k] \in Int
    BY <1>0
  <2>2. PICK g : g = [x \in 1..k |-> f[x]]
    OBVIOUS
  <2>3. \A x \in 1..k : x \in 1..n /\ g[x] = f[x] /\ x \in Int
    BY <2>2
  <2>4. \A x \in 1..k : f[x] \in (low + 1)..f[k]
    <3> SUFFICES ASSUME NEW x \in 1..k PROVE f[x] \in (low + 1)..f[k]
      OBVIOUS
    <3>1. x \in 1..n /\ (x < k \/ x = k) /\ f[x] \in (low + 1)..high
      BY <1>0, <2>3
    <3>2. f[x] <= f[k]
      BY <1>0, <2>1, <3>1
    <3> QED BY <2>1, <3>1, <3>2
  <2>5. g \in [1..k -> (low + 1)..f[k]]
    BY <2>2, <2>4
  <2>6. \A j \in (low + 1)..f[k] : \E x \in 1..k : g[x] = j
    <3> SUFFICES ASSUME NEW j \in (low + 1)..f[k] PROVE \E x \in 1..k : g[x] = j
      OBVIOUS
    <3>1. j \in (low + 1)..high /\ j <= f[k]
      BY <2>1
    <3>2. PICK x \in 1..n : f[x] = j
      BY <1>0, <3>1
    <3>3. ~(k < x)
      BY <1>0, <2>1, <3>1, <3>2
    <3>4. x \in 1..k
      BY <2>1, <3>3
    <3> QED BY <2>3, <3>2, <3>4
  <2>7. g \in Surjection(1..k, (low + 1)..f[k])
    BY <2>5, <2>6 DEF Surjection
  <2>8. \A x, y \in 1..k : g[x] = g[y] => x = y
    <3> SUFFICES ASSUME NEW x \in 1..k, NEW y \in 1..k, g[x] = g[y] PROVE x = y
      OBVIOUS
    <3>1. f[x] = f[y] /\ x \in 1..n /\ y \in 1..n /\ f[x] \in Int
      BY <2>3, <2>4
    <3>2. ~(x < y) /\ ~(y < x)
      BY <1>0, <3>1
    <3> QED BY <3>1, <3>2
  <2>9. g \in Injection(1..k, (low + 1)..f[k])
    BY <2>5, <2>8 DEF Injection, IsInjective
  <2>10. IsFiniteSet(1..k) /\ Cardinality(1..k) = k
    BY <2>1, FiniteInterval
  <2>11. Cardinality((low + 1)..f[k]) = Cardinality(1..k)
    BY <2>7, <2>9, <2>10, FS_Surjection
  <2>12. Cardinality((low + 1)..f[k]) = f[k] - (low + 1) + 1
    <3>1. low + 1 \in Int /\ f[k] \in Int /\ low + 1 <= f[k]
      BY <2>1
    <3> QED BY <3>1, IntervalSize
  <2> QED BY <2>1, <2>10, <2>11, <2>12
<1>2. n = high - low
  <2>1. CASE n = 0
    <3>1. ~(low < high)
      <4>1. SUFFICES ASSUME low < high PROVE FALSE
        OBVIOUS
      <4>2. high \in (low + 1)..high
        BY <4>1
      <4> QED BY <1>0, <2>1, <4>2
    <3> QED BY <2>1, <3>1
  <2>2. CASE n # 0
    <3>1. n \in 1..n /\ f[n] \in (low + 1)..high /\ f[n] = low + n
      BY <1>0, <1>1, <2>2
    <3>2. high \in (low + 1)..high
      BY <3>1
    <3>3. PICK k \in 1..n : f[k] = high
      BY <1>0, <3>2
    <3>4. f[k] = low + k
      BY <1>1
    <3> QED BY <3>1, <3>3, <3>4
  <2> QED BY <2>1, <2>2
<1> QED BY <1>1, <1>2

(* What the store has of the cases that were run are results in their      *)
(* order, up to the last.                                                  *)
LEMMA LatestGrows ==
  ASSUME NEW stored \in Seq(Results), NEW rs \in Seq(Results), CaseOnce(rs),
         NEW given \in Nat, LatestFrom(stored, rs, given),
         NEW I \in SUBSET DOMAIN stored,
         \A i \in DOMAIN stored : i \in I <=> \E j \in DOMAIN rs : stored[i].case = rs[j].case
  PROVE  \E f : /\ Grows(f, Len(Keeping(stored, I)), given, Len(rs))
                /\ \A k \in 1..Len(Keeping(stored, I)) : Keeping(stored, I)[k] = rs[f[k]]
<1>1. PICK kept, m : kept = Keeping(stored, I) /\ m = Len(rs)
  OBVIOUS
<1>2. I \in SUBSET DOMAIN stored /\ kept \in Seq(Results)
  BY <1>1, KeepingKeeps
<1>3. PICK at : KeepsAt(kept, stored, I, at)
  BY <1>1, <1>2, KeepingKeeps
<1>4. PICK n : n = Len(kept)
  OBVIOUS
<1>5. n \in Nat /\ DOMAIN kept = 1..n /\ m \in Nat /\ DOMAIN rs = 1..m
  BY <1>1, <1>2, <1>4, SeqFacts
<1>6. given \in 0..m
  BY <1>1 DEF LatestFrom
<1>7. ASSUME NEW k \in 1..n
      PROVE  /\ at[k] \in I /\ at[k] \in DOMAIN stored /\ kept[k] = stored[at[k]]
             /\ \E j \in (given + 1)..m : kept[k] = rs[j]
  <2>1. at[k] \in I /\ kept[k] = stored[at[k]]
    BY <1>3, <1>4 DEF KeepsAt
  <2>2. at[k] \in DOMAIN stored /\ \E j \in DOMAIN rs : stored[at[k]].case = rs[j].case
    BY <2>1
  <2>3. PICK j \in 1..m : stored[at[k]].case = rs[j].case
    BY <1>5, <2>2
  <2>4. j > given /\ stored[at[k]] = rs[j]
    BY <1>1, <2>2, <2>3 DEF LatestFrom
  <2>5. j \in (given + 1)..m
    BY <1>5, <1>6, <2>3, <2>4
  <2> QED BY <2>1, <2>2, <2>4, <2>5
<1>8. PICK f : f = [k \in 1..n |-> CHOOSE j \in (given + 1)..m : kept[k] = rs[j]]
  OBVIOUS
<1>9. \A k \in 1..n : f[k] \in (given + 1)..m /\ kept[k] = rs[f[k]]
  BY <1>7, <1>8
<1>10. f \in [1..n -> (given + 1)..m]
  BY <1>8, <1>9
<1>11. \A j \in (given + 1)..m : j \in 1..m /\ j > given
  BY <1>5, <1>6
<1>12. ASSUME NEW k \in 1..n, NEW l \in 1..n, k < l PROVE f[k] < f[l]
  <2>1. at[k] < at[l]
    BY <1>3, <1>4, <1>12 DEF KeepsAt
  <2>2. /\ at[k] \in DOMAIN stored /\ at[l] \in DOMAIN stored /\ f[k] \in 1..m /\ f[l] \in 1..m
        /\ stored[at[k]] = rs[f[k]] /\ stored[at[l]] = rs[f[l]]
    BY <1>7, <1>9, <1>11
  <2> QED BY <1>1, <2>1, <2>2 DEF LatestFrom
<1>13. ASSUME NEW j \in (given + 1)..m PROVE \E k \in 1..n : f[k] = j
  <2>1. j \in 1..m /\ j > given
    BY <1>11
  <2>2. PICK i \in DOMAIN stored : stored[i] = rs[j]
    BY <1>1, <2>1 DEF LatestFrom
  <2>3. i \in I
    BY <1>5, <2>1, <2>2
  <2>4. PICK k \in 1..n : at[k] = i
    BY <1>3, <1>4, <2>3 DEF KeepsAt
  <2>5. rs[f[k]] = rs[j] /\ f[k] \in 1..m
    BY <1>7, <1>9, <1>11, <2>2, <2>4
  <2>6. f[k] = j
    BY <1>5, <2>1, <2>5 DEF CaseOnce
  <2> QED BY <2>6
<1>14. Grows(f, n, given, m)
  BY <1>10, <1>12, <1>13 DEF Grows
<1> QED BY <1>1, <1>4, <1>9, <1>14

(* What grows so is an end.                                                *)
LEMMA GrowingIsEnd ==
  ASSUME NEW kept \in Seq(Results), NEW rs \in Seq(Results), NEW given \in 0..Len(rs),
         NEW f, Grows(f, Len(kept), given, Len(rs)), \A k \in 1..Len(kept) : kept[k] = rs[f[k]]
  PROVE  given + 1 \in 1..Len(rs) + 1 /\ kept = SubSeq(rs, given + 1, Len(rs))
<1>1. PICK n, m : n = Len(kept) /\ m = Len(rs)
  OBVIOUS
<1>2. n \in Nat /\ DOMAIN kept = 1..n /\ m \in Nat /\ DOMAIN rs = 1..m
  BY <1>1, SeqFacts
<1>3. given \in 0..m /\ given \in Nat /\ given <= m
  BY <1>1, <1>2
<1>4. n = m - given /\ \A k \in 1..n : f[k] = given + k
  <2>1. Grows(f, n, given, m)
    BY <1>1
  <2> QED BY <1>2, <1>3, <2>1, GrowsByOne
<1>5. \A k \in 1..n : kept[k] = rs[f[k]]
  BY <1>1
<1>6. \A j \in (given + 1)..m : j \in 1..m
  BY <1>2, <1>3
<1>7. PICK tail : tail = SubSeq(rs, given + 1, m)
  OBVIOUS
<1>8. /\ tail \in Seq(Results) /\ Len(tail) = n
      /\ \A k \in 1..n : tail[k] = rs[given + k]
  <2>1. given + 1 \in Int /\ m \in Int /\ \A j \in (given + 1)..m : rs[j] \in Results
    BY <1>2, <1>6
  <2>2. /\ tail \in Seq(Results)
        /\ Len(tail) = IF given + 1 <= m THEN m - (given + 1) + 1 ELSE 0
        /\ \A i \in 1..(m - (given + 1) + 1) : tail[i] = rs[given + 1 + i - 1]
    BY <1>7, <2>1, SubSeqProperties
  <2>3. Len(tail) = n
    BY <1>2, <1>3, <1>4, <2>2
  <2>4. \A k \in 1..n : k \in 1..(m - (given + 1) + 1) /\ given + 1 + k - 1 = given + k
    BY <1>2, <1>3, <1>4
  <2> QED BY <2>2, <2>3, <2>4
<1>9. tail = kept
  <2>1. \A k \in 1..n : tail[k] = kept[k]
    BY <1>5, <1>4, <1>8
  <2>2. DOMAIN tail = 1..n
    BY <1>8, SeqFacts
  <2>3. tail = [k \in 1..n |-> tail[k]] /\ kept = [k \in 1..n |-> kept[k]]
    BY <1>1, <1>2, <1>8, <2>2
  <2> QED BY <2>1, <2>3
<1>10. given + 1 \in 1..m + 1
  BY <1>2, <1>3
<1> QED BY <1>1, <1>7, <1>9, <1>10

LEMMA EvalConstants ==
  /\ Cases \in Seq(CaseSet) /\ IsInjective(Cases)
  /\ MaxSuites \in Nat \ {0} /\ MaxEvalRuns \in Nat \ {0}
BY EvalAssumption DEF CaseSet

LEMMA WithCaseOnce ==
  ASSUME NEW cs \in SuiteLists, NEW c \in CaseSet
  PROVE  WithCase(cs, c) \in SuiteLists
<1>1. PICK I, kept : I = {i \in DOMAIN cs : cs[i] # c} /\ kept = Keeping(cs, I)
  OBVIOUS
<1>2. cs \in Seq(CaseSet) /\ IsInjective(cs)
  BY DEF SuiteLists
<1>3. I \in SUBSET DOMAIN cs
  BY <1>1
<1>4. kept \in Seq(CaseSet)
  BY <1>1, <1>2, <1>3, KeepingKeeps
<1>5. PICK at : KeepsAt(kept, cs, I, at)
  BY <1>1, <1>2, <1>3, KeepingKeeps
<1>6. PICK new, n : new = Append(kept, c) /\ n = Len(kept)
  OBVIOUS
<1>7. n \in Nat
  BY <1>4, <1>6, SeqFacts
<1>8. new \in Seq(CaseSet) /\ Len(new) = n + 1 /\ new[n + 1] = c /\ \A k \in 1..n : new[k] = kept[k]
  BY <1>4, <1>6, AppendProperties
<1>9. DOMAIN new = 1..(n + 1) /\ \A k \in 1..(n + 1) : k \in 1..n \/ k = n + 1
  BY <1>7, <1>8, SeqFacts
<1>10. ASSUME NEW k \in 1..n
       PROVE  at[k] \in DOMAIN cs /\ at[k] \in Int /\ new[k] = cs[at[k]] /\ new[k] # c
  <2>1. at[k] \in I /\ new[k] = cs[at[k]]
    BY <1>5, <1>6, <1>8 DEF KeepsAt
  <2>2. at[k] \in DOMAIN cs /\ cs[at[k]] # c
    BY <1>1, <2>1
  <2>3. at[k] \in Int
    BY <1>2, <2>2, SeqFacts
  <2> QED BY <2>1, <2>2, <2>3
<1>11. IsInjective(new)
  <2> SUFFICES ASSUME NEW k \in DOMAIN new, NEW l \in DOMAIN new, new[k] = new[l] PROVE k = l
    BY DEF IsInjective
  <2>1. CASE k \in 1..n /\ l \in 1..n
    <3>1. at[k] = at[l] /\ at[k] \in Int
      BY <1>2, <1>10, <2>1 DEF IsInjective
    <3>2. ~(k < l) /\ ~(l < k)
      BY <1>5, <1>6, <2>1, <3>1 DEF KeepsAt
    <3> QED BY <1>7, <2>1, <3>2
  <2>2. CASE k = n + 1 /\ l \in 1..n
    BY <1>8, <1>10, <2>2
  <2>3. CASE l = n + 1 /\ k \in 1..n
    BY <1>8, <1>10, <2>3
  <2> QED BY <1>9, <2>1, <2>2, <2>3
<1>12. WithCase(cs, c) = new
  BY <1>1, <1>6 DEF WithCase
<1> QED BY <1>8, <1>11, <1>12 DEF SuiteLists

LEMMA SuiteOf ==
  ASSUME SuitesOK, NEW e PROVE ValueOf(suites, e) \in SuiteLists
<1>1. ValueOf(suites, e) = <<>> \/ ValueOf(suites, e) \in SuiteLists
  BY ValueIs DEF SuitesOK
<1>2. <<>> \in SuiteLists
  BY EmptyFacts DEF SuiteLists
<1> QED BY <1>1, <1>2

LEMMA StoredOf ==
  ASSUME RunsOK, NEW e PROVE ValueOf(runs, e) \in Seq(Results)
<1>1. ValueOf(runs, e) = <<>> \/ ValueOf(runs, e) \in Seq(Results)
  BY ValueIs DEF RunsOK
<1> QED BY <1>1, EmptyFacts

LEMMA EvalInitHolds == EvalInit => EvalIInv
<1> SUFFICES ASSUME EvalInit PROVE EvalIInv
  OBVIOUS
<1>1. /\ evalPhase = [e \in Evaluators |-> "idle"]
      /\ todo = [e \in Evaluators |-> <<>>] /\ results = [e \in Evaluators |-> <<>>]
      /\ suites = <<>> /\ runs = <<>>
  BY DEF EvalInit
<1>2. EvalStateOK
  <2>1. <<>> \in Seq(CaseSet) /\ <<>> \in Seq(Results)
    BY EmptyFacts
  <2>2. todo \in [Evaluators -> Seq(CaseSet)]
    BY <1>1, <2>1
  <2>3. results \in [Evaluators -> Seq(Results)]
    BY <1>1, <2>1
  <2> QED BY <1>1, <2>2, <2>3 DEF EvalStateOK
<1>3. SuitesOK /\ RunsOK
  <2>1. MaxSuites \in Nat /\ MaxEvalRuns \in Nat
    BY EvalConstants
  <2>2. <<>> \in Seq(Evaluators \X SuiteLists) /\ <<>> \in Seq(Evaluators \X Seq(Results))
    BY EmptyFacts
  <2>3. DOMAIN <<>> = {} /\ Len(<<>>) = 0
    BY EmptyFacts
  <2> QED BY <1>1, <2>1, <2>2, <2>3 DEF SuitesOK, RunsOK, KeyOnce
<1>4. ASSUME NEW e \in Evaluators PROVE TurnOK(e) /\ Latest(ValueOf(runs, e), results[e])
  <2>1. evalPhase[e] = "idle" /\ results[e] = <<>> /\ results[e] \in Seq(Results)
    BY <1>1, EmptyFacts
  <2>2. ValueOf(runs, e) = <<>>
    BY <1>1 DEF ValueOf, Under
  <2> QED BY <2>1, <2>2, NothingStored, EmptyFacts DEF TurnOK
<1> QED BY <1>2, <1>3, <1>4 DEF EvalIInv

(* What keeps the runs, or loses some.                                     *)
LEMMA RunsShrink ==
  ASSUME EvalIInv, UNCHANGED results,
         runs' \in Seq(Evaluators \X Seq(Results)), KeyOnce(runs'), Len(runs') <= MaxEvalRuns,
         ToSet(runs') \subseteq ToSet(runs)
  PROVE  RunsOK' /\ \A e \in Evaluators : Latest(ValueOf(runs, e), results[e])'
<1>1. RunsOK'
  BY DEF RunsOK
<1>2. runs \in Seq(Evaluators \X Seq(Results)) /\ KeyOnce(runs)
  BY DEF EvalIInv, RunsOK
<1>3. ASSUME NEW e \in Evaluators PROVE Latest(ValueOf(runs', e), results[e])
  <2>1. ValueOf(runs', e) = <<>> \/ ValueOf(runs', e) = ValueOf(runs, e)
    <3>1. PICK new : new = runs'
      OBVIOUS
    <3>2. new \in Seq(Evaluators \X Seq(Results)) /\ KeyOnce(new) /\ \A kv \in ToSet(new) : kv \in ToSet(runs)
      BY <3>1
    <3>3. Dict(runs, Evaluators, Seq(Results)) /\ Dict(new, Evaluators, Seq(Results))
      BY <1>2, <3>2 DEF Dict
    <3>4. AsIn(new, runs, e)
      BY <3>2 DEF AsIn
    <3>5. ValueOf(new, e) = <<>> \/ ValueOf(new, e) = ValueOf(runs, e)
      BY <3>3, <3>4, ValueWas
    <3> QED BY <3>1, <3>5
  <2>2. results[e] \in Seq(Results) /\ Latest(ValueOf(runs, e), results[e])
    BY DEF EvalIInv, EvalStateOK
  <2> QED BY <2>1, <2>2, NothingStored
<1> QED BY <1>1, <1>3

LEMMA SameRuns ==
  ASSUME EvalIInv, UNCHANGED <<results, runs>>
  PROVE  RunsOK' /\ \A e \in Evaluators : Latest(ValueOf(runs, e), results[e])'
BY DEF EvalIInv, RunsOK

LEMMA StartDatasetHolds == ASSUME EvalIInv, NEW e \in Evaluators, StartDataset(e) PROVE EvalIInv'
<1>1. /\ evalPhase[e] = "idle" /\ evalPhase' = [evalPhase EXCEPT ![e] = "saving"]
      /\ todo' = [todo EXCEPT ![e] = Cases] /\ UNCHANGED <<results, suites, runs>>
  BY DEF StartDataset
<1>2. EvalStateOK /\ SuitesOK /\ \A o \in Evaluators : TurnOK(o)
  BY DEF EvalIInv
<1>3. EvalStateOK'
  <2>1. evalPhase' \in [Evaluators -> {"idle", "saving", "running"}]
    BY <1>1, <1>2 DEF EvalStateOK
  <2>2. todo' \in [Evaluators -> Seq(CaseSet)]
    BY <1>1, <1>2, EvalConstants DEF EvalStateOK
  <2> QED BY <1>1, <1>2, <2>1, <2>2 DEF EvalStateOK
<1>4. SuitesOK'
  BY <1>1, <1>2 DEF SuitesOK
<1>5. ASSUME NEW o \in Evaluators PROVE TurnOK(o)'
  <2>1. CASE o = e
    <3>1. evalPhase'[e] = "saving" /\ results'[e] = results[e]
      BY <1>1, <1>2 DEF EvalStateOK
    <3>2. results[e] = <<>> /\ CaseOnce(results[e])
      BY <1>1, <1>2 DEF TurnOK
    <3> QED BY <2>1, <3>1, <3>2 DEF TurnOK
  <2>2. CASE o # e
    <3>1. evalPhase'[o] = evalPhase[o] /\ todo'[o] = todo[o] /\ results'[o] = results[o]
      BY <1>1, <1>2, <2>2 DEF EvalStateOK
    <3> QED BY <1>2, <3>1 DEF TurnOK
  <2> QED BY <2>1, <2>2
<1> QED BY <1>1, <1>3, <1>4, <1>5, SameRuns DEF EvalIInv

(* An evaluation starts with cases of which none has been run.             *)
LEMMA StartsRunning ==
  ASSUME EvalIInv, NEW e \in Evaluators, NEW cs \in SuiteLists, evalPhase[e] # "running",
         evalPhase' = [evalPhase EXCEPT ![e] = "running"], todo' = [todo EXCEPT ![e] = cs],
         UNCHANGED <<results, runs>>, SuitesOK'
  PROVE  EvalIInv'
<1>1. EvalStateOK /\ \A o \in Evaluators : TurnOK(o)
  BY DEF EvalIInv
<1>2. cs \in Seq(CaseSet) /\ IsInjective(cs)
  BY DEF SuiteLists
<1>3. EvalStateOK'
  <2>1. evalPhase' \in [Evaluators -> {"idle", "saving", "running"}]
    BY <1>1 DEF EvalStateOK
  <2>2. todo' \in [Evaluators -> Seq(CaseSet)]
    BY <1>1, <1>2 DEF EvalStateOK
  <2> QED BY <1>1, <2>1, <2>2 DEF EvalStateOK
<1>4. ASSUME NEW o \in Evaluators PROVE TurnOK(o)'
  <2>1. CASE o = e
    <3>1. evalPhase'[e] = "running" /\ todo'[e] = cs /\ results'[e] = results[e]
      BY <1>1 DEF EvalStateOK
    <3>2. results[e] = <<>> /\ CaseOnce(results[e]) /\ DOMAIN results[e] = {}
      BY <1>1, EmptyFacts DEF TurnOK
    <3> QED BY <1>2, <2>1, <3>1, <3>2 DEF TurnOK
  <2>2. CASE o # e
    <3>1. evalPhase'[o] = evalPhase[o] /\ todo'[o] = todo[o] /\ results'[o] = results[o]
      BY <1>1, <2>2 DEF EvalStateOK
    <3> QED BY <1>1, <3>1 DEF TurnOK
  <2> QED BY <2>1, <2>2
<1> QED BY <1>3, <1>4, SameRuns DEF EvalIInv

LEMMA SaveCaseHolds == ASSUME EvalIInv, NEW e \in Evaluators, SaveCase(e) PROVE EvalIInv'
<1>1. evalPhase[e] = "saving" /\ UNCHANGED <<results, runs>>
  BY DEF SaveCase
<1>2. EvalStateOK /\ SuitesOK /\ \A o \in Evaluators : TurnOK(o)
  BY DEF EvalIInv
<1>3. CASE todo[e] = <<>>
  <2>1. /\ evalPhase' = [evalPhase EXCEPT ![e] = "running"]
        /\ todo' = [todo EXCEPT ![e] = Cases] /\ UNCHANGED suites
    BY <1>3 DEF SaveCase
  <2>2. SuitesOK'
    BY <1>2, <2>1 DEF SuitesOK
  <2>3. Cases \in SuiteLists
    BY EvalConstants DEF SuiteLists
  <2>4. evalPhase[e] # "running"
    BY <1>1
  <2> QED BY <1>1, <2>1, <2>2, <2>3, <2>4, StartsRunning
<1>4. CASE todo[e] # <<>>
  <2>1. PICK cs : cs = WithCase(ValueOf(suites, e), Head(todo[e]))
    OBVIOUS
  <2>2. /\ suites' = StoredLast(suites, e, cs, MaxSuites)
        /\ todo' = [todo EXCEPT ![e] = Tail(@)] /\ UNCHANGED evalPhase
    BY <1>4, <2>1 DEF SaveCase
  <2>3. todo[e] \in Seq(CaseSet)
    BY <1>2 DEF EvalStateOK
  <2>4. Head(todo[e]) \in CaseSet /\ Tail(todo[e]) \in Seq(CaseSet)
    BY <1>4, <2>3, HeadTailProperties
  <2>5. cs \in SuiteLists
    BY <1>2, <2>1, <2>4, SuiteOf, WithCaseOnce
  <2>6. SuitesOK'
    <3>1. suites \in Seq(Evaluators \X SuiteLists) /\ KeyOnce(suites) /\ MaxSuites \in Nat \ {0}
      BY <1>2, EvalConstants DEF SuitesOK
    <3>2. suites' \in Seq(Evaluators \X SuiteLists) /\ KeyOnce(suites') /\ Len(suites') <= MaxSuites
      <4>1. Dict(suites, Evaluators, SuiteLists)
        BY <3>1 DEF Dict
      <4>2. Dict(suites', Evaluators, SuiteLists) /\ Len(suites') <= MaxSuites
        BY <2>2, <2>5, <3>1, <4>1, StoredOnce
      <4> QED BY <4>2 DEF Dict
    <3> QED BY <3>2 DEF SuitesOK
  <2>7. EvalStateOK'
    <3>1. todo' \in [Evaluators -> Seq(CaseSet)]
      BY <1>2, <2>2, <2>4 DEF EvalStateOK
    <3> QED BY <1>1, <1>2, <2>2, <3>1 DEF EvalStateOK
  <2>8. ASSUME NEW o \in Evaluators PROVE TurnOK(o)'
    <3>1. evalPhase'[o] = evalPhase[o] /\ results'[o] = results[o]
      BY <1>1, <2>2
    <3>2. CASE o = e
      BY <1>1, <1>2, <3>1, <3>2 DEF TurnOK
    <3>3. CASE o # e
      <4>1. todo'[o] = todo[o]
        BY <1>2, <2>2, <3>3 DEF EvalStateOK
      <4> QED BY <1>2, <3>1, <4>1 DEF TurnOK
    <3> QED BY <3>2, <3>3
  <2> QED BY <1>1, <2>6, <2>7, <2>8, SameRuns DEF EvalIInv
<1> QED BY <1>3, <1>4

LEMMA StartSuiteHolds == ASSUME EvalIInv, NEW e \in Evaluators, StartSuite(e) PROVE EvalIInv'
<1>1. /\ evalPhase[e] = "idle" /\ evalPhase' = [evalPhase EXCEPT ![e] = "running"]
      /\ todo' = [todo EXCEPT ![e] = ValueOf(suites, e)] /\ suites' = MovedLast(suites, e)
      /\ UNCHANGED <<results, runs>>
  BY DEF StartSuite
<1>2. SuitesOK /\ ValueOf(suites, e) \in SuiteLists
  BY SuiteOf DEF EvalIInv
<1>3. SuitesOK'
  <2>1. suites \in Seq(Evaluators \X SuiteLists) /\ KeyOnce(suites) /\ Len(suites) <= MaxSuites
    BY <1>2 DEF SuitesOK
  <2>2. suites' \in Seq(Evaluators \X SuiteLists) /\ KeyOnce(suites') /\ Len(suites') = Len(suites)
    <3>1. /\ MovedLast(suites, e) \in Seq(Evaluators \X SuiteLists) /\ KeyOnce(MovedLast(suites, e))
          /\ Len(MovedLast(suites, e)) = Len(suites)
      <4>1. Dict(suites, Evaluators, SuiteLists)
        BY <2>1 DEF Dict
      <4>2. Dict(MovedLast(suites, e), Evaluators, SuiteLists) /\ Len(MovedLast(suites, e)) = Len(suites)
        BY <4>1, MovedOnce
      <4> QED BY <4>2 DEF Dict
    <3> QED BY <1>1, <3>1
  <2> QED BY <2>1, <2>2 DEF SuitesOK
<1>4. evalPhase[e] # "running"
  BY <1>1
<1> QED BY <1>1, <1>2, <1>3, <1>4, StartsRunning

LEMMA RunCaseHolds ==
  ASSUME EvalIInv, NEW e \in Evaluators, NEW score \in Scores, RunCase(e, score) PROVE EvalIInv'
<1>1. PICK r, stored : r = [case |-> Head(todo[e]), score |-> score] /\ stored = ValueOf(runs, e)
  OBVIOUS
<1>2. /\ evalPhase[e] = "running" /\ todo[e] # <<>>
      /\ results' = [results EXCEPT ![e] = Append(@, r)]
      /\ runs' = StoredLast(runs, e, WithResult(stored, r), MaxEvalRuns)
      /\ todo' = [todo EXCEPT ![e] = Tail(@)]
      /\ UNCHANGED <<evalPhase, suites>>
  BY <1>1 DEF RunCase
<1>3. EvalStateOK /\ SuitesOK /\ RunsOK /\ TurnOK(e) /\ Latest(stored, results[e])
  BY <1>1 DEF EvalIInv
<1>4. todo[e] \in Seq(CaseSet) /\ results[e] \in Seq(Results) /\ stored \in Seq(Results)
  BY <1>1, <1>3, StoredOf DEF EvalStateOK
<1>5. PICK q, rs : q = todo[e] /\ rs = results[e]
  OBVIOUS
<1>6. /\ Head(q) \in CaseSet /\ Tail(q) \in Seq(CaseSet) /\ Len(Tail(q)) = Len(q) - 1 /\ Head(q) = q[1]
      /\ \A i \in 1..Len(Tail(q)) : Tail(q)[i] = q[i + 1]
  BY <1>2, <1>4, <1>5, HeadTailProperties
<1>7. Len(q) \in Nat /\ Len(q) # 0 /\ DOMAIN q = 1..Len(q) /\ DOMAIN Tail(q) = 1..(Len(q) - 1)
  BY <1>2, <1>4, <1>5, <1>6, SeqFacts
<1>8. r \in Results /\ r.case = q[1]
  BY <1>1, <1>5, <1>6 DEF Results
<1>9. IsInjective(q) /\ CaseOnce(rs) /\ \A i \in DOMAIN q, j \in DOMAIN rs : q[i] # rs[j].case
  BY <1>2, <1>3, <1>5 DEF TurnOK
<1>10. /\ WithResult(stored, r) \in Seq(Results)
       /\ Append(rs, r) \in Seq(Results) /\ CaseOnce(Append(rs, r))
       /\ Latest(WithResult(stored, r), Append(rs, r))
  <2>1. \A j \in DOMAIN rs : rs[j].case # r.case
    BY <1>7, <1>8, <1>9
  <2> QED BY <1>3, <1>4, <1>5, <1>8, <1>9, <2>1, ResultIsLatest
<1>11. /\ runs \in Seq(Evaluators \X Seq(Results)) /\ KeyOnce(runs) /\ MaxEvalRuns \in Nat \ {0}
  BY <1>3, EvalConstants DEF RunsOK
<1>12. PICK value : value = WithResult(stored, r)
  OBVIOUS
<1>13. /\ runs' \in Seq(Evaluators \X Seq(Results)) /\ KeyOnce(runs') /\ Len(runs') <= MaxEvalRuns
       /\ <<e, value>> \in ToSet(runs')
       /\ \A kv \in ToSet(runs') : kv = <<e, value>> \/ (kv \in ToSet(runs) /\ kv[1] # e)
  <2>1. PICK new : new = StoredLast(runs, e, value, MaxEvalRuns)
    OBVIOUS
  <2>2. value \in Seq(Results)
    BY <1>10, <1>12
  <2>3. /\ new \in Seq(Evaluators \X Seq(Results)) /\ KeyOnce(new) /\ Len(new) <= MaxEvalRuns
        /\ <<e, value>> \in ToSet(new)
        /\ \A kv \in ToSet(new) : kv = <<e, value>> \/ (kv \in ToSet(runs) /\ kv[1] # e)
    <3>1. Dict(runs, Evaluators, Seq(Results))
      BY <1>11 DEF Dict
    <3>2. PICK kv : kv = <<e, value>>
      OBVIOUS
    <3>3. /\ Dict(new, Evaluators, Seq(Results)) /\ Len(new) <= MaxEvalRuns
          /\ StoredIn(new, runs, kv)
      BY <1>11, <2>1, <2>2, <3>1, <3>2, StoredOnce
    <3>4. kv[1] = e
      BY <3>2
    <3> QED BY <3>2, <3>3, <3>4 DEF Dict, StoredIn
  <2> QED BY <1>2, <1>12, <2>1, <2>3
<1>14. RunsOK'
  BY <1>13 DEF RunsOK
<1>15. EvalStateOK'
  <2>1. todo' \in [Evaluators -> Seq(CaseSet)]
    BY <1>2, <1>3, <1>5, <1>6 DEF EvalStateOK
  <2>2. results' \in [Evaluators -> Seq(Results)]
    BY <1>2, <1>3, <1>5, <1>10 DEF EvalStateOK
  <2> QED BY <1>2, <1>3, <2>1, <2>2 DEF EvalStateOK
<1>16. results'[e] = Append(rs, r) /\ todo'[e] = Tail(q) /\ evalPhase'[e] = "running"
  BY <1>2, <1>3, <1>5 DEF EvalStateOK
<1>17. \A o \in Evaluators : o # e => results'[o] = results[o] /\ todo'[o] = todo[o] /\ evalPhase'[o] = evalPhase[o]
  BY <1>2, <1>3 DEF EvalStateOK
<1>18. ASSUME NEW i \in DOMAIN Tail(q)
       PROVE  i + 1 \in DOMAIN q /\ Tail(q)[i] = q[i + 1] /\ i + 1 # 1 /\ i \in Int
  BY <1>6, <1>7
<1>19. ASSUME NEW o \in Evaluators PROVE TurnOK(o)' /\ Latest(ValueOf(runs, o), results[o])'
  <2>1. CASE o = e
    <3>1. IsInjective(Tail(q))
      <4>1. \A i, j \in DOMAIN Tail(q) : Tail(q)[i] = Tail(q)[j] => i + 1 = j + 1
        BY <1>9, <1>18 DEF IsInjective
      <4>2. \A i, j \in DOMAIN Tail(q) : i + 1 = j + 1 => i = j
        BY <1>18
      <4> QED BY <4>1, <4>2 DEF IsInjective
    <3>2. ASSUME NEW i \in DOMAIN Tail(q), NEW j \in DOMAIN Append(rs, r)
          PROVE  Tail(q)[i] # Append(rs, r)[j].case
      <4>1. /\ Len(rs) \in Nat /\ DOMAIN rs = 1..Len(rs)
            /\ Append(rs, r)[Len(rs) + 1] = r /\ \A k \in 1..Len(rs) : Append(rs, r)[k] = rs[k]
            /\ Len(Append(rs, r)) = Len(rs) + 1
        BY <1>4, <1>5, <1>8, AppendProperties, SeqFacts
      <4>2. j \in 1..(Len(rs) + 1)
        BY <1>10, <4>1, SeqFacts
      <4>3. CASE j = Len(rs) + 1
        <5>1. q[i + 1] # q[1]
          BY <1>7, <1>9, <1>18 DEF IsInjective
        <5> QED BY <1>8, <1>18, <4>1, <4>3, <5>1
      <4>4. CASE j \in 1..Len(rs)
        BY <1>9, <1>18, <4>1, <4>4
      <4> QED BY <4>1, <4>2, <4>3, <4>4
    <3>3. TurnOK(o)'
      <4>1. \A i \in DOMAIN todo'[e], j \in DOMAIN results'[e] : todo'[e][i] # results'[e][j].case
        BY <1>16, <3>2
      <4>2. IsInjective(todo'[e]) /\ CaseOnce(results'[e]) /\ evalPhase'[e] = "running"
        BY <1>10, <1>16, <3>1
      <4> QED BY <2>1, <4>1, <4>2 DEF TurnOK
    <3>4. ValueOf(runs', e) = value
      BY <1>13, ValueIs
    <3> QED BY <1>10, <1>12, <1>16, <2>1, <3>3, <3>4
  <2>2. CASE o # e
    <3>1. TurnOK(o)'
      <4>1. TurnOK(o)
        BY DEF EvalIInv
      <4> QED BY <1>17, <2>2, <4>1 DEF TurnOK
    <3>2. \A kv \in ToSet(runs') : kv[1] = o => kv \in ToSet(runs)
      <4>1. <<e, value>>[1] = e
        OBVIOUS
      <4> QED BY <1>13, <2>2, <4>1
    <3>3. ValueOf(runs', o) = <<>> \/ ValueOf(runs', o) = ValueOf(runs, o)
      <4>1. PICK new : new = runs'
        OBVIOUS
      <4>2. new \in Seq(Evaluators \X Seq(Results)) /\ KeyOnce(new) /\ \A kv \in ToSet(new) : kv[1] = o => kv \in ToSet(runs)
        BY <1>13, <3>2, <4>1
      <4>3. Dict(runs, Evaluators, Seq(Results)) /\ Dict(new, Evaluators, Seq(Results))
        BY <1>11, <4>2 DEF Dict
      <4>4. AsIn(new, runs, o)
        BY <4>2 DEF AsIn
      <4>5. ValueOf(new, o) = <<>> \/ ValueOf(new, o) = ValueOf(runs, o)
        BY <4>3, <4>4, ValueWas
      <4> QED BY <4>1, <4>5
    <3>4. results[o] \in Seq(Results) /\ Latest(ValueOf(runs, o), results[o])
      BY DEF EvalIInv, EvalStateOK
    <3>5. Latest(ValueOf(runs', o), results[o])
      BY <3>3, <3>4, NothingStored
    <3> QED BY <1>17, <2>2, <3>1, <3>5
  <2> QED BY <2>1, <2>2
<1>20. SuitesOK'
  BY <1>2, <1>3 DEF SuitesOK
<1> QED BY <1>14, <1>15, <1>19, <1>20 DEF EvalIInv

LEMMA RunCasesEndsHolds ==
  ASSUME EvalIInv, NEW e \in Evaluators, NEW raises \in BOOLEAN, RunCasesEnds(e, raises) PROVE EvalIInv'
<1>1. /\ evalPhase' = [evalPhase EXCEPT ![e] = "idle"]
      /\ todo' = [todo EXCEPT ![e] = <<>>] /\ results' = [results EXCEPT ![e] = <<>>]
      /\ UNCHANGED <<suites, runs>>
  BY DEF RunCasesEnds
<1>2. EvalStateOK /\ SuitesOK /\ RunsOK
  BY DEF EvalIInv
<1>3. EvalStateOK'
  <2>1. <<>> \in Seq(CaseSet) /\ <<>> \in Seq(Results)
    BY EmptyFacts
  <2>2. todo' \in [Evaluators -> Seq(CaseSet)]
    BY <1>1, <1>2, <2>1 DEF EvalStateOK
  <2>3. results' \in [Evaluators -> Seq(Results)]
    BY <1>1, <1>2, <2>1 DEF EvalStateOK
  <2>4. evalPhase' \in [Evaluators -> {"idle", "saving", "running"}]
    BY <1>1, <1>2 DEF EvalStateOK
  <2> QED BY <2>2, <2>3, <2>4 DEF EvalStateOK
<1>4. SuitesOK' /\ RunsOK'
  BY <1>1, <1>2 DEF SuitesOK, RunsOK
<1>5. ASSUME NEW o \in Evaluators PROVE TurnOK(o)' /\ Latest(ValueOf(runs, o), results[o])'
  <2>1. TurnOK(o) /\ Latest(ValueOf(runs, o), results[o]) /\ ValueOf(runs, o) \in Seq(Results)
    BY <1>2, StoredOf DEF EvalIInv
  <2>2. CASE o = e
    <3>1. evalPhase'[e] = "idle" /\ results'[e] = <<>>
      BY <1>1, <1>2 DEF EvalStateOK
    <3>2. CaseOnce(ValueOf(runs, o))
      BY <2>1 DEF Latest
    <3>3. Latest(ValueOf(runs, o), <<>>)
      BY <2>1, <3>2, NothingRun
    <3> QED BY <1>1, <2>2, <3>1, <3>3, EmptyFacts DEF TurnOK
  <2>3. CASE o # e
    <3>1. evalPhase'[o] = evalPhase[o] /\ todo'[o] = todo[o] /\ results'[o] = results[o]
      BY <1>1, <1>2, <2>3 DEF EvalStateOK
    <3> QED BY <1>1, <2>1, <3>1 DEF TurnOK
  <2> QED BY <2>2, <2>3
<1> QED BY <1>3, <1>4, <1>5 DEF EvalIInv

LEMMA HostHolds ==
  ASSUME EvalIInv, NEW e \in Evaluators, ListResults(e) \/ DeleteEvalRun(e) PROVE EvalIInv'
<1>1. UNCHANGED <<evalPhase, todo, results, suites>> /\ (runs' = MovedLast(runs, e) \/ runs' = Others(runs, e))
  BY DEF ListResults, DeleteEvalRun
<1>2. EvalStateOK /\ SuitesOK /\ RunsOK /\ \A o \in Evaluators : TurnOK(o)
  BY DEF EvalIInv
<1>3. runs \in Seq(Evaluators \X Seq(Results)) /\ KeyOnce(runs) /\ Len(runs) <= MaxEvalRuns
      /\ Len(runs) \in Nat /\ MaxEvalRuns \in Nat
  BY <1>2, EvalConstants, SeqFacts DEF RunsOK
<1>4. /\ runs' \in Seq(Evaluators \X Seq(Results)) /\ KeyOnce(runs') /\ Len(runs') <= Len(runs)
      /\ ToSet(runs') \subseteq ToSet(runs)
  <2>1. CASE runs' = MovedLast(runs, e)
    <3>1. /\ MovedLast(runs, e) \in Seq(Evaluators \X Seq(Results)) /\ KeyOnce(MovedLast(runs, e))
          /\ Len(MovedLast(runs, e)) = Len(runs) /\ ToSet(MovedLast(runs, e)) \subseteq ToSet(runs)
      <4>1. Dict(runs, Evaluators, Seq(Results))
        BY <1>3 DEF Dict
      <4>2. /\ Dict(MovedLast(runs, e), Evaluators, Seq(Results))
            /\ Len(MovedLast(runs, e)) = Len(runs) /\ ToSet(MovedLast(runs, e)) \subseteq ToSet(runs)
        BY <4>1, MovedOnce
      <4> QED BY <4>2 DEF Dict
    <3> QED BY <1>3, <2>1, <3>1
  <2>2. CASE runs' = Others(runs, e)
    BY <1>3, <2>2, OthersOnce
  <2> QED BY <1>1, <2>1, <2>2
<1>5. Len(runs') <= MaxEvalRuns
  <2>1. Len(runs') \in Nat
    BY <1>4, SeqFacts
  <2> QED BY <1>3, <1>4, <2>1
<1>6. RunsOK' /\ \A o \in Evaluators : Latest(ValueOf(runs, o), results[o])'
  BY <1>1, <1>4, <1>5, RunsShrink
<1>7. EvalStateOK' /\ SuitesOK' /\ \A o \in Evaluators : TurnOK(o)'
  BY <1>1, <1>2 DEF EvalStateOK, SuitesOK, TurnOK
<1> QED BY <1>6, <1>7 DEF EvalIInv

LEMMA EvalStepHolds == EvalIInv /\ [EvalNext]_evalVars => EvalIInv'
<1> SUFFICES ASSUME EvalIInv, [EvalNext]_evalVars PROVE EvalIInv'
  OBVIOUS
<1>1. CASE UNCHANGED evalVars
  <2>1. UNCHANGED <<evalPhase, todo, results, suites, runs>>
    BY <1>1 DEF evalVars
  <2>2. EvalStateOK' /\ SuitesOK' /\ \A o \in Evaluators : TurnOK(o)'
    BY <2>1 DEF EvalIInv, EvalStateOK, SuitesOK, TurnOK
  <2> QED BY <2>1, <2>2, SameRuns DEF EvalIInv
<1> QED BY <1>1, StartDatasetHolds, SaveCaseHolds, StartSuiteHolds, RunCaseHolds, RunCasesEndsHolds,
           HostHolds DEF EvalNext

LEMMA EvalImplies == EvalIInv => EvalTypeOK /\ ResultsAreLatest
<1> SUFFICES ASSUME EvalIInv PROVE EvalTypeOK /\ ResultsAreLatest
  OBVIOUS
<1>1. EvalStateOK /\ SuitesOK /\ RunsOK
  BY DEF EvalIInv
<1>2. EvalTypeOK
  <2>1. ASSUME NEW i \in DOMAIN suites PROVE suites[i][1] \in Evaluators /\ ToSet(suites[i][2]) \subseteq ToSet(Cases)
    <3>1. suites[i] \in Evaluators \X SuiteLists
      BY <1>1, SeqFacts DEF SuitesOK
    <3>2. suites[i][1] \in Evaluators /\ suites[i][2] \in Seq(CaseSet)
      BY <3>1 DEF SuiteLists
    <3>3. \A k \in DOMAIN suites[i][2] : suites[i][2][k] \in CaseSet
      BY <3>2, SeqFacts
    <3> QED BY <3>2, <3>3 DEF ToSet, CaseSet
  <2>2. ASSUME NEW i \in DOMAIN runs PROVE runs[i][1] \in Evaluators
    BY <1>1, SeqFacts DEF RunsOK
  <2> QED BY <1>1, <2>1, <2>2 DEF EvalTypeOK, EvalStateOK, SuitesOK, RunsOK
<1>3. ASSUME NEW e \in Evaluators,
             NEW stored, stored = ValueOf(runs, e),
             NEW ran, ran = {results[e][i].case : i \in DOMAIN results[e]}
      PROVE  /\ \E from \in 1..Len(results[e]) + 1 :
                   Keeping(stored, {i \in DOMAIN stored : stored[i].case \in ran})
                     = SubSeq(results[e], from, Len(results[e]))
             /\ IsInjective([i \in DOMAIN stored |-> stored[i].case])
  <2>1. PICK rs, I : rs = results[e] /\ I = {i \in DOMAIN stored : stored[i].case \in ran}
    OBVIOUS
  <2>2. stored \in Seq(Results) /\ rs \in Seq(Results) /\ CaseOnce(rs) /\ Latest(stored, rs)
    BY <1>1, <1>3, <2>1, StoredOf DEF EvalIInv, EvalStateOK, TurnOK
  <2>3. PICK given \in Nat : LatestFrom(stored, rs, given)
    BY <2>2 DEF Latest
  <2>4. I \in SUBSET DOMAIN stored /\ \A i \in DOMAIN stored : i \in I <=> \E j \in DOMAIN rs : stored[i].case = rs[j].case
    BY <1>3, <2>1
  <2>5. PICK f : /\ Grows(f, Len(Keeping(stored, I)), given, Len(rs))
                 /\ \A k \in 1..Len(Keeping(stored, I)) : Keeping(stored, I)[k] = rs[f[k]]
    BY <2>2, <2>3, <2>4, LatestGrows
  <2>6. given \in 0..Len(rs)
    BY <2>3 DEF LatestFrom
  <2>7. Keeping(stored, I) \in Seq(Results)
    BY <2>2, <2>4, KeepingKeeps
  <2>8. given + 1 \in 1..Len(rs) + 1 /\ Keeping(stored, I) = SubSeq(rs, given + 1, Len(rs))
    BY <2>2, <2>5, <2>6, <2>7, GrowingIsEnd
  <2>9. IsInjective([i \in DOMAIN stored |-> stored[i].case])
    BY <2>2 DEF Latest, CaseOnce, IsInjective
  <2> QED BY <2>1, <2>8, <2>9
<1>4. ResultsAreLatest
  BY <1>3 DEF ResultsAreLatest
<1> QED BY <1>2, <1>4

(* What the store has of a run are the results of its evaluation, up to    *)
(* where the run was given up for others or deleted, and older ones only   *)
(* of cases not yet reached.                                               *)
THEOREM NewestResultsCount == EvalSpec => [](EvalTypeOK /\ ResultsAreLatest)
<1> QED BY EvalInitHolds, EvalStepHolds, EvalImplies, PTL DEF EvalSpec

--------------------------------------------------------------------------------
(* ChatApi: what a client is told agrees with the run.                     *)

ChunkKinds == {"role", "content", "call", "preview", "stop", "usage", "error", "[DONE]"}
ChunkSet == [kind : ChunkKinds, index : {0, 1}, call : ToolIds \cup {""}, usage : Nat]
RunStates == [events : 0..MaxRunEvents, used : Nat, ended : {"no", "done", "error", "cancelled"}]
Responses == [status : {0, 200, 400, 404, 500}, usage : Nat]
HttpStates == {"idle", "running", "answered", "broken"}

(* What is noted is what the run has used, and its sum is told only when   *)
(* the run uses no more.                                                   *)
ChatTyped ==
  /\ request.stream \in BOOLEAN /\ request.usage \in BOOLEAN
  /\ http \in HttpStates /\ agentRun \in RunStates /\ response \in Responses
  /\ noted = agentRun.used /\ chunks \in Seq(ChunkSet)
  /\ http = "idle" => chunks = <<>> /\ agentRun.ended = "no"
  /\ response.status # 0 => http = "answered"
  /\ response.status = 200 => agentRun.ended # "error" /\ response.usage = agentRun.used
  /\ http = "running" /\ ~request.stream => agentRun.ended # "error"

UsageIsLast ==
  /\ agentRun.ended = "no" => \A n \in DOMAIN chunks : chunks[n].kind # "usage"
  /\ \A n \in DOMAIN chunks : chunks[n].kind = "usage" => chunks[n].usage = agentRun.used

(* A stream has told of the run's end what the run did.                    *)
StreamTells ==
  /\ Count("stop") = (IF agentRun.ended = "done" THEN 1 ELSE 0)
  /\ Count("error") = (IF agentRun.ended = "error" THEN 1 ELSE 0)
StreamIsOpen == http = "running" /\ request.stream => Count("[DONE]") = 0 /\ StreamTells
StreamIsClosed ==
  http = "answered" /\ request.stream /\ FlawOf(request) = "none" =>
    /\ chunks # <<>> /\ chunks[Len(chunks)].kind = "[DONE]" /\ Count("[DONE]") = 1 /\ StreamTells

ChatIInv == ChatTyped /\ UsageIsLast /\ StreamIsOpen /\ StreamIsClosed

CountIn(s, kind) == Cardinality({n \in DOMAIN s : s[n].kind = kind})

LEMMA CountedIn ==
  ASSUME NEW c \in ChunkSet, NEW s \in Seq(ChunkSet)
  PROVE  /\ Append(s, c) \in Seq(ChunkSet) /\ Append(s, c) # <<>> /\ Append(s, c)[Len(Append(s, c))] = c
         /\ \A n \in DOMAIN Append(s, c) : n \in DOMAIN s \/ Append(s, c)[n] = c
         /\ \A n \in DOMAIN s : Append(s, c)[n] = s[n]
         /\ \A kind : /\ CountIn(s, kind) \in Nat
                      /\ CountIn(Append(s, c), kind) = CountIn(s, kind) + (IF c.kind = kind THEN 1 ELSE 0)
<1> DEFINE n == Len(s)
           t == Append(s, c)
<1>1. /\ n \in Nat /\ DOMAIN s = 1..n /\ t \in Seq(ChunkSet) /\ Len(t) = n + 1
      /\ DOMAIN t = 1..(n + 1) /\ t[n + 1] = c /\ \A i \in 1..n : t[i] = s[i]
  BY AppendProperties, LenProperties
<1> HIDE DEF t
<1>2. n + 1 \notin 1..n /\ 1..(n + 1) = 1..n \cup {n + 1} /\ t # <<>>
  BY <1>1
<1>3. ASSUME NEW kind PROVE CountIn(s, kind) \in Nat /\ CountIn(t, kind) = CountIn(s, kind) + (IF c.kind = kind THEN 1 ELSE 0)
  <2> DEFINE A == {i \in DOMAIN s : s[i].kind = kind}
  <2>1. IsFiniteSet(1..n)
    BY <1>1, FS_Interval
  <2>2. IsFiniteSet(A) /\ n + 1 \notin A
    BY <1>1, <1>2, <2>1, FS_Subset
  <2>3. {i \in DOMAIN t : t[i].kind = kind} = IF c.kind = kind THEN A \cup {n + 1} ELSE A
    BY <1>1, <1>2
  <2>4. CountIn(s, kind) = Cardinality(A) /\ CountIn(t, kind) = Cardinality({i \in DOMAIN t : t[i].kind = kind})
    BY DEF CountIn
  <2> HIDE DEF A
  <2>5. Cardinality(A) \in Nat
    BY <2>2, FS_CardinalityType
  <2>6. CASE c.kind = kind
    <3>1. Cardinality(A \cup {n + 1}) = Cardinality(A) + 1
      BY <2>2, FS_AddElement
    <3> QED BY <2>3, <2>4, <2>5, <2>6, <3>1
  <2>7. CASE c.kind # kind
    <3>1. CountIn(t, kind) = Cardinality(A)
      BY <2>3, <2>4, <2>7
    <3> QED BY <2>4, <2>5, <2>7, <3>1
  <2> QED BY <2>6, <2>7
<1> QED BY <1>1, <1>2, <1>3 DEF t

LEMMA ChunkSent ==
  ASSUME NEW c \in ChunkSet, chunks \in Seq(ChunkSet), chunks' = Append(chunks, c)
  PROVE  /\ chunks' \in Seq(ChunkSet) /\ chunks' # <<>> /\ chunks'[Len(chunks')] = c
         /\ \A n \in DOMAIN chunks' : n \in DOMAIN chunks \/ chunks'[n] = c
         /\ \A n \in DOMAIN chunks : chunks'[n] = chunks[n]
         /\ \A kind : Count(kind) \in Nat /\ Count(kind)' = Count(kind) + (IF c.kind = kind THEN 1 ELSE 0)
<1>1. \A kind : Count(kind) = CountIn(chunks, kind) /\ Count(kind)' = CountIn(Append(chunks, c), kind)
  BY DEF Count, CountIn
<1> QED BY <1>1, CountedIn

LEMMA NothingSent == ASSUME chunks = <<>> PROVE \A kind : Count(kind) = 0
<1>1. \A kind : {n \in DOMAIN chunks : chunks[n].kind = kind} = {}
  OBVIOUS
<1> QED BY <1>1, FS_EmptySet DEF Count

LEMMA PlainChunk ==
  ASSUME NEW kind \in ChunkKinds
  PROVE  Chunk(kind) \in ChunkSet /\ Chunk(kind).kind = kind
BY DEF Chunk, ChunkSet

LEMMA ChunkTyped ==
  ASSUME NEW chunk \in ChunkSet
  PROVE  /\ \A c \in ToolIds : LET told == [chunk EXCEPT !.call = c] IN told \in ChunkSet /\ told.kind = chunk.kind
         /\ \A c \in ToolIds, i \in {0, 1} :
              LET preview == [chunk EXCEPT !.call = c, !.index = i]
              IN  preview \in ChunkSet /\ preview.kind = chunk.kind
         /\ \A n \in Nat : LET sum == [chunk EXCEPT !.usage = n]
                           IN  sum \in ChunkSet /\ sum.kind = chunk.kind /\ sum.usage = n
<1>1. ASSUME NEW c \in ToolIds
      PROVE  [chunk EXCEPT !.call = c] \in ChunkSet /\ [chunk EXCEPT !.call = c].kind = chunk.kind
  BY DEF ChunkSet
<1>2. ASSUME NEW n \in Nat
      PROVE  [chunk EXCEPT !.usage = n] \in ChunkSet /\ [chunk EXCEPT !.usage = n].usage = n
  BY DEF ChunkSet
<1>3. ASSUME NEW n \in Nat PROVE [chunk EXCEPT !.usage = n].kind = chunk.kind
  BY DEF ChunkSet
<1>4. ASSUME NEW c \in ToolIds, NEW i \in {0, 1} PROVE [chunk EXCEPT !.call = c, !.index = i] \in ChunkSet
  BY DEF ChunkSet
<1>5. ASSUME NEW c \in ToolIds, NEW i \in {0, 1} PROVE [chunk EXCEPT !.call = c, !.index = i].kind = chunk.kind
  BY DEF ChunkSet
<1> QED BY <1>1, <1>2, <1>3, <1>4, <1>5

LEMMA ChatInitHolds == ChatInit => ChatIInv
<1> SUFFICES ASSUME ChatInit PROVE ChatIInv
  OBVIOUS
<1>1. /\ request \in [flaw : Flaws, stream : BOOLEAN, usage : BOOLEAN] /\ http = "idle" /\ agentRun = NoRun
      /\ noted = 0 /\ chunks = <<>> /\ response = NoAnswer
  BY DEF ChatInit
<1>2. agentRun \in RunStates /\ agentRun.used = 0 /\ agentRun.ended = "no"
  BY <1>1, ChatAssumption DEF NoRun, RunStates
<1>3. response \in Responses /\ response.status = 0
  BY <1>1 DEF NoAnswer, Responses
<1>4. chunks \in Seq(ChunkSet) /\ DOMAIN chunks = {}
  BY <1>1
<1> QED BY <1>1, <1>2, <1>3, <1>4 DEF ChatIInv, ChatTyped, HttpStates, UsageIsLast, StreamIsOpen, StreamIsClosed

(* A step that leaves the request alone, with what is left to be shown.    *)
LEMMA RunReports ==
  ASSUME ChatIInv, http = "running", UNCHANGED <<request, http, response>>, agentRun' \in RunStates,
         noted' = agentRun'.used, agentRun.ended = "no", agentRun'.ended = "no",
         chunks' = chunks \/ \E c \in ChunkSet : c.kind \in {"content", "call", "preview"} /\ Sends(c)
  PROVE  ChatIInv'
<1>0. /\ chunks \in Seq(ChunkSet) /\ response.status # 200 /\ response.status = 0
      /\ \A n \in DOMAIN chunks : chunks[n].kind # "usage"
  BY DEF ChatIInv, ChatTyped, UsageIsLast
<1>1. CASE chunks' = chunks
  <2>1. \A kind : Count(kind)' = Count(kind)
    BY <1>1 DEF Count
  <2> QED BY <1>0, <1>1, <2>1 DEF ChatIInv, ChatTyped, UsageIsLast, StreamIsOpen, StreamIsClosed, StreamTells
<1>2. ASSUME NEW c \in ChunkSet, c.kind \in {"content", "call", "preview"}, chunks' = Append(chunks, c)
      PROVE  ChatIInv'
  <2>1. /\ chunks' \in Seq(ChunkSet)
        /\ \A n \in DOMAIN chunks' : chunks'[n].kind # "usage"
        /\ \A kind \in {"stop", "error", "[DONE]"} : Count(kind)' = Count(kind)
    BY <1>0, <1>2, ChunkSent
  <2> QED BY <1>0, <2>1 DEF ChatIInv, ChatTyped, UsageIsLast, StreamIsOpen, StreamIsClosed, StreamTells
<1> QED BY <1>1, <1>2 DEF Sends

LEMMA ChatStepHolds == ChatIInv /\ [ChatNext]_chatVars => ChatIInv'
<1> SUFFICES ASSUME ChatIInv, [ChatNext]_chatVars PROVE ChatIInv'
  OBVIOUS
<1>0. /\ ChatTyped /\ UsageIsLast /\ StreamIsOpen /\ StreamIsClosed
      /\ chunks \in Seq(ChunkSet) /\ agentRun \in RunStates /\ response \in Responses /\ noted = agentRun.used
      /\ agentRun.events \in 0..MaxRunEvents /\ agentRun.used \in Nat /\ noted \in Nat
      /\ agentRun.ended \in {"no", "done", "error", "cancelled"}
      /\ http = "running" => response.status = 0
  BY DEF ChatIInv, ChatTyped, RunStates
<1>1. CASE Refuse
  <2>1. /\ http = "idle" /\ FlawOf(request) # "none" /\ http' = "answered"
        /\ response' = [status |-> StatusOf(FlawOf(request)), usage |-> 0]
        /\ UNCHANGED <<request, agentRun, noted, chunks>>
    BY <1>1 DEF Refuse
  <2>2. response' \in Responses /\ response'.status # 200
    <3>1. StatusOf(FlawOf(request)) \in {400, 404}
      BY DEF StatusOf
    <3>2. response'.status \in {400, 404} /\ response'.usage = 0
      BY <2>1, <3>1
    <3> QED BY <2>1, <3>1, <3>2 DEF Responses
  <2>3. FlawOf(request)' # "none"
    BY <2>1 DEF FlawOf
  <2> QED BY <1>0, <2>1, <2>2, <2>3 DEF ChatIInv, ChatTyped, HttpStates, UsageIsLast, StreamIsOpen, StreamIsClosed
<1>2. CASE Accept
  <2>1. /\ http = "idle" /\ http' = "running" /\ UNCHANGED <<request, agentRun, noted, response>>
        /\ chunks = <<>> /\ agentRun.ended = "no" /\ response.status = 0
        /\ chunks' = IF request.stream THEN <<Chunk("role")>> ELSE <<>>
    BY <1>0, <1>2 DEF Accept, ChatTyped
  <2>2. CASE request.stream
    <3> DEFINE c == Chunk("role")
    <3>1. c \in ChunkSet /\ c.kind = "role"
      <4>1. "role" \in ChunkKinds /\ 0 \in Nat
        BY DEF ChunkKinds
      <4> QED BY <4>1, PlainChunk
    <3> HIDE DEF c
    <3>2. chunks' = Append(chunks, c)
      BY <2>1, <2>2 DEF c
    <3>3. /\ chunks' \in Seq(ChunkSet) /\ \A n \in DOMAIN chunks' : n \in DOMAIN chunks \/ chunks'[n] = c
          /\ \A kind : Count(kind) \in Nat /\ Count(kind)' = Count(kind) + (IF c.kind = kind THEN 1 ELSE 0)
      BY <1>0, <3>1, <3>2, ChunkSent
    <3>5. \A n \in DOMAIN chunks' : chunks'[n].kind # "usage"
      BY <2>1, <3>1, <3>3
    <3>6. \A kind \in {"stop", "error", "[DONE]"} : Count(kind)' = Count(kind)
      BY <3>1, <3>3
    <3>4. \A kind : Count(kind) = 0
      BY <2>1, NothingSent
    <3> QED BY <1>0, <2>1, <3>3, <3>4, <3>5, <3>6
         DEF ChatIInv, ChatTyped, HttpStates, UsageIsLast, StreamIsOpen, StreamIsClosed, StreamTells
  <2>3. CASE ~request.stream
    <3>1. chunks' = <<>> /\ chunks' = chunks /\ request' = request
      BY <2>1, <2>3
    <3> QED BY <1>0, <2>1, <2>3, <3>1 DEF ChatIInv, ChatTyped, HttpStates, UsageIsLast, StreamIsOpen, StreamIsClosed
  <2> QED BY <2>2, <2>3, <1>0 DEF ChatTyped
<1>3. CASE CostUpdate
  <2>1. /\ http = "running" /\ agentRun.ended = "no" /\ agentRun.events < MaxRunEvents
        /\ agentRun' = [agentRun EXCEPT !.events = @ + 1, !.used = @ + 1] /\ noted' = agentRun'.used
        /\ UNCHANGED <<request, http, chunks, response>>
    BY <1>3 DEF CostUpdate, Running
  <2>2. agentRun' \in RunStates /\ agentRun'.ended = "no"
    <3>1. agentRun.events + 1 \in 0..MaxRunEvents /\ agentRun.used + 1 \in Nat
      BY <1>0, <2>1, ChatAssumption
    <3> QED BY <1>0, <2>1, <3>1 DEF RunStates
  <2> QED BY <2>1, <2>2, RunReports
<1>4. CASE RunEvent
  <2>1. /\ http = "running" /\ agentRun.ended = "no" /\ agentRun.events < MaxRunEvents
        /\ agentRun' = [agentRun EXCEPT !.events = @ + 1]
        /\ UNCHANGED <<request, http, noted, response>>
    BY <1>4 DEF RunEvent, Running
  <2>5. \/ Sends(Chunk("content"))
        \/ \E c \in ToolIds : Sends([Chunk("call") EXCEPT !.call = c])
        \/ \E c \in ToolIds, i \in 0..1 : Sends([Chunk("preview") EXCEPT !.call = c, !.index = i])
    BY <1>4 DEF RunEvent
  <2>2. agentRun' \in RunStates /\ agentRun'.ended = "no" /\ noted' = agentRun'.used
    <3>1. agentRun.events + 1 \in 0..MaxRunEvents
      BY <1>0, <2>1, ChatAssumption
    <3>2. agentRun'.ended = agentRun.ended /\ agentRun'.used = agentRun.used
      BY <1>0, <2>1 DEF RunStates
    <3>3. agentRun' \in RunStates
      BY <1>0, <2>1, <3>1 DEF RunStates
    <3> QED BY <1>0, <2>1, <3>2, <3>3
  <2>3. {"content", "call", "preview"} \subseteq ChunkKinds
    BY DEF ChunkKinds
  <2>4. \E c \in ChunkSet : c.kind \in {"content", "call", "preview"} /\ Sends(c)
    <3>1. CASE Sends(Chunk("content"))
      BY <2>3, <3>1, PlainChunk
    <3>2. ASSUME NEW c \in ToolIds, Sends([Chunk("call") EXCEPT !.call = c]) 
          PROVE  \E chunk \in ChunkSet : chunk.kind \in {"content", "call", "preview"} /\ Sends(chunk)
      BY <2>3, <3>2, PlainChunk, ChunkTyped
    <3>3. ASSUME NEW c \in ToolIds, NEW i \in 0..1, Sends([Chunk("preview") EXCEPT !.call = c, !.index = i])
          PROVE  \E chunk \in ChunkSet : chunk.kind \in {"content", "call", "preview"} /\ Sends(chunk)
      <4>1. i \in {0, 1}
        OBVIOUS
      <4> DEFINE plain == Chunk("preview")
                 preview == [plain EXCEPT !.call = c, !.index = i]
      <4>2. plain \in ChunkSet /\ plain.kind = "preview"
        BY <2>3, PlainChunk
      <4> HIDE DEF plain
      <4>3. preview \in ChunkSet /\ preview.kind = "preview"
        BY <4>1, <4>2, ChunkTyped
      <4>4. Sends(preview)
        BY <3>3 DEF plain
      <4> HIDE DEF preview
      <4> QED BY <4>3, <4>4
    <3> QED BY <2>5, <3>1, <3>2, <3>3
  <2> QED BY <2>1, <2>2, <2>4, RunReports
<1>5. CASE RunDone
  <2>1. /\ http = "running" /\ agentRun.ended = "no" /\ agentRun' = [agentRun EXCEPT !.ended = "done"]
        /\ UNCHANGED <<request, http, noted, response>>
        /\ chunks' = IF ~request.stream THEN chunks
                     ELSE chunks \o <<Chunk("stop")>>
                            \o (IF request.usage THEN <<[Chunk("usage") EXCEPT !.usage = noted]>> ELSE <<>>)
    BY <1>5 DEF RunDone
  <2>2. agentRun' \in RunStates /\ agentRun'.ended = "done" /\ agentRun'.used = agentRun.used
    BY <1>0, <2>1 DEF RunStates
  <2>3. response.status = 0
    BY <1>0, <2>1
  <2>4. CASE request.stream
    <3> DEFINE stop == Chunk("stop")
               sum == [Chunk("usage") EXCEPT !.usage = noted]
               told == Append(chunks, stop)
    <3>1. stop \in ChunkSet /\ stop.kind = "stop" /\ sum \in ChunkSet /\ sum.kind = "usage" /\ sum.usage = noted
      <4>1. {"stop", "usage"} \subseteq ChunkKinds
        BY DEF ChunkKinds
      <4> QED BY ZenonT(40), <1>0, <4>1, PlainChunk, ChunkTyped
    <3> HIDE DEF stop, sum
    <3>2. told \in Seq(ChunkSet) /\ told = chunks \o <<stop>> /\ told \o <<>> = told /\ told \o <<sum>> = Append(told, sum)
      BY <1>0, <3>1
    <3>3. chunks' = IF request.usage THEN Append(told, sum) ELSE told
      BY <2>1, <2>4, <3>2 DEF stop, sum
    <3> HIDE DEF told
    <3>11. \A kind : Count(kind) = CountIn(chunks, kind)
      BY DEF Count, CountIn
    <3>4. /\ \A n \in DOMAIN told : n \in DOMAIN chunks \/ told[n] = stop
          /\ \A n \in DOMAIN chunks : told[n] = chunks[n]
          /\ \A kind : Count(kind) \in Nat /\ CountIn(told, kind) = Count(kind) + (IF stop.kind = kind THEN 1 ELSE 0)
      BY <1>0, <3>1, <3>11, CountedIn DEF told
    <3>5. /\ \A n \in DOMAIN Append(told, sum) : n \in DOMAIN told \/ Append(told, sum)[n] = sum
          /\ \A n \in DOMAIN told : Append(told, sum)[n] = told[n]
          /\ \A kind : CountIn(Append(told, sum), kind) = CountIn(told, kind) + (IF sum.kind = kind THEN 1 ELSE 0)
          /\ Append(told, sum) \in Seq(ChunkSet)
      <4>1. told \in Seq(ChunkSet) /\ sum \in ChunkSet
        BY <3>1, <3>2
      <4> QED BY <4>1, CountedIn
    <3>6. \A kind : Count(kind)' = CountIn(chunks', kind)
      BY DEF Count, CountIn
    <3>7. Count("stop")' = Count("stop") + 1 /\ Count("error")' = Count("error") /\ Count("[DONE]")' = Count("[DONE]")
      BY <3>1, <3>3, <3>4, <3>5, <3>6
    <3>8. \A n \in DOMAIN chunks' : chunks'[n].kind = "usage" => chunks'[n].usage = noted
      <4>1. \A n \in DOMAIN told : told[n].kind # "usage"
        BY <1>0, <2>1, <3>1, <3>4 DEF UsageIsLast
      <4> QED BY <3>1, <3>3, <3>5, <4>1
    <3>9. chunks' \in Seq(ChunkSet)
      BY <3>2, <3>3, <3>5
    <3>10. Count("stop")' = 1 /\ Count("error")' = 0 /\ Count("[DONE]")' = 0
      BY <1>0, <2>1, <2>4, <3>7 DEF StreamIsOpen, StreamTells
    <3> QED BY <1>0, <2>1, <2>2, <2>3, <3>8, <3>9, <3>10
         DEF ChatIInv, ChatTyped, UsageIsLast, StreamIsOpen, StreamIsClosed, StreamTells
  <2>5. CASE ~request.stream
    <3>1. chunks' = chunks /\ request' = request
      BY <2>1, <2>5
    <3> QED BY <1>0, <2>1, <2>2, <2>3, <2>5, <3>1 DEF ChatIInv, ChatTyped, UsageIsLast, StreamIsOpen, StreamIsClosed
  <2> QED BY <2>4, <2>5
<1>6. CASE RunError
  <2>1. /\ http = "running" /\ agentRun.ended = "no" /\ agentRun' = [agentRun EXCEPT !.ended = "error"]
        /\ UNCHANGED <<request, noted>>
        /\ IF request.stream THEN Sends(Chunk("error")) /\ UNCHANGED <<http, response>>
           ELSE /\ http' = "answered" /\ response' = [status |-> 500, usage |-> 0] /\ UNCHANGED chunks
    BY <1>6 DEF RunError
  <2>2. agentRun' \in RunStates /\ agentRun'.ended = "error" /\ agentRun'.used = agentRun.used
    BY <1>0, <2>1 DEF RunStates
  <2>3. response.status = 0
    BY <1>0, <2>1
  <2>4. CASE request.stream
    <3> DEFINE c == Chunk("error")
    <3>1. c \in ChunkSet /\ c.kind = "error"
      <4>1. "error" \in ChunkKinds /\ 0 \in Nat
        BY DEF ChunkKinds
      <4> QED BY <4>1, PlainChunk
    <3>2. chunks' = Append(chunks, c) /\ UNCHANGED <<http, response>>
      BY <2>1, <2>4 DEF Sends
    <3> HIDE DEF c
    <3>3. /\ chunks' \in Seq(ChunkSet) /\ \A n \in DOMAIN chunks' : n \in DOMAIN chunks \/ chunks'[n] = c
          /\ \A n \in DOMAIN chunks : chunks'[n] = chunks[n]
          /\ \A kind : Count(kind) \in Nat /\ Count(kind)' = Count(kind) + (IF c.kind = kind THEN 1 ELSE 0)
      BY <1>0, <3>1, <3>2, ChunkSent
    <3>4. \A n \in DOMAIN chunks' : chunks'[n].kind # "usage"
      BY <1>0, <2>1, <3>1, <3>3 DEF UsageIsLast
    <3>5. Count("stop")' = 0 /\ Count("error")' = 1 /\ Count("[DONE]")' = 0
      BY <1>0, <2>1, <2>4, <3>1, <3>3 DEF StreamIsOpen, StreamTells
    <3> QED BY <1>0, <2>1, <2>2, <2>3, <3>2, <3>3, <3>4, <3>5
         DEF ChatIInv, ChatTyped, UsageIsLast, StreamIsOpen, StreamIsClosed, StreamTells
  <2>5. CASE ~request.stream
    <3>1. chunks' = chunks /\ request' = request /\ http' = "answered" /\ response' = [status |-> 500, usage |-> 0]
      BY <2>1, <2>5
    <3>2. response' \in Responses /\ response'.status = 500
      BY <3>1 DEF Responses
    <3> QED BY <1>0, <2>1, <2>2, <2>5, <3>1, <3>2
         DEF ChatIInv, ChatTyped, HttpStates, UsageIsLast, StreamIsOpen, StreamIsClosed
  <2> QED BY <2>4, <2>5
<1>7. CASE RunCancelled
  <2>1. /\ http = "running" /\ agentRun.ended = "no" /\ agentRun' = [agentRun EXCEPT !.ended = "cancelled"]
        /\ UNCHANGED <<request, http, noted, chunks, response>>
    BY <1>7 DEF RunCancelled
  <2>2. agentRun' \in RunStates /\ agentRun'.ended = "cancelled" /\ agentRun'.used = agentRun.used
    BY <1>0, <2>1 DEF RunStates
  <2>3. \A kind : Count(kind)' = Count(kind)
    BY <2>1 DEF Count
  <2> QED BY <1>0, <2>1, <2>2, <2>3 DEF ChatIInv, ChatTyped, UsageIsLast, StreamIsOpen, StreamIsClosed, StreamTells
<1>8. CASE RunRaises
  <2>1. /\ http = "running" /\ http' = "broken" /\ UNCHANGED <<request, agentRun, noted, chunks, response>>
    BY <1>8 DEF RunRaises
  <2> QED BY <1>0, <2>1 DEF ChatIInv, ChatTyped, HttpStates, UsageIsLast, StreamIsOpen, StreamIsClosed
<1>9. CASE EventsEnd
  <2>1. /\ http = "running" /\ agentRun.ended # "no" /\ http' = "answered" /\ Sends(Chunk("[DONE]"))
        /\ response' = IF request.stream THEN response ELSE [status |-> 200, usage |-> noted]
        /\ UNCHANGED <<request, agentRun, noted>>
    BY <1>9 DEF EventsEnd
  <2>2. response.status = 0
    BY <1>0, <2>1
  <2>4. CASE request.stream
    <3> DEFINE c == Chunk("[DONE]")
    <3>1. c \in ChunkSet /\ c.kind = "[DONE]"
      <4>1. "[DONE]" \in ChunkKinds /\ 0 \in Nat
        BY DEF ChunkKinds
      <4> QED BY <4>1, PlainChunk
    <3>2. chunks' = Append(chunks, c) /\ response' = response
      BY <2>1, <2>4 DEF Sends
    <3> HIDE DEF c
    <3>3. /\ chunks' \in Seq(ChunkSet) /\ \A n \in DOMAIN chunks' : n \in DOMAIN chunks \/ chunks'[n] = c
          /\ \A n \in DOMAIN chunks : chunks'[n] = chunks[n]
          /\ \A kind : Count(kind) \in Nat /\ Count(kind)' = Count(kind) + (IF c.kind = kind THEN 1 ELSE 0)
      BY <1>0, <3>1, <3>2, ChunkSent
    <3>6. chunks' # <<>> /\ chunks'[Len(chunks')].kind = "[DONE]"
      BY <1>0, <3>1, <3>2, ChunkSent
    <3>4. \A n \in DOMAIN chunks' : chunks'[n].kind = "usage" => chunks'[n].usage = agentRun.used
      BY <1>0, <3>1, <3>3 DEF UsageIsLast
    <3>5. Count("stop")' = Count("stop") /\ Count("error")' = Count("error") /\ Count("[DONE]")' = 1
      BY <1>0, <2>1, <2>4, <3>1, <3>3 DEF StreamIsOpen
    <3> QED BY <1>0, <2>1, <2>2, <2>4, <3>2, <3>3, <3>4, <3>5, <3>6
         DEF ChatIInv, ChatTyped, HttpStates, UsageIsLast, StreamIsOpen, StreamIsClosed, StreamTells
  <2>5. CASE ~request.stream
    <3>1. chunks' = chunks /\ request' = request /\ http' = "answered" /\ response' = [status |-> 200, usage |-> noted]
      BY <2>1, <2>5 DEF Sends
    <3>2. response' \in Responses /\ response'.status = 200 /\ response'.usage = noted
      BY <1>0, <3>1 DEF Responses
    <3> QED BY <1>0, <2>1, <2>5, <3>1, <3>2
         DEF ChatIInv, ChatTyped, HttpStates, UsageIsLast, StreamIsOpen, StreamIsClosed
  <2> QED BY <2>4, <2>5
<1>10. CASE UNCHANGED chatVars
  <2>1. /\ UNCHANGED <<request, http, agentRun, noted, chunks, response>>
        /\ \A kind : Count(kind)' = Count(kind) /\ FlawOf(request)' = FlawOf(request)
    BY <1>10 DEF chatVars, Count, FlawOf
  <2> QED BY <1>0, <2>1 DEF ChatIInv, ChatTyped, HttpStates, UsageIsLast, StreamIsOpen, StreamIsClosed, StreamTells
<1> QED BY <1>1, <1>2, <1>3, <1>4, <1>5, <1>6, <1>7, <1>8, <1>9, <1>10 DEF ChatNext

LEMMA ChatImplies == ChatIInv => ChatTypeOK /\ AnswerAgrees
BY DEF ChatIInv, ChatTyped, HttpStates, RunStates, Responses, ChatTypeOK, UsageIsLast, StreamIsClosed, StreamTells, AnswerAgrees

(* What POST /v1/chat/completions tells a client agrees with the run: a    *)
(* finished stream ends with [DONE] and at most one reason, and a failed   *)
(* run never looks like a success.                                         *)
THEOREM ToldAgrees == ChatSpec => [](ChatTypeOK /\ AnswerAgrees)
<1> QED BY ChatInitHolds, ChatStepHolds, ChatImplies, PTL DEF ChatSpec

--------------------------------------------------------------------------------
(* Dispatcher: agents that call each other, in circles too.  The session   *)
(* slot of an agent is that of its live run, and request() keeps           *)
(* CallPromise.  The invariant says what an inbox may hold and which calls *)
(* can still be waited for.                                                *)

(* A call that nobody made has no run.                                     *)
Fresh == \A q \in Calls : call[q] = "new" => run[q] = "none"

(* An inbox holds queued requests to its own agent, each once.             *)
InboxQueued ==
  \A c \in Consumers : \A i \in DOMAIN inbox[c] :
    /\ run[inbox[c][i]] = "queued"
    /\ Callee[inbox[c][i]] = Serves[c] /\ ~Direct(inbox[c][i])

InboxOnce ==
  \A c \in Consumers : \A i, j \in DOMAIN inbox[c] : inbox[c][i] = inbox[c][j] => i = j

(* The host waits for its call while it is not begun.                      *)
HostWaits ==
  \A q \in Calls : Direct(q) /\ run[q] \in {"admission", "starting"} => call[q] = "waiting"

(* A run waits for one call at a time.                                     *)
OneRequest ==
  \A p, q \in Calls :
    Caller[p] = Caller[q] /\ ~Direct(p) /\ call[p] = "waiting" /\ call[q] = "waiting" => p = q

IInv ==
  /\ TypeOK /\ GateOfLiveRun
  /\ Fresh /\ InboxQueued /\ InboxOnce /\ HostWaits /\ OneRequest

--------------------------------------------------------------------------------
LEMMA InitIInv == Init => IInv
<1> SUFFICES ASSUME Init PROVE IInv
  OBVIOUS
<1>1. TypeOK
  BY ConsumersAssumption, BoundAssumption DEF Init, TypeOK, Runs
<1>2. GateOfLiveRun /\ Fresh /\ HostWaits /\ OneRequest
  BY CallsAssumption DEF Init, GateOfLiveRun, Fresh, HostWaits, OneRequest, Active
<1>3. InboxQueued /\ InboxOnce
  BY DEF Init, InboxQueued, InboxOnce
<1> QED BY <1>1, <1>2, <1>3 DEF IInv

(* Two consumers never hold the same call in their inboxes.                *)
LEMMA InboxesApart ==
  ASSUME IInv, NEW c \in Consumers, NEW d \in Consumers,
         NEW i \in DOMAIN inbox[c], NEW j \in DOMAIN inbox[d], inbox[c][i] = inbox[d][j]
  PROVE  c = d /\ i = j
BY ConsumersAssumption DEF IInv, InboxQueued, InboxOnce

--------------------------------------------------------------------------------
(* The steps that leave the inboxes alone, and change the runs of calls    *)
(* that are in none of them.                                               *)
LEMMA InboxKept ==
  ASSUME IInv, UNCHANGED inbox,
         \A q \in Calls : run[q] = "queued" => run'[q] = "queued"
  PROVE  InboxQueued' /\ InboxOnce'
<1>1. \A c \in Consumers : \A i \in DOMAIN inbox[c] : inbox[c][i] \in Calls
  BY DEF IInv, TypeOK
<1> QED BY <1>1 DEF IInv, InboxQueued, InboxOnce

LEMMA SubscribeIInv ==
  ASSUME IInv, NEW c \in Consumers, Subscribe(c)
  PROVE  IInv'
<1> USE DEF Subscribe
<1>1. TypeOK'
  BY DEF IInv, TypeOK
<1>2. GateOfLiveRun' /\ Fresh' /\ HostWaits' /\ OneRequest'
  BY DEF IInv, GateOfLiveRun, Fresh, HostWaits, OneRequest
<1>3. InboxQueued' /\ InboxOnce'
  BY InboxKept
<1> QED BY <1>1, <1>2, <1>3 DEF IInv

LEMMA HostCallIInv ==
  ASSUME IInv, NEW q \in Calls, HostCall(q)
  PROVE  IInv'
<1> USE DEF HostCall
<1>1. TypeOK'
  BY DEF IInv, TypeOK, Runs
<1>2. GateOfLiveRun' /\ Fresh' /\ HostWaits' /\ OneRequest'
  BY DEF IInv, TypeOK, GateOfLiveRun, Fresh, HostWaits, OneRequest, Active, Direct
<1>3. InboxQueued' /\ InboxOnce'
  BY InboxKept DEF IInv, TypeOK, Fresh
<1> QED BY <1>1, <1>2, <1>3 DEF IInv

LEMMA RequestIInv ==
  ASSUME IInv, NEW q \in Calls, Request(q)
  PROVE  IInv'
<1> USE DEF Request
<1>0. TypeOK /\ run[q] = "none" /\ run'[q] \in {"lost", "queued"}
  BY DEF IInv, TypeOK, Fresh
<1>1. TypeOK'
  <2>1. \A c \in Consumers : inbox'[c] \in Seq(Calls)
    BY <1>0 DEF TypeOK
  <2> QED BY <1>0, <2>1 DEF TypeOK, Runs
<1>2. GateOfLiveRun' /\ Fresh' /\ HostWaits'
  BY <1>0 DEF IInv, TypeOK, GateOfLiveRun, Fresh, HostWaits, Active
<1>3. OneRequest'
  BY <1>0 DEF IInv, TypeOK, OneRequest, Direct, Calling
<1>4. ASSUME NEW c \in Consumers
      PROVE  /\ inbox[c] \in Seq(Calls)
             /\ \A i \in DOMAIN inbox[c] :
                  inbox[c][i] # q /\ run'[inbox[c][i]] = "queued"
             /\ \/ inbox'[c] = inbox[c]
                \/ inbox'[c] = Append(inbox[c], q) /\ run'[q] = "queued" /\ Callee[q] = Serves[c]
  BY <1>0, CallsAssumption DEF IInv, TypeOK, InboxQueued, Subscribers
<1>5. InboxQueued'
  <2> SUFFICES ASSUME NEW c \in Consumers, NEW i \in DOMAIN inbox'[c]
               PROVE  /\ run'[inbox'[c][i]] = "queued"
                      /\ Callee[inbox'[c][i]] = Serves[c] /\ ~Direct(inbox'[c][i])
    BY DEF InboxQueued, Direct
  <2>1. CASE inbox'[c] = inbox[c]
    <3>1. i \in DOMAIN inbox[c] /\ inbox'[c][i] = inbox[c][i]
      BY <2>1
    <3> QED BY <3>1, <1>4 DEF IInv, InboxQueued
  <2>2. CASE inbox'[c] = Append(inbox[c], q) /\ run'[q] = "queued" /\ Callee[q] = Serves[c]
    <3>1. (i \in DOMAIN inbox[c] /\ inbox'[c][i] = inbox[c][i]) \/ inbox'[c][i] = q
      BY <1>4, <2>2
    <3> QED BY <3>1, <1>4, <2>2 DEF IInv, InboxQueued
  <2> QED BY <1>4, <2>1, <2>2
<1>6. InboxOnce'
  BY <1>4 DEF IInv, InboxOnce
<1> QED BY <1>1, <1>2, <1>3, <1>5, <1>6 DEF IInv

(* The call that is taken is in no inbox any more.                         *)
LEMMA TakeIInv ==
  ASSUME IInv, NEW c \in Consumers, Take(c)
  PROVE  IInv'
<1> USE DEF Take
<1> DEFINE q == Head(inbox[c])
<1>0. TypeOK /\ inbox[c] \in Seq(Calls) /\ inbox[c] # <<>> /\ q \in Calls /\ q = inbox[c][1]
  BY DEF IInv, TypeOK
<1>1. run[q] = "queued" /\ call[q] # "new"
  BY <1>0 DEF IInv, InboxQueued, Fresh
<1>2. TypeOK'
  <2>1. inbox' \in [Consumers -> Seq(Calls)]
    BY <1>0 DEF TypeOK
  <2> QED BY <1>0, <2>1, CallsAssumption DEF TypeOK, Runs
<1>3. GateOfLiveRun' /\ Fresh' /\ OneRequest'
  BY <1>0, <1>1 DEF IInv, TypeOK, GateOfLiveRun, Fresh, OneRequest, Active
<1>4. HostWaits'
  BY <1>0 DEF IInv, TypeOK, HostWaits, InboxQueued
<1>5. ASSUME NEW d \in Consumers, NEW i \in DOMAIN inbox'[d]
      PROVE  \E j \in DOMAIN inbox[d] :
               /\ inbox'[d][i] = inbox[d][j] /\ inbox[d][j] # q
               /\ j = IF d = c THEN i + 1 ELSE i
  <2>1. inbox[d] \in Seq(Calls)
    BY <1>0 DEF TypeOK
  <2>2. 1 \in DOMAIN inbox[c]
    BY <1>0
  <2>3. CASE d = c
    <3>1. i + 1 \in DOMAIN inbox[c] /\ inbox'[c][i] = inbox[c][i + 1] /\ i + 1 # 1 /\ i \in Nat
      BY <1>0, <1>5, <2>3 DEF TypeOK
    <3> QED BY <1>0, <2>2, <2>3, <3>1 DEF IInv, InboxOnce
  <2>4. CASE d # c
    BY <1>0, <1>5, <2>2, <2>4, InboxesApart DEF TypeOK
  <2> QED BY <2>3, <2>4
<1>6. InboxQueued'
  <2> SUFFICES ASSUME NEW d \in Consumers, NEW i \in DOMAIN inbox'[d]
               PROVE  /\ run'[inbox'[d][i]] = "queued"
                      /\ Callee[inbox'[d][i]] = Serves[d] /\ ~Direct(inbox'[d][i])
    BY DEF InboxQueued, Direct
  <2>1. PICK j \in DOMAIN inbox[d] : inbox'[d][i] = inbox[d][j] /\ inbox[d][j] # q
    BY <1>5
  <2> QED BY <1>0, <2>1 DEF IInv, TypeOK, InboxQueued
<1>7. InboxOnce'
  <2> SUFFICES ASSUME NEW d \in Consumers, NEW i \in DOMAIN inbox'[d], NEW j \in DOMAIN inbox'[d],
                      inbox'[d][i] = inbox'[d][j]
               PROVE  i = j
    BY DEF InboxOnce
  <2>1. i \in Nat /\ j \in Nat
    BY <1>2 DEF TypeOK
  <2> QED BY <1>5, <2>1 DEF IInv, InboxOnce
<1> QED BY <1>2, <1>3, <1>4, <1>6, <1>7 DEF IInv

--------------------------------------------------------------------------------
(* The steps of a run.                                                     *)

(* What a run's end leaves of the slots: those of other runs.              *)
LEMMA FreedGate ==
  ASSUME IInv, NEW q, FreeGate(q)
  PROVE  /\ gate' \in [Agents -> Calls \cup {None}]
         /\ \A o \in Agents, p \in Calls : gate'[o] = p <=> gate[o] = p /\ p # q
BY CallsAssumption DEF IInv, TypeOK, FreeGate

LEMMA ResumedConsumers ==
  ASSUME TypeOK, NEW q \in Calls, Resume(q)
  PROVE  /\ consumer' \in [Consumers -> {"created", "waiting", "busy", "ended"}]
         /\ current' \in [Consumers -> Calls \cup {None}]
         /\ \A c \in Consumers : consumer'[c] = "busy" <=> current'[c] # None
BY DEF TypeOK, Resume

LEMMA AdmitIInv ==
  ASSUME IInv, NEW q \in Calls, Admit(q)
  PROVE  IInv'
<1> USE DEF Admit
<1>1. TypeOK'
  BY DEF IInv, TypeOK, Runs
<1>2. GateOfLiveRun' /\ Fresh' /\ HostWaits' /\ OneRequest'
  BY CallsAssumption
     DEF IInv, TypeOK, GateOfLiveRun, Fresh, HostWaits, OneRequest, Active, Direct
<1>3. InboxQueued' /\ InboxOnce'
  BY InboxKept DEF IInv, TypeOK
<1> QED BY <1>1, <1>2, <1>3 DEF IInv

LEMMA BeginIInv ==
  ASSUME IInv, NEW q \in Calls, Begin(q)
  PROVE  IInv'
<1> USE DEF Begin
<1>1. TypeOK'
  BY DEF IInv, TypeOK, Runs
<1>2. GateOfLiveRun' /\ Fresh' /\ HostWaits' /\ OneRequest'
  BY DEF IInv, TypeOK, GateOfLiveRun, Fresh, HostWaits, OneRequest, Active, Direct
<1>3. InboxQueued' /\ InboxOnce'
  BY InboxKept DEF IInv, TypeOK
<1> QED BY <1>1, <1>2, <1>3 DEF IInv

LEMMA FinishIInv ==
  ASSUME IInv, NEW q \in Calls, Finish(q)
  PROVE  IInv'
<1> USE DEF Finish
<1>0. PICK o \in {"done", "error", "raised"} : run' = [run EXCEPT ![q] = o]
  BY DEF Finish
<1>1. TypeOK'
  BY <1>0, FreedGate, ResumedConsumers DEF IInv, TypeOK, Runs, Ended
<1>2. GateOfLiveRun'
  BY <1>0, FreedGate DEF IInv, TypeOK, GateOfLiveRun, Active
<1>3. Fresh' /\ HostWaits' /\ OneRequest'
  BY <1>0 DEF IInv, TypeOK, Fresh, HostWaits, OneRequest, Active, Direct
<1>4. InboxQueued' /\ InboxOnce'
  BY <1>0, InboxKept DEF IInv, TypeOK, Active
<1> QED BY <1>1, <1>2, <1>3, <1>4 DEF IInv

(* A call is answered or fails, and its run stays as it is.                *)
LEMMA AnsweredIInv ==
  ASSUME IInv, NEW q \in Calls, Reply(q) \/ Timeout(q)
  PROVE  IInv'
<1> USE DEF Reply, Timeout, ReplyType
<1>1. TypeOK'
  BY DEF IInv, TypeOK
<1>2. GateOfLiveRun' /\ Fresh'
  BY DEF IInv, TypeOK, GateOfLiveRun, Fresh
<1>3. HostWaits'
  BY DEF IInv, TypeOK, HostWaits, Direct, Ended
<1>4. OneRequest'
  BY DEF IInv, TypeOK, OneRequest, Direct
<1>5. InboxQueued' /\ InboxOnce'
  BY InboxKept
<1> QED BY <1>1, <1>2, <1>3, <1>4, <1>5 DEF IInv

LEMMA InterruptRunIInv ==
  ASSUME IInv, NEW q \in Calls, InterruptRun(q)
  PROVE  IInv'
<1> USE DEF InterruptRun
<1>0. call' \in [Calls -> {"new", "waiting", "answered", "failed"}]
  BY DEF IInv, TypeOK, GiveUp
<1>1. TypeOK'
  BY <1>0, FreedGate, ResumedConsumers DEF IInv, TypeOK, Runs, Ended
<1>2. GateOfLiveRun'
  BY FreedGate DEF IInv, TypeOK, GateOfLiveRun, Active
<1>3. Fresh' /\ HostWaits' /\ OneRequest'
  BY CallsAssumption
     DEF IInv, TypeOK, Fresh, HostWaits, OneRequest, Active, Direct, GiveUp
<1>4. InboxQueued' /\ InboxOnce'
  BY InboxKept DEF IInv, TypeOK
<1> QED BY <1>1, <1>2, <1>3, <1>4 DEF IInv

LEMMA InterruptHostIInv ==
  ASSUME IInv, NEW q \in Calls, InterruptHost(q)
  PROVE  IInv'
<1> USE DEF InterruptHost
<1>1. TypeOK'
  BY FreedGate DEF IInv, TypeOK, Runs
<1>2. GateOfLiveRun'
  BY FreedGate DEF IInv, TypeOK, GateOfLiveRun, Active
<1>3. Fresh' /\ HostWaits' /\ OneRequest'
  BY DEF IInv, TypeOK, Fresh, HostWaits, OneRequest, Direct
<1>4. InboxQueued' /\ InboxOnce'
  BY InboxKept DEF IInv, TypeOK
<1> QED BY <1>1, <1>2, <1>3, <1>4 DEF IInv

--------------------------------------------------------------------------------
(* The end of a consumer drops its inbox; no other holds the dropped runs. *)
LEMMA UnsubscribeEffect ==
  ASSUME IInv, NEW c \in Consumers, NEW q, Unsubscribe(c, q),
         q \in Calls => run[q] # "queued"
  PROVE  /\ run' \in [Calls -> Runs] /\ inbox' \in [Consumers -> Seq(Calls)]
         /\ consumer' \in [Consumers -> {"created", "waiting", "busy", "ended"}]
         /\ current' \in [Consumers -> Calls \cup {None}]
         /\ \A d \in Consumers : consumer'[d] = "busy" <=> current'[d] # None
         /\ \A p \in Calls : /\ p # q /\ run[p] # "queued" => run'[p] = run[p]
                             /\ run'[p] # run[p] => run'[p] \in {"lost", "aborted"}
                             /\ p = q => run'[p] \in {"lost", "aborted"}
                             /\ run[p] # "running" => run'[p] # "aborted" \/ run[p] = "aborted"
                             /\ run'[p] = "lost" => run[p] # "running"
         /\ InboxQueued' /\ InboxOnce'
<1> USE DEF Unsubscribe
<1>0. TypeOK
  BY DEF IInv
<1>1. /\ run' \in [Calls -> Runs]
      /\ consumer' \in [Consumers -> {"created", "waiting", "busy", "ended"}]
      /\ current' \in [Consumers -> Calls \cup {None}]
      /\ \A d \in Consumers : consumer'[d] = "busy" <=> current'[d] # None
  BY <1>0 DEF TypeOK, Runs
<1>2. \A d \in Consumers : /\ d # c => inbox'[d] = inbox[d]
                           /\ inbox'[c] = <<>> /\ inbox[d] \in Seq(Calls)
  BY <1>0 DEF TypeOK
<1>3. inbox' \in [Consumers -> Seq(Calls)]
  BY <1>0 DEF TypeOK
<1>4. \A p \in ToSet(inbox[c]) : run[p] = "queued"
  BY DEF IInv, InboxQueued, ToSet
<1>5. \A p \in Calls : /\ p # q /\ run[p] # "queued" => run'[p] = run[p]
                       /\ run'[p] # run[p] => run'[p] \in {"lost", "aborted"}
                       /\ p = q => run'[p] \in {"lost", "aborted"}
                       /\ run[p] # "running" => run'[p] # "aborted" \/ run[p] = "aborted"
                       /\ run'[p] = "lost" => run[p] # "running"
  BY <1>0, <1>4 DEF TypeOK
<1>6. ASSUME NEW d \in Consumers, d # c, NEW i \in DOMAIN inbox[d]
      PROVE  inbox[d][i] # q /\ inbox[d][i] \notin ToSet(inbox[c]) /\ inbox[d][i] \in Calls
  <2>1. inbox[d][i] \in Calls /\ run[inbox[d][i]] = "queued"
    BY <1>2 DEF IInv, InboxQueued
  <2>2. \A j \in DOMAIN inbox[c] : inbox[c][j] # inbox[d][i]
    BY <1>6, InboxesApart
  <2> QED BY <2>1, <2>2 DEF ToSet
<1>7. InboxQueued'
  <2> SUFFICES ASSUME NEW d \in Consumers, NEW i \in DOMAIN inbox'[d]
               PROVE  /\ run'[inbox'[d][i]] = "queued"
                      /\ Callee[inbox'[d][i]] = Serves[d] /\ ~Direct(inbox'[d][i])
    BY DEF InboxQueued, Direct
  <2>1. d # c /\ inbox'[d] = inbox[d]
    BY <1>2
  <2> QED BY <1>6, <2>1 DEF IInv, InboxQueued
<1>8. InboxOnce'
  <2> SUFFICES ASSUME NEW d \in Consumers, NEW i \in DOMAIN inbox'[d], NEW j \in DOMAIN inbox'[d],
                      inbox'[d][i] = inbox'[d][j]
               PROVE  i = j
    BY DEF InboxOnce
  <2>1. inbox'[d] = inbox[d]
    BY <1>2
  <2> QED BY <2>1 DEF IInv, InboxOnce
<1> QED BY <1>1, <1>3, <1>5, <1>7, <1>8

LEMMA InterruptConsumerIInv ==
  ASSUME IInv, NEW c \in Consumers, InterruptConsumer(c)
  PROVE  IInv'
<1> USE DEF InterruptConsumer
<1> DEFINE q == current[c]
<1>0. TypeOK /\ q \in Calls \cup {None}
  BY DEF IInv, TypeOK
<1>1. q \in Calls => run[q] \in {"admission", "starting", "running"}
  BY <1>0, CallsAssumption DEF TypeOK
<1>2. /\ gate' \in [Agents -> Calls \cup {None}]
      /\ \A o \in Agents, p \in Calls : gate'[o] = p <=> gate[o] = p /\ p # q
  BY <1>0, CallsAssumption DEF TypeOK
<1>3. TypeOK'
  BY <1>0, <1>1, <1>2, UnsubscribeEffect DEF TypeOK
<1>4. \A p \in Calls : /\ p # q /\ run[p] # "queued" => run'[p] = run[p]
                       /\ run'[p] # run[p] => run'[p] \in {"lost", "aborted"}
                       /\ p = q => run'[p] \in {"lost", "aborted"}
                       /\ run[p] # "running" => run'[p] # "aborted" \/ run[p] = "aborted"
                       /\ run'[p] = "lost" => run[p] # "running"
  BY <1>1, UnsubscribeEffect
<1>5. GateOfLiveRun'
  BY <1>1, <1>2, <1>4 DEF IInv, GateOfLiveRun, Active
<1>6. Fresh'
  BY <1>1, <1>4 DEF IInv, Fresh
<1>7. HostWaits' /\ OneRequest'
  BY <1>4 DEF IInv, HostWaits, OneRequest, Direct
<1>8. InboxQueued' /\ InboxOnce'
  BY <1>1, UnsubscribeEffect
<1> QED BY <1>3, <1>5, <1>6, <1>7, <1>8 DEF IInv

LEMMA IdleExitIInv ==
  ASSUME IInv, NEW c \in Consumers, IdleExit(c)
  PROVE  IInv'
<1> USE DEF IdleExit
<1>1. TypeOK'
  BY CallsAssumption, UnsubscribeEffect DEF IInv, TypeOK
<1>2. run' = run
  BY CallsAssumption DEF IInv, TypeOK, Unsubscribe, ToSet
<1>3. GateOfLiveRun' /\ Fresh' /\ HostWaits' /\ OneRequest'
  BY <1>2 DEF IInv, GateOfLiveRun, Fresh, HostWaits, OneRequest
<1>4. InboxQueued' /\ InboxOnce'
  BY CallsAssumption, UnsubscribeEffect
<1> QED BY <1>1, <1>3, <1>4 DEF IInv

(* Cancellations only reach the tasks.                                     *)
LEMMA CancelIInv ==
  ASSUME IInv, CancelRun \/ \E c \in Consumers : Stop(c)
  PROVE  IInv'
<1> USE DEF CancelRun, Stop
<1>1. \A q \in Calls : Executor(q) \subseteq Calls \cup Consumers
  BY DEF Executor
<1>2. pending' \subseteq Calls \cup Consumers
  BY <1>1 DEF IInv, TypeOK
<1>3. TypeOK'
  BY <1>2, BoundAssumption DEF IInv, TypeOK
<1>4. GateOfLiveRun' /\ Fresh' /\ HostWaits' /\ OneRequest'
  BY DEF IInv, GateOfLiveRun, Fresh, HostWaits, OneRequest
<1>5. InboxQueued' /\ InboxOnce'
  BY InboxKept
<1> QED BY <1>3, <1>4, <1>5 DEF IInv

LEMMA NextIInv == IInv /\ [Next]_vars => IInv'
<1> SUFFICES ASSUME IInv, [Next]_vars PROVE IInv'
  OBVIOUS
<1>1. ASSUME NEW q \in Calls, HostCall(q) \/ Request(q) \/ CallStep(q) \/ Timeout(q)
      PROVE  IInv'
  BY <1>1, HostCallIInv, RequestIInv, AdmitIInv, BeginIInv, FinishIInv, AnsweredIInv,
     InterruptRunIInv, InterruptHostIInv DEF CallStep
<1>2. ASSUME NEW c \in Consumers, ConsumerStep(c) \/ IdleExit(c) PROVE IInv'
  BY <1>2, SubscribeIInv, TakeIInv, InterruptConsumerIInv, IdleExitIInv DEF ConsumerStep
<1>3. CASE UNCHANGED vars
  <2> USE <1>3 DEF vars, IInv
  <2>1. TypeOK'
    BY DEF TypeOK
  <2>2. GateOfLiveRun' /\ Fresh' /\ HostWaits' /\ OneRequest'
    BY DEF GateOfLiveRun, Fresh, HostWaits, OneRequest
  <2>3. InboxQueued' /\ InboxOnce'
    BY InboxKept
  <2> QED BY <2>1, <2>2, <2>3
<1> QED BY <1>1, <1>2, <1>3, CancelIInv DEF Next

(* The inductive invariant holds in every reachable state.                 *)
THEOREM Invariance == Spec => []IInv
BY InitIInv, NextIInv, PTL DEF Spec

(* However a run is cut off, its agent's session slot is free again, and   *)
(* no other run of the agent holds it meanwhile.                           *)
THEOREM GateFollowsRun == Spec => []GateOfLiveRun
<1>1. IInv => GateOfLiveRun
  BY DEF IInv
<1> QED BY <1>1, Invariance, PTL

--------------------------------------------------------------------------------
(* request() implements CallPromise.                                       *)
executedCalls == {q \in Calls : run[q] \in Ended \cup {"running", "aborted"}}

LEMMA InitPromise == Init => Promise!Init
BY DEF Init, Promise!Init, Ended

(* The steps of a run that the promise sees: it is executed when it begins *)
(* or raises in its start hooks, and otherwise nothing changes.            *)
LEMMA RunPromise ==
  ASSUME IInv, UNCHANGED call, NEW q \in Calls, call[q] # "new",
         executedCalls' = executedCalls \cup {q} \/ executedCalls' = executedCalls
  PROVE  [Promise!Next]_<<call, executedCalls>>
<1>1. executedCalls' = executedCalls \/ q \notin executedCalls
  OBVIOUS
<1> QED BY <1>1 DEF Promise!Next, Promise!Execute, executedCalls

(* What is over for the caller: nothing changes at the callee.             *)
LEMMA AnswerPromise ==
  ASSUME IInv, NEW q \in Calls, Reply(q) \/ Timeout(q)
  PROVE  Promise!Next
<1>1. CASE Timeout(q)
  <2>1. Promise!Fail(q)
    BY <1>1 DEF Timeout, Promise!Fail
  <2> QED BY <2>1 DEF Promise!Next
<1>2. CASE Reply(q)
  <2>1. Promise!Answer(q) \/ Promise!Fail(q)
    BY <1>2 DEF Reply, ReplyType, Promise!Answer, Promise!Fail
  <2> QED BY <2>1 DEF Promise!Next
<1> QED BY <1>1, <1>2

(* An interrupted run gives up the one call it waits for.                  *)
LEMMA InterruptRunPromise ==
  ASSUME IInv, NEW q \in Calls, InterruptRun(q)
  PROVE  [Promise!Next]_<<call, executedCalls>>
<1> USE DEF InterruptRun
<1>0. TypeOK
  BY DEF IInv
<1>1. executedCalls' = executedCalls
  BY <1>0 DEF TypeOK, executedCalls, Ended
<1>2. CASE ~Calling(q)
  <2>1. call' = call
    BY <1>0, <1>2 DEF TypeOK, GiveUp, Calling
  <2> QED BY <1>1, <2>1
<1>3. CASE Calling(q)
  <2>1. PICK p \in Calls : Caller[p] = q /\ call[p] = "waiting"
    BY <1>3 DEF Calling
  <2>2. \A r \in Calls : Caller[r] = q /\ call[r] = "waiting" => r = p
    BY <2>1, CallsAssumption DEF IInv, OneRequest, Direct
  <2>3. call' = [call EXCEPT ![p] = "failed"]
    BY <1>0, <2>1, <2>2 DEF TypeOK, GiveUp
  <2>4. Promise!Fail(p)
    BY <1>1, <2>1, <2>3 DEF Promise!Fail, executedCalls
  <2> QED BY <2>4 DEF Promise!Next
<1> QED BY <1>2, <1>3

(* The end of a consumer executes nothing and tells no caller.             *)
LEMMA UnsubscribePromise ==
  ASSUME IInv, NEW c \in Consumers, NEW q, Unsubscribe(c, q), UNCHANGED call,
         q \in Calls => run[q] \in {"admission", "starting", "running"}
  PROVE  UNCHANGED <<call, executedCalls>>
<1>1. \A p \in ToSet(inbox[c]) : run[p] = "queued"
  BY DEF IInv, InboxQueued, ToSet
<1> QED BY <1>1 DEF Unsubscribe, executedCalls, Ended

LEMMA StepPromise == IInv /\ [Next]_vars => [Promise!Next]_<<call, executedCalls>>
<1> SUFFICES ASSUME IInv, [Next]_vars PROVE [Promise!Next]_<<call, executedCalls>>
  OBVIOUS
<1>0. TypeOK
  BY DEF IInv
<1>1. ASSUME NEW q \in Calls, HostCall(q) \/ Request(q)
      PROVE  [Promise!Next]_<<call, executedCalls>>
  <2>1. executedCalls' = executedCalls
    BY <1>0, <1>1 DEF IInv, TypeOK, Fresh, HostCall, Request, executedCalls, Ended
  <2>2. Promise!Issue(q)
    BY <1>1, <2>1 DEF HostCall, Request, Promise!Issue, executedCalls
  <2> QED BY <2>2 DEF Promise!Next
<1>2. ASSUME NEW q \in Calls, Admit(q) \/ Begin(q) \/ Finish(q)
      PROVE  [Promise!Next]_<<call, executedCalls>>
  <2>1. call[q] # "new" /\ UNCHANGED call
    BY <1>2 DEF IInv, Fresh, Admit, Begin, Finish, Active
  <2>2. executedCalls' = executedCalls \cup {q} \/ executedCalls' = executedCalls
    BY <1>0, <1>2 DEF TypeOK, Admit, Begin, Finish, executedCalls, Ended, Active
  <2> QED BY <2>1, <2>2, RunPromise
<1>3. ASSUME NEW q \in Calls, InterruptHost(q)
      PROVE  [Promise!Next]_<<call, executedCalls>>
  <2>1. call[q] = "waiting"
    BY <1>3 DEF IInv, HostWaits, InterruptHost
  <2>2. executedCalls' = executedCalls
    BY <1>0, <1>3 DEF TypeOK, InterruptHost, executedCalls, Ended
  <2>3. Promise!Fail(q)
    BY <1>3, <2>1, <2>2 DEF InterruptHost, Promise!Fail, executedCalls
  <2> QED BY <2>3 DEF Promise!Next
<1>4. ASSUME NEW c \in Consumers, Subscribe(c) \/ Take(c) \/ Stop(c)
      PROVE  UNCHANGED <<call, executedCalls>>
  <2>1. CASE Take(c)
    <3>1. Head(inbox[c]) \in Calls /\ run[Head(inbox[c])] = "queued"
      BY <1>0, <2>1 DEF IInv, InboxQueued, TypeOK, Take
    <3> QED BY <1>0, <2>1, <3>1 DEF TypeOK, Take, executedCalls, Ended
  <2>2. CASE Subscribe(c) \/ Stop(c)
    BY <2>2 DEF Subscribe, Stop, executedCalls
  <2> QED BY <1>4, <2>1, <2>2
<1>5. ASSUME NEW c \in Consumers, InterruptConsumer(c) \/ IdleExit(c)
      PROVE  UNCHANGED <<call, executedCalls>>
  <2>1. CASE IdleExit(c)
    BY <2>1, UnsubscribePromise, CallsAssumption DEF IdleExit
  <2>2. CASE InterruptConsumer(c)
    <3>1. current[c] \in Calls => run[current[c]] \in {"admission", "starting", "running"}
      BY <1>0, <2>2, CallsAssumption DEF TypeOK, InterruptConsumer
    <3> QED BY <2>2, <3>1, UnsubscribePromise DEF InterruptConsumer
  <2> QED BY <1>5, <2>1, <2>2
<1>6. CASE CancelRun \/ UNCHANGED vars
  BY <1>6 DEF CancelRun, vars, executedCalls
<1> QED
  BY <1>1, <1>2, <1>3, <1>4, <1>5, <1>6, AnswerPromise, InterruptRunPromise
     DEF Next, CallStep, ConsumerStep, executedCalls

(* A call is executed at most once, is answered only when it was executed, *)
(* and is over once, whatever consumers are stopped, turns interrupted and *)
(* replies late: the dispatcher implements CallPromise.                    *)
THEOREM Implementation == Spec => KeepsPromise
<1>1. IInv /\ [Next]_vars => [Promise!Next]_<<call, executedCalls>>
  BY StepPromise
<1> QED
  BY InitPromise, <1>1, Invariance, PTL DEF Spec, KeepsPromise, Promise!Spec, executedCalls

--------------------------------------------------------------------------------
(* AgentEvents: what a caller is shown of a called run.                    *)

(* Only request() makes up a timeout.                                      *)
RunEvents == [kind : {"start", "step", "complete"}, success : BOOLEAN]

EventsTyped ==
  /\ EventsTypeOK
  /\ eventQueue \in [EventRequests -> Seq(RunEvents)] /\ published \in [EventRequests -> Seq(RunEvents)]

(* Of a request that was not made there is nothing anywhere.               *)
NewIsUnheard ==
  \A q \in EventRequests : requestState[q] = "new" =>
    /\ serving # q /\ \A i \in DOMAIN childInbox : childInbox[i] # q
    /\ published[q] = <<>> /\ eventQueue[q] = <<>> /\ seen[q] = <<>>

(* While a request waits, what was published is what the callback was      *)
(* shown and then what waits in the queue of events.                       *)
QueueContinues ==
  \A q \in EventRequests : requestState[q] \in {"waiting", "notifying"} =>
    LET n == Heard(seen[q], Len(seen[q])) IN
    /\ Len(published[q]) = n + Len(eventQueue[q])
    /\ \A j \in DOMAIN eventQueue[q] : eventQueue[q][j] = published[q][n + j]

EventsIInv == EventsTyped /\ NewIsUnheard /\ QueueContinues /\ EventsAreInOrder

LEMMA HeardCounts ==
  ASSUME NEW s \in Seq(ChildEvents), NEW e \in ChildEvents
  PROVE  /\ \A i \in 0..Len(s) : Heard(s, i) \in Nat
         /\ \A i \in 1..Len(s) : s[i].kind # "timeout" => Heard(s, i) >= 1
         /\ \A i \in 0..Len(s) : Heard(Append(s, e), i) = Heard(s, i)
         /\ Heard(Append(s, e), Len(s) + 1) = Heard(s, Len(s)) + (IF e.kind = "timeout" THEN 0 ELSE 1)
<1> DEFINE H(i) == {j \in 1..i : s[j].kind # "timeout"}
           n == Len(s)
           t == Append(s, e)
<1>1. n \in Nat /\ t[n + 1] = e /\ \A j \in 1..n : t[j] = s[j]
  BY AppendProperties
<1>2. ASSUME NEW i \in 0..n PROVE IsFiniteSet(H(i)) /\ Cardinality(H(i)) \in Nat /\ Heard(s, i) = Cardinality(H(i))
  <2>1. i \in Int /\ IsFiniteSet(1..i)
    BY <1>1, FS_Interval
  <2>2. IsFiniteSet(H(i))
    BY <2>1, FS_Subset
  <2> QED BY <2>2, FS_CardinalityType DEF Heard
<1>3. ASSUME NEW i \in 1..n, s[i].kind # "timeout" PROVE Heard(s, i) >= 1
  <2>1. i \in H(i) /\ i \in 0..n
    BY <1>1, <1>3
  <2>2. Cardinality(H(i)) # 0
    BY <1>2, <2>1, FS_EmptySet
  <2>3. Heard(s, i) = Cardinality(H(i)) /\ Cardinality(H(i)) \in Nat
    BY <1>2, <2>1
  <2> HIDE DEF H
  <2> QED BY <2>2, <2>3
<1>4. ASSUME NEW i \in 0..n PROVE Heard(t, i) = Heard(s, i)
  <2>1. \A j \in 1..i : t[j] = s[j]
    BY <1>1
  <2>2. {j \in 1..i : t[j].kind # "timeout"} = H(i)
    BY <2>1
  <2> QED BY <2>2 DEF Heard
<1>5. Heard(t, n + 1) = Heard(s, n) + (IF e.kind = "timeout" THEN 0 ELSE 1)
  <2>1. {j \in 1..(n + 1) : t[j].kind # "timeout"} = IF e.kind = "timeout" THEN H(n) ELSE H(n) \cup {n + 1}
    BY <1>1
  <2>2. n \in 0..n /\ n + 1 \notin H(n)
    BY <1>1
  <2>3. Cardinality(H(n) \cup {n + 1}) = Cardinality(H(n)) + 1
    BY <1>2, <2>2, FS_AddElement
  <2>4. Heard(s, n) = Cardinality(H(n)) /\ Cardinality(H(n)) \in Nat
    BY <1>2, <2>2
  <2>5. Heard(t, n + 1) = Cardinality(IF e.kind = "timeout" THEN H(n) ELSE H(n) \cup {n + 1})
    BY <2>1 DEF Heard
  <2> HIDE DEF H, t
  <2> QED BY <2>3, <2>4, <2>5
<1> QED BY <1>2, <1>3, <1>4, <1>5

(* Only the run's own request may be disturbed by what it publishes.       *)
LEMMA EventsPublished ==
  ASSUME EventsIInv, NEW q \in ChildMessages, NEW e \in RunEvents, PublishEvents(q, <<e>>),
         q \in EventRequests => requestState[q] # "new",
         UNCHANGED <<requestState, seen>>
  PROVE  /\ eventQueue' \in [EventRequests -> Seq(RunEvents)] /\ published' \in [EventRequests -> Seq(RunEvents)]
         /\ \A p \in EventRequests : requestState[p] = "new" => published'[p] = <<>> /\ eventQueue'[p] = <<>>
         /\ QueueContinues' /\ EventsAreInOrder'
<1>0. /\ eventQueue \in [EventRequests -> Seq(RunEvents)] /\ published \in [EventRequests -> Seq(RunEvents)]
      /\ seen \in [EventRequests -> Seq(ChildEvents)]
      /\ NewIsUnheard /\ QueueContinues /\ EventsAreInOrder
  BY DEF EventsIInv, EventsTyped, EventsTypeOK
<1>1. CASE q \in Broadcasts
  <2>1. UNCHANGED <<eventQueue, published, requestState, seen>>
    BY <1>1 DEF PublishEvents
  <2> QED BY <2>1, <1>0 DEF NewIsUnheard, QueueContinues, EventsAreInOrder
<1>2. CASE q \notin Broadcasts
  <2>0. q \in EventRequests
    BY <1>2 DEF ChildMessages
  <2>1. /\ published' = [published EXCEPT ![q] = @ \o <<e>>]
        /\ eventQueue' = IF Listening(q) THEN [eventQueue EXCEPT ![q] = @ \o <<e>>] ELSE eventQueue
    BY <1>2 DEF PublishEvents
  <2>2. /\ published[q] \in Seq(RunEvents) /\ eventQueue[q] \in Seq(RunEvents)
        /\ published[q] \o <<e>> = Append(published[q], e) /\ eventQueue[q] \o <<e>> = Append(eventQueue[q], e)
    BY <1>0, <2>0, AppendIsConcat
  <2>3. /\ eventQueue' \in [EventRequests -> Seq(RunEvents)] /\ published' \in [EventRequests -> Seq(RunEvents)]
        /\ published'[q] = Append(published[q], e)
        /\ Listening(q) => eventQueue'[q] = Append(eventQueue[q], e)
        /\ \A p \in EventRequests : p # q => published'[p] = published[p] /\ eventQueue'[p] = eventQueue[p]
    BY <1>0, <2>0, <2>1, <2>2
  <2>4. /\ Len(published'[q]) = Len(published[q]) + 1
        /\ published'[q][Len(published[q]) + 1] = e
        /\ \A i \in 1..Len(published[q]) : published'[q][i] = published[q][i]
    BY <2>2, <2>3, AppendProperties
  <2>5. \A p \in EventRequests : requestState[p] = "new" => published'[p] = <<>> /\ eventQueue'[p] = <<>>
    BY <1>0, <2>0, <2>3 DEF NewIsUnheard
  <2>6. EventsAreInOrder'
    <3> SUFFICES ASSUME NEW p \in EventRequests, NEW i \in DOMAIN seen[p], seen[p][i].kind # "timeout"
                 PROVE  /\ Heard(seen[p], i) <= Len(published'[p])
                        /\ seen[p][i] = published'[p][Heard(seen[p], i)]
      BY DEF EventsAreInOrder
    <3>1. Heard(seen[p], i) <= Len(published[p]) /\ seen[p][i] = published[p][Heard(seen[p], i)]
      BY <1>0 DEF EventsAreInOrder
    <3>2. Heard(seen[p], i) >= 1 /\ Heard(seen[p], i) \in Nat
      <4>1. seen[p] \in Seq(ChildEvents) /\ i \in 1..Len(seen[p]) /\ i \in 0..Len(seen[p])
        BY <1>0
      <4>2. ChildEvent("start", TRUE) \in ChildEvents
        BY DEF ChildEvent, ChildEvents
      <4> QED BY <4>1, <4>2, HeardCounts
    <3>3. CASE p = q
      <4>1. Len(published[q]) \in Nat
        BY <2>2
      <4> QED BY <2>4, <3>1, <3>2, <3>3, <4>1
    <3>4. CASE p # q
      BY <2>3, <3>1, <3>4
    <3> QED BY <3>3, <3>4
  <2>7. QueueContinues'
    <3> SUFFICES ASSUME NEW p \in EventRequests, requestState[p] \in {"waiting", "notifying"}
                 PROVE  LET n == Heard(seen[p], Len(seen[p])) IN
                        /\ Len(published'[p]) = n + Len(eventQueue'[p])
                        /\ \A j \in DOMAIN eventQueue'[p] : eventQueue'[p][j] = published'[p][n + j]
      BY DEF QueueContinues
    <3> DEFINE n == Heard(seen[p], Len(seen[p]))
    <3>1. /\ Len(published[p]) = n + Len(eventQueue[p])
          /\ \A j \in DOMAIN eventQueue[p] : eventQueue[p][j] = published[p][n + j]
      BY <1>0 DEF QueueContinues
    <3>2. n \in Nat
      <4>1. seen[p] \in Seq(ChildEvents) /\ Len(seen[p]) \in 0..Len(seen[p])
        BY <1>0
      <4>2. ChildEvent("start", TRUE) \in ChildEvents
        BY DEF ChildEvent, ChildEvents
      <4> QED BY <4>1, <4>2, HeardCounts
    <3> HIDE DEF n
    <3>3. CASE p = q
      <4>1. eventQueue'[q] = Append(eventQueue[q], e)
        BY <2>3, <3>3 DEF Listening
      <4>2. /\ Len(eventQueue'[q]) = Len(eventQueue[q]) + 1 /\ DOMAIN eventQueue'[q] = 1..(Len(eventQueue[q]) + 1)
            /\ eventQueue'[q][Len(eventQueue[q]) + 1] = e
            /\ \A j \in 1..Len(eventQueue[q]) : eventQueue'[q][j] = eventQueue[q][j]
        BY <2>2, <4>1, AppendProperties
      <4>3. Len(eventQueue[q]) \in Nat /\ DOMAIN eventQueue[q] = 1..Len(eventQueue[q])
        BY <2>2
      <4>4. ASSUME NEW j \in 1..(Len(eventQueue[q]) + 1) PROVE eventQueue'[q][j] = published'[q][n + j]
        <5>1. CASE j = Len(eventQueue[q]) + 1
          BY SMTT(40), <2>4, <3>1, <3>2, <3>3, <4>2, <4>3, <5>1
        <5>2. CASE j \in 1..Len(eventQueue[q])
          <6>1. n + j \in 1..Len(published[q])
            BY <3>1, <3>2, <3>3, <4>3, <5>2
          <6> QED BY <2>4, <3>1, <3>3, <4>2, <4>3, <5>2, <6>1
        <5> QED BY <4>3, <4>4, <5>1, <5>2
      <4>5. Len(published'[q]) = n + Len(eventQueue'[q])
        <5>1. Len(published[q]) \in Nat /\ Len(published[q]) = n + Len(eventQueue[q])
          BY <2>2, <3>1, <3>3
        <5> QED BY <2>4, <3>2, <3>3, <4>2, <4>3, <5>1
      <4> QED BY <3>3, <4>2, <4>4, <4>5 DEF n
    <3>4. CASE p # q
      BY <2>3, <3>1, <3>4 DEF n
    <3> QED BY <3>3, <3>4
  <2> QED BY <2>3, <2>5, <2>6, <2>7
<1> QED BY <1>1, <1>2

LEMMA EventsInitHolds == EventsInit => EventsIInv
<1> SUFFICES ASSUME EventsInit PROVE EventsIInv
  OBVIOUS
<1>1. EventsTyped
  <2>1. /\ eventQueue \in [EventRequests -> Seq(RunEvents)] /\ published \in [EventRequests -> Seq(RunEvents)]
        /\ eventQueue \in [EventRequests -> Seq(ChildEvents)] /\ published \in [EventRequests -> Seq(ChildEvents)]
        /\ seen \in [EventRequests -> Seq(ChildEvents)]
    BY DEF EventsInit
  <2>2. /\ replyQueue \in [EventRequests -> Seq({"reply", "error"})]
        /\ replyFuture \in [EventRequests -> {"empty", "reply", "error"}]
    BY DEF EventsInit
  <2>3. /\ requestState \in [ChildMessages -> {"new", "waiting", "notifying", "cleaning", "returned"}]
        /\ childInbox \in Seq(ChildMessages) /\ serving \in ChildMessages \cup {NoRequest}
        /\ failedStep \in BOOLEAN /\ inCallback \subseteq EventRequests
    <3>1. requestState \in [ChildMessages -> {"new", "waiting", "notifying", "cleaning", "returned"}]
      BY DEF EventsInit
    <3>2. childInbox \in Seq(ChildMessages)
      BY DEF EventsInit
    <3>3. serving \in ChildMessages \cup {NoRequest} /\ failedStep \in BOOLEAN /\ inCallback \subseteq EventRequests
      BY DEF EventsInit
    <3> QED BY <3>1, <3>2, <3>3
  <2> QED BY <2>1, <2>2, <2>3 DEF EventsTyped, EventsTypeOK
<1>2. NewIsUnheard /\ QueueContinues /\ EventsAreInOrder
  BY EventsAssumption DEF EventsInit, NewIsUnheard, QueueContinues, EventsAreInOrder, ChildMessages
<1> QED BY <1>1, <1>2 DEF EventsIInv

LEMMA EventsStepHolds == EventsIInv /\ [EventsNext]_eventVars => EventsIInv'
<1> SUFFICES ASSUME EventsIInv, [EventsNext]_eventVars PROVE EventsIInv'
  OBVIOUS
<1>0. EventsTyped /\ EventsTypeOK /\ NewIsUnheard /\ QueueContinues /\ EventsAreInOrder
  BY DEF EventsIInv, EventsTyped
<1>1. \A k \in {"start", "step", "complete"}, ok \in BOOLEAN : ChildEvent(k, ok) \in RunEvents
  BY DEF ChildEvent, RunEvents
<1>2. RunEvents \subseteq ChildEvents
  BY DEF RunEvents, ChildEvents
<1>3. ASSUME TakeMessage PROVE EventsIInv'
  <2> DEFINE q == Head(childInbox)
  <2>1. /\ q \in ChildMessages /\ Tail(childInbox) \in Seq(ChildMessages)
        /\ \E i \in DOMAIN childInbox : childInbox[i] = q
        /\ \A i \in DOMAIN Tail(childInbox) : \E j \in DOMAIN childInbox : Tail(childInbox)[i] = childInbox[j]
    <3>1. childInbox \in Seq(ChildMessages) /\ childInbox # <<>>
      BY <1>3, <1>0 DEF TakeMessage, EventsTypeOK
    <3>2. /\ DOMAIN childInbox = 1..Len(childInbox) /\ Len(childInbox) \in Nat \ {0}
          /\ q = childInbox[1] /\ Tail(childInbox) \in Seq(ChildMessages)
      BY <3>1
    <3>3. ASSUME NEW i \in DOMAIN Tail(childInbox)
          PROVE  \E j \in DOMAIN childInbox : Tail(childInbox)[i] = childInbox[j]
      <4>1. i + 1 \in DOMAIN childInbox /\ Tail(childInbox)[i] = childInbox[i + 1]
        BY <3>1, <3>2, <3>3
      <4> QED BY <4>1
    <3>4. 1 \in DOMAIN childInbox /\ childInbox[1] \in ChildMessages
      BY <3>1, <3>2
    <3> QED BY <3>2, <3>3, <3>4
  <2>2. q \in EventRequests => requestState[q] # "new"
    BY <1>0, <2>1 DEF NewIsUnheard
  <2>3. /\ serving' = q /\ childInbox' = Tail(childInbox) /\ failedStep' = FALSE
        /\ PublishEvents(q, <<ChildEvent("start", TRUE)>>)
        /\ UNCHANGED <<requestState, replyQueue, replyFuture, inCallback, seen>>
    BY <1>3 DEF TakeMessage
  <2> HIDE DEF q
  <2>4. /\ eventQueue' \in [EventRequests -> Seq(RunEvents)] /\ published' \in [EventRequests -> Seq(RunEvents)]
        /\ \A p \in EventRequests : requestState[p] = "new" => published'[p] = <<>> /\ eventQueue'[p] = <<>>
        /\ QueueContinues' /\ EventsAreInOrder'
    BY <1>1, <2>1, <2>2, <2>3, EventsPublished
  <2>5. EventsTypeOK'
    <3>1. eventQueue' \in [EventRequests -> Seq(ChildEvents)] /\ published' \in [EventRequests -> Seq(ChildEvents)]
      BY <1>2, <2>4
    <3> QED BY <1>0, <2>1, <2>3, <3>1 DEF EventsTypeOK
  <2>6. NewIsUnheard'
    BY <1>0, <2>1, <2>2, <2>3, <2>4 DEF NewIsUnheard
  <2> QED BY <2>4, <2>5, <2>6 DEF EventsIInv, EventsTyped
<1>4. ASSUME ChildStep PROVE EventsIInv'
  <2>1. PICK ok \in BOOLEAN : /\ PublishEvents(serving, <<ChildEvent("step", ok)>>)
                              /\ failedStep' = (failedStep \/ ~ok)
    BY <1>4 DEF ChildStep
  <2>2. /\ serving # NoRequest
        /\ UNCHANGED <<requestState, childInbox, serving, replyQueue, replyFuture, inCallback, seen>>
    BY <1>4 DEF ChildStep
  <2>3. serving \in ChildMessages /\ (serving \in EventRequests => requestState[serving] # "new")
    BY <1>0, <2>2 DEF EventsTypeOK, NewIsUnheard
  <2>4. /\ eventQueue' \in [EventRequests -> Seq(RunEvents)] /\ published' \in [EventRequests -> Seq(RunEvents)]
        /\ \A p \in EventRequests : requestState[p] = "new" => published'[p] = <<>> /\ eventQueue'[p] = <<>>
        /\ QueueContinues' /\ EventsAreInOrder'
    BY <1>1, <2>1, <2>2, <2>3, EventsPublished
  <2>5. EventsTypeOK'
    <3>1. eventQueue' \in [EventRequests -> Seq(ChildEvents)] /\ published' \in [EventRequests -> Seq(ChildEvents)]
      BY <1>2, <2>4
    <3> QED BY <1>0, <2>1, <2>2, <3>1 DEF EventsTypeOK
  <2>6. NewIsUnheard'
    BY <1>0, <2>2, <2>4 DEF NewIsUnheard
  <2> QED BY <2>4, <2>5, <2>6 DEF EventsIInv, EventsTyped
<1>5. ASSUME ChildEnds PROVE EventsIInv'
  <2>1. PICK o \in {"done", "silent", "raised"} :
          /\ PublishEvents(serving, <<ChildEvent("complete", o = "done" /\ ~failedStep)>>)
          /\ replyQueue' =
               IF serving \in Broadcasts \/ ~Listening(serving) THEN replyQueue
               ELSE [replyQueue EXCEPT ![serving] = Append(@, IF failedStep \/ o = "raised" THEN "error" ELSE "reply")]
    BY <1>5 DEF ChildEnds
  <2>2. /\ serving # NoRequest /\ serving' = NoRequest /\ failedStep' = FALSE
        /\ UNCHANGED <<requestState, childInbox, replyFuture, inCallback, seen>>
    BY <1>5 DEF ChildEnds
  <2>3. serving \in ChildMessages /\ (serving \in EventRequests => requestState[serving] # "new")
    BY <1>0, <2>2 DEF EventsTypeOK, NewIsUnheard
  <2>4. /\ eventQueue' \in [EventRequests -> Seq(RunEvents)] /\ published' \in [EventRequests -> Seq(RunEvents)]
        /\ \A p \in EventRequests : requestState[p] = "new" => published'[p] = <<>> /\ eventQueue'[p] = <<>>
        /\ QueueContinues' /\ EventsAreInOrder'
    BY <1>1, <2>1, <2>2, <2>3, EventsPublished
  <2>5. replyQueue' \in [EventRequests -> Seq({"reply", "error"})]
    BY <1>0, <2>1, <2>3 DEF EventsTypeOK, ChildMessages
  <2>6. EventsTypeOK'
    <3>1. eventQueue' \in [EventRequests -> Seq(ChildEvents)] /\ published' \in [EventRequests -> Seq(ChildEvents)]
      BY <1>2, <2>4
    <3> QED BY <1>0, <2>2, <2>5, <3>1 DEF EventsTypeOK
  <2>7. NewIsUnheard'
    BY <1>0, <2>2, <2>4, EventsAssumption DEF NewIsUnheard
  <2> QED BY <2>4, <2>6, <2>7 DEF EventsIInv, EventsTyped
<1>6. ASSUME NEW q \in ChildMessages, RequestSends(q) PROVE EventsIInv'
  <2>1. /\ requestState[q] = "new"
        /\ requestState' = [requestState EXCEPT ![q] = IF q \in Broadcasts THEN "returned" ELSE "waiting"]
        /\ childInbox' = Append(childInbox, q)
        /\ UNCHANGED <<serving, failedStep, eventQueue, replyQueue, replyFuture, inCallback, published, seen>>
    BY <1>6 DEF RequestSends
  <2>2. \A i \in DOMAIN childInbox' : childInbox'[i] = q \/ \E j \in DOMAIN childInbox : childInbox'[i] = childInbox[j]
    BY <1>0, <2>1 DEF EventsTypeOK
  <2>3. EventsTyped'
    BY <1>0, <2>1 DEF EventsTyped, EventsTypeOK
  <2>4. \A p \in EventRequests : requestState'[p] = "new" => requestState[p] = "new" /\ p # q
    BY <1>0, <2>1 DEF EventsTypeOK, ChildMessages
  <2>5. NewIsUnheard'
    BY <1>0, <2>1, <2>2, <2>4 DEF NewIsUnheard
  <2>6. QueueContinues'
    <3>1. CASE q \in EventRequests
      <4>1. published[q] = <<>> /\ eventQueue[q] = <<>> /\ seen[q] = <<>> /\ Heard(<<>>, 0) = 0
        <5>1. {j \in 1..0 : (<<>>)[j].kind # "timeout"} = {}
          OBVIOUS
        <5> QED BY <1>0, <2>1, <3>1, <5>1, FS_EmptySet DEF NewIsUnheard, Heard
      <4>2. \A p \in EventRequests \ {q} : requestState'[p] = requestState[p]
        BY <1>0, <2>1 DEF EventsTypeOK, ChildMessages
      <4> QED BY <1>0, <2>1, <4>1, <4>2 DEF QueueContinues
    <3>2. CASE q \notin EventRequests
      BY <1>0, <2>1, <3>2 DEF QueueContinues, EventsTypeOK, ChildMessages
    <3> QED BY <3>1, <3>2
  <2>7. EventsAreInOrder'
    BY <1>0, <2>1 DEF EventsAreInOrder
  <2> QED BY <2>3, <2>5, <2>6, <2>7 DEF EventsIInv
<1>7. ASSUME NEW q \in EventRequests, CallbackReturns(q) PROVE EventsIInv'
  <2> USE <1>7 DEF CallbackReturns
  <2>1. EventsTyped'
    BY <1>0 DEF EventsTyped, EventsTypeOK
  <2> QED BY <1>0, <2>1 DEF EventsIInv, NewIsUnheard, QueueContinues, EventsAreInOrder
<1>8. ASSUME NEW q \in EventRequests, ReplyHeard(q) PROVE EventsIInv'
  <2>1. /\ replyQueue' = [replyQueue EXCEPT ![q] = Tail(@)] /\ replyQueue[q] # <<>>
        /\ replyFuture' = [replyFuture EXCEPT ![q] = IF requestState[q] = "waiting" THEN Head(replyQueue[q]) ELSE @]
        /\ UNCHANGED <<requestState, childInbox, serving, failedStep, eventQueue, inCallback, published, seen>>
    BY <1>8 DEF ReplyHeard
  <2>2. replyQueue[q] \in Seq({"reply", "error"})
    BY <1>0 DEF EventsTypeOK
  <2>3. Head(replyQueue[q]) \in {"reply", "error"} /\ Tail(replyQueue[q]) \in Seq({"reply", "error"})
    BY <2>1, <2>2, HeadTailProperties
  <2>4. replyQueue' \in [EventRequests -> Seq({"reply", "error"})]
    BY <1>0, <2>1, <2>3 DEF EventsTypeOK
  <2>5. replyFuture' \in [EventRequests -> {"empty", "reply", "error"}]
    BY <1>0, <2>1, <2>3 DEF EventsTypeOK
  <2>6. EventsTyped'
    BY <1>0, <2>1, <2>4, <2>5 DEF EventsTyped, EventsTypeOK
  <2> QED BY <1>0, <2>1, <2>6 DEF EventsIInv, NewIsUnheard, QueueContinues, EventsAreInOrder
<1>9. ASSUME NEW q \in EventRequests, WaitEnds(q) PROVE EventsIInv'
  <2>1. /\ requestState[q] \in {"waiting", "notifying"} /\ requestState' = [requestState EXCEPT ![q] = "cleaning"]
        /\ UNCHANGED <<childInbox, serving, failedStep, eventQueue, replyQueue, replyFuture, inCallback, published, seen>>
    BY <1>9 DEF WaitEnds
  <2>2. EventsTyped'
    BY <1>0, <2>1 DEF EventsTyped, EventsTypeOK
  <2>3. \A p \in EventRequests : requestState'[p] = IF p = q THEN "cleaning" ELSE requestState[p]
    BY <1>0, <2>1 DEF EventsTypeOK, ChildMessages
  <2> QED BY <1>0, <2>1, <2>2, <2>3 DEF EventsIInv, NewIsUnheard, QueueContinues, EventsAreInOrder
<1>10. ASSUME NEW q \in EventRequests, ListenersEnd(q) PROVE EventsIInv'
  <2>1. /\ requestState[q] = "cleaning" /\ requestState' = [requestState EXCEPT ![q] = "returned"]
        /\ inCallback' = inCallback \ {q}
        /\ eventQueue' = [eventQueue EXCEPT ![q] = <<>>] /\ replyQueue' = [replyQueue EXCEPT ![q] = <<>>]
        /\ UNCHANGED <<childInbox, serving, failedStep, replyFuture, published, seen>>
    BY <1>10 DEF ListenersEnd
  <2>2. EventsTyped'
    <3>1. /\ eventQueue' \in [EventRequests -> Seq(RunEvents)] /\ eventQueue' \in [EventRequests -> Seq(ChildEvents)]
          /\ replyQueue' \in [EventRequests -> Seq({"reply", "error"})]
      BY <1>0, <2>1 DEF EventsTyped, EventsTypeOK
    <3>2. /\ requestState' \in [ChildMessages -> {"new", "waiting", "notifying", "cleaning", "returned"}]
          /\ inCallback' \subseteq EventRequests
      BY <1>0, <2>1 DEF EventsTypeOK
    <3> QED BY <1>0, <2>1, <3>1, <3>2 DEF EventsTyped, EventsTypeOK
  <2>3. \A p \in EventRequests : /\ requestState'[p] = IF p = q THEN "returned" ELSE requestState[p]
                                 /\ p # q => eventQueue'[p] = eventQueue[p]
    BY <1>0, <2>1 DEF EventsTyped, EventsTypeOK, ChildMessages
  <2> QED BY <1>0, <2>1, <2>2, <2>3 DEF EventsIInv, NewIsUnheard, QueueContinues, EventsAreInOrder
<1>11. ASSUME NEW q \in EventRequests, RequestTimesOut(q) PROVE EventsIInv'
  <2> DEFINE e == ChildEvent("timeout", FALSE)
  <2>1. /\ requestState[q] = "waiting"
        /\ requestState' = [requestState EXCEPT ![q] = IF CallbackAwaits THEN "notifying" ELSE "cleaning"]
        /\ seen' = [seen EXCEPT ![q] = Append(@, e)]
        /\ UNCHANGED <<childInbox, serving, failedStep, eventQueue, replyQueue, replyFuture, inCallback, published>>
    BY <1>11 DEF RequestTimesOut
  <2>2. e \in ChildEvents /\ e.kind = "timeout" /\ seen[q] \in Seq(ChildEvents)
    BY <1>0 DEF ChildEvent, ChildEvents, EventsTypeOK
  <2> HIDE DEF e
  <2>3. /\ seen' \in [EventRequests -> Seq(ChildEvents)] /\ seen'[q] = Append(seen[q], e)
        /\ \A p \in EventRequests : p # q => seen'[p] = seen[p] /\ requestState'[p] = requestState[p]
    BY <1>0, <2>1, <2>2 DEF EventsTypeOK, ChildMessages
  <2>4. EventsTyped'
    BY <1>0, <2>1, <2>3 DEF EventsTyped, EventsTypeOK
  <2>5. NewIsUnheard'
    <3>1. requestState'[q] # "new"
      BY <1>0, <2>1 DEF EventsTypeOK, ChildMessages
    <3> QED BY <1>0, <2>1, <2>3, <3>1 DEF NewIsUnheard
  <2>6. /\ Len(seen'[q]) = Len(seen[q]) + 1 /\ DOMAIN seen'[q] = 1..(Len(seen[q]) + 1)
        /\ Len(seen[q]) \in Nat /\ DOMAIN seen[q] = 1..Len(seen[q])
        /\ seen'[q][Len(seen[q]) + 1] = e /\ \A i \in DOMAIN seen[q] : seen'[q][i] = seen[q][i]
    BY <2>2, <2>3, AppendProperties, LenProperties
  <2>7. /\ Heard(seen'[q], Len(seen'[q])) = Heard(seen[q], Len(seen[q]))
        /\ \A i \in DOMAIN seen[q] : Heard(seen'[q], i) = Heard(seen[q], i)
    <3>1. /\ Heard(Append(seen[q], e), Len(seen[q]) + 1) = Heard(seen[q], Len(seen[q])) + 0
          /\ Heard(seen[q], Len(seen[q])) \in Nat
          /\ \A i \in 0..Len(seen[q]) : Heard(Append(seen[q], e), i) = Heard(seen[q], i)
      BY <2>2, <2>6, HeardCounts
    <3> QED BY <2>3, <2>6, <3>1
  <2>8. QueueContinues'
    BY <1>0, <2>1, <2>3, <2>7 DEF QueueContinues
  <2>9. EventsAreInOrder'
    BY <1>0, <2>1, <2>2, <2>3, <2>6, <2>7 DEF EventsAreInOrder
  <2> QED BY <2>4, <2>5, <2>8, <2>9 DEF EventsIInv
<1>12. ASSUME NEW q \in EventRequests, EventHeard(q) PROVE EventsIInv'
  <2> DEFINE e == Head(eventQueue[q])
  <2>1. /\ Listening(q) /\ eventQueue[q] # <<>> /\ eventQueue' = [eventQueue EXCEPT ![q] = Tail(@)]
        /\ IF requestState[q] = "cleaning" THEN UNCHANGED <<seen, inCallback>>
           ELSE /\ seen' = [seen EXCEPT ![q] = Append(@, e)]
                /\ inCallback' = inCallback \cup {p \in {q} : CallbackAwaits}
        /\ UNCHANGED <<requestState, childInbox, serving, failedStep, replyQueue, replyFuture, published>>
    BY <1>12 DEF EventHeard
  <2>2. eventQueue[q] \in Seq(RunEvents) /\ seen[q] \in Seq(ChildEvents)
    BY <1>0 DEF EventsTyped, EventsTypeOK
  <2>3. /\ e \in RunEvents /\ Tail(eventQueue[q]) \in Seq(RunEvents) /\ e = eventQueue[q][1]
        /\ Len(eventQueue[q]) \in Nat \ {0} /\ Len(Tail(eventQueue[q])) = Len(eventQueue[q]) - 1
        /\ DOMAIN eventQueue[q] = 1..Len(eventQueue[q]) /\ DOMAIN Tail(eventQueue[q]) = 1..(Len(eventQueue[q]) - 1)
        /\ \A j \in 1..(Len(eventQueue[q]) - 1) : Tail(eventQueue[q])[j] = eventQueue[q][j + 1]
    BY <2>1, <2>2, HeadTailProperties
  <2>4. e \in ChildEvents /\ e.kind # "timeout"
    BY <1>2, <2>3 DEF RunEvents
  <2> HIDE DEF e
  <2>5. /\ eventQueue' \in [EventRequests -> Seq(RunEvents)] /\ eventQueue'[q] = Tail(eventQueue[q])
        /\ \A p \in EventRequests : p # q => eventQueue'[p] = eventQueue[p]
    BY <1>0, <2>1, <2>3 DEF EventsTyped
  <2>6. \A p \in EventRequests : requestState[p] = "new" => p # q
    BY <2>1 DEF Listening
  <2>7. CASE requestState[q] = "cleaning"
    <3>1. UNCHANGED <<seen, inCallback>>
      BY <2>1, <2>7
    <3>2. EventsTyped'
      <4>1. eventQueue' \in [EventRequests -> Seq(ChildEvents)]
        BY <1>2, <2>5
      <4> QED BY <1>0, <2>1, <2>5, <3>1, <4>1 DEF EventsTyped, EventsTypeOK
    <3>3. NewIsUnheard' /\ QueueContinues' /\ EventsAreInOrder'
      BY <1>0, <2>1, <2>5, <2>6, <2>7, <3>1 DEF NewIsUnheard, QueueContinues, EventsAreInOrder
    <3> QED BY <3>2, <3>3 DEF EventsIInv
  <2>8. CASE requestState[q] # "cleaning"
    <3> DEFINE n == Heard(seen[q], Len(seen[q]))
    <3>1. /\ seen' = [seen EXCEPT ![q] = Append(@, e)]
          /\ inCallback' = inCallback \cup {p \in {q} : CallbackAwaits}
      BY <2>1, <2>8
    <3>2. /\ seen' \in [EventRequests -> Seq(ChildEvents)] /\ seen'[q] = Append(seen[q], e)
          /\ \A p \in EventRequests : p # q => seen'[p] = seen[p]
      BY <1>0, <2>2, <2>4, <3>1 DEF EventsTypeOK
    <3>3. EventsTyped'
      <4>1. eventQueue' \in [EventRequests -> Seq(ChildEvents)]
        BY <1>2, <2>5
      <4>2. inCallback' \subseteq EventRequests
        BY <1>0, <3>1 DEF EventsTypeOK
      <4> QED BY <1>0, <2>1, <2>5, <3>2, <4>1, <4>2 DEF EventsTyped, EventsTypeOK
    <3>4. NewIsUnheard'
      BY <1>0, <2>1, <2>5, <2>6, <3>2 DEF NewIsUnheard
    <3>5. /\ Len(seen'[q]) = Len(seen[q]) + 1 /\ DOMAIN seen'[q] = 1..(Len(seen[q]) + 1)
          /\ Len(seen[q]) \in Nat /\ DOMAIN seen[q] = 1..Len(seen[q])
          /\ seen'[q][Len(seen[q]) + 1] = e /\ \A i \in DOMAIN seen[q] : seen'[q][i] = seen[q][i]
      BY <2>2, <2>4, <3>2, AppendProperties, LenProperties
    <3>6. /\ Heard(seen'[q], Len(seen'[q])) = n + 1 /\ n \in Nat
          /\ \A i \in DOMAIN seen[q] : Heard(seen'[q], i) = Heard(seen[q], i)
      <4>1. /\ Heard(Append(seen[q], e), Len(seen[q]) + 1) = Heard(seen[q], Len(seen[q])) + 1
            /\ Heard(seen[q], Len(seen[q])) \in Nat
            /\ \A i \in 0..Len(seen[q]) : Heard(Append(seen[q], e), i) = Heard(seen[q], i)
        BY <2>2, <2>4, <3>5, HeardCounts
      <4> QED BY <3>2, <3>5, <4>1
    <3>7. requestState[q] \in {"waiting", "notifying"}
      BY <2>1, <2>8 DEF Listening
    <3>8. /\ Len(published[q]) = n + Len(eventQueue[q])
          /\ \A j \in DOMAIN eventQueue[q] : eventQueue[q][j] = published[q][n + j]
      BY <1>0, <3>7 DEF QueueContinues
    <3> HIDE DEF n
    <3>9. QueueContinues'
      <4> DEFINE m == Len(eventQueue[q])
                 waits == Tail(eventQueue[q])
      <4>1. /\ m \in Nat \ {0} /\ n \in Nat /\ DOMAIN waits = 1..(m - 1) /\ Len(waits) = m - 1
            /\ Len(published[q]) = n + m
            /\ \A j \in 1..m : eventQueue[q][j] = published[q][n + j]
            /\ \A j \in 1..(m - 1) : waits[j] = eventQueue[q][j + 1]
        BY <2>3, <3>6, <3>8
      <4> HIDE DEF m, waits
      <4>2. \A j \in DOMAIN waits : waits[j] = published[q][(n + 1) + j]
        <5> TAKE j \in DOMAIN waits
        <5>0. j \in 1..(m - 1) /\ m \in Nat /\ n \in Nat
          BY <4>1
        <5>1. j + 1 \in 1..m /\ n + (j + 1) = (n + 1) + j
          BY <5>0
        <5> QED BY <4>1, <5>1
      <4>3. Len(published[q]) = (n + 1) + Len(waits)
        BY <4>1
      <4>4. eventQueue'[q] = waits
        BY <2>5 DEF waits
      <4>5. ASSUME NEW p \in EventRequests, requestState'[p] \in {"waiting", "notifying"}
            PROVE  LET k == Heard(seen'[p], Len(seen'[p])) IN
                   /\ Len(published'[p]) = k + Len(eventQueue'[p])
                   /\ \A j \in DOMAIN eventQueue'[p] : eventQueue'[p][j] = published'[p][k + j]
        <5>1. CASE p = q
          BY <2>1, <3>6, <4>2, <4>3, <4>4, <5>1
        <5>2. CASE p # q
          BY <1>0, <2>1, <2>5, <3>2, <4>5, <5>2 DEF QueueContinues
        <5> QED BY <5>1, <5>2
      <4> QED BY <4>5 DEF QueueContinues
    <3>10. EventsAreInOrder'
      <4>1. e = published[q][n + 1] /\ n + 1 <= Len(published[q])
        <5>1. 1 \in DOMAIN eventQueue[q] /\ Len(eventQueue[q]) >= 1
          BY <2>3
        <5> QED BY <2>3, <3>6, <3>8, <5>1
      <4>2. ASSUME NEW i \in DOMAIN seen'[q], seen'[q][i].kind # "timeout"
            PROVE  /\ Heard(seen'[q], i) <= Len(published[q])
                   /\ seen'[q][i] = published[q][Heard(seen'[q], i)]
        <5>1. CASE i \in DOMAIN seen[q]
          BY <1>0, <3>5, <3>6, <4>2, <5>1 DEF EventsAreInOrder
        <5>2. CASE i = Len(seen[q]) + 1
          BY <3>5, <3>6, <4>1, <5>2
        <5> QED BY <3>5, <5>1, <5>2
      <4>3. \A p \in EventRequests \ {q} : \A i \in DOMAIN seen'[p] :
              seen'[p][i].kind # "timeout" =>
                /\ Heard(seen'[p], i) <= Len(published[p])
                /\ seen'[p][i] = published[p][Heard(seen'[p], i)]
        BY <1>0, <3>2 DEF EventsAreInOrder
      <4> QED BY <2>1, <4>2, <4>3 DEF EventsAreInOrder
    <3> QED BY <3>3, <3>4, <3>9, <3>10 DEF EventsIInv
  <2> QED BY <2>7, <2>8
<1>13. CASE UNCHANGED eventVars
  <2> USE <1>13 DEF eventVars
  <2>1. EventsTyped'
    BY <1>0 DEF EventsTyped, EventsTypeOK
  <2> QED BY <1>0, <2>1 DEF EventsIInv, NewIsUnheard, QueueContinues, EventsAreInOrder
<1> QED BY <1>3, <1>4, <1>5, <1>6, <1>7, <1>8, <1>9, <1>10, <1>11, <1>12, <1>13 DEF EventsNext

LEMMA EventsImplies == EventsIInv => EventsTypeOK /\ EventsAreInOrder
BY DEF EventsIInv, EventsTyped

(* However many agents call each other, what request() shows a caller of a *)
(* run is the beginning of what the run published, each event once and in  *)
(* order; the note of a timeout stands apart.                              *)
THEOREM EventsStayInOrder == EventsSpec => [](EventsTypeOK /\ EventsAreInOrder)
<1> QED BY EventsImplies, EventsInitHolds, EventsStepHolds, PTL DEF EventsSpec

(* QuietAfterAnswer                                                        *)
LEMMA QuietStep ==
  EventsIInv /\ [EventsNext]_eventVars =>
    [\A q \in EventRequests : requestState[q] \in {"cleaning", "returned"} => seen'[q] = seen[q]]_eventVars
<1> SUFFICES ASSUME EventsIInv, EventsNext, NEW q \in EventRequests, requestState[q] \in {"cleaning", "returned"}
             PROVE  seen'[q] = seen[q]
  OBVIOUS
<1>0. seen \in [EventRequests -> Seq(ChildEvents)]
  BY DEF EventsIInv, EventsTyped, EventsTypeOK
<1>1. CASE TakeMessage \/ ChildStep \/ ChildEnds \/ \E p \in ChildMessages : RequestSends(p)
  BY <1>1 DEF TakeMessage, ChildStep, ChildEnds, RequestSends
<1>2. ASSUME NEW p \in EventRequests, CallbackReturns(p) \/ ReplyHeard(p) \/ WaitEnds(p) \/ ListenersEnd(p)
      PROVE  seen'[q] = seen[q]
  BY <1>2 DEF CallbackReturns, ReplyHeard, WaitEnds, ListenersEnd
<1>3. ASSUME NEW p \in EventRequests, EventHeard(p) PROVE seen'[q] = seen[q]
  <2>1. CASE requestState[p] = "cleaning"
    BY <1>3, <2>1 DEF EventHeard
  <2>2. CASE requestState[p] # "cleaning"
    <3>1. p # q /\ seen' = [seen EXCEPT ![p] = Append(@, Head(eventQueue[p]))]
      BY <1>3, <2>2 DEF EventHeard, Listening
    <3> QED BY <1>0, <3>1
  <2> QED BY <2>1, <2>2
<1>4. ASSUME NEW p \in EventRequests, RequestTimesOut(p) PROVE seen'[q] = seen[q]
  <2>1. p # q /\ seen' = [seen EXCEPT ![p] = Append(@, ChildEvent("timeout", FALSE))]
    BY <1>4 DEF RequestTimesOut
  <2> QED BY <1>0, <2>1
<1> QED BY <1>1, <1>2, <1>3, <1>4 DEF EventsNext

(* Once request() has its answer, its callback is not called again: a late *)
(* event does not reach a run that has gone on.                            *)
THEOREM QuietWhenAnswered == EventsSpec => QuietAfterAnswer
<1>1. EventsSpec => []EventsIInv
  BY EventsInitHolds, EventsStepHolds, PTL DEF EventsSpec
<1> QED BY <1>1, QuietStep, PTL DEF EventsSpec, QuietAfterAnswer

--------------------------------------------------------------------------------
(* EngineLife: what the engine has closed is not served.                   *)

(* As long as the engine is open the consumer of a name is that of the     *)
(* agent loaded under it, and both carry the name.                         *)
ConsumersOfAgents ==
  closing.phase = "open" =>
    \A n \in AgentNames :
      /\ consumers[n] = agents[n]
      /\ agents[n] # 0 => named[agents[n]] = n /\ unloading[agents[n]] = "no"

(* The queues have the instances' numbers, what they hold plays no part.   *)
ClosingTyped ==
  closing \in [phase : {"open", "stopping", "agents", "done", "failed"},
               left : SUBSET AgentNames, awaits : 0..Len(named), walked : SUBSET AgentNames,
               size : {0} \cup {Cardinality(S) : S \in SUBSET AgentNames}]

TaskStates == {"created", "listening", "busy", "ended"}
UnloadStates == {"no", "waiting", "closing", "closed"}

EngineIInv == EngineTypeOK /\ ClosedIsUnserved /\ ClosingTyped /\ ConsumersOfAgents

LEMMA Numbers ==
  ASSUME EngineTypeOK
  PROVE  Len(named) \in Nat /\ Instances = 1..Len(named)
BY DEF EngineTypeOK, Instances

LEMMA EngineInitHolds == EngineInit => EngineIInv
<1> SUFFICES ASSUME EngineInit PROVE EngineIInv
  OBVIOUS
<1> USE DEF EngineInit
<1>1. EngineTypeOK
  BY DEF EngineTypeOK, Instances
<1>2. ClosedIsUnserved /\ ConsumersOfAgents
  BY DEF ClosedIsUnserved, ConsumersOfAgents, Instances
<1>3. ClosingTyped
  BY DEF ClosingTyped
<1> QED BY <1>1, <1>2, <1>3 DEF EngineIInv

LEMMA EngineStepHolds == EngineIInv /\ [EngineNext]_engineVars => EngineIInv'
<1> SUFFICES ASSUME EngineIInv, [EngineNext]_engineVars PROVE EngineIInv'
  OBVIOUS
<1> USE DEF EngineIInv
<1>0. Len(named) \in Nat /\ Instances = 1..Len(named)
  BY Numbers
<1>1. ASSUME NEW n \in AgentNames, Instantiate(n) PROVE EngineIInv'
  <2> USE <1>1 DEF Instantiate
  <2>1. Len(named') = Len(named) + 1 /\ Instances' = 1..(Len(named) + 1)
    BY <1>0 DEF EngineTypeOK, Instances
  <2>2. /\ named' \in Seq(AgentNames) /\ named'[Len(named) + 1] = n
        /\ \A i \in Instances : named'[i] = named[i]
    BY <1>0 DEF EngineTypeOK
  <2>3. /\ task' \in [Instances' -> TaskStates]
        /\ \A i \in Instances : task'[i] = task[i]
    <3>1. task \in [1..Len(named) -> TaskStates]
      BY <1>0 DEF EngineTypeOK, TaskStates
    <3> HIDE <1>1 DEF Instantiate
    <3>2. task' = Append(task, "created")
      BY <1>1 DEF Instantiate
    <3>3. "created" \in TaskStates
      BY DEF TaskStates
    <3>5. task \in Seq(TaskStates) /\ Len(task) = Len(named)
      BY <1>0, <3>1
    <3>6. Append(task, "created") \in Seq(TaskStates) /\ Len(Append(task, "created")) = Len(named) + 1
      BY <3>5, <3>3, AppendProperties
    <3>7. Append(task, "created") \in [1..Len(Append(task, "created")) -> TaskStates]
      BY <3>6, LenProperties
    <3>8. /\ Append(task, "created")[Len(task) + 1] = "created"
          /\ \A i \in 1..Len(task) : Append(task, "created")[i] = task[i]
      BY <3>5, <3>3, AppendProperties
    <3>4. /\ Append(task, "created") \in [1..(Len(named) + 1) -> TaskStates]
          /\ Append(task, "created")[Len(named) + 1] = "created"
          /\ \A i \in 1..Len(named) : Append(task, "created")[i] = task[i]
      BY <3>5, <3>6, <3>7, <3>8
    <3> QED BY <1>0, <2>1, <3>2, <3>4
  <2>4. /\ unloading' \in [Instances' -> UnloadStates]
        /\ unloading'[Len(named) + 1] = "no" /\ \A i \in Instances : unloading'[i] = unloading[i]
    <3>1. unloading \in [1..Len(named) -> UnloadStates]
      BY <1>0 DEF EngineTypeOK, UnloadStates
    <3> HIDE <1>1 DEF Instantiate
    <3>2. unloading' = Append(unloading, "no")
      BY <1>1 DEF Instantiate
    <3>3. "no" \in UnloadStates
      BY DEF UnloadStates
    <3>5. unloading \in Seq(UnloadStates) /\ Len(unloading) = Len(named)
      BY <1>0, <3>1
    <3>6. Append(unloading, "no") \in Seq(UnloadStates) /\ Len(Append(unloading, "no")) = Len(named) + 1
      BY <3>5, <3>3, AppendProperties
    <3>7. Append(unloading, "no") \in [1..Len(Append(unloading, "no")) -> UnloadStates]
      BY <3>6, LenProperties
    <3>8. /\ Append(unloading, "no")[Len(unloading) + 1] = "no"
          /\ \A i \in 1..Len(unloading) : Append(unloading, "no")[i] = unloading[i]
      BY <3>5, <3>3, AppendProperties
    <3>4. /\ Append(unloading, "no") \in [1..(Len(named) + 1) -> UnloadStates]
          /\ Append(unloading, "no")[Len(named) + 1] = "no"
          /\ \A i \in 1..Len(named) : Append(unloading, "no")[i] = unloading[i]
      BY <3>5, <3>6, <3>7, <3>8
    <3> QED BY <1>0, <2>1, <3>2, <3>4
  <2>5. EngineTypeOK'
    BY <1>0, <2>1, <2>2, <2>3, <2>4 DEF EngineTypeOK, TaskStates, UnloadStates
  <2>6. ClosingTyped'
    BY <1>0, <2>1 DEF ClosingTyped
  <2>7. ConsumersOfAgents'
    BY <1>0, <2>1, <2>2, <2>4 DEF EngineTypeOK, ConsumersOfAgents
  <2>8. ClosedIsUnserved'
    BY <1>0, <2>1, <2>3, <2>4 DEF ClosedIsUnserved
  <2> QED BY <2>5, <2>6, <2>7, <2>8
<1>2. ASSUME NEW i \in Instances, Subscribes(i) \/ EnvelopeHandled(i) \/ IdleEnds(i) \/ HandleEnvelope(i)
      PROVE EngineIInv'
  <2> USE <1>2 DEF Subscribes, EnvelopeHandled, IdleEnds, HandleEnvelope
  <2>1. EngineTypeOK' /\ Instances' = Instances
    BY DEF EngineTypeOK, Instances
  <2>2. ClosingTyped' /\ ConsumersOfAgents'
    BY DEF ClosingTyped, ConsumersOfAgents
  <2>3. ClosedIsUnserved'
    BY <2>1 DEF EngineTypeOK, ClosedIsUnserved
  <2> QED BY <2>1, <2>2, <2>3
<1>3. ASSUME NEW n \in AgentNames, Publish(n) PROVE EngineIInv'
  <2> USE <1>3 DEF Publish
  <2>1. EngineTypeOK' /\ ClosingTyped'
    BY DEF EngineTypeOK, Instances, ClosingTyped
  <2>2. ConsumersOfAgents' /\ ClosedIsUnserved'
    BY DEF ConsumersOfAgents, ClosedIsUnserved, Instances
  <2> QED BY <2>1, <2>2
<1>4. ASSUME NEW n \in AgentNames, UnloadStarts(n) PROVE EngineIInv'
  <2> USE <1>4 DEF UnloadStarts
  <2>1. agents[n] \in Instances /\ (consumers[n] # 0 => consumers[n] \in Instances) /\ Instances' = Instances
    BY <1>0 DEF EngineTypeOK, Loaded, Instances
  <2>2. EngineTypeOK'
    BY <1>0, <2>1 DEF EngineTypeOK, Cancelled
  <2>3. ClosingTyped' /\ closing'.phase = closing.phase
    BY DEF ClosingTyped
  <2>4. ConsumersOfAgents'
    <3>1. \A m \in AgentNames : agents[m] = agents[n] /\ closing.phase = "open" => m = n
      BY <2>1 DEF ConsumersOfAgents, Loaded
    <3> QED BY <1>0, <2>1, <2>3, <3>1 DEF EngineTypeOK, ConsumersOfAgents
  <2>5. ASSUME closing.phase = "open" PROVE ClosedIsUnserved'
    <3>1. consumers[n] = agents[n] /\ agents[n] # 0
      BY <2>5 DEF ConsumersOfAgents, Loaded
    <3>2. \A i \in Instances : unloading'[i] = IF i = agents[n] THEN "waiting" ELSE unloading[i]
      BY <2>1, <3>1 DEF EngineTypeOK
    <3>3. \A i \in Instances : task[i] = "ended" => task'[i] = "ended"
      BY <2>1, <3>1 DEF EngineTypeOK, Cancelled
    <3> QED BY <2>1, <2>5, <3>2, <3>3 DEF ClosedIsUnserved
  <2> QED BY <2>2, <2>3, <2>4, <2>5 DEF ClosedIsUnserved
<1>5. ASSUME NEW i \in Instances, TaskAwaited(i) \/ AgentCloses(i) PROVE EngineIInv'
  <2> USE <1>5 DEF TaskAwaited, AgentCloses
  <2>1. EngineTypeOK' /\ ClosingTyped' /\ Instances' = Instances
    BY DEF EngineTypeOK, Instances, ClosingTyped
  <2>2. ConsumersOfAgents' /\ ClosedIsUnserved'
    BY <1>0, <2>1 DEF EngineTypeOK, ConsumersOfAgents, ClosedIsUnserved
  <2> QED BY <2>1, <2>2
<1>6. ASSUME CloseStarts \/ CloseAgents \/ CloseRaises PROVE EngineIInv'
  <2> USE <1>6 DEF CloseStarts, CloseAgents, CloseRaises
  <2>0. Size \in {Cardinality(S) : S \in SUBSET AgentNames}
    BY DEF Size
  <2>1. ClosingTyped' /\ closing'.phase \in {"stopping", "agents", "failed"}
    BY <2>0 DEF ClosingTyped
  <2>2. EngineTypeOK'
    BY <2>1 DEF EngineTypeOK, Instances
  <2> QED BY <2>1, <2>2 DEF ConsumersOfAgents, ClosedIsUnserved
<1>7. ASSUME StopNext PROVE EngineIInv'
  <2>1. PICK n \in closing.left :
          /\ closing' = [closing EXCEPT !.left = @ \ {n}, !.awaits = consumers[n]]
          /\ consumers' = [consumers EXCEPT ![n] = 0]
          /\ task' = IF consumers[n] = 0 THEN task ELSE Cancelled(consumers[n])
          /\ closing.phase = "stopping" /\ UNCHANGED <<named, agents, unloading>>
    BY <1>7 DEF StopNext
  <2>2. n \in AgentNames /\ consumers[n] \in 0..Len(named)
    BY DEF ClosingTyped, EngineTypeOK
  <2> USE <2>1, <2>2
  <2>3. ClosingTyped' /\ closing'.phase = "stopping"
    BY DEF ClosingTyped
  <2>4. task' \in [Instances -> {"created", "listening", "busy", "ended"}]
    BY <1>0 DEF EngineTypeOK, Cancelled
  <2>5. EngineTypeOK'
    <3>1. consumers' \in [AgentNames -> 0..Len(named)]
      BY <1>0 DEF EngineTypeOK
    <3> QED BY <1>0, <2>3, <2>4, <3>1 DEF EngineTypeOK, Instances
  <2> QED BY <2>3, <2>5 DEF ConsumersOfAgents, ClosedIsUnserved
<1>8. ASSUME StopAwaited PROVE EngineIInv'
  <2> USE <1>8 DEF StopAwaited
  <2>1. ClosingTyped' /\ closing'.phase = closing.phase
    BY <1>0 DEF ClosingTyped
  <2>2. EngineTypeOK'
    BY <1>0, <2>1 DEF EngineTypeOK, Instances
  <2> QED BY <2>1, <2>2 DEF ConsumersOfAgents, ClosedIsUnserved, Instances
<1>9. ASSUME CloseNext PROVE EngineIInv'
  <2>1. PICK n \in AgentNames \ closing.walked :
          /\ Loaded(n)
          /\ unloading' = [unloading EXCEPT ![agents[n]] = "closed"]
          /\ closing' = [closing EXCEPT !.walked = @ \cup {n}]
    BY <1>9 DEF CloseNext
  <2> USE <1>9, <2>1 DEF CloseNext
  <2>2. ClosingTyped' /\ closing'.phase = "agents"
    BY DEF ClosingTyped
  <2>3. EngineTypeOK'
    BY <2>2 DEF EngineTypeOK, Instances
  <2> QED BY <2>2, <2>3 DEF ConsumersOfAgents, ClosedIsUnserved
<1>10. ASSUME CloseEnds PROVE EngineIInv'
  <2> USE <1>10 DEF CloseEnds
  <2>1. ClosingTyped' /\ closing'.phase = "done"
    BY DEF ClosingTyped
  <2>2. EngineTypeOK'
    BY <1>0, <2>1 DEF EngineTypeOK, Instances
  <2> QED BY <2>1, <2>2 DEF ConsumersOfAgents, ClosedIsUnserved
<1>11. CASE UNCHANGED engineVars
  BY <1>11 DEF engineVars, EngineTypeOK, Instances, ClosingTyped, ConsumersOfAgents, ClosedIsUnserved
<1> QED
  BY <1>1, <1>2, <1>3, <1>4, <1>5, <1>6, <1>7, <1>8, <1>9, <1>10, <1>11 DEF EngineNext

LEMMA EngineImplies == EngineIInv => EngineTypeOK /\ ClosedIsUnserved
BY DEF EngineIInv

(* Whatever hosts load, reload and unload while the engine waits, an agent *)
(* is closed only after its consumer has ended, unless the whole engine is *)
(* being closed.                                                           *)
THEOREM ClosedWhenEnded == EngineSpec => []ClosedIsUnserved
<1> QED BY EngineImplies, EngineInitHolds, EngineStepHolds, PTL DEF EngineSpec

--------------------------------------------------------------------------------
(* PluginLoading: plugins start after what they depend on.                 *)

(* What is listed are the chosen positions, each at its place.             *)
ListsAt(list, q, upTo, I, at) ==
  /\ at \in [1..Cardinality(I) -> I]
  /\ \A k \in 1..Cardinality(I) : list[k] = q[at[k]] /\ Cardinality(upTo[at[k]]) = k
  /\ \A i \in I : \E k \in 1..Cardinality(I) : at[k] = i

LEMMA ListingLists ==
  ASSUME NEW S, NEW q \in Seq(S), NEW I \in SUBSET DOMAIN q, NEW upTo, IsOrder(I, upTo)
  PROVE  /\ Listing(q, upTo) \in Seq(S) /\ Len(Listing(q, upTo)) = Cardinality(I)
         /\ ToSet(Listing(q, upTo)) = {q[i] : i \in I}
         /\ IsFiniteSet(I) /\ Cardinality(I) \in Nat
         /\ IsInjective(q) => IsInjective(Listing(q, upTo))
         /\ \E at : ListsAt(Listing(q, upTo), q, upTo, I, at)
<1>1. Len(q) \in Nat /\ DOMAIN q = 1..Len(q) /\ I \in SUBSET (1..Len(q)) /\ \A i \in I : q[i] \in S
  OBVIOUS
<1>2. DOMAIN upTo = I
  BY DEF IsOrder
<1>3. /\ IsFiniteSet(I) /\ Cardinality(I) \in Nat
      /\ \A i \in I : Cardinality(upTo[i]) \in 1..Cardinality(I)
      /\ \A i, k \in I : Cardinality(upTo[i]) = Cardinality(upTo[k]) => i = k
      /\ \A m \in 1..Cardinality(I) : \E i \in I : Cardinality(upTo[i]) = m
  <2>1. IsFiniteSet(1..Len(q))
    BY <1>1, FiniteInterval
  <2>2. IsFiniteSet(I)
    BY <1>1, <2>1, FS_Subset
  <2> QED BY <2>2, PlacesCount
<1> DEFINE N == Cardinality(I)
           at == [k \in 1..N |-> CHOOSE i \in I : Cardinality(upTo[i]) = k]
           list == Listing(q, upTo)
<1>4. list = [k \in 1..N |-> q[at[k]]]
  BY <1>2 DEF Listing
<1>5. \A k \in 1..N : at[k] \in I /\ Cardinality(upTo[at[k]]) = k
  <2> SUFFICES ASSUME NEW k \in 1..N PROVE at[k] \in I /\ Cardinality(upTo[at[k]]) = k
    OBVIOUS
  <2>1. \E i \in I : Cardinality(upTo[i]) = k
    BY <1>3
  <2>2. at[k] = CHOOSE i \in I : Cardinality(upTo[i]) = k
    OBVIOUS
  <2> HIDE DEF at
  <2> QED BY <2>1, <2>2
<1>6. at \in [1..N -> I]
  BY <1>5
<1> HIDE DEF at, list, N
<1>7. \A i \in I : \E k \in 1..N : at[k] = i
  <2> SUFFICES ASSUME NEW i \in I PROVE \E k \in 1..N : at[k] = i
    OBVIOUS
  <2>1. Cardinality(upTo[i]) \in 1..N
    BY <1>3 DEF N
  <2>2. at[Cardinality(upTo[i])] = i
    BY <1>3, <1>5, <2>1
  <2> QED BY <2>1, <2>2
<1>8. list \in [1..N -> S]
  BY <1>1, <1>4, <1>5
<1>9. list \in Seq(S) /\ Len(list) = N /\ DOMAIN list = 1..N
  BY <1>3, <1>8 DEF N
<1>10. ToSet(list) = {q[i] : i \in I}
  <2>1. ToSet(list) = {list[k] : k \in 1..N}
    BY <1>9 DEF ToSet
  <2> QED BY <1>4, <1>5, <1>7, <2>1
<1>11. IsInjective(q) => IsInjective(list)
  <2> SUFFICES ASSUME IsInjective(q), NEW k \in 1..N, NEW l \in 1..N, list[k] = list[l] PROVE k = l
    BY <1>9 DEF IsInjective
  <2>1. at[k] = at[l]
    BY <1>1, <1>4, <1>5 DEF IsInjective
  <2> QED BY <1>5, <2>1
<1>12. ListsAt(list, q, upTo, I, at)
  BY <1>4, <1>5, <1>6, <1>7 DEF ListsAt, N
<1> QED BY <1>3, <1>9, <1>10, <1>11, <1>12 DEF list, N

(* ByRank changes the order, and a name of the smallest rank comes first.  *)
LEMMA ByRankSorts ==
  ASSUME NEW S, NEW names \in Seq(S), \A p \in S : about[p].rank \in Int
  PROVE  /\ ByRank(names) \in Seq(S) /\ Len(ByRank(names)) = Len(names)
         /\ ToSet(ByRank(names)) = ToSet(names)
         /\ IsInjective(names) => IsInjective(ByRank(names))
         /\ names # <<>> => \A p \in ToSet(names) : about[Head(ByRank(names))].rank <= about[p].rank
<1> DEFINE I == DOMAIN names
           upTo == [n \in I |-> NotAfter(names, n)]
           rank(n) == about[names[n]].rank
<1>1. I = 1..Len(names) /\ Len(names) \in Nat /\ \A n \in I : rank(n) \in Int /\ n \in Int
  OBVIOUS
<1>2. \A n \in I : upTo[n] = {m \in I : rank(m) < rank(n) \/ (rank(m) = rank(n) /\ m <= n)}
  BY DEF NotAfter
<1>3. upTo \in [I -> SUBSET I]
  BY DEF NotAfter
<1>4. ByRank(names) = Listing(names, upTo)
  BY DEF ByRank
<1>5. \A n \in I : \A m \in I : m \in upTo[n] <=> (rank(m) < rank(n) \/ (rank(m) = rank(n) /\ m <= n))
  BY <1>2
<1> HIDE DEF upTo, rank, I
<1>6. \A n \in I : n \in upTo[n]
  BY <1>1, <1>5
<1>7. ASSUME NEW i \in I, NEW k \in I, rank(i) < rank(k) \/ (rank(i) = rank(k) /\ i < k)
      PROVE  upTo[i] \subseteq upTo[k] /\ k \notin upTo[i]
  <2>1. k \notin upTo[i]
    BY <1>1, <1>7, <1>5
  <2>2. ASSUME NEW m \in upTo[i] PROVE m \in upTo[k]
    <3>1. m \in I
      BY <1>3, <2>2
    <3>2. rank(m) < rank(i) \/ (rank(m) = rank(i) /\ m <= i)
      BY <1>5, <2>2, <3>1
    <3>3. rank(m) < rank(k) \/ (rank(m) = rank(k) /\ m <= k)
      BY <1>1, <1>7, <3>1, <3>2
    <3> QED BY <1>5, <3>1, <3>3
  <2> QED BY <2>1, <2>2
<1>8. IsOrder(I, upTo)
  <2>1. \A i, k \in I : i = k \/ (rank(i) < rank(k) \/ (rank(i) = rank(k) /\ i < k))
                              \/ (rank(k) < rank(i) \/ (rank(k) = rank(i) /\ k < i))
    BY <1>1
  <2> QED BY <1>3, <1>6, <1>7, <2>1 DEF IsOrder
<1>9. I \in SUBSET DOMAIN names
  BY DEF I
<1>10. /\ Listing(names, upTo) \in Seq(S) /\ Len(Listing(names, upTo)) = Cardinality(I)
       /\ ToSet(Listing(names, upTo)) = {names[i] : i \in I}
       /\ IsInjective(names) => IsInjective(Listing(names, upTo))
       /\ \E at : ListsAt(Listing(names, upTo), names, upTo, I, at)
  BY <1>8, <1>9, ListingLists
<1>11. Cardinality(I) = Len(names)
  BY <1>1, FiniteInterval
<1>12. ToSet(names) = {names[i] : i \in I}
  BY DEF ToSet, I
<1>13. ASSUME names # <<>>, NEW p \in ToSet(names)
       PROVE  about[Head(ByRank(names))].rank <= about[p].rank
  <2>1. PICK at : ListsAt(ByRank(names), names, upTo, I, at)
    BY <1>4, <1>10
  <2>2. Len(names) >= 1 /\ 1 \in 1..Cardinality(I)
    BY <1>1, <1>11, <1>13
  <2>3. Head(ByRank(names)) = ByRank(names)[1]
    BY <1>4, <1>10, <1>11, <2>2, HeadTailProperties
  <2>4. at[1] \in I /\ ByRank(names)[1] = names[at[1]] /\ Cardinality(upTo[at[1]]) = 1
    BY <2>1, <2>2 DEF ListsAt
  <2>5. PICK n \in I : p = names[n]
    BY <1>12, <1>13
  <2>6. ASSUME rank(n) < rank(at[1]) PROVE FALSE
    <3>1. n \in upTo[at[1]] /\ at[1] \in upTo[at[1]] /\ n # at[1]
      BY <1>1, <1>6, <1>5, <2>4, <2>6
    <3>2. upTo[at[1]] \in SUBSET I
      BY <1>3, <2>4
    <3>3. IsFiniteSet(I)
      BY <1>1, FS_Interval
    <3>4. IsFiniteSet(upTo[at[1]]) /\ {n, at[1]} \in SUBSET upTo[at[1]]
      BY <3>1, <3>2, <3>3, FS_Subset
    <3>5. Cardinality({n, at[1]}) = 2
      BY <3>1, PairHasTwo
    <3>6. Cardinality({n, at[1]}) <= Cardinality(upTo[at[1]])
      BY <3>4, FS_Subset
    <3> QED BY <2>4, <3>5, <3>6
  <2> QED BY <1>1, <2>3, <2>4, <2>5, <2>6 DEF rank
<1> QED BY <1>4, <1>10, <1>11, <1>12, <1>13

LEMMA ThoseAreListed ==
  ASSUME NEW S, NEW names \in Seq(S), NEW T
  PROVE  /\ Those(names, T) \in Seq(S) /\ ToSet(Those(names, T)) = ToSet(names) \cap T
         /\ IsInjective(names) => IsInjective(Those(names, T))
<1> DEFINE I == {n \in DOMAIN names : names[n] \in T}
           upTo == [n \in I |-> {m \in I : m <= n}]
<1>1. I \in SUBSET DOMAIN names /\ \A n \in I : n \in Int
  OBVIOUS
<1>2. Those(names, T) = Listing(names, upTo)
  BY DEF Those
<1>3. ToSet(names) \cap T = {names[n] : n \in I}
  BY DEF ToSet
<1>4. upTo \in [I -> SUBSET I] /\ \A n \in I : \A m \in I : m \in upTo[n] <=> m <= n
  OBVIOUS
<1> HIDE DEF I, upTo
<1>5. \A i, k \in I : i < k => upTo[i] \subseteq upTo[k] /\ k \notin upTo[i]
  <2> SUFFICES ASSUME NEW i \in I, NEW k \in I, i < k PROVE upTo[i] \subseteq upTo[k] /\ k \notin upTo[i]
    OBVIOUS
  <2>1. k \notin upTo[i]
    BY <1>1, <1>4
  <2>2. ASSUME NEW m \in upTo[i] PROVE m \in upTo[k]
    <3>1. m \in I /\ m <= i
      BY <1>4, <2>2
    <3> QED BY <1>1, <1>4, <3>1
  <2> QED BY <2>1, <2>2
<1>6. \A i \in I : i \in upTo[i]
  BY <1>1, <1>4
<1>7. IsOrder(I, upTo)
  <2>1. \A i, k \in I : i = k \/ i < k \/ k < i
    BY <1>1
  <2> QED BY <1>4, <1>5, <1>6, <2>1 DEF IsOrder
<1>8. /\ Listing(names, upTo) \in Seq(S) /\ ToSet(Listing(names, upTo)) = {names[i] : i \in I}
      /\ IsInjective(names) => IsInjective(Listing(names, upTo))
  <2>1. I \in SUBSET DOMAIN names
    BY <1>1
  <2> QED BY <1>7, <2>1, ListingLists
<1> QED BY <1>2, <1>3, <1>8

(* A list that names each of a finite set once is as long as the set.      *)
LEMMA LengthOfInjective ==
  ASSUME NEW S, NEW q \in Seq(S), IsInjective(q)
  PROVE  IsFiniteSet(ToSet(q)) /\ Cardinality(ToSet(q)) = Len(q)
<1>1. Len(q) \in Nat /\ DOMAIN q = 1..Len(q)
  OBVIOUS
<1>2. q \in Surjection(1..Len(q), ToSet(q))
  BY <1>1 DEF Surjection, ToSet
<1>3. q \in Injection(1..Len(q), ToSet(q))
  BY <1>1, <1>2 DEF Injection, Surjection, IsInjective
<1>4. IsFiniteSet(1..Len(q)) /\ Cardinality(1..Len(q)) = Len(q)
  BY SMTT(40), <1>1, FS_Interval
<1>5. IsFiniteSet(ToSet(q)) /\ (Cardinality(1..Len(q)) = Cardinality(ToSet(q)) <=> q \in Injection(1..Len(q), ToSet(q)))
  BY <1>2, <1>4, FS_Surjection
<1> QED BY <1>3, <1>4, <1>5

(* Some position of a set of them is the first.                            *)
LEMMA FirstOf ==
  ASSUME NEW I, IsFiniteSet(I), \A i \in I : i \in Int, I # {}
  PROVE  \E i \in I : \A k \in I : i <= k
<1>0. PICK upTo : upTo = [i \in I |-> {m \in I : m <= i}]
  OBVIOUS
<1>1. \A i \in I : i \in Int
  OBVIOUS
<1>2. upTo \in [I -> SUBSET I] /\ \A i \in I : \A m \in I : m \in upTo[i] <=> m <= i
  BY <1>0
<1>3. \A i, k \in I : i < k => upTo[i] \subseteq upTo[k] /\ k \notin upTo[i]
  <2> SUFFICES ASSUME NEW i \in I, NEW k \in I, i < k PROVE upTo[i] \subseteq upTo[k] /\ k \notin upTo[i]
    OBVIOUS
  <2>1. ASSUME NEW m \in upTo[i] PROVE m \in upTo[k]
    <3>1. m \in I /\ m <= i
      BY <1>2, <2>1
    <3> QED BY <1>1, <1>2, <3>1
  <2>2. ~(k <= i)
    BY <1>1
  <2> QED BY <1>2, <2>1, <2>2
<1>4. IsOrder(I, upTo)
  <2>1. \A i, k \in I : i = k \/ i < k \/ k < i
    BY <1>1
  <2>2. \A i \in I : i \in upTo[i]
    BY <1>1, <1>2
  <2> QED BY <1>2, <1>3, <2>1, <2>2 DEF IsOrder
<1>5. /\ IsFiniteSet(I) /\ Cardinality(I) \in Nat
      /\ \A i \in I : Cardinality(upTo[i]) \in 1..Cardinality(I)
      /\ \A i, k \in I : Cardinality(upTo[i]) = Cardinality(upTo[k]) => i = k
      /\ \A m \in 1..Cardinality(I) : \E i \in I : Cardinality(upTo[i]) = m
  BY <1>4, PlacesCount
<1>6. Cardinality(I) # 0
  BY <1>5, FS_EmptySet
<1>7. PICK i \in I : Cardinality(upTo[i]) = 1
  BY <1>5, <1>6
<1>8. ASSUME NEW k \in I, k < i PROVE FALSE
  <2>1. k \in upTo[i] /\ i \in upTo[i] /\ k # i
    BY <1>1, <1>2, <1>8
  <2>2. IsFiniteSet(upTo[i]) /\ {k, i} \in SUBSET upTo[i]
    BY <1>2, <1>5, <2>1, FS_Subset
  <2>3. Cardinality({k, i}) = 2
    BY <2>1, PairHasTwo
  <2>4. Cardinality({k, i}) <= Cardinality(upTo[i])
    BY <2>2, FS_Subset
  <2> QED BY <1>7, <2>3, <2>4
<1> QED BY <1>1, <1>8

(* Lists of names that name each once.                                     *)
LEMMA TailOnce ==
  ASSUME NEW S, NEW q \in Seq(S), q # <<>>, IsInjective(q)
  PROVE  /\ Tail(q) \in Seq(S) /\ IsInjective(Tail(q))
         /\ Head(q) \in ToSet(q) /\ ToSet(Tail(q)) = ToSet(q) \ {Head(q)}
<1> DEFINE t == Tail(q)
<1>1. Len(q) \in Nat /\ Len(q) # 0 /\ DOMAIN q = 1..Len(q)
  OBVIOUS
<1>2. t \in Seq(S) /\ Len(t) = Len(q) - 1 /\ Head(q) = q[1]
  BY HeadTailProperties
<1>3. DOMAIN t = 1..(Len(q) - 1)
  BY <1>2
<1>4. \A i \in 1..(Len(q) - 1) : t[i] = q[i + 1] /\ i + 1 \in 1..Len(q) /\ i + 1 # 1
  BY <1>1
<1> HIDE DEF t
<1>5. IsInjective(t)
  <2> SUFFICES ASSUME NEW i \in 1..(Len(q) - 1), NEW j \in 1..(Len(q) - 1), t[i] = t[j] PROVE i = j
    BY <1>3 DEF IsInjective
  <2>1. i + 1 = j + 1
    BY <1>1, <1>4 DEF IsInjective
  <2> QED BY <2>1
<1>6. ASSUME NEW x PROVE x \in ToSet(t) <=> x \in ToSet(q) /\ x # q[1]
  <2>1. ASSUME NEW i \in 1..(Len(q) - 1), x = t[i] PROVE x \in ToSet(q) /\ x # q[1]
    <3>1. x = q[i + 1] /\ i + 1 \in DOMAIN q /\ 1 \in DOMAIN q /\ i + 1 # 1
      BY <1>1, <1>4, <2>1
    <3> QED BY <3>1 DEF ToSet, IsInjective
  <2>2. ASSUME NEW i \in DOMAIN q, x = q[i], x # q[1] PROVE x \in ToSet(t)
    <3>1. i - 1 \in 1..(Len(q) - 1) /\ i = (i - 1) + 1
      BY <1>1, <2>2
    <3>2. t[i - 1] = x
      BY <1>4, <2>2, <3>1
    <3> QED BY <1>3, <3>1, <3>2 DEF ToSet
  <2> QED BY <1>3, <2>1, <2>2 DEF ToSet
<1>7. ToSet(t) = ToSet(q) \ {q[1]}
  BY <1>6
<1>8. q[1] \in ToSet(q)
  BY <1>1 DEF ToSet
<1> QED BY <1>2, <1>5, <1>7, <1>8 DEF t

LEMMA ConcatOnce ==
  ASSUME NEW S, NEW s \in Seq(S), NEW t \in Seq(S), IsInjective(s), IsInjective(t),
         \A x \in ToSet(s) : x \notin ToSet(t)
  PROVE  s \o t \in Seq(S) /\ IsInjective(s \o t) /\ ToSet(s \o t) = ToSet(s) \cup ToSet(t)
<1>0. \A x : ~(x \in ToSet(s) /\ x \in ToSet(t))
  OBVIOUS
<1> DEFINE r == s \o t
           n == Len(s)
<1>1. n \in Nat /\ Len(t) \in Nat /\ DOMAIN s = 1..n /\ DOMAIN t = 1..Len(t)
  OBVIOUS
<1>2. r \in Seq(S) /\ Len(r) = n + Len(t)
      /\ \A i \in 1..(n + Len(t)) : r[i] = IF i <= n THEN s[i] ELSE t[i - n]
  BY ConcatProperties
<1>3. DOMAIN r = 1..(n + Len(t))
  BY <1>2
<1> HIDE DEF r, n
<1>4. \A i \in 1..(n + Len(t)) :
        \/ i \in 1..n /\ r[i] = s[i] /\ r[i] \in ToSet(s)
        \/ i > n /\ i - n \in 1..Len(t) /\ r[i] = t[i - n] /\ r[i] \in ToSet(t)
  <2> SUFFICES ASSUME NEW i \in 1..(n + Len(t))
               PROVE  \/ i \in 1..n /\ r[i] = s[i] /\ r[i] \in ToSet(s)
                      \/ i > n /\ i - n \in 1..Len(t) /\ r[i] = t[i - n] /\ r[i] \in ToSet(t)
    OBVIOUS
  <2>1. CASE i <= n
    <3>1. i \in 1..n /\ r[i] = s[i]
      BY <1>1, <1>2, <2>1
    <3> QED BY <1>1, <3>1 DEF ToSet
  <2>2. CASE i > n
    <3>1. i - n \in 1..Len(t) /\ r[i] = t[i - n]
      BY <1>1, <1>2, <2>2
    <3> QED BY <1>1, <2>2, <3>1 DEF ToSet
  <2> QED BY <1>1, <2>1, <2>2
<1>5. IsInjective(r)
  <2> SUFFICES ASSUME NEW i \in 1..(n + Len(t)), NEW j \in 1..(n + Len(t)), r[i] = r[j] PROVE i = j
    BY <1>3 DEF IsInjective
  <2>1. CASE i \in 1..n /\ j \in 1..n /\ s[i] = s[j]
    BY <1>1, <2>1 DEF IsInjective
  <2>2. CASE i - n \in 1..Len(t) /\ j - n \in 1..Len(t) /\ t[i - n] = t[j - n]
    <3>1. i - n = j - n
      BY <1>1, <2>2 DEF IsInjective
    <3> QED BY <1>1, <3>1
  <2>3. ~(r[i] \in ToSet(s) /\ r[i] \in ToSet(t))
    BY <1>0
  <2> QED BY <1>4, <2>1, <2>2, <2>3
<1>6. \A x : x \in ToSet(r) <=> x \in ToSet(s) \/ x \in ToSet(t)
  <2>1. \A i \in DOMAIN r : r[i] \in ToSet(s) \/ r[i] \in ToSet(t)
    BY <1>3, <1>4
  <2>2. ASSUME NEW i \in 1..n PROVE s[i] \in ToSet(r)
    <3>1. i \in DOMAIN r /\ r[i] = s[i]
      BY <1>1, <1>2, <1>3
    <3> QED BY <3>1 DEF ToSet
  <2>3. ASSUME NEW i \in 1..Len(t) PROVE t[i] \in ToSet(r)
    <3>1. i + n \in DOMAIN r /\ ~(i + n <= n) /\ (i + n) - n = i
      BY <1>1, <1>3
    <3>2. r[i + n] = t[i]
      BY <1>2, <1>3, <3>1
    <3> QED BY <3>1, <3>2 DEF ToSet
  <2> QED BY <1>1, <2>1, <2>2, <2>3 DEF ToSet
<1> QED BY <1>2, <1>5, <1>6 DEF r

LEMMA AppendOnce ==
  ASSUME NEW S, NEW q \in Seq(S), IsInjective(q), NEW x \in S, x \notin ToSet(q)
  PROVE  /\ Append(q, x) \in Seq(S) /\ IsInjective(Append(q, x))
         /\ ToSet(Append(q, x)) = ToSet(q) \cup {x}
         /\ Len(Append(q, x)) = Len(q) + 1 /\ Append(q, x)[Len(q) + 1] = x
         /\ \A k \in 1..Len(q) : Append(q, x)[k] = q[k]
<1> DEFINE r == Append(q, x)
           n == Len(q)
<1>1. n \in Nat /\ DOMAIN q = 1..n
  OBVIOUS
<1>2. r \in Seq(S) /\ Len(r) = n + 1 /\ r[n + 1] = x /\ \A k \in 1..n : r[k] = q[k]
  BY AppendProperties
<1>3. DOMAIN r = 1..(n + 1)
  BY <1>2
<1> HIDE DEF r, n
<1>4. \A k \in 1..n : q[k] \in ToSet(q)
  BY <1>1 DEF ToSet
<1>5. \A i \in 1..(n + 1) : i \in 1..n \/ i = n + 1
  BY <1>1
<1>6. IsInjective(r)
  <2> SUFFICES ASSUME NEW i \in 1..(n + 1), NEW j \in 1..(n + 1), r[i] = r[j] PROVE i = j
    BY <1>3 DEF IsInjective
  <2>1. CASE i \in 1..n /\ j \in 1..n
    BY <1>1, <1>2, <2>1 DEF IsInjective
  <2>2. CASE i = n + 1 /\ j \in 1..n
    BY <1>2, <1>4, <2>2
  <2>3. CASE j = n + 1 /\ i \in 1..n
    BY <1>2, <1>4, <2>3
  <2> QED BY <1>5, <2>1, <2>2, <2>3
<1>7. \A y : y \in ToSet(r) <=> y \in ToSet(q) \/ y = x
  <2>1. \A i \in 1..(n + 1) : r[i] \in ToSet(q) \/ r[i] = x
    BY <1>2, <1>4, <1>5
  <2>2. \A i \in 1..n : i \in 1..(n + 1) /\ r[i] = q[i]
    BY <1>1, <1>2
  <2>3. n + 1 \in 1..(n + 1)
    BY <1>1
  <2> QED BY <1>1, <1>2, <1>3, <2>1, <2>2, <2>3 DEF ToSet
<1> QED BY <1>2, <1>6, <1>7 DEF r, n

--------------------------------------------------------------------------------
(* The invariant: what has been loaded, and how far it is sorted.          *)

ActiveOnce(names) == names \in Seq(PluginNames) /\ IsInjective(names)

LoadedSoFar ==
  /\ ActiveOnce(active) /\ placed = <<>>
  /\ ToSet(active) = {Configured[i] : i \in {j \in 1..(position - 1) : about[Configured[j]].enabled}}

(* What is ready waits for nothing; what was placed came after what it     *)
(* depends on, and after what ranks lower and was not waiting.             *)
PlacedAfter(m, d) == \E k \in 1..(m - 1) : placed[k] = d
NotYet(m, p) == \A k \in 1..m : placed[k] # p
Laid ==
  /\ \A m \in 1..Len(placed) : \A d \in about[placed[m]].depends : PlacedAfter(m, d)
  /\ \A m \in 1..Len(placed), p \in Enabled :
        about[placed[m]].rank > about[p].rank /\ NotYet(m, p)
          => \E d \in about[p].depends : ~PlacedAfter(m, d)
Sorting ==
  /\ ActiveOnce(active) /\ ToSet(active) = Enabled
  /\ \A p \in Enabled : about[p].depends \subseteq Enabled
  /\ placed \in Seq(Enabled) /\ IsInjective(placed)
  /\ ready \in Seq(Enabled) /\ IsInjective(ready)
  /\ waiting = [p \in Enabled |-> about[p].depends \ ToSet(placed)]
  /\ ToSet(ready) = {p \in Enabled \ ToSet(placed) : about[p].depends \subseteq ToSet(placed)}
  /\ Laid

AllLoaded ==
  /\ IsInjective(active) /\ ToSet(active) = Enabled
  /\ \A p \in Enabled : \A d \in about[p].depends : PlaceOf(d) < PlaceOf(p)
  /\ \A m, n \in DOMAIN active :
        m < n /\ about[active[m]].rank > about[active[n]].rank
          => \E d \in about[active[n]].depends : PlaceOf(d) >= m

AboutOK == about \in [PluginNames -> [enabled : BOOLEAN, rank : Ranks, depends : DependsSets]]

LoadIInv ==
  /\ AboutOK /\ LoadTypeOK
  /\ loading = "plugins" => LoadedSoFar
  /\ loading = "sorting" => Sorting
  /\ loading = "loaded" => AllLoaded

LEMMA ConfiguredFacts ==
  /\ Configured \in Seq(PluginNames) /\ Len(Configured) \in Nat /\ DOMAIN Configured = 1..Len(Configured)
  /\ \A i, j \in 1..Len(Configured) : Configured[i] = Configured[j] => i = j
  /\ PluginNames = {Configured[i] : i \in 1..Len(Configured)}
  /\ \A i \in 1..Len(Configured) : Configured[i] \in PluginNames
<1>1. Configured \in Seq(PluginNames) /\ IsInjective(Configured)
  BY LoadAssumption DEF PluginNames
<1>2. DOMAIN Configured = 1..Len(Configured) /\ Len(Configured) \in Nat
  BY <1>1
<1> QED BY <1>1, <1>2 DEF IsInjective, PluginNames, ToSet

LEMMA RanksAreInt == ASSUME AboutOK PROVE \A p \in PluginNames : about[p].rank \in Int
BY LoadAssumption DEF AboutOK

LEMMA EmptyOnce == ASSUME NEW S PROVE <<>> \in Seq(S) /\ IsInjective(<<>>) /\ ToSet(<<>>) = {} /\ Len(<<>>) = 0
BY DEF IsInjective, ToSet

LEMMA LoadInitHolds == LoadInit => LoadIInv
<1> SUFFICES ASSUME LoadInit PROVE LoadIInv
  OBVIOUS
<1>1. AboutOK /\ position = 1 /\ active = <<>> /\ ready = <<>> /\ placed = <<>> /\ waiting = <<>> /\ loading = "plugins"
  BY DEF LoadInit, AboutOK
<1>2. position \in 1..Len(Configured) + 1
  BY <1>1, ConfiguredFacts
<1>3. LoadTypeOK
  BY <1>1, <1>2, EmptyOnce DEF LoadTypeOK
<1>4. LoadedSoFar
  <2>1. {Configured[i] : i \in {j \in 1..(position - 1) : about[Configured[j]].enabled}} = {}
    BY <1>1
  <2> QED BY <1>1, <2>1, EmptyOnce DEF LoadedSoFar, ActiveOnce
<1> QED BY <1>1, <1>3, <1>4 DEF LoadIInv

LEMMA SkipsHolds == ASSUME LoadIInv, Skips PROVE LoadIInv'
<1>1. UNCHANGED <<about, loading, active, waiting, ready, placed>> /\ loading = "plugins"
      /\ position' = position + 1 /\ position \in 1..Len(Configured) /\ ~about[Configured[position]].enabled
  BY ConfiguredFacts DEF Skips, LoadIInv, LoadTypeOK
<1>2. AboutOK' /\ LoadTypeOK'
  BY <1>1, ConfiguredFacts DEF LoadIInv, AboutOK, LoadTypeOK
<1>3. \A j : j \in 1..(position' - 1) <=> j \in 1..(position - 1) \/ j = position
  BY <1>1, ConfiguredFacts
<1>4. {j \in 1..(position' - 1) : about[Configured[j]].enabled} = {j \in 1..(position - 1) : about[Configured[j]].enabled}
  BY <1>1, <1>3
<1>5. LoadedSoFar'
  BY <1>1, <1>4 DEF LoadIInv, LoadedSoFar, ActiveOnce
<1> QED BY <1>1, <1>2, <1>5 DEF LoadIInv

LEMMA InitializesHolds == ASSUME LoadIInv, Initializes PROVE LoadIInv'
<1> DEFINE p == Configured[position]
<1>1. UNCHANGED <<about, loading, waiting, ready, placed>> /\ loading = "plugins"
      /\ active' = Append(active, p)
      /\ position' = position + 1 /\ position \in 1..Len(Configured) /\ about[p].enabled
  BY ConfiguredFacts DEF Initializes, LoadIInv, LoadTypeOK
<1>2. p \in PluginNames
  BY <1>1, ConfiguredFacts
<1>3. LoadedSoFar
  BY <1>1 DEF LoadIInv
<1> DEFINE sofar(n) == {Configured[i] : i \in {j \in 1..(n - 1) : about[Configured[j]].enabled}}
<1>4. p \notin sofar(position)
  <2>1. \A j \in 1..(position - 1) : j \in 1..Len(Configured) /\ j # position
    BY <1>1, ConfiguredFacts
  <2>2. \A j \in 1..(position - 1) : Configured[j] # p
    BY <1>1, <2>1, ConfiguredFacts
  <2> QED BY <2>2
<1>5. \A j : j \in 1..(position' - 1) <=> j \in 1..(position - 1) \/ j = position
  BY <1>1, ConfiguredFacts
<1>6. {j \in 1..(position' - 1) : about[Configured[j]].enabled}
       = {j \in 1..(position - 1) : about[Configured[j]].enabled} \cup {position}
  BY <1>1, <1>5
<1>7. sofar(position') = sofar(position) \cup {p}
  BY <1>6
<1>8. /\ active' \in Seq(PluginNames) /\ IsInjective(active')
      /\ ToSet(active') = ToSet(active) \cup {p}
  <2>1. active \in Seq(PluginNames) /\ IsInjective(active) /\ p \notin ToSet(active)
    BY <1>3, <1>4 DEF LoadedSoFar, ActiveOnce
  <2> HIDE DEF p
  <2> QED BY <1>1, <1>2, <2>1, AppendOnce
<1>9. LoadedSoFar'
  BY <1>1, <1>3, <1>7, <1>8 DEF LoadedSoFar, ActiveOnce
<1>10. AboutOK' /\ LoadTypeOK'
  BY <1>1, <1>8, ConfiguredFacts DEF LoadIInv, AboutOK, LoadTypeOK
<1> QED BY <1>1, <1>9, <1>10 DEF LoadIInv

LEMMA LoadFailsHolds == ASSUME LoadIInv, LoadFails PROVE LoadIInv'
<1>1. UNCHANGED <<about, position, active, waiting, ready, placed>> /\ loading' = "failed"
  BY DEF LoadFails
<1>2. AboutOK' /\ LoadTypeOK'
  BY <1>1 DEF LoadIInv, AboutOK, LoadTypeOK
<1> QED BY <1>1, <1>2 DEF LoadIInv

LEMMA SortStartsHolds == ASSUME LoadIInv, SortStarts PROVE LoadIInv'
<1> DEFINE names == ByRank(active)
<1>1. loading = "plugins" /\ position = Len(Configured) + 1 /\ UNCHANGED <<about, position, placed>>
      /\ active' = names /\ loading' \in {"failed", "sorting"}
      /\ Len(Configured) \in Nat
  <2>1. loading = "plugins" /\ position > Len(Configured) /\ UNCHANGED <<about, position, placed>> /\ active' = names
    BY DEF SortStarts
  <2>2. loading' \in {"failed", "sorting"}
    BY DEF SortStarts
  <2>3. position \in 1..Len(Configured) + 1 /\ Len(Configured) \in Nat
    BY ConfiguredFacts DEF LoadIInv, LoadTypeOK
  <2>4. position = Len(Configured) + 1
    BY <2>1, <2>3
  <2> QED BY <2>1, <2>2, <2>3, <2>4
<1>2. LoadedSoFar /\ AboutOK /\ LoadTypeOK
  BY <1>1 DEF LoadIInv
<1>3. ToSet(active) = Enabled
  <2>1. position - 1 = Len(Configured)
    BY <1>1
  <2> QED BY <1>2, <2>1, ConfiguredFacts DEF LoadedSoFar, Enabled
<1>4. /\ names \in Seq(PluginNames) /\ IsInjective(names) /\ ToSet(names) = Enabled
  <2>1. \A p \in PluginNames : about[p].rank \in Int
    BY <1>2, RanksAreInt
  <2>2. active \in Seq(PluginNames) /\ IsInjective(active)
    BY <1>2 DEF LoadedSoFar, ActiveOnce
  <2> QED BY <1>3, <2>1, <2>2, ByRankSorts
<1> HIDE DEF names
<1>5. Enabled' = Enabled /\ AboutOK' /\ Enabled \subseteq PluginNames
  BY <1>1, <1>2 DEF Enabled, AboutOK
<1>6. CASE \E p \in ToSet(names) : ~(about[p].depends \subseteq ToSet(names))
  <2>1. loading' = "failed" /\ UNCHANGED <<waiting, ready>>
    BY <1>6 DEF SortStarts, names
  <2>2. LoadTypeOK'
    BY <1>1, <1>2, <1>4, <2>1 DEF LoadTypeOK
  <2> QED BY <1>5, <2>1, <2>2 DEF LoadIInv
<1>7. CASE \A p \in ToSet(names) : about[p].depends \subseteq ToSet(names)
  <2> DEFINE free == {p \in ToSet(names) : about[p].depends = {}}
  <2>1. loading' = "sorting" /\ waiting' = [p \in ToSet(names) |-> about[p].depends] /\ ready' = Those(names, free)
    BY <1>7 DEF SortStarts, names
  <2>2. placed' = <<>> /\ ToSet(<<>>) = {}
    BY <1>1, <1>2, EmptyOnce DEF LoadedSoFar
  <2>3. /\ ready' \in Seq(PluginNames) /\ IsInjective(ready')
        /\ ToSet(ready') = free
    <3>1. ToSet(names) \cap free = free
      OBVIOUS
    <3> HIDE DEF free
    <3> QED BY <1>4, <2>1, <3>1, ThoseAreListed
  <2>4. names \in Seq(Enabled)
    <3>1. Len(names) \in Nat /\ DOMAIN names = 1..Len(names)
      BY <1>4
    <3>2. names \in [1..Len(names) -> Enabled]
      BY <1>4, <3>1 DEF ToSet
    <3> QED BY <3>1, <3>2
  <2>5. ready' \in Seq(Enabled)
    BY <2>1, <2>4, ThoseAreListed
  <2>6. LoadTypeOK'
    <3>1. DOMAIN waiting' = Enabled
      BY <1>4, <2>1
    <3> QED BY <1>1, <1>2, <1>4, <1>5, <2>1, <2>3, <3>1 DEF LoadTypeOK
  <2>7. waiting' = [p \in Enabled |-> about[p].depends \ ToSet(placed')]
    BY <1>4, <2>1, <2>2
  <2>8. ToSet(ready') = {p \in Enabled \ ToSet(placed') : about[p].depends \subseteq ToSet(placed')}
    BY <1>4, <2>2, <2>3
  <2>9. Laid'
    <3>1. Len(placed') = 0
      BY <2>2
    <3> QED BY <3>1 DEF Laid
  <2>10. placed' \in Seq(Enabled) /\ IsInjective(placed')
    BY <2>2, EmptyOnce
  <2>11. ActiveOnce(active)' /\ ToSet(active)' = Enabled'
    BY <1>1, <1>4, <1>5 DEF ActiveOnce
  <2>12. \A p \in Enabled : about[p].depends \subseteq Enabled
    BY <1>4, <1>7
  <2>13. Sorting'
    BY <1>1, <1>5, <2>3, <2>5, <2>7, <2>8, <2>9, <2>10, <2>11, <2>12 DEF Sorting
  <2> QED BY <1>5, <2>1, <2>6, <2>13 DEF LoadIInv
<1> QED BY <1>6, <1>7

(* The next is taken from the queue.                                       *)
LEMMA PlaceHolds == ASSUME LoadIInv, Place PROVE LoadIInv'
<1> DEFINE sorted == ByRank(ready)
           node == Head(sorted)
           freed == {p \in ToSet(active) : waiting[p] = {node}}
<1>0. PICK m : m = Len(placed) + 1
  OBVIOUS
<1>1. /\ loading = "sorting" /\ ready # <<>> /\ UNCHANGED <<about, loading, position, active>>
      /\ placed' = Append(placed, node)
      /\ waiting' = [p \in DOMAIN waiting |-> waiting[p] \ {node}]
      /\ ready' = Tail(sorted) \o Those(active, freed)
  BY DEF Place
<1>2. Sorting /\ AboutOK /\ LoadTypeOK
  BY <1>1 DEF LoadIInv
<1>3. Enabled' = Enabled /\ AboutOK' /\ Enabled \subseteq PluginNames
  BY <1>1, <1>2 DEF Enabled, AboutOK
<1>4. \A p \in Enabled : about[p].rank \in Int
  BY <1>2, <1>3, RanksAreInt
<1>5. ready \in Seq(Enabled) /\ IsInjective(ready) /\ placed \in Seq(Enabled) /\ IsInjective(placed)
  BY <1>2 DEF Sorting
<1>6. /\ sorted \in Seq(Enabled) /\ Len(sorted) = Len(ready) /\ ToSet(sorted) = ToSet(ready)
      /\ IsInjective(sorted)
      /\ \A p \in ToSet(ready) : about[node].rank <= about[p].rank
  BY <1>1, <1>4, <1>5, ByRankSorts
<1>7. sorted # <<>>
  BY <1>1, <1>5, <1>6
<1> HIDE DEF sorted
<1>8. /\ Tail(sorted) \in Seq(Enabled) /\ IsInjective(Tail(sorted))
      /\ node \in ToSet(ready) /\ ToSet(Tail(sorted)) = ToSet(ready) \ {node}
  BY <1>6, <1>7, TailOnce
<1> HIDE DEF node
<1>9. ToSet(ready) = {p \in Enabled \ ToSet(placed) : about[p].depends \subseteq ToSet(placed)}
  BY <1>2 DEF Sorting
<1>10. node \in Enabled /\ node \notin ToSet(placed) /\ about[node].depends \subseteq ToSet(placed)
  BY <1>8, <1>9
<1>11. /\ placed' \in Seq(Enabled) /\ IsInjective(placed')
       /\ ToSet(placed') = ToSet(placed) \cup {node}
       /\ Len(placed') = m /\ placed'[m] = node
       /\ \A k \in 1..Len(placed) : placed'[k] = placed[k]
  BY <1>0, <1>1, <1>5, <1>10, AppendOnce
<1>12. \A p \in Enabled : waiting[p] = about[p].depends \ ToSet(placed)
  BY <1>2 DEF Sorting
<1>13. waiting' = [p \in Enabled |-> about[p].depends \ ToSet(placed')]
  <2>1. DOMAIN waiting = Enabled
    BY <1>2 DEF Sorting
  <2>2. \A p \in Enabled : waiting[p] \ {node} = about[p].depends \ ToSet(placed')
    BY <1>11, <1>12
  <2> QED BY <1>1, <2>1, <2>2
<1>14. active \in Seq(PluginNames) /\ IsInjective(active) /\ ToSet(active) = Enabled
  BY <1>2 DEF Sorting, ActiveOnce
<1>15. active \in Seq(Enabled)
  <2>1. Len(active) \in Nat /\ DOMAIN active = 1..Len(active)
    BY <1>14
  <2>2. active \in [1..Len(active) -> Enabled]
    BY <1>14, <2>1 DEF ToSet
  <2> QED BY <2>1, <2>2
<1>16. \A p : p \in freed <=> p \in Enabled /\ about[p].depends \ ToSet(placed) = {node}
  BY <1>12, <1>14
<1> HIDE DEF freed
<1>17. /\ Those(active, freed) \in Seq(Enabled) /\ IsInjective(Those(active, freed))
       /\ \A p : p \in ToSet(Those(active, freed)) <=> p \in freed
  <2>1. ToSet(Those(active, freed)) = ToSet(active) \cap freed
    BY <1>15, ThoseAreListed
  <2>2. \A p \in freed : p \in ToSet(active)
    BY <1>14, <1>16
  <2>3. Those(active, freed) \in Seq(Enabled) /\ IsInjective(Those(active, freed))
    BY <1>14, <1>15, ThoseAreListed
  <2> QED BY <2>1, <2>2, <2>3
<1>18. \A p : p \in ToSet(Tail(sorted)) <=> p \in Enabled /\ p # node /\ p \notin ToSet(placed) /\ about[p].depends \subseteq ToSet(placed)
  BY <1>8, <1>9
<1>19. ASSUME NEW p \in freed PROVE ~(about[p].depends \subseteq ToSet(placed))
  BY <1>10, <1>16
<1>20. /\ ready' \in Seq(Enabled) /\ IsInjective(ready')
       /\ ToSet(ready') = ToSet(Tail(sorted)) \cup ToSet(Those(active, freed))
  <2>1. \A x \in ToSet(Tail(sorted)) : x \notin ToSet(Those(active, freed))
    BY <1>17, <1>18, <1>19
  <2>2. PICK rest, added : rest = Tail(sorted) /\ added = Those(active, freed)
    OBVIOUS
  <2>3. rest \in Seq(Enabled) /\ added \in Seq(Enabled) /\ IsInjective(rest) /\ IsInjective(added)
    BY <1>8, <1>17, <2>2
  <2>4. rest \o added \in Seq(Enabled) /\ IsInjective(rest \o added) /\ ToSet(rest \o added) = ToSet(rest) \cup ToSet(added)
    BY ZenonT(40), <2>1, <2>2, <2>3, ConcatOnce
  <2> QED BY <1>1, <2>2, <2>4
<1>21. \A k \in 1..Len(placed) : \A d \in about[placed[k]].depends : d \in ToSet(placed)
  <2>1. \A k \in 1..Len(placed) : \A d \in about[placed[k]].depends : \E l \in 1..(k - 1) : placed[l] = d
    BY <1>2 DEF Sorting, Laid, PlacedAfter
  <2>2. \A k \in 1..Len(placed) : \A l \in 1..(k - 1) : l \in DOMAIN placed
    BY <1>5
  <2> QED BY <2>1, <2>2 DEF ToSet
<1>22. ASSUME NEW p \in ToSet(placed) PROVE about[p].depends \subseteq ToSet(placed)
  <2>1. DOMAIN placed = 1..Len(placed)
    BY <1>5
  <2>2. PICK k \in 1..Len(placed) : p = placed[k]
    BY <1>22, <2>1 DEF ToSet
  <2> QED BY <1>21, <2>2
<1>23. ToSet(ready') = {p \in Enabled \ ToSet(placed') : about[p].depends \subseteq ToSet(placed')}
  <2>1. ASSUME NEW p \in ToSet(ready')
        PROVE  p \in Enabled /\ p \notin ToSet(placed') /\ about[p].depends \subseteq ToSet(placed')
    <3>1. CASE p \in ToSet(Tail(sorted))
      BY <1>11, <1>18, <3>1
    <3>2. CASE p \in freed
      <4>1. p \in Enabled /\ about[p].depends \ ToSet(placed) = {node}
        BY <1>16, <3>2
      <4>2. about[p].depends \subseteq ToSet(placed')
        BY <1>11, <4>1
      <4>3. p \notin ToSet(placed)
        BY <1>19, <1>22, <3>2
      <4>4. p # node
        BY <1>10, <1>19, <3>2
      <4> QED BY <1>11, <4>1, <4>2, <4>3, <4>4
    <3> QED BY <1>17, <1>20, <2>1, <3>1, <3>2
  <2>2. ASSUME NEW p \in Enabled, p \notin ToSet(placed'), about[p].depends \subseteq ToSet(placed')
        PROVE  p \in ToSet(ready')
    <3>1. p # node /\ p \notin ToSet(placed)
      BY <1>11, <2>2
    <3>2. CASE about[p].depends \subseteq ToSet(placed)
      BY <1>18, <1>20, <3>1, <3>2
    <3>3. CASE ~(about[p].depends \subseteq ToSet(placed))
      <4>1. about[p].depends \ ToSet(placed) = {node}
        BY <1>11, <2>2, <3>3
      <4> QED BY <1>16, <1>17, <1>20, <4>1
    <3> QED BY <3>2, <3>3
  <2> QED BY <2>1, <2>2
<1>24. m \in Nat /\ m - 1 = Len(placed) /\ Len(placed) \in Nat /\ DOMAIN placed = 1..Len(placed)
  BY <1>0, <1>5
<1>25. \A k \in 1..m : k \in 1..Len(placed) \/ k = m
  BY <1>24
<1>26. ASSUME NEW d \in ToSet(placed) PROVE PlacedAfter(m, d)'
  <2>1. PICK k \in 1..Len(placed) : d = placed[k]
    BY <1>24, <1>26 DEF ToSet
  <2> QED BY <1>11, <1>24, <2>1 DEF PlacedAfter
<1>27. ASSUME NEW k \in 1..Len(placed), NEW d PROVE PlacedAfter(k, d)' <=> PlacedAfter(k, d)
  <2>1. \A l \in 1..(k - 1) : l \in 1..Len(placed)
    BY <1>24
  <2> QED BY <1>11, <2>1 DEF PlacedAfter
<1>28. ASSUME NEW k \in 1..Len(placed), NEW p PROVE NotYet(k, p)' <=> NotYet(k, p)
  <2>1. \A l \in 1..k : l \in 1..Len(placed)
    BY <1>24
  <2> QED BY <1>11, <2>1 DEF NotYet
<1>29. ASSUME NEW k \in 1..m, NEW d \in about[placed'[k]].depends PROVE PlacedAfter(k, d)'
  <2>1. CASE k = m
    BY <1>10, <1>11, <1>26, <1>29, <2>1
  <2>2. CASE k \in 1..Len(placed)
    <3>1. PlacedAfter(k, d)
      BY <1>2, <1>11, <1>29, <2>2 DEF Sorting, Laid
    <3> QED BY <1>27, <2>2, <3>1
  <2> QED BY <1>25, <2>1, <2>2
<1>30. ASSUME NEW k \in 1..m, NEW p \in Enabled, about[placed'[k]].rank > about[p].rank, NotYet(k, p)'
       PROVE  \E d \in about[p].depends : ~PlacedAfter(k, d)'
  <2>1. CASE k = m
    <3>1. \A l \in 1..m : placed'[l] # p
      BY <1>30, <2>1 DEF NotYet
    <3>2. p # node
      BY <1>11, <1>24, <3>1
    <3>3. \A l \in 1..Len(placed) : placed[l] # p
      <4>1. \A l \in 1..Len(placed) : l \in 1..m
        BY <1>24
      <4> QED BY <1>11, <3>1, <4>1
    <3>4. p \notin ToSet(placed)
      BY <1>24, <3>3 DEF ToSet
    <3>5. about[node].rank > about[p].rank /\ about[node].rank \in Int /\ about[p].rank \in Int
      BY <1>4, <1>10, <1>11, <1>30, <2>1
    <3>6. p \notin ToSet(ready)
      BY <1>6, <3>5
    <3>7. PICK d \in about[p].depends : d \notin ToSet(placed)
      BY <1>9, <3>4, <3>6
    <3>8. ~PlacedAfter(m, d)'
      <4>1. \A l \in 1..(m - 1) : placed'[l] # d
        BY <1>11, <1>24, <3>7 DEF ToSet
      <4> QED BY <4>1 DEF PlacedAfter
    <3> QED BY <2>1, <3>7, <3>8
  <2>2. CASE k \in 1..Len(placed)
    <3>1. NotYet(k, p) /\ about[placed[k]].rank > about[p].rank
      BY <1>11, <1>28, <1>30, <2>2
    <3>2. PICK d \in about[p].depends : ~PlacedAfter(k, d)
      BY <1>2, <2>2, <3>1 DEF Sorting, Laid
    <3> QED BY <1>27, <2>2, <3>2
  <2> QED BY <1>25, <2>1, <2>2
<1>31. Laid'
  <2>1. Len(placed)' = m
    BY <1>11
  <2> QED BY <1>1, <1>3, <1>29, <1>30, <2>1 DEF Laid
<1>32. Sorting'
  <2>1. \A p \in Enabled : about[p].depends \subseteq Enabled
    BY <1>2 DEF Sorting
  <2> QED BY <1>1, <1>3, <1>11, <1>13, <1>14, <1>20, <1>23, <1>31, <2>1 DEF Sorting, ActiveOnce
<1>33. LoadTypeOK'
  <2>1. ready' \in Seq(PluginNames) /\ placed' \in Seq(PluginNames)
    BY <1>3, <1>11, <1>20
  <2>2. DOMAIN waiting' \subseteq PluginNames
    BY <1>3, <1>13
  <2> QED BY <1>1, <1>2, <2>1, <2>2 DEF LoadTypeOK
<1> QED BY <1>1, <1>3, <1>32, <1>33 DEF LoadIInv

(* Where nothing is ready: either all is placed, or what is left goes in   *)
(* a circle.                                                               *)
LEMMA LeftIsCircle ==
  ASSUME Sorting, ready = <<>>
  PROVE  /\ Len(placed) < Len(active) => \E S \in SUBSET Enabled : Circle(S)
         /\ ~(Len(placed) < Len(active)) => ToSet(placed) = Enabled /\ Len(placed) = Len(active)
         /\ \A S \in SUBSET Enabled : Circle(S) => Len(placed) < Len(active)
<1>1. placed \in Seq(Enabled) /\ IsInjective(placed) /\ active \in Seq(PluginNames) /\ IsInjective(active)
      /\ ToSet(active) = Enabled
  BY DEF Sorting, ActiveOnce
<1>2. /\ IsFiniteSet(Enabled) /\ Cardinality(Enabled) = Len(active)
      /\ IsFiniteSet(ToSet(placed)) /\ Cardinality(ToSet(placed)) = Len(placed)
  BY <1>1, LengthOfInjective
<1>3. Len(placed) \in Nat /\ Len(active) \in Nat /\ DOMAIN placed = 1..Len(placed)
  BY <1>1
<1>4. ToSet(placed) \in SUBSET Enabled
  BY <1>1, <1>3 DEF ToSet
<1>5. Len(placed) <= Len(active) /\ (Len(placed) = Len(active) => ToSet(placed) = Enabled)
  BY <1>2, <1>4, FS_Subset
<1>6. ~(Len(placed) < Len(active)) => ToSet(placed) = Enabled /\ Len(placed) = Len(active)
  BY <1>3, <1>5
<1>7. ASSUME Len(placed) < Len(active) PROVE Circle(Enabled \ ToSet(placed))
  <2> DEFINE left == Enabled \ ToSet(placed)
  <2>1. left # {}
    <3>1. ToSet(placed) # Enabled
      BY <1>2, <1>3, <1>7
    <3> QED BY <1>4, <3>1
  <2>2. ToSet(ready) = {}
    BY EmptyOnce
  <2>3. \A p \in left : ~(about[p].depends \subseteq ToSet(placed)) /\ about[p].depends \subseteq Enabled
    BY <2>2 DEF Sorting
  <2>4. \A p \in left : about[p].depends \cap left # {}
    BY <2>3
  <2> QED BY <2>1, <2>4 DEF Circle
<1>8. ASSUME NEW S \in SUBSET Enabled, Circle(S), ToSet(placed) = Enabled PROVE FALSE
  <2> DEFINE I == {i \in 1..Len(placed) : placed[i] \in S}
  <2>1. IsFiniteSet(1..Len(placed)) /\ I \in SUBSET (1..Len(placed))
    BY <1>3, FiniteInterval
  <2>2. IsFiniteSet(I)
    BY <2>1, FS_Subset
  <2>3. PICK p : p \in S
    BY <1>8 DEF Circle
  <2>4. PICK i \in 1..Len(placed) : placed[i] = p
    BY <1>3, <1>8, <2>3 DEF ToSet
  <2>5. I # {} /\ \A j \in I : j \in Int
    BY <2>3, <2>4
  <2>6. \A j : j \in I <=> j \in 1..Len(placed) /\ placed[j] \in S
    OBVIOUS
  <2> HIDE DEF I
  <2>7. PICK j \in I : \A k \in I : j <= k
    BY <2>2, <2>5, FirstOf
  <2>8. j \in 1..Len(placed) /\ placed[j] \in S
    BY <2>6, <2>7
  <2>9. PICK d : d \in about[placed[j]].depends /\ d \in S
    BY <1>8, <2>8 DEF Circle
  <2>10. PICK k \in 1..(j - 1) : placed[k] = d
    BY <2>8, <2>9 DEF Sorting, Laid, PlacedAfter
  <2>11. k \in 1..Len(placed) /\ ~(j <= k)
    BY <1>3, <2>8, <2>10
  <2>12. k \in I
    BY <2>6, <2>9, <2>10, <2>11
  <2> QED BY <2>7, <2>11, <2>12
<1>9. \A S \in SUBSET Enabled : Circle(S) => Len(placed) < Len(active)
  BY <1>6, <1>8
<1>10. Enabled \ ToSet(placed) \in SUBSET Enabled
  OBVIOUS
<1> QED BY <1>6, <1>7, <1>9, <1>10

LEMMA SortEndsHolds == ASSUME LoadIInv, SortEnds PROVE LoadIInv'
<1>1. loading = "sorting" /\ ready = <<>> /\ UNCHANGED <<about, position, waiting, ready, placed>>
  BY DEF SortEnds
<1>2. Sorting /\ AboutOK /\ LoadTypeOK
  BY <1>1 DEF LoadIInv
<1>3. Enabled' = Enabled /\ AboutOK' /\ Enabled \subseteq PluginNames
  BY <1>1, <1>2 DEF Enabled, AboutOK
<1>4. CASE Len(placed) # Len(active)
  <2>1. loading' = "failed" /\ active' = active
    BY <1>4 DEF SortEnds
  <2>2. LoadTypeOK'
    BY <1>1, <1>2, <2>1 DEF LoadTypeOK
  <2> QED BY <1>3, <2>1, <2>2 DEF LoadIInv
<1>5. CASE Len(placed) = Len(active)
  <2>1. loading' = "loaded" /\ active' = placed
    BY <1>5 DEF SortEnds
  <2>2. placed \in Seq(Enabled) /\ IsInjective(placed) /\ active \in Seq(PluginNames)
    BY <1>2 DEF Sorting, ActiveOnce
  <2>3. ToSet(placed) = Enabled
    <3>1. ~(Len(placed) < Len(active))
      BY <1>5, <2>2
    <3> QED BY <1>1, <1>2, <3>1, LeftIsCircle
  <2>4. LoadTypeOK'
    <3>1. active' \in Seq(PluginNames)
      BY <1>2, <2>1 DEF LoadTypeOK
    <3> QED BY <1>1, <1>2, <2>1, <3>1 DEF LoadTypeOK
  <2>5. Len(placed) \in Nat /\ DOMAIN placed = 1..Len(placed)
    BY <2>2
  <2>6. ASSUME NEW n \in 1..Len(placed) PROVE PlaceOf(placed[n])' = n
    <3>1. PlaceOf(placed[n])' = CHOOSE k \in DOMAIN placed : placed[k] = placed[n]
      BY <1>1, <2>1 DEF PlaceOf
    <3>2. \A k \in DOMAIN placed : placed[k] = placed[n] => k = n
      BY <2>2, <2>5 DEF IsInjective
    <3>3. n \in DOMAIN placed
      BY <2>5
    <3> QED BY <3>1, <3>2, <3>3
  <2>7. ASSUME NEW p \in Enabled, NEW d \in about[p].depends PROVE PlaceOf(d)' < PlaceOf(p)'
    <3>1. PICK n \in 1..Len(placed) : placed[n] = p
      BY <2>3, <2>5 DEF ToSet
    <3>2. PICK k \in 1..(n - 1) : placed[k] = d
      BY <1>2, <2>7, <3>1 DEF Sorting, Laid, PlacedAfter
    <3>3. k \in 1..Len(placed) /\ k < n
      BY <2>5, <3>1, <3>2
    <3>4. PlaceOf(placed[k])' = k /\ PlaceOf(placed[n])' = n
      BY <2>6, <3>1, <3>3
    <3>5. PlaceOf(placed[k])' = PlaceOf(d)' /\ PlaceOf(placed[n])' = PlaceOf(p)'
      BY <1>1, <3>1, <3>2
    <3> QED BY <3>3, <3>4, <3>5
  <2>8. ASSUME NEW m \in 1..Len(placed), NEW n \in 1..Len(placed), m < n,
               about[placed[m]].rank > about[placed[n]].rank
        PROVE  \E d \in about[placed[n]].depends : PlaceOf(d)' >= m
    <3>1. NotYet(m, placed[n])
      <4>1. \A k \in 1..m : k \in DOMAIN placed /\ n \in DOMAIN placed /\ k # n
        BY <2>5, <2>8
      <4> QED BY <2>2, <4>1 DEF NotYet, IsInjective
    <3>2. placed[n] \in Enabled
      BY <2>3, <2>5 DEF ToSet
    <3>3. PICK d \in about[placed[n]].depends : ~PlacedAfter(m, d)
      BY <1>2, <2>8, <3>1, <3>2 DEF Sorting, Laid
    <3>4. d \in Enabled
      BY <1>2, <3>2, <3>3 DEF Sorting
    <3>5. PICK k \in 1..Len(placed) : placed[k] = d
      BY <2>3, <2>5, <3>4 DEF ToSet
    <3>6. k >= m
      <4>1. k \notin 1..(m - 1)
        BY <3>3, <3>5 DEF PlacedAfter
      <4> QED BY <2>5, <4>1
    <3>7. PlaceOf(placed[k])' = k /\ PlaceOf(placed[k])' = PlaceOf(d)'
      BY <1>1, <2>6, <3>5
    <3> QED BY <3>3, <3>6, <3>7
  <2>9. AllLoaded'
    BY <1>1, <1>3, <2>1, <2>2, <2>3, <2>5, <2>7, <2>8 DEF AllLoaded
  <2> QED BY <1>3, <2>1, <2>4, <2>9 DEF LoadIInv
<1> QED BY <1>4, <1>5

LEMMA LoadStepHolds == LoadIInv /\ [LoadNext]_loadVars => LoadIInv'
<1> SUFFICES ASSUME LoadIInv, [LoadNext]_loadVars PROVE LoadIInv'
  OBVIOUS
<1>1. CASE UNCHANGED loadVars
  <2>1. AboutOK' /\ LoadTypeOK' /\ UNCHANGED loading
    BY <1>1 DEF loadVars, LoadIInv, AboutOK, LoadTypeOK
  <2>2. LoadedSoFar => LoadedSoFar'
    BY <1>1 DEF loadVars, LoadedSoFar, ActiveOnce
  <2>3. Sorting => Sorting'
    BY <1>1 DEF loadVars, Sorting, ActiveOnce, Enabled, Laid, PlacedAfter, NotYet
  <2>4. AllLoaded => AllLoaded'
    BY <1>1 DEF loadVars, AllLoaded, Enabled, PlaceOf
  <2> QED BY <2>1, <2>2, <2>3, <2>4 DEF LoadIInv
<1> QED BY <1>1, SkipsHolds, InitializesHolds, LoadFailsHolds, SortStartsHolds, PlaceHolds, SortEndsHolds DEF LoadNext

LEMMA LoadImplies == LoadIInv => LoadTypeOK /\ PluginsInOrder
<1> SUFFICES ASSUME LoadIInv PROVE LoadTypeOK /\ PluginsInOrder
  OBVIOUS
<1>1. LoadTypeOK /\ (loading = "loaded" => AllLoaded)
  BY DEF LoadIInv
<1>2. (loading = "sorting" /\ ready = <<>>) => ((Len(placed) < Len(active)) <=> \E S \in SUBSET Enabled : Circle(S))
  BY LeftIsCircle DEF LoadIInv
<1> QED BY <1>1, <1>2 DEF PluginsInOrder, AllLoaded

(* PluginLoader._validate_dependencies gives all enabled plugins, each     *)
(* once and after those it depends on, by phase where no dependency        *)
(* forbids it; it finds no order only where dependencies go in a circle.   *)
THEOREM PluginsStartInOrder == LoadSpec => [](LoadTypeOK /\ PluginsInOrder)
<1> QED BY LoadInitHolds, LoadStepHolds, LoadImplies, PTL DEF LoadSpec

--------------------------------------------------------------------------------
(* ToolRegistry: names lead back to the tools they were made of.           *)

RegistryTyped ==
  /\ DOMAIN tools \subseteq ToolNames /\ frozen \in BOOLEAN
  /\ called.meant \in ToolNames \cup {""}
  /\ registrations \in Seq([name : ToolNames, version : Nat, late : BOOLEAN])
  /\ schemaVersion = Len(registrations) /\ Len(registrations) <= MaxRegistrations
  /\ \A i \in DOMAIN registrations : registrations[i].version = i

(* Each tool has one of its forms, and what has a form is the tool that    *)
(* has it.                                                                 *)
AliasesAgree ==
  /\ DOMAIN encoded = DOMAIN tools
  /\ \A n \in DOMAIN encoded : /\ encoded[n] \in {Sanitized(n), Suffixed(n)}
                               /\ encoded[n] \in DOMAIN decoded /\ decoded[encoded[n]] = n
  /\ \A x \in DOMAIN decoded : decoded[x] \in DOMAIN encoded /\ encoded[decoded[x]] = x

RegistryIInv == RegistryTyped /\ AliasesAgree

LEMMA RegisterKeeps ==
  ASSUME SuffixesTellApart, RegistryIInv, NEW name \in ToolNames, NEW source, DoRegister(name, source),
         UNCHANGED <<frozen, called>>
  PROVE  RegistryIInv'
<1>0. /\ Len(registrations) < MaxRegistrations /\ schemaVersion' = schemaVersion + 1
      /\ tools' = With(tools, name, source) /\ encoded' = With(encoded, name, Alias(name))
      /\ decoded' = IF name \in DOMAIN encoded THEN decoded ELSE With(decoded, Alias(name), name)
      /\ registrations' = Append(registrations, [name |-> name, version |-> schemaVersion + 1, late |-> frozen])
  BY DEF DoRegister
<1>1. RegistryTyped'
  <2> DEFINE entry == [name |-> name, version |-> schemaVersion + 1, late |-> frozen]
             entries == [name : ToolNames, version : Nat, late : BOOLEAN]
  <2>1. /\ registrations \in Seq(entries) /\ schemaVersion = Len(registrations) /\ Len(registrations) \in Nat
        /\ entry \in entries /\ entry.version = schemaVersion + 1
    <3>1. /\ registrations \in Seq(entries) /\ schemaVersion = Len(registrations)
          /\ frozen \in BOOLEAN
      BY DEF RegistryIInv, RegistryTyped
    <3>2. Len(registrations) \in Nat
      BY <3>1, LenProperties
    <3>3. schemaVersion + 1 \in Nat
      BY <3>1, <3>2
    <3>4. entry \in entries
      BY <3>1, <3>3
    <3> QED BY <3>1, <3>2, <3>4
  <2>2. registrations' = Append(registrations, entry)
    BY <1>0
  <2> HIDE DEF entry, entries
  <2>3. /\ registrations' \in Seq(entries) /\ Len(registrations') = Len(registrations) + 1
        /\ DOMAIN registrations' = 1..(Len(registrations) + 1) /\ DOMAIN registrations = 1..Len(registrations)
        /\ registrations'[Len(registrations) + 1] = entry
        /\ \A i \in 1..Len(registrations) : registrations'[i] = registrations[i]
    BY <2>1, <2>2, AppendProperties, LenProperties
  <2>4. \A i \in DOMAIN registrations' : registrations'[i].version = i
    <3>1. \A i \in 1..Len(registrations) : registrations[i].version = i
      BY <2>3 DEF RegistryIInv, RegistryTyped
    <3> QED BY <2>1, <2>3, <3>1
  <2>5. DOMAIN tools' \subseteq ToolNames
    <3>1. DOMAIN tools' = DOMAIN tools \cup {name}
      BY <1>0 DEF With
    <3> QED BY <3>1 DEF RegistryIInv, RegistryTyped
  <2>6. schemaVersion' = Len(registrations') /\ Len(registrations') <= MaxRegistrations
    <3>1. Len(registrations) + 1 <= MaxRegistrations
      <4>1. Len(registrations) \in Nat /\ Len(registrations) < MaxRegistrations /\ MaxRegistrations \in Nat
        BY <1>0, <2>1, RegistryAssumption
      <4> QED BY <4>1
    <3> QED BY <1>0, <2>1, <2>3, <3>1
  <2>7. frozen' \in BOOLEAN /\ called'.meant \in ToolNames \cup {""}
    BY DEF RegistryIInv, RegistryTyped
  <2> QED BY <2>3, <2>4, <2>5, <2>6, <2>7 DEF RegistryTyped, entries
<1>2. DOMAIN encoded' = DOMAIN tools' /\ DOMAIN encoded' = DOMAIN encoded \cup {name} /\ DOMAIN encoded \subseteq ToolNames
  <2>1. DOMAIN encoded' = DOMAIN encoded \cup {name} /\ DOMAIN tools' = DOMAIN tools \cup {name}
    BY <1>0 DEF With
  <2> QED BY <2>1 DEF RegistryIInv, RegistryTyped, AliasesAgree
<1>3. CASE name \in DOMAIN encoded
  <2>1. Alias(name) = encoded[name]
    BY <1>3 DEF Alias
  <2>2. \A n \in DOMAIN encoded' : encoded'[n] = encoded[n]
    BY <1>0, <1>3, <2>1 DEF With
  <2>3. decoded' = decoded /\ DOMAIN encoded' = DOMAIN encoded
    BY <1>0, <1>2, <1>3
  <2>4. AliasesAgree'
    BY <1>2, <2>2, <2>3 DEF RegistryIInv, AliasesAgree
  <2> QED BY <1>1, <2>4 DEF RegistryIInv
<1>4. CASE name \notin DOMAIN encoded
  <2> DEFINE alias == Alias(name)
  <2>1. alias \in {Sanitized(name), Suffixed(name)} /\ alias \notin DOMAIN decoded
    <3>1. ASSUME NEW x \in DOMAIN decoded
          PROVE  /\ decoded[x] \in ToolNames /\ decoded[x] # name
                 /\ x \in {Sanitized(decoded[x]), Suffixed(decoded[x])}
      <4>1. decoded[x] \in DOMAIN encoded /\ encoded[decoded[x]] = x
        BY DEF RegistryIInv, AliasesAgree
      <4>2. encoded[decoded[x]] \in {Sanitized(decoded[x]), Suffixed(decoded[x])}
        BY <4>1 DEF RegistryIInv, AliasesAgree
      <4> QED BY <1>2, <1>4, <4>1, <4>2
    <3>2. CASE Sanitized(name) \in DOMAIN decoded
      <4>1. alias = Suffixed(name)
        BY <1>4, <3>1, <3>2 DEF Alias
      <4>2. Suffixed(name) \notin DOMAIN decoded
        BY <3>1 DEF SuffixesTellApart
      <4> QED BY <4>1, <4>2
    <3>3. CASE Sanitized(name) \notin DOMAIN decoded
      <4>1. alias = Sanitized(name)
        BY <1>4, <3>3 DEF Alias
      <4> QED BY <3>3, <4>1
    <3> QED BY <3>2, <3>3
  <2> HIDE DEF alias
  <2>2. encoded' = With(encoded, name, alias) /\ decoded' = With(decoded, alias, name)
    BY <1>0, <1>4 DEF alias
  <2>3. encoded'[name] = alias /\ \A n \in DOMAIN encoded : encoded'[n] = encoded[n]
    BY <1>4, <2>2 DEF With
  <2>4. /\ DOMAIN decoded' = DOMAIN decoded \cup {alias} /\ decoded'[alias] = name
        /\ \A x \in DOMAIN decoded : decoded'[x] = decoded[x]
    BY <2>1, <2>2 DEF With
  <2>5. \A n \in DOMAIN encoded' : /\ encoded'[n] \in {Sanitized(n), Suffixed(n)}
                                   /\ encoded'[n] \in DOMAIN decoded' /\ decoded'[encoded'[n]] = n
    BY <1>2, <2>1, <2>3, <2>4 DEF RegistryIInv, AliasesAgree
  <2>6. \A x \in DOMAIN decoded' : decoded'[x] \in DOMAIN encoded' /\ encoded'[decoded'[x]] = x
    BY <1>2, <2>3, <2>4 DEF RegistryIInv, AliasesAgree
  <2>7. AliasesAgree'
    BY <1>2, <2>5, <2>6 DEF AliasesAgree
  <2> QED BY <1>1, <2>7 DEF RegistryIInv
<1> QED BY <1>3, <1>4

LEMMA NothingRegistered ==
  ASSUME tools = <<>>, encoded = <<>>, decoded = <<>>, registrations = <<>>, schemaVersion = 0,
         called = NoCall, frozen \in BOOLEAN
  PROVE  RegistryIInv
<1>1. DOMAIN tools = {} /\ DOMAIN encoded = {} /\ DOMAIN decoded = {} /\ DOMAIN registrations = {} /\ Len(registrations) = 0
  OBVIOUS
<1>2. called.meant = ""
  BY DEF NoCall
<1>3. registrations \in Seq([name : ToolNames, version : Nat, late : BOOLEAN])
  OBVIOUS
<1>4. RegistryTyped
  <2>1. MaxRegistrations \in Nat
    BY RegistryAssumption
  <2>2. schemaVersion = Len(registrations) /\ Len(registrations) <= MaxRegistrations
    BY <1>1, <2>1
  <2> QED BY <1>1, <1>2, <1>3, <2>2 DEF RegistryTyped
<1>5. AliasesAgree
  BY <1>1 DEF AliasesAgree
<1> QED BY <1>4, <1>5 DEF RegistryIInv

LEMMA RegistryStepHolds == SuffixesTellApart /\ RegistryIInv /\ [RegistryNext]_registryVars => RegistryIInv'
<1> SUFFICES ASSUME SuffixesTellApart, RegistryIInv, [RegistryNext]_registryVars PROVE RegistryIInv'
  OBVIOUS
<1>1. CASE Freeze
  BY <1>1 DEF Freeze, RegistryIInv, RegistryTyped, AliasesAgree
<1>2. CASE ClearTools
  <2>1. /\ tools' = <<>> /\ encoded' = <<>> /\ decoded' = <<>> /\ registrations' = <<>> /\ schemaVersion' = 0
        /\ called' = NoCall /\ frozen' \in BOOLEAN
    BY <1>2 DEF ClearTools, RegistryIInv, RegistryTyped
  <2>2. DOMAIN tools' = {} /\ DOMAIN encoded' = {} /\ DOMAIN decoded' = {} /\ DOMAIN registrations' = {}
        /\ Len(registrations') = 0 /\ registrations' \in Seq([name : ToolNames, version : Nat, late : BOOLEAN])
    BY <2>1
  <2>3. called'.meant = ""
    BY <2>1 DEF NoCall
  <2>4. RegistryTyped'
    <3>1. MaxRegistrations \in Nat
      BY RegistryAssumption
    <3>2. schemaVersion' = Len(registrations') /\ Len(registrations') <= MaxRegistrations
      BY <2>1, <2>2, <3>1
    <3> QED BY <2>1, <2>2, <2>3, <3>2 DEF RegistryTyped
  <2>5. AliasesAgree'
    BY <2>2 DEF AliasesAgree
  <2> QED BY <2>4, <2>5 DEF RegistryIInv
<1>3. ASSUME NEW n \in ToolNames, ModelCalls(n) PROVE RegistryIInv'
  <2>1. called'.meant = n /\ UNCHANGED <<tools, encoded, decoded, frozen, schemaVersion, registrations>>
    BY <1>3 DEF ModelCalls
  <2> QED BY <2>1 DEF RegistryIInv, RegistryTyped, AliasesAgree
<1>4. ASSUME NEW n \in ToolNames, NEW s \in ToolSources, Register(n, s) \/ RegisterLate(n, s) PROVE RegistryIInv'
  BY <1>4, RegisterKeeps DEF Register, RegisterLate
<1>5. CASE UNCHANGED registryVars
  BY <1>5 DEF registryVars, RegistryIInv, RegistryTyped, AliasesAgree
<1> QED BY <1>1, <1>2, <1>3, <1>4, <1>5 DEF RegistryNext

LEMMA RegistryImplies == RegistryIInv => RegistryTypeOK /\ NamesLeadBack
<1> SUFFICES ASSUME RegistryIInv PROVE RegistryTypeOK /\ NamesLeadBack
  OBVIOUS
<1>1. Len(registrations) \in Nat /\ schemaVersion \in 0..MaxRegistrations
  <2>1. /\ registrations \in Seq([name : ToolNames, version : Nat, late : BOOLEAN])
        /\ schemaVersion = Len(registrations) /\ Len(registrations) <= MaxRegistrations
    BY DEF RegistryIInv, RegistryTyped
  <2>2. Len(registrations) \in Nat /\ MaxRegistrations \in Nat
    BY <2>1, LenProperties, RegistryAssumption
  <2> QED BY <2>1, <2>2
<1>2. RegistryTypeOK
  BY <1>1 DEF RegistryIInv, RegistryTyped, AliasesAgree, RegistryTypeOK
<1>3. \A n \in DOMAIN tools : Decode(encoded[n]) = n
  BY DEF RegistryIInv, AliasesAgree, Decode
<1>4. NamesLeadBack
  BY <1>3 DEF RegistryIInv, RegistryTyped, AliasesAgree, NamesLeadBack
<1> QED BY <1>2, <1>4

(* A call that is decoded twice executes what was meant where no form of a *)
(* name is another tool's name.                                            *)
LEMMA CalledStepHolds ==
  ASSUME FormsAreOwn, RegistryIInv, CalledIsMeant, [RegistryNext]_registryVars
  PROVE  CalledIsMeant'
<1>1. ASSUME NEW n \in ToolNames, ModelCalls(n) PROVE CalledIsMeant'
  <2>1. n \in DOMAIN tools /\ called' = [meant |-> n, found |-> Decode(Decode(encoded[n]))]
    BY <1>1 DEF ModelCalls
  <2>2. Decode(encoded[n]) = n
    BY <2>1 DEF RegistryIInv, AliasesAgree, Decode
  <2>3. Decode(n) = n
    <3>1. CASE n \notin DOMAIN decoded
      BY <3>1 DEF Decode
    <3>2. CASE n \in DOMAIN decoded
      <4>1. decoded[n] \in ToolNames /\ n \in {Sanitized(decoded[n]), Suffixed(decoded[n])}
        BY <3>2 DEF RegistryIInv, RegistryTyped, AliasesAgree
      <4>2. decoded[n] = n
        BY <4>1 DEF FormsAreOwn
      <4> QED BY <3>2, <4>2 DEF Decode
    <3> QED BY <3>1, <3>2
  <2> QED BY <2>1, <2>2, <2>3 DEF CalledIsMeant
<1>2. CASE ClearTools
  BY <1>2 DEF ClearTools, NoCall, CalledIsMeant
<1>3. CASE UNCHANGED called
  BY <1>3 DEF CalledIsMeant
<1>4. Freeze \/ (\E n \in ToolNames, s \in ToolSources : Register(n, s) \/ RegisterLate(n, s)) \/ UNCHANGED registryVars
        => UNCHANGED called
  BY DEF Freeze, Register, RegisterLate, registryVars
<1> QED BY <1>1, <1>2, <1>3, <1>4 DEF RegistryNext

LEMMA RegistryInitHolds == RegistryInit => RegistryIInv /\ CalledIsMeant
<1>1. RegistryInit => RegistryIInv
  BY NothingRegistered DEF RegistryInit
<1>2. RegistryInit => CalledIsMeant
  <2>1. NoCall.found = NoCall.meant
    BY DEF NoCall
  <2> QED BY <2>1 DEF RegistryInit, CalledIsMeant
<1> QED BY <1>1, <1>2

(* Whatever the order of registration and clearing, the names shown to the *)
(* model are one for each tool and lead back to it, if the suffixes the    *)
(* registry hashes tell names apart.                                       *)
THEOREM NamesStayApart == SuffixesTellApart /\ RegistrySpec => [](RegistryTypeOK /\ NamesLeadBack)
<1>1. SUFFICES ASSUME SuffixesTellApart PROVE RegistrySpec => [](RegistryTypeOK /\ NamesLeadBack)
  OBVIOUS
<1>2. RegistryIInv /\ [RegistryNext]_registryVars => RegistryIInv'
  BY <1>1, RegistryStepHolds
<1> QED BY <1>2, RegistryInitHolds, RegistryImplies, PTL DEF RegistrySpec

(* A call executes the tool whose name the model was shown, if moreover no *)
(* form of a name is the name of another tool, which the registry does not *)
(* check.                                                                  *)
THEOREM MeantIsCalled == SuffixesTellApart /\ FormsAreOwn /\ RegistrySpec => []CalledIsMeant
<1>1. SUFFICES ASSUME SuffixesTellApart, FormsAreOwn PROVE RegistrySpec => []CalledIsMeant
  OBVIOUS
<1>2. (RegistryIInv /\ CalledIsMeant) /\ [RegistryNext]_registryVars => (RegistryIInv /\ CalledIsMeant)'
  BY <1>1, RegistryStepHolds, CalledStepHolds
<1> QED BY <1>2, RegistryInitHolds, PTL DEF RegistrySpec

--------------------------------------------------------------------------------
(* McpConnection: an answer is that of its request.                        *)

McpPhases == {"idle", "connecting", "locking", "reading", "answered", "cancelled", "failed"}
Begins == {"idle", "connecting", "locking"}
McpCallStates == [phase : McpPhases, id : Nat, answer : Nat, sent : Nat, again : BOOLEAN]

(* What a call has sent: nothing before its first try, one request in each *)
(* of its tries, and it tries again only when its tool is retryable.       *)
SentByTries ==
  \A c \in McpCalls :
    /\ calling[c].again => c \in RetryableCalls
    /\ calling[c].sent <= (IF calling[c].again THEN 1 ELSE 0)
                            + (IF calling[c].phase \in Begins THEN 0 ELSE 1)

McpConnTyped ==
  /\ process \in 0..MaxProcessIds /\ processes \in 0..MaxProcessIds /\ connected \in BOOLEAN
  /\ requestLock \in McpCalls \cup {NoMcpCall}
  /\ lastId \in Nat /\ unread \in Seq(Nat) /\ pipe \in Seq(Nat)
  /\ calling \in [McpCalls -> McpCallStates]

McpConnIInv == McpConnTyped /\ SentByTries /\ AnswerIsOwn

LEMMA McpConnInitHolds == McpConnInit => McpConnIInv
<1> SUFFICES ASSUME McpConnInit PROVE McpConnIInv
  OBVIOUS
<1>1. NewCall \in McpCallStates
  BY DEF NewCall, McpCallStates, McpPhases
<1>2. McpConnTyped
  <2>1. calling \in [McpCalls -> McpCallStates]
    BY <1>1 DEF McpConnInit
  <2>2. process \in 0..MaxProcessIds /\ processes \in 0..MaxProcessIds
    BY McpConnAssumption DEF McpConnInit
  <2>3. lastId \in Nat /\ unread \in Seq(Nat) /\ pipe \in Seq(Nat)
    BY DEF McpConnInit
  <2>4. connected \in BOOLEAN /\ requestLock \in McpCalls \cup {NoMcpCall}
    BY DEF McpConnInit
  <2> QED BY <2>1, <2>2, <2>3, <2>4 DEF McpConnTyped
<1>3. SentByTries /\ AnswerIsOwn
  BY DEF McpConnInit, NewCall, SentByTries, AnswerIsOwn
<1> QED BY <1>2, <1>3 DEF McpConnIInv

(* What a call may become without disturbing the invariant.                *)
LEMMA CallBecomes ==
  ASSUME McpConnIInv, NEW c \in McpCalls, NEW new \in McpCallStates,
         calling' = [calling EXCEPT ![c] = new],
         new.again => c \in RetryableCalls,
         new.sent <= (IF new.again THEN 1 ELSE 0)
                       + (IF new.phase \in Begins THEN 0 ELSE 1),
         new.phase = "answered" => new.answer = new.id
  PROVE  SentByTries' /\ AnswerIsOwn' /\ calling' \in [McpCalls -> McpCallStates]
<1>1. calling' \in [McpCalls -> McpCallStates]
  BY DEF McpConnIInv, McpConnTyped
<1>2. \A d \in McpCalls : calling'[d] = IF d = c THEN new ELSE calling[d]
  BY DEF McpConnIInv, McpConnTyped
<1>3. SentByTries'
  BY <1>2 DEF McpConnIInv, SentByTries
<1>4. AnswerIsOwn'
  BY <1>2 DEF McpConnIInv, AnswerIsOwn, McpCallStates
<1> QED BY <1>1, <1>3, <1>4

(* A call that goes on, and has sent a request when its new phase says so. *)
LEMMA CallMoves ==
  ASSUME McpConnIInv, NEW c \in McpCalls, NEW p \in McpPhases, Moves(c, p), p # "answered",
         calling[c].phase \in Begins \/ p \notin Begins
  PROVE  SentByTries' /\ AnswerIsOwn' /\ calling' \in [McpCalls -> McpCallStates]
<1> DEFINE new == [calling[c] EXCEPT !.phase = p]
<1>1. calling[c] \in McpCallStates
  BY DEF McpConnIInv, McpConnTyped
<1>2. new \in McpCallStates /\ new.phase = p /\ new.again = calling[c].again /\ new.sent = calling[c].sent
  BY <1>1 DEF McpCallStates
<1>3. calling' = [calling EXCEPT ![c] = new]
  BY DEF Moves
<1>4. /\ calling[c].again => c \in RetryableCalls
      /\ calling[c].sent \in Nat
      /\ calling[c].sent <= (IF calling[c].again THEN 1 ELSE 0) + (IF calling[c].phase \in Begins THEN 0 ELSE 1)
  BY <1>1 DEF McpConnIInv, SentByTries, Begins, McpCallStates
<1> HIDE DEF new
<1>5. new.sent <= (IF new.again THEN 1 ELSE 0) + (IF new.phase \in Begins THEN 0 ELSE 1)
  BY <1>2, <1>4
<1> QED BY <1>2, <1>3, <1>4, <1>5, CallBecomes DEF Begins

LEMMA McpConnStepHolds == McpConnIInv /\ [McpConnNext]_mcpConnVars => McpConnIInv'
<1> SUFFICES ASSUME McpConnIInv, [McpConnNext]_mcpConnVars PROVE McpConnIInv'
  OBVIOUS
<1>0. McpConnTyped /\ SentByTries /\ AnswerIsOwn /\ \A c \in McpCalls : calling[c] \in McpCallStates
  BY DEF McpConnIInv, McpConnTyped
<1>1. ASSUME ServerAnswers PROVE McpConnIInv'
  <2>1. Head(unread) \in Nat /\ Tail(unread) \in Seq(Nat)
    BY <1>1, <1>0 DEF ServerAnswers, McpConnTyped
  <2>2. McpConnTyped'
    BY <1>1, <1>0, <2>1 DEF ServerAnswers, McpConnTyped
  <2> QED BY <1>1, <2>2 DEF ServerAnswers, McpConnIInv, SentByTries, AnswerIsOwn
<1>2. ASSUME NEW c \in McpCalls,
             McpCallBegins(c) \/ McpConnectFails(c) \/ McpCallCancelled(c) \/ McpConnects(c)
      PROVE McpConnIInv'
  <2>1. \E p \in McpPhases : Moves(c, p) /\ p # "answered" /\ (calling[c].phase \in Begins \/ p \notin Begins)
    <3>1. CASE McpCallBegins(c)
      BY <3>1 DEF McpCallBegins, Begins, McpPhases
    <3>2. CASE McpConnectFails(c)
      BY <3>2 DEF McpConnectFails, Begins, McpPhases
    <3>3. CASE McpCallCancelled(c)
      BY <3>3 DEF McpCallCancelled, Begins, McpPhases
    <3>4. CASE McpConnects(c)
      BY <3>4 DEF McpConnects, Begins, McpPhases
    <3> QED BY <1>2, <3>1, <3>2, <3>3, <3>4
  <2>2. SentByTries' /\ AnswerIsOwn' /\ calling' \in [McpCalls -> McpCallStates]
    BY <2>1, CallMoves
  <2>3. /\ process' \in 0..MaxProcessIds /\ processes' \in 0..MaxProcessIds /\ connected' \in BOOLEAN
        /\ requestLock' \in McpCalls \cup {NoMcpCall}
        /\ lastId' \in Nat /\ unread' \in Seq(Nat) /\ pipe' \in Seq(Nat)
    <3>1. CASE McpCallBegins(c) \/ McpConnectFails(c) \/ McpCallCancelled(c)
      BY <3>1, <1>0 DEF McpCallBegins, McpConnectFails, McpCallCancelled, McpConnTyped
    <3>2. CASE McpConnects(c) /\ connected
      BY <3>2, <1>0 DEF McpConnects, McpConnTyped
    <3>3. CASE McpConnects(c) /\ ~connected
      <4>1. processes' = processes + 1 /\ process' = processes' /\ connected' = TRUE /\ processes < MaxProcessIds
        BY <3>3 DEF McpConnects
      <4>2. unread' = <<>> /\ pipe' = <<>> /\ requestLock' = requestLock /\ lastId' = lastId
        BY <3>3 DEF McpConnects
      <4> QED BY <4>1, <4>2, <1>0, McpConnAssumption DEF McpConnTyped
    <3> QED BY <1>2, <3>1, <3>2, <3>3
  <2> QED BY <2>2, <2>3 DEF McpConnIInv, McpConnTyped
<1>3. ASSUME NEW c \in McpCalls, RequestSent(c) PROVE McpConnIInv'
  <2> DEFINE new == [calling[c] EXCEPT !.phase = "reading", !.id = lastId', !.sent = @ + 1]
  <2>1. lastId' = lastId + 1 /\ lastId' \in Nat
    BY <1>3, <1>0 DEF RequestSent, McpConnTyped
  <2>6. calling[c] \in McpCallStates /\ calling[c].sent + 1 \in Nat
    BY <1>0 DEF McpCallStates
  <2>2. /\ new \in McpCallStates /\ new.phase = "reading"
        /\ new.again = calling[c].again /\ new.sent = calling[c].sent + 1
    <3>1. new \in McpCallStates
      BY <2>1, <2>6 DEF McpCallStates, McpPhases
    <3> QED BY <2>6, <3>1 DEF McpCallStates
  <2>3. calling' = [calling EXCEPT ![c] = new]
    BY <1>3 DEF RequestSent
  <2>4. /\ calling[c].again => c \in RetryableCalls
        /\ calling[c].sent \in Nat /\ calling[c].sent <= IF calling[c].again THEN 1 ELSE 0
    BY <1>3, <1>0 DEF RequestSent, SentByTries, McpCallStates, Begins
  <2> HIDE DEF new
  <2>7. /\ new.again => c \in RetryableCalls
        /\ new.sent <= (IF new.again THEN 1 ELSE 0) + (IF new.phase \in Begins THEN 0 ELSE 1)
    BY <2>2, <2>4 DEF Begins
  <2>5. SentByTries' /\ AnswerIsOwn' /\ calling' \in [McpCalls -> McpCallStates]
    BY <2>2, <2>3, <2>7, CallBecomes
  <2>8. unread' \in Seq(Nat)
    BY <1>3, <1>0, <2>1 DEF RequestSent, McpConnTyped
  <2> QED BY <1>3, <1>0, <2>1, <2>5, <2>8 DEF RequestSent, McpConnIInv, McpConnTyped
<1>4. ASSUME NEW c \in McpCalls, AnswerRead(c) PROVE McpConnIInv'
  <2>1. Head(pipe) \in Nat /\ Tail(pipe) \in Seq(Nat)
    BY <1>4, <1>0 DEF AnswerRead, McpConnTyped
  <2>2. CASE Head(pipe) = calling[c].id
    <3> DEFINE new == [calling[c] EXCEPT !.phase = "answered", !.answer = Head(pipe)]
    <3>1. /\ new \in McpCallStates /\ new.phase = "answered" /\ new.answer = new.id
          /\ new.again = calling[c].again /\ new.sent = calling[c].sent
      BY <1>0, <2>1, <2>2 DEF McpCallStates, McpPhases
    <3>2. calling' = [calling EXCEPT ![c] = new]
      BY <1>4, <2>2 DEF AnswerRead
    <3>3. /\ calling[c].again => c \in RetryableCalls
          /\ calling[c].sent \in Nat /\ calling[c].sent <= IF calling[c].again THEN 2 ELSE 1
      BY <1>4, <1>0 DEF AnswerRead, SentByTries, McpCallStates
    <3> HIDE DEF new
    <3>5. /\ new.again => c \in RetryableCalls
          /\ new.sent <= (IF new.again THEN 1 ELSE 0) + (IF new.phase \in Begins THEN 0 ELSE 1)
      BY <3>1, <3>3 DEF Begins
    <3>4. SentByTries' /\ AnswerIsOwn' /\ calling' \in [McpCalls -> McpCallStates]
      BY <3>1, <3>2, <3>5, CallBecomes
    <3> QED BY <1>4, <1>0, <2>1, <2>2, <3>4 DEF AnswerRead, McpConnIInv, McpConnTyped
  <2>3. CASE Head(pipe) # calling[c].id
    BY <1>4, <1>0, <2>1, <2>3 DEF AnswerRead, McpConnIInv, McpConnTyped, SentByTries, AnswerIsOwn
  <2> QED BY <2>2, <2>3
<1>5. ASSUME NEW c \in McpCalls, RequestLost(c) PROVE McpConnIInv'
  <2>1. /\ process' \in 0..MaxProcessIds /\ connected' \in BOOLEAN
        /\ unread' \in Seq(Nat) /\ pipe' \in Seq(Nat)
    <3>1. CASE calling[c].again
      BY <1>5, <1>0, <3>1 DEF RequestLost, McpConnTyped
    <3>2. CASE ~calling[c].again
      <4>1. process' = 0 /\ connected' = FALSE /\ unread' = <<>> /\ pipe' = <<>>
        BY <1>5, <3>2 DEF RequestLost
      <4>2. process' \in 0..MaxProcessIds
        BY <4>1, McpConnAssumption
      <4>3. unread' \in Seq(Nat) /\ pipe' \in Seq(Nat)
        BY <4>1
      <4> QED BY <4>1, <4>2, <4>3
    <3> QED BY <3>1, <3>2
  <2>2. /\ requestLock' \in McpCalls \cup {NoMcpCall}
        /\ lastId' \in Nat /\ processes' \in 0..MaxProcessIds
    BY <1>5, <1>0 DEF RequestLost, McpConnTyped
  <2>3. CASE c \in RetryableCalls /\ ~calling[c].again
    <3> DEFINE new == [calling[c] EXCEPT !.phase = "connecting", !.again = TRUE]
    <3>1. /\ new \in McpCallStates /\ new.phase = "connecting"
          /\ new.again = TRUE /\ new.sent = calling[c].sent
      BY <1>0 DEF McpCallStates, McpPhases
    <3>2. calling' = [calling EXCEPT ![c] = new]
      BY <1>5, <2>3 DEF RequestLost
    <3>3. calling[c].sent \in Nat /\ calling[c].sent <= 1
      BY <1>0, <2>3 DEF SentByTries, McpCallStates
    <3> HIDE DEF new
    <3>5. /\ new.again => c \in RetryableCalls
          /\ new.sent <= (IF new.again THEN 1 ELSE 0) + (IF new.phase \in Begins THEN 0 ELSE 1)
      BY <2>3, <3>1, <3>3 DEF Begins
    <3>4. SentByTries' /\ AnswerIsOwn' /\ calling' \in [McpCalls -> McpCallStates]
      BY <3>1, <3>2, <3>5, CallBecomes
    <3> QED BY <2>1, <2>2, <3>4 DEF McpConnIInv, McpConnTyped
  <2>4. CASE ~(c \in RetryableCalls /\ ~calling[c].again)
    <3>1. Moves(c, "failed")
      BY <1>5, <2>4 DEF RequestLost
    <3>2. SentByTries' /\ AnswerIsOwn' /\ calling' \in [McpCalls -> McpCallStates]
      BY <3>1, CallMoves DEF McpPhases, Begins
    <3> QED BY <2>1, <2>2, <3>2 DEF McpConnIInv, McpConnTyped
  <2> QED BY <2>3, <2>4
<1>6. CASE UNCHANGED mcpConnVars
  BY <1>6 DEF mcpConnVars, McpConnIInv, McpConnTyped, SentByTries, AnswerIsOwn
<1> QED BY <1>1, <1>2, <1>3, <1>4, <1>5, <1>6 DEF McpConnNext

LEMMA McpConnImplies == McpConnIInv => McpConnTypeOK /\ AnswerIsOwn
BY DEF McpConnIInv, McpConnTyped, McpConnTypeOK, McpCallStates, McpPhases

(* Over timeouts, cancellations, late answers and reconnects, a call of an *)
(* MCP tool is given the answer to its own request, and what may not be    *)
(* retried is sent at most once.                                           *)
THEOREM AnswersAreOwn == McpConnSpec => [](McpConnTypeOK /\ AnswerIsOwn)
<1> QED BY McpConnImplies, McpConnInitHolds, McpConnStepHolds, PTL DEF McpConnSpec

--------------------------------------------------------------------------------
(* Together: each component keeps its invariant, whichever of them runs.   *)

PartsIInv ==
  /\ IInv /\ EventsIInv /\ EngineIInv /\ LoadIInv /\ RegistryIInv /\ CalledIsMeant
  /\ McpConnIInv /\ MultiIInv /\ WorkerServes /\ CollabIInv /\ SwarmIInv
  /\ SimIInv /\ EvalIInv /\ ChatIInv

LEMMA PartsInitHold == MCInit => PartsIInv
<1> SUFFICES ASSUME MCInit PROVE PartsIInv
  OBVIOUS
<1>1. /\ Init /\ EventsInit /\ EngineInit /\ LoadInit /\ RegistryInit /\ McpConnInit
      /\ MultiAgentInit /\ CollabInit /\ SwarmInit /\ SimulationInit /\ EvalInit /\ ChatInit
  BY DEF MCInit
<1>2. IInv /\ EventsIInv /\ EngineIInv /\ LoadIInv
  BY <1>1, InitIInv, EventsInitHolds, EngineInitHolds, LoadInitHolds
<1>3. RegistryIInv /\ CalledIsMeant /\ McpConnIInv /\ MultiIInv
  BY <1>1, RegistryInitHolds, McpConnInitHolds, MultiInitHolds
<1>4. WorkerServes
  BY <1>1 DEF MultiAgentInit, WorkerServes
<1>5. CollabIInv /\ SwarmIInv /\ SimIInv /\ EvalIInv /\ ChatIInv
  BY <1>1, CollabInitHolds, SwarmInitHolds, SimInitHolds, EvalInitHolds, ChatInitHolds
<1> QED BY <1>2, <1>3, <1>4, <1>5 DEF PartsIInv

(* A step is one of the component that runs; the others stutter.           *)
LEMMA PartSteps ==
  ASSUME [MCNext]_mcVars
  PROVE  /\ [Next]_vars /\ [EventsNext]_eventVars /\ [EngineNext]_engineVars /\ [LoadNext]_loadVars
         /\ [RegistryNext]_registryVars /\ [McpConnNext]_mcpConnVars /\ [MultiAgentNext]_maVars
         /\ [CollabNext]_collabVars /\ [SwarmNext]_swarmVars /\ [SimulationNext]_simVars
         /\ [EvalNext]_evalVars /\ [ChatNext]_chatVars
BY DEF MCNext, mcVars

LEMMA PartsStepHold ==
  ASSUME SuffixesTellApart, FormsAreOwn, PartsIInv, [MCNext]_mcVars
  PROVE  PartsIInv'
<1>1. IInv' /\ EventsIInv' /\ EngineIInv' /\ LoadIInv'
  BY PartSteps, NextIInv, EventsStepHolds, EngineStepHolds, LoadStepHolds DEF PartsIInv
<1>2. RegistryIInv' /\ CalledIsMeant' /\ McpConnIInv' /\ MultiIInv' /\ WorkerServes'
  BY PartSteps, RegistryStepHolds, CalledStepHolds, McpConnStepHolds, MultiStepHolds, ServingStep DEF PartsIInv
<1>3. CollabIInv' /\ SwarmIInv' /\ SimIInv' /\ EvalIInv' /\ ChatIInv'
  BY PartSteps, CollabStepHolds, SwarmStepHolds, SimStepHolds, EvalStepHolds, ChatStepHolds DEF PartsIInv
<1> QED BY <1>1, <1>2, <1>3 DEF PartsIInv

LEMMA PartsImply == PartsIInv => AgentsHold
BY EventsImplies, EngineImplies, LoadImplies, RegistryImplies, McpConnImplies, MultiImplies,
   CollabImplies, SwarmImplies, SimImplies, EvalImplies, ChatImplies
   DEF PartsIInv, AgentsHold, IInv

(* Every component that the run of the engine and its services checks      *)
(* keeps its promise, for any instance of them, if the suffixes and the    *)
(* forms of tool names are what the registry takes them for.               *)
THEOREM AgentsStay == SuffixesTellApart /\ FormsAreOwn /\ MCSpec => []AgentsHold
<1> SUFFICES ASSUME SuffixesTellApart, FormsAreOwn PROVE MCSpec => []AgentsHold
  OBVIOUS
<1>1. PartsIInv /\ [MCNext]_mcVars => PartsIInv'
  BY PartsStepHold
<1> QED BY <1>1, PartsInitHold, PartsImply, PTL DEF MCSpec

(* What has ended stays as it ended: a task of several agents, and what a  *)
(* caller was shown when it got its answer.                                *)
THEOREM EndsStay == MCSpec => EndedStays
<1>1. MCInit => WorkerServes /\ EventsIInv
  BY PartsInitHold DEF PartsIInv
<1>2. WorkerServes /\ EventsIInv /\ [MCNext]_mcVars => WorkerServes' /\ EventsIInv'
  BY PartSteps, ServingStep, EventsStepHolds
<1>3. WorkerServes /\ [MCNext]_mcVars => [(taskStatus \in Final) => UNCHANGED <<taskStatus, evt, turns>>]_maVars
  BY PartSteps, ServingStep
<1>4. EventsIInv /\ [MCNext]_mcVars =>
        [\A q \in EventRequests : requestState[q] \in {"cleaning", "returned"} => seen'[q] = seen[q]]_eventVars
  BY PartSteps, QuietStep
<1> QED BY <1>1, <1>2, <1>3, <1>4, PTL DEF MCSpec, EndedStays, FinalStays, QuietAfterAnswer
================================================================================
