--------------------------- MODULE SessionStoreProofs ---------------------------
(***************************************************************************)
(* Proofs about the message history of conversations, for any agents,      *)
(* conversations, turns and sizes of the cache, any time to live, and any  *)
(* order of turns, resets and resumptions: what is evicted from a cache is *)
(* persisted, and the conversations behave as the logs of SessionPromise.  *)
(*                                                                         *)
(* The heart of the invariant is the write-back between its two halves: a  *)
(* history that was put into the cache and waits to be saved is not        *)
(* evicted, since the operations ahead of the save in the lock's queue are *)
(* fewer than the places behind it in the cache.                           *)
(***************************************************************************)
EXTENDS SessionStore, FiniteSetTheorems, TLAPS

(* What the theorems assume of the configuration: messages are persisted,  *)
(* one turn of a conversation at a time (the default of                    *)
(* max_session_concurrent_runs), no more runs than the cache has places,   *)
(* room for all conversations in the persistence, and a write-back that    *)
(* has begun is not interrupted.                                           *)
SessionsFit ==
  /\ Persistent /\ SessionLimit = 1
  /\ RunLimit <= MaxSessions
  /\ Cardinality(Conversations) <= StoreSessions
  /\ "saving" \notin Interruptible

ActiveTurns == {t \in Turns : phase[t] \in Active}

(* An operation of a turn waits in the queue of the turn's agent while the *)
(* turn is in the phase of that operation, and once.                       *)
PhaseIn == [read |-> "reading", write |-> "writing", save |-> "saving"]

QueueFollowsPhase ==
  \A s \in Scopes : \A i \in DOMAIN queue[s] : \A t \in Turns :
    queue[s][i] \in OpsOf(t) =>
      /\ s = TurnScope(t) /\ phase[t] = PhaseIn[queue[s][i].op]
      /\ \A j \in DOMAIN queue[s] : queue[s][j] \in OpsOf(t) => i = j

(* The slots a run holds are within the limits.                            *)
SlotsRespected ==
  /\ Cardinality(ActiveTurns) <= RunLimit
  /\ \A t, u \in ActiveTurns : ConversationOf[t] = ConversationOf[u] => t = u

(* The conversations behind c in q; the operations before the i-th of a    *)
(* queue that may push another conversation behind.                        *)
After(q, c) == {q[j] : j \in {k \in DOMAIN q : \E i \in DOMAIN q : i < k /\ q[i] = c}}
OpensBefore(q, i) ==
  {j \in DOMAIN q : j < i /\ \E t \in Turns : q[j] \in OpsOf(t)}

(* A history that waits to be saved is fresh, and too far back in the      *)
(* cache for the operations ahead to evict it.                             *)
SaveInTime(t) ==
  LET s == TurnScope(t) IN
  \E i \in DOMAIN queue[s] :
    /\ queue[s][i] = [op |-> "save", turn |-> t]
    /\ Cardinality(After(lru[s], ConversationOf[t])) + Cardinality(OpensBefore(queue[s], i)) < MaxSessions

SavesInTime ==
  \A t \in Turns :
    phase[t] = "saving" /\ Cached(ConversationOf[t]) =>
      access[ConversationOf[t]] = now /\ SaveInTime(t)

StoredIsSaved == \A c \in Conversations : ~Persisted(c) => stored[c] = <<>>

(* A turn under way has read what its conversation consists of.            *)
SeenIsLog ==
  \A t \in Turns \ overtaken :
    phase[t] \in {"running", "writing"} => seen[t] = Log(ConversationOf[t])

(* Histories hold turns that have ended, each once.                        *)
Ended == {t \in Turns : phase[t] \in {"saving", "ended"}}
Distinct(T) == {h \in Seq(T) : \A i, j \in DOMAIN h : h[i] = h[j] => i = j}
HistoriesOfEnded ==
  /\ \A c \in Conversations : messages[c] \in Distinct(Ended) /\ stored[c] \in Distinct(Ended)
  /\ \A t \in Turns : seen[t] \in Distinct(Ended)

IInv ==
  /\ SavedAfterTurn
  /\ QueueFollowsPhase /\ SlotsRespected /\ SavesInTime
  /\ StoredIsSaved /\ SeenIsLog /\ HistoriesOfEnded

--------------------------------------------------------------------------------
(* Sequences from which some go.                                           *)

LEMMA FiniteInterval == \A n \in Nat : IsFiniteSet(1..n) /\ Cardinality(1..n) = n
<1>1. ASSUME NEW n \in Nat PROVE IsFiniteSet(1..n) /\ Cardinality(1..n) = n
  BY FS_Interval
<1> QED BY <1>1

(* The places of a finite set of positions, counted.                       *)
Rank(I) == [i \in I |-> Cardinality({j \in I : j <= i})]

LEMMA RankCounts ==
  ASSUME NEW n \in Nat, NEW I \in SUBSET (1..n)
  PROVE  /\ IsFiniteSet(I) /\ Cardinality(I) \in Nat
         /\ Rank(I) \in [I -> 1..Cardinality(I)]
         /\ \A i, k \in I : i < k => Rank(I)[i] < Rank(I)[k]
         /\ \A m \in 1..Cardinality(I) : \E i \in I : Rank(I)[i] = m
<1>1. IsFiniteSet(I) /\ Cardinality(I) \in Nat
  <2>1. IsFiniteSet(1..n)
    BY FiniteInterval
  <2> QED BY <2>1, FS_Subset, FS_CardinalityType
<1>2. \A i \in I : IsFiniteSet({j \in I : j <= i}) /\ Cardinality({j \in I : j <= i}) \in 1..Cardinality(I)
  <2> SUFFICES ASSUME NEW i \in I
               PROVE  IsFiniteSet({j \in I : j <= i}) /\ Cardinality({j \in I : j <= i}) \in 1..Cardinality(I)
    OBVIOUS
  <2>1. i \in {j \in I : j <= i} /\ {j \in I : j <= i} \in SUBSET I
    OBVIOUS
  <2>2. IsFiniteSet({j \in I : j <= i}) /\ Cardinality({j \in I : j <= i}) <= Cardinality(I)
    BY <1>1, <2>1, FS_Subset
  <2>3. Cardinality({j \in I : j <= i}) \in Nat /\ Cardinality({j \in I : j <= i}) # 0
    BY <2>1, <2>2, FS_CardinalityType, FS_EmptySet
  <2> QED BY <1>1, <2>2, <2>3
<1>3. Rank(I) \in [I -> 1..Cardinality(I)]
  BY <1>2 DEF Rank
<1>4. ASSUME NEW i \in I, NEW k \in I, i < k PROVE Rank(I)[i] < Rank(I)[k]
  <2> DEFINE below(m) == {j \in I : j <= m}
  <2>1. below(i) \in SUBSET below(k) /\ k \in below(k) /\ k \notin below(i)
    <3>1. i \in Nat /\ k \in Nat /\ I \subseteq Nat
      OBVIOUS
    <3>2. \A j \in I : j <= i => j <= k
      BY <1>4, <3>1
    <3>3. k <= k /\ ~(k <= i)
      BY <1>4, <3>1
    <3> QED BY <3>2, <3>3
  <2>2. IsFiniteSet(below(k)) /\ Cardinality(below(k)) \in Nat /\ Cardinality(below(i)) \in Nat
    BY <1>2
  <2>3. Cardinality(below(i)) <= Cardinality(below(k)) /\ Cardinality(below(i)) # Cardinality(below(k))
    BY <2>1, <2>2, FS_Subset
  <2>4. Rank(I)[i] = Cardinality(below(i)) /\ Rank(I)[k] = Cardinality(below(k))
    BY DEF Rank
  <2> QED BY <2>2, <2>3, <2>4
<1>5. \A i, k \in I : Rank(I)[i] = Rank(I)[k] => i = k
  <2> SUFFICES ASSUME NEW i \in I, NEW k \in I, i # k PROVE Rank(I)[i] # Rank(I)[k]
    OBVIOUS
  <2>1. Rank(I)[i] \in Nat /\ Rank(I)[k] \in Nat /\ (i < k \/ k < i)
    BY <1>1, <1>3
  <2> QED BY <1>4, <2>1
<1>6. Rank(I) \in Injection(I, 1..Cardinality(I))
  BY <1>3, <1>5 DEF Injection, IsInjective
<1>7. IsFiniteSet(1..Cardinality(I)) /\ Cardinality(1..Cardinality(I)) = Cardinality(I)
  BY <1>1, FiniteInterval
<1>8. Rank(I) \in Surjection(I, 1..Cardinality(I))
  BY <1>6, <1>7, FS_Injection
<1> QED BY <1>1, <1>3, <1>4, <1>8 DEF Surjection

(* Ordered lists a set of positions in their order, leaving none out.      *)
LEMMA OrderedLists ==
  ASSUME NEW n \in Nat, NEW I \in SUBSET (1..n)
  PROVE  /\ Cardinality(I) \in Nat
         /\ Ordered(I) \in [1..Cardinality(I) -> I]
         /\ \A k, l \in 1..Cardinality(I) : k < l => Ordered(I)[k] < Ordered(I)[l]
         /\ \A i \in I : \E k \in 1..Cardinality(I) : Ordered(I)[k] = i
<1>1. /\ IsFiniteSet(I) /\ Cardinality(I) \in Nat
      /\ Rank(I) \in [I -> 1..Cardinality(I)]
      /\ \A i, k \in I : i < k => Rank(I)[i] < Rank(I)[k]
      /\ \A m \in 1..Cardinality(I) : \E i \in I : Rank(I)[i] = m
  BY RankCounts
<1>2. Ordered(I) = [k \in 1..Cardinality(I) |-> CHOOSE i \in I : Cardinality({j \in I : j <= i}) = k]
  BY DEF Ordered
<1>3. ASSUME NEW k \in 1..Cardinality(I) PROVE Ordered(I)[k] \in I /\ Rank(I)[Ordered(I)[k]] = k
  <2>1. \E i \in I : Cardinality({j \in I : j <= i}) = k
    BY <1>1 DEF Rank
  <2>2. Ordered(I)[k] = CHOOSE i \in I : Cardinality({j \in I : j <= i}) = k
    BY <1>2
  <2>3. Ordered(I)[k] \in I /\ Cardinality({j \in I : j <= Ordered(I)[k]}) = k
    BY <2>1, <2>2
  <2> QED BY <2>3 DEF Rank
<1>4. Ordered(I) \in [1..Cardinality(I) -> I]
  BY <1>2, <1>3
<1>5. ASSUME NEW k \in 1..Cardinality(I), NEW l \in 1..Cardinality(I), k < l
      PROVE  Ordered(I)[k] < Ordered(I)[l]
  <2> DEFINE x == Ordered(I)[k]
             y == Ordered(I)[l]
  <2>1. x \in I /\ y \in I /\ Rank(I)[x] = k /\ Rank(I)[y] = l
    BY <1>3
  <2> HIDE DEF x, y
  <2>2. x \in Nat /\ y \in Nat /\ x # y
    BY <1>5, <2>1
  <2>3. ~(y < x)
    BY <1>1, <1>5, <2>1
  <2>4. x < y
    BY <2>2, <2>3
  <2> QED BY <2>4 DEF x, y
<1>6. ASSUME NEW i \in I PROVE \E k \in 1..Cardinality(I) : Ordered(I)[k] = i
  <2> DEFINE x == Ordered(I)[Rank(I)[i]]
  <2>1. Rank(I)[i] \in 1..Cardinality(I) /\ x \in I /\ Rank(I)[x] = Rank(I)[i]
    BY <1>1, <1>3
  <2> HIDE DEF x
  <2>2. x \in Nat /\ i \in Nat
    BY <2>1
  <2>3. ~(x < i) /\ ~(i < x)
    <3>1. Rank(I)[i] \in Nat
      BY <2>1
    <3> QED BY <1>1, <2>1, <3>1
  <2>4. x = i
    BY <2>2, <2>3
  <2> QED BY <2>1, <2>4 DEF x
<1> QED BY <1>1, <1>4, <1>5, <1>6

(* What is left when C goes: the others, each where it was in the order.   *)
Keeps(r, q, C, place) ==
  /\ place \in [DOMAIN r -> DOMAIN q]
  /\ \A k \in DOMAIN r : r[k] = q[place[k]] /\ r[k] \notin C
  /\ \A k, l \in DOMAIN r : k < l => place[k] < place[l]
  /\ \A i \in DOMAIN q : q[i] \notin C => \E k \in DOMAIN r : place[k] = i

LEMMA WithoutKeeps ==
  ASSUME NEW S, NEW q \in Seq(S), NEW C
  PROVE  /\ Without(q, C) \in Seq(S) /\ Len(Without(q, C)) <= Len(q)
         /\ \E place : Keeps(Without(q, C), q, C, place)
<1> DEFINE I == {i \in DOMAIN q : q[i] \notin C}
           r == Without(q, C)
<1>1. Len(q) \in Nat /\ DOMAIN q = 1..Len(q) /\ I \in SUBSET (1..Len(q)) /\ \A i \in I : q[i] \in S
  OBVIOUS
<1>2. /\ Cardinality(I) \in Nat
      /\ Ordered(I) \in [1..Cardinality(I) -> I]
      /\ \A k, l \in 1..Cardinality(I) : k < l => Ordered(I)[k] < Ordered(I)[l]
      /\ \A i \in I : \E k \in 1..Cardinality(I) : Ordered(I)[k] = i
  BY <1>1, OrderedLists
<1>3. r = [k \in 1..Cardinality(I) |-> q[Ordered(I)[k]]]
  BY DEF Without, Only
<1>4. r \in Seq(S) /\ Len(r) = Cardinality(I) /\ DOMAIN r = 1..Cardinality(I)
  <2>1. \A k \in 1..Cardinality(I) : q[Ordered(I)[k]] \in S
    BY <1>1, <1>2
  <2> HIDE DEF I, r
  <2> QED BY <1>2, <1>3, <2>1
<1>5. Cardinality(I) <= Len(q)
  <2>1. ASSUME NEW n \in Nat, NEW J \in SUBSET (1..n) PROVE Cardinality(J) <= n
    <3>1. IsFiniteSet(1..n) /\ Cardinality(1..n) = n
      BY FiniteInterval
    <3> QED BY <3>1, FS_Subset
  <2> HIDE DEF I
  <2> QED BY <1>1, <2>1
<1>6. Keeps(r, q, C, Ordered(I))
  <2>1. \A k \in DOMAIN r : r[k] = q[Ordered(I)[k]] /\ Ordered(I)[k] \in I
    <3> HIDE DEF I, r
    <3> QED BY <1>2, <1>3, <1>4
  <2>2. \A k \in DOMAIN r : r[k] \notin C
    BY <2>1
  <2>3. Ordered(I) \in [DOMAIN r -> DOMAIN q]
    <3>1. I \subseteq DOMAIN q
      OBVIOUS
    <3> HIDE DEF I, r
    <3> QED BY <1>2, <1>4, <3>1
  <2>4. \A i \in DOMAIN q : q[i] \notin C => \E k \in DOMAIN r : Ordered(I)[k] = i
    <3>1. \A i \in DOMAIN q : q[i] \notin C => i \in I
      OBVIOUS
    <3> HIDE DEF I, r
    <3> QED BY <1>2, <1>4, <3>1
  <2>5. \A k, l \in DOMAIN r : k < l => Ordered(I)[k] < Ordered(I)[l]
    <3> HIDE DEF I, r
    <3> QED BY <1>2, <1>4
  <2> HIDE DEF I, r
  <2> QED BY <2>1, <2>2, <2>3, <2>4, <2>5 DEF Keeps
<1> QED BY <1>4, <1>5, <1>6

(* The conversations behind one that stays were behind it before.          *)
LEMMA WithoutSet ==
  ASSUME NEW S, NEW q \in Seq(S), NEW C
  PROVE  /\ ToSet(Without(q, C)) = ToSet(q) \ C
         /\ \A c : After(Without(q, C), c) \subseteq After(q, c)
         /\ (\A i, j \in DOMAIN q : q[i] = q[j] => i = j) =>
               \A i, j \in DOMAIN Without(q, C) : Without(q, C)[i] = Without(q, C)[j] => i = j
<1> DEFINE r == Without(q, C)
<1> HIDE DEF r
<1>1. r \in Seq(S)
  BY WithoutKeeps DEF r
<1>2. PICK place : Keeps(r, q, C, place)
  BY WithoutKeeps DEF r
<1>3. DOMAIN r = 1..Len(r) /\ Len(r) \in Nat /\ DOMAIN q = 1..Len(q) /\ Len(q) \in Nat
  BY <1>1
<1>4. ToSet(r) = ToSet(q) \ C
  <2>1. \A k \in DOMAIN r : r[k] \in ToSet(q) \ C
    BY <1>2 DEF Keeps, ToSet
  <2>2. ASSUME NEW i \in DOMAIN q, q[i] \notin C PROVE q[i] \in ToSet(r)
    <3>1. PICK k \in DOMAIN r : place[k] = i
      BY <1>2, <2>2 DEF Keeps
    <3>2. r[k] = q[i]
      BY <1>2, <3>1 DEF Keeps
    <3> QED BY <3>2 DEF ToSet
  <2> QED BY <2>1, <2>2 DEF ToSet
<1>5. ASSUME NEW c, NEW k \in DOMAIN r, NEW i \in DOMAIN r, i < k, r[i] = c PROVE r[k] \in After(q, c)
  <2>1. place[k] \in DOMAIN q /\ place[i] \in DOMAIN q /\ place[i] < place[k]
    BY <1>2, <1>5 DEF Keeps
  <2>2. r[k] = q[place[k]] /\ c = q[place[i]]
    BY <1>2, <1>5 DEF Keeps
  <2> QED BY <2>1, <2>2 DEF After
<1>6. \A c : After(r, c) \subseteq After(q, c)
  BY <1>5 DEF After
<1>7. ASSUME \A i, j \in DOMAIN q : q[i] = q[j] => i = j,
             NEW i \in DOMAIN r, NEW j \in DOMAIN r, r[i] = r[j]
      PROVE  i = j
  <2>1. place[i] \in DOMAIN q /\ place[j] \in DOMAIN q /\ q[place[i]] = q[place[j]]
    BY <1>2, <1>7 DEF Keeps
  <2>2. place[i] = place[j] /\ place[i] \in Nat
    BY <1>3, <1>7, <2>1
  <2>3. ~(i < j) /\ ~(j < i)
    BY <1>2, <2>2 DEF Keeps
  <2> QED BY <1>3, <2>3
<1> QED BY <1>4, <1>6, <1>7 DEF r

LEMMA AppendSet ==
  ASSUME NEW S, NEW q \in Seq(S), NEW x \in S
  PROVE  /\ Append(q, x) \in Seq(S) /\ Len(Append(q, x)) = Len(q) + 1
         /\ ToSet(Append(q, x)) = ToSet(q) \cup {x}
         /\ \A c : After(Append(q, x), c) \subseteq After(q, c) \cup {x}
         /\ x \notin ToSet(q) => After(Append(q, x), x) = {}
<1>1. /\ Append(q, x) \in Seq(S) /\ Len(Append(q, x)) = Len(q) + 1 /\ Len(q) \in Nat
      /\ DOMAIN q = 1..Len(q) /\ DOMAIN Append(q, x) = 1..(Len(q) + 1)
      /\ \A i \in 1..Len(q) : Append(q, x)[i] = q[i]
      /\ Append(q, x)[Len(q) + 1] = x
  OBVIOUS
<1>2. ToSet(Append(q, x)) = ToSet(q) \cup {x}
  BY <1>1 DEF ToSet
<1>3. ASSUME NEW c, NEW k \in DOMAIN Append(q, x), NEW i \in DOMAIN Append(q, x), i < k, Append(q, x)[i] = c
      PROVE  i \in DOMAIN q /\ q[i] = c /\ (k \in DOMAIN q => Append(q, x)[k] \in After(q, c))
  <2>1. i \in DOMAIN q /\ q[i] = c
    BY <1>1, <1>3
  <2>2. k \in DOMAIN q => Append(q, x)[k] = q[k]
    BY <1>1
  <2> QED BY <1>3, <2>1, <2>2 DEF After
<1>4. \A k \in DOMAIN Append(q, x) : k \in DOMAIN q \/ Append(q, x)[k] = x
  BY <1>1
<1>5. \A c : After(Append(q, x), c) \subseteq After(q, c) \cup {x}
  BY <1>3, <1>4 DEF After
<1>6. x \notin ToSet(q) => After(Append(q, x), x) = {}
  BY <1>3 DEF After, ToSet
<1> QED BY <1>1, <1>2, <1>5, <1>6

LEMMA TailSet ==
  ASSUME NEW S, NEW q \in Seq(S), q # <<>>
  PROVE  /\ Head(q) = q[1] /\ Head(q) \in S
         /\ Tail(q) \in Seq(S) /\ Len(Tail(q)) = Len(q) - 1 /\ Len(q) \in Nat \ {0}
         /\ \A i \in DOMAIN Tail(q) : i + 1 \in DOMAIN q /\ Tail(q)[i] = q[i + 1]
         /\ ToSet(q) = ToSet(Tail(q)) \cup {Head(q)}
         /\ \A c : After(Tail(q), c) \subseteq After(q, c)
<1>1. /\ Head(q) = q[1] /\ Head(q) \in S /\ Tail(q) \in Seq(S) /\ Len(q) \in Nat \ {0}
      /\ Len(Tail(q)) = Len(q) - 1 /\ DOMAIN q = 1..Len(q) /\ DOMAIN Tail(q) = 1..(Len(q) - 1)
  OBVIOUS
<1>2. \A i \in DOMAIN Tail(q) : i + 1 \in DOMAIN q /\ Tail(q)[i] = q[i + 1]
  BY <1>1
<1>3. ToSet(q) = ToSet(Tail(q)) \cup {Head(q)}
  <2>1. ASSUME NEW i \in DOMAIN q PROVE q[i] \in ToSet(Tail(q)) \cup {Head(q)}
    <3>1. i = 1 \/ (i - 1 \in DOMAIN Tail(q) /\ i = (i - 1) + 1)
      BY <1>1
    <3>2. i - 1 \in DOMAIN Tail(q) /\ i = (i - 1) + 1 => Tail(q)[i - 1] = q[i]
      BY <1>2
    <3> QED BY <1>1, <3>1, <3>2 DEF ToSet
  <2>2. ASSUME NEW i \in DOMAIN Tail(q) PROVE Tail(q)[i] \in ToSet(q)
    BY <1>2 DEF ToSet
  <2>3. Head(q) \in ToSet(q)
    <3>1. 1 \in DOMAIN q
      BY <1>1
    <3> QED BY <1>1, <3>1 DEF ToSet
  <2> QED BY <2>1, <2>2, <2>3 DEF ToSet
<1>4. ASSUME NEW c, NEW k \in DOMAIN Tail(q), NEW i \in DOMAIN Tail(q), i < k, Tail(q)[i] = c
      PROVE  Tail(q)[k] \in After(q, c)
  <2>1. i + 1 \in DOMAIN q /\ k + 1 \in DOMAIN q /\ i + 1 < k + 1
    BY <1>1, <1>4
  <2>2. q[i + 1] = c /\ q[k + 1] = Tail(q)[k]
    BY <1>2, <1>4
  <2> QED BY <2>1, <2>2 DEF After
<1>5. \A c : After(Tail(q), c) \subseteq After(q, c)
  BY <1>4 DEF After
<1> QED BY <1>1, <1>2, <1>3, <1>5

(* A sequence without repetitions is as long as the set of its elements    *)
(* is large, and all but its head are behind the head.                     *)
LEMMA InjectiveLength ==
  ASSUME NEW S, NEW q \in Seq(S), \A i, j \in DOMAIN q : q[i] = q[j] => i = j
  PROVE  /\ IsFiniteSet(ToSet(q)) /\ Cardinality(ToSet(q)) = Len(q)
         /\ q # <<>> => After(q, Head(q)) = ToSet(q) \ {Head(q)}
<1>1. Len(q) \in Nat /\ DOMAIN q = 1..Len(q)
  OBVIOUS
<1>2. q \in Surjection(1..Len(q), ToSet(q)) /\ q \in Injection(1..Len(q), ToSet(q))
  <2>1. q \in [1..Len(q) -> ToSet(q)]
    BY <1>1 DEF ToSet
  <2> QED BY <1>1, <2>1 DEF Surjection, Injection, IsInjective, ToSet
<1>3. IsFiniteSet(1..Len(q)) /\ Cardinality(1..Len(q)) = Len(q)
  BY <1>1, FiniteInterval
<1>4. IsFiniteSet(ToSet(q)) /\ Cardinality(ToSet(q)) = Len(q)
  BY <1>2, <1>3, FS_Surjection
<1>5. ASSUME q # <<>> PROVE After(q, Head(q)) = ToSet(q) \ {Head(q)}
  <2>1. 1 \in DOMAIN q /\ Head(q) = q[1]
    BY <1>1, <1>5
  <2>2. \A k \in DOMAIN q : k # 1 <=> q[k] # Head(q)
    BY <2>1
  <2>3. \A k \in DOMAIN q : k # 1 <=> 1 < k
    BY <1>1
  <2>4. ASSUME NEW k \in DOMAIN q, NEW i \in DOMAIN q, i < k, q[i] = Head(q) PROVE q[k] # Head(q)
    BY <1>1, <2>1, <2>4
  <2> QED BY <2>1, <2>2, <2>3, <2>4 DEF After, ToSet
<1> QED BY <1>4, <1>5

--------------------------------------------------------------------------------
(* The cache after get_or_create.                                          *)
Injective(q) == \A i, j \in DOMAIN q : q[i] = q[j] => i = j

LEMMA CacheType ==
  ASSUME TypeOK, NEW s \in Scopes
  PROVE  /\ lru[s] \in Seq(Conversations) /\ Injective(lru[s]) /\ Len(lru[s]) <= MaxSessions
         /\ \A d \in ToSet(lru[s]) : d \in Conversations /\ ScopeOf[d] = s
<1>1. lru[s] \in Seq(Conversations) /\ Injective(lru[s]) /\ Len(lru[s]) <= MaxSessions
  BY DEF TypeOK, IsInjective, Injective
<1>2. \A i \in DOMAIN lru[s] : lru[s][i] \in Conversations /\ ScopeOf[lru[s][i]] = s
  BY <1>1 DEF TypeOK
<1> QED BY <1>1, <1>2 DEF ToSet

LEMMA KeptType ==
  ASSUME TypeOK, NEW s \in Scopes
  PROVE  /\ Kept(s) \in Seq(Conversations) /\ Injective(Kept(s)) /\ Len(Kept(s)) <= MaxSessions
         /\ ToSet(Kept(s)) = ToSet(lru[s]) \ Expired
         /\ \A c : After(Kept(s), c) \subseteq After(lru[s], c)
<1>1. lru[s] \in Seq(Conversations) /\ Injective(lru[s]) /\ Len(lru[s]) <= MaxSessions
  BY CacheType
<1>2. /\ Without(lru[s], Expired) \in Seq(Conversations) /\ Len(Without(lru[s], Expired)) <= Len(lru[s])
      /\ ToSet(Without(lru[s], Expired)) = ToSet(lru[s]) \ Expired
      /\ \A c : After(Without(lru[s], Expired), c) \subseteq After(lru[s], c)
      /\ Injective(Without(lru[s], Expired))
  BY <1>1, WithoutKeeps, WithoutSet DEF Injective
<1>3. Len(Without(lru[s], Expired)) \in Nat /\ Len(lru[s]) \in Nat /\ MaxSessions \in Nat
  BY <1>1, <1>2, LimitsAssumption
<1> QED BY <1>1, <1>2, <1>3 DEF Kept

(* An append of what is not there keeps a sequence without repetitions.    *)
LEMMA AppendDistinct ==
  ASSUME NEW S, NEW q \in Seq(S), NEW x \in S, Injective(q), x \notin ToSet(q)
  PROVE  Injective(Append(q, x))
<1> SUFFICES ASSUME NEW i \in DOMAIN Append(q, x), NEW j \in DOMAIN Append(q, x),
                    Append(q, x)[i] = Append(q, x)[j]
             PROVE  i = j
  BY DEF Injective
<1>1. /\ Len(q) \in Nat /\ DOMAIN q = 1..Len(q) /\ DOMAIN Append(q, x) = 1..(Len(q) + 1)
      /\ \A k \in 1..Len(q) : Append(q, x)[k] = q[k]
      /\ Append(q, x)[Len(q) + 1] = x
  OBVIOUS
<1>2. \A k \in 1..Len(q) : q[k] # x
  BY <1>1 DEF ToSet
<1>3. CASE i \in 1..Len(q) /\ j \in 1..Len(q)
  BY <1>1, <1>3 DEF Injective
<1>4. CASE i = Len(q) + 1 \/ j = Len(q) + 1
  <2>1. \A k \in DOMAIN Append(q, x) : k \in 1..Len(q) \/ k = Len(q) + 1
    BY <1>1
  <2> QED BY <1>1, <1>2, <1>4, <2>1
<1>5. (i \in 1..Len(q) \/ i = Len(q) + 1) /\ (j \in 1..Len(q) \/ j = Len(q) + 1)
  BY <1>1
<1> QED BY <1>3, <1>4, <1>5

LEMMA TailInjective ==
  ASSUME NEW S, NEW q \in Seq(S), q # <<>>, Injective(q)
  PROVE  Injective(Tail(q)) /\ ToSet(Tail(q)) = ToSet(q) \ {Head(q)}
<1>1. /\ \A i \in DOMAIN Tail(q) : i + 1 \in DOMAIN q /\ Tail(q)[i] = q[i + 1]
      /\ ToSet(q) = ToSet(Tail(q)) \cup {Head(q)} /\ Head(q) = q[1]
      /\ Tail(q) \in Seq(S) /\ Len(q) \in Nat \ {0}
  BY TailSet
<1>2. DOMAIN Tail(q) = 1..Len(Tail(q)) /\ Len(Tail(q)) \in Nat /\ 1 \in DOMAIN q
  BY <1>1
<1>3. Injective(Tail(q))
  <2> SUFFICES ASSUME NEW i \in DOMAIN Tail(q), NEW j \in DOMAIN Tail(q), Tail(q)[i] = Tail(q)[j] PROVE i = j
    BY DEF Injective
  <2>1. i + 1 = j + 1
    BY <1>1 DEF Injective
  <2> QED BY <1>2, <2>1
<1>4. \A i \in DOMAIN Tail(q) : Tail(q)[i] # Head(q)
  <2> SUFFICES ASSUME NEW i \in DOMAIN Tail(q), Tail(q)[i] = Head(q) PROVE FALSE
    OBVIOUS
  <2>1. i + 1 = 1
    BY <1>1, <1>2 DEF Injective
  <2> QED BY <1>2, <2>1
<1>5. Head(q) \notin ToSet(Tail(q))
  BY <1>4 DEF ToSet
<1> QED BY <1>1, <1>3, <1>5

(* What get_or_create leaves in the cache: c is the last to go; what was   *)
(* there is still there, with at most c more behind it, unless it expired  *)
(* or the cache was full of what was behind it.                            *)
LEMMA OpenedCache ==
  ASSUME TypeOK, NEW c \in Conversations
  PROVE  LET q == lru[ScopeOf[c]]
             r == Opened(c)
         IN  /\ r \in Seq(Conversations) /\ Injective(r) /\ Len(r) <= MaxSessions
             /\ c \in ToSet(r) /\ ToSet(r) \subseteq ToSet(q) \cup {c}
             /\ After(r, c) = {} /\ \A d : After(r, d) \subseteq After(q, d) \cup {c}
             /\ \A d \in ToSet(q) \ ToSet(r) :
                  d \in Expired \/ Cardinality(After(q, d)) >= MaxSessions - 1
<1> DEFINE s == ScopeOf[c]
           q == lru[s]
           kept == Kept(s)
           base == IF Hit(c) THEN Without(kept, {c}) ELSE kept
           grown == Append(base, c)
           r == Opened(c)
<1> SUFFICES
       /\ r \in Seq(Conversations) /\ Injective(r) /\ Len(r) <= MaxSessions
       /\ c \in ToSet(r) /\ ToSet(r) \subseteq ToSet(q) \cup {c}
       /\ After(r, c) = {} /\ \A d : After(r, d) \subseteq After(q, d) \cup {c}
       /\ \A d \in ToSet(q) \ ToSet(r) :
            d \in Expired \/ Cardinality(After(q, d)) >= MaxSessions - 1
  OBVIOUS
<1>1. s \in Scopes /\ MaxSessions \in Nat \ {0} /\ (Hit(c) <=> c \in ToSet(kept))
  BY TurnsAssumption, LimitsAssumption DEF Hit
<1>2. /\ q \in Seq(Conversations) /\ Injective(q)
      /\ kept \in Seq(Conversations) /\ Injective(kept) /\ Len(kept) <= MaxSessions
      /\ ToSet(kept) = ToSet(q) \ Expired
      /\ \A d : After(kept, d) \subseteq After(q, d)
  BY <1>1, CacheType, KeptType
<1>3. /\ base \in Seq(Conversations) /\ Injective(base) /\ Len(base) <= Len(kept)
      /\ ToSet(base) = ToSet(kept) \ {c}
      /\ \A d : After(base, d) \subseteq After(kept, d)
  <2>1. CASE Hit(c)
    <3>1. /\ Without(kept, {c}) \in Seq(Conversations) /\ Len(Without(kept, {c})) <= Len(kept)
          /\ ToSet(Without(kept, {c})) = ToSet(kept) \ {c}
          /\ \A d : After(Without(kept, {c}), d) \subseteq After(kept, d)
          /\ Injective(Without(kept, {c}))
      <4> HIDE DEF kept
      <4> QED BY <1>2, WithoutKeeps, WithoutSet DEF Injective
    <3> QED BY <2>1, <3>1
  <2>2. CASE ~Hit(c)
    <3>1. Len(kept) \in Nat
      BY <1>2
    <3> QED BY <1>1, <1>2, <2>2, <3>1
  <2> QED BY <2>1, <2>2
<1> HIDE DEF s, q, kept, base
<1>4. /\ grown \in Seq(Conversations) /\ Len(grown) = Len(base) + 1 /\ Injective(grown)
      /\ ToSet(grown) = ToSet(base) \cup {c} /\ After(grown, c) = {}
      /\ \A d : After(grown, d) \subseteq After(base, d) \cup {c}
  <2>1. c \notin ToSet(base)
    BY <1>3
  <2>2. /\ Append(base, c) \in Seq(Conversations) /\ Len(Append(base, c)) = Len(base) + 1
        /\ ToSet(Append(base, c)) = ToSet(base) \cup {c}
        /\ \A d : After(Append(base, c), d) \subseteq After(base, d) \cup {c}
    BY <1>3, AppendSet
  <2>3. After(Append(base, c), c) = {}
    BY <1>3, <2>1, AppendSet
  <2>4. Injective(Append(base, c))
    <3>1. base \in Seq(Conversations) /\ Injective(base)
      BY <1>3
    <3> HIDE DEF grown
    <3> QED BY <2>1, <3>1, AppendDistinct
  <2> QED BY <2>2, <2>3, <2>4
<1>5. Len(base) \in Nat /\ Len(kept) \in Nat
  BY <1>2, <1>3
<1> HIDE DEF grown
<1>6. CASE Hit(c)
  <2>1. r = grown
    BY <1>6 DEF Opened, grown, base, kept, s
  <2>2. Len(grown) <= Len(kept)
    <3>1. Cardinality(ToSet(kept)) = Len(kept) /\ Cardinality(ToSet(grown)) = Len(grown)
      BY <1>2, <1>4, InjectiveLength DEF Injective
    <3>2. ToSet(grown) = ToSet(kept)
      BY <1>1, <1>3, <1>4, <1>6
    <3> QED BY <1>5, <3>1, <3>2
  <2>3. ToSet(q) \ ToSet(r) \subseteq Expired
    BY <1>1, <1>2, <1>3, <1>4, <2>1
  <2>4. Len(r) <= MaxSessions
    BY <1>1, <1>2, <1>4, <1>5, <2>1, <2>2
  <2>5. c \in ToSet(r) /\ ToSet(r) \subseteq ToSet(q) \cup {c}
    BY <1>2, <1>3, <1>4, <2>1
  <2>6. \A d : After(r, d) \subseteq After(q, d) \cup {c}
    BY <1>2, <1>3, <1>4, <2>1
  <2> QED BY <1>4, <2>1, <2>3, <2>4, <2>5, <2>6
<1>7. CASE ~Hit(c) /\ Len(grown) <= MaxSessions
  <2>1. r = grown
    <3>1. r = IF Len(grown) > MaxSessions THEN Tail(grown) ELSE grown
      BY <1>7 DEF Opened, grown, base, kept, s
    <3> QED BY <1>1, <1>4, <1>5, <1>7, <3>1
  <2>2. ToSet(q) \ ToSet(r) \subseteq Expired
    BY <1>2, <1>3, <1>4, <2>1
  <2>3. c \in ToSet(r) /\ ToSet(r) \subseteq ToSet(q) \cup {c}
    BY <1>2, <1>3, <1>4, <2>1
  <2>4. \A d : After(r, d) \subseteq After(q, d) \cup {c}
    BY <1>2, <1>3, <1>4, <2>1
  <2> QED BY <1>4, <1>7, <2>1, <2>2, <2>3, <2>4
<1>8. CASE ~Hit(c) /\ Len(grown) > MaxSessions
  <2>1. r = Tail(grown) /\ base = kept
    BY <1>8 DEF Opened, grown, base, kept, s
  <2>2. Len(kept) = MaxSessions /\ Len(grown) = MaxSessions + 1 /\ kept # <<>> /\ grown # <<>>
    BY <1>1, <1>2, <1>4, <1>5, <1>8, <2>1
  <2>3. /\ Tail(grown) \in Seq(Conversations) /\ Len(Tail(grown)) = Len(grown) - 1
        /\ Injective(Tail(grown)) /\ ToSet(Tail(grown)) = ToSet(grown) \ {Head(grown)}
        /\ \A d : After(Tail(grown), d) \subseteq After(grown, d)
    BY <1>4, <2>2, TailSet, TailInjective
  <2>4. Head(grown) = Head(kept) /\ Head(kept) \in ToSet(kept)
    BY <1>2, <1>5, <2>1, <2>2 DEF grown, ToSet
  <2>5. Head(grown) # c
    BY <1>3, <2>1, <2>4
  <2>6. Cardinality(After(q, Head(kept))) >= MaxSessions - 1
    <3>1. IsFiniteSet(ToSet(kept)) /\ Cardinality(ToSet(kept)) = MaxSessions
      BY <1>2, <2>2, InjectiveLength DEF Injective
    <3>2. After(kept, Head(kept)) = ToSet(kept) \ {Head(kept)}
      BY <1>2, <2>2, InjectiveLength DEF Injective
    <3>3. Cardinality(After(kept, Head(kept))) = MaxSessions - 1
      BY <2>4, <3>1, <3>2, FS_RemoveElement
    <3>4. IsFiniteSet(After(q, Head(kept))) /\ Cardinality(After(q, Head(kept))) \in Nat
      <4>1. IsFiniteSet(ToSet(q)) /\ After(q, Head(kept)) \in SUBSET ToSet(q)
        BY <1>2, InjectiveLength DEF Injective, After, ToSet
      <4> QED BY <4>1, FS_Subset, FS_CardinalityType
    <3>5. After(kept, Head(kept)) \in SUBSET After(q, Head(kept))
      BY <1>2
    <3>6. Cardinality(After(kept, Head(kept))) <= Cardinality(After(q, Head(kept)))
      BY <3>4, <3>5, FS_Subset
    <3> QED BY <1>1, <3>3, <3>4, <3>6
  <2>7. \A d \in ToSet(q) \ ToSet(r) : d \in Expired \/ d = Head(kept)
    BY <1>2, <1>3, <1>4, <2>1, <2>3, <2>4
  <2>8. c \in ToSet(r) /\ ToSet(r) \subseteq ToSet(q) \cup {c}
    BY <1>2, <1>3, <1>4, <2>1, <2>3, <2>5
  <2>9. After(r, c) = {} /\ \A d : After(r, d) \subseteq After(q, d) \cup {c}
    BY <1>2, <1>3, <1>4, <2>1, <2>3
  <2>10. Len(r) <= MaxSessions
    BY <1>1, <2>1, <2>2, <2>3
  <2> QED BY <2>1, <2>3, <2>6, <2>7, <2>8, <2>9, <2>10
<1>9. Hit(c) \/ Len(grown) <= MaxSessions \/ Len(grown) > MaxSessions
  BY <1>1, <1>4, <1>5
<1> QED BY <1>6, <1>7, <1>8, <1>9 DEF q, s

--------------------------------------------------------------------------------
(* The queues of the locks.                                                *)
Ops == TurnOps \cup HostOps

(* What is in r was in q, in the same order.                               *)
Places(r, q, place) ==
  /\ place \in [DOMAIN r -> DOMAIN q]
  /\ \A k \in DOMAIN r : r[k] = q[place[k]]
  /\ \A k, l \in DOMAIN r : k < l => place[k] < place[l]

LEMMA PlacesOfTail ==
  ASSUME NEW S, NEW q \in Seq(S), q # <<>>
  PROVE  Places(Tail(q), q, [i \in DOMAIN Tail(q) |-> i + 1])
<1>1. /\ Tail(q) \in Seq(S) /\ Len(Tail(q)) \in Nat /\ DOMAIN Tail(q) = 1..Len(Tail(q))
      /\ \A i \in DOMAIN Tail(q) : i + 1 \in DOMAIN q /\ Tail(q)[i] = q[i + 1]
  <2>1. Tail(q) \in Seq(S)
    BY TailSet
  <2> QED BY <2>1, TailSet
<1> QED BY <1>1 DEF Places

LEMMA PlacesOfAll ==
  ASSUME NEW S, NEW q \in Seq(S)
  PROVE  Places(q, q, [i \in DOMAIN q |-> i])
BY DEF Places

LEMMA PlacesKept ==
  ASSUME NEW r, NEW q, NEW C, NEW place, Keeps(r, q, C, place)
  PROVE  Places(r, q, place)
BY DEF Keeps, Places

(* Operations that leave the queue are no longer ahead of the others.      *)
LEMMA FewerAhead ==
  ASSUME NEW q \in Seq(Ops), NEW r \in Seq(Ops), NEW place, Places(r, q, place),
         NEW i \in DOMAIN q, NEW k \in DOMAIN r, place[k] = i
  PROVE  /\ Cardinality(OpensBefore(r, k)) \in Nat /\ Cardinality(OpensBefore(q, i)) \in Nat
         /\ Cardinality(OpensBefore(r, k)) <= Cardinality(OpensBefore(q, i))
         /\ 1 \in OpensBefore(q, i) /\ (\A j \in DOMAIN r : place[j] # 1)
              => Cardinality(OpensBefore(r, k)) < Cardinality(OpensBefore(q, i))
<1> DEFINE A == OpensBefore(r, k)
           B == OpensBefore(q, i)
           f == [j \in A |-> place[j]]
<1>1. DOMAIN q = 1..Len(q) /\ Len(q) \in Nat /\ DOMAIN r = 1..Len(r) /\ Len(r) \in Nat
  OBVIOUS
<1>2. IsFiniteSet(A) /\ IsFiniteSet(B) /\ Cardinality(A) \in Nat /\ Cardinality(B) \in Nat
  <2>1. ASSUME NEW n \in Nat PROVE IsFiniteSet(1..n)
    BY FiniteInterval
  <2>2. A \in SUBSET (1..Len(r)) /\ B \in SUBSET (1..Len(q))
    BY <1>1 DEF OpensBefore
  <2> HIDE DEF A, B
  <2> QED BY <1>1, <2>1, <2>2, FS_Subset, FS_CardinalityType
<1>3. \A j \in A : f[j] \in B /\ j \in DOMAIN r
  <2> SUFFICES ASSUME NEW j \in A PROVE place[j] \in B /\ j \in DOMAIN r
    OBVIOUS
  <2>1. j \in DOMAIN r /\ j < k /\ \E t \in Turns : r[j] \in OpsOf(t)
    BY DEF OpensBefore
  <2>2. place[j] \in DOMAIN q /\ place[j] < i /\ r[j] = q[place[j]]
    BY <2>1 DEF Places
  <2> QED BY <2>1, <2>2 DEF OpensBefore
<1>4. \A j, l \in A : f[j] = f[l] => j = l
  <2> SUFFICES ASSUME NEW j \in A, NEW l \in A, j # l PROVE f[j] # f[l]
    OBVIOUS
  <2>1. j \in DOMAIN r /\ l \in DOMAIN r /\ (j < l \/ l < j)
    BY <1>1, <1>3
  <2>2. place[j] \in Nat /\ place[l] \in Nat /\ (place[j] < place[l] \/ place[l] < place[j])
    BY <1>1, <2>1 DEF Places
  <2> QED BY <2>2
<1>5. f \in Injection(A, B)
  BY <1>3, <1>4 DEF Injection, IsInjective
<1>6. Cardinality(A) <= Cardinality(B)
  BY <1>2, <1>5, FS_Injection
<1>7. ASSUME 1 \in B, \A j \in DOMAIN r : place[j] # 1 PROVE Cardinality(A) < Cardinality(B)
  <2>1. f \in Injection(A, B \ {1})
    BY <1>3, <1>5, <1>7 DEF Injection, IsInjective
  <2>2. IsFiniteSet(B \ {1}) /\ Cardinality(B \ {1}) = Cardinality(B) - 1
    BY <1>2, <1>7, FS_RemoveElement
  <2>3. Cardinality(A) <= Cardinality(B \ {1})
    BY <2>1, <2>2, FS_Injection
  <2> QED BY <1>2, <2>2, <2>3
<1> QED BY <1>2, <1>6, <1>7

LEMMA SameAhead ==
  ASSUME NEW r \in Seq(Ops), NEW o, NEW k \in DOMAIN r
  PROVE  k \in DOMAIN Append(r, o) /\ Append(r, o)[k] = r[k] /\ OpensBefore(Append(r, o), k) = OpensBefore(r, k)
<1>1. /\ DOMAIN r = 1..Len(r) /\ Len(r) \in Nat /\ DOMAIN Append(r, o) = 1..(Len(r) + 1)
      /\ \A j \in 1..Len(r) : Append(r, o)[j] = r[j]
  OBVIOUS
<1>2. \A j \in DOMAIN Append(r, o) : j < k => j \in DOMAIN r
  BY <1>1
<1>3. \A j \in DOMAIN r : j \in DOMAIN Append(r, o) /\ Append(r, o)[j] = r[j]
  BY <1>1
<1> QED BY <1>2, <1>3 DEF OpensBefore

LEMMA OpsApart ==
  /\ \A t \in Turns : OpsOf(t) \subseteq TurnOps
  /\ \A t, u \in Turns : \A o \in OpsOf(t) : o \in OpsOf(u) => t = u
  /\ \A o \in HostOps, t \in Turns : o \notin OpsOf(t)
BY DEF OpsOf, TurnOps, HostOps

(* A turn whose operation left the queue goes on to its next phase, with   *)
(* or without an operation that waits.                                     *)
LEMMA TurnKeepsQueue ==
  ASSUME TypeOK, QueueFollowsPhase, NEW t \in Turns,
         NEW r \in Seq(Ops), NEW place, Places(r, queue[TurnScope(t)], place),
         \A k \in DOMAIN r : r[k] \notin OpsOf(t),
         \A u \in Turns : u # t => phase'[u] = phase[u],
         NEW q, queue' = [queue EXCEPT ![TurnScope(t)] = q],
         q = r \/ \E o \in OpsOf(t) : q = Append(r, o) /\ phase'[t] = PhaseIn[o.op]
  PROVE  QueueFollowsPhase'
<1> DEFINE s == TurnScope(t)
<1>0. s \in Scopes /\ queue \in [Scopes -> Seq(Ops)]
  BY TurnsAssumption DEF TypeOK, TurnScope, Ops
<1>1. queue'[s] = q /\ \A z \in Scopes : z # s => queue'[z] = queue[z]
  BY <1>0
<1>2. /\ DOMAIN r = 1..Len(r) /\ Len(r) \in Nat
      /\ \A o : /\ DOMAIN Append(r, o) = 1..(Len(r) + 1) /\ Append(r, o)[Len(r) + 1] = o
                /\ \A j \in 1..Len(r) : Append(r, o)[j] = r[j]
  OBVIOUS
<1>3. \A i \in DOMAIN q : \/ i \in DOMAIN r /\ q[i] = r[i]
                          \/ q # r /\ i = Len(r) + 1 /\ q[i] \in OpsOf(t) /\ phase'[t] = PhaseIn[q[i].op]
  <2>1. CASE q = r
    BY <2>1
  <2>2. CASE \E o \in OpsOf(t) : q = Append(r, o) /\ phase'[t] = PhaseIn[o.op]
    <3>1. PICK o \in OpsOf(t) : q = Append(r, o) /\ phase'[t] = PhaseIn[o.op]
      BY <2>2
    <3>2. o \in Ops
      BY OpsApart DEF Ops
    <3>3. /\ Len(q) = Len(r) + 1 /\ DOMAIN q = 1..(Len(r) + 1) /\ q[Len(r) + 1] = o
          /\ \A j \in 1..Len(r) : q[j] = r[j]
      BY <3>1, <3>2
    <3>4. q # r
      BY <1>2, <3>3
    <3>5. \A i \in DOMAIN q : i \in 1..Len(r) \/ i = Len(r) + 1
      BY <1>2, <3>3
    <3> QED BY <1>2, <3>1, <3>3, <3>4, <3>5
  <2> QED BY <2>1, <2>2
<1> SUFFICES ASSUME NEW z \in Scopes, NEW i \in DOMAIN queue'[z], NEW u \in Turns, queue'[z][i] \in OpsOf(u)
             PROVE  /\ z = TurnScope(u) /\ phase'[u] = PhaseIn[queue'[z][i].op]
                    /\ \A j \in DOMAIN queue'[z] : queue'[z][j] \in OpsOf(u) => i = j
  BY DEF QueueFollowsPhase, TurnScope
<1>4. CASE u = t
  <2>1. z = s
    <3> SUFFICES ASSUME z # s PROVE FALSE
      OBVIOUS
    <3>1. i \in DOMAIN queue[z] /\ queue[z][i] \in OpsOf(t)
      BY <1>1, <1>4
    <3> QED BY <3>1 DEF QueueFollowsPhase
  <2>2. \A j \in DOMAIN q : q[j] \in OpsOf(t) => j = Len(r) + 1 /\ phase'[t] = PhaseIn[q[j].op]
    BY <1>3
  <2> QED BY <1>1, <1>4, <2>1, <2>2
<1>5. CASE u # t
  <2>1. CASE z # s
    <3>1. queue'[z] = queue[z]
      BY <1>1, <2>1
    <3> QED BY <1>5, <3>1 DEF QueueFollowsPhase
  <2>2. CASE z = s
    <3>1. \A j \in DOMAIN q : q[j] \in OpsOf(u) => j \in DOMAIN r /\ q[j] = r[j]
      BY <1>3, <1>5, OpsApart
    <3>2. i \in DOMAIN r /\ q[i] = r[i]
      BY <1>1, <2>2, <3>1
    <3>3. place[i] \in DOMAIN queue[s] /\ queue[s][place[i]] = q[i]
      BY <3>2 DEF Places
    <3>4. z = TurnScope(u) /\ phase[u] = PhaseIn[q[i].op]
      BY <1>0, <1>1, <2>2, <3>3 DEF QueueFollowsPhase
    <3>5. ASSUME NEW j \in DOMAIN q, q[j] \in OpsOf(u) PROVE i = j
      <4>1. j \in DOMAIN r /\ place[j] \in DOMAIN queue[s] /\ queue[s][place[j]] = q[j]
        BY <3>1, <3>5 DEF Places
      <4>2. place[i] = place[j]
        BY <1>0, <1>1, <2>2, <3>3, <3>5, <4>1 DEF QueueFollowsPhase
      <4>3. ~(i < j) /\ ~(j < i)
        <5>1. place[i] \in Nat
          <6>1. queue[s] \in Seq(Ops)
            BY <1>0
          <6> QED BY <3>3, <6>1
        <5> QED BY <3>2, <4>1, <4>2, <5>1 DEF Places
      <4> QED BY <1>2, <3>2, <4>1, <4>3
    <3> QED BY <1>1, <1>5, <2>2, <3>4, <3>5
  <2> QED BY <2>1, <2>2
<1> QED BY <1>4, <1>5

(* The host's operations come and go between those of the turns.           *)
LEMMA HostKeepsQueue ==
  ASSUME TypeOK, QueueFollowsPhase, NEW s \in Scopes,
         NEW r \in Seq(Ops), NEW place, Places(r, queue[s], place), UNCHANGED phase,
         NEW q, queue' = [queue EXCEPT ![s] = q],
         q = r \/ \E o \in HostOps : q = Append(r, o)
  PROVE  QueueFollowsPhase'
<1>0. queue \in [Scopes -> Seq(Ops)]
  BY DEF TypeOK, Ops
<1>1. queue'[s] = q /\ \A z \in Scopes : z # s => queue'[z] = queue[z]
  BY <1>0
<1>2. /\ DOMAIN r = 1..Len(r) /\ Len(r) \in Nat
      /\ \A o : /\ DOMAIN Append(r, o) = 1..(Len(r) + 1) /\ Append(r, o)[Len(r) + 1] = o
                /\ \A j \in 1..Len(r) : Append(r, o)[j] = r[j]
  OBVIOUS
<1>3. \A j \in DOMAIN q : (\E u \in Turns : q[j] \in OpsOf(u)) => j \in DOMAIN r /\ q[j] = r[j]
  BY <1>2, OpsApart
<1> SUFFICES ASSUME NEW z \in Scopes, NEW i \in DOMAIN queue'[z], NEW u \in Turns, queue'[z][i] \in OpsOf(u)
             PROVE  /\ z = TurnScope(u) /\ phase'[u] = PhaseIn[queue'[z][i].op]
                    /\ \A j \in DOMAIN queue'[z] : queue'[z][j] \in OpsOf(u) => i = j
  BY DEF QueueFollowsPhase, TurnScope
<1>4. CASE z # s
  <2>1. queue'[z] = queue[z]
    BY <1>1, <1>4
  <2> QED BY <2>1 DEF QueueFollowsPhase
<1>5. CASE z = s
  <2>1. i \in DOMAIN r /\ q[i] = r[i] /\ q[i] \in OpsOf(u)
    BY <1>1, <1>3, <1>5
  <2>2. place[i] \in DOMAIN queue[s] /\ queue[s][place[i]] = q[i]
    BY <2>1 DEF Places
  <2>3. z = TurnScope(u) /\ phase[u] = PhaseIn[q[i].op]
    BY <1>5, <2>1, <2>2 DEF QueueFollowsPhase
  <2>4. ASSUME NEW j \in DOMAIN q, q[j] \in OpsOf(u) PROVE i = j
    <3>1. j \in DOMAIN r /\ place[j] \in DOMAIN queue[s] /\ queue[s][place[j]] = q[j]
      BY <1>3, <2>4 DEF Places
    <3>2. place[i] = place[j]
      BY <2>1, <2>2, <2>4, <3>1 DEF QueueFollowsPhase
    <3>3. ~(i < j) /\ ~(j < i)
      <4>1. place[i] \in Nat
        <5>1. queue[s] \in Seq(Ops)
          BY <1>0
        <5> QED BY <2>2, <5>1
      <4> QED BY <2>1, <3>1, <3>2, <4>1 DEF Places
    <3> QED BY <1>2, <2>1, <3>1, <3>3
  <2> QED BY <1>1, <1>5, <2>3, <2>4
<1> QED BY <1>4, <1>5

(* The operation at the head of a queue, what it says of its turn, and     *)
(* what is behind it.                                                      *)
LEMMA HeadOfTurn ==
  ASSUME TypeOK, QueueFollowsPhase, NEW t \in Turns, NEW o \in OpsOf(t), AtHead(TurnScope(t), o)
  PROVE  LET q == queue[TurnScope(t)] IN
         /\ TurnScope(t) \in Scopes /\ q \in Seq(Ops) /\ q # <<>> /\ 1 \in DOMAIN q /\ q[1] = o
         /\ phase[t] = PhaseIn[o.op] /\ phase[t] \in Active
         /\ Tail(q) \in Seq(Ops) /\ \A k \in DOMAIN Tail(q) : Tail(q)[k] \notin OpsOf(t)
<1> DEFINE q == queue[TurnScope(t)]
<1>1. TurnScope(t) \in Scopes /\ q \in Seq(Ops)
  BY TurnsAssumption DEF TypeOK, TurnScope, Ops
<1>2. q # <<>> /\ Head(q) = o
  BY DEF AtHead
<1> HIDE DEF q
<1>3. /\ Tail(q) \in Seq(Ops) /\ q[1] = o /\ 1 \in DOMAIN q
      /\ \A k \in DOMAIN Tail(q) : k + 1 \in DOMAIN q /\ Tail(q)[k] = q[k + 1]
  <2>1. /\ Head(q) = q[1] /\ Tail(q) \in Seq(Ops) /\ Len(q) \in Nat \ {0}
        /\ \A k \in DOMAIN Tail(q) : k + 1 \in DOMAIN q /\ Tail(q)[k] = q[k + 1]
    BY <1>1, <1>2, TailSet
  <2>2. 1 \in DOMAIN q
    BY <1>1, <2>1
  <2> QED BY <1>2, <2>1, <2>2
<1>4. /\ phase[t] = PhaseIn[o.op]
      /\ \A j \in DOMAIN q : q[j] \in OpsOf(t) => 1 = j
  BY <1>1, <1>3 DEF QueueFollowsPhase, q
<1>5. phase[t] \in Active
  BY <1>4 DEF OpsOf, PhaseIn, Active
<1>6. \A k \in DOMAIN Tail(q) : Tail(q)[k] \notin OpsOf(t)
  <2> SUFFICES ASSUME NEW k \in DOMAIN Tail(q), Tail(q)[k] \in OpsOf(t) PROVE FALSE
    OBVIOUS
  <2>1. k + 1 = 1 /\ k \in Nat \ {0}
    <3>1. k \in Nat \ {0}
      BY <1>3
    <3> QED BY <1>3, <1>4, <3>1
  <2> QED BY <2>1
<1> QED BY <1>1, <1>2, <1>3, <1>4, <1>5, <1>6 DEF q

(* A turn that has a slot keeps it or gives it back, another is admitted.  *)
LEMMA SlotsKept ==
  ASSUME TypeOK, SlotsRespected, SessionLimit = 1, NEW t \in Turns, NEW p,
         phase' = [phase EXCEPT ![t] = p],
         phase[t] \in Active \/ p \notin Active \/ Admissible(t)
  PROVE  SlotsRespected'
<1> DEFINE A == ActiveTurns
           same == {u \in A : ConversationOf[u] = ConversationOf[t]}
<1>1. IsFiniteSet(A) /\ Cardinality(A) \in Nat /\ IsFiniteSet(same) /\ Cardinality(same) \in Nat
      /\ RunLimit \in Nat
  <2>1. A \in SUBSET Turns /\ same \in SUBSET Turns
    BY DEF ActiveTurns
  <2> QED BY <2>1, TurnsAssumption, LimitsAssumption, FS_Subset, FS_CardinalityType
<1>2. \A u \in Turns : phase'[u] = IF u = t THEN p ELSE phase[u]
  BY DEF TypeOK
<1>3. CASE ActiveTurns' \in SUBSET A
  <2>1. Cardinality(ActiveTurns') <= Cardinality(A) /\ Cardinality(ActiveTurns') \in Nat
    <3> HIDE DEF A
    <3> QED BY <1>1, <1>3, FS_Subset, FS_CardinalityType
  <2> QED BY <1>1, <1>3, <2>1 DEF SlotsRespected
<1>4. CASE Admissible(t) /\ ActiveTurns' \in SUBSET (A \cup {t})
  <2>1. Cardinality(A) < RunLimit /\ Cardinality(same) < 1
    BY <1>4 DEF Admissible, ActiveTurns
  <2>2. same = {}
    <3> HIDE DEF same
    <3> QED BY <1>1, <2>1, FS_EmptySet
  <2>3. Cardinality(ActiveTurns') <= RunLimit
    <3>1. IsFiniteSet(A \cup {t}) /\ Cardinality(A \cup {t}) <= Cardinality(A) + 1
          /\ Cardinality(A \cup {t}) \in Nat
      <4> HIDE DEF A
      <4>1. IsFiniteSet(A \cup {t})
            /\ Cardinality(A \cup {t}) = IF t \in A THEN Cardinality(A) ELSE Cardinality(A) + 1
        BY <1>1, FS_AddElement
      <4> QED BY <1>1, <4>1
    <3>2. Cardinality(ActiveTurns') <= Cardinality(A \cup {t}) /\ Cardinality(ActiveTurns') \in Nat
      <4> HIDE DEF A
      <4> QED BY <1>4, <3>1, FS_Subset, FS_CardinalityType
    <3> QED BY <1>1, <2>1, <3>1, <3>2
  <2>4. \A u \in A : ConversationOf[u] # ConversationOf[t]
    BY <2>2
  <2> QED BY <1>4, <2>3, <2>4 DEF SlotsRespected
<1>5. ActiveTurns' \in SUBSET A \/ (Admissible(t) /\ ActiveTurns' \in SUBSET (A \cup {t}))
  BY <1>2 DEF ActiveTurns
<1> QED BY <1>3, <1>4, <1>5

(* The save of t is among what is left of q, perhaps with one more.        *)
SaveLeft(p, r, q, place, t) ==
  /\ Places(r, q, place) /\ (p = r \/ \E o : p = Append(r, o))
  /\ \A i \in DOMAIN q : q[i] = [op |-> "save", turn |-> t] => \E k \in DOMAIN r : place[k] = i

(* The head of q, ahead of the save of t, has left.                        *)
HeadLeft(r, q, place, t) ==
  /\ \A j \in DOMAIN r : place[j] # 1
  /\ \A i \in DOMAIN q : q[i] = [op |-> "save", turn |-> t] => 1 \in OpensBefore(q, i)

(* A save stays in time: what left the queue is not ahead of it any more,  *)
(* and makes up for one more conversation behind it in the cache.          *)
LEMMA StaysInTime ==
  ASSUME TypeOK, NEW t \in Turns, SaveInTime(t),
         NEW r \in Seq(Ops), NEW place, SaveLeft(queue'[TurnScope(t)], r, queue[TurnScope(t)], place, t),
         NEW X, X = {} \/ (HeadLeft(r, queue[TurnScope(t)], place, t) /\ \E x : X = {x}),
         After(lru'[TurnScope(t)], ConversationOf[t])
           \subseteq After(lru[TurnScope(t)], ConversationOf[t]) \cup X
  PROVE  SaveInTime(t)'
<1> DEFINE s == TurnScope(t)
           q == queue[s]
           A == After(lru[s], ConversationOf[t])
           B == After(lru'[s], ConversationOf[t])
           save == [op |-> "save", turn |-> t]
<1>1. s \in Scopes /\ q \in Seq(Ops) /\ lru[s] \in Seq(Conversations) /\ MaxSessions \in Nat
  BY TurnsAssumption, LimitsAssumption DEF TypeOK, TurnScope, Ops
<1>2. IsFiniteSet(A) /\ Cardinality(A) \in Nat
  <2>1. A \in SUBSET Conversations
    BY <1>1 DEF After
  <2> HIDE DEF A
  <2> QED BY <2>1, TurnsAssumption, FS_Subset, FS_CardinalityType
<1>3. PICK i \in DOMAIN q : q[i] = save /\ Cardinality(A) + Cardinality(OpensBefore(q, i)) < MaxSessions
  BY DEF SaveInTime
<1>4. PICK k \in DOMAIN r : place[k] = i
  BY <1>3 DEF SaveLeft
<1>5. r[k] = save
  BY <1>3, <1>4 DEF SaveLeft, Places
<1> HIDE DEF A, B, q, save
<1>6. /\ Cardinality(OpensBefore(r, k)) \in Nat /\ Cardinality(OpensBefore(q, i)) \in Nat
      /\ Cardinality(OpensBefore(r, k)) <= Cardinality(OpensBefore(q, i))
      /\ 1 \in OpensBefore(q, i) /\ (\A j \in DOMAIN r : place[j] # 1)
           => Cardinality(OpensBefore(r, k)) < Cardinality(OpensBefore(q, i))
  <2>1. Places(r, q, place)
    BY DEF SaveLeft, q
  <2> QED BY <1>1, <1>4, <2>1, FewerAhead
<1>7. Cardinality(B) + Cardinality(OpensBefore(r, k)) < MaxSessions
  <2>1. CASE B \subseteq A
    <3>1. Cardinality(B) \in Nat /\ Cardinality(B) <= Cardinality(A)
      BY <1>2, <2>1, FS_Subset, FS_CardinalityType
    <3> QED BY <1>1, <1>2, <1>3, <1>6, <3>1
  <2>2. CASE (\E x : B \subseteq A \cup {x}) /\ (\A j \in DOMAIN r : place[j] # 1) /\ 1 \in OpensBefore(q, i)
    <3> PICK x : B \subseteq A \cup {x}
      BY <2>2
    <3>1. IsFiniteSet(A \cup {x}) /\ Cardinality(A \cup {x}) \in Nat
          /\ Cardinality(A \cup {x}) <= Cardinality(A) + 1
      <4>1. /\ IsFiniteSet(A \cup {x})
            /\ Cardinality(A \cup {x}) = IF x \in A THEN Cardinality(A) ELSE Cardinality(A) + 1
        BY <1>2, FS_AddElement
      <4> QED BY <1>2, <4>1
    <3>2. Cardinality(B) \in Nat /\ Cardinality(B) <= Cardinality(A \cup {x})
      BY <2>2, <3>1, FS_Subset, FS_CardinalityType
    <3>3. Cardinality(OpensBefore(r, k)) < Cardinality(OpensBefore(q, i))
      BY <1>6, <2>2
    <3> QED BY <1>1, <1>2, <1>3, <1>6, <3>1, <3>2, <3>3
  <2>3. \/ B \subseteq A
        \/ (\E x : B \subseteq A \cup {x}) /\ (\A j \in DOMAIN r : place[j] # 1) /\ 1 \in OpensBefore(q, i)
    BY <1>3 DEF A, B, q, save, HeadLeft
  <2> QED BY <2>1, <2>2, <2>3
<1>8. k \in DOMAIN queue'[s] /\ queue'[s][k] = save
      /\ OpensBefore(queue'[s], k) = OpensBefore(r, k)
  <2>1. CASE queue'[s] = r
    BY <1>5, <2>1
  <2>2. CASE \E o : queue'[s] = Append(r, o)
    BY <1>5, <2>2, SameAhead
  <2> QED BY <2>1, <2>2 DEF SaveLeft
<1> QED BY <1>7, <1>8 DEF SaveInTime, TurnScope, B, save, s

--------------------------------------------------------------------------------
(* A turn opens its session.                                               *)
LEMMA SetCacheSays ==
  ASSUME TypeOK, NEW c \in Conversations, NEW h, SetCache(c, Opened(c), h)
  PROVE  /\ lru' \in [Scopes -> Seq(Conversations)]
         /\ lru'[ScopeOf[c]] = Opened(c) /\ \A z \in Scopes \ {ScopeOf[c]} : lru'[z] = lru[z]
         /\ \A z \in Scopes : /\ IsInjective(lru'[z]) /\ Len(lru'[z]) <= MaxSessions
                              /\ \A i \in DOMAIN lru'[z] : ScopeOf[lru'[z][i]] = z
         /\ h \in Histories => messages' \in [Conversations -> Histories]
         /\ access' \in [Conversations -> 0..now]
         /\ DOMAIN messages' = Conversations
         /\ \A d \in Conversations : messages'[d] \in {messages[d], h, <<>>}
         /\ Cached(c)' /\ messages'[c] = h /\ access'[c] = now
         /\ \A d \in Conversations \ {c} :
              /\ Cached(d)' => Cached(d) /\ messages'[d] = messages[d] /\ access'[d] = access[d]
              /\ Cached(d) /\ ~Cached(d)' =>
                   ScopeOf[d] = ScopeOf[c] /\ d \in ToSet(lru[ScopeOf[c]]) \ ToSet(Opened(c))
<1> DEFINE s == ScopeOf[c]
           r == Opened(c)
           stays(d) == ScopeOf[d] # s \/ d \in ToSet(r)
<1>1. /\ r \in Seq(Conversations) /\ Injective(r) /\ Len(r) <= MaxSessions
      /\ c \in ToSet(r) /\ ToSet(r) \subseteq ToSet(lru[s]) \cup {c}
  BY OpenedCache
<1>2. s \in Scopes /\ lru \in [Scopes -> Seq(Conversations)] /\ now \in Nat
      /\ access \in [Conversations -> 0..now] /\ messages \in [Conversations -> Histories]
      /\ \A d \in Conversations : ScopeOf[d] \in Scopes
  <2>1. now \in Nat
    BY LimitsAssumption DEF TypeOK
  <2> QED BY <2>1, TurnsAssumption DEF TypeOK
<1>3. /\ lru' = [lru EXCEPT ![s] = r]
      /\ messages' = [d \in Conversations |->
                        IF ~stays(d) THEN <<>> ELSE IF d = c THEN h ELSE messages[d]]
      /\ access' = [d \in Conversations |->
                        IF ~stays(d) THEN 0 ELSE IF d = c THEN now ELSE access[d]]
  BY DEF SetCache
<1> HIDE DEF r
<1>4. lru' \in [Scopes -> Seq(Conversations)] /\ lru'[s] = r /\ \A z \in Scopes \ {s} : lru'[z] = lru[z]
  BY <1>1, <1>2, <1>3
<1>5. \A d \in ToSet(r) : ScopeOf[d] = s
  BY <1>1, <1>2, CacheType
<1>6. ASSUME NEW z \in Scopes
      PROVE  /\ IsInjective(lru'[z]) /\ Len(lru'[z]) <= MaxSessions
             /\ \A i \in DOMAIN lru'[z] : ScopeOf[lru'[z][i]] = z
  <2>1. CASE z = s
    <3>1. IsInjective(r) /\ \A i \in DOMAIN r : ScopeOf[r[i]] = s
      BY <1>1, <1>5 DEF Injective, IsInjective, ToSet
    <3> QED BY <1>1, <1>4, <2>1, <3>1
  <2>2. CASE z # s
    BY <1>4, <2>2 DEF TypeOK
  <2> QED BY <2>1, <2>2
<1>7. \A d \in Conversations : Cached(d)' <=> IF ScopeOf[d] = s THEN d \in ToSet(r) ELSE Cached(d)
  BY <1>2, <1>4 DEF Cached
<1>8. <<>> \in Histories
  <2>1. [1..0 -> Turns] \in {[1..n -> Turns] : n \in 0..Cardinality(Turns)}
    <3>1. Cardinality(Turns) \in Nat
      BY TurnsAssumption, FS_CardinalityType
    <3> QED BY <3>1
  <2>2. <<>> \in [1..0 -> Turns]
    OBVIOUS
  <2> QED BY <2>1, <2>2 DEF Histories
<1>9. h \in Histories => messages' \in [Conversations -> Histories]
  BY <1>2, <1>3, <1>8
<1>10. access' \in [Conversations -> 0..now]
  <2>1. 0 \in 0..now /\ now \in 0..now
    BY <1>2
  <2> QED BY <1>2, <1>3, <2>1
<1>11. /\ DOMAIN messages' = Conversations
       /\ \A d \in Conversations : messages'[d] \in {messages[d], h, <<>>}
  BY <1>3
<1>12. Cached(c)' /\ messages'[c] = h /\ access'[c] = now
  BY <1>1, <1>3, <1>7
<1>13. ASSUME NEW d \in Conversations \ {c}
       PROVE  /\ Cached(d)' => Cached(d) /\ messages'[d] = messages[d] /\ access'[d] = access[d]
              /\ Cached(d) /\ ~Cached(d)' => ScopeOf[d] = s /\ d \in ToSet(lru[s]) \ ToSet(r)
  <2>1. Cached(d)' => stays(d)
    BY <1>7
  <2>2. stays(d) => messages'[d] = messages[d] /\ access'[d] = access[d]
    BY <1>3
  <2>3. Cached(d)' => Cached(d)
    BY <1>1, <1>7 DEF Cached
  <2>4. Cached(d) /\ ~Cached(d)' => ScopeOf[d] = s /\ d \in ToSet(lru[s]) \ ToSet(r)
    BY <1>7 DEF Cached
  <2> QED BY <2>1, <2>2, <2>3, <2>4
<1> QED BY <1>4, <1>6, <1>9, <1>10, <1>11, <1>12, <1>13 DEF r

(* No two turns of a conversation are under way.                           *)
LEMMA OneAtATime ==
  ASSUME SlotsRespected, NEW t \in Turns, NEW u \in Turns, t # u,
         phase[t] \in Active, phase[u] \in Active
  PROVE  ConversationOf[t] # ConversationOf[u]
BY DEF SlotsRespected, ActiveTurns

(* A turn that waits to be saved has the turn at the head of the queue     *)
(* ahead of it, unless that is its own save.                               *)
LEMMA HeadIsAhead ==
  ASSUME TypeOK, QueueFollowsPhase, NEW u \in Turns, NEW o \in OpsOf(u), o.op # "save",
         AtHead(TurnScope(u), o), NEW t \in Turns,
         NEW i \in DOMAIN queue[TurnScope(u)], queue[TurnScope(u)][i] = [op |-> "save", turn |-> t]
  PROVE  1 \in OpensBefore(queue[TurnScope(u)], i)
<1> DEFINE q == queue[TurnScope(u)]
<1>1. q \in Seq(Ops) /\ 1 \in DOMAIN q /\ q[1] = o
  BY HeadOfTurn
<1>2. i # 1 /\ i \in 1..Len(q) /\ Len(q) \in Nat
  <2>1. q[i].op = "save"
    OBVIOUS
  <2> HIDE DEF q
  <2> QED BY <1>1, <2>1 DEF q
<1>3. 1 < i
  BY <1>2
<1> QED BY <1>1, <1>3 DEF OpensBefore

(* What the cache drops for the session of another turn is persisted.      *)
LEMMA DroppedIsSaved ==
  ASSUME IInv, SessionsFit, NEW u \in Turns, NEW o \in OpsOf(u), o.op # "save",
         AtHead(TurnScope(u), o), NEW d \in Conversations,
         ScopeOf[d] = TurnScope(u), d \in ToSet(lru[TurnScope(u)]) \ ToSet(Opened(ConversationOf[u]))
  PROVE  stored[d] = messages[d]
<1> DEFINE s == TurnScope(u)
           A == After(lru[s], d)
<1>1. TypeOK /\ QueueFollowsPhase
  BY DEF IInv, SavedAfterTurn
<1>2. Cached(d) /\ Log(d) = messages[d]
  BY DEF Cached, Log
<1>3. CASE \A t \in Turns : ConversationOf[t] = d => phase[t] # "saving"
  BY <1>2, <1>3 DEF IInv, SavedAfterTurn, SessionsFit
<1>4. CASE \E t \in Turns : ConversationOf[t] = d /\ phase[t] = "saving"
  <2>1. PICK t \in Turns : ConversationOf[t] = d /\ phase[t] = "saving"
    BY <1>4
  <2>2. access[d] = now /\ SaveInTime(t) /\ TurnScope(t) = s
    BY <1>2, <2>1 DEF IInv, SavesInTime, TurnScope
  <2>3. d \notin Expired
    <3>1. now \in Nat /\ Ttl \in Nat
      BY <1>1, LimitsAssumption DEF TypeOK
    <3> QED BY <2>2, <3>1 DEF Expired
  <2>4. Cardinality(A) >= MaxSessions - 1
    <3>1. \A e \in ToSet(lru[ScopeOf[ConversationOf[u]]]) \ ToSet(Opened(ConversationOf[u])) :
            e \in Expired \/ Cardinality(After(lru[ScopeOf[ConversationOf[u]]], e)) >= MaxSessions - 1
      <4>1. ConversationOf[u] \in Conversations
        BY TurnsAssumption
      <4> QED BY <1>1, <4>1, OpenedCache
    <3> QED BY <2>3, <3>1 DEF TurnScope
  <2>5. PICK i \in DOMAIN queue[s] :
          /\ queue[s][i] = [op |-> "save", turn |-> t]
          /\ Cardinality(A) + Cardinality(OpensBefore(queue[s], i)) < MaxSessions
    BY <2>1, <2>2 DEF SaveInTime
  <2>6. 1 \in OpensBefore(queue[s], i)
    BY <1>1, <2>1, <2>5, HeadIsAhead
  <2>7. Cardinality(OpensBefore(queue[s], i)) \in Nat \ {0}
    <3>1. queue[s] \in Seq(Ops)
      BY <1>1, TurnsAssumption DEF TypeOK, TurnScope, Ops
    <3>2. OpensBefore(queue[s], i) \in SUBSET (1..Len(queue[s])) /\ Len(queue[s]) \in Nat
      BY <3>1 DEF OpensBefore
    <3>3. ASSUME NEW n \in Nat PROVE IsFiniteSet(1..n)
      BY FiniteInterval
    <3>4. IsFiniteSet(OpensBefore(queue[s], i))
      BY <3>2, <3>3, FS_Subset
    <3> QED BY <2>6, <3>4, FS_CardinalityType, FS_EmptySet
  <2>8. Cardinality(A) \in Nat /\ MaxSessions \in Nat
    <3>1. A \in SUBSET Conversations
      BY <1>1, TurnsAssumption DEF TypeOK, TurnScope, After
    <3> HIDE DEF A
    <3> QED BY <3>1, TurnsAssumption, LimitsAssumption, FS_Subset, FS_CardinalityType
  <2> HIDE DEF A
  <2> QED BY <2>4, <2>5, <2>7, <2>8
<1> QED BY <1>3, <1>4

(* The session a turn opens has its history, the others keep theirs.       *)
LEMMA OpenKeepsLogs ==
  ASSUME IInv, SessionsFit, NEW u \in Turns, NEW o \in OpsOf(u), o.op # "save",
         AtHead(TurnScope(u), o), NEW h, SetCache(ConversationOf[u], Opened(ConversationOf[u]), h),
         UNCHANGED store
  PROVE  /\ Log(ConversationOf[u])' = h
         /\ \A d \in Conversations \ {ConversationOf[u]} : Log(d)' = Log(d)
<1> DEFINE c == ConversationOf[u]
<1>1. TypeOK /\ c \in Conversations
  BY TurnsAssumption DEF IInv, SavedAfterTurn
<1>2. /\ Cached(c)' /\ messages'[c] = h
      /\ \A d \in Conversations \ {c} :
           /\ Cached(d)' => Cached(d) /\ messages'[d] = messages[d]
           /\ Cached(d) /\ ~Cached(d)' =>
                ScopeOf[d] = ScopeOf[c] /\ d \in ToSet(lru[ScopeOf[c]]) \ ToSet(Opened(c))
  BY <1>1, SetCacheSays
<1>3. ASSUME NEW d \in Conversations \ {c} PROVE Log(d)' = Log(d)
  <2>1. Cached(d) /\ ~Cached(d)' => stored[d] = messages[d]
    BY <1>2, DroppedIsSaved DEF TurnScope
  <2>2. stored'[d] = stored[d]
    BY DEF store
  <2> QED BY <1>2, <2>1, <2>2 DEF Log
<1>4. Log(c)' = h
  BY <1>2 DEF Log
<1> QED BY <1>3, <1>4

(* What a turn is given is what the conversation consists of.              *)
LEMMA HistoryIsLog ==
  ASSUME IInv, SessionsFit, NEW c \in Conversations,
         \A t \in Turns : ConversationOf[t] = c => phase[t] # "saving"
  PROVE  History(c) = Log(c) /\ stored[c] = Log(c)
<1>1. stored[c] = Log(c) /\ Persistent
  BY DEF IInv, SavedAfterTurn, SessionsFit
<1>2. Hit(c) => Cached(c)
  <2>1. ScopeOf[c] \in Scopes /\ TypeOK
    BY TurnsAssumption DEF IInv, SavedAfterTurn
  <2>2. ToSet(Kept(ScopeOf[c])) = ToSet(lru[ScopeOf[c]]) \ Expired
    BY <2>1, KeptType
  <2> QED BY <2>2 DEF Hit, Cached
<1>3. ~Persisted(c) => stored[c] = <<>>
  BY DEF IInv, StoredIsSaved
<1> QED BY <1>1, <1>2, <1>3 DEF History, Log

(* The saves of others stay in time.                                       *)
LEMMA OpenKeepsTime ==
  ASSUME IInv, NEW u \in Turns, NEW o \in OpsOf(u), o.op # "save",
         AtHead(TurnScope(u), o), NEW h, SetCache(ConversationOf[u], Opened(ConversationOf[u]), h),
         NEW q, queue' = [queue EXCEPT ![TurnScope(u)] = q],
         q = Tail(queue[TurnScope(u)]) \/ \E p : q = Append(Tail(queue[TurnScope(u)]), p),
         NEW t \in Turns, t # u, phase[t] = "saving", Cached(ConversationOf[t])'
  PROVE  access'[ConversationOf[t]] = now /\ SaveInTime(t)'
<1> DEFINE c == ConversationOf[u]
           d == ConversationOf[t]
           s == TurnScope(u)
           r == Tail(queue[s])
<1>1. TypeOK /\ QueueFollowsPhase /\ SlotsRespected /\ c \in Conversations /\ d \in Conversations
  BY TurnsAssumption DEF IInv, SavedAfterTurn
<1>2. /\ s \in Scopes /\ queue[s] \in Seq(Ops) /\ queue[s] # <<>> /\ phase[u] \in Active
      /\ r \in Seq(Ops)
  BY <1>1, HeadOfTurn
<1>3. d # c
  BY <1>1, <1>2, OneAtATime DEF Active
<1>4. /\ lru'[s] = Opened(c) /\ \A z \in Scopes \ {s} : lru'[z] = lru[z]
      /\ Cached(d)' => Cached(d) /\ access'[d] = access[d]
  BY <1>1, <1>3, SetCacheSays DEF TurnScope
<1>5. access'[d] = now /\ SaveInTime(t)
  BY <1>4 DEF IInv, SavesInTime
<1>6. TurnScope(t) \in Scopes /\ queue \in [Scopes -> Seq(Ops)]
  BY <1>1, TurnsAssumption DEF TypeOK, TurnScope, Ops
<1>7. CASE TurnScope(t) # s
  <2>1. queue'[TurnScope(t)] = queue[TurnScope(t)] /\ lru'[TurnScope(t)] = lru[TurnScope(t)]
    BY <1>4, <1>6, <1>7
  <2>2. SaveInTime(t)'
    BY <1>5, <2>1 DEF SaveInTime, TurnScope
  <2> QED BY <1>5, <2>2
<1>8. CASE TurnScope(t) = s
  <2> DEFINE place == [i \in DOMAIN r |-> i + 1]
  <2>1. Places(r, queue[s], place)
    BY <1>2, PlacesOfTail
  <2>2. /\ DOMAIN r = 1..Len(r) /\ Len(r) = Len(queue[s]) - 1 /\ Len(queue[s]) \in Nat \ {0}
        /\ DOMAIN queue[s] = 1..Len(queue[s])
    BY <1>2, TailSet
  <2>3. \A j \in DOMAIN r : place[j] # 1
    BY <2>2
  <2>4. ASSUME NEW i \in DOMAIN queue[s], queue[s][i] = [op |-> "save", turn |-> t]
        PROVE  1 \in OpensBefore(queue[s], i) /\ \E k \in DOMAIN r : place[k] = i
    <3>1. 1 \in OpensBefore(queue[s], i)
      BY <1>1, <2>4, HeadIsAhead
    <3>2. 1 < i
      BY <3>1 DEF OpensBefore
    <3>3. i - 1 \in DOMAIN r /\ (i - 1) + 1 = i
      BY <2>2, <3>2
    <3> QED BY <3>1, <3>3
  <2>5. queue'[s] = r \/ \E p : queue'[s] = Append(r, p)
    BY <1>2, <1>6
  <2>6. After(lru'[s], d) \subseteq After(lru[s], d) \cup {c}
    BY <1>1, <1>4, OpenedCache DEF TurnScope
  <2>7. SaveInTime(t)'
    <3> HIDE DEF r, place
    <3> HIDE DEF c, d, s
    <3>1. SaveLeft(queue'[TurnScope(t)], r, queue[TurnScope(t)], place, t)
      BY <1>8, <2>1, <2>4, <2>5 DEF SaveLeft
    <3>2. HeadLeft(r, queue[TurnScope(t)], place, t)
      BY <1>8, <2>3, <2>4 DEF HeadLeft
    <3>3. After(lru'[TurnScope(t)], ConversationOf[t])
            \subseteq After(lru[TurnScope(t)], ConversationOf[t]) \cup {c}
      BY <1>8, <2>6 DEF d
    <3>4. r \in Seq(Ops) /\ SaveInTime(t)
      BY <1>2, <1>5
    <3> QED BY <1>1, <3>1, <3>2, <3>3, <3>4, StaysInTime
  <2> QED BY <1>5, <2>7
<1> QED BY <1>7, <1>8

(* Saves stay in time while operations come and go and the cache at most   *)
(* loses conversations.                                                    *)
LEMMA SavesStay ==
  ASSUME TypeOK, NEW s \in Scopes,
         NEW t \in Turns, SaveInTime(t),
         NEW r \in Seq(Ops), NEW place, SaveLeft(queue'[s], r, queue[s], place, t),
         \A z \in Scopes \ {s} : queue'[z] = queue[z],
         \A z \in Scopes : After(lru'[z], ConversationOf[t]) \subseteq After(lru[z], ConversationOf[t])
  PROVE  SaveInTime(t)'
<1>1. TurnScope(t) \in Scopes /\ queue \in [Scopes -> Seq(Ops)]
  BY TurnsAssumption DEF TypeOK, TurnScope, Ops
<1>2. CASE TurnScope(t) # s
  <2>1. queue[TurnScope(t)] \in Seq(Ops) /\ queue'[TurnScope(t)] = queue[TurnScope(t)]
    BY <1>1, <1>2
  <2>2. PICK p \in Seq(Ops) : p = queue[TurnScope(t)]
    BY <2>1
  <2> DEFINE all == [i \in DOMAIN p |-> i]
  <2>3. Places(p, queue[TurnScope(t)], all)
    BY <2>2, PlacesOfAll
  <2>4. SaveLeft(queue'[TurnScope(t)], p, queue[TurnScope(t)], all, t)
    BY <2>1, <2>2, <2>3 DEF SaveLeft
  <2>5. After(lru'[TurnScope(t)], ConversationOf[t]) \subseteq After(lru[TurnScope(t)], ConversationOf[t]) \cup {}
    BY <1>1
  <2> HIDE DEF all
  <2> QED BY <2>4, <2>5, StaysInTime
<1>3. CASE TurnScope(t) = s
  <2>1. SaveLeft(queue'[TurnScope(t)], r, queue[TurnScope(t)], place, t)
    BY <1>3
  <2>2. After(lru'[TurnScope(t)], ConversationOf[t]) \subseteq After(lru[TurnScope(t)], ConversationOf[t]) \cup {}
    BY <1>1
  <2> QED BY <2>1, <2>2, StaysInTime
<1> QED BY <1>2, <1>3

LEMMA TailLeaves ==
  ASSUME NEW q \in Seq(Ops), q # <<>>, NEW t, q[1] # [op |-> "save", turn |-> t]
  PROVE  SaveLeft(Tail(q), Tail(q), q, [j \in DOMAIN Tail(q) |-> j + 1], t)
<1>1. /\ Tail(q) \in Seq(Ops) /\ Len(Tail(q)) = Len(q) - 1 /\ Len(q) \in Nat \ {0}
      /\ DOMAIN q = 1..Len(q)
  BY TailSet
<1>2. ASSUME NEW i \in DOMAIN q, q[i] = [op |-> "save", turn |-> t] PROVE \E k \in DOMAIN Tail(q) : k + 1 = i
  <2>1. i # 1
    BY <1>2
  <2>2. i - 1 \in DOMAIN Tail(q) /\ (i - 1) + 1 = i
    BY <1>1, <2>1
  <2> QED BY <2>2
<1>3. Places(Tail(q), q, [j \in DOMAIN Tail(q) |-> j + 1])
  BY PlacesOfTail
<1> QED BY <1>2, <1>3 DEF SaveLeft

--------------------------------------------------------------------------------
(* Histories hold each turn once, so there are finitely many.              *)
LEMMA DistinctHistories ==
  /\ \A T : <<>> \in Distinct(T)
  /\ \A T, U : T \subseteq U => Distinct(T) \subseteq Distinct(U)
  /\ \A T \in SUBSET Turns : Distinct(T) \subseteq Histories
  /\ \A T, t : t \notin T => \A h \in Distinct(T) : Append(h, t) \in Distinct(T \cup {t})
<1>1. ASSUME NEW T PROVE <<>> \in Distinct(T)
  BY DEF Distinct
<1>2. ASSUME NEW T, NEW U, T \subseteq U PROVE Distinct(T) \subseteq Distinct(U)
  BY <1>2 DEF Distinct
<1>3. ASSUME NEW T \in SUBSET Turns, NEW h \in Distinct(T) PROVE h \in Histories
  <2>1. h \in Seq(Turns) /\ Len(h) \in Nat /\ h \in [1..Len(h) -> Turns]
    BY DEF Distinct
  <2>2. h \in Injection(1..Len(h), Turns)
    BY <2>1 DEF Distinct, Injection, IsInjective
  <2>3. Cardinality(1..Len(h)) <= Cardinality(Turns)
    BY <2>2, TurnsAssumption, FS_Injection
  <2>4. ASSUME NEW n \in Nat PROVE Cardinality(1..n) = n
    BY FiniteInterval
  <2>5. Len(h) \in 0..Cardinality(Turns)
    <3>1. Cardinality(Turns) \in Nat
      BY TurnsAssumption, FS_CardinalityType
    <3> QED BY <2>1, <2>3, <2>4, <3>1
  <2> QED BY <2>1, <2>5 DEF Histories
<1>4. ASSUME NEW T, NEW t, t \notin T, NEW h \in Distinct(T) PROVE Append(h, t) \in Distinct(T \cup {t})
  <2>1. h \in Seq(T) /\ h \in Seq(T \cup {t}) /\ Injective(h)
    BY DEF Distinct, Injective
  <2>2. t \notin ToSet(h)
    BY <1>4, <2>1 DEF ToSet
  <2>3. Injective(Append(h, t))
    <3>1. t \in T \cup {t}
      OBVIOUS
    <3> QED BY <2>1, <2>2, <3>1, AppendDistinct
  <2>4. Append(h, t) \in Seq(T \cup {t})
    BY <2>1
  <2> QED BY <2>3, <2>4 DEF Distinct, Injective
<1> QED BY <1>1, <1>2, <1>3, <1>4

--------------------------------------------------------------------------------
(* The steps.                                                              *)

(* The queue of t's agent loses operations of t alone, and gets at most    *)
(* that of its next phase.                                                 *)
TurnQueue(t, r, place, q) ==
  /\ Places(r, queue[TurnScope(t)], place)
  /\ \A k \in DOMAIN r : r[k] \notin OpsOf(t)
  /\ \A i \in DOMAIN queue[TurnScope(t)] :
       queue[TurnScope(t)][i] \notin OpsOf(t) => \E k \in DOMAIN r : place[k] = i
  /\ queue' = [queue EXCEPT ![TurnScope(t)] = q]
  /\ q = r \/ \E o \in OpsOf(t) : q = Append(r, o) /\ phase'[t] = PhaseIn[o.op]

(* A turn begins, finishes, is interrupted or resumed: the conversations   *)
(* do not notice.                                                          *)
LEMMA QuietTurn ==
  ASSUME IInv, SessionsFit, NEW t \in Turns,
         NEW p \in {"reading", "running", "writing", "refused", "left"},
         phase' = [phase EXCEPT ![t] = p], phase[t] \notin {"saving", "ended"},
         phase[t] \in Active \/ p \notin Active \/ Admissible(t),
         p \in {"running", "writing"} => phase[t] = "running" \/ t \in overtaken',
         overtaken' \in {overtaken, overtaken \cup {t}}, events' \in 0..MaxEvents,
         UNCHANGED <<seen, cache, store, now>>,
         NEW r \in Seq(Ops), NEW q \in Seq(Ops), NEW place, TurnQueue(t, r, place, q)
  PROVE  IInv'
<1>0. /\ Places(r, queue[TurnScope(t)], place)
      /\ \A k \in DOMAIN r : r[k] \notin OpsOf(t)
      /\ \A i \in DOMAIN queue[TurnScope(t)] :
           queue[TurnScope(t)][i] \notin OpsOf(t) => \E k \in DOMAIN r : place[k] = i
      /\ queue' = [queue EXCEPT ![TurnScope(t)] = q]
      /\ q = r \/ \E o \in OpsOf(t) : q = Append(r, o) /\ phase'[t] = PhaseIn[o.op]
  BY DEF TurnQueue
<1>1. TypeOK /\ QueueFollowsPhase /\ SlotsRespected
  BY DEF IInv, SavedAfterTurn
<1>2. /\ phase'[t] = p /\ \A u \in Turns : u # t => phase'[u] = phase[u]
      /\ phase' \in [Turns -> Active \cup {"new", "refused", "left", "ended"}]
      /\ TurnScope(t) \in Scopes
  BY <1>1, TurnsAssumption DEF TypeOK, Active, TurnScope
<1>3. lru' = lru /\ messages' = messages /\ access' = access /\ saves' = saves /\ stored' = stored
      /\ seen' = seen /\ now' = now
  BY DEF cache, store
<1>4. \A c : (Cached(c)' <=> Cached(c)) /\ (Log(c)' = Log(c)) /\ (Persisted(c)' <=> Persisted(c))
  BY <1>3 DEF Cached, Log, Persisted
<1>5. TypeOK'
  <2>1. queue' \in [Scopes -> Seq(TurnOps \cup HostOps)] /\ overtaken' \subseteq Turns
    BY <1>0, <1>1, <1>2 DEF TypeOK, Ops
  <2> QED BY <1>1, <1>2, <1>3, <2>1 DEF TypeOK
<1>6. \A u \in Turns : phase'[u] = "saving" <=> phase[u] = "saving"
  BY <1>2
<1>7. SavedAfterTurn'
  BY <1>4, <1>3, <1>5, <1>6 DEF IInv, SavedAfterTurn
<1>8. QueueFollowsPhase'
  BY <1>0, <1>1, <1>2, TurnKeepsQueue
<1>9. SlotsRespected'
  BY <1>1, SlotsKept DEF SessionsFit
<1>10. SavesInTime'
  <2> SUFFICES ASSUME NEW u \in Turns, phase[u] = "saving", Cached(ConversationOf[u])
               PROVE  access'[ConversationOf[u]] = now' /\ SaveInTime(u)'
    BY <1>4, <1>6 DEF SavesInTime
  <2>1. access[ConversationOf[u]] = now /\ SaveInTime(u)
    BY DEF IInv, SavesInTime
  <2>2. u # t
    OBVIOUS
  <2>3. queue'[TurnScope(t)] = q
    BY <1>0, <1>1, <1>2 DEF TypeOK
  <2>4. /\ SaveLeft(queue'[TurnScope(t)], r, queue[TurnScope(t)], place, u)
        /\ \A z \in Scopes \ {TurnScope(t)} : queue'[z] = queue[z]
    <3>1. \A i \in DOMAIN queue[TurnScope(t)] :
            queue[TurnScope(t)][i] = [op |-> "save", turn |-> u] => \E k \in DOMAIN r : place[k] = i
      BY <1>0, <2>2 DEF OpsOf
    <3>2. q = r \/ \E o : q = Append(r, o)
      BY <1>0
    <3>3. \A z \in Scopes \ {TurnScope(t)} : queue'[z] = queue[z]
      BY <1>0, <1>1, <1>2 DEF TypeOK
    <3> QED BY <1>0, <2>3, <3>1, <3>2, <3>3 DEF SaveLeft
  <2>5. \A z \in Scopes : After(lru'[z], ConversationOf[u]) \subseteq After(lru[z], ConversationOf[u])
    BY <1>3
  <2>6. SaveInTime(u)'
    BY <1>1, <1>2, <2>1, <2>4, <2>5, SavesStay
  <2> QED BY <1>3, <2>1, <2>6
<1>11. StoredIsSaved'
  BY <1>3, <1>4 DEF IInv, StoredIsSaved
<1>12. SeenIsLog'
  <2> SUFFICES ASSUME NEW u \in Turns, u \notin overtaken', phase'[u] \in {"running", "writing"}
               PROVE  seen[u] = Log(ConversationOf[u])
    BY <1>3, <1>4 DEF SeenIsLog
  <2>1. phase[u] \in {"running", "writing"} /\ u \notin overtaken
    BY <1>2
  <2> QED BY <2>1 DEF IInv, SeenIsLog
<1>13. HistoriesOfEnded'
  <2>1. Ended' = Ended
    BY <1>2 DEF Ended
  <2> QED BY <1>3, <2>1 DEF IInv, HistoriesOfEnded
<1> QED BY <1>7, <1>8, <1>9, <1>10, <1>11, <1>12, <1>13 DEF IInv

LEMMA BeginKeeps ==
  ASSUME IInv, SessionsFit, NEW t \in Turns, Begin(t) \/ Finish(t) \/ Resume(t)
  PROVE  IInv'
<1> DEFINE r == queue[TurnScope(t)]
           p == IF Begin(t) THEN "reading" ELSE IF Finish(t) THEN "writing" ELSE "running"
           q == queue'[TurnScope(t)]
           place == [i \in DOMAIN r |-> i]
<1>1. TypeOK /\ QueueFollowsPhase /\ TurnScope(t) \in Scopes /\ queue \in [Scopes -> Seq(Ops)]
      /\ events \in 0..MaxEvents /\ MaxEvents \in Nat
  BY TurnsAssumption, LimitsAssumption DEF IInv, SavedAfterTurn, TypeOK, TurnScope, Ops
<1>2. r \in Seq(Ops) /\ Places(r, queue[TurnScope(t)], place)
  BY <1>1, PlacesOfAll
<1>3. \A k \in DOMAIN r : r[k] \notin OpsOf(t)
  <2>1. phase[t] \in {"new", "running", "left"}
    BY DEF Begin, Finish, Resume
  <2>2. \A o \in OpsOf(t) : PhaseIn[o.op] \in {"reading", "writing", "saving"}
    BY DEF OpsOf, PhaseIn
  <2> QED BY <1>1, <2>1, <2>2 DEF QueueFollowsPhase
<1>4. /\ phase' = [phase EXCEPT ![t] = p] /\ phase[t] \notin {"saving", "ended"}
      /\ phase[t] \in Active \/ p \notin Active \/ Admissible(t)
      /\ p \in {"running", "writing"} => phase[t] = "running" \/ t \in overtaken'
      /\ p \in {"reading", "running", "writing", "refused", "left"}
      /\ overtaken' \in {overtaken, overtaken \cup {t}}
  BY DEF Begin, Finish, Resume, Active
<1>5. events' \in 0..MaxEvents
  <2>1. events' = events \/ (events < MaxEvents /\ events' = events + 1)
    BY DEF Begin, Finish, Resume, counters, Event
  <2> QED BY <1>1, <2>1
<1>6. UNCHANGED <<seen, cache, store, now>>
  BY DEF Begin, Finish, Resume, counters
<1>7. /\ q \in Seq(Ops) /\ queue' = [queue EXCEPT ![TurnScope(t)] = q]
      /\ q = r \/ \E o \in OpsOf(t) : q = Append(r, o) /\ phase'[t] = PhaseIn[o.op]
  <2>1. CASE Begin(t)
    <3>1. queue' = [queue EXCEPT ![TurnScope(t)] = Append(@, [op |-> "read", turn |-> t])] /\ phase'[t] = "reading"
      BY <1>1, <2>1 DEF Begin, Enqueue, TypeOK
    <3>2. [op |-> "read", turn |-> t] \in OpsOf(t) /\ [op |-> "read", turn |-> t] \in Ops
          /\ PhaseIn["read"] = "reading"
      BY OpsApart DEF OpsOf, PhaseIn, Ops
    <3> QED BY <1>1, <3>1, <3>2
  <2>2. CASE Finish(t)
    <3>1. queue' = [queue EXCEPT ![TurnScope(t)] = Append(@, [op |-> "write", turn |-> t])] /\ phase'[t] = "writing"
      BY <1>1, <2>2 DEF Finish, Enqueue, TypeOK
    <3>2. [op |-> "write", turn |-> t] \in OpsOf(t) /\ [op |-> "write", turn |-> t] \in Ops
          /\ PhaseIn["write"] = "writing"
      BY OpsApart DEF OpsOf, PhaseIn, Ops
    <3> QED BY <1>1, <3>1, <3>2
  <2>3. CASE Resume(t)
    BY <1>1, <2>3 DEF Resume
  <2> QED BY <2>1, <2>2, <2>3
<1>8. \A i \in DOMAIN queue[TurnScope(t)] :
        queue[TurnScope(t)][i] \notin OpsOf(t) => \E k \in DOMAIN r : place[k] = i
  OBVIOUS
<1> HIDE DEF r, p, q, place
<1>9. TurnQueue(t, r, place, q)
  BY <1>2, <1>3, <1>7, <1>8 DEF TurnQueue
<1> QED BY <1>2, <1>4, <1>5, <1>6, <1>7, <1>9, QuietTurn

LEMMA InterruptKeeps ==
  ASSUME IInv, SessionsFit, NEW t \in Turns, Interrupt(t)
  PROVE  IInv'
<1> DEFINE s == TurnScope(t)
           p == AfterInterrupt(phase[t])
           r == Without(queue[s], OpsOf(t))
<1>1. TypeOK /\ s \in Scopes /\ queue \in [Scopes -> Seq(Ops)] /\ events \in 0..MaxEvents
  BY TurnsAssumption DEF IInv, SavedAfterTurn, TypeOK, TurnScope, Ops
<1>2. r \in Seq(Ops)
  BY <1>1, WithoutKeeps
<1>3. PICK place : Keeps(r, queue[s], OpsOf(t), place)
  BY <1>1, WithoutKeeps
<1>4. /\ Places(r, queue[s], place) /\ \A k \in DOMAIN r : r[k] \notin OpsOf(t)
      /\ \A i \in DOMAIN queue[s] : queue[s][i] \notin OpsOf(t) => \E k \in DOMAIN r : place[k] = i
  <2>1. Places(r, queue[s], place)
    BY <1>3, PlacesKept
  <2> HIDE DEF r
  <2> QED BY <1>3, <2>1 DEF Keeps
<1>5. /\ phase[t] \in {"reading", "running", "writing"} /\ p \in {"refused", "left"}
      /\ phase' = [phase EXCEPT ![t] = p]
  BY LimitsAssumption DEF Interrupt, SessionsFit, AfterInterrupt, Active
<1>6. queue' = [queue EXCEPT ![s] = r] /\ overtaken' = overtaken /\ events' = events
      /\ UNCHANGED <<seen, cache, store, now>>
  BY DEF Interrupt, counters
<1> HIDE DEF r, p
<1>7. /\ phase[t] \in Active /\ p \in {"reading", "running", "writing", "refused", "left"}
      /\ phase[t] \notin {"saving", "ended"} /\ p \notin {"running", "writing"}
  BY <1>5 DEF Active
<1>8. TurnQueue(t, r, place, r)
  BY <1>4, <1>6 DEF TurnQueue
<1> QED BY <1>1, <1>2, <1>5, <1>6, <1>7, <1>8, QuietTurn

(* The host's operations on the queue, and get, which renews an entry.     *)
LEMMA QuietHost ==
  ASSUME IInv, NEW s \in Scopes, NEW r \in Seq(Ops), NEW place, Places(r, queue[s], place),
         NEW q \in Seq(Ops), queue' = [queue EXCEPT ![s] = q], q = r \/ \E o \in HostOps : q = Append(r, o),
         \A t \in Turns : SaveLeft(q, r, queue[s], place, t),
         UNCHANGED <<phase, seen, lru, messages, store, overtaken, now>>, events' \in 0..MaxEvents,
         access' \in [Conversations -> 0..now],
         \A c \in Conversations : access'[c] \in {access[c], now}
  PROVE  IInv'
<1>1. TypeOK /\ QueueFollowsPhase
  BY DEF IInv, SavedAfterTurn
<1>2. lru' = lru /\ messages' = messages /\ saves' = saves /\ stored' = stored
      /\ seen' = seen /\ now' = now /\ phase' = phase /\ overtaken' = overtaken
  BY DEF store
<1>3. \A c : (Cached(c)' <=> Cached(c)) /\ (Log(c)' = Log(c)) /\ (Persisted(c)' <=> Persisted(c))
  BY <1>2 DEF Cached, Log, Persisted
<1>4. queue'[s] = q /\ \A z \in Scopes \ {s} : queue'[z] = queue[z]
  BY <1>1 DEF TypeOK
<1>5. TypeOK'
  <2>1. queue' \in [Scopes -> Seq(TurnOps \cup HostOps)]
    BY <1>1 DEF TypeOK, Ops
  <2> QED BY <1>1, <1>2, <2>1 DEF TypeOK
<1>6. SavedAfterTurn'
  BY <1>2, <1>3, <1>5 DEF IInv, SavedAfterTurn
<1>7. QueueFollowsPhase'
  BY <1>1, <1>2, HostKeepsQueue
<1>8. SlotsRespected'
  BY <1>2 DEF IInv, SlotsRespected, ActiveTurns
<1>9. SavesInTime'
  <2> SUFFICES ASSUME NEW u \in Turns, phase[u] = "saving", Cached(ConversationOf[u])
               PROVE  access'[ConversationOf[u]] = now' /\ SaveInTime(u)'
    BY <1>2, <1>3 DEF SavesInTime
  <2>1. access[ConversationOf[u]] = now /\ SaveInTime(u) /\ ConversationOf[u] \in Conversations
    BY TurnsAssumption DEF IInv, SavesInTime
  <2>2. SaveLeft(queue'[s], r, queue[s], place, u)
    BY <1>4
  <2>3. \A z \in Scopes : After(lru'[z], ConversationOf[u]) \subseteq After(lru[z], ConversationOf[u])
    BY <1>2
  <2>4. SaveInTime(u)'
    BY <1>1, <1>4, <2>1, <2>2, <2>3, SavesStay
  <2>5. access'[ConversationOf[u]] \in {access[ConversationOf[u]], now}
    BY <2>1
  <2> QED BY <1>2, <2>1, <2>4, <2>5
<1>10. StoredIsSaved' /\ SeenIsLog'
  BY <1>2, <1>3 DEF IInv, StoredIsSaved, SeenIsLog
<1>11. HistoriesOfEnded'
  BY <1>2 DEF IInv, HistoriesOfEnded, Ended
<1> QED BY <1>6, <1>7, <1>8, <1>9, <1>10, <1>11 DEF IInv

LEMMA HostCallKeeps ==
  ASSUME IInv, NEW s \in Scopes, NEW o \in HostOps, HostCall(s, o)
  PROVE  IInv'
<1> DEFINE r == queue[s]
           q == Append(r, o)
           place == [i \in DOMAIN r |-> i]
<1>1. /\ r \in Seq(Ops) /\ q \in Seq(Ops) /\ access \in [Conversations -> 0..now]
      /\ events \in 0..MaxEvents /\ MaxEvents \in Nat
  <2>1. r \in Seq(Ops) /\ o \in Ops
    BY DEF IInv, SavedAfterTurn, TypeOK, Ops
  <2> QED BY <2>1, LimitsAssumption DEF IInv, SavedAfterTurn, TypeOK
<1>2. Places(r, queue[s], place)
  BY <1>1, PlacesOfAll
<1>3. \A t \in Turns : SaveLeft(q, r, queue[s], place, t)
  BY <1>2 DEF SaveLeft
<1>4. /\ queue' = [queue EXCEPT ![s] = q] /\ access' = access
      /\ UNCHANGED <<phase, seen, lru, messages, store, overtaken, now>>
  BY DEF HostCall, Enqueue, cache
<1>5. events' \in 0..MaxEvents
  BY <1>1 DEF HostCall, Event
<1>6. q = r \/ \E p \in HostOps : q = Append(r, p)
  OBVIOUS
<1>7. access' \in [Conversations -> 0..now] /\ \A c \in Conversations : access'[c] \in {access[c], now}
  BY <1>1, <1>4
<1> HIDE DEF r, q, place
<1> QED BY <1>1, <1>2, <1>3, <1>4, <1>5, <1>6, <1>7, QuietHost

(* What an operation of the host leaves behind in the queue.               *)
LEMMA HeadOfHost ==
  ASSUME TypeOK, NEW s \in Scopes, NEW o \in HostOps, AtHead(s, o)
  PROVE  LET q == queue[s]
             r == Tail(queue[s])
             place == [i \in DOMAIN r |-> i + 1]
         IN  /\ q \in Seq(Ops) /\ q # <<>> /\ r \in Seq(Ops) /\ Places(r, q, place)
             /\ \A t \in Turns : SaveLeft(r, r, q, place, t)
<1>1. queue[s] \in Seq(Ops) /\ queue[s] # <<>> /\ Head(queue[s]) = o
  BY DEF TypeOK, Ops, AtHead
<1>2. queue[s][1] = o /\ Tail(queue[s]) \in Seq(Ops)
  BY <1>1, TailSet
<1>3. \A t \in Turns : queue[s][1] # [op |-> "save", turn |-> t]
  BY <1>2, OpsApart DEF OpsOf
<1>4. Places(Tail(queue[s]), queue[s], [i \in DOMAIN Tail(queue[s]) |-> i + 1])
  BY <1>1, PlacesOfTail
<1> QED BY <1>1, <1>2, <1>3, <1>4, TailLeaves

LEMMA GetKeeps ==
  ASSUME IInv, NEW c \in Conversations, GetSession(c)
  PROVE  IInv'
<1> DEFINE s == ScopeOf[c]
           r == Tail(queue[s])
           place == [i \in DOMAIN r |-> i + 1]
<1>1. TypeOK /\ s \in Scopes /\ [op |-> "get", of |-> c] \in HostOps /\ now \in Nat
      /\ access \in [Conversations -> 0..now] /\ events \in 0..MaxEvents
  <2>1. now \in Nat
    BY LimitsAssumption DEF IInv, SavedAfterTurn, TypeOK
  <2> QED BY <2>1, TurnsAssumption DEF IInv, SavedAfterTurn, TypeOK, HostOps
<1>2. r \in Seq(Ops) /\ Places(r, queue[s], place) /\ \A t \in Turns : SaveLeft(r, r, queue[s], place, t)
  <2>1. AtHead(s, [op |-> "get", of |-> c])
    BY DEF GetSession
  <2> QED BY <1>1, <2>1, HeadOfHost
<1>3. /\ queue' = [queue EXCEPT ![s] = r] /\ events' = events
      /\ UNCHANGED <<phase, seen, lru, messages, store, overtaken, now>>
  BY DEF GetSession, Dequeue, counters
<1>4. access' = IF Cached(c) THEN [access EXCEPT ![c] = now] ELSE access
  BY DEF GetSession
<1>5. access' \in [Conversations -> 0..now] /\ \A d \in Conversations : access'[d] \in {access[d], now}
  <2>1. now \in 0..now
    BY <1>1
  <2> QED BY <1>1, <1>4, <2>1
<1> HIDE DEF r, place
<1> QED BY <1>1, <1>2, <1>3, <1>5, QuietHost

(* The clock stands still while a save waits.                              *)
LEMMA TickKeeps ==
  ASSUME IInv, Tick
  PROVE  IInv'
<1>1. TypeOK /\ now \in Nat /\ MaxTime \in Nat /\ MaxEvents \in Nat
  BY SMTT(40), LimitsAssumption DEF IInv, SavedAfterTurn, TypeOK
<1>2. /\ lru' = lru /\ messages' = messages /\ access' = access /\ saves' = saves /\ stored' = stored
      /\ seen' = seen /\ phase' = phase /\ overtaken' = overtaken /\ queue' = queue
      /\ now' \in (now + 1)..MaxTime /\ events < MaxEvents /\ events' = events + 1
  BY DEF Tick, cache, store, Event
<1>3. \A c : (Cached(c)' <=> Cached(c)) /\ (Log(c)' = Log(c)) /\ (Persisted(c)' <=> Persisted(c))
  BY <1>2 DEF Cached, Log, Persisted
<1>4. TypeOK'
  <2>1. now' \in 0..MaxTime /\ events' \in 0..MaxEvents /\ access' \in [Conversations -> 0..now']
    <3>1. access \in [Conversations -> 0..now] /\ events \in 0..MaxEvents
      BY <1>1 DEF TypeOK
    <3>2. now' \in 0..MaxTime /\ events' \in 0..MaxEvents /\ 0..now \subseteq 0..now'
      BY <1>1, <1>2, <3>1
    <3> QED BY <1>2, <3>1, <3>2
  <2> QED BY <1>1, <1>2, <2>1 DEF TypeOK
<1>5. SavedAfterTurn'
  BY <1>2, <1>3, <1>4 DEF IInv, SavedAfterTurn
<1>6. QueueFollowsPhase' /\ SlotsRespected'
  BY <1>2 DEF IInv, QueueFollowsPhase, SlotsRespected, ActiveTurns
<1>7. SavesInTime'
  <2> SUFFICES ASSUME NEW u \in Turns, phase[u] = "saving", Cached(ConversationOf[u]) PROVE FALSE
    BY <1>2, <1>3 DEF SavesInTime
  <2>1. PICK i \in DOMAIN queue[TurnScope(u)] : TRUE
    BY DEF IInv, SavesInTime, SaveInTime
  <2>2. queue[TurnScope(u)] = <<>>
    BY TurnsAssumption DEF Tick, TurnScope
  <2> QED BY <2>1, <2>2
<1>8. StoredIsSaved' /\ SeenIsLog'
  BY <1>2, <1>3 DEF IInv, StoredIsSaved, SeenIsLog
<1>9. HistoriesOfEnded'
  BY <1>2 DEF IInv, HistoriesOfEnded, Ended
<1> QED BY <1>5, <1>6, <1>7, <1>8, <1>9 DEF IInv

(* The persistence has room for every conversation: a save adds its own    *)
(* and drops none.                                                         *)
LEMMA PersistSays ==
  ASSUME TypeOK, StoredIsSaved, SessionsFit, NEW c \in Conversations, Persist(c)
  PROVE  /\ saves' \in Seq(Conversations) /\ IsInjective(saves') /\ Len(saves') <= StoreSessions
         /\ ToSet(saves') = ToSet(saves) \cup {c}
         /\ stored' \in [Conversations -> Histories]
         /\ stored'[c] = messages[c] /\ \A d \in Conversations \ {c} : stored'[d] = stored[d]
<1> DEFINE base == Without(saves, {c})
           grown == Append(base, c)
           trimmed == IF Len(grown) > StoreSessions THEN Tail(grown) ELSE grown
<1>1. saves \in Seq(Conversations) /\ Injective(saves)
  BY DEF TypeOK, IsInjective, Injective
<1>2. base \in Seq(Conversations) /\ Injective(base) /\ ToSet(base) = ToSet(saves) \ {c}
  BY <1>1, WithoutKeeps, WithoutSet DEF Injective
<1> HIDE DEF base
<1>3. /\ grown \in Seq(Conversations) /\ ToSet(grown) = ToSet(saves) \cup {c} /\ Injective(grown)
  <2>1. c \notin ToSet(base)
    BY <1>2
  <2>2. grown \in Seq(Conversations) /\ ToSet(grown) = ToSet(base) \cup {c}
    BY <1>2, AppendSet
  <2>3. Injective(grown)
    BY <1>2, <2>1, AppendDistinct
  <2> QED BY <1>2, <2>2, <2>3
<1>4. saves' = trimmed
      /\ stored' = [d \in Conversations |->
                      IF d \notin ToSet(trimmed) THEN <<>> ELSE IF d = c THEN messages[c] ELSE stored[d]]
  BY DEF Persist, base
<1> HIDE DEF grown
<1>5. Len(grown) <= StoreSessions
  <2>1. Cardinality(ToSet(grown)) = Len(grown) /\ ToSet(grown) \in SUBSET Conversations
    <3>1. Cardinality(ToSet(grown)) = Len(grown)
      BY <1>3, InjectiveLength DEF Injective
    <3>2. ToSet(grown) \in SUBSET Conversations
      BY <1>3 DEF ToSet
    <3> QED BY <3>1, <3>2
  <2>2. Cardinality(ToSet(grown)) <= Cardinality(Conversations)
    BY <2>1, TurnsAssumption, FS_Subset
  <2>3. Len(grown) \in Nat /\ StoreSessions \in Nat /\ Cardinality(Conversations) \in Nat
    BY <1>3, LimitsAssumption, TurnsAssumption, FS_CardinalityType
  <2> QED BY <2>1, <2>2, <2>3 DEF SessionsFit
<1>6. trimmed = grown
  <2>1. Len(grown) \in Nat /\ StoreSessions \in Nat
    BY <1>3, LimitsAssumption
  <2> QED BY <1>5, <2>1
<1> HIDE DEF trimmed
<1>7. messages \in [Conversations -> Histories] /\ stored \in [Conversations -> Histories]
  BY DEF TypeOK
<1>8. c \in ToSet(grown) /\ \A d \in Conversations \ {c} : d \in ToSet(grown) <=> Persisted(d)
  BY <1>3 DEF Persisted
<1>9. stored'[c] = messages[c]
  BY <1>4, <1>6, <1>8
<1>10. ASSUME NEW d \in Conversations \ {c} PROVE stored'[d] = stored[d]
  <2>1. ~Persisted(d) => stored[d] = <<>>
    BY DEF StoredIsSaved
  <2> QED BY <1>4, <1>6, <1>8, <2>1
<1>11. stored' \in [Conversations -> Histories]
  <2>1. stored' = [d \in Conversations |-> stored'[d]]
    BY <1>4
  <2>2. \A d \in Conversations : stored'[d] \in Histories
    BY <1>7, <1>9, <1>10
  <2> QED BY <2>1, <2>2
<1> QED BY <1>3, <1>4, <1>5, <1>6, <1>9, <1>10, <1>11 DEF Injective, IsInjective

LEMMA SaveKeepsLogs ==
  ASSUME IInv, SessionsFit, NEW t \in Turns, Save(t)
  PROVE  \A c \in Conversations : Log(c)' = Log(c)
<1> DEFINE c == ConversationOf[t]
<1>1. c \in Conversations /\ TypeOK /\ StoredIsSaved /\ lru' = lru /\ messages' = messages
  BY TurnsAssumption DEF IInv, SavedAfterTurn, Save, cache
<1>2. CASE Cached(c)
  <2>1. Persist(c)
    BY <1>2 DEF Save, SessionsFit
  <2>2. \A d \in Conversations \ {c} : stored'[d] = stored[d]
    BY <1>1, <2>1, PersistSays
  <2> QED BY <1>1, <1>2, <2>2 DEF Log, Cached
<1>3. CASE ~Cached(c)
  <2>1. stored' = stored
    BY <1>3 DEF Save, store
  <2> QED BY <1>1, <2>1 DEF Log, Cached
<1> QED BY <1>2, <1>3

LEMMA SaveKeeps ==
  ASSUME IInv, SessionsFit, NEW t \in Turns, Save(t)
  PROVE  IInv'
<1> DEFINE c == ConversationOf[t]
           s == TurnScope(t)
           q == queue[s]
           r == Tail(q)
           place == [i \in DOMAIN r |-> i + 1]
           save == [op |-> "save", turn |-> t]
<1>1. /\ TypeOK /\ QueueFollowsPhase /\ SlotsRespected /\ StoredIsSaved /\ c \in Conversations
      /\ save \in OpsOf(t)
  BY TurnsAssumption DEF IInv, SavedAfterTurn, OpsOf
<1>2. /\ s \in Scopes /\ q \in Seq(Ops) /\ q # <<>> /\ q[1] = save
      /\ phase[t] = "saving" /\ phase[t] \in Active
      /\ r \in Seq(Ops) /\ \A k \in DOMAIN r : r[k] \notin OpsOf(t)
  <2>1. AtHead(s, save) /\ PhaseIn[save.op] = "saving"
    BY DEF Save, PhaseIn
  <2> QED BY <1>1, <2>1, HeadOfTurn
<1>3. /\ queue' = [queue EXCEPT ![s] = r] /\ phase' = [phase EXCEPT ![t] = "ended"]
      /\ lru' = lru /\ messages' = messages /\ access' = access
      /\ seen' = seen /\ overtaken' = overtaken /\ now' = now /\ events' = events
  BY DEF Save, Dequeue, cache, counters
<1>4. /\ \A u \in Turns : phase'[u] = IF u = t THEN "ended" ELSE phase[u]
      /\ phase' \in [Turns -> Active \cup {"new", "refused", "left", "ended"}]
      /\ queue'[s] = r /\ \A z \in Scopes \ {s} : queue'[z] = queue[z]
      /\ queue' \in [Scopes -> Seq(TurnOps \cup HostOps)]
  BY <1>1, <1>2, <1>3 DEF TypeOK, Ops
<1>5. \A d \in Conversations : (Cached(d)' <=> Cached(d)) /\ (Log(d)' = Log(d))
  BY <1>3, SaveKeepsLogs DEF Cached
<1>6. /\ saves' \in Seq(Conversations) /\ IsInjective(saves') /\ Len(saves') <= StoreSessions
      /\ stored' \in [Conversations -> Histories]
      /\ \A d \in Conversations : Persisted(d) => Persisted(d)'
      /\ \A d \in Conversations : stored'[d] = stored[d] \/ (stored'[d] = messages[d] /\ Persisted(d)')
      /\ stored'[c] = Log(c)
  <2>1. CASE Cached(c)
    <3>1. Persist(c)
      BY <2>1 DEF Save, SessionsFit
    <3>2. /\ saves' \in Seq(Conversations) /\ IsInjective(saves') /\ Len(saves') <= StoreSessions
          /\ ToSet(saves') = ToSet(saves) \cup {c}
          /\ stored' \in [Conversations -> Histories]
          /\ stored'[c] = messages[c] /\ \A d \in Conversations \ {c} : stored'[d] = stored[d]
      BY <1>1, <3>1, PersistSays
    <3> QED BY <2>1, <3>2 DEF Persisted, Log
  <2>2. CASE ~Cached(c)
    <3>1. stored' = stored /\ saves' = saves
      BY <2>2 DEF Save, store
    <3> QED BY <1>1, <2>2, <3>1 DEF Persisted, Log, TypeOK
  <2> QED BY <2>1, <2>2
<1>7. TypeOK'
  BY <1>1, <1>3, <1>4, <1>6 DEF TypeOK
<1>8. SavedAfterTurn'
  <2> SUFFICES ASSUME NEW d \in Conversations, \A u \in Turns : ConversationOf[u] = d => phase'[u] # "saving"
               PROVE  stored'[d] = Log(d)
    BY <1>5, <1>7 DEF SavedAfterTurn
  <2>1. CASE d = c
    BY <1>6, <2>1
  <2>2. CASE d # c
    <3>1. \A u \in Turns : ConversationOf[u] = d => phase[u] # "saving"
      BY <1>4, <2>2
    <3>2. stored[d] = Log(d)
      BY <3>1 DEF IInv, SavedAfterTurn, SessionsFit
    <3>3. stored'[d] = stored[d]
      <4>1. CASE Cached(c)
        <5>1. Persist(c)
          BY <4>1 DEF Save, SessionsFit
        <5> QED BY <1>1, <2>2, <5>1, PersistSays
      <4>2. CASE ~Cached(c)
        BY <4>2 DEF Save, store
      <4> QED BY <4>1, <4>2
    <3> QED BY <3>2, <3>3
  <2> QED BY <2>1, <2>2
<1>9. Places(r, q, place)
  BY <1>2, PlacesOfTail
<1> HIDE DEF r, place
<1>10. QueueFollowsPhase'
  <2>1. \A u \in Turns : u # t => phase'[u] = phase[u]
    BY <1>4
  <2> QED BY <1>1, <1>2, <1>3, <1>9, <2>1, TurnKeepsQueue
<1>11. SlotsRespected'
  BY <1>1, <1>2, <1>3, SlotsKept DEF SessionsFit
<1>12. SavesInTime'
  <2> SUFFICES ASSUME NEW u \in Turns, u # t, phase[u] = "saving", Cached(ConversationOf[u])
               PROVE  access[ConversationOf[u]] = now /\ SaveInTime(u)'
    <3>1. \A u \in Turns : phase'[u] = "saving" => u # t /\ phase[u] = "saving"
      BY <1>4
    <3>2. \A u \in Turns : Cached(ConversationOf[u])' => Cached(ConversationOf[u])
      BY <1>5, TurnsAssumption
    <3> QED BY <1>3, <3>1, <3>2 DEF SavesInTime
  <2>1. access[ConversationOf[u]] = now /\ SaveInTime(u)
    BY DEF IInv, SavesInTime
  <2>2. q[1] # [op |-> "save", turn |-> u]
    BY <1>2
  <2>3. SaveLeft(queue'[s], r, q, place, u)
    BY <1>2, <1>4, <2>2, TailLeaves DEF r, place
  <2>4. \A z \in Scopes : After(lru'[z], ConversationOf[u]) \subseteq After(lru[z], ConversationOf[u])
    BY <1>3
  <2>5. SaveInTime(u)'
    BY <1>1, <1>2, <1>4, <2>1, <2>3, <2>4, SavesStay
  <2> QED BY <2>1, <2>5
<1>13. StoredIsSaved'
  BY <1>1, <1>6 DEF StoredIsSaved
<1>14. SeenIsLog'
  <2> SUFFICES ASSUME NEW u \in Turns \ overtaken, phase'[u] \in {"running", "writing"}
               PROVE  seen[u] = Log(ConversationOf[u])
    <3>1. \A u \in Turns : Log(ConversationOf[u])' = Log(ConversationOf[u])
      BY <1>5, TurnsAssumption
    <3> QED BY <1>3, <3>1 DEF SeenIsLog
  <2>1. phase[u] \in {"running", "writing"}
    BY <1>4
  <2> QED BY <2>1 DEF IInv, SeenIsLog
<1>15. HistoriesOfEnded'
  <2>1. Ended' = Ended
    BY <1>2, <1>4 DEF Ended
  <2> QED BY <1>3, <1>6, <2>1 DEF IInv, HistoriesOfEnded
<1> QED BY <1>8, <1>10, <1>11, <1>12, <1>13, <1>14, <1>15 DEF IInv

(* A reset empties the conversations it names, and no others.              *)
LEMMA ForgetSays ==
  ASSUME TypeOK, SessionsFit, NEW s \in Scopes, NEW C \in SUBSET ScopeSessions(s), Forget(s, C)
  PROVE  /\ lru' \in [Scopes -> Seq(Conversations)]
         /\ \A z \in Scopes :
              /\ IsInjective(lru'[z]) /\ Len(lru'[z]) <= MaxSessions
              /\ \A i \in DOMAIN lru'[z] : ScopeOf[lru'[z][i]] = z
              /\ \A d : After(lru'[z], d) \subseteq After(lru[z], d)
         /\ saves' \in Seq(Conversations) /\ IsInjective(saves') /\ Len(saves') <= StoreSessions
         /\ {messages', stored'} \subseteq [Conversations -> Histories]
         /\ access' \in [Conversations -> 0..now] /\ overtaken' \in SUBSET Turns
         /\ \A d \in Conversations :
              /\ Cached(d)' <=> Cached(d) /\ d \notin C
              /\ Persisted(d)' <=> Persisted(d) /\ d \notin C
              /\ d \in C => messages'[d] = <<>> /\ stored'[d] = <<>>
              /\ d \notin C => messages'[d] = messages[d] /\ stored'[d] = stored[d] /\ access'[d] = access[d]
              /\ Log(d)' = IF d \in C THEN <<>> ELSE Log(d)
<1>1. /\ lru \in [Scopes -> Seq(Conversations)] /\ saves \in Seq(Conversations) /\ Injective(saves)
      /\ Len(saves) <= StoreSessions
      /\ messages \in [Conversations -> Histories] /\ stored \in [Conversations -> Histories]
      /\ access \in [Conversations -> 0..now] /\ now \in Nat /\ overtaken \subseteq Turns
      /\ MaxSessions \in Nat /\ StoreSessions \in Nat
  BY LimitsAssumption DEF TypeOK, IsInjective, Injective
<1>2. /\ lru' = [lru EXCEPT ![s] = Without(lru[s], C)]
      /\ messages' = [d \in Conversations |-> IF d \in C THEN <<>> ELSE messages[d]]
      /\ access' = [d \in Conversations |-> IF d \in C THEN 0 ELSE access[d]]
      /\ overtaken' = overtaken \cup
           {t \in Turns : phase[t] \in {"running", "writing"} /\ ConversationOf[t] \in C}
      /\ saves' = Without(saves, C)
      /\ stored' = [d \in Conversations |-> IF d \in C THEN <<>> ELSE stored[d]]
  BY DEF Forget, SessionsFit
<1>3. /\ lru[s] \in Seq(Conversations) /\ Injective(lru[s]) /\ Len(lru[s]) <= MaxSessions
      /\ \A d \in ToSet(lru[s]) : ScopeOf[d] = s
  BY CacheType
<1>4. /\ Without(lru[s], C) \in Seq(Conversations) /\ Len(Without(lru[s], C)) <= Len(lru[s])
      /\ ToSet(Without(lru[s], C)) = ToSet(lru[s]) \ C
      /\ \A d : After(Without(lru[s], C), d) \subseteq After(lru[s], d)
      /\ Injective(Without(lru[s], C))
  BY <1>3, WithoutKeeps, WithoutSet DEF Injective
<1>5. /\ Without(saves, C) \in Seq(Conversations) /\ Len(Without(saves, C)) <= Len(saves)
      /\ ToSet(Without(saves, C)) = ToSet(saves) \ C /\ Injective(Without(saves, C))
  BY <1>1, WithoutKeeps, WithoutSet DEF Injective
<1>6. <<>> \in Histories
  <2>1. {} \in SUBSET Turns
    OBVIOUS
  <2> QED BY <2>1, DistinctHistories
<1>7. /\ lru' \in [Scopes -> Seq(Conversations)] /\ lru'[s] = Without(lru[s], C)
      /\ \A z \in Scopes \ {s} : lru'[z] = lru[z]
  BY <1>1, <1>2, <1>4
<1>8. ASSUME NEW z \in Scopes
      PROVE  /\ IsInjective(lru'[z]) /\ Len(lru'[z]) <= MaxSessions
             /\ \A i \in DOMAIN lru'[z] : ScopeOf[lru'[z][i]] = z
             /\ \A d : After(lru'[z], d) \subseteq After(lru[z], d)
  <2>1. CASE z = s
    <3>1. Len(Without(lru[s], C)) <= MaxSessions
      <4>1. Len(Without(lru[s], C)) \in Nat /\ Len(lru[s]) \in Nat
        BY <1>3, <1>4
      <4> QED BY <1>1, <1>3, <1>4, <4>1
    <3>2. \A i \in DOMAIN Without(lru[s], C) : ScopeOf[Without(lru[s], C)[i]] = s
      BY <1>3, <1>4 DEF ToSet
    <3> QED BY <1>4, <1>7, <2>1, <3>1, <3>2 DEF IsInjective, Injective
  <2>2. CASE z # s
    <3>1. lru'[z] = lru[z]
      BY <1>7, <2>2
    <3>2. IsInjective(lru[z]) /\ Len(lru[z]) <= MaxSessions /\ \A i \in DOMAIN lru[z] : ScopeOf[lru[z][i]] = z
      BY DEF TypeOK
    <3> QED BY <3>1, <3>2
  <2> QED BY <2>1, <2>2
<1>9. /\ saves' \in Seq(Conversations) /\ IsInjective(saves') /\ Len(saves') <= StoreSessions
  <2>1. Len(Without(saves, C)) \in Nat /\ Len(saves) \in Nat
    BY <1>1, <1>5
  <2> QED BY <1>1, <1>2, <1>5, <2>1 DEF IsInjective, Injective
<1>10. /\ {messages', stored'} \subseteq [Conversations -> Histories]
       /\ access' \in [Conversations -> 0..now] /\ overtaken' \in SUBSET Turns
  <2>1. 0 \in 0..now
    BY <1>1
  <2> QED BY <1>1, <1>2, <1>6, <2>1
<1>11. ASSUME NEW d \in Conversations
       PROVE  /\ Cached(d)' <=> Cached(d) /\ d \notin C
              /\ Persisted(d)' <=> Persisted(d) /\ d \notin C
  <2>1. ScopeOf[d] \in Scopes /\ (d \in C => ScopeOf[d] = s)
    BY TurnsAssumption DEF ScopeSessions
  <2>2. ToSet(lru'[ScopeOf[d]]) = IF ScopeOf[d] = s THEN ToSet(lru[s]) \ C ELSE ToSet(lru[ScopeOf[d]])
    BY <1>4, <1>7, <2>1
  <2> QED BY <1>2, <1>5, <2>1, <2>2 DEF Cached, Persisted
<1>12. ASSUME NEW d \in Conversations
       PROVE  /\ d \in C => messages'[d] = <<>> /\ stored'[d] = <<>>
              /\ d \notin C => messages'[d] = messages[d] /\ stored'[d] = stored[d] /\ access'[d] = access[d]
  BY <1>2
<1>13. \A d \in Conversations : Log(d)' = IF d \in C THEN <<>> ELSE Log(d)
  BY <1>11, <1>12 DEF Log
<1> QED BY <1>7, <1>8, <1>9, <1>10, <1>11, <1>12, <1>13

LEMMA ForgetKeeps ==
  ASSUME IInv, SessionsFit, NEW s \in Scopes, NEW C \in SUBSET ScopeSessions(s),
         NEW o \in HostOps, AtHead(s, o), Dequeue(s), Forget(s, C), UNCHANGED <<phase, seen, counters>>
  PROVE  IInv'
<1> DEFINE r == Tail(queue[s])
           place == [i \in DOMAIN r |-> i + 1]
<1>1. TypeOK /\ QueueFollowsPhase
  BY DEF IInv, SavedAfterTurn
<1>2. /\ phase' = phase /\ seen' = seen /\ now' = now /\ events' = events
      /\ queue' = [queue EXCEPT ![s] = r]
  BY DEF counters, Dequeue
<1>3. r \in Seq(Ops) /\ Places(r, queue[s], place) /\ \A t \in Turns : SaveLeft(r, r, queue[s], place, t)
  BY <1>1, HeadOfHost
<1> HIDE DEF r, place
<1>4. /\ queue' \in [Scopes -> Seq(TurnOps \cup HostOps)] /\ queue'[s] = r
      /\ \A z \in Scopes \ {s} : queue'[z] = queue[z]
  BY <1>1, <1>2, <1>3 DEF TypeOK, Ops
<1>5. /\ lru' \in [Scopes -> Seq(Conversations)]
      /\ \A z \in Scopes :
           /\ IsInjective(lru'[z]) /\ Len(lru'[z]) <= MaxSessions
           /\ \A i \in DOMAIN lru'[z] : ScopeOf[lru'[z][i]] = z
           /\ \A d : After(lru'[z], d) \subseteq After(lru[z], d)
      /\ saves' \in Seq(Conversations) /\ IsInjective(saves') /\ Len(saves') <= StoreSessions
      /\ {messages', stored'} \subseteq [Conversations -> Histories]
      /\ access' \in [Conversations -> 0..now] /\ overtaken' \in SUBSET Turns
  BY <1>1, ForgetSays
<1>6. \A d \in Conversations :
        /\ Cached(d)' <=> Cached(d) /\ d \notin C
        /\ Persisted(d)' <=> Persisted(d) /\ d \notin C
        /\ d \in C => messages'[d] = <<>> /\ stored'[d] = <<>>
        /\ d \notin C => messages'[d] = messages[d] /\ stored'[d] = stored[d] /\ access'[d] = access[d]
        /\ Log(d)' = IF d \in C THEN <<>> ELSE Log(d)
  BY <1>1, ForgetSays
<1>7. TypeOK'
  BY <1>1, <1>2, <1>4, <1>5 DEF TypeOK
<1>8. SavedAfterTurn'
  <2> SUFFICES ASSUME NEW d \in Conversations, \A u \in Turns : ConversationOf[u] = d => phase[u] # "saving"
               PROVE  stored'[d] = Log(d)'
    BY <1>2, <1>7 DEF SavedAfterTurn
  <2>1. stored[d] = Log(d)
    BY DEF IInv, SavedAfterTurn, SessionsFit
  <2> QED BY <1>6, <2>1
<1>9. QueueFollowsPhase'
  BY <1>1, <1>2, <1>3, HostKeepsQueue
<1>10. SlotsRespected'
  BY <1>2 DEF IInv, SlotsRespected, ActiveTurns
<1>11. SavesInTime'
  <2> SUFFICES ASSUME NEW u \in Turns, phase[u] = "saving", Cached(ConversationOf[u])'
               PROVE  access'[ConversationOf[u]] = now /\ SaveInTime(u)'
    BY <1>2 DEF SavesInTime
  <2>1. ConversationOf[u] \in Conversations
    BY TurnsAssumption
  <2>2. Cached(ConversationOf[u]) /\ access'[ConversationOf[u]] = access[ConversationOf[u]]
    BY <1>6, <2>1
  <2>3. access[ConversationOf[u]] = now /\ SaveInTime(u)
    BY <2>2 DEF IInv, SavesInTime
  <2>4. SaveLeft(queue'[s], r, queue[s], place, u)
    BY <1>3, <1>4
  <2>5. \A z \in Scopes : After(lru'[z], ConversationOf[u]) \subseteq After(lru[z], ConversationOf[u])
    BY <1>5
  <2>6. SaveInTime(u)'
    BY <1>1, <1>3, <1>4, <2>3, <2>4, <2>5, SavesStay
  <2> QED BY <2>2, <2>3, <2>6
<1>12. StoredIsSaved'
  BY <1>6 DEF IInv, StoredIsSaved
<1>13. SeenIsLog'
  <2> SUFFICES ASSUME NEW u \in Turns \ overtaken', phase[u] \in {"running", "writing"}
               PROVE  seen[u] = Log(ConversationOf[u])'
    BY <1>2 DEF SeenIsLog
  <2>1. u \notin overtaken /\ ConversationOf[u] \notin C
    BY DEF Forget
  <2>2. ConversationOf[u] \in Conversations
    BY TurnsAssumption
  <2>3. Log(ConversationOf[u])' = Log(ConversationOf[u])
    BY <1>6, <2>1, <2>2
  <2> QED BY <2>1, <2>3 DEF IInv, SeenIsLog
<1>14. HistoriesOfEnded'
  <2>1. Ended' = Ended /\ <<>> \in Distinct(Ended)
    BY <1>2, DistinctHistories DEF Ended
  <2> QED BY <1>2, <1>6, <2>1 DEF IInv, HistoriesOfEnded
<1> QED BY <1>8, <1>9, <1>10, <1>11, <1>12, <1>13, <1>14 DEF IInv

LEMMA ResetKeeps ==
  ASSUME IInv, SessionsFit,
         (\E c \in Conversations : RemoveSession(c)) \/ (\E s \in Scopes : ClearSessions(s))
  PROVE  IInv'
<1>1. ASSUME NEW c \in Conversations, RemoveSession(c) PROVE IInv'
  <2>1. ScopeOf[c] \in Scopes /\ {c} \in SUBSET ScopeSessions(ScopeOf[c])
        /\ [op |-> "remove", of |-> c] \in HostOps
    BY TurnsAssumption DEF ScopeSessions, HostOps
  <2> QED BY <1>1, <2>1, ForgetKeeps DEF RemoveSession
<1>2. ASSUME NEW s \in Scopes, ClearSessions(s) PROVE IInv'
  <2>1. ScopeSessions(s) \in SUBSET ScopeSessions(s) /\ [op |-> "clear", of |-> s] \in HostOps
    BY DEF HostOps
  <2> QED BY <1>2, <2>1, ForgetKeeps DEF ClearSessions
<1> QED BY <1>1, <1>2

(* A turn opens its session, to run or to be saved.                        *)
LEMMA OpenKeeps ==
  ASSUME IInv, SessionsFit, NEW u \in Turns, NEW o \in OpsOf(u), o.op # "save",
         AtHead(TurnScope(u), o), NEW h, SetCache(ConversationOf[u], Opened(ConversationOf[u]), h),
         NEW p \in {"running", "saving"}, phase' = [phase EXCEPT ![u] = p],
         NEW q \in Seq(Ops), queue' = [queue EXCEPT ![TurnScope(u)] = q],
         \/ q = Tail(queue[TurnScope(u)])
         \/ \E e \in OpsOf(u) : q = Append(Tail(queue[TurnScope(u)]), e) /\ phase'[u] = PhaseIn[e.op],
         UNCHANGED <<store, overtaken, counters>>,
         h \in Distinct(Ended'), seen' = [seen EXCEPT ![u] = IF p = "running" THEN h ELSE @],
         p = "running" => h = Log(ConversationOf[u]),
         p = "saving" => SaveInTime(u)'
  PROVE  IInv'
<1> DEFINE c == ConversationOf[u]
           s == TurnScope(u)
           r == Tail(queue[s])
           place == [i \in DOMAIN r |-> i + 1]
<1>1. TypeOK /\ QueueFollowsPhase /\ SlotsRespected /\ c \in Conversations
  BY TurnsAssumption DEF IInv, SavedAfterTurn
<1>2. /\ s \in Scopes /\ queue[s] \in Seq(Ops) /\ queue[s] # <<>> /\ phase[u] \in Active
      /\ r \in Seq(Ops) /\ (\A k \in DOMAIN r : r[k] \notin OpsOf(u))
      /\ phase[u] \in {"reading", "writing"}
  <2>1. PhaseIn[o.op] \in {"reading", "writing"}
    BY DEF PhaseIn, OpsOf
  <2> QED BY <1>1, <2>1, HeadOfTurn
<1>3. /\ \A v \in Turns : phase'[v] = IF v = u THEN p ELSE phase[v]
      /\ phase' \in [Turns -> Active \cup {"new", "refused", "left", "ended"}]
      /\ queue' \in [Scopes -> Seq(TurnOps \cup HostOps)]
      /\ saves' = saves /\ stored' = stored /\ overtaken' = overtaken /\ now' = now /\ events' = events
  BY <1>1, <1>2 DEF TypeOK, Active, Ops, store, counters
<1>4. /\ lru' \in [Scopes -> Seq(Conversations)]
      /\ \A z \in Scopes : /\ IsInjective(lru'[z]) /\ Len(lru'[z]) <= MaxSessions
                           /\ \A i \in DOMAIN lru'[z] : ScopeOf[lru'[z][i]] = z
      /\ h \in Histories => messages' \in [Conversations -> Histories]
      /\ access' \in [Conversations -> 0..now]
      /\ \A d \in Conversations : messages'[d] \in {messages[d], h, <<>>}
      /\ Cached(c)' /\ access'[c] = now
  BY <1>1, SetCacheSays
<1>5. Log(c)' = h /\ \A d \in Conversations \ {c} : Log(d)' = Log(d)
  BY OpenKeepsLogs
<1>6. Ended' \in SUBSET Turns /\ Distinct(Ended) \subseteq Distinct(Ended') /\ h \in Histories
  <2>1. Ended \subseteq Ended' /\ Ended' \in SUBSET Turns
    BY <1>2, <1>3 DEF Ended
  <2> QED BY <2>1, DistinctHistories
<1>7. TypeOK'
  <2>1. seen' \in [Turns -> Histories]
    BY <1>1, <1>6 DEF TypeOK
  <2> QED BY SMTT(40), <1>1, <1>3, <1>4, <1>6, <2>1 DEF TypeOK
<1>8. \A v \in Turns : v # u /\ phase[v] \in Active => ConversationOf[v] # c
  BY <1>1, <1>2, OneAtATime
<1>9. SavedAfterTurn'
  <2> SUFFICES ASSUME NEW d \in Conversations, \A v \in Turns : ConversationOf[v] = d => phase'[v] # "saving"
               PROVE  stored[d] = Log(d)'
    BY <1>3, <1>7 DEF SavedAfterTurn
  <2>1. \A v \in Turns : ConversationOf[v] = d => phase[v] # "saving"
    BY <1>2, <1>3
  <2>2. stored[d] = Log(d)
    BY <2>1 DEF IInv, SavedAfterTurn, SessionsFit
  <2>3. CASE d = c
    <3>1. p = "running"
      BY <1>3, <2>3
    <3> QED BY <1>5, <2>2, <2>3, <3>1
  <2>4. CASE d # c
    BY <1>5, <2>2, <2>4
  <2> QED BY <2>3, <2>4
<1>10. QueueFollowsPhase'
  <2>1. Places(r, queue[s], place)
    BY <1>2, PlacesOfTail
  <2>2. \A v \in Turns : v # u => phase'[v] = phase[v]
    BY <1>3
  <2> HIDE DEF place
  <2> QED BY <1>1, <1>2, <2>1, <2>2, TurnKeepsQueue
<1>11. SlotsRespected'
  BY <1>1, <1>2, SlotsKept DEF SessionsFit
<1>12. SavesInTime'
  <2> SUFFICES ASSUME NEW t \in Turns, phase'[t] = "saving", Cached(ConversationOf[t])'
               PROVE  access'[ConversationOf[t]] = now /\ SaveInTime(t)'
    BY <1>3 DEF SavesInTime
  <2>1. CASE t = u
    BY <1>3, <1>4, <2>1
  <2>2. CASE t # u
    <3>1. phase[t] = "saving"
      BY <1>3, <2>2
    <3>2. q = Tail(queue[TurnScope(u)]) \/ \E e : q = Append(Tail(queue[TurnScope(u)]), e)
      OBVIOUS
    <3> QED BY <2>2, <3>1, <3>2, OpenKeepsTime
  <2> QED BY <2>1, <2>2
<1>13. StoredIsSaved'
  BY <1>3 DEF IInv, StoredIsSaved, Persisted
<1>14. SeenIsLog'
  <2> SUFFICES ASSUME NEW v \in Turns \ overtaken, phase'[v] \in {"running", "writing"}
               PROVE  seen'[v] = Log(ConversationOf[v])'
    BY <1>3 DEF SeenIsLog
  <2>1. CASE v = u
    <3>1. p = "running"
      BY <1>3, <2>1
    <3>2. seen'[u] = h
      BY <1>1, <3>1 DEF TypeOK
    <3> QED BY <1>5, <2>1, <3>2
  <2>2. CASE v # u
    <3>1. phase[v] \in {"running", "writing"} /\ phase[v] \in Active
      BY <1>3, <2>2 DEF Active
    <3>2. seen'[v] = seen[v] /\ seen[v] = Log(ConversationOf[v])
      BY <1>1, <2>2, <3>1 DEF TypeOK, IInv, SeenIsLog
    <3>3. Log(ConversationOf[v])' = Log(ConversationOf[v])
      <4>1. ConversationOf[v] \in Conversations \ {c}
        BY <1>8, <2>2, <3>1, TurnsAssumption
      <4> QED BY <1>5, <4>1
    <3> QED BY <3>2, <3>3
  <2> QED BY <2>1, <2>2
<1>15. HistoriesOfEnded'
  <2>1. <<>> \in Distinct(Ended')
    BY DistinctHistories
  <2>2. /\ \A d \in Conversations : messages[d] \in Distinct(Ended') /\ stored[d] \in Distinct(Ended')
        /\ \A v \in Turns : seen[v] \in Distinct(Ended')
    BY <1>6 DEF IInv, HistoriesOfEnded
  <2>3. \A v \in Turns : seen'[v] \in {seen[v], h}
    BY <1>1 DEF TypeOK
  <2>4. \A d \in Conversations : messages'[d] \in Distinct(Ended')
    BY <1>4, <2>1, <2>2
  <2>5. \A v \in Turns : seen'[v] \in Distinct(Ended')
    BY <2>2, <2>3
  <2> QED BY <1>3, <2>2, <2>4, <2>5 DEF HistoriesOfEnded
<1> QED BY <1>9, <1>10, <1>11, <1>12, <1>13, <1>14, <1>15 DEF IInv

(* No turn of the conversation waits to be saved while another reads or    *)
(* writes it.                                                              *)
LEMMA NoSaveWaits ==
  ASSUME SlotsRespected, NEW u \in Turns, phase[u] \in {"reading", "writing"}
  PROVE  \A t \in Turns : ConversationOf[t] = ConversationOf[u] => phase[t] # "saving"
BY OneAtATime DEF Active

LEMMA ReadKeeps ==
  ASSUME IInv, SessionsFit, NEW u \in Turns, Read(u)
  PROVE  IInv' /\ History(ConversationOf[u]) = Log(ConversationOf[u])
<1> DEFINE c == ConversationOf[u]
           h == History(c)
           o == [op |-> "read", turn |-> u]
           q == Tail(queue[TurnScope(u)])
<1>1. TypeOK /\ QueueFollowsPhase /\ SlotsRespected /\ c \in Conversations
  BY TurnsAssumption DEF IInv, SavedAfterTurn
<1>2. o \in OpsOf(u) /\ o.op # "save" /\ AtHead(TurnScope(u), o)
  BY DEF OpsOf, Read
<1>3. phase[u] = "reading" /\ q \in Seq(Ops)
  <2>1. PhaseIn[o.op] = "reading"
    BY DEF PhaseIn
  <2> QED BY <1>1, <1>2, <2>1, HeadOfTurn
<1>4. h = Log(c)
  BY <1>1, <1>3, NoSaveWaits, HistoryIsLog
<1>5. h \in Distinct(Ended')
  <2>1. h \in {messages[c], stored[c]}
    BY <1>4 DEF Log
  <2>2. Ended \subseteq Ended'
    BY <1>1, <1>3 DEF Read, Ended, TypeOK
  <2>3. messages[c] \in Distinct(Ended) /\ stored[c] \in Distinct(Ended)
    BY <1>1 DEF IInv, HistoriesOfEnded
  <2> QED BY <2>1, <2>2, <2>3, DistinctHistories
<1>6. /\ SetCache(c, Opened(c), h) /\ phase' = [phase EXCEPT ![u] = "running"]
      /\ queue' = [queue EXCEPT ![TurnScope(u)] = q] /\ UNCHANGED <<store, overtaken, counters>>
      /\ seen' = [seen EXCEPT ![u] = IF "running" = "running" THEN h ELSE @]
  BY DEF Read, Dequeue
<1> HIDE DEF h, q, o
<1> QED BY <1>1, <1>2, <1>3, <1>4, <1>5, <1>6, OpenKeeps DEF h, q

(* Ahead of a save that begins to wait are operations of other turns under *)
(* way, one each: fewer than the cache has places.                         *)
LEMMA FewWait ==
  ASSUME TypeOK, QueueFollowsPhase, SlotsRespected, SessionsFit, NEW u \in Turns, phase[u] \in Active,
         NEW r \in Seq(Ops), NEW place, Places(r, queue[TurnScope(u)], place),
         \A k \in DOMAIN r : r[k] \notin OpsOf(u)
  PROVE  Cardinality({j \in DOMAIN r : \E t \in Turns : r[j] \in OpsOf(t)}) < MaxSessions
<1> DEFINE s == TurnScope(u)
           B == {j \in DOMAIN r : \E t \in Turns : r[j] \in OpsOf(t)}
           turnOf(j) == CHOOSE t \in Turns : r[j] \in OpsOf(t)
           A == ActiveTurns \ {u}
<1>1. s \in Scopes
  BY TurnsAssumption DEF TurnScope
<1>2. ASSUME NEW j \in B
      PROVE  turnOf(j) \in A /\ r[j] \in OpsOf(turnOf(j)) /\ j \in DOMAIN r
  <2>1. turnOf(j) \in Turns /\ r[j] \in OpsOf(turnOf(j)) /\ j \in DOMAIN r
    OBVIOUS
  <2>2. place[j] \in DOMAIN queue[s] /\ queue[s][place[j]] = r[j]
    BY <2>1 DEF Places
  <2>3. phase[turnOf(j)] = PhaseIn[r[j].op]
    BY <1>1, <2>1, <2>2 DEF QueueFollowsPhase
  <2>4. PhaseIn[r[j].op] \in Active
    BY <2>1 DEF OpsOf, PhaseIn, Active
  <2>5. turnOf(j) # u
    BY <2>1
  <2> QED BY <2>1, <2>3, <2>4, <2>5 DEF ActiveTurns
<1>3. ASSUME NEW j \in B, NEW k \in B, turnOf(j) = turnOf(k) PROVE j = k
  <2> DEFINE t == turnOf(j)
  <2>1. t \in Turns /\ r[j] \in OpsOf(t) /\ r[k] \in OpsOf(t) /\ j \in DOMAIN r /\ k \in DOMAIN r
    BY <1>2, <1>3 DEF ActiveTurns
  <2> HIDE DEF t
  <2>2. /\ place[j] \in DOMAIN queue[s] /\ queue[s][place[j]] = r[j]
        /\ place[k] \in DOMAIN queue[s] /\ queue[s][place[k]] = r[k]
    BY <2>1 DEF Places
  <2>3. place[j] = place[k]
    BY <1>1, <2>1, <2>2 DEF QueueFollowsPhase
  <2>4. ~(j < k) /\ ~(k < j)
    <3>1. place[j] \in Nat
      <4>1. queue[s] \in Seq(Ops)
        BY <1>1 DEF TypeOK, Ops
      <4> QED BY <2>2, <4>1
    <3> QED BY <2>1, <2>3, <3>1 DEF Places
  <2>5. j \in Nat /\ k \in Nat
    BY <2>1
  <2> QED BY <2>4, <2>5
<1> DEFINE f == [j \in B |-> turnOf(j)]
<1>4. f \in Injection(B, A)
  <2> HIDE DEF turnOf, A, B
  <2> QED BY <1>2, <1>3 DEF Injection, IsInjective
<1>5. IsFiniteSet(ActiveTurns) /\ u \in ActiveTurns /\ Cardinality(ActiveTurns) \in Nat
  <2>1. ActiveTurns \in SUBSET Turns
    BY DEF ActiveTurns
  <2> QED BY <2>1, TurnsAssumption, FS_Subset, FS_CardinalityType DEF ActiveTurns
<1>6. IsFiniteSet(A) /\ Cardinality(A) = Cardinality(ActiveTurns) - 1
  BY <1>5, FS_RemoveElement
<1>7. IsFiniteSet(B) /\ Cardinality(B) <= Cardinality(A)
  <2> HIDE DEF A, B, f
  <2> QED BY <1>4, <1>6, FS_Injection
<1>8. Cardinality(ActiveTurns) <= RunLimit /\ RunLimit <= MaxSessions /\ RunLimit \in Nat /\ MaxSessions \in Nat
  BY LimitsAssumption DEF SlotsRespected, SessionsFit
<1>9. Cardinality(B) \in Nat
  <2> HIDE DEF B
  <2> QED BY <1>7, FS_CardinalityType
<1> HIDE DEF A, B
<1> QED BY <1>5, <1>6, <1>7, <1>8, <1>9 DEF B

LEMMA WriteBackKeeps ==
  ASSUME IInv, SessionsFit, NEW u \in Turns, WriteBack(u)
  PROVE  IInv' /\ phase[u] = "writing"
<1> DEFINE c == ConversationOf[u]
           s == TurnScope(u)
           h == Append(seen[u], u)
           o == [op |-> "write", turn |-> u]
           e == [op |-> "save", turn |-> u]
           r == Tail(queue[s])
           q == Append(r, e)
           place == [i \in DOMAIN r |-> i + 1]
<1>1. TypeOK /\ QueueFollowsPhase /\ SlotsRespected /\ c \in Conversations
  BY TurnsAssumption DEF IInv, SavedAfterTurn
<1>2. o \in OpsOf(u) /\ o.op # "save" /\ AtHead(s, o) /\ e \in OpsOf(u) /\ e \in Ops
  BY OpsApart DEF OpsOf, WriteBack, Ops
<1>3. /\ phase[u] = "writing" /\ phase[u] \in Active /\ s \in Scopes
      /\ queue[s] \in Seq(Ops) /\ queue[s] # <<>>
      /\ r \in Seq(Ops) /\ \A k \in DOMAIN r : r[k] \notin OpsOf(u)
  <2>1. PhaseIn[o.op] = "writing"
    BY DEF PhaseIn
  <2> QED BY <1>1, <1>2, <2>1, HeadOfTurn
<1>4. Places(r, queue[s], place)
  BY <1>3, PlacesOfTail
<1>5. /\ SetCache(c, Opened(c), h) /\ phase' = [phase EXCEPT ![u] = "saving"]
      /\ queue' = [queue EXCEPT ![s] = q] /\ UNCHANGED <<store, overtaken, counters>>
      /\ seen' = seen
  BY DEF WriteBack
<1>6. h \in Distinct(Ended')
  <2>1. Ended' = Ended \cup {u} /\ u \notin Ended
    BY <1>1, <1>3, <1>5 DEF Ended, TypeOK
  <2>2. seen[u] \in Distinct(Ended)
    BY DEF IInv, HistoriesOfEnded
  <2> QED BY <2>1, <2>2, DistinctHistories
<1>7. seen' = [seen EXCEPT ![u] = IF "saving" = "running" THEN h ELSE @]
  BY <1>1, <1>5 DEF TypeOK
<1>8. q \in Seq(Ops)
  BY <1>2, <1>3
<1>9. phase'[u] = "saving" /\ PhaseIn[e.op] = "saving"
  BY <1>1, <1>5 DEF TypeOK, PhaseIn
<1>10. SaveInTime(u)'
  <2>1. queue'[s] = q
    BY <1>1, <1>3, <1>5 DEF TypeOK
  <2> DEFINE i == Len(r) + 1
  <2>2. /\ i \in DOMAIN q /\ q[i] = e
        /\ OpensBefore(q, i) = {j \in DOMAIN r : \E t \in Turns : r[j] \in OpsOf(t)}
    <3> HIDE DEF r, e
    <3>1. /\ DOMAIN r = 1..Len(r) /\ Len(r) \in Nat /\ DOMAIN q = 1..(Len(r) + 1) /\ q[Len(r) + 1] = e
          /\ \A j \in 1..Len(r) : q[j] = r[j]
      BY <1>2, <1>3
    <3>2. \A j \in DOMAIN q : j < i <=> j \in DOMAIN r
      BY <3>1
    <3>3. \A j \in DOMAIN r : j \in DOMAIN q /\ q[j] = r[j]
      BY <3>1
    <3> HIDE DEF q, i
    <3> QED BY <3>1, <3>2, <3>3 DEF OpensBefore, i
  <2>3. Cardinality(OpensBefore(q, i)) < MaxSessions
    <3> HIDE DEF r, place
    <3>1. Cardinality({j \in DOMAIN r : \E t \in Turns : r[j] \in OpsOf(t)}) < MaxSessions
      BY <1>1, <1>3, <1>4, FewWait
    <3> QED BY <2>2, <3>1
  <2>4. After(lru'[s], c) = {}
    <3>1. lru'[s] = Opened(c)
      BY <1>1, <1>5, SetCacheSays DEF TurnScope
    <3>2. After(Opened(c), c) = {}
      BY <1>1, OpenedCache
    <3> QED BY <3>1, <3>2
  <2>5. Cardinality(After(lru'[s], c)) = 0 /\ Cardinality(OpensBefore(q, i)) \in Nat
    <3>1. Cardinality(After(lru'[s], c)) = 0
      BY <2>4, FS_EmptySet
    <3>2. OpensBefore(q, i) \in SUBSET (1..Len(q)) /\ Len(q) \in Nat
      BY <1>8 DEF OpensBefore
    <3>3. ASSUME NEW n \in Nat PROVE IsFiniteSet(1..n)
      BY FiniteInterval
    <3> HIDE DEF q, i
    <3> QED BY <3>1, <3>2, <3>3, FS_Subset, FS_CardinalityType
  <2>6. MaxSessions \in Nat
    BY LimitsAssumption
  <2> HIDE DEF q, i
  <2>7. Cardinality(After(lru'[s], c)) + Cardinality(OpensBefore(queue'[s], i)) < MaxSessions
    BY <2>1, <2>3, <2>5, <2>6
  <2> QED BY <2>1, <2>2, <2>7 DEF SaveInTime, TurnScope, q
<1> HIDE DEF h, o, e, r, q, place
<1>11. \E x \in OpsOf(u) : q = Append(Tail(queue[s]), x) /\ phase'[u] = PhaseIn[x.op]
  BY <1>2, <1>9 DEF q, r
<1>12. IInv'
  BY <1>2, <1>3, <1>5, <1>6, <1>7, <1>8, <1>10, <1>11, OpenKeeps
<1> QED BY <1>3, <1>12

--------------------------------------------------------------------------------
LEMMA InitHolds ==
  ASSUME SessionsFit, Init
  PROVE  IInv
<1>1. /\ ToSet(<<>>) = {} /\ <<>> \in Histories /\ DOMAIN <<>> = {}
      /\ \A S : <<>> \in Seq(S)
  <2>1. {} \in SUBSET Turns
    OBVIOUS
  <2>2. <<>> \in Histories
    BY <2>1, DistinctHistories
  <2>3. DOMAIN <<>> = {}
    OBVIOUS
  <2> QED BY <2>2, <2>3 DEF ToSet
<1>2. Len(<<>>) = 0 /\ \A n \in Nat : 0 <= n
  OBVIOUS
<1>3. TypeOK
  <2>1. phase \in [Turns -> Active \cup {"new", "refused", "left", "ended"}] /\ seen \in [Turns -> Histories]
    BY <1>1 DEF Init
  <2>2. /\ queue \in [Scopes -> Seq(TurnOps \cup HostOps)] /\ lru \in [Scopes -> Seq(Conversations)]
        /\ saves \in Seq(Conversations)
    BY <1>1 DEF Init
  <2>3. \A s \in Scopes : lru[s] = <<>>
    BY DEF Init
  <2>4. IsInjective(<<>>)
    BY <1>1 DEF IsInjective
  <2>5. /\ {MaxSessions, StoreSessions, MaxTime, MaxEvents} \subseteq Nat
    BY LimitsAssumption
  <2>6. \A s \in Scopes :
          /\ IsInjective(lru[s]) /\ Len(lru[s]) <= MaxSessions
          /\ \A i \in DOMAIN lru[s] : ScopeOf[lru[s][i]] = s
    BY <1>1, <1>2, <2>3, <2>4, <2>5
  <2>7. /\ IsInjective(saves) /\ Len(saves) <= StoreSessions
        /\ {messages, stored} \subseteq [Conversations -> Histories] /\ overtaken \subseteq Turns
    BY <1>1, <1>2, <2>4, <2>5 DEF Init
  <2>8. access \in [Conversations -> 0..now] /\ now \in 0..MaxTime /\ events \in 0..MaxEvents
    BY <2>5 DEF Init
  <2> QED BY <2>1, <2>2, <2>6, <2>7, <2>8 DEF TypeOK
<1>4. \A c \in Conversations : ~Cached(c) /\ ~Persisted(c) /\ stored[c] = <<>> /\ messages[c] = <<>> /\ Log(c) = <<>>
  BY <1>1, TurnsAssumption DEF Init, Cached, Persisted, Log
<1>5. \A t \in Turns : phase[t] = "new" /\ seen[t] = <<>> /\ ConversationOf[t] \in Conversations
  BY TurnsAssumption DEF Init
<1>6. SavedAfterTurn /\ StoredIsSaved
  BY <1>3, <1>4 DEF SavedAfterTurn, StoredIsSaved
<1>7. QueueFollowsPhase
  BY <1>1 DEF Init, QueueFollowsPhase
<1>8. SlotsRespected
  <2>1. ActiveTurns = {}
    BY <1>5 DEF ActiveTurns, Active
  <2>2. Cardinality({}) = 0 /\ RunLimit \in Nat
    BY LimitsAssumption, FS_EmptySet
  <2> QED BY <1>2, <2>1, <2>2 DEF SlotsRespected
<1>9. SavesInTime /\ SeenIsLog
  BY <1>5 DEF SavesInTime, SeenIsLog
<1>10. HistoriesOfEnded
  BY <1>4, <1>5, DistinctHistories DEF HistoriesOfEnded
<1> QED BY <1>6, <1>7, <1>8, <1>9, <1>10 DEF IInv

LEMMA StepKeeps ==
  ASSUME IInv, SessionsFit, [Next]_vars
  PROVE  IInv'
<1>1. ASSUME NEW t \in Turns, TurnStep(t) PROVE IInv'
  <2>1. CASE Begin(t) \/ Finish(t) \/ Resume(t)
    BY <2>1, BeginKeeps
  <2>2. CASE Read(t)
    BY <2>2, ReadKeeps
  <2>3. CASE WriteBack(t)
    BY <2>3, WriteBackKeeps
  <2>4. CASE Save(t)
    BY <2>4, SaveKeeps
  <2>5. CASE Interrupt(t)
    BY <2>5, InterruptKeeps
  <2> QED BY <1>1, <2>1, <2>2, <2>3, <2>4, <2>5 DEF TurnStep
<1>2. CASE HostStep
  <2>1. ASSUME NEW s \in Scopes, NEW o \in HostOps, HostCall(s, o) PROVE IInv'
    BY <2>1, HostCallKeeps
  <2>2. ASSUME NEW c \in Conversations, GetSession(c) PROVE IInv'
    BY <2>2, GetKeeps
  <2> QED BY <1>2, <2>1, <2>2, ResetKeeps DEF HostStep
<1>3. CASE Tick
  BY <1>3, TickKeeps
<1>4. CASE UNCHANGED vars
  <2>1. /\ phase' = phase /\ seen' = seen /\ queue' = queue /\ lru' = lru /\ messages' = messages
        /\ access' = access /\ saves' = saves /\ stored' = stored /\ overtaken' = overtaken
        /\ now' = now /\ events' = events
    BY <1>4 DEF vars, cache, store, counters
  <2>2. \A c : (Cached(c)' <=> Cached(c)) /\ (Log(c)' = Log(c)) /\ (Persisted(c)' <=> Persisted(c))
    BY <2>1 DEF Cached, Log, Persisted
  <2>3. TypeOK'
    BY <2>1 DEF IInv, SavedAfterTurn, TypeOK
  <2>4. SavedAfterTurn' /\ StoredIsSaved' /\ SeenIsLog'
    BY <2>1, <2>2, <2>3 DEF IInv, SavedAfterTurn, StoredIsSaved, SeenIsLog
  <2>5. QueueFollowsPhase' /\ SlotsRespected' /\ HistoriesOfEnded'
    BY <2>1 DEF IInv, QueueFollowsPhase, SlotsRespected, ActiveTurns, HistoriesOfEnded, Ended
  <2>6. SavesInTime'
    BY <2>1, <2>2 DEF IInv, SavesInTime, SaveInTime
  <2> QED BY <2>4, <2>5, <2>6 DEF IInv
<1> QED BY <1>1, <1>2, <1>3, <1>4 DEF Next

(* The inductive invariant.                                                *)
THEOREM Invariance ==
  ASSUME SessionsFit
  PROVE  Spec => []IInv
<1>1. Init => IInv
  BY InitHolds
<1>2. IInv /\ [Next]_vars => IInv'
  BY StepKeeps
<1> QED BY <1>1, <1>2, PTL DEF Spec

(* Outside a write-back, all of a conversation's history is persisted      *)
(* (Agent._execute_stream, SessionManager.save), and the types.            *)
THEOREM AllIsSaved ==
  ASSUME SessionsFit
  PROVE  Spec => []SavedAfterTurn
<1>1. IInv => SavedAfterTurn
  BY DEF IInv
<1> QED BY <1>1, Invariance, PTL

(* What get_or_create evicts for the session of another turn is persisted  *)
(* (SessionManager._evict_expired).                                        *)
THEOREM EvictionSavesAll ==
  ASSUME SessionsFit
  PROVE  Spec => EvictedIsSaved
<1>1. ASSUME IInv, [Next]_vars, phase' # phase, NEW c \in Conversations, Cached(c), ~Cached(c)'
      PROVE  stored[c] = messages[c]
  <2>1. TypeOK /\ QueueFollowsPhase
    BY <1>1 DEF IInv, SavedAfterTurn
  <2>2. lru' # lru
    BY <1>1 DEF Cached
  <2>3. PICK t \in Turns : Read(t) \/ WriteBack(t)
    <3>1. \E t \in Turns : TurnStep(t)
      BY <1>1 DEF Next, HostStep, HostCall, RemoveSession, GetSession, ClearSessions, Tick, vars
    <3> QED BY <2>2, <3>1 DEF TurnStep, Begin, Finish, Save, Interrupt, Resume, cache
  <2>4. ASSUME NEW o \in OpsOf(t), o.op # "save", AtHead(TurnScope(t), o),
               NEW h, SetCache(ConversationOf[t], Opened(ConversationOf[t]), h)
        PROVE  stored[c] = messages[c]
    <3>1. ConversationOf[t] \in Conversations
      BY TurnsAssumption
    <3>2. /\ Cached(ConversationOf[t])'
          /\ c # ConversationOf[t] =>
               ScopeOf[c] = TurnScope(t) /\ c \in ToSet(lru[TurnScope(t)]) \ ToSet(Opened(ConversationOf[t]))
      BY <1>1, <2>1, <2>4, <3>1, SetCacheSays DEF TurnScope
    <3> QED BY <1>1, <2>4, <3>2, DroppedIsSaved
  <2>5. CASE Read(t)
    <3>1. [op |-> "read", turn |-> t] \in OpsOf(t) /\ [op |-> "read", turn |-> t].op # "save"
      BY DEF OpsOf
    <3>2. /\ AtHead(TurnScope(t), [op |-> "read", turn |-> t])
          /\ SetCache(ConversationOf[t], Opened(ConversationOf[t]), History(ConversationOf[t]))
      BY <2>5 DEF Read
    <3> QED BY <2>4, <3>1, <3>2
  <2>6. CASE WriteBack(t)
    <3>1. [op |-> "write", turn |-> t] \in OpsOf(t) /\ [op |-> "write", turn |-> t].op # "save"
      BY DEF OpsOf
    <3>2. /\ AtHead(TurnScope(t), [op |-> "write", turn |-> t])
          /\ SetCache(ConversationOf[t], Opened(ConversationOf[t]), Append(seen[t], t))
      BY <2>6 DEF WriteBack
    <3> QED BY <2>4, <3>1, <3>2
  <2> QED BY <2>3, <2>5, <2>6
<1>2. IInv /\ [Next]_vars =>
        [phase' # phase => \A c \in Conversations : Cached(c) /\ ~Cached(c)' => stored[c] = messages[c]]_vars
  BY <1>1
<1> QED BY <1>2, Invariance, PTL DEF Spec, EvictedIsSaved

--------------------------------------------------------------------------------
(* The conversations behave as the logs of SessionPromise.                 *)
Logs == [c \in Conversations |-> Log(c)]
States == [t \in Turns |-> State(t)]

(* A step the promise does not see, and a reset.                           *)
LEMMA Unseen ==
  ASSUME \A c \in Conversations : Log(c)' = Log(c), \A t \in Turns : State(t)' = State(t),
         UNCHANGED <<seen, overtaken>>
  PROVE  [Promise!Next]_(Promise!pvars)
<1>1. Logs' = Logs /\ States' = States
  BY DEF Logs, States
<1> QED BY <1>1 DEF Promise!pvars, Logs, States

LEMMA ResetSeen ==
  ASSUME TypeOK, SessionsFit, NEW s \in Scopes, NEW C \in SUBSET ScopeSessions(s), Forget(s, C),
         UNCHANGED <<phase, seen>>,
         \/ \E c \in Conversations : C = {c}
         \/ C = ScopeSessions(s)
  PROVE  [Promise!Next]_(Promise!pvars)
<1>1. /\ \A d \in Conversations : Log(d)' = IF d \in C THEN <<>> ELSE Log(d)
      /\ \A t \in Turns : State(t)' = State(t)
  BY ForgetSays DEF State
<1>2. /\ overtaken' = overtaken \cup
           {t \in Turns : phase[t] \in {"running", "writing"} /\ ConversationOf[t] \in C}
      /\ \A t \in Turns : phase[t] \in {"running", "writing"} <=> State(t) = "running"
  <2>1. \A t \in Turns : phase[t] \in {"running", "writing"} <=> State(t) = "running"
    BY DEF State
  <2> QED BY <2>1 DEF Forget
<1>3. CASE C = {}
  <2>1. overtaken' = overtaken
    BY <1>2, <1>3
  <2> QED BY <1>1, <1>3, <2>1, Unseen
<1>4. CASE C # {}
  <2>1. C \in Promise!Together
    <3>1. CASE \E c \in Conversations : C = {c}
      BY <3>1 DEF Promise!Together
    <3>2. CASE C = ScopeSessions(s)
      <4>1. PICK c \in C : TRUE
        BY <1>4
      <4>2. c \in Conversations /\ C = {d \in Conversations : ScopeOf[d] = ScopeOf[c]}
        BY <3>2 DEF ScopeSessions
      <4> QED BY <4>2 DEF Promise!Together
    <3> QED BY <3>1, <3>2
  <2>2. Logs' = [c \in Conversations |-> IF c \in C THEN <<>> ELSE Logs[c]] /\ States' = States
    BY <1>1 DEF Logs, States
  <2>3. overtaken' = overtaken \cup {t \in Turns : States[t] = "running" /\ ConversationOf[t] \in C}
    BY <1>2 DEF States
  <2>4. Promise!Reset(C)
    BY <2>2, <2>3 DEF Promise!Reset, Logs, States
  <2> QED BY <2>1, <2>4 DEF Promise!Next
<1> QED BY <1>3, <1>4

LEMMA TurnSeen ==
  ASSUME IInv, SessionsFit, NEW t \in Turns, TurnStep(t)
  PROVE  [Promise!Next]_(Promise!pvars)
<1> DEFINE c == ConversationOf[t]
<1>1. TypeOK /\ c \in Conversations
  BY TurnsAssumption DEF IInv, SavedAfterTurn
<1>2. \A u \in Turns : u # t /\ phase'[u] = phase[u] => State(u)' = State(u)
  BY DEF State
<1>3. UNCHANGED <<cache, store>> => \A d \in Conversations : Log(d)' = Log(d)
  BY DEF cache, store, Log, Cached
<1>4. CASE Begin(t) \/ Finish(t)
  <2>1. UNCHANGED <<cache, store, seen, overtaken>>
    BY <1>4 DEF Begin, Finish
  <2>2. \A u \in Turns : State(u)' = State(u)
    BY <1>1, <1>4 DEF Begin, Finish, State, TypeOK
  <2> QED BY <1>3, <2>1, <2>2, Unseen
<1>5. CASE Save(t)
  <2>1. phase[t] = "saving" /\ phase' = [phase EXCEPT ![t] = "ended"]
    <3>1. [op |-> "save", turn |-> t] \in OpsOf(t) /\ PhaseIn[[op |-> "save", turn |-> t].op] = "saving"
          /\ AtHead(TurnScope(t), [op |-> "save", turn |-> t])
      BY <1>5 DEF Save, OpsOf, PhaseIn
    <3>2. QueueFollowsPhase
      BY DEF IInv
    <3> QED BY <1>1, <1>5, <3>1, <3>2, HeadOfTurn DEF Save
  <2>2. \A u \in Turns : State(u)' = State(u)
    BY <1>1, <2>1 DEF State, TypeOK
  <2>3. UNCHANGED <<seen, overtaken>>
    BY <1>5 DEF Save
  <2> QED BY <1>5, <2>2, <2>3, SaveKeepsLogs, Unseen
<1>6. CASE Interrupt(t)
  <2>1. /\ UNCHANGED <<cache, store, seen, overtaken>>
        /\ phase[t] \in {"reading", "running", "writing"}
        /\ phase' = [phase EXCEPT ![t] = AfterInterrupt(phase[t])]
    BY <1>6, LimitsAssumption DEF Interrupt, SessionsFit, Active
  <2>2. AfterInterrupt(phase[t]) \in {"refused", "left"}
    BY <2>1 DEF AfterInterrupt
  <2>3. \A u \in Turns : phase'[u] = IF u = t THEN AfterInterrupt(phase[t]) ELSE phase[u]
    BY <1>1, <2>1 DEF TypeOK
  <2>4. States' = [States EXCEPT ![t] = "left"] /\ States[t] \in {"new", "running"}
    <3>1. State(t)' = "left" /\ State(t) \in {"new", "running"}
      BY <2>1, <2>2, <2>3 DEF State
    <3>2. \A u \in Turns : u # t => State(u)' = State(u)
      BY <1>2, <2>3
    <3> QED BY <3>1, <3>2 DEF States
  <2>5. Logs' = Logs
    BY <1>3, <2>1 DEF Logs
  <2>6. Promise!Leave(t)
    BY <2>1, <2>4, <2>5 DEF Promise!Leave, Logs, States
  <2> QED BY <2>6 DEF Promise!Next
<1>7. CASE Resume(t)
  <2>1. /\ UNCHANGED <<cache, store, seen>> /\ overtaken' = overtaken \cup {t}
        /\ phase[t] = "left" /\ phase' = [phase EXCEPT ![t] = "running"]
    BY <1>7 DEF Resume
  <2>2. \A u \in Turns : phase'[u] = IF u = t THEN "running" ELSE phase[u]
    BY <1>1, <2>1 DEF TypeOK
  <2>3. States' = [States EXCEPT ![t] = "running"] /\ States[t] = "left"
    <3>1. State(t)' = "running" /\ State(t) = "left"
      BY <2>1, <2>2 DEF State
    <3>2. \A u \in Turns : u # t => State(u)' = State(u)
      BY <1>2, <2>2
    <3> QED BY <3>1, <3>2 DEF States
  <2>4. Logs' = Logs
    BY <1>3, <2>1 DEF Logs
  <2>5. Promise!Resume(t)
    BY <2>1, <2>3, <2>4 DEF Promise!Resume, Logs, States
  <2> QED BY <2>5 DEF Promise!Next
<1>8. CASE Read(t)
  <2>1. /\ SetCache(c, Opened(c), History(c)) /\ UNCHANGED <<store, overtaken>>
        /\ phase' = [phase EXCEPT ![t] = "running"] /\ seen' = [seen EXCEPT ![t] = History(c)]
        /\ AtHead(TurnScope(t), [op |-> "read", turn |-> t])
    BY <1>8 DEF Read
  <2>2. [op |-> "read", turn |-> t] \in OpsOf(t) /\ [op |-> "read", turn |-> t].op # "save"
        /\ PhaseIn[[op |-> "read", turn |-> t].op] = "reading"
    BY DEF OpsOf, PhaseIn
  <2>3. phase[t] = "reading" /\ History(c) = Log(c)
    <3>1. QueueFollowsPhase
      BY DEF IInv
    <3> QED BY <1>1, <1>8, <2>1, <2>2, <3>1, HeadOfTurn, ReadKeeps
  <2>4. \A d \in Conversations : Log(d)' = Log(d)
    BY <2>1, <2>2, <2>3, OpenKeepsLogs
  <2>5. \A u \in Turns : phase'[u] = IF u = t THEN "running" ELSE phase[u]
    BY <1>1, <2>1 DEF TypeOK
  <2>6. States' = [States EXCEPT ![t] = "running"] /\ States[t] = "new"
    <3>1. State(t)' = "running" /\ State(t) = "new"
      BY <2>3, <2>5 DEF State
    <3>2. \A u \in Turns : u # t => State(u)' = State(u)
      BY <1>2, <2>5
    <3> QED BY <3>1, <3>2 DEF States
  <2>7. Logs' = Logs /\ seen' = [seen EXCEPT ![t] = Logs[c]]
    BY <1>1, <2>1, <2>3, <2>4 DEF Logs
  <2>8. Promise!Read(t)
    BY <2>1, <2>6, <2>7 DEF Promise!Read, Logs, States
  <2> QED BY <2>8 DEF Promise!Next
<1>9. CASE WriteBack(t)
  <2> DEFINE h == Append(seen[t], t)
  <2>1. /\ SetCache(c, Opened(c), h) /\ UNCHANGED <<store, overtaken>>
        /\ phase' = [phase EXCEPT ![t] = "saving"] /\ seen' = seen
        /\ AtHead(TurnScope(t), [op |-> "write", turn |-> t])
    BY <1>9 DEF WriteBack
  <2>2. [op |-> "write", turn |-> t] \in OpsOf(t) /\ [op |-> "write", turn |-> t].op # "save"
    BY DEF OpsOf
  <2>3. phase[t] = "writing"
    BY <1>9, WriteBackKeeps
  <2> HIDE DEF h
  <2>4. Log(c)' = h /\ \A d \in Conversations \ {c} : Log(d)' = Log(d)
    BY <2>1, <2>2, OpenKeepsLogs
  <2>5. \A u \in Turns : phase'[u] = IF u = t THEN "saving" ELSE phase[u]
    BY <1>1, <2>1 DEF TypeOK
  <2>6. States' = [States EXCEPT ![t] = "ended"] /\ States[t] = "running"
    <3>1. State(t)' = "ended" /\ State(t) = "running"
      BY <2>3, <2>5 DEF State
    <3>2. \A u \in Turns : u # t => State(u)' = State(u)
      BY <1>2, <2>5
    <3> QED BY <3>1, <3>2 DEF States
  <2>7. Logs' = [Logs EXCEPT ![c] = h]
    BY <1>1, <2>4 DEF Logs
  <2>8. t \in overtaken \/ h = Append(Logs[c], t)
    <3>1. t \notin overtaken => seen[t] = Log(c)
      BY <2>3 DEF IInv, SeenIsLog
    <3> QED BY <1>1, <3>1 DEF Logs, h
  <2>9. Promise!End(t)
    BY <2>1, <2>6, <2>7, <2>8 DEF Promise!End, Logs, States, h
  <2> QED BY <2>9 DEF Promise!Next
<1> QED BY <1>4, <1>5, <1>6, <1>7, <1>8, <1>9 DEF TurnStep

LEMMA NextSeen ==
  ASSUME IInv, SessionsFit, [Next]_vars
  PROVE  [Promise!Next]_(Promise!pvars)
<1>1. TypeOK
  BY DEF IInv, SavedAfterTurn
<1>2. ASSUME NEW t \in Turns, TurnStep(t) PROVE [Promise!Next]_(Promise!pvars)
  BY <1>2, TurnSeen
<1>3. ASSUME NEW c \in Conversations, RemoveSession(c) PROVE [Promise!Next]_(Promise!pvars)
  <2>1. ScopeOf[c] \in Scopes /\ {c} \in SUBSET ScopeSessions(ScopeOf[c])
    BY TurnsAssumption DEF ScopeSessions
  <2> QED BY <1>1, <1>3, <2>1, ResetSeen DEF RemoveSession
<1>4. ASSUME NEW s \in Scopes, ClearSessions(s) PROVE [Promise!Next]_(Promise!pvars)
  <2>1. ScopeSessions(s) \in SUBSET ScopeSessions(s)
    OBVIOUS
  <2> QED BY <1>1, <1>4, <2>1, ResetSeen DEF ClearSessions
<1>5. ASSUME UNCHANGED <<phase, seen, lru, messages, store, overtaken>> PROVE [Promise!Next]_(Promise!pvars)
  <2>1. \A d \in Conversations : Log(d)' = Log(d)
    BY <1>5 DEF Log, Cached, store
  <2>2. \A t \in Turns : State(t)' = State(t)
    BY <1>5 DEF State
  <2> QED BY <1>5, <2>1, <2>2, Unseen
<1>6. CASE UNCHANGED vars \/ Tick \/ (\E s \in Scopes, o \in HostOps : HostCall(s, o))
           \/ (\E c \in Conversations : GetSession(c))
  BY <1>5, <1>6 DEF vars, cache, Tick, HostCall, GetSession
<1> QED BY <1>2, <1>3, <1>4, <1>6 DEF Next, HostStep

(* Whatever is evicted, expires, is loaded again or cleared for another    *)
(* agent, the conversations behave as the logs of SessionPromise.          *)
THEOREM SessionsKeepPromise ==
  ASSUME SessionsFit
  PROVE  Spec => KeepsPromise
<1>1. Init => Promise!Init
  <2>1. ToSet(<<>>) = {}
    <3>1. DOMAIN <<>> = {}
      OBVIOUS
    <3> QED BY <3>1 DEF ToSet
  <2>2. ASSUME Init PROVE /\ \A c \in Conversations : Log(c) = <<>>
                          /\ \A t \in Turns : State(t) = "new"
    BY <2>1, <2>2, TurnsAssumption DEF Init, Log, Cached, State
  <2> QED BY <2>2 DEF Init, Promise!Init
<1>2. IInv /\ [Next]_vars => [Promise!Next]_(Promise!pvars)
  BY NextSeen
<1> QED BY <1>1, <1>2, Invariance, PTL DEF Spec, Promise!Spec, KeepsPromise
================================================================================
