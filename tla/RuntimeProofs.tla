------------------------------ MODULE RuntimeProofs -----------------------------
(***************************************************************************)
(* Proofs about the runtime of an agent, each component for any instance:  *)
(* what of a sequence is kept and in what order; commands and their        *)
(* processes; the places of the rate limiter; the bounded stores; the      *)
(* checkpoints of runs; tool calls merged from a stream; artifacts, their  *)
(* limits and their pages; the file tools; the spans of tracing; the       *)
(* window of messages and what compression forgets; the loading of skills  *)
(* and their scripts; the format of an answer.                             *)
(***************************************************************************)
EXTENDS ArtifactStore, InMemoryStores, RateLimiter, StreamMerge, BuiltinTools,
  Tracing, CompressPlugin, Skill, OutputFormat,
  FiniteSetTheorems, SequenceTheorems, WellFoundedInduction, TLAPS

--------------------------------------------------------------------------------
(***************************************************************************)
(* Sequences and what is kept of them.                                     *)
(***************************************************************************)

(* A nonempty set of naturals has a least element (Min of the community    *)
(* modules is a CHOOSE).                                                   *)
LEMMA MinOfNaturals ==
  ASSUME NEW T, T \subseteq Nat, T # {}
  PROVE  Min(T) \in T
<1>1. PICK x \in T : \A y \in T : ~ (<<y, x>> \in OpToRel(<, Nat))
  BY WFMin, NatLessThanWellFounded
<1>2. \A y \in T : ~ (y < x)
  BY <1>1 DEF OpToRel
<1>3. \A y \in T : x =< y
  BY <1>2
<1> QED BY <1>3 DEF Min

LEMMA LeastIs == ASSUME NEW T, T \subseteq Nat, T # {} PROVE \E x \in T : \A y \in T : x <= y
<1>1. PICK x \in T : \A y \in T : ~ (<<y, x>> \in OpToRel(<, Nat))
  BY WFMin, NatLessThanWellFounded
<1>2. \A y \in T : ~ (y < x)
  BY <1>1 DEF OpToRel
<1> QED BY <1>2

(* What holds at first and is kept by every step holds at the end.         *)
LEMMA StepsStay ==
  ASSUME NEW N \in Nat, NEW S, NEW f, f[0] \in S,
         \A n \in 1..N : f[n - 1] \in S => f[n] \in S
  PROVE  \A n \in 0..N : f[n] \in S
<1> SUFFICES ASSUME NEW n \in 0..N, f[n] \notin S PROVE FALSE
  OBVIOUS
<1> DEFINE T == {k \in 0..N : f[k] \notin S}
<1>1. T \subseteq Nat /\ T # {}
  OBVIOUS
<1>2. PICK k \in T : \A j \in T : k <= j
  BY <1>1, LeastIs
<1>3. k \in 1..N /\ k - 1 \in 0..N /\ ~(k <= k - 1)
  BY <1>2
<1>4. f[k - 1] \in S
  BY <1>2, <1>3
<1> QED BY <1>2, <1>3, <1>4

(* A function on the naturals up to a bound, defined by its steps.         *)
AreSteps(step, N, S) == step \in [1..N -> [S -> S]]

LEMMA StepsExist ==
  ASSUME NEW N \in Nat, NEW S, NEW a \in S, NEW step, AreSteps(step, N, S)
  PROVE  \E f \in [0..N -> S] : f[0] = a /\ \A n \in 1..N : f[n] = step[n][f[n - 1]]
<1> USE DEF AreSteps
<1> DEFINE Upto(m) == \E f \in [0..m -> S] : f[0] = a /\ \A n \in 1..m : f[n] = step[n][f[n - 1]]
<1> SUFFICES ASSUME ~Upto(N) PROVE FALSE
  OBVIOUS
<1> DEFINE T == {m \in 0..N : ~Upto(m)}
<1>1. T \subseteq Nat /\ T # {}
  OBVIOUS
<1>2. PICK m \in T : \A j \in T : m <= j
  BY <1>1, LeastIs
<1>3. Upto(0)
  <2> DEFINE f == [k \in 0..0 |-> a]
  <2>1. f \in [0..0 -> S] /\ f[0] = a
    OBVIOUS
  <2>2. \A n \in 1..0 : f[n] = step[n][f[n - 1]]
    OBVIOUS
  <2> QED BY <2>1, <2>2
<1> HIDE DEF Upto
<1>4. m \in 1..N /\ m - 1 \in 0..N /\ ~(m <= m - 1)
  BY <1>2, <1>3
<1>5. Upto(m - 1)
  BY <1>2, <1>4
<1> USE DEF Upto
<1>6. PICK f \in [0..(m - 1) -> S] : f[0] = a /\ \A n \in 1..(m - 1) : f[n] = step[n][f[n - 1]]
  BY <1>5
<1> DEFINE g == [k \in 0..m |-> IF k = m THEN step[m][f[m - 1]] ELSE f[k]]
<1>7. step[m][f[m - 1]] \in S
  <2>1. f[m - 1] \in S
    BY <1>4, <1>6
  <2> QED BY <1>4, <2>1
<1>8. \A k \in 0..m : k # m => k \in 0..(m - 1)
  BY <1>4
<1>9. g \in [0..m -> S] /\ g[0] = a
  BY <1>4, <1>6, <1>7, <1>8
<1>10. \A n \in 1..m : g[n] = step[n][g[n - 1]]
  <2> SUFFICES ASSUME NEW n \in 1..m PROVE g[n] = step[n][g[n - 1]]
    OBVIOUS
  <2>1. n - 1 \in 0..(m - 1) /\ n - 1 \in 0..m /\ n - 1 # m /\ n \in 0..m
    BY <1>4
  <2>2. g[n - 1] = f[n - 1]
    BY <2>1
  <2>3. CASE n = m
    BY <2>1, <2>2, <2>3
  <2>4. CASE n # m
    <3>1. n \in 1..(m - 1)
      BY <1>4, <2>4
    <3>2. g[n] = f[n]
      BY <2>1, <2>4
    <3> QED BY <1>6, <2>2, <3>1, <3>2
  <2> QED BY <2>3, <2>4
<1>11. Upto(m)
  BY <1>9, <1>10
<1> QED BY <1>2, <1>11

StepsTo(f, a, step, N, S) ==
  /\ f \in [0..N -> S] /\ f[0] = a
  /\ \A n \in 1..N : f[n] = step[n][f[n - 1]]

(* The same, for uses that need not look at the steps.                     *)
LEMMA SomeStepsTo ==
  ASSUME NEW N \in Nat, NEW S, NEW a \in S, NEW step, AreSteps(step, N, S)
  PROVE  \E f : StepsTo(f, a, step, N, S)
<1>1. PICK f \in [0..N -> S] : f[0] = a /\ \A n \in 1..N : f[n] = step[n][f[n - 1]]
  BY StepsExist
<1>2. StepsTo(f, a, step, N, S)
  BY <1>1 DEF StepsTo
<1> QED BY <1>2

LEMMA FiniteInterval == \A n \in Nat : IsFiniteSet(1..n) /\ Cardinality(1..n) = n
<1>1. ASSUME NEW n \in Nat PROVE IsFiniteSet(1..n) /\ Cardinality(1..n) = n
  BY FS_Interval
<1> QED BY <1>1

(* What holds up to a position holds up to as many positions.              *)
LEMMA PrefixCounts ==
  ASSUME NEW n \in Nat, NEW I \in SUBSET (1..n), \A i \in I : 1..i \subseteq I
  PROVE  Cardinality(I) \in 0..n /\ I = 1..Cardinality(I)
<1> DEFINE T == {p \in 1..(n + 1) : p \notin I}
<1>1. T \subseteq Nat /\ n + 1 \in T
  OBVIOUS
<1>2. PICK p \in T : \A q \in T : p <= q
  BY <1>1, LeastIs
<1>3. I = 1..(p - 1)
  <2>1. \A i \in I : i < p
    <3> SUFFICES ASSUME NEW i \in I, p <= i PROVE FALSE
      OBVIOUS
    <3>1. p \in 1..i
      OBVIOUS
    <3> QED BY <3>1
  <2>2. \A i \in 1..(p - 1) : i \in I
    <3> SUFFICES ASSUME NEW i \in 1..(p - 1), i \notin I PROVE FALSE
      OBVIOUS
    <3>1. i \in T
      OBVIOUS
    <3> QED BY <1>2, <3>1
  <2>3. p \in 1..(n + 1) /\ \A i \in I : i \in 1..n
    OBVIOUS
  <2>4. \A i \in I : i \in 1..(p - 1)
    BY <2>1, <2>3
  <2> QED BY <2>2, <2>4
<1>4. p - 1 \in Nat /\ p - 1 <= n
  OBVIOUS
<1> QED BY <1>3, <1>4, FiniteInterval

LEMMA SeqFacts ==
  ASSUME NEW S, NEW q \in Seq(S)
  PROVE  Len(q) \in Nat /\ DOMAIN q = 1..Len(q) /\ \A i \in 1..Len(q) : q[i] \in S
OBVIOUS
(* Positions each with those up to it: how many there are gives the        *)
(* position a place of its own.                                            *)
IsOrder(I, upTo) ==
  /\ upTo \in [I -> SUBSET I]
  /\ \A i \in I : i \in upTo[i]
  /\ \A i, k \in I : \/ i = k
                     \/ upTo[i] \subseteq upTo[k] /\ k \notin upTo[i]
                     \/ upTo[k] \subseteq upTo[i] /\ i \notin upTo[k]

UpToCounts(I, upTo) == [i \in I |-> Cardinality(upTo[i])]

LEMMA IntervalSize == \A x, y \in Int : x <= y => Cardinality(x..y) = y - x + 1
<1>1. ASSUME NEW x \in Int, NEW y \in Int, x <= y PROVE Cardinality(x..y) = y - x + 1
  BY <1>1, FS_Interval
<1> QED BY <1>1

LEMMA PlacesCount ==
  ASSUME NEW I, IsFiniteSet(I), NEW upTo, IsOrder(I, upTo)
  PROVE  /\ IsFiniteSet(I) /\ Cardinality(I) \in Nat
         /\ \A i \in I : Cardinality(upTo[i]) \in 1..Cardinality(I)
         /\ \A i, k \in I : Cardinality(upTo[i]) = Cardinality(upTo[k]) => i = k
         /\ \A m \in 1..Cardinality(I) : \E i \in I : Cardinality(upTo[i]) = m
<1>1. IsFiniteSet(I) /\ Cardinality(I) \in Nat
  BY FS_CardinalityType
<1>2. \A i \in I : IsFiniteSet(upTo[i]) /\ Cardinality(upTo[i]) \in 1..Cardinality(I)
  <2> SUFFICES ASSUME NEW i \in I
               PROVE  IsFiniteSet(upTo[i]) /\ Cardinality(upTo[i]) \in 1..Cardinality(I)
    OBVIOUS
  <2>1. i \in upTo[i] /\ upTo[i] \in SUBSET I
    BY DEF IsOrder
  <2>2. IsFiniteSet(upTo[i]) /\ Cardinality(upTo[i]) <= Cardinality(I)
    BY <1>1, <2>1, FS_Subset
  <2>3. Cardinality(upTo[i]) \in Nat /\ Cardinality(upTo[i]) # 0
    BY <2>1, <2>2, FS_CardinalityType, FS_EmptySet
  <2> QED BY <1>1, <2>2, <2>3
<1>3. UpToCounts(I, upTo) \in [I -> 1..Cardinality(I)]
  BY <1>2 DEF UpToCounts
<1>4. ASSUME NEW A, NEW B, IsFiniteSet(B), A \subseteq B, NEW k \in B, k \notin A
      PROVE  Cardinality(A) # Cardinality(B)
  BY <1>4, FS_Subset
<1>5. \A i, k \in I : UpToCounts(I, upTo)[i] = UpToCounts(I, upTo)[k] => i = k
  <2> SUFFICES ASSUME NEW i \in I, NEW k \in I, i # k
               PROVE  Cardinality(upTo[i]) # Cardinality(upTo[k])
    BY DEF UpToCounts
  <2>1. i \in upTo[i] /\ k \in upTo[k]
    BY DEF IsOrder
  <2>2. CASE upTo[i] \subseteq upTo[k] /\ k \notin upTo[i]
    BY <1>2, <1>4, <2>1, <2>2
  <2>3. CASE upTo[k] \subseteq upTo[i] /\ i \notin upTo[k]
    BY <1>2, <1>4, <2>1, <2>3
  <2> QED BY <2>2, <2>3 DEF IsOrder
<1>6. UpToCounts(I, upTo) \in Injection(I, 1..Cardinality(I))
  BY <1>3, <1>5 DEF Injection, IsInjective
<1>7. IsFiniteSet(1..Cardinality(I)) /\ Cardinality(1..Cardinality(I)) = Cardinality(I)
  BY <1>1, FS_Interval
<1>8. UpToCounts(I, upTo) \in Surjection(I, 1..Cardinality(I))
  BY <1>6, <1>7, FS_Injection
<1>9. \A m \in 1..Cardinality(I) : \E i \in I : UpToCounts(I, upTo)[i] = m
  BY <1>8 DEF Surjection
<1> QED BY <1>1, <1>2, <1>5, <1>9 DEF UpToCounts

(* What is kept of a sequence: some of its positions, in order.            *)
KeepsAt(kept, q, I, at) ==
  /\ at \in [1..Len(kept) -> I]
  /\ \A k \in 1..Len(kept) : kept[k] = q[at[k]]
  /\ \A k, l \in 1..Len(kept) : k < l => at[k] < at[l]
  /\ \A i \in I : \E k \in 1..Len(kept) : at[k] = i

(* The order of numbers is one.                                            *)
LEMMA NumbersAreOrdered ==
  ASSUME NEW I, \A i \in I : i \in Int, NEW upTo, upTo = [i \in I |-> {j \in I : j <= i}]
  PROVE  IsOrder(I, upTo)
<1>1. upTo \in [I -> SUBSET I] /\ \A i \in I : \A m \in I : m \in upTo[i] <=> m <= i
  OBVIOUS
<1>2. \A i, k \in I : i < k => upTo[i] \subseteq upTo[k] /\ k \notin upTo[i]
  <2> SUFFICES ASSUME NEW i \in I, NEW k \in I, i < k PROVE upTo[i] \subseteq upTo[k] /\ k \notin upTo[i]
    OBVIOUS
  <2>1. ASSUME NEW m \in upTo[i] PROVE m \in upTo[k]
    <3>1. m \in I /\ m <= i
      BY <1>1, <2>1
    <3>2. m \in Int /\ i \in Int /\ k \in Int
      BY <3>1
    <3> QED BY <1>1, <3>1, <3>2
  <2>2. ~(k <= i)
    <3>1. i \in Int /\ k \in Int
      OBVIOUS
    <3> QED BY <3>1
  <2> QED BY <1>1, <2>1, <2>2
<1>3. \A i, k \in I : i = k \/ i < k \/ k < i
  OBVIOUS
<1>4. \A i \in I : i \in upTo[i]
  BY <1>1
<1> QED BY <1>1, <1>2, <1>3, <1>4 DEF IsOrder

LEMMA KeepingKeeps ==
  ASSUME NEW S, NEW q \in Seq(S), NEW I \in SUBSET DOMAIN q
  PROVE  /\ Keeping(q, I) \in Seq(S) /\ Len(Keeping(q, I)) = Cardinality(I)
         /\ IsFiniteSet(I) /\ Cardinality(I) \in Nat /\ Cardinality(I) <= Len(q)
         /\ \E at : KeepsAt(Keeping(q, I), q, I, at)
<1>1. Len(q) \in Nat /\ DOMAIN q = 1..Len(q) /\ I \in SUBSET (1..Len(q)) /\ \A i \in I : q[i] \in S /\ i \in Int
  OBVIOUS
<1>2. IsFiniteSet(I) /\ Cardinality(I) \in Nat /\ Cardinality(I) <= Len(q)
  <2>1. IsFiniteSet(1..Len(q)) /\ Cardinality(1..Len(q)) = Len(q)
    BY <1>1, FiniteInterval
  <2>2. IsFiniteSet(I) /\ Cardinality(I) <= Len(q)
    BY <1>1, <2>1, FS_Subset
  <2> QED BY <2>2, FS_CardinalityType
<1>3. PICK upTo : upTo = [i \in I |-> {j \in I : j <= i}]
  OBVIOUS
<1>4. IsOrder(I, upTo)
  BY <1>1, <1>3, NumbersAreOrdered
<1>5. /\ \A i \in I : Cardinality(upTo[i]) \in 1..Cardinality(I)
      /\ \A i, k \in I : Cardinality(upTo[i]) = Cardinality(upTo[k]) => i = k
      /\ \A m \in 1..Cardinality(I) : \E i \in I : Cardinality(upTo[i]) = m
  BY <1>2, <1>4, PlacesCount
<1>6. PICK at : at = [k \in 1..Cardinality(I) |-> CHOOSE i \in I : Cardinality({j \in I : j <= i}) = k]
  OBVIOUS
<1>7. \A i \in I : Cardinality(upTo[i]) = Cardinality({j \in I : j <= i})
  BY <1>3
<1>8. ASSUME NEW k \in 1..Cardinality(I) PROVE at[k] \in I /\ Cardinality(upTo[at[k]]) = k
  <2>1. \E i \in I : Cardinality({j \in I : j <= i}) = k
    BY <1>5, <1>7
  <2>2. at[k] = CHOOSE i \in I : Cardinality({j \in I : j <= i}) = k
    BY <1>6
  <2>3. at[k] \in I /\ Cardinality({j \in I : j <= at[k]}) = k
    BY <2>1, <2>2
  <2> QED BY <1>7, <2>3
<1>9. at \in [1..Cardinality(I) -> I]
  BY <1>6, <1>8
<1> DEFINE kept == Keeping(q, I)
<1>10. kept = [k \in 1..Cardinality(I) |-> q[at[k]]]
  BY <1>6 DEF Keeping
<1> HIDE DEF kept
<1>11. kept \in [1..Cardinality(I) -> S]
  BY <1>1, <1>8, <1>10
<1>12. kept \in Seq(S) /\ Len(kept) = Cardinality(I)
  BY <1>2, <1>11
<1>13. \A k \in 1..Cardinality(I) : kept[k] = q[at[k]]
  BY <1>10
<1>14. ASSUME NEW k \in 1..Cardinality(I), NEW l \in 1..Cardinality(I), k < l PROVE at[k] < at[l]
  <2>1. at[k] \in I /\ at[l] \in I /\ Cardinality(upTo[at[k]]) = k /\ Cardinality(upTo[at[l]]) = l
    BY <1>8
  <2>2. at[k] \in Int /\ at[l] \in Int /\ k \in Int /\ l \in Int
    BY <1>1, <1>2, <2>1
  <2>3. ASSUME at[l] <= at[k] PROVE FALSE
    <3>1. upTo[at[l]] \in SUBSET upTo[at[k]]
      <4>1. CASE at[l] = at[k]
        BY <4>1
      <4>2. CASE at[l] < at[k]
        <5>1. upTo[at[k]] = {j \in I : j <= at[k]} /\ upTo[at[l]] = {j \in I : j <= at[l]}
          BY <1>3, <2>1
        <5>2. \A j \in I : j <= at[l] => j <= at[k]
          BY <1>1, <2>2, <4>2
        <5> QED BY <5>1, <5>2
      <4> QED BY <2>2, <2>3, <4>1, <4>2
    <3>2. upTo[at[k]] \in SUBSET I
      BY <1>3, <2>1
    <3>3. IsFiniteSet(upTo[at[k]])
      BY <1>2, <3>2, FS_Subset
    <3>4. Cardinality(upTo[at[l]]) <= Cardinality(upTo[at[k]])
      BY <3>1, <3>3, FS_Subset
    <3> QED BY <1>14, <2>1, <2>2, <3>4
  <2> QED BY <2>2, <2>3
<1>15. \A i \in I : \E k \in 1..Cardinality(I) : at[k] = i
  <2> SUFFICES ASSUME NEW i \in I PROVE \E k \in 1..Cardinality(I) : at[k] = i
    OBVIOUS
  <2>1. Cardinality(upTo[i]) \in 1..Cardinality(I)
    BY <1>5
  <2>2. at[Cardinality(upTo[i])] = i
    BY <1>5, <1>8, <2>1
  <2> QED BY <2>1, <2>2
<1>16. KeepsAt(kept, q, I, at)
  BY <1>9, <1>12, <1>13, <1>14, <1>15 DEF KeepsAt
<1> QED BY <1>2, <1>12, <1>16 DEF kept

LEMMA KeepingSet ==
  ASSUME NEW S, NEW q \in Seq(S), NEW I \in SUBSET DOMAIN q
  PROVE  ToSet(Keeping(q, I)) = {q[i] : i \in I}
<1>1. PICK kept : kept = Keeping(q, I)
  OBVIOUS
<1>2. PICK at : KeepsAt(kept, q, I, at)
  BY <1>1, KeepingKeeps
<1>3. kept \in Seq(S)
  BY <1>1, KeepingKeeps
<1>4. DOMAIN kept = 1..Len(kept)
  BY <1>3
<1>5. \A k \in 1..Len(kept) : at[k] \in I /\ kept[k] = q[at[k]]
  BY <1>2 DEF KeepsAt
<1>6. \A i \in I : \E k \in 1..Len(kept) : kept[k] = q[i]
  <2> SUFFICES ASSUME NEW i \in I PROVE \E k \in 1..Len(kept) : kept[k] = q[i]
    OBVIOUS
  <2>1. PICK k \in 1..Len(kept) : at[k] = i
    BY <1>2 DEF KeepsAt
  <2> QED BY <1>5, <2>1
<1>7. ToSet(kept) = {kept[k] : k \in 1..Len(kept)}
  BY <1>4 DEF ToSet
<1>8. ToSet(kept) = {q[i] : i \in I}
  BY <1>5, <1>6, <1>7
<1> QED BY <1>1, <1>8

--------------------------------------------------------------------------------
(* What is kept of a sequence, position by position: its place is how many *)
(* are kept up to it.                                                      *)
Rank(I, i) == Cardinality({j \in I : j <= i})

LEMMA KeepingRank ==
  ASSUME NEW S, NEW q \in Seq(S), NEW I \in SUBSET DOMAIN q
  PROVE  /\ IsFiniteSet(I) /\ Cardinality(I) \in Nat
         /\ \A i \in I : Rank(I, i) \in 1..Cardinality(I) /\ Keeping(q, I)[Rank(I, i)] = q[i]
         /\ \A m \in 1..Cardinality(I) : \E i \in I : Rank(I, i) = m
<1>1. /\ IsFiniteSet(I) /\ Cardinality(I) \in Nat
      /\ Len(q) \in Nat /\ DOMAIN q = 1..Len(q)
  BY KeepingKeeps
<1>2. PICK upTo : upTo = [i \in I |-> {j \in I : j <= i}]
  OBVIOUS
<1>3. \A i \in I : i \in Int
  BY <1>1
<1>4. IsOrder(I, upTo)
  BY <1>2, <1>3, NumbersAreOrdered
<1>5. /\ \A i \in I : Cardinality(upTo[i]) \in 1..Cardinality(I)
      /\ \A i, k \in I : Cardinality(upTo[i]) = Cardinality(upTo[k]) => i = k
      /\ \A m \in 1..Cardinality(I) : \E i \in I : Cardinality(upTo[i]) = m
  BY <1>1, <1>4, PlacesCount
<1>6. \A i \in I : Rank(I, i) = Cardinality(upTo[i])
  BY <1>2 DEF Rank
<1>7. \A i \in I : Rank(I, i) \in 1..Cardinality(I)
  BY <1>5, <1>6
<1>8. \A i, k \in I : Rank(I, i) = Rank(I, k) => i = k
  BY <1>5, <1>6
<1>9. \A m \in 1..Cardinality(I) : \E i \in I : Rank(I, i) = m
  BY <1>5, <1>6
<1>10. Keeping(q, I) = [k \in 1..Cardinality(I) |-> q[CHOOSE i \in I : Rank(I, i) = k]]
  BY DEF Keeping, Rank
<1>11. ASSUME NEW i \in I PROVE Keeping(q, I)[Rank(I, i)] = q[i]
  <2>1. Rank(I, i) \in 1..Cardinality(I)
    BY <1>7
  <2>2. (CHOOSE l \in I : Rank(I, l) = Rank(I, i)) = i
    <3>1. \E l \in I : Rank(I, l) = Rank(I, i)
      OBVIOUS
    <3>2. PICK c : c = CHOOSE l \in I : Rank(I, l) = Rank(I, i)
      OBVIOUS
    <3>3. c \in I /\ Rank(I, c) = Rank(I, i)
      BY <3>1, <3>2
    <3> QED BY <1>8, <3>2, <3>3
  <2> QED BY <1>10, <2>1, <2>2
<1> QED BY <1>1, <1>7, <1>9, <1>11

LEMMA DisjointCounts ==
  ASSUME NEW A, IsFiniteSet(A), NEW B, IsFiniteSet(B), A \cap B = {}
  PROVE  /\ IsFiniteSet(A \cup B) /\ Cardinality(A \cup B) = Cardinality(A) + Cardinality(B)
         /\ Cardinality(A) \in Nat /\ Cardinality(B) \in Nat
<1>1. Cardinality(A) \in Nat /\ Cardinality(B) \in Nat /\ Cardinality({}) = 0
  BY FS_CardinalityType, FS_EmptySet
<1>2. /\ IsFiniteSet(A \cup B)
      /\ Cardinality(A \cup B) = Cardinality(A) + Cardinality(B) - Cardinality(A \cap B)
  BY FS_Union
<1>3. Cardinality(A \cap B) = 0
  BY <1>1
<1>4. Cardinality(A \cup B) = Cardinality(A) + Cardinality(B)
  BY <1>1, <1>2, <1>3
<1> QED BY <1>1, <1>2, <1>4

(* As many stay when all are moved on.                                     *)
LEMMA MovedCounts ==
  ASSUME NEW k \in Nat, NEW J, IsFiniteSet(J), \A j \in J : j \in Nat
  PROVE  IsFiniteSet({k + j : j \in J}) /\ Cardinality({k + j : j \in J}) = Cardinality(J)
<1>1. PICK T, f : T = {k + j : j \in J} /\ f = [j \in J |-> k + j]
  OBVIOUS
<1>2. f \in [J -> T] /\ \A t \in T : \E j \in J : f[j] = t
  BY <1>1
<1>3. \A i, j \in J : f[i] = f[j] => i = j
  BY <1>1
<1>4. f \in Bijection(J, T)
  BY <1>2, <1>3 DEF Bijection, Injection, Surjection, IsInjective
<1>5. ExistsBijection(J, T)
  BY <1>4 DEF ExistsBijection
<1> QED BY <1>1, <1>5, FS_Bijection

(* The end of a sequence.                                                  *)
Ends(d, u) ==
  \E k \in Nat : Len(u) = k + Len(d) /\ \A i \in 1..Len(d) : d[i] = u[k + i]

LEMMA OmitFacts ==
  ASSUME NEW S, NEW q \in Seq(S), NEW X
  PROVE  /\ Omitting(q, X) \in Seq(S) /\ Len(Omitting(q, X)) <= Len(q)
         /\ ToSet(Omitting(q, X)) = ToSet(q) \ X
         /\ IsInjective(q) => IsInjective(Omitting(q, X))
<1>1. PICK I : I = {i \in DOMAIN q : q[i] \notin X}
  OBVIOUS
<1>2. PICK o : o = Omitting(q, X)
  OBVIOUS
<1>3. o = Keeping(q, I) /\ I \in SUBSET DOMAIN q
  BY <1>1, <1>2 DEF Omitting
<1>4. /\ o \in Seq(S) /\ Len(o) = Cardinality(I) /\ Cardinality(I) <= Len(q)
      /\ \E at : KeepsAt(o, q, I, at)
  BY <1>3, KeepingKeeps
<1>5. ToSet(o) = {q[i] : i \in I}
  BY <1>3, KeepingSet
<1>6. ToSet(q) = {q[i] : i \in DOMAIN q}
  BY DEF ToSet
<1>7. ToSet(o) = ToSet(q) \ X
  BY <1>1, <1>5, <1>6
<1>8. ASSUME IsInjective(q) PROVE IsInjective(o)
  <2>1. PICK at : KeepsAt(o, q, I, at)
    BY <1>4
  <2>2. DOMAIN o = 1..Len(o) /\ Len(o) \in Nat
    BY <1>4
  <2>3. \A k \in DOMAIN o : o[k] = q[at[k]] /\ at[k] \in DOMAIN q
    BY <1>3, <2>1, <2>2 DEF KeepsAt
  <2>4. DOMAIN q = 1..Len(q)
    OBVIOUS
  <2>5. \A k, l \in DOMAIN o : at[k] = at[l] => k = l
    <3> SUFFICES ASSUME NEW k \in DOMAIN o, NEW l \in DOMAIN o, at[k] = at[l], k # l PROVE FALSE
      OBVIOUS
    <3>1. k < l \/ l < k
      BY <2>2
    <3>2. at[k] < at[l] \/ at[l] < at[k]
      BY <2>1, <2>2, <3>1 DEF KeepsAt
    <3>3. at[k] \in Int /\ at[l] \in Int
      BY <2>3, <2>4
    <3> QED BY <3>2, <3>3
  <2> QED BY <1>8, <2>3, <2>5 DEF IsInjective
<1> QED BY <1>2, <1>4, <1>7, <1>8

LEMMA OmitEnds ==
  ASSUME NEW S, NEW d \in Seq(S), NEW u \in Seq(S), Ends(d, u), NEW X
  PROVE  Ends(Omitting(d, X), Omitting(u, X))
<1>1. PICK m, n : m = Len(d) /\ n = Len(u)
  OBVIOUS
<1>2. m \in Nat /\ n \in Nat /\ DOMAIN d = 1..m /\ DOMAIN u = 1..n
  BY <1>1
<1>3. PICK k \in Nat : n = k + m /\ \A i \in 1..m : d[i] = u[k + i]
  BY <1>1 DEF Ends
<1>4. PICK I, J, P : /\ I = {i \in 1..n : u[i] \notin X} /\ J = {i \in 1..m : d[i] \notin X}
                     /\ P = {i \in 1..k : u[i] \notin X}
  OBVIOUS
<1>5. /\ Omitting(d, X) = Keeping(d, J) /\ J \in SUBSET DOMAIN d
      /\ Omitting(u, X) = Keeping(u, I) /\ I \in SUBSET DOMAIN u
  BY <1>2, <1>4 DEF Omitting
<1>6. PICK e, v : e = Omitting(d, X) /\ v = Omitting(u, X)
  OBVIOUS
<1>7. /\ e \in Seq(S) /\ Len(e) = Cardinality(J)
      /\ v \in Seq(S) /\ Len(v) = Cardinality(I)
  BY <1>5, <1>6, KeepingKeeps
<1>8. /\ IsFiniteSet(J) /\ Cardinality(J) \in Nat
      /\ \A i \in J : Rank(J, i) \in 1..Cardinality(J) /\ e[Rank(J, i)] = d[i]
      /\ \A l \in 1..Cardinality(J) : \E i \in J : Rank(J, i) = l
  BY <1>5, <1>6, KeepingRank
<1>9. /\ IsFiniteSet(I) /\ Cardinality(I) \in Nat
      /\ \A i \in I : Rank(I, i) \in 1..Cardinality(I) /\ v[Rank(I, i)] = u[i]
  BY <1>5, <1>6, KeepingRank
<1>10. IsFiniteSet(P) /\ Cardinality(P) \in Nat
  <2>1. P \in SUBSET I
    BY <1>2, <1>3, <1>4
  <2> QED BY <1>9, <2>1, FS_Subset, FS_CardinalityType
<1>11. ASSUME NEW A \in SUBSET J
       PROVE  Cardinality(P \cup {k + j : j \in A}) = Cardinality(P) + Cardinality(A)
  <2>1. IsFiniteSet(A) /\ Cardinality(A) \in Nat
    BY <1>8, FS_Subset, FS_CardinalityType
  <2>2. \A j \in A : j \in Nat /\ j >= 1
    BY <1>2, <1>4
  <2>3. IsFiniteSet({k + j : j \in A}) /\ Cardinality({k + j : j \in A}) = Cardinality(A)
    BY <2>1, <2>2, MovedCounts
  <2>4. P \cap {k + j : j \in A} = {}
    BY <1>4, <2>2
  <2>5. PICK M : M = {k + j : j \in A}
    OBVIOUS
  <2> QED BY <1>10, <2>1, <2>3, <2>4, <2>5, DisjointCounts
<1>12. I = P \cup {k + j : j \in J}
  <2>1. \A i \in 1..n : i \in 1..k \/ (i - k \in 1..m /\ i = k + (i - k))
    BY <1>2, <1>3
  <2>2. \A j \in 1..m : k + j \in 1..n
    BY <1>2, <1>3
  <2>3. \A i \in 1..k : i \in 1..n
    BY <1>2, <1>3
  <2>4. \A i \in I : i \in P \/ \E j \in J : i = k + j
    BY <1>3, <1>4, <2>1
  <2>5. \A j \in J : k + j \in I
    BY <1>3, <1>4, <2>2
  <2> QED BY <1>4, <2>3, <2>4, <2>5
<1>13. ASSUME NEW j \in J PROVE k + j \in I /\ Rank(I, k + j) = Cardinality(P) + Rank(J, j)
  <2>1. k + j \in I
    BY <1>12
  <2>2. PICK A : A = {i \in J : i <= j}
    OBVIOUS
  <2>3. \A i \in J : i \in Int
    BY <1>2, <1>4
  <2>4. {i \in I : i <= k + j} = P \cup {k + i : i \in A}
    <3>1. \A i \in P : i <= k + j
      BY <1>4, <2>3, <1>2
    <3>2. \A i \in J : k + i <= k + j <=> i <= j
      BY <2>3
    <3> QED BY <1>12, <2>2, <3>1, <3>2
  <2>5. Cardinality({i \in I : i <= k + j}) = Cardinality(P) + Cardinality(A)
    BY <1>11, <2>2, <2>4
  <2> QED BY <2>1, <2>2, <2>5 DEF Rank
<1>14. Len(v) = Cardinality(P) + Len(e)
  BY <1>7, <1>11, <1>12
<1>15. ASSUME NEW l \in 1..Len(e) PROVE e[l] = v[Cardinality(P) + l]
  <2>1. PICK j \in J : Rank(J, j) = l
    BY <1>7, <1>8
  <2>2. e[l] = d[j] /\ v[Cardinality(P) + l] = u[k + j]
    BY <1>8, <1>9, <1>13, <2>1
  <2>3. d[j] = u[k + j]
    BY <1>3, <1>4
  <2> QED BY <2>2, <2>3
<1>16. Ends(e, v)
  BY <1>10, <1>14, <1>15 DEF Ends
<1> QED BY <1>6, <1>16

--------------------------------------------------------------------------------
(***************************************************************************)
(* The commands of the built-in tools.                                     *)
(***************************************************************************)

(* A process that makes the venv is waited for or was given up by its      *)
(* call; no command begins or returns beside a process of its own, and a   *)
(* script is there only for a command that is to read it.                  *)
CommandInPlace(c) ==
  /\ command[c] = "new" => process[c] = "none"
  /\ command[c] \in {"new", "spawning", "logging", "done", "error"} => process[c] # "alive"
  /\ c \in makesVenv => process[c] = "alive" /\ command[c] \in {"preparing", "cancelled"}
  /\ c \in scripts => command[c] \in {"running", "logging"} /\ toolOf[c] = "python_exec"

(* Where a call is says what it may have left: process, venv or script.    *)
SandboxIInv == SandboxTypeOK /\ \A c \in Commands : CommandInPlace(c)

LEMMA SandboxInitHolds == SandboxInit => SandboxIInv
BY DEF SandboxInit, SandboxIInv, SandboxTypeOK, CommandInPlace, CommandEnded

(* Only what belongs to a call changes with its step.                      *)
LEMMA CommandStepHolds ==
  ASSUME SandboxIInv, NEW c \in Commands,
         \/ CommandBegins(c) \/ VenvAdvances(c) \/ VenvFails(c) \/ ProcessForks(c)
         \/ ProcessExits(c) \/ StrayEnds(c) \/ CommandCancelled(c) \/ CommandStep(c)
  PROVE  SandboxIInv'
<1> USE DEF SandboxIInv, SandboxTypeOK, CommandInPlace, CommandEnded
<1>0. SandboxTypeOK /\ \A d \in Commands : CommandInPlace(d)
  OBVIOUS
<1>1. CASE CommandBegins(c)
  <2>1. PICK t \in CommandTools :
          LET create == t # "shell" /\ venv = "absent" IN
          /\ toolOf' = [toolOf EXCEPT ![c] = t]
          /\ command' = [command EXCEPT ![c] = IF create THEN "preparing" ELSE "spawning"]
          /\ process' = IF create THEN [process EXCEPT ![c] = "alive"] ELSE process
          /\ makesVenv' = makesVenv \cup {d \in {c} : create}
    BY <1>1 DEF CommandBegins
  <2> QED BY <1>1, <2>1 DEF CommandBegins
<1>2. CASE VenvAdvances(c)
  BY <1>2 DEF VenvAdvances
<1>3. CASE VenvFails(c)
  BY <1>3 DEF VenvFails
<1>4. CASE ProcessForks(c)
  BY <1>4 DEF ProcessForks
<1>5. CASE ProcessExits(c)
  BY <1>5 DEF ProcessExits
<1>6. CASE StrayEnds(c)
  BY <1>6 DEF StrayEnds
<1>7. CASE CommandCancelled(c)
  BY <1>7 DEF CommandCancelled
<1>8. CASE VenvMade(c)
  BY <1>8 DEF VenvMade
<1>9. CASE CommandSpawns(c)
  BY <1>9 DEF CommandSpawns, PolicyRefuses
<1>10. CASE CommandCommunicates(c)
  BY <1>10 DEF CommandCommunicates
<1>11. CASE CommandTimesOut(c)
  BY <1>11 DEF CommandTimesOut
<1>12. CASE CommandReturns(c)
  BY <1>12 DEF CommandReturns
<1> QED BY <1>1, <1>2, <1>3, <1>4, <1>5, <1>6, <1>7, <1>8, <1>9, <1>10, <1>11, <1>12 DEF CommandStep

LEMMA SandboxStepHolds == SandboxIInv /\ [SandboxNext]_sandboxVars => SandboxIInv'
<1> SUFFICES ASSUME SandboxIInv, [SandboxNext]_sandboxVars PROVE SandboxIInv'
  OBVIOUS
<1>1. CASE UNCHANGED sandboxVars
  BY <1>1 DEF sandboxVars, SandboxIInv, SandboxTypeOK, CommandInPlace
<1>2. CASE SandboxNext
  BY <1>2, CommandStepHolds DEF SandboxNext
<1> QED BY <1>1, <1>2

LEMMA SandboxImplies == SandboxIInv => SandboxTypeOK /\ CommandsLeaveNothing
BY DEF SandboxIInv, CommandInPlace, CommandsLeaveNothing, CommandEnded

(* However commands time out, are refused, fork and are cancelled, one     *)
(* that ended leaves no process of its own running, unless it was          *)
(* cancelled, and no script.                                               *)
THEOREM CommandsStayClean == SandboxSpec => [](SandboxTypeOK /\ CommandsLeaveNothing)
<1> QED BY SandboxImplies, SandboxInitHolds, SandboxStepHolds, PTL DEF SandboxSpec

--------------------------------------------------------------------------------
(***************************************************************************)
(* The rate limiter.                                                       *)
(***************************************************************************)

(* Every place given in the last minute is among those counted: for each   *)
(* moment of it, as many calls got theirs since as there are timestamps.   *)
PlacedSince(lo) == {c \in RateCalls : placedAt[c] >= lo}
StampsSince(lo) == {n \in 1..Len(timestamps) : timestamps[n] >= lo}
StampsTell ==
  \A lo \in Nat : lo + Window > rateClock => Cardinality(PlacedSince(lo)) <= Cardinality(StampsSince(lo))

CallPhases == {"new", "asking", "placed", "running", "done", "failed"}
RateTyped ==
  /\ callPhase \in [RateCalls -> CallPhases]
  /\ rateClock \in 0..MaxRateClock
  /\ timestamps \in Seq(0..MaxRateClock) /\ Len(timestamps) <= Rpm
  /\ placedAt \in [RateCalls -> -1..MaxRateClock]
  /\ \A c \in RateCalls : placedAt[c] <= rateClock

(* A call that has a place left its time stamp, unless the window is over. *)
RateIInv == RateTyped /\ StampsTell /\ PlacesPerWindow

LEMMA RateInitHolds == RateInit => RateIInv
<1> SUFFICES ASSUME RateInit PROVE RateIInv
  OBVIOUS
<1> USE DEF RateInit
<1>1. RateTyped
  BY RateAssumption DEF RateTyped, CallPhases
<1>2. \A lo \in Nat : PlacedSince(lo) = {} /\ StampsSince(lo) = {}
  BY DEF PlacedSince, StampsSince
<1>3. StampsTell
  <2>1. Cardinality({}) = 0
    BY FS_EmptySet
  <2>2. ASSUME NEW lo \in Nat PROVE Cardinality(PlacedSince(lo)) <= Cardinality(StampsSince(lo))
    <3>1. Cardinality(PlacedSince(lo)) = 0 /\ Cardinality(StampsSince(lo)) = 0
      BY <1>2, <2>1
    <3> QED BY <3>1
  <2> QED BY <2>2 DEF StampsTell
<1>4. \A t \in 0..MaxRateClock : {c \in RateCalls : placedAt[c] \in t..(t + Window - 1)} = {}
  BY RateAssumption
<1>5. PlacesPerWindow
  BY <1>4, FS_EmptySet, RateAssumption DEF PlacesPerWindow
<1> QED BY <1>1, <1>3, <1>5 DEF RateIInv

(* The places counted are those of the last minute, and what is not        *)
(* counted any more is older.                                              *)
LEMMA CountedFacts ==
  ASSUME RateTyped
  PROVE  /\ Counted \in Seq(0..MaxRateClock) /\ Len(Counted) <= Len(timestamps)
         /\ \A lo \in Nat : lo + Window > rateClock =>
              Cardinality({n \in 1..Len(Counted) : Counted[n] >= lo}) = Cardinality(StampsSince(lo))
<1> DEFINE len == Len(timestamps)
           popped == Popped(Window)
           k == Cardinality(popped)
<1>1. len \in Nat /\ DOMAIN timestamps = 1..len /\ \A n \in 1..len : timestamps[n] \in 0..MaxRateClock
  <2>1. timestamps \in Seq(0..MaxRateClock)
    BY DEF RateTyped
  <2> QED BY <2>1, SeqFacts
<1>2. rateClock \in Nat /\ Window \in Nat /\ MaxRateClock \in Nat
  BY RateAssumption DEF RateTyped
<1>3. \A n \in popped : n \in 1..len /\ \A m \in 1..n : rateClock - timestamps[m] >= Window
  BY <1>1 DEF Popped
<1>4. \A n \in popped : 1..n \subseteq popped
  BY <1>1 DEF Popped
<1>5. k \in 0..len /\ popped = 1..k
  BY <1>1, <1>3, <1>4, PrefixCounts
<1> HIDE DEF k, popped
<1>6. /\ Counted \in Seq(0..MaxRateClock) /\ Len(Counted) = len - k
      /\ \A n \in 1..(len - k) : Counted[n] = timestamps[k + n]
  <2>1. Counted = SubSeq(timestamps, k + 1, len)
    BY DEF Counted, CountedFrom, k, popped
  <2>2. timestamps \in Seq(0..MaxRateClock)
    BY DEF RateTyped
  <2>3. k \in Int /\ len \in Int /\ 0 <= k /\ k <= len
    BY <1>1, <1>5
  <2>4. CASE k = len
    <3>1. Counted = <<>>
      BY <2>1, <2>2, <2>3, <2>4
    <3> QED BY <2>3, <2>4, <3>1
  <2>5. CASE k < len
    <3>1. k + 1 \in 1..(len + 1) /\ len \in ((k + 1) - 1)..Len(timestamps)
      BY <1>1, <2>3, <2>5
    <3>3. k + 1 \in Int /\ len \in Int /\ \A i \in (k + 1)..len : timestamps[i] \in 0..MaxRateClock
      BY <1>1, <2>3
    <3> HIDE DEF len
    <3>2. Counted \in Seq(0..MaxRateClock) /\ Len(Counted) = len - (k + 1) + 1
          /\ \A i \in 1..(len - (k + 1) + 1) : Counted[i] = timestamps[k + 1 + i - 1]
      BY <2>1, <2>3, <2>5, <3>1, <3>3, SubSeqProperties
    <3> QED BY <2>3, <3>2
  <2> QED BY <2>3, <2>4, <2>5
<1>7. ASSUME NEW lo \in Nat, lo + Window > rateClock
      PROVE  Cardinality({n \in 1..Len(Counted) : Counted[n] >= lo}) = Cardinality(StampsSince(lo))
  <2> DEFINE C == {n \in 1..(len - k) : Counted[n] >= lo}
  <2>1. \A n \in StampsSince(lo) : n \in 1..len /\ n \notin 1..k
    <3> SUFFICES ASSUME NEW n \in StampsSince(lo), n \in 1..k PROVE FALSE
      BY <1>1 DEF StampsSince
    <3>1. n \in 1..len /\ timestamps[n] >= lo /\ timestamps[n] \in Int
      BY <1>1, <1>2 DEF StampsSince
    <3>2. rateClock - timestamps[n] >= Window
      BY <1>3, <1>5, <3>1
    <3> QED BY <1>2, <1>7, <3>1, <3>2
  <2>2. IsFiniteSet(C)
    <3>1. len - k \in Nat
      BY <1>1, <1>5
    <3> QED BY <3>1, FiniteInterval, FS_Subset
  <2> DEFINE f == [n \in C |-> n + k]
  <2>3. f \in Bijection(C, StampsSince(lo))
    <3>1. \A n \in C : n + k \in StampsSince(lo)
      BY <1>1, <1>5, <1>6 DEF StampsSince
    <3>2. \A n \in StampsSince(lo) : n - k \in C /\ (n - k) + k = n
      <4> SUFFICES ASSUME NEW n \in StampsSince(lo) PROVE n - k \in C /\ (n - k) + k = n
        OBVIOUS
      <4>1. n \in 1..len /\ n \notin 1..k /\ timestamps[n] >= lo
        BY <2>1 DEF StampsSince
      <4>2. n - k \in 1..(len - k) /\ k + (n - k) = n
        BY <1>1, <1>5, <4>1
      <4>3. Counted[n - k] = timestamps[n]
        BY <1>6, <4>2
      <4>4. (n - k) + k = n
        BY <1>1, <1>5, <4>1
      <4> QED BY <4>1, <4>2, <4>3, <4>4
    <3>3. \A m, n \in C : m + k = n + k => m = n
      BY <1>1, <1>5
    <3> QED BY <3>1, <3>2, <3>3 DEF Bijection, Injection, Surjection, IsInjective
  <2> HIDE DEF C, f
  <2>4. Cardinality(C) = Cardinality(StampsSince(lo))
    BY <2>2, <2>3, FS_Bijection DEF ExistsBijection
  <2> QED BY <1>6, <2>4 DEF C
<1> QED BY <1>1, <1>5, <1>6, <1>7

(* A place more in both.                                                   *)
LEMMA OneMorePlace ==
  ASSUME RateTyped, NEW c \in RateCalls, NEW lo \in Nat, placedAt' = [placedAt EXCEPT ![c] = rateClock]
  PROVE  /\ IsFiniteSet(PlacedSince(lo)) /\ Cardinality(PlacedSince(lo)) \in Nat
         /\ Cardinality(PlacedSince(lo)') <= Cardinality(PlacedSince(lo)) + (IF lo <= rateClock THEN 1 ELSE 0)
<1>1. IsFiniteSet(PlacedSince(lo))
  BY RateAssumption, FS_Subset DEF PlacedSince
<1>2. Cardinality(PlacedSince(lo)) \in Nat
  BY <1>1, FS_CardinalityType
<1>3. rateClock \in Int /\ lo \in Int /\ placedAt \in [RateCalls -> -1..MaxRateClock]
  BY RateAssumption DEF RateTyped
<1>4. CASE lo <= rateClock
  <2>1. PlacedSince(lo)' \subseteq PlacedSince(lo) \cup {c}
    BY <1>3 DEF PlacedSince
  <2>2. IsFiniteSet(PlacedSince(lo) \cup {c}) /\ Cardinality(PlacedSince(lo) \cup {c}) <= Cardinality(PlacedSince(lo)) + 1
    BY <1>1, <1>2, FS_AddElement
  <2>3. Cardinality(PlacedSince(lo)') <= Cardinality(PlacedSince(lo) \cup {c}) /\ IsFiniteSet(PlacedSince(lo)')
    BY <2>1, <2>2, FS_Subset
  <2>4. Cardinality(PlacedSince(lo)') \in Nat /\ Cardinality(PlacedSince(lo) \cup {c}) \in Nat
    BY <2>2, <2>3, FS_CardinalityType
  <2> QED BY <1>1, <1>2, <1>4, <2>2, <2>3, <2>4
<1>5. CASE lo > rateClock
  <2>1. PlacedSince(lo)' \subseteq PlacedSince(lo)
    BY <1>3, <1>5 DEF PlacedSince
  <2>2. Cardinality(PlacedSince(lo)') <= Cardinality(PlacedSince(lo)) /\ IsFiniteSet(PlacedSince(lo)')
    BY <1>1, <2>1, FS_Subset
  <2>3. Cardinality(PlacedSince(lo)') \in Nat
    BY <2>2, FS_CardinalityType
  <2> QED BY <1>1, <1>2, <1>3, <1>5, <2>2, <2>3
<1> QED BY <1>3, <1>4, <1>5

(* A place is given only when the window that ends now has room.           *)
LEMMA PlaceGiven ==
  ASSUME RateIInv, NEW c \in RateCalls, callPhase[c] = "asking", Len(Counted) < Rpm,
         timestamps' = Append(Counted, rateClock), callPhase' = [callPhase EXCEPT ![c] = "placed"],
         placedAt' = [placedAt EXCEPT ![c] = rateClock], UNCHANGED rateClock
  PROVE  RateIInv'
<1>0. RateTyped /\ StampsTell /\ PlacesPerWindow
  BY DEF RateIInv
<1>1. rateClock \in 0..MaxRateClock /\ {Window, Rpm} \subseteq Nat \ {0} /\ MaxRateClock \in Nat
  BY <1>0, RateAssumption DEF RateTyped
<1>2. /\ Counted \in Seq(0..MaxRateClock)
      /\ \A lo \in Nat : lo + Window > rateClock =>
              Cardinality({n \in 1..Len(Counted) : Counted[n] >= lo}) = Cardinality(StampsSince(lo))
  BY <1>0, CountedFacts
<1>3. PICK counted : counted = Counted
  OBVIOUS
<1>4. PICK m : m = Len(counted)
  OBVIOUS
<1>5. m \in Nat /\ m < Rpm /\ counted \in Seq(0..MaxRateClock) /\ timestamps' = Append(counted, rateClock)
  BY <1>2, <1>3, <1>4
<1>6. /\ timestamps' \in Seq(0..MaxRateClock) /\ Len(timestamps') = m + 1
      /\ timestamps'[m + 1] = rateClock /\ \A n \in 1..m : timestamps'[n] = counted[n]
  BY <1>1, <1>4, <1>5, AppendProperties
<1>7. RateTyped'
  <2>1. callPhase' \in [RateCalls -> CallPhases]
    BY <1>0 DEF RateTyped, CallPhases
  <2>2. placedAt' \in [RateCalls -> -1..MaxRateClock] /\ \A d \in RateCalls : placedAt'[d] <= rateClock'
    BY <1>0, <1>1 DEF RateTyped
  <2>3. Len(timestamps') <= Rpm
    BY <1>1, <1>5, <1>6
  <2> QED BY <1>1, <1>6, <2>1, <2>2, <2>3 DEF RateTyped
<1>8. ASSUME NEW lo \in Nat, lo + Window > rateClock
      PROVE  Cardinality(PlacedSince(lo)') <= Cardinality(StampsSince(lo)') /\ Cardinality(StampsSince(lo)') <= Rpm
             /\ Cardinality(PlacedSince(lo)') \in Nat /\ Cardinality(StampsSince(lo)') \in Nat
  <2> DEFINE C == {n \in 1..m : counted[n] >= lo}
  <2>1. IsFiniteSet(1..m) /\ Cardinality(1..m) = m
    BY <1>5, FiniteInterval
  <2>2. IsFiniteSet(C) /\ Cardinality(C) <= m
    BY <2>1, FS_Subset
  <2>3. Cardinality(C) \in Nat
    BY <2>2, FS_CardinalityType
  <2>4. Cardinality(PlacedSince(lo)) <= Cardinality(C)
    BY <1>0, <1>2, <1>3, <1>4, <1>8 DEF StampsTell
  <2>5. m + 1 \notin C
    BY <1>5
  <2>6. \A n \in 1..m : counted[n] = timestamps'[n]
    BY <1>6
  <2>7. StampsSince(lo)' = IF lo <= rateClock THEN C \cup {m + 1} ELSE C
    <3>1. StampsSince(lo)' = {n \in 1..(m + 1) : timestamps'[n] >= lo}
      BY <1>6 DEF StampsSince
    <3>2. 1..(m + 1) = (1..m) \cup {m + 1}
      BY <1>5
    <3>3. rateClock >= lo <=> lo <= rateClock
      BY <1>1
    <3>4. \A n \in 1..m : timestamps'[n] >= lo <=> n \in C
      BY <2>6
    <3>5. timestamps'[m + 1] >= lo <=> lo <= rateClock
      BY <1>6, <3>3
    <3> QED BY <3>1, <3>2, <3>4, <3>5
  <2>8. Cardinality(StampsSince(lo)') = Cardinality(C) + (IF lo <= rateClock THEN 1 ELSE 0)
    <3>1. Cardinality(C \cup {m + 1}) = Cardinality(C) + 1
      BY <2>2, <2>5, FS_AddElement
    <3> QED BY <2>3, <2>7, <3>1
  <2>9. Cardinality(PlacedSince(lo)') <= Cardinality(PlacedSince(lo)) + (IF lo <= rateClock THEN 1 ELSE 0)
    BY <1>0, OneMorePlace
  <2>10. IsFiniteSet(PlacedSince(lo)') /\ Cardinality(PlacedSince(lo)) \in Nat
    <3>1. \A S \in SUBSET RateCalls : IsFiniteSet(S) /\ Cardinality(S) \in Nat
      BY RateAssumption, FS_Subset, FS_CardinalityType
    <3> QED BY <3>1 DEF PlacedSince
  <2>11. Cardinality(PlacedSince(lo)') \in Nat
    BY <2>10, FS_CardinalityType
  <2> HIDE DEF C
  <2>12. Cardinality(StampsSince(lo)') <= Rpm
    BY <1>1, <1>5, <2>2, <2>3, <2>8
  <2>13. Cardinality(PlacedSince(lo)') <= Cardinality(StampsSince(lo)')
    BY <2>3, <2>4, <2>8, <2>9, <2>10, <2>11
  <2> QED BY <2>3, <2>8, <2>11, <2>12, <2>13
<1>9. StampsTell'
  BY <1>8 DEF StampsTell
<1>10. ASSUME NEW t \in 0..MaxRateClock
       PROVE  Cardinality({d \in RateCalls : placedAt'[d] \in t..(t + Window - 1)}) <= Rpm
  <2> DEFINE Within == {d \in RateCalls : placedAt'[d] \in t..(t + Window - 1)}
  <2>1. IsFiniteSet(Within) /\ Cardinality(Within) \in Nat
    BY RateAssumption, FS_Subset, FS_CardinalityType
  <2>2. CASE t + Window > rateClock
    <3>1. t \in Nat
      OBVIOUS
    <3>2. Cardinality(PlacedSince(t)') <= Rpm
      BY <1>1, <1>8, <2>2, <3>1
    <3>3. Within \subseteq PlacedSince(t)' /\ IsFiniteSet(PlacedSince(t)')
      BY RateAssumption, FS_Subset DEF PlacedSince
    <3>4. Cardinality(Within) <= Cardinality(PlacedSince(t)') /\ Cardinality(PlacedSince(t)') \in Nat
      BY <3>3, FS_Subset, FS_CardinalityType
    <3> QED BY <1>1, <2>1, <3>2, <3>4
  <2>3. CASE ~(t + Window > rateClock)
    <3>1. rateClock \notin t..(t + Window - 1)
      BY <1>1, <2>3
    <3>2. Within \subseteq {d \in RateCalls : placedAt[d] \in t..(t + Window - 1)}
      BY <1>0, <3>1 DEF RateTyped
    <3>3. PICK Was : Was = {d \in RateCalls : placedAt[d] \in t..(t + Window - 1)}
      OBVIOUS
    <3>4. Cardinality(Was) <= Rpm
      BY <1>0, <3>3 DEF PlacesPerWindow
    <3>5. IsFiniteSet(Was) /\ Cardinality(Was) \in Nat
      BY <3>3, RateAssumption, FS_Subset, FS_CardinalityType
    <3>6. Cardinality(Within) <= Cardinality(Was)
      BY <3>2, <3>3, <3>5, FS_Subset
    <3> QED BY <1>1, <2>1, <3>4, <3>5, <3>6
  <2> QED BY <2>2, <2>3
<1>11. PlacesPerWindow'
  BY <1>10 DEF PlacesPerWindow
<1> QED BY <1>7, <1>9, <1>11 DEF RateIInv

(* What only changes a call, or counts again.                              *)
LEMMA NoPlaceGiven ==
  ASSUME RateIInv, callPhase' \in [RateCalls -> CallPhases], UNCHANGED <<rateClock, placedAt>>,
         timestamps' = timestamps \/ timestamps' = Counted
  PROVE  RateIInv'
<1>0. RateTyped /\ StampsTell /\ PlacesPerWindow
  BY DEF RateIInv
<1>1. /\ timestamps' \in Seq(0..MaxRateClock) /\ Len(timestamps') <= Rpm
      /\ \A lo \in Nat : lo + Window > rateClock => Cardinality(StampsSince(lo)') = Cardinality(StampsSince(lo))
  <2>1. CASE timestamps' = timestamps
    BY <1>0, <2>1 DEF RateTyped, StampsSince
  <2>2. CASE timestamps' = Counted
    <3>1. /\ Counted \in Seq(0..MaxRateClock) /\ Len(Counted) <= Len(timestamps)
          /\ \A lo \in Nat : lo + Window > rateClock =>
              Cardinality({n \in 1..Len(Counted) : Counted[n] >= lo}) = Cardinality(StampsSince(lo))
      BY <1>0, CountedFacts
    <3>2. \A lo : StampsSince(lo)' = {n \in 1..Len(Counted) : Counted[n] >= lo}
      BY <2>2 DEF StampsSince
    <3>3. Len(Counted) <= Rpm
      <4>1. Len(Counted) \in Nat /\ Len(timestamps) \in Nat /\ Rpm \in Nat /\ Len(timestamps) <= Rpm
        BY <1>0, <3>1, RateAssumption DEF RateTyped
      <4> QED BY <3>1, <4>1
    <3> QED BY <2>2, <3>1, <3>2, <3>3
  <2> QED BY <2>1, <2>2
<1>2. RateTyped'
  BY <1>0, <1>1 DEF RateTyped
<1>3. \A lo : PlacedSince(lo)' = PlacedSince(lo)
  BY DEF PlacedSince
<1>4. StampsTell'
  BY <1>0, <1>1, <1>3 DEF StampsTell
<1>5. PlacesPerWindow'
  BY <1>0 DEF PlacesPerWindow
<1> QED BY <1>2, <1>4, <1>5 DEF RateIInv

LEMMA RateTicks == ASSUME RateIInv, RateTick PROVE RateIInv'
<1>0. RateTyped /\ StampsTell /\ PlacesPerWindow
  BY DEF RateIInv
<1>1. rateClock \in 0..MaxRateClock /\ rateClock' = rateClock + 1 /\ rateClock < MaxRateClock /\ MaxRateClock \in Nat
  BY <1>0, RateAssumption DEF RateTick, RateTyped
<1>2. RateTyped'
  <2>1. \A c \in RateCalls : placedAt[c] <= rateClock /\ placedAt[c] \in Int
    BY <1>0 DEF RateTyped
  <2>2. \A c \in RateCalls : placedAt[c] <= rateClock'
    BY <1>1, <2>1
  <2> QED BY <1>0, <1>1, <2>2 DEF RateTick, RateTyped
<1>3. \A lo : PlacedSince(lo)' = PlacedSince(lo) /\ StampsSince(lo)' = StampsSince(lo)
  BY DEF RateTick, PlacedSince, StampsSince
<1>4. \A lo \in Nat : lo + Window > rateClock' => lo + Window > rateClock
  BY <1>1, RateAssumption
<1>5. StampsTell'
  <2>1. ASSUME NEW lo \in Nat, lo + Window' > rateClock'
        PROVE  Cardinality(PlacedSince(lo)') <= Cardinality(StampsSince(lo)')
    <3>1. Cardinality(PlacedSince(lo)) <= Cardinality(StampsSince(lo))
      BY <1>0, <1>4, <2>1 DEF StampsTell
    <3> QED BY <1>3, <3>1
  <2> QED BY <2>1 DEF StampsTell
<1>6. PlacesPerWindow'
  BY <1>0 DEF RateTick, PlacesPerWindow
<1> QED BY <1>2, <1>5, <1>6 DEF RateIInv

LEMMA RateStepHolds == RateIInv /\ [RateNext]_rateVars => RateIInv'
<1> SUFFICES ASSUME RateIInv, [RateNext]_rateVars PROVE RateIInv'
  OBVIOUS
<1>0. callPhase \in [RateCalls -> CallPhases]
  BY DEF RateIInv, RateTyped
<1>1. CASE UNCHANGED rateVars
  BY <1>0, <1>1, NoPlaceGiven DEF rateVars
<1>2. CASE RateTick
  BY <1>2, RateTicks
<1>3. ASSUME NEW c \in RateCalls, Ask(c) \/ EnterSlot(c) \/ SlotTimesOut(c) \/ LeaveSlot(c) PROVE RateIInv'
  <2>1. callPhase' \in [RateCalls -> CallPhases] /\ UNCHANGED <<rateClock, placedAt, timestamps>>
    BY <1>0, <1>3 DEF Ask, EnterSlot, SlotTimesOut, LeaveSlot, CallPhases
  <2> QED BY <2>1, NoPlaceGiven
<1>4. ASSUME NEW c \in RateCalls, AcquireRpm(c) PROVE RateIInv'
  <2>1. CASE Len(Counted) < Rpm
    BY <1>4, <2>1, PlaceGiven DEF AcquireRpm
  <2>2. CASE ~(Len(Counted) < Rpm)
    <3>1. callPhase' \in [RateCalls -> CallPhases] /\ UNCHANGED <<rateClock, placedAt>> /\ timestamps' = Counted
      BY <1>0, <1>4, <2>2 DEF AcquireRpm, CallPhases
    <3> QED BY <3>1, NoPlaceGiven
  <2> QED BY <2>1, <2>2
<1> QED BY <1>1, <1>2, <1>3, <1>4 DEF RateNext

LEMMA RateImplies == RateIInv => RateTypeOK /\ PlacesPerWindow
BY DEF RateIInv, RateTyped, RateTypeOK, CallPhases

(* However long calls sleep and in whatever order they wake, no minute has *)
(* more of them placed than requests_per_minute.                           *)
THEOREM PlacesStayWithin == RateSpec => [](RateTypeOK /\ PlacesPerWindow)
<1> QED BY RateImplies, RateInitHolds, RateStepHolds, PTL DEF RateSpec

--------------------------------------------------------------------------------
(***************************************************************************)
(* The in-memory stores.  What they hold is kept as the end of the history *)
(* (Ends, of which IsSuffix follows); each call takes the same items out   *)
(* of both and appends the same one to both.                               *)
(***************************************************************************)
LEMMA EndsIsSuffix ==
  ASSUME NEW S, NEW d \in Seq(S), NEW u \in Seq(S), Ends(d, u)
  PROVE  IsSuffix(d, u)
<1>1. PICK m, n : m = Len(d) /\ n = Len(u)
  OBVIOUS
<1>2. m \in Nat /\ n \in Nat /\ DOMAIN d = 1..m /\ DOMAIN u = 1..n
  BY <1>1
<1>3. PICK k \in Nat : n = k + m /\ \A i \in 1..m : d[i] = u[k + i]
  BY <1>1 DEF Ends
<1>4. PICK rd, ru : rd = Reverse(d) /\ ru = Reverse(u)
  OBVIOUS
<1>5. /\ rd = [i \in 1..m |-> d[(m - i) + 1]] /\ ru = [i \in 1..n |-> u[(n - i) + 1]]
  BY <1>1, <1>4 DEF Reverse
<1>6. \A i \in 1..m : (m - i) + 1 \in 1..m
  BY <1>2
<1>7. \A i \in 1..n : (n - i) + 1 \in 1..n
  BY <1>2
<1>8. rd \in [1..m -> S] /\ ru \in [1..n -> S]
  BY <1>2, <1>5, <1>6, <1>7
<1>9. rd \in Seq(S) /\ ru \in Seq(S) /\ Len(rd) = m /\ Len(ru) = n
  BY <1>2, <1>8
<1>10. ASSUME NEW i \in 1..m PROVE rd[i] = ru[i]
  <2>1. i \in 1..n /\ (n - i) + 1 = k + ((m - i) + 1)
    BY <1>2, <1>3
  <2>2. rd[i] = d[(m - i) + 1] /\ ru[i] = u[k + ((m - i) + 1)]
    BY <1>5, <2>1
  <2> QED BY <1>3, <1>6, <2>2
<1>11. SubSeq(rd, 1, m) = SubSeq(ru, 1, m)
  <2>1. SubSeq(rd, 1, m) = [i \in 1..m |-> rd[i]]
    BY <1>2, <1>9
  <2>2. SubSeq(ru, 1, m) = [i \in 1..m |-> ru[i]]
    BY <1>2, <1>9
  <2> QED BY <1>10, <2>1, <2>2
<1>12. m <= n
  BY <1>2, <1>3
<1> QED BY <1>4, <1>9, <1>11, <1>12 DEF IsSuffix, IsPrefix

LEMMA MoveFacts ==
  ASSUME NEW S, NEW q \in Seq(S), NEW x \in S
  PROVE  /\ MovedToEnd(q, x) \in Seq(S) /\ Len(MovedToEnd(q, x)) <= Len(q) + 1
         /\ ToSet(MovedToEnd(q, x)) = ToSet(q) \cup {x}
         /\ IsInjective(q) => IsInjective(MovedToEnd(q, x))
         /\ x \in ToSet(q) /\ IsInjective(q) => Len(MovedToEnd(q, x)) <= Len(q)
<1>1. PICK o, m : o = Omitting(q, {x}) /\ m = MovedToEnd(q, x)
  OBVIOUS
<1>2. /\ o \in Seq(S) /\ Len(o) <= Len(q) /\ ToSet(o) = ToSet(q) \ {x}
      /\ IsInjective(q) => IsInjective(o)
  BY <1>1, OmitFacts
<1>3. m = Append(o, x)
  BY <1>1 DEF MovedToEnd
<1>4. /\ m \in Seq(S) /\ Len(m) = Len(o) + 1 /\ m[Len(o) + 1] = x
      /\ \A i \in 1..Len(o) : m[i] = o[i]
  BY <1>2, <1>3
<1>5. Len(o) \in Nat /\ DOMAIN o = 1..Len(o) /\ DOMAIN m = 1..(Len(o) + 1) /\ Len(q) \in Nat
  BY <1>2, <1>4
<1>6. ToSet(m) = ToSet(o) \cup {x}
  <2>1. ToSet(m) = {m[i] : i \in 1..(Len(o) + 1)} /\ ToSet(o) = {o[i] : i \in 1..Len(o)}
    BY <1>5 DEF ToSet
  <2>2. \A i \in 1..(Len(o) + 1) : i \in 1..Len(o) \/ i = Len(o) + 1
    BY <1>5
  <2>3. \A i \in 1..Len(o) : i \in 1..(Len(o) + 1)
    BY <1>5
  <2>4. Len(o) + 1 \in 1..(Len(o) + 1)
    BY <1>5
  <2> QED BY <1>4, <2>1, <2>2, <2>3, <2>4
<1>7. ASSUME IsInjective(q) PROVE IsInjective(m)
  <2>1. \A i, j \in 1..Len(o) : o[i] = o[j] => i = j
    BY <1>2, <1>5, <1>7 DEF IsInjective
  <2>2. \A i \in 1..Len(o) : o[i] # x
    BY <1>2, <1>5 DEF ToSet
  <2>3. \A i \in 1..(Len(o) + 1) : i \in 1..Len(o) \/ i = Len(o) + 1
    BY <1>5
  <2>4. \A i, j \in 1..(Len(o) + 1) : m[i] = m[j] => i = j
    BY <1>4, <2>1, <2>2, <2>3
  <2> QED BY <1>5, <2>4 DEF IsInjective
<1>8. ASSUME x \in ToSet(q), IsInjective(q) PROVE Len(m) <= Len(q)
  <2>1. PICK I : I = {i \in DOMAIN q : q[i] \notin {x}}
    OBVIOUS
  <2>2. o = Keeping(q, I) /\ I \in SUBSET DOMAIN q
    BY <1>1, <2>1 DEF Omitting
  <2>3. Len(o) = Cardinality(I)
    BY <2>2, KeepingKeeps
  <2>4. PICK p \in DOMAIN q : q[p] = x
    BY <1>8 DEF ToSet
  <2>5. DOMAIN q = 1..Len(q) /\ IsFiniteSet(1..Len(q)) /\ Cardinality(1..Len(q)) = Len(q)
    BY <1>5, FiniteInterval
  <2>6. I \in SUBSET (1..Len(q)) /\ p \in 1..Len(q) /\ p \notin I
    BY <2>1, <2>4, <2>5
  <2>7. Cardinality(I) # Len(q)
    BY <2>5, <2>6, FS_Subset
  <2> QED BY <1>2, <1>4, <1>5, <2>3, <2>7
<1> QED BY <1>1, <1>2, <1>4, <1>5, <1>6, <1>7, <1>8

LEMMA MoveEnds ==
  ASSUME NEW S, NEW d \in Seq(S), NEW u \in Seq(S), Ends(d, u), NEW x \in S
  PROVE  Ends(MovedToEnd(d, x), MovedToEnd(u, x))
<1>1. PICK e, v : e = Omitting(d, {x}) /\ v = Omitting(u, {x})
  OBVIOUS
<1>2. e \in Seq(S) /\ v \in Seq(S) /\ Ends(e, v)
  BY <1>1, OmitFacts, OmitEnds
<1>3. PICK f, w : f = Append(e, x) /\ w = Append(v, x)
  OBVIOUS
<1>4. /\ Len(f) = Len(e) + 1 /\ f[Len(e) + 1] = x /\ \A i \in 1..Len(e) : f[i] = e[i]
      /\ Len(w) = Len(v) + 1 /\ w[Len(v) + 1] = x /\ \A i \in 1..Len(v) : w[i] = v[i]
  BY <1>2, <1>3
<1>5. Len(e) \in Nat /\ Len(v) \in Nat
  BY <1>2
<1>6. PICK k \in Nat : Len(v) = k + Len(e) /\ \A i \in 1..Len(e) : e[i] = v[k + i]
  BY <1>2 DEF Ends
<1>7. Len(w) = k + Len(f)
  BY <1>4, <1>5, <1>6
<1>8. ASSUME NEW i \in 1..Len(f) PROVE f[i] = w[k + i]
  <2>1. CASE i = Len(e) + 1
    <3>1. k + i = Len(v) + 1
      BY <1>5, <1>6, <2>1
    <3> QED BY <1>4, <2>1, <3>1
  <2>2. CASE i # Len(e) + 1
    <3>1. i \in 1..Len(e)
      BY SMTT(40), <1>4, <1>5, <2>2
    <3>2. k + i \in 1..Len(v)
      BY <1>5, <1>6, <3>1
    <3> QED BY <1>4, <1>6, <3>1, <3>2
  <2> QED BY <2>1, <2>2
<1>9. Ends(f, w)
  BY <1>7, <1>8 DEF Ends
<1> QED BY <1>1, <1>3, <1>9 DEF MovedToEnd

LEMMA CapFacts ==
  ASSUME NEW S, NEW q \in Seq(S), NEW max \in Nat
  PROVE  /\ Capped(q, max) \in Seq(S) /\ Len(Capped(q, max)) <= max
         /\ ToSet(Capped(q, max)) \subseteq ToSet(q)
         /\ IsInjective(q) => IsInjective(Capped(q, max))
         /\ Ends(Capped(q, max), q)
         /\ Len(Capped(q, max)) = IF Len(q) > max THEN max ELSE Len(q)
<1>1. PICK n, c : n = Len(q) /\ c = Capped(q, max)
  OBVIOUS
<1>2. n \in Nat /\ DOMAIN q = 1..n
  BY <1>1
<1>3. CASE n <= max
  <2>1. c = q
    BY <1>1, <1>2, <1>3 DEF Capped
  <2>2. Ends(q, q)
    <3>1. \A i \in 1..Len(q) : q[i] = q[0 + i]
      BY <1>1, <1>2
    <3> QED BY <1>1, <1>2, <3>1 DEF Ends
  <2> QED BY <1>1, <1>2, <1>3, <2>1, <2>2
<1>4. CASE n > max
  <2>1. c = SubSeq(q, n - max + 1, n)
    BY <1>1, <1>4 DEF Capped
  <2>2. n - max \in Nat /\ n - max + 1 \in 1..(n + 1)
    BY <1>2, <1>4
  <2>3. \A i \in (n - max + 1)..n : q[i] \in S
    BY <1>2, <2>2
  <2>4. /\ c \in Seq(S)
        /\ Len(c) = IF n - max + 1 <= n THEN n - (n - max + 1) + 1 ELSE 0
        /\ \A i \in 1..(n - (n - max + 1) + 1) : c[i] = q[(n - max + 1) + i - 1]
    BY <1>2, <2>1, <2>2, <2>3, SubSeqProperties
  <2>5. Len(c) = max
    BY <1>2, <1>4, <2>4
  <2>6. ASSUME NEW i \in 1..max PROVE c[i] = q[(n - max) + i] /\ (n - max) + i \in 1..n
    <3>1. i \in 1..(n - (n - max + 1) + 1) /\ (n - max + 1) + i - 1 = (n - max) + i
      BY <1>2, <1>4
    <3>2. (n - max) + i \in 1..n
      BY <1>2, <1>4
    <3> QED BY <2>4, <3>1, <3>2
  <2>7. DOMAIN c = 1..max
    BY <2>4, <2>5
  <2>8. ToSet(c) \subseteq ToSet(q)
    BY <1>2, <2>6, <2>7 DEF ToSet
  <2>9. ASSUME IsInjective(q) PROVE IsInjective(c)
    <3>1. ASSUME NEW i \in 1..max, NEW j \in 1..max, c[i] = c[j] PROVE i = j
      <4>1. (n - max) + i = (n - max) + j
        BY <1>2, <2>6, <2>9, <3>1 DEF IsInjective
      <4> QED BY <1>2, <4>1
    <3> QED BY <2>7, <3>1 DEF IsInjective
  <2>10. Ends(c, q)
    <3>1. n = (n - max) + max
      BY <1>2, <2>2
    <3> QED BY <1>1, <2>2, <2>5, <2>6, <3>1 DEF Ends
  <2> QED BY <1>1, <1>4, <2>4, <2>5, <2>8, <2>9, <2>10
<1> QED BY <1>2, <1>3, <1>4

LEMMA EndsOfEnd ==
  ASSUME NEW S, NEW c \in Seq(S), NEW d \in Seq(S), NEW u \in Seq(S), Ends(c, d), Ends(d, u)
  PROVE  Ends(c, u)
<1>1. Len(c) \in Nat /\ Len(d) \in Nat /\ Len(u) \in Nat
  OBVIOUS
<1>2. PICK k \in Nat : Len(d) = k + Len(c) /\ \A i \in 1..Len(c) : c[i] = d[k + i]
  BY DEF Ends
<1>3. PICK l \in Nat : Len(u) = l + Len(d) /\ \A i \in 1..Len(d) : d[i] = u[l + i]
  BY DEF Ends
<1>4. l + k \in Nat /\ Len(u) = (l + k) + Len(c)
  BY <1>1, <1>2, <1>3
<1>5. ASSUME NEW i \in 1..Len(c) PROVE c[i] = u[(l + k) + i]
  <2>1. k + i \in 1..Len(d) /\ l + (k + i) = (l + k) + i
    BY <1>1, <1>2
  <2> QED BY <1>2, <1>3, <2>1
<1> QED BY <1>4, <1>5 DEF Ends

(* A store: what is in it, once each, is the end of its history.           *)
Held(d, u, S, max) ==
  /\ d \in Seq(S) /\ u \in Seq(S)
  /\ IsInjective(d) /\ Len(d) <= max
  /\ Ends(d, u)

LEMMA HeldEmpty == ASSUME NEW S, NEW max \in Nat PROVE Held(<<>>, <<>>, S, max)
<1>1. <<>> \in Seq(S) /\ Len(<<>>) = 0 /\ IsInjective(<<>>)
  BY DEF IsInjective
<1>2. Ends(<<>>, <<>>)
  BY <1>1 DEF Ends
<1> QED BY <1>1, <1>2 DEF Held

LEMMA HeldOmits ==
  ASSUME NEW S, NEW max \in Nat, NEW d, NEW u, Held(d, u, S, max), NEW X
  PROVE  Held(Omitting(d, X), Omitting(u, X), S, max)
<1>1. d \in Seq(S) /\ u \in Seq(S) /\ Len(d) \in Nat
  BY DEF Held
<1>2. Omitting(d, X) \in Seq(S) /\ Omitting(u, X) \in Seq(S) /\ Len(Omitting(d, X)) <= Len(d)
  BY <1>1, OmitFacts
<1>3. Len(Omitting(d, X)) \in Nat
  BY <1>2
<1>4. IsInjective(Omitting(d, X))
  BY <1>1, OmitFacts DEF Held
<1>5. Ends(Omitting(d, X), Omitting(u, X))
  BY <1>1, OmitEnds DEF Held
<1>6. Len(Omitting(d, X)) <= max
  BY <1>1, <1>2, <1>3 DEF Held
<1> QED BY <1>2, <1>4, <1>5, <1>6 DEF Held

LEMMA HeldMoves ==
  ASSUME NEW S, NEW max \in Nat, NEW d, NEW u, Held(d, u, S, max), NEW x \in ToSet(d)
  PROVE  Held(MovedToEnd(d, x), MovedToEnd(u, x), S, max)
<1>1. d \in Seq(S) /\ u \in Seq(S) /\ Len(d) \in Nat /\ IsInjective(d)
  BY DEF Held
<1>2. x \in S
  BY <1>1 DEF ToSet
<1>3. /\ MovedToEnd(d, x) \in Seq(S) /\ MovedToEnd(u, x) \in Seq(S)
      /\ IsInjective(MovedToEnd(d, x)) /\ Len(MovedToEnd(d, x)) <= Len(d)
  BY <1>1, <1>2, MoveFacts
<1>4. Len(MovedToEnd(d, x)) \in Nat
  BY <1>3
<1>5. Ends(MovedToEnd(d, x), MovedToEnd(u, x))
  BY <1>1, <1>2, MoveEnds DEF Held
<1>6. Len(MovedToEnd(d, x)) <= max
  BY <1>1, <1>3, <1>4 DEF Held
<1> QED BY <1>3, <1>5, <1>6 DEF Held

LEMMA HeldStores ==
  ASSUME NEW S, NEW max \in Nat, NEW d, NEW u, Held(d, u, S, max), NEW x \in S
  PROVE  Held(Capped(MovedToEnd(d, x), max), MovedToEnd(u, x), S, max)
<1>1. d \in Seq(S) /\ u \in Seq(S) /\ Len(d) \in Nat /\ IsInjective(d)
  BY DEF Held
<1>2. /\ MovedToEnd(d, x) \in Seq(S) /\ MovedToEnd(u, x) \in Seq(S)
      /\ IsInjective(MovedToEnd(d, x))
  BY <1>1, MoveFacts
<1>3. Ends(MovedToEnd(d, x), MovedToEnd(u, x))
  BY <1>1, MoveEnds DEF Held
<1>4. PICK m, c : m = MovedToEnd(d, x) /\ c = Capped(m, max)
  OBVIOUS
<1>5. c \in Seq(S) /\ Len(c) <= max /\ IsInjective(c) /\ Ends(c, m)
  BY <1>2, <1>4, CapFacts
<1>6. Ends(c, MovedToEnd(u, x))
  BY <1>2, <1>3, <1>4, <1>5, EndsOfEnd
<1> QED BY <1>2, <1>4, <1>5, <1>6 DEF Held

(* Each store holds what its history says, and counts what it holds.       *)
StoresIInv ==
  /\ kvClock \in 0..MaxKvClock /\ setAt \in [Keys -> 0..MaxKvClock]
  /\ usage = [kv |-> usage.kv, messages |-> usage.messages]
  /\ Held(data, usage.kv, Keys, KvMaxSize)
  /\ Held(store, usage.messages, SessionKeys, MaxSessions)

LEMMA StoresInitHolds == StoresInit => StoresIInv
<1> SUFFICES ASSUME StoresInit PROVE StoresIInv
  OBVIOUS
<1>1. KvMaxSize \in Nat /\ MaxSessions \in Nat /\ MaxKvClock \in Nat
  BY StoresAssumption
<1>2. data = <<>> /\ store = <<>> /\ usage.kv = <<>> /\ usage.messages = <<>>
  BY DEF StoresInit
<1>3. Held(data, usage.kv, Keys, KvMaxSize) /\ Held(store, usage.messages, SessionKeys, MaxSessions)
  BY <1>1, <1>2, HeldEmpty
<1>4. kvClock \in 0..MaxKvClock /\ setAt \in [Keys -> 0..MaxKvClock]
  BY <1>1 DEF StoresInit
<1>5. usage = [kv |-> usage.kv, messages |-> usage.messages]
  BY DEF StoresInit
<1> QED BY <1>3, <1>4, <1>5 DEF StoresIInv

LEMMA StoresStepHolds == StoresIInv /\ [StoresNext]_storesVars => StoresIInv'
<1> SUFFICES ASSUME StoresIInv, [StoresNext]_storesVars PROVE StoresIInv'
  OBVIOUS
<1>1. KvMaxSize \in Nat /\ MaxSessions \in Nat /\ MaxKvClock \in Nat
  BY StoresAssumption
<1>2. PICK d, s, u, m : d = data /\ s = store /\ u = usage.kv /\ m = usage.messages
  OBVIOUS
<1>3. /\ Held(d, u, Keys, KvMaxSize) /\ Held(s, m, SessionKeys, MaxSessions)
      /\ usage = [kv |-> u, messages |-> m]
      /\ kvClock \in 0..MaxKvClock /\ setAt \in [Keys -> 0..MaxKvClock]
  BY <1>2 DEF StoresIInv
<1>4. ASSUME NEW e, NEW v, data' = e, usage' = [kv |-> v, messages |-> m],
             Held(e, v, Keys, KvMaxSize), store' = store,
             kvClock' \in 0..MaxKvClock, setAt' \in [Keys -> 0..MaxKvClock]
      PROVE  StoresIInv'
  <2>1. usage'.kv = v /\ usage'.messages = m
    BY <1>4
  <2> QED BY <1>2, <1>3, <1>4, <2>1 DEF StoresIInv
<1>5. ASSUME NEW t, NEW w, store' = t, usage' = [kv |-> u, messages |-> w],
             Held(t, w, SessionKeys, MaxSessions), UNCHANGED <<kvClock, data, setAt>>
      PROVE  StoresIInv'
  <2>1. usage'.kv = u /\ usage'.messages = w
    BY <1>5
  <2> QED BY <1>2, <1>3, <1>5, <2>1 DEF StoresIInv
<1>6. CASE KvTick
  <2>1. kvClock' \in 0..MaxKvClock
    BY <1>1, <1>3, <1>6 DEF KvTick
  <2> QED BY <1>2, <1>3, <1>4, <1>6, <2>1 DEF KvTick
<1>7. CASE KvListKeys
  <2>1. PICK old : /\ data' = Omitting(d, old)
                   /\ usage' = [usage EXCEPT !.kv = Omitting(@, old)]
                   /\ UNCHANGED <<kvClock, setAt, store>>
    BY <1>2, <1>7 DEF KvListKeys
  <2>2. usage' = [kv |-> Omitting(u, old), messages |-> m]
    BY <1>3, <2>1
  <2> QED BY <1>1, <1>3, <1>4, <2>1, <2>2, HeldOmits
<1>8. ASSUME NEW k \in Keys, KvGet(k) PROVE StoresIInv'
  <2>1. k \in ToSet(d)
    BY <1>2, <1>8 DEF KvGet
  <2>2. UNCHANGED <<kvClock, setAt, store>>
    BY <1>8 DEF KvGet
  <2>3. CASE KvOld(k)
    <3>1. data' = Omitting(d, {k}) /\ usage' = [usage EXCEPT !.kv = Omitting(@, {k})]
      BY <1>2, <1>8, <2>3 DEF KvGet
    <3>2. usage' = [kv |-> Omitting(u, {k}), messages |-> m]
      BY <1>3, <3>1
    <3> QED BY <1>1, <1>3, <1>4, <2>2, <3>1, <3>2, HeldOmits
  <2>4. CASE ~KvOld(k)
    <3>1. data' = MovedToEnd(d, k) /\ usage' = [usage EXCEPT !.kv = MovedToEnd(@, k)]
      BY <1>2, <1>8, <2>4 DEF KvGet
    <3>2. usage' = [kv |-> MovedToEnd(u, k), messages |-> m]
      BY <1>3, <3>1
    <3> QED BY <1>1, <1>3, <1>4, <2>1, <2>2, <3>1, <3>2, HeldMoves
  <2> QED BY <2>3, <2>4
<1>9. ASSUME NEW k \in Keys, KvSet(k) PROVE StoresIInv'
  <2>1. /\ data' = Capped(MovedToEnd(d, k), KvMaxSize)
        /\ usage' = [usage EXCEPT !.kv = MovedToEnd(@, k)]
        /\ UNCHANGED <<kvClock, store>> /\ setAt' = [setAt EXCEPT ![k] = kvClock]
    BY <1>2, <1>9 DEF KvSet
  <2>2. usage' = [kv |-> MovedToEnd(u, k), messages |-> m]
    BY <1>3, <2>1
  <2>3. setAt' \in [Keys -> 0..MaxKvClock]
    BY <1>3, <2>1
  <2> QED BY <1>1, <1>3, <1>4, <2>1, <2>2, <2>3, HeldStores
<1>10. ASSUME NEW k \in Keys, KvDelete(k) PROVE StoresIInv'
  <2>1. /\ data' = Omitting(d, {k})
        /\ usage' = [usage EXCEPT !.kv = Omitting(@, {k})]
        /\ UNCHANGED <<kvClock, setAt, store>>
    BY <1>2, <1>10 DEF KvDelete
  <2>2. usage' = [kv |-> Omitting(u, {k}), messages |-> m]
    BY <1>3, <2>1
  <2> QED BY <1>1, <1>3, <1>4, <2>1, <2>2, HeldOmits
<1>11. ASSUME NEW key \in SessionKeys, MessagesSave(key) PROVE StoresIInv'
  <2>1. /\ store' = Capped(MovedToEnd(s, key), MaxSessions)
        /\ usage' = [usage EXCEPT !.messages = MovedToEnd(@, key)]
        /\ UNCHANGED <<kvClock, data, setAt>>
    BY <1>2, <1>11 DEF MessagesSave
  <2>2. usage' = [kv |-> u, messages |-> MovedToEnd(m, key)]
    BY <1>3, <2>1
  <2> QED BY <1>1, <1>3, <1>5, <2>1, <2>2, HeldStores
<1>12. ASSUME NEW X, store' = Omitting(s, X), usage' = [usage EXCEPT !.messages = Omitting(@, X)],
              UNCHANGED <<kvClock, data, setAt>>
       PROVE  StoresIInv'
  <2>1. usage' = [kv |-> u, messages |-> Omitting(m, X)]
    BY <1>3, <1>12
  <2> QED BY <1>1, <1>3, <1>5, <1>12, <2>1, HeldOmits
<1>13. ASSUME NEW key \in SessionKeys, MessagesDelete(key) PROVE StoresIInv'
  BY <1>2, <1>12, <1>13 DEF MessagesDelete
<1>14. ASSUME NEW scope \in Scopes, MessagesClear(scope) PROVE StoresIInv'
  BY <1>2, <1>12, <1>14 DEF MessagesClear
<1>15. CASE UNCHANGED storesVars
  BY <1>15 DEF storesVars, StoresIInv
<1> QED BY <1>6, <1>7, <1>8, <1>9, <1>10, <1>11, <1>13, <1>14, <1>15 DEF StoresNext

LEMMA StoresImply == StoresIInv => StoresTypeOK /\ StoresKeepLatest
<1> SUFFICES ASSUME StoresIInv PROVE StoresTypeOK /\ StoresKeepLatest
  OBVIOUS
<1>1. IsSuffix(data, usage.kv) /\ IsSuffix(store, usage.messages)
  BY EndsIsSuffix DEF StoresIInv, Held
<1>2. ToSet(data) \subseteq Keys /\ ToSet(store) \subseteq SessionKeys
  BY DEF StoresIInv, Held, ToSet
<1> QED BY <1>1, <1>2 DEF StoresIInv, Held, StoresTypeOK, StoresKeepLatest

(* For any sizes, keys and sessions: what a full store gave up was used    *)
(* longest ago.                                                            *)
THEOREM StoresHoldLatest == StoresSpec => [](StoresTypeOK /\ StoresKeepLatest)
<1> QED BY StoresInitHolds, StoresStepHolds, StoresImply, PTL DEF StoresSpec

--------------------------------------------------------------------------------
(***************************************************************************)
(* The checkpoints of the runs used last.                                  *)
(***************************************************************************)

LEMMA GreatestIs ==
  ASSUME NEW n \in Nat, NEW T \in SUBSET (1..n), T # {}
  PROVE  \E x \in T : \A y \in T : y <= x
<1> DEFINE B == {b \in Nat : \A y \in T : y <= b}
<1>1. n \in B /\ B \subseteq Nat
  OBVIOUS
<1>2. PICK b \in B : \A a \in B : b <= a
  BY <1>1, LeastIs
<1>3. b \in Nat /\ \A y \in T : y <= b /\ y \in Nat /\ y >= 1
  OBVIOUS
<1>4. b >= 1
  <2>1. PICK y \in T : TRUE
    OBVIOUS
  <2>2. y <= b /\ y \in Nat /\ y >= 1
    BY <1>3, <2>1
  <2> QED BY <1>3, <2>2
<1>5. b - 1 \notin B
  BY <1>2, <1>3
<1>6. b - 1 \in Nat
  BY <1>3, <1>4
<1>7. PICK y \in T : ~(y <= b - 1)
  BY <1>5, <1>6
<1>8. y = b
  BY <1>3, <1>6, <1>7
<1> QED BY <1>3, <1>7, <1>8

(* One more item, at a position.                                           *)
HasOneMore(o, s, i, x, S) ==
  /\ o \in Seq(S) /\ Len(o) = Len(s) + 1
  /\ \A p \in 1..(Len(s) + 1) : o[p] = IF p < i THEN s[p] ELSE IF p = i THEN x ELSE s[p - 1]

LEMMA InsertFacts ==
  ASSUME NEW S, NEW s \in Seq(S), NEW x \in S, NEW i \in 1..(Len(s) + 1)
  PROVE  HasOneMore(InsertAt(s, i, x), s, i, x, S)
<1>1. PICK m : m = Len(s)
  OBVIOUS
<1>2. m \in Nat /\ DOMAIN s = 1..m /\ i \in 1..(m + 1) /\ i \in Int
  BY <1>1
<1>3. PICK f, g : f = SubSeq(s, 1, i - 1) /\ g = SubSeq(s, i, m)
  OBVIOUS
<1>4. /\ f \in Seq(S) /\ Len(f) = i - 1 /\ \A p \in 1..(i - 1) : f[p] = s[p]
  <2>1. \A p \in 1..(i - 1) : s[p] \in S
    BY <1>2
  <2>2. /\ f \in Seq(S)
        /\ Len(f) = IF 1 <= i - 1 THEN (i - 1) - 1 + 1 ELSE 0
        /\ \A p \in 1..((i - 1) - 1 + 1) : f[p] = s[1 + p - 1]
    BY <1>2, <1>3, <2>1, SubSeqProperties
  <2>3. \A p \in 1..(i - 1) : p \in 1..((i - 1) - 1 + 1) /\ 1 + p - 1 = p
    BY <1>2
  <2> QED BY <1>2, <2>2, <2>3
<1>5. /\ g \in Seq(S) /\ Len(g) = m - i + 1 /\ \A p \in 1..(m - i + 1) : g[p] = s[i + p - 1]
  <2>1. \A p \in i..m : s[p] \in S
    BY <1>2
  <2>2. /\ g \in Seq(S)
        /\ Len(g) = IF i <= m THEN m - i + 1 ELSE 0
        /\ \A p \in 1..(m - i + 1) : g[p] = s[i + p - 1]
    BY <1>2, <1>3, <2>1, SubSeqProperties
  <2> QED BY <1>2, <2>2
<1>6. PICK e : e = f \o <<x>>
  OBVIOUS
<1>7. /\ e \in Seq(S) /\ Len(e) = i
      /\ \A p \in 1..i : e[p] = IF p < i THEN s[p] ELSE x
  <2>1. <<x>> \in Seq(S) /\ Len(<<x>>) = 1 /\ <<x>>[1] = x
    OBVIOUS
  <2>2. e \in Seq(S) /\ Len(e) = (i - 1) + 1
    BY <1>4, <1>6, <2>1
  <2>3. \A p \in 1..((i - 1) + 1) : e[p] = IF p <= i - 1 THEN f[p] ELSE <<x>>[p - (i - 1)]
    <3>1. PICK y : y = <<x>>
      OBVIOUS
    <3>2. \A p \in 1..(Len(f) + Len(y)) : (f \o y)[p] = IF p <= Len(f) THEN f[p] ELSE y[p - Len(f)]
      BY <1>4, <2>1, <3>1, ConcatProperties
    <3> QED BY <1>4, <1>6, <2>1, <3>1, <3>2
  <2>4. ASSUME NEW p \in 1..i PROVE e[p] = IF p < i THEN s[p] ELSE x
    <3>1. p \in 1..((i - 1) + 1)
      BY <1>2
    <3>2. CASE p < i
      <4>1. p \in 1..(i - 1) /\ p <= i - 1
        BY <1>2, <3>2
      <4> QED BY <1>4, <2>3, <3>1, <3>2, <4>1
    <3>3. CASE ~(p < i)
      <4>1. p = i /\ ~(p <= i - 1) /\ p - (i - 1) = 1
        BY <1>2, <3>3
      <4>2. e[p] = <<x>>[p - (i - 1)]
        BY <2>3, <3>1, <4>1
      <4> QED BY <3>3, <4>1, <4>2
    <3> QED BY <3>2, <3>3
  <2> QED BY <1>2, <2>2, <2>4
<1>8. PICK o : o = e \o g
  OBVIOUS
<1>9. o = InsertAt(s, i, x)
  BY <1>1, <1>3, <1>6, <1>8 DEF InsertAt
<1>11. /\ o \in Seq(S) /\ Len(o) = Len(e) + Len(g)
       /\ \A p \in 1..(Len(e) + Len(g)) : o[p] = IF p <= Len(e) THEN e[p] ELSE g[p - Len(e)]
  BY <1>5, <1>7, <1>8, ConcatProperties
<1>13. \A p \in 1..(i + (m - i + 1)) : o[p] = IF p <= i THEN e[p] ELSE g[p - i]
  BY <1>5, <1>7, <1>11
<1>10. o \in Seq(S) /\ Len(o) = m + 1
  <2>1. Len(e) = i /\ Len(g) = m - i + 1
    BY <1>5, <1>7
  <2>2. Len(o) = i + (m - i + 1)
    BY <1>11, <2>1
  <2>3. i + (m - i + 1) = m + 1
    BY <1>2
  <2> QED BY <1>11, <2>2, <2>3
<1>12. ASSUME NEW p \in 1..(m + 1)
       PROVE  o[p] = IF p < i THEN s[p] ELSE IF p = i THEN x ELSE s[p - 1]
  <2>1. p \in 1..(i + (m - i + 1))
    BY <1>2
  <2>2. CASE p <= i
    <3>1. p \in 1..i /\ o[p] = e[p]
      BY <1>2, <1>13, <2>1, <2>2
    <3>2. p < i \/ p = i
      BY <1>2, <2>2
    <3> QED BY <1>2, <1>7, <3>1, <3>2
  <2>3. CASE ~(p <= i)
    <3>1. o[p] = g[p - i] /\ p - i \in 1..(m - i + 1) /\ i + (p - i) - 1 = p - 1
      BY <1>2, <1>13, <2>1, <2>3
    <3>2. o[p] = s[p - 1]
      BY <1>5, <3>1
    <3> QED BY <1>2, <2>3, <3>2
  <2> QED BY <2>2, <2>3
<1> QED BY <1>1, <1>9, <1>10, <1>12 DEF HasOneMore

LEMMA CkFacts ==
  /\ MaxPerRun \in Nat /\ MaxPerRun > 0 /\ MaxCkRuns \in Nat /\ MaxCkRuns > 0 /\ MaxSaves \in Nat
  /\ \A c \in Checkpoints : c.sequence \in Nat
<1>1. /\ MaxPerRun \in Nat /\ MaxPerRun > 0 /\ MaxCkRuns \in Nat /\ MaxCkRuns > 0 /\ MaxSaves \in Nat
  BY CheckpointAssumption
<1>2. \A c \in Checkpoints : c.sequence \in Nat
  BY CheckpointAssumption DEF Checkpoints
<1> QED BY <1>1, <1>2

(* The place of a new checkpoint: after all that are not after it.         *)
NotAfter(items, c) == {i \in 1..Len(items) : items[i].sequence <= c.sequence}
LastNotAfter(items, c) == IF NotAfter(items, c) # {} THEN Max(NotAfter(items, c)) ELSE 0

LEMMA InsertedAt ==
  ASSUME NEW items, NEW c
  PROVE  Inserted(items, c) = InsertAt(items, LastNotAfter(items, c) + 1, c)
BY DEF Inserted, SelectLastInSeq, LastNotAfter, NotAfter

LEMMA PlaceOfNew ==
  ASSUME NEW items \in Seq(Checkpoints), NEW c \in Checkpoints, NEW u, u = LastNotAfter(items, c)
  PROVE  /\ u \in 0..Len(items)
         /\ u > 0 => items[u].sequence <= c.sequence
         /\ \A p \in 1..Len(items) : p > u => ~(items[p].sequence <= c.sequence)
<1>1. PICK I : I = {i \in 1..Len(items) : items[i].sequence <= c.sequence}
  OBVIOUS
<1>2. u = IF I # {} THEN Max(I) ELSE 0
  BY <1>1 DEF LastNotAfter, NotAfter
<1>3. Len(items) \in Nat /\ I \in SUBSET (1..Len(items))
  BY <1>1
<1>4. CASE I = {}
  <2>1. u = 0
    BY <1>2, <1>4
  <2>2. \A p \in 1..Len(items) : ~(items[p].sequence <= c.sequence)
    BY <1>1, <1>4
  <2> QED BY <1>3, <2>1, <2>2
<1>5. CASE I # {}
  <2>1. \E x \in I : \A y \in I : y <= x
    BY <1>3, <1>5, GreatestIs
  <2>2. u \in I /\ \A y \in I : y <= u
    <3>1. u = CHOOSE x \in I : \A y \in I : x >= y
      BY <1>2, <1>5 DEF Max
    <3>2. \E x \in I : \A y \in I : x >= y
      BY <1>3, <2>1
    <3>3. u \in I /\ \A y \in I : u >= y
      BY <3>1, <3>2
    <3> QED BY <1>3, <3>3
  <2>3. u \in 1..Len(items) /\ \A p \in I : p \in Int
    BY <1>3, <2>2
  <2>4. \A p \in 1..Len(items) : p > u => p \notin I
    BY <2>2, <2>3
  <2>5. items[u].sequence <= c.sequence
    BY <1>1, <2>2
  <2>6. \A p \in 1..Len(items) : p > u => ~(items[p].sequence <= c.sequence)
    BY <1>1, <2>4
  <2> QED BY <1>3, <2>3, <2>5, <2>6
<1> QED BY <1>4, <1>5

(* What a run has kept of all it saved.                                    *)
Highest(items, all) ==
  /\ Len(items) = IF Len(all) < MaxPerRun THEN Len(all) ELSE MaxPerRun
  /\ \E at \in [DOMAIN items -> DOMAIN all] : LastOf(items, all, at)

(* The order of the saves, of two that are different.                      *)
LEMMA BeforeIsOrder ==
  ASSUME NEW all \in Seq(Checkpoints), NEW i \in DOMAIN all, NEW j \in DOMAIN all
  PROVE  /\ Before(all, i, j) => ~Before(all, j, i) /\ i # j
         /\ Before(all, i, j) => all[i].sequence <= all[j].sequence
<1>1. i \in Nat /\ j \in Nat /\ all[i].sequence \in Nat /\ all[j].sequence \in Nat
  BY CkFacts
<1> QED BY <1>1 DEF Before

LEMMA BeforeGrows ==
  ASSUME NEW all \in Seq(Checkpoints), NEW c \in Checkpoints, NEW i \in DOMAIN all, NEW j \in DOMAIN all
  PROVE  Before(Append(all, c), i, j) <=> Before(all, i, j)
<1>1. Append(all, c)[i] = all[i] /\ Append(all, c)[j] = all[j]
  OBVIOUS
<1> QED BY <1>1 DEF Before

(* A new checkpoint in its place: only the first of the items may not be   *)
(* of the highest, and only when some were given up.                       *)
InsertedWell(ins, all, at, m, n) ==
  /\ at \in [1..(m + 1) -> 1..(n + 1)]
  /\ \A p \in 1..(m + 1) : ins[p] = all[at[p]]
  /\ \A p, q \in 1..(m + 1) : p < q => Before(all, at[p], at[q])
  /\ \A j \in 1..(n + 1) : \A p \in 1..(m + 1) :
       p > 1 \/ m = n => Before(all, j, at[p]) \/ \E q \in 1..(m + 1) : at[q] = j

LEMMA InsertedLemma ==
  ASSUME NEW items \in Seq(Checkpoints), NEW all \in Seq(Checkpoints), NEW c \in Checkpoints,
         NEW at, LastOf(items, all, at), NEW m, NEW n, m = Len(items), n = Len(all)
  PROVE  /\ Inserted(items, c) \in Seq(Checkpoints) /\ Len(Inserted(items, c)) = m + 1
         /\ \E a : InsertedWell(Inserted(items, c), Append(all, c), a, m, n)
<1>1. m \in Nat /\ n \in Nat /\ DOMAIN items = 1..m /\ DOMAIN all = 1..n
  OBVIOUS
<1>2. /\ at \in [1..m -> 1..n] /\ \A p \in 1..m : items[p] = all[at[p]]
      /\ \A p, q \in 1..m : p < q => Before(all, at[p], at[q])
      /\ \A j \in 1..n : \A p \in 1..m : Before(all, j, at[p]) \/ \E q \in 1..m : at[q] = j
  BY <1>1 DEF LastOf
<1>3. PICK u : u = LastNotAfter(items, c)
  OBVIOUS
<1>4. /\ u \in 0..m /\ (u > 0 => items[u].sequence <= c.sequence)
      /\ \A p \in 1..m : p > u => ~(items[p].sequence <= c.sequence)
  BY <1>3, PlaceOfNew
<1>5. PICK ins : ins = Inserted(items, c)
  OBVIOUS
<1>6. ins = InsertAt(items, u + 1, c)
  BY <1>3, <1>5, InsertedAt
<1>7. u + 1 \in 1..(m + 1) /\ u \in Nat
  BY <1>1, <1>4
<1>28. u + 1 \in 1..(Len(items) + 1)
  BY <1>7
<1>8. /\ ins \in Seq(Checkpoints) /\ Len(ins) = m + 1
      /\ \A p \in 1..(m + 1) :
           ins[p] = IF p < u + 1 THEN items[p] ELSE IF p = u + 1 THEN c ELSE items[p - 1]
  <2>1. PICK i \in 1..(Len(items) + 1) : i = u + 1
    BY <1>28
  <2>2. HasOneMore(InsertAt(items, i, c), items, i, c, Checkpoints)
    BY InsertFacts
  <2>3. HasOneMore(ins, items, u + 1, c, Checkpoints)
    BY <1>6, <2>1, <2>2
  <2> QED BY <2>3 DEF HasOneMore
<1>9. PICK new : new = Append(all, c)
  OBVIOUS
<1>10. /\ new \in Seq(Checkpoints) /\ Len(new) = n + 1 /\ DOMAIN new = 1..(n + 1)
       /\ new[n + 1] = c /\ \A j \in 1..n : new[j] = all[j]
  BY <1>1, <1>9
<1>11. \A i, j \in 1..n : Before(new, i, j) <=> Before(all, i, j)
  BY <1>1, <1>9, BeforeGrows
<1>12. PICK a : a = [p \in 1..(m + 1) |-> IF p < u + 1 THEN at[p] ELSE IF p = u + 1 THEN n + 1 ELSE at[p - 1]]
  OBVIOUS
<1>13. \A p \in 1..(m + 1) : \/ p < u + 1 /\ p \in 1..m /\ p <= u
                             \/ p = u + 1
                             \/ ~(p < u + 1) /\ p # u + 1 /\ p - 1 \in 1..m /\ p - 1 > u
  BY <1>1, <1>7
<1>14. \A j \in 1..n : j \in 1..(n + 1) /\ j < n + 1
  BY <1>1
<1>15. n + 1 \in 1..(n + 1) /\ c.sequence \in Nat
  BY <1>1, CkFacts
<1>16. \A p \in 1..m : at[p] \in 1..n /\ items[p].sequence \in Nat /\ new[at[p]] = items[p]
  BY SMTT(40), <1>1, <1>2, <1>10, CkFacts
<1>17. ASSUME NEW p \in 1..(m + 1) PROVE a[p] \in 1..(n + 1) /\ ins[p] = new[a[p]]
  <2>1. CASE p < u + 1 /\ p \in 1..m
    <3>1. a[p] = at[p] /\ ins[p] = items[p]
      BY <1>8, <1>12, <2>1
    <3> QED BY <1>14, <1>16, <2>1, <3>1
  <2>2. CASE p = u + 1
    <3>1. a[p] = n + 1 /\ ins[p] = c
      BY <1>7, <1>8, <1>12, <2>2
    <3> QED BY <1>10, <1>15, <3>1
  <2>3. CASE ~(p < u + 1) /\ p # u + 1 /\ p - 1 \in 1..m
    <3>1. a[p] = at[p - 1] /\ ins[p] = items[p - 1]
      BY <1>8, <1>12, <2>3
    <3> QED BY <1>14, <1>16, <2>3, <3>1
  <2> QED BY <1>13, <2>1, <2>2, <2>3
<1>18. a \in [1..(m + 1) -> 1..(n + 1)]
  BY <1>12, <1>17
<1>19. ASSUME NEW p \in 1..m, p <= u PROVE items[p].sequence <= c.sequence
  <2>1. u \in 1..m /\ items[u].sequence <= c.sequence
    BY <1>1, <1>4, <1>7, <1>19
  <2>2. CASE p = u
    BY <2>1, <2>2
  <2>3. CASE p # u
    <3>1. p < u
      BY <1>7, <1>19, <2>3
    <3>2. Before(all, at[p], at[u])
      BY <1>2, <2>1, <3>1
    <3>3. all[at[p]].sequence <= all[at[u]].sequence
      BY <1>1, <1>16, <2>1, <3>2, BeforeIsOrder
    <3>4. items[p].sequence <= items[u].sequence
      BY <1>2, <2>1, <3>3
    <3> QED BY <1>15, <1>16, <2>1, <3>4
  <2> QED BY <2>2, <2>3
<1>20. ASSUME NEW j \in 1..n, all[j].sequence <= c.sequence PROVE Before(new, j, n + 1)
  <2>1. all[j].sequence \in Nat /\ j < n + 1 /\ new[j] = all[j] /\ new[n + 1] = c
    BY <1>1, <1>10, <1>14, CkFacts
  <2> QED BY <1>15, <1>20, <2>1 DEF Before
<1>21. ASSUME NEW p \in 1..m, p > u PROVE Before(new, n + 1, at[p])
  <2>1. c.sequence < items[p].sequence
    BY <1>4, <1>15, <1>16, <1>21
  <2> QED BY <1>10, <1>16, <2>1 DEF Before
<1>22. ASSUME NEW p \in 1..(m + 1), NEW q \in 1..(m + 1), p < q PROVE Before(new, a[p], a[q])
  <2>1. CASE q <= u
    <3>1. p \in 1..m /\ q \in 1..m /\ p < u + 1 /\ q < u + 1
      BY <1>1, <1>4, <1>7, <1>22, <2>1
    <3>2. a[p] = at[p] /\ a[q] = at[q]
      BY <1>12, <3>1
    <3> QED BY <1>2, <1>11, <1>16, <1>22, <3>1, <3>2
  <2>2. CASE q = u + 1
    <3>1. p \in 1..m /\ p <= u /\ p < u + 1
      BY <1>1, <1>4, <1>7, <1>22, <2>2
    <3>2. a[p] = at[p] /\ a[q] = n + 1
      BY <1>7, <1>12, <2>2, <3>1
    <3>3. all[at[p]].sequence <= c.sequence
      BY <1>2, <1>19, <3>1
    <3> QED BY <1>16, <1>20, <3>1, <3>2, <3>3
  <2>3. CASE q > u + 1 /\ p = u + 1
    <3>1. q - 1 \in 1..m /\ q - 1 > u /\ ~(q < u + 1) /\ q # u + 1
      BY <1>1, <1>7, <2>3
    <3>2. a[p] = n + 1 /\ a[q] = at[q - 1]
      BY <1>7, <1>12, <2>3, <3>1
    <3> QED BY <1>21, <3>1, <3>2
  <2>4. CASE q > u + 1 /\ p <= u
    <3>1. q - 1 \in 1..m /\ ~(q < u + 1) /\ q # u + 1 /\ p \in 1..m /\ p < u + 1 /\ p < q - 1
      BY <1>1, <1>4, <1>7, <2>4
    <3>2. a[p] = at[p] /\ a[q] = at[q - 1]
      BY <1>12, <3>1
    <3> QED BY <1>2, <1>11, <1>16, <3>1, <3>2
  <2>5. CASE q > u + 1 /\ p > u + 1
    <3>1. /\ q - 1 \in 1..m /\ ~(q < u + 1) /\ q # u + 1
          /\ p - 1 \in 1..m /\ ~(p < u + 1) /\ p # u + 1 /\ p - 1 < q - 1
      BY <1>1, <1>7, <1>22, <2>5
    <3>2. a[p] = at[p - 1] /\ a[q] = at[q - 1]
      BY <1>12, <3>1
    <3> QED BY <1>2, <1>11, <1>16, <3>1, <3>2
  <2>6. \/ q <= u
        \/ q = u + 1
        \/ q > u + 1 /\ p = u + 1
        \/ q > u + 1 /\ p <= u
        \/ q > u + 1 /\ p > u + 1
    <3>1. p \in Int /\ q \in Int /\ u \in Int
      BY <1>7
    <3> QED BY <3>1
  <2> QED BY <2>1, <2>2, <2>3, <2>4, <2>5, <2>6
<1>23. \A q \in 1..m : \E l \in 1..(m + 1) : a[l] = at[q]
  <2> SUFFICES ASSUME NEW q \in 1..m PROVE \E l \in 1..(m + 1) : a[l] = at[q]
    OBVIOUS
  <2>1. CASE q < u + 1
    <3>1. q \in 1..(m + 1)
      BY <1>1
    <3> QED BY <1>12, <2>1, <3>1
  <2>2. CASE ~(q < u + 1)
    <3>1. q + 1 \in 1..(m + 1) /\ ~(q + 1 < u + 1) /\ q + 1 # u + 1 /\ (q + 1) - 1 = q
      BY <1>1, <1>7, <2>2
    <3> QED BY <1>12, <3>1
  <2> QED BY <2>1, <2>2
<1>24. a[u + 1] = n + 1
  BY <1>7, <1>12
<1>25. ASSUME m = n PROVE \A j \in 1..n : \E q \in 1..m : at[q] = j
  <2>1. \A p, q \in 1..m : at[p] = at[q] => p = q
    <3> SUFFICES ASSUME NEW p \in 1..m, NEW q \in 1..m, at[p] = at[q], p # q PROVE FALSE
      OBVIOUS
    <3>1. p < q \/ q < p
      BY <1>1
    <3>2. Before(all, at[p], at[q]) \/ Before(all, at[q], at[p])
      BY <1>2, <3>1
    <3>3. at[p] # at[q]
      BY <1>1, <1>16, <3>2, BeforeIsOrder
    <3> QED BY <3>3
  <2>2. at \in Injection(1..m, 1..n)
    BY <1>2, <2>1 DEF Injection, IsInjective
  <2>3. IsFiniteSet(1..n) /\ Cardinality(1..n) = n
    BY <1>1, FiniteInterval
  <2>4. at \in Surjection(1..m, 1..n)
    BY <1>25, <2>2, <2>3, FS_Injection
  <2> QED BY <2>4 DEF Surjection
<1>26. ASSUME NEW j \in 1..(n + 1), NEW p \in 1..(m + 1), p > 1 \/ m = n,
              ~ \E q \in 1..(m + 1) : a[q] = j
       PROVE  Before(new, j, a[p])
  <2>1. j \in 1..n
    BY <1>1, <1>7, <1>24, <1>26
  <2>2. \A q \in 1..m : at[q] # j
    BY <1>23, <1>26
  <2>3. \A q \in 1..m : Before(all, j, at[q])
    BY <1>2, <2>1, <2>2
  <2>4. \A q \in 1..m : Before(new, j, at[q])
    BY <1>11, <1>16, <2>1, <2>3
  <2>5. CASE p = u + 1
    <3>1. m # n
      BY <1>25, <2>1, <2>2
    <3>2. u > 0 /\ u \in 1..m
      BY <1>4, <1>7, <1>26, <2>5, <3>1
    <3>3. Before(all, j, at[u])
      BY <2>3, <3>2
    <3>4. all[j].sequence <= all[at[u]].sequence
      BY <1>1, <1>16, <2>1, <3>2, <3>3, BeforeIsOrder
    <3>5. items[u].sequence <= c.sequence /\ all[at[u]] = items[u]
      BY <1>2, <1>4, <3>2
    <3>6. all[j].sequence \in Nat /\ items[u].sequence \in Nat
      BY <1>1, <1>16, <2>1, <3>2, CkFacts
    <3>7. all[j].sequence <= c.sequence
      BY <1>15, <3>4, <3>5, <3>6
    <3> QED BY <1>20, <1>24, <2>1, <2>5, <3>7
  <2>6. CASE p < u + 1 /\ p \in 1..m
    <3>1. a[p] = at[p]
      BY <1>12, <2>6
    <3> QED BY <2>4, <2>6, <3>1
  <2>7. CASE ~(p < u + 1) /\ p # u + 1 /\ p - 1 \in 1..m
    <3>1. a[p] = at[p - 1]
      BY <1>12, <2>7
    <3> QED BY <2>4, <2>7, <3>1
  <2> QED BY <1>13, <2>5, <2>6, <2>7
<1>27. InsertedWell(ins, new, a, m, n)
  BY <1>17, <1>18, <1>22, <1>26 DEF InsertedWell
<1> QED BY <1>5, <1>8, <1>9, <1>27

LEMMA EmptyIsHighest == Highest(<<>>, <<>>)
<1>1. PICK e : e = <<>>
  OBVIOUS
<1>2. Len(e) = 0 /\ DOMAIN e = {} /\ MaxPerRun > 0 /\ MaxPerRun \in Nat /\ e \in [{} -> {}]
  BY <1>1, CkFacts
<1>3. LastOf(e, e, e)
  BY <1>2 DEF LastOf
<1>4. \E at \in [DOMAIN e -> DOMAIN e] : LastOf(e, e, at)
  BY <1>2, <1>3
<1>5. Highest(e, e)
  BY <1>2, <1>4 DEF Highest
<1> QED BY <1>1, <1>5

LEMMA SaveKeepsHighest ==
  ASSUME NEW items \in Seq(Checkpoints), NEW all \in Seq(Checkpoints), NEW c \in Checkpoints,
         Highest(items, all)
  PROVE  /\ Trimmed(Inserted(items, c)) \in Seq(Checkpoints)
         /\ Trimmed(Inserted(items, c)) # <<>>
         /\ Append(all, c) \in Seq(Checkpoints)
         /\ Highest(Trimmed(Inserted(items, c)), Append(all, c))
<1>1. PICK m, n : m = Len(items) /\ n = Len(all)
  OBVIOUS
<1>2. m \in Nat /\ n \in Nat /\ DOMAIN items = 1..m /\ DOMAIN all = 1..n
  BY <1>1
<1>3. MaxPerRun \in Nat /\ MaxPerRun > 0 /\ m = IF n < MaxPerRun THEN n ELSE MaxPerRun
  BY <1>1, CkFacts DEF Highest
<1>4. PICK at : LastOf(items, all, at)
  BY DEF Highest
<1>5. PICK ins, new : ins = Inserted(items, c) /\ new = Append(all, c)
  OBVIOUS
<1>6. /\ ins \in Seq(Checkpoints) /\ Len(ins) = m + 1
      /\ \E a : InsertedWell(ins, new, a, m, n)
  BY <1>1, <1>4, <1>5, InsertedLemma
<1>7. PICK a : InsertedWell(ins, new, a, m, n)
  BY <1>6
<1>8. /\ a \in [1..(m + 1) -> 1..(n + 1)]
      /\ \A p \in 1..(m + 1) : ins[p] = new[a[p]]
      /\ \A p, q \in 1..(m + 1) : p < q => Before(new, a[p], a[q])
      /\ \A j \in 1..(n + 1) : \A p \in 1..(m + 1) :
           p > 1 \/ m = n => Before(new, j, a[p]) \/ \E q \in 1..(m + 1) : a[q] = j
  BY <1>7 DEF InsertedWell
<1>9. new \in Seq(Checkpoints) /\ Len(new) = n + 1 /\ DOMAIN new = 1..(n + 1)
  BY <1>1, <1>2, <1>5
<1>10. PICK it : it = Trimmed(ins)
  OBVIOUS
<1>11. it = Capped(ins, MaxPerRun)
  BY <1>10 DEF Trimmed
<1>12. it \in Seq(Checkpoints) /\ Ends(it, ins)
  BY <1>3, <1>6, <1>11, CapFacts
<1>13. Len(it) = IF m + 1 > MaxPerRun THEN MaxPerRun ELSE m + 1
  BY <1>3, <1>6, <1>11, CapFacts
<1>14. Len(it) > 0
  BY <1>2, <1>3, <1>13
<1>15. Len(it) = IF n + 1 < MaxPerRun THEN n + 1 ELSE MaxPerRun
  BY <1>2, <1>3, <1>13
<1>16. PICK k \in Nat : m + 1 = k + Len(it) /\ \A i \in 1..Len(it) : it[i] = ins[k + i]
  BY <1>6, <1>12 DEF Ends
<1>17. Len(it) \in Nat /\ DOMAIN it = 1..Len(it)
  BY <1>12
<1>18. \/ k = 0 /\ m = n
       \/ k = 1
  BY <1>2, <1>3, <1>13, <1>16
<1>19. \A i \in 1..Len(it) : k + i \in 1..(m + 1)
  BY <1>2, <1>16, <1>17
<1>20. PICK b : b = [i \in 1..Len(it) |-> a[k + i]]
  OBVIOUS
<1>21. b \in [1..Len(it) -> 1..(n + 1)] /\ \A i \in 1..Len(it) : it[i] = new[b[i]]
  BY <1>8, <1>16, <1>19, <1>20
<1>22. ASSUME NEW p \in 1..Len(it), NEW q \in 1..Len(it), p < q PROVE Before(new, b[p], b[q])
  <2>1. k + p < k + q
    BY <1>17, <1>22
  <2> QED BY <1>8, <1>19, <1>20, <2>1
<1>23. ASSUME NEW j \in 1..(n + 1), NEW p \in 1..Len(it), ~Before(new, j, b[p])
       PROVE  \E q \in 1..Len(it) : b[q] = j
  <2>1. b[p] = a[k + p] /\ k + p \in 1..(m + 1)
    BY <1>19, <1>20
  <2>2. k + p > 1 \/ m = n
    BY <1>17, <1>18
  <2>3. PICK q \in 1..(m + 1) : a[q] = j
    BY <1>8, <1>23, <2>1, <2>2
  <2>4. CASE q > k
    <3>1. q - k \in 1..Len(it) /\ k + (q - k) = q
      BY <1>2, <1>16, <1>17, <2>4
    <3> QED BY <1>20, <2>3, <3>1
  <2>5. CASE ~(q > k)
    <3>1. q < k + p
      BY <1>17, <2>5
    <3> QED BY <1>8, <1>23, <2>1, <2>3, <3>1
  <2> QED BY <2>4, <2>5
<1>24. LastOf(it, new, b)
  BY <1>9, <1>17, <1>21, <1>22, <1>23 DEF LastOf
<1>25. Highest(it, new)
  BY <1>9, <1>15, <1>17, <1>21, <1>24 DEF Highest
<1>26. it # <<>>
  BY <1>14
<1> QED BY <1>5, <1>9, <1>10, <1>12, <1>25, <1>26

(* The run least recently used goes where there are too many.              *)
LEMMA OneGivenUp ==
  ASSUME NEW S, NEW q \in Seq(S), IsInjective(q), NEW max \in Nat, max > 0, Len(q) <= max + 1
  PROVE  ToSet(Capped(q, max)) = ToSet(q) \ (IF Len(q) > max THEN {Head(q)} ELSE {})
<1>1. PICK n, c : n = Len(q) /\ c = Capped(q, max)
  OBVIOUS
<1>2. n \in Nat /\ DOMAIN q = 1..n /\ n <= max + 1
  BY <1>1
<1>3. c \in Seq(S) /\ Len(c) = (IF n > max THEN max ELSE n) /\ Ends(c, q)
  BY <1>1, CapFacts
<1>4. PICK k \in Nat : n = k + Len(c) /\ \A i \in 1..Len(c) : c[i] = q[k + i]
  BY <1>1, <1>3 DEF Ends
<1>5. DOMAIN c = 1..Len(c) /\ Len(c) \in Nat
  BY <1>3
<1>6. ToSet(c) = {c[i] : i \in 1..Len(c)} /\ ToSet(q) = {q[i] : i \in 1..n}
  BY <1>2, <1>5 DEF ToSet
<1>7. CASE ~(n > max)
  <2>1. k = 0 /\ Len(c) = n
    BY <1>2, <1>3, <1>4, <1>7
  <2>2. \A i \in 1..n : c[i] = q[i]
    BY <1>4, <2>1
  <2> QED BY <1>1, <1>6, <1>7, <2>1, <2>2
<1>8. CASE n > max
  <2>1. k = 1 /\ Len(c) = n - 1 /\ 1 \in 1..n
    BY <1>2, <1>3, <1>4, <1>8
  <2>2. \A i \in 1..(n - 1) : c[i] = q[1 + i] /\ 1 + i \in 1..n /\ 1 + i # 1
    BY <1>2, <1>4, <2>1
  <2>3. \A i \in 1..n : i = 1 \/ (i - 1 \in 1..(n - 1) /\ 1 + (i - 1) = i)
    BY <1>2
  <2>4. \A i, j \in 1..n : q[i] = q[j] => i = j
    BY <1>2 DEF IsInjective
  <2>5. Head(q) = q[1]
    BY <1>1, <1>2, <2>1
  <2>6. ToSet(c) = ToSet(q) \ {q[1]}
    <3>1. \A i \in 1..(n - 1) : c[i] \in ToSet(q) /\ c[i] # q[1]
      BY <1>6, <2>1, <2>2, <2>4
    <3>2. \A i \in 1..n : i # 1 => q[i] \in ToSet(c)
      <4> SUFFICES ASSUME NEW i \in 1..n, i # 1 PROVE q[i] \in ToSet(c)
        OBVIOUS
      <4>1. i - 1 \in 1..(n - 1) /\ 1 + (i - 1) = i
        BY <2>3
      <4>2. c[i - 1] = q[i]
        BY <2>2, <4>1
      <4> QED BY <1>6, <2>1, <4>1, <4>2
    <3> QED BY <1>6, <2>1, <3>1, <3>2
  <2> QED BY <1>1, <1>8, <2>5, <2>6
<1> QED BY <1>7, <1>8

(* What is kept of a run are the highest of all it saved, newest last; the *)
(* runs that have some are those of the order of use.                      *)
CheckpointIInv ==
  /\ ckCount \in 0..MaxSaves
  /\ ckOrder \in Seq(CkRuns) /\ IsInjective(ckOrder) /\ Len(ckOrder) <= MaxCkRuns
  /\ ckItems \in [CkRuns -> Seq(Checkpoints)] /\ ckSaved \in [CkRuns -> Seq(Checkpoints)]
  /\ \A r \in CkRuns : /\ ckItems[r] # <<>> <=> r \in ToSet(ckOrder)
                       /\ Highest(ckItems[r], ckSaved[r])

LEMMA CheckpointInitHolds == CheckpointInit => CheckpointIInv
<1> SUFFICES ASSUME CheckpointInit PROVE CheckpointIInv
  OBVIOUS
<1>1. MaxCkRuns \in Nat /\ MaxSaves \in Nat
  BY CkFacts
<1>2. /\ ckOrder = <<>> /\ ckCount = 0
      /\ ckItems = [r \in CkRuns |-> <<>>] /\ ckSaved = [r \in CkRuns |-> <<>>]
  BY DEF CheckpointInit
<1>3. <<>> \in Seq(CkRuns) /\ IsInjective(<<>>) /\ Len(<<>>) = 0 /\ ToSet(<<>>) = {} /\ <<>> \in Seq(Checkpoints)
  BY DEF IsInjective, ToSet
<1> QED BY <1>1, <1>2, <1>3, EmptyIsHighest DEF CheckpointIInv

LEMMA RunsDropped ==
  ASSUME CheckpointIInv, NEW R, NEW f \in [CkRuns -> Seq(Checkpoints)]
  PROVE  /\ Dropped(f, R) \in [CkRuns -> Seq(Checkpoints)]
         /\ \A r \in CkRuns : Dropped(f, R)[r] = IF r \in R THEN <<>> ELSE f[r]
BY DEF Dropped

LEMMA CheckpointSaved ==
  ASSUME CheckpointIInv, NEW r \in CkRuns, NEW c \in Checkpoints, SaveCheckpoint(r, c)
  PROVE  CheckpointIInv'
<1>1. MaxCkRuns \in Nat /\ MaxCkRuns > 0 /\ MaxSaves \in Nat
  BY CkFacts
<1>2. /\ ckCount \in 0..MaxSaves
      /\ ckOrder \in Seq(CkRuns) /\ IsInjective(ckOrder) /\ Len(ckOrder) <= MaxCkRuns
      /\ ckItems \in [CkRuns -> Seq(Checkpoints)] /\ ckSaved \in [CkRuns -> Seq(Checkpoints)]
      /\ \A q \in CkRuns : /\ ckItems[q] # <<>> <=> q \in ToSet(ckOrder)
                           /\ Highest(ckItems[q], ckSaved[q])
  BY DEF CheckpointIInv
<1>3. PICK grown : grown = MovedToEnd(ckOrder, r)
  OBVIOUS
<1>4. PICK gone : gone = IF Len(grown) > MaxCkRuns THEN {Head(grown)} ELSE {}
  OBVIOUS
<1>5. PICK f, g : f = [ckItems EXCEPT ![r] = Trimmed(Inserted(@, c))]
                  /\ g = [ckSaved EXCEPT ![r] = Append(@, c)]
  OBVIOUS
<1>6. /\ ckCount < MaxSaves /\ ckCount' = ckCount + 1 /\ ckOrder' = Capped(grown, MaxCkRuns)
      /\ ckItems' = Dropped(f, gone) /\ ckSaved' = Dropped(g, gone)
  BY <1>3, <1>4, <1>5 DEF SaveCheckpoint, Used
<1>7. /\ grown \in Seq(CkRuns) /\ Len(grown) <= Len(ckOrder) + 1 /\ IsInjective(grown)
      /\ ToSet(grown) = ToSet(ckOrder) \cup {r}
  <2>1. PICK old : old = ckOrder
    OBVIOUS
  <2>2. old \in Seq(CkRuns) /\ IsInjective(old)
    BY <1>2, <2>1
  <2>3. /\ MovedToEnd(old, r) \in Seq(CkRuns) /\ Len(MovedToEnd(old, r)) <= Len(old) + 1
        /\ ToSet(MovedToEnd(old, r)) = ToSet(old) \cup {r}
        /\ IsInjective(old) => IsInjective(MovedToEnd(old, r))
    BY <2>2, MoveFacts
  <2> QED BY <1>3, <2>1, <2>2, <2>3
<1>8. PICK new : new = Capped(grown, MaxCkRuns)
  OBVIOUS
<1>9. new \in Seq(CkRuns) /\ IsInjective(new) /\ Len(new) <= MaxCkRuns
  BY <1>1, <1>7, <1>8, CapFacts
<1>10. ToSet(new) = (ToSet(ckOrder) \cup {r}) \ gone
  <2>1. Len(grown) \in Nat /\ Len(ckOrder) \in Nat
    BY <1>2, <1>7
  <2>2. Len(grown) <= MaxCkRuns + 1
    BY <1>1, <1>2, <1>7, <2>1
  <2> QED BY <1>1, <1>4, <1>7, <1>8, <2>2, OneGivenUp
<1>11. PICK items, all : items = ckItems[r] /\ all = ckSaved[r]
  OBVIOUS
<1>12. items \in Seq(Checkpoints) /\ all \in Seq(Checkpoints) /\ Highest(items, all)
  BY <1>2, <1>11
<1>13. /\ Trimmed(Inserted(items, c)) \in Seq(Checkpoints) /\ Trimmed(Inserted(items, c)) # <<>>
       /\ Append(all, c) \in Seq(Checkpoints)
       /\ Highest(Trimmed(Inserted(items, c)), Append(all, c))
  BY <1>12, SaveKeepsHighest
<1>14. /\ f[r] = Trimmed(Inserted(items, c)) /\ g[r] = Append(all, c)
       /\ \A q \in CkRuns : q # r => f[q] = ckItems[q] /\ g[q] = ckSaved[q]
  BY <1>2, <1>5, <1>11
<1>15. f \in [CkRuns -> Seq(Checkpoints)] /\ g \in [CkRuns -> Seq(Checkpoints)]
  BY <1>2, <1>5, <1>11, <1>13
<1>16. /\ Dropped(f, gone) \in [CkRuns -> Seq(Checkpoints)]
       /\ Dropped(g, gone) \in [CkRuns -> Seq(Checkpoints)]
       /\ \A q \in CkRuns : /\ Dropped(f, gone)[q] = IF q \in gone THEN <<>> ELSE f[q]
                            /\ Dropped(g, gone)[q] = IF q \in gone THEN <<>> ELSE g[q]
  BY <1>15, RunsDropped
<1>17. ASSUME NEW q \in CkRuns
       PROVE  /\ Dropped(f, gone)[q] # <<>> <=> q \in ToSet(new)
              /\ Highest(Dropped(f, gone)[q], Dropped(g, gone)[q])
  <2>1. CASE q \in gone
    BY <1>10, <1>16, <2>1, EmptyIsHighest
  <2>2. CASE q \notin gone /\ q = r
    BY <1>10, <1>13, <1>14, <1>16, <2>2
  <2>3. CASE q \notin gone /\ q # r
    BY <1>2, <1>10, <1>14, <1>16, <2>3
  <2> QED BY <2>1, <2>2, <2>3
<1>18. ckCount + 1 \in 0..MaxSaves
  BY <1>1, <1>2, <1>6
<1> QED BY <1>6, <1>8, <1>9, <1>16, <1>17, <1>18 DEF CheckpointIInv

LEMMA CheckpointStepHolds == CheckpointIInv /\ [CheckpointNext]_ckVars => CheckpointIInv'
<1> SUFFICES ASSUME CheckpointIInv, [CheckpointNext]_ckVars PROVE CheckpointIInv'
  OBVIOUS
<1>1. /\ ckCount \in 0..MaxSaves
      /\ ckOrder \in Seq(CkRuns) /\ IsInjective(ckOrder) /\ Len(ckOrder) <= MaxCkRuns
      /\ ckItems \in [CkRuns -> Seq(Checkpoints)] /\ ckSaved \in [CkRuns -> Seq(Checkpoints)]
      /\ \A q \in CkRuns : /\ ckItems[q] # <<>> <=> q \in ToSet(ckOrder)
                           /\ Highest(ckItems[q], ckSaved[q])
  BY DEF CheckpointIInv
<1>2. Len(ckOrder) \in Nat /\ MaxCkRuns \in Nat /\ MaxSaves \in Nat
  BY <1>1, CkFacts
<1>3. ASSUME NEW r \in CkRuns, NEW s \in CkSequences, NEW t \in CkStatuses,
             SaveCheckpoint(r, [sequence |-> s, status |-> t, id |-> ckCount + 1])
      PROVE  CheckpointIInv'
  <2>1. ckCount < MaxSaves
    BY <1>3 DEF SaveCheckpoint
  <2>2. ckCount + 1 \in 1..MaxSaves
    BY <1>1, <1>2, <2>1
  <2>3. [sequence |-> s, status |-> t, id |-> ckCount + 1] \in Checkpoints
    BY <2>2 DEF Checkpoints
  <2> QED BY <1>3, <2>3, CheckpointSaved
<1>4. ASSUME NEW r \in CkRuns, ReadRun(r) PROVE CheckpointIInv'
  <2>1. PICK new : new = MovedToEnd(ckOrder, r)
    OBVIOUS
  <2>2. /\ r \in ToSet(ckOrder) /\ ckOrder' = new
        /\ ckItems' = ckItems /\ ckSaved' = ckSaved /\ ckCount' = ckCount
    BY <1>1, <1>4, <2>1 DEF ReadRun, Used
  <2>3. /\ new \in Seq(CkRuns) /\ IsInjective(new) /\ Len(new) <= Len(ckOrder)
        /\ ToSet(new) = ToSet(ckOrder) \cup {r}
    <3>1. PICK old : old = ckOrder
      OBVIOUS
    <3>2. old \in Seq(CkRuns) /\ IsInjective(old) /\ r \in ToSet(old)
      BY <1>1, <2>2, <3>1
    <3>3. /\ MovedToEnd(old, r) \in Seq(CkRuns)
          /\ ToSet(MovedToEnd(old, r)) = ToSet(old) \cup {r}
          /\ IsInjective(old) => IsInjective(MovedToEnd(old, r))
          /\ r \in ToSet(old) /\ IsInjective(old) => Len(MovedToEnd(old, r)) <= Len(old)
      BY <3>2, MoveFacts
    <3> QED BY <2>1, <3>1, <3>2, <3>3
  <2>4. ToSet(new) = ToSet(ckOrder) /\ Len(new) \in Nat
    BY <2>2, <2>3
  <2>5. Len(new) <= MaxCkRuns
    BY <1>1, <1>2, <2>3, <2>4
  <2> QED BY <1>1, <2>2, <2>3, <2>4, <2>5 DEF CheckpointIInv
<1>5. ASSUME NEW r \in CkRuns, DeleteCkRun(r) PROVE CheckpointIInv'
  <2>1. PICK new : new = Omitting(ckOrder, {r})
    OBVIOUS
  <2>2. /\ ckOrder' = new /\ ckItems' = Dropped(ckItems, {r}) /\ ckSaved' = Dropped(ckSaved, {r})
        /\ ckCount' = ckCount
    BY <1>5, <2>1 DEF DeleteCkRun
  <2>3. /\ new \in Seq(CkRuns) /\ IsInjective(new) /\ Len(new) <= Len(ckOrder)
        /\ ToSet(new) = ToSet(ckOrder) \ {r}
    BY <1>1, <2>1, OmitFacts
  <2>4. Len(new) \in Nat
    BY <2>3
  <2>5. Len(new) <= MaxCkRuns
    BY <1>1, <1>2, <2>3, <2>4
  <2>6. /\ Dropped(ckItems, {r}) \in [CkRuns -> Seq(Checkpoints)]
        /\ Dropped(ckSaved, {r}) \in [CkRuns -> Seq(Checkpoints)]
        /\ \A q \in CkRuns : /\ Dropped(ckItems, {r})[q] = IF q \in {r} THEN <<>> ELSE ckItems[q]
                             /\ Dropped(ckSaved, {r})[q] = IF q \in {r} THEN <<>> ELSE ckSaved[q]
    <3>1. PICK R : R = {r}
      OBVIOUS
    <3>2. /\ Dropped(ckItems, R) \in [CkRuns -> Seq(Checkpoints)]
          /\ \A q \in CkRuns : Dropped(ckItems, R)[q] = IF q \in R THEN <<>> ELSE ckItems[q]
      BY <1>1, RunsDropped
    <3>3. /\ Dropped(ckSaved, R) \in [CkRuns -> Seq(Checkpoints)]
          /\ \A q \in CkRuns : Dropped(ckSaved, R)[q] = IF q \in R THEN <<>> ELSE ckSaved[q]
      BY <1>1, RunsDropped
    <3> QED BY <3>1, <3>2, <3>3
  <2>7. ASSUME NEW q \in CkRuns
        PROVE  /\ Dropped(ckItems, {r})[q] # <<>> <=> q \in ToSet(new)
               /\ Highest(Dropped(ckItems, {r})[q], Dropped(ckSaved, {r})[q])
    <3>1. CASE q = r
      BY <2>3, <2>6, <3>1, EmptyIsHighest
    <3>2. CASE q # r
      BY <1>1, <2>3, <2>6, <3>2
    <3> QED BY <3>1, <3>2
  <2> QED BY <1>1, <2>2, <2>3, <2>5, <2>6, <2>7 DEF CheckpointIInv
<1>6. CASE UNCHANGED ckVars
  BY <1>6 DEF ckVars, CheckpointIInv
<1> QED BY <1>3, <1>4, <1>5, <1>6 DEF CheckpointNext

(* The last of the items is the highest of all.                            *)
LEMMA LatestIsHighest ==
  ASSUME NEW items \in Seq(Checkpoints), NEW all \in Seq(Checkpoints), Highest(items, all), NEW t
  PROVE  (items # <<>> /\ Last(items).status = t) <=>
           \E i \in DOMAIN all : /\ all[i].status = t
                                 /\ \A j \in DOMAIN all \ {i} : Before(all, j, i)
<1>1. PICK m, n : m = Len(items) /\ n = Len(all)
  OBVIOUS
<1>2. m \in Nat /\ n \in Nat /\ DOMAIN items = 1..m /\ DOMAIN all = 1..n
  BY <1>1
<1>3. MaxPerRun \in Nat /\ MaxPerRun > 0 /\ m = IF n < MaxPerRun THEN n ELSE MaxPerRun
  BY <1>1, CkFacts DEF Highest
<1>4. PICK at : LastOf(items, all, at)
  BY DEF Highest
<1>5. /\ at \in [1..m -> 1..n] /\ \A p \in 1..m : items[p] = all[at[p]]
      /\ \A p, q \in 1..m : p < q => Before(all, at[p], at[q])
      /\ \A j \in 1..n : \A p \in 1..m : Before(all, j, at[p]) \/ \E q \in 1..m : at[q] = j
  BY <1>2, <1>4 DEF LastOf
<1>6. CASE m = 0
  <2>1. items = <<>> /\ DOMAIN all = {}
    BY <1>1, <1>2, <1>3, <1>6
  <2> QED BY <2>1
<1>7. CASE m # 0
  <2>1. m \in 1..m /\ items # <<>> /\ at[m] \in 1..n
    BY <1>1, <1>2, <1>5, <1>7
  <2>2. Last(items) = all[at[m]]
    BY <1>1, <1>5, <2>1 DEF Last
  <2>3. \A j \in 1..n : j # at[m] => Before(all, j, at[m])
    <3> SUFFICES ASSUME NEW j \in 1..n, j # at[m], ~Before(all, j, at[m]) PROVE FALSE
      OBVIOUS
    <3>1. PICK q \in 1..m : at[q] = j
      BY <1>5, <2>1
    <3>2. q # m
      BY <3>1
    <3>3. q < m
      BY <1>2, <3>2
    <3> QED BY <1>5, <2>1, <3>1, <3>3
  <2>4. ASSUME NEW i \in 1..n, \A j \in (1..n) \ {i} : Before(all, j, i) PROVE i = at[m]
    <3> SUFFICES ASSUME i # at[m] PROVE FALSE
      OBVIOUS
    <3>1. Before(all, at[m], i) /\ Before(all, i, at[m])
      BY <2>1, <2>3, <2>4
    <3> QED BY <1>2, <2>1, <3>1, BeforeIsOrder
  <2> QED BY <1>2, <2>1, <2>2, <2>3, <2>4
<1> QED BY <1>6, <1>7

LEMMA CheckpointImplies == CheckpointIInv => CheckpointTypeOK /\ HighestKept
<1> SUFFICES ASSUME CheckpointIInv PROVE CheckpointTypeOK /\ HighestKept
  OBVIOUS
<1>1. /\ ckOrder \in Seq(CkRuns) /\ IsInjective(ckOrder) /\ Len(ckOrder) <= MaxCkRuns
      /\ ckItems \in [CkRuns -> Seq(Checkpoints)] /\ ckSaved \in [CkRuns -> Seq(Checkpoints)]
      /\ \A q \in CkRuns : /\ ckItems[q] # <<>> <=> q \in ToSet(ckOrder)
                           /\ Highest(ckItems[q], ckSaved[q])
  BY DEF CheckpointIInv
<1>2. \A r \in CkRuns : ckItems[r] \in Seq(Checkpoints) /\ Len(ckItems[r]) <= MaxPerRun
  <2> SUFFICES ASSUME NEW r \in CkRuns PROVE ckItems[r] \in Seq(Checkpoints) /\ Len(ckItems[r]) <= MaxPerRun
    OBVIOUS
  <2>1. Len(ckSaved[r]) \in Nat /\ MaxPerRun \in Nat
    BY <1>1, CkFacts
  <2>2. Len(ckItems[r]) = IF Len(ckSaved[r]) < MaxPerRun THEN Len(ckSaved[r]) ELSE MaxPerRun
    BY <1>1 DEF Highest
  <2> QED BY <1>1, <2>1, <2>2
<1>3. CheckpointTypeOK
  BY <1>1, <1>2 DEF CheckpointTypeOK
<1>4. ASSUME NEW r \in CkRuns, NEW t
      PROVE  r \in ToSet(ListRuns(t)) <=> r \in ToSet(ckOrder) /\ Last(ckItems[r]).status = t
  <2>1. PICK I : I = {i \in DOMAIN ckOrder : Last(ckItems[ckOrder[i]]).status = t}
    OBVIOUS
  <2>2. ListRuns(t) = Keeping(ckOrder, I) /\ I \in SUBSET DOMAIN ckOrder
    BY <2>1 DEF ListRuns
  <2>3. ToSet(ListRuns(t)) = {ckOrder[i] : i \in I}
    BY <1>1, <2>2, KeepingSet
  <2>4. ToSet(ckOrder) = {ckOrder[i] : i \in DOMAIN ckOrder}
    BY DEF ToSet
  <2> QED BY <2>1, <2>3, <2>4
<1>5. HighestKept
  <2> SUFFICES ASSUME NEW r \in CkRuns
               PROVE  LET all == ckSaved[r]
                          items == ckItems[r]
                      IN  /\ Len(items) = IF Len(all) < MaxPerRun THEN Len(all) ELSE MaxPerRun
                          /\ \E at \in [DOMAIN items -> DOMAIN all] : LastOf(items, all, at)
                          /\ \A t \in CkStatuses :
                               r \in ToSet(ListRuns(t)) <=>
                                 \E i \in DOMAIN all : /\ all[i].status = t
                                                       /\ \A j \in DOMAIN all \ {i} : Before(all, j, i)
    BY DEF HighestKept
  <2>1. PICK items, all : items = ckItems[r] /\ all = ckSaved[r]
    OBVIOUS
  <2>2. items \in Seq(Checkpoints) /\ all \in Seq(Checkpoints) /\ Highest(items, all)
    BY <1>1, <2>1
  <2>3. \A t : (items # <<>> /\ Last(items).status = t) <=>
                 \E i \in DOMAIN all : /\ all[i].status = t
                                       /\ \A j \in DOMAIN all \ {i} : Before(all, j, i)
    BY <2>2, LatestIsHighest
  <2>4. \A t : r \in ToSet(ListRuns(t)) <=> items # <<>> /\ Last(items).status = t
    BY <1>1, <1>4, <2>1
  <2> QED BY <2>1, <2>2, <2>3, <2>4 DEF Highest
<1> QED BY <1>3, <1>5

(* Whatever the order of the saves and however many runs and checkpoints:  *)
(* the latest one of a run is the highest it saved.                        *)
THEOREM LatestIsKept == CheckpointSpec => [](CheckpointTypeOK /\ HighestKept)
<1> QED BY CheckpointInitHolds, CheckpointStepHolds, CheckpointImplies, PTL DEF CheckpointSpec

--------------------------------------------------------------------------------
(***************************************************************************)
(* The merging of streams, for providers that number their calls.  The     *)
(* message is at all times what the provider sent of each call.            *)
(***************************************************************************)
PiecesOf(c, n) == [k \in 1..n |-> Piece(c, k - 1)]
MessageOf(sent) ==
  [c \in {d \in StreamCalls : sent[d] >= 0} |-> [id |-> c, pieces |-> PiecesOf(c, sent[c] + 1)]]

PiecesSent == [StreamCalls -> -1..ArgumentPieces]
EntriesOfCalls == [id : StreamCalls \cup {-1}, pieces : Seq([call : StreamCalls, place : 0..ArgumentPieces])]

LEMMA StreamFacts ==
  /\ ArgumentPieces \in Nat /\ TextPieces \in Nat
  /\ MaxStreamChunks \in Nat /\ MaxStreamChunks > 0 /\ MaxStreamContent \in Nat /\ MaxStreamContent > 0
  /\ StreamCalls \subseteq Nat /\ IsFiniteSet(StreamCalls)
BY StreamAssumption

LEMMA PiecesFacts ==
  ASSUME NEW c \in StreamCalls, NEW n \in 0..(ArgumentPieces + 1)
  PROVE  /\ PiecesOf(c, n) \in Seq([call : StreamCalls, place : 0..ArgumentPieces])
         /\ Len(PiecesOf(c, n)) = n
         /\ n <= ArgumentPieces => Append(PiecesOf(c, n), Piece(c, n)) = PiecesOf(c, n + 1)
<1>1. n \in Nat /\ ArgumentPieces \in Nat /\ n <= ArgumentPieces + 1
  BY StreamFacts
<1>2. PICK T : T = [call : StreamCalls, place : 0..ArgumentPieces]
  OBVIOUS
<1>3. \A k \in 1..n : Piece(c, k - 1) \in T
  <2> SUFFICES ASSUME NEW k \in 1..n PROVE Piece(c, k - 1) \in T
    OBVIOUS
  <2>1. k - 1 \in 0..ArgumentPieces
    BY <1>1
  <2> QED BY <1>2, <2>1 DEF Piece
<1>4. PICK s, t : s = PiecesOf(c, n) /\ t = PiecesOf(c, n + 1)
  OBVIOUS
<1>5. s = [k \in 1..n |-> Piece(c, k - 1)] /\ t = [k \in 1..(n + 1) |-> Piece(c, k - 1)]
  BY <1>4 DEF PiecesOf
<1>6. s \in [1..n -> T]
  BY <1>3, <1>5
<1>7. s \in Seq(T) /\ Len(s) = n /\ DOMAIN s = 1..n
  BY <1>1, <1>6
<1>8. ASSUME n <= ArgumentPieces PROVE Append(s, Piece(c, n)) = t
  <2>1. PICK p, a : p = Piece(c, n) /\ a = Append(s, p)
    OBVIOUS
  <2>2. p \in T
    BY <1>1, <1>2, <1>8, <2>1 DEF Piece
  <2>3. /\ a \in Seq(T) /\ Len(a) = n + 1 /\ a[n + 1] = p
        /\ \A k \in 1..n : a[k] = s[k]
    BY <1>7, <2>1, <2>2, AppendProperties
  <2>4. DOMAIN a = 1..(n + 1)
    BY <2>3
  <2>5. a = [k \in 1..(n + 1) |-> a[k]]
    BY <2>3, <2>4
  <2>6. \A k \in 1..(n + 1) : a[k] = Piece(c, k - 1)
    <3> SUFFICES ASSUME NEW k \in 1..(n + 1) PROVE a[k] = Piece(c, k - 1)
      OBVIOUS
    <3>1. CASE k = n + 1
      <4>1. k - 1 = n
        BY <1>1, <3>1
      <4> QED BY <2>1, <2>3, <3>1, <4>1
    <3>2. CASE k # n + 1
      <4>1. k \in 1..n
        BY <1>1, <3>2
      <4> QED BY <1>5, <2>3, <4>1
    <3> QED BY <3>1, <3>2
  <2> QED BY <1>5, <2>1, <2>5, <2>6
<1> QED BY <1>2, <1>4, <1>7, <1>8

(* One piece more of one call.                                             *)
OneMore(sent, c) == [d \in StreamCalls |-> IF d = c THEN sent[d] + 1 ELSE sent[d]]

LEMMA PieceMerged ==
  ASSUME IndexGiven, NEW sent \in PiecesSent, NEW c \in StreamCalls, sent[c] < ArgumentPieces
  PROVE  MergeToolCall(MessageOf(sent), Piece(c, sent[c] + 1)) = MessageOf(OneMore(sent, c))
<1>1. sent[c] \in -1..ArgumentPieces /\ ArgumentPieces \in Nat
  BY StreamFacts DEF PiecesSent
<1>2. PICK n : n = sent[c] + 1
  OBVIOUS
<1>3. n \in 0..ArgumentPieces /\ n \in Nat /\ n + 1 \in 0..(ArgumentPieces + 1)
  BY <1>1, <1>2
<1>4. PICK p : p = Piece(c, n)
  OBVIOUS
<1>5. p.call = c /\ p.place = n /\ IndexOf(p) = c
  BY <1>4 DEF Piece, IndexOf
<1>6. PICK m : m = MessageOf(sent)
  OBVIOUS
<1>7. m = [d \in {e \in StreamCalls : sent[e] >= 0} |-> [id |-> d, pieces |-> PiecesOf(d, sent[d] + 1)]]
  BY <1>6 DEF MessageOf
<1>8. DOMAIN m = {e \in StreamCalls : sent[e] >= 0}
  BY <1>7
<1>9. c \in DOMAIN m <=> n > 0
  BY <1>1, <1>2, <1>8
<1>10. PICK old : old = IF c \in DOMAIN m THEN m[c] ELSE NoEntry
  OBVIOUS
<1>11. old.pieces = PiecesOf(c, n) /\ (n # 0 => old.id = c)
  <2>1. CASE n > 0
    <3>1. old = [id |-> c, pieces |-> PiecesOf(c, n)]
      BY <1>2, <1>7, <1>8, <1>9, <1>10, <2>1
    <3> QED BY <3>1
  <2>2. CASE n = 0
    <3>1. old.pieces = <<>>
      BY <1>9, <1>10, <2>2 DEF NoEntry
    <3>2. PiecesOf(c, n) = <<>>
      BY <2>2 DEF PiecesOf
    <3> QED BY <2>2, <3>1, <3>2
  <2> QED BY <1>3, <2>1, <2>2
<1>12. PICK new : new = [id |-> IF p.place = 0 THEN p.call ELSE old.id, pieces |-> Append(old.pieces, p)]
  OBVIOUS
<1>13. new = [id |-> c, pieces |-> PiecesOf(c, n + 1)]
  <2>1. Append(PiecesOf(c, n), p) = PiecesOf(c, n + 1)
    <3>1. n \in 0..(ArgumentPieces + 1) /\ n <= ArgumentPieces
      BY <1>1, <1>3
    <3> QED BY <1>4, <3>1, PiecesFacts
  <2>2. (IF p.place = 0 THEN p.call ELSE old.id) = c
    BY <1>5, <1>11
  <2> QED BY <1>11, <1>12, <2>1, <2>2
<1>14. PICK r : r = MergeToolCall(m, p)
  OBVIOUS
<1>15. r = Updated(m, c, new)
  BY <1>5, <1>10, <1>12, <1>14 DEF MergeToolCall
<1>16. r = [d \in {c} \cup DOMAIN m |-> IF d \in {c} THEN new ELSE m[d]]
  BY <1>15 DEF Updated
<1>17. PICK after : after = OneMore(sent, c)
  OBVIOUS
<1>18. \A d \in StreamCalls : after[d] = IF d = c THEN n ELSE sent[d]
  BY <1>2, <1>17 DEF OneMore
<1>19. {d \in StreamCalls : after[d] >= 0} = {c} \cup DOMAIN m
  BY <1>3, <1>8, <1>18
<1>20. PICK w : w = MessageOf(after)
  OBVIOUS
<1>21. w = [d \in {c} \cup DOMAIN m |-> [id |-> d, pieces |-> PiecesOf(d, after[d] + 1)]]
  BY <1>19, <1>20 DEF MessageOf
<1>22. ASSUME NEW d \in {c} \cup DOMAIN m
       PROVE  (IF d \in {c} THEN new ELSE m[d]) = [id |-> d, pieces |-> PiecesOf(d, after[d] + 1)]
  <2>1. CASE d = c
    BY <1>13, <1>18, <2>1
  <2>2. CASE d # c
    <3>1. d \in DOMAIN m /\ d \in StreamCalls
      BY <1>8, <2>2
    <3>2. m[d] = [id |-> d, pieces |-> PiecesOf(d, sent[d] + 1)] /\ after[d] = sent[d]
      BY <1>7, <1>8, <1>18, <2>2, <3>1
    <3> QED BY <2>2, <3>2
  <2> QED BY <2>1, <2>2
<1>23. r = w
  BY <1>16, <1>21, <1>22
<1> QED BY <1>2, <1>4, <1>6, <1>14, <1>17, <1>20, <1>23

(* The pieces of a chunk, the first n of them.                             *)
SentUpTo(sent, cs, n) == [c \in StreamCalls |-> sent[c] + IF \E k \in 1..n : cs[k] = c THEN 1 ELSE 0]
DeltasOf(sent, cs) == [k \in DOMAIN cs |-> Piece(cs[k], sent[cs[k]] + 1)]

LEMMA ChunkMerged ==
  ASSUME IndexGiven, NEW sent \in PiecesSent, NEW L \in Nat, NEW cs \in [1..L -> StreamCalls],
         \A k \in 1..L : sent[cs[k]] < ArgumentPieces,
         \A k, l \in 1..L : cs[k] = cs[l] => k = l
  PROVE  MergeDeltas(MessageOf(sent), DeltasOf(sent, cs)) = MessageOf(SentUpTo(sent, cs, L))
<1>1. PICK deltas : deltas = DeltasOf(sent, cs)
  OBVIOUS
<1>2. DOMAIN cs = 1..L
  OBVIOUS
<1>3. deltas = [k \in 1..L |-> Piece(cs[k], sent[cs[k]] + 1)]
  BY <1>1, <1>2 DEF DeltasOf
<1>4. Len(deltas) = L
  BY <1>3
<1>5. PICK m : m = MessageOf(sent)
  OBVIOUS
<1> DEFINE IsMerged(f) == f = [n \in 0..L |-> IF n = 0 THEN m ELSE MergeToolCall(f[n - 1], deltas[n])]
<1>6. MergeDeltas(m, deltas) = (CHOOSE f : IsMerged(f))[L]
  BY <1>4 DEF MergeDeltas
<1>7. PICK g : g = [n \in 0..L |-> MessageOf(SentUpTo(sent, cs, n))]
  OBVIOUS
<1>8. SentUpTo(sent, cs, 0) = sent
  <2>1. \A c \in StreamCalls : sent[c] \in Int
    BY StreamFacts DEF PiecesSent
  <2>2. \A c \in StreamCalls : SentUpTo(sent, cs, 0)[c] = sent[c]
    BY <2>1 DEF SentUpTo
  <2>3. SentUpTo(sent, cs, 0) = [c \in StreamCalls |-> SentUpTo(sent, cs, 0)[c]]
    BY DEF SentUpTo
  <2>4. sent = [c \in StreamCalls |-> sent[c]]
    BY DEF PiecesSent
  <2> QED BY <2>2, <2>3, <2>4
<1>9. ASSUME NEW n \in 1..L PROVE MessageOf(SentUpTo(sent, cs, n)) = MergeToolCall(MessageOf(SentUpTo(sent, cs, n - 1)), deltas[n])
  <2>1. n - 1 \in 0..L /\ n - 1 \in Nat /\ n \in Nat
    OBVIOUS
  <2>2. PICK before, after, c : /\ before = SentUpTo(sent, cs, n - 1) /\ after = SentUpTo(sent, cs, n)
                                /\ c = cs[n]
    OBVIOUS
  <2>3. c \in StreamCalls /\ sent[c] < ArgumentPieces
    BY <2>2
  <2>4. \A k \in 1..(n - 1) : k \in 1..L /\ k # n
    OBVIOUS
  <2>5. ~ \E k \in 1..(n - 1) : cs[k] = c
    BY <2>2, <2>4
  <2>6. \A d \in StreamCalls : sent[d] \in -1..ArgumentPieces
    BY DEF PiecesSent
  <2>7. ArgumentPieces \in Nat
    BY StreamFacts
  <2>8. before[c] = sent[c]
    BY <2>2, <2>3, <2>5, <2>6, <2>7 DEF SentUpTo
  <2>9. ASSUME NEW d \in StreamCalls PROVE before[d] \in -1..ArgumentPieces
    <3>1. before[d] = sent[d] + IF \E k \in 1..(n - 1) : cs[k] = d THEN 1 ELSE 0
      BY <2>2 DEF SentUpTo
    <3>2. CASE \E k \in 1..(n - 1) : cs[k] = d
      <4>1. sent[d] < ArgumentPieces
        BY <2>4, <3>2
      <4> QED BY <2>6, <2>7, <3>1, <3>2, <4>1
    <3>3. CASE ~ \E k \in 1..(n - 1) : cs[k] = d
      BY <2>6, <2>7, <3>1, <3>3
    <3> QED BY <3>2, <3>3
  <2>10. before \in PiecesSent
    <3>1. before = [d \in StreamCalls |-> before[d]]
      BY <2>2 DEF SentUpTo
    <3> QED BY <2>9, <3>1 DEF PiecesSent
  <2>11. MergeToolCall(MessageOf(before), Piece(c, before[c] + 1)) = MessageOf(OneMore(before, c))
    BY <2>3, <2>8, <2>10, PieceMerged
  <2>12. OneMore(before, c) = after
    <3>1. ASSUME NEW d \in StreamCalls PROVE OneMore(before, c)[d] = after[d]
      <4>1. OneMore(before, c)[d] = IF d = c THEN before[d] + 1 ELSE before[d]
        BY DEF OneMore
      <4>2. after[d] = sent[d] + IF \E k \in 1..n : cs[k] = d THEN 1 ELSE 0
        BY <2>2 DEF SentUpTo
      <4>3. CASE d = c
        <5>1. n \in 1..n /\ cs[n] = d
          BY <2>1, <2>2, <4>3
        <5> QED BY <2>8, <4>1, <4>2, <4>3, <5>1
      <4>4. CASE d # c
        <5>1. before[d] = sent[d] + IF \E k \in 1..(n - 1) : cs[k] = d THEN 1 ELSE 0
          BY <2>2 DEF SentUpTo
        <5>2. (\E k \in 1..n : cs[k] = d) <=> (\E k \in 1..(n - 1) : cs[k] = d)
          <6>1. \A k \in 1..n : k = n \/ k \in 1..(n - 1)
            BY <2>1
          <6>2. \A k \in 1..(n - 1) : k \in 1..n
            BY <2>1
          <6> QED BY <2>2, <4>4, <6>1, <6>2
        <5> QED BY <4>1, <4>2, <4>4, <5>1, <5>2
      <4> QED BY <4>3, <4>4
    <3>2. OneMore(before, c) = [d \in StreamCalls |-> OneMore(before, c)[d]]
      BY DEF OneMore
    <3>3. after = [d \in StreamCalls |-> after[d]]
      BY <2>2 DEF SentUpTo
    <3> QED BY <3>1, <3>2, <3>3
  <2>13. deltas[n] = Piece(c, before[c] + 1)
    BY <1>3, <2>2, <2>8
  <2> QED BY <2>2, <2>11, <2>12, <2>13
<1>10. \A n \in 0..L : n = 0 \/ (n \in 1..L /\ n - 1 \in 0..L)
  OBVIOUS
<1>11. IsMerged(g)
  <2>1. ASSUME NEW n \in 0..L PROVE g[n] = IF n = 0 THEN m ELSE MergeToolCall(g[n - 1], deltas[n])
    <3>1. CASE n = 0
      BY <1>5, <1>7, <1>8, <3>1
    <3>2. CASE n \in 1..L /\ n - 1 \in 0..L
      <4>1. g[n] = MessageOf(SentUpTo(sent, cs, n)) /\ g[n - 1] = MessageOf(SentUpTo(sent, cs, n - 1))
        BY <1>7, <3>2
      <4>2. g[n] = MergeToolCall(g[n - 1], deltas[n])
        BY <1>9, <3>2, <4>1
      <4>3. n # 0
        BY <3>2
      <4> QED BY <4>2, <4>3
    <3> QED BY <1>10, <3>1, <3>2
  <2>2. g = [n \in 0..L |-> g[n]]
    BY <1>7
  <2> QED BY <2>1, <2>2
<1>12. PICK f : f = CHOOSE h : IsMerged(h)
  OBVIOUS
<1>13. IsMerged(f)
  <2>1. \E h : IsMerged(h)
    BY <1>11
  <2> HIDE DEF IsMerged
  <2> QED BY <1>12, <2>1
<1>14. /\ \A n \in 0..L : f[n] = IF n = 0 THEN m ELSE MergeToolCall(f[n - 1], deltas[n])
       /\ \A n \in 0..L : g[n] = IF n = 0 THEN m ELSE MergeToolCall(g[n - 1], deltas[n])
  <2>1. \A n \in 0..L : f[n] = IF n = 0 THEN m ELSE MergeToolCall(f[n - 1], deltas[n])
    BY <1>13
  <2>2. \A n \in 0..L : g[n] = IF n = 0 THEN m ELSE MergeToolCall(g[n - 1], deltas[n])
    BY <1>11
  <2> QED BY <2>1, <2>2
<1>15. f[L] = g[L]
  <2> DEFINE W == {n \in 0..L : f[n] # g[n]}
  <2> SUFFICES ASSUME W # {} PROVE FALSE
    <3>1. L \in 0..L
      OBVIOUS
    <3> QED BY <3>1
  <2>1. W \subseteq Nat
    OBVIOUS
  <2>2. PICK n \in W : \A l \in W : n <= l
    <3> HIDE DEF W
    <3> QED BY <2>1, LeastIs
  <2>3. CASE n = 0
    BY <1>14, <2>3
  <2>4. CASE n \in 1..L /\ n - 1 \in 0..L
    <3>1. n - 1 \notin W
      BY <2>2, <2>4
    <3>2. f[n - 1] = g[n - 1]
      BY <2>4, <3>1
    <3>3. f[n] = g[n]
      BY <1>14, <2>2, <2>4, <3>2
    <3> QED BY <2>2, <3>3
  <2> QED BY <1>10, <2>2, <2>3, <2>4
<1>16. L \in 0..L
  OBVIOUS
<1>17. MergeDeltas(m, deltas) = f[L]
  BY <1>6, <1>12
<1> QED BY <1>1, <1>5, <1>7, <1>15, <1>16, <1>17

(* What is merged is a function of the pieces that were sent; a stream that *)
(* is still read has exceeded no limit, and a whole one had all.           *)
StreamIInv ==
  /\ sentPieces \in PiecesSent
  /\ toolCallsMap = MessageOf(sentPieces) /\ preview = toolCallsMap
  /\ sentText = contentLength /\ contentLength \in 0..TextPieces
  /\ chunkCount \in 0..MaxStreamChunks /\ usageSum \in {0, 1}
  /\ stream \in {"reading", "whole", "cut", "raised"}
  /\ stream = "reading" =>
       usageSum = 0 /\ chunkCount < MaxStreamChunks /\ contentLength < MaxStreamContent
  /\ stream = "whole" => WholeSent

LEMMA StreamInitHolds == StreamInit => StreamIInv
<1> SUFFICES ASSUME StreamInit PROVE StreamIInv
  OBVIOUS
<1>1. PICK sent : sent = [c \in StreamCalls |-> -1]
  OBVIOUS
<1>2. sentPieces = sent /\ sent \in PiecesSent
  BY <1>1, StreamFacts DEF StreamInit, PiecesSent
<1>3. \A c \in StreamCalls : ~(sent[c] >= 0)
  BY <1>1
<1>4. {d \in StreamCalls : sent[d] >= 0} = {}
  BY <1>3
<1>5. MessageOf(sent) = [i \in {} |-> NoEntry]
  BY <1>4 DEF MessageOf
<1>6. toolCallsMap = MessageOf(sentPieces) /\ preview = toolCallsMap
  BY <1>2, <1>5 DEF StreamInit
<1>7. contentLength = 0 /\ chunkCount = 0 /\ usageSum = 0 /\ sentText = 0 /\ stream = "reading"
  BY DEF StreamInit
<1>8. 0 \in 0..TextPieces /\ 0 \in 0..MaxStreamChunks /\ 0 < MaxStreamChunks /\ 0 < MaxStreamContent
  BY StreamFacts
<1> QED BY <1>2, <1>6, <1>7, <1>8 DEF StreamIInv

LEMMA ListingFacts ==
  ASSUME NEW cs \in Listings(Unsent)
  PROVE  \E L \in Nat : /\ cs \in [1..L -> StreamCalls] /\ DOMAIN cs = 1..L
                        /\ \A k \in 1..L : cs[k] \in Unsent
                        /\ \A k, l \in 1..L : cs[k] = cs[l] => k = l
<1>1. IsFiniteSet(Unsent) /\ Unsent \subseteq StreamCalls
  BY StreamFacts, FS_Subset DEF Unsent
<1>2. Cardinality(Unsent) \in Nat
  BY <1>1, FS_CardinalityType
<1>3. PICK L \in 0..Cardinality(Unsent) : cs \in Injection(1..L, Unsent)
  BY DEF Listings
<1>4. L \in Nat
  BY <1>2
<1>5. cs \in [1..L -> Unsent] /\ \A k, l \in 1..L : cs[k] = cs[l] => k = l
  BY <1>3 DEF Injection, IsInjective
<1> QED BY <1>1, <1>4, <1>5

LEMMA MergeChunkHolds == ASSUME IndexGiven, StreamIInv, MergeChunk PROVE StreamIInv'
<1>1. /\ sentPieces \in PiecesSent
      /\ toolCallsMap = MessageOf(sentPieces) /\ preview = toolCallsMap
      /\ sentText = contentLength /\ contentLength \in 0..TextPieces
      /\ chunkCount \in 0..MaxStreamChunks /\ usageSum \in {0, 1}
      /\ stream = "reading" /\ usageSum = 0
      /\ chunkCount < MaxStreamChunks /\ contentLength < MaxStreamContent
  BY DEF StreamIInv, MergeChunk
<1>2. PICK cs \in Listings(Unsent), text \in {0, 1} :
        LET deltas == [k \in DOMAIN cs |-> Piece(cs[k], sentPieces[cs[k]] + 1)]
            merged == MergeDeltas(toolCallsMap, deltas)
            shownOf == {IndexOf(deltas[k]) : k \in DOMAIN deltas}
        IN  /\ sentText + text <= TextPieces
            /\ toolCallsMap' = merged
            /\ preview' = [i \in DOMAIN preview \cup shownOf |->
                             IF i \in shownOf THEN merged[i] ELSE preview[i]]
            /\ sentText' = sentText + text
            /\ sentPieces' = [c \in StreamCalls |-> sentPieces[c] + IF c \in ToSet(cs) THEN 1 ELSE 0]
            /\ contentLength' = contentLength + text
            /\ chunkCount' = chunkCount + 1
            /\ stream' = IF LimitExceeded(chunkCount + 1, contentLength + text) THEN "cut" ELSE stream
            /\ usageSum' = usageSum
  BY DEF MergeChunk
<1>3. PICK L \in Nat : /\ cs \in [1..L -> StreamCalls] /\ DOMAIN cs = 1..L
                       /\ \A k \in 1..L : cs[k] \in Unsent
                       /\ \A k, l \in 1..L : cs[k] = cs[l] => k = l
  BY ListingFacts
<1>4. PICK sent : sent = sentPieces
  OBVIOUS
<1>5. sent \in PiecesSent /\ \A k \in 1..L : sent[cs[k]] < ArgumentPieces
  BY <1>1, <1>3, <1>4 DEF Unsent
<1>6. PICK deltas, after, msg, merged :
        /\ deltas = DeltasOf(sent, cs) /\ after = SentUpTo(sent, cs, L)
        /\ msg = MessageOf(sent) /\ merged = MessageOf(after)
  OBVIOUS
<1>7. MergeDeltas(msg, deltas) = merged
  BY <1>3, <1>5, <1>6, ChunkMerged
<1>8. deltas = [k \in DOMAIN cs |-> Piece(cs[k], sentPieces[cs[k]] + 1)]
  BY <1>4, <1>6 DEF DeltasOf
<1>9. toolCallsMap = msg
  BY <1>1, <1>4, <1>6
<1>10. PICK shownOf : shownOf = {IndexOf(deltas[k]) : k \in DOMAIN deltas}
  OBVIOUS
<1>11. /\ sentText + text <= TextPieces
       /\ toolCallsMap' = merged
       /\ preview' = [i \in DOMAIN preview \cup shownOf |-> IF i \in shownOf THEN merged[i] ELSE preview[i]]
       /\ sentText' = sentText + text
       /\ sentPieces' = [c \in StreamCalls |-> sentPieces[c] + IF c \in ToSet(cs) THEN 1 ELSE 0]
       /\ contentLength' = contentLength + text
       /\ chunkCount' = chunkCount + 1
       /\ stream' = IF LimitExceeded(chunkCount + 1, contentLength + text) THEN "cut" ELSE stream
       /\ usageSum' = usageSum
  BY <1>2, <1>7, <1>8, <1>9, <1>10
<1>12. ToSet(cs) = {cs[k] : k \in 1..L}
  BY <1>3 DEF ToSet
<1>13. sentPieces' = after
  BY <1>4, <1>6, <1>11, <1>12 DEF SentUpTo
<1>14. shownOf = ToSet(cs)
  <2>1. DOMAIN deltas = 1..L /\ \A k \in 1..L : deltas[k] = Piece(cs[k], sent[cs[k]] + 1)
    BY <1>3, <1>6 DEF DeltasOf
  <2>2. \A k \in 1..L : IndexOf(deltas[k]) = cs[k]
    BY <2>1 DEF IndexOf, Piece
  <2> QED BY <1>10, <1>12, <2>1, <2>2
<1>15. /\ ArgumentPieces \in Nat /\ TextPieces \in Nat /\ MaxStreamChunks \in Nat /\ MaxStreamContent \in Nat
  BY StreamFacts
<1>16. \A c \in StreamCalls : sent[c] \in -1..ArgumentPieces
  BY <1>5 DEF PiecesSent
<1>17. \A c \in StreamCalls : after[c] = sent[c] + IF c \in ToSet(cs) THEN 1 ELSE 0
  BY <1>6, <1>12 DEF SentUpTo
<1>18. \A c \in ToSet(cs) : c \in StreamCalls /\ sent[c] < ArgumentPieces
  BY <1>3, <1>5, <1>12
<1>19. after \in PiecesSent
  <2>1. \A c \in StreamCalls : after[c] \in -1..ArgumentPieces
    BY <1>15, <1>16, <1>17, <1>18
  <2>2. after = [c \in StreamCalls |-> after[c]]
    BY <1>6 DEF SentUpTo
  <2> QED BY <2>1, <2>2 DEF PiecesSent
<1>20. preview' = merged
  <2>1. preview = msg
    BY <1>1, <1>9
  <2>2. msg = [c \in {d \in StreamCalls : sent[d] >= 0} |-> [id |-> c, pieces |-> PiecesOf(c, sent[c] + 1)]]
    BY <1>6 DEF MessageOf
  <2>3. merged = [c \in {d \in StreamCalls : after[d] >= 0} |-> [id |-> c, pieces |-> PiecesOf(c, after[c] + 1)]]
    BY <1>6 DEF MessageOf
  <2>4. DOMAIN msg = {d \in StreamCalls : sent[d] >= 0} /\ DOMAIN merged = {d \in StreamCalls : after[d] >= 0}
    BY <2>2, <2>3
  <2>5. \A c \in StreamCalls : c \in ToSet(cs) => after[c] >= 0
    BY <1>15, <1>16, <1>17
  <2>6. \A c \in StreamCalls : c \notin ToSet(cs) => after[c] = sent[c]
    BY <1>15, <1>16, <1>17
  <2>7. DOMAIN msg \cup ToSet(cs) = DOMAIN merged
    <3>1. \A c \in StreamCalls : sent[c] >= 0 => after[c] >= 0
      BY <1>15, <1>16, <1>17
    <3> QED BY <1>18, <2>4, <2>5, <2>6, <3>1
  <2>8. ASSUME NEW c \in DOMAIN merged PROVE (IF c \in ToSet(cs) THEN merged[c] ELSE msg[c]) = merged[c]
    <3>1. CASE c \in ToSet(cs)
      BY <3>1
    <3>2. CASE c \notin ToSet(cs)
      <4>1. c \in StreamCalls /\ after[c] = sent[c] /\ c \in DOMAIN msg
        BY <2>4, <2>6, <3>2
      <4>2. msg[c] = [id |-> c, pieces |-> PiecesOf(c, sent[c] + 1)]
        BY <2>2, <2>4, <4>1
      <4>3. merged[c] = [id |-> c, pieces |-> PiecesOf(c, after[c] + 1)]
        BY <2>3, <2>4
      <4> QED BY <3>2, <4>1, <4>2, <4>3
    <3> QED BY <3>1, <3>2
  <2>9. preview' = [c \in DOMAIN merged |-> IF c \in ToSet(cs) THEN merged[c] ELSE msg[c]]
    BY <1>11, <1>14, <2>1, <2>7
  <2>10. merged = [c \in DOMAIN merged |-> merged[c]]
    BY <2>3
  <2> QED BY <2>8, <2>9, <2>10
<1>21. contentLength' \in 0..TextPieces /\ sentText' = contentLength'
  BY <1>1, <1>11, <1>15
<1>22. chunkCount' \in 0..MaxStreamChunks
  BY <1>1, <1>11, <1>15
<1>23. /\ stream' \in {"reading", "cut"}
       /\ stream' = "reading" => chunkCount' < MaxStreamChunks /\ contentLength' < MaxStreamContent
  <2>1. contentLength + text \in Nat /\ chunkCount + 1 \in Nat
    BY <1>1, <1>15
  <2>2. CASE LimitExceeded(chunkCount + 1, contentLength + text)
    BY <1>11, <2>2
  <2>3. CASE ~LimitExceeded(chunkCount + 1, contentLength + text)
    <3>1. chunkCount + 1 < MaxStreamChunks /\ contentLength + text < MaxStreamContent
      BY <1>15, <2>1, <2>3 DEF LimitExceeded
    <3> QED BY <1>1, <1>11, <2>3, <3>1
  <2> QED BY <2>2, <2>3
<1>24. sentPieces' \in PiecesSent /\ toolCallsMap' = MessageOf(sentPieces') /\ preview' = toolCallsMap'
  BY <1>6, <1>11, <1>13, <1>19, <1>20
<1>25. usageSum' = 0
  BY <1>1, <1>11
<1> QED BY <1>21, <1>22, <1>23, <1>24, <1>25 DEF StreamIInv

LEMMA StreamStepHolds == IndexGiven => (StreamIInv /\ [StreamNext]_streamVars => StreamIInv')
<1> SUFFICES ASSUME IndexGiven, StreamIInv, [StreamNext]_streamVars PROVE StreamIInv'
  OBVIOUS
<1>1. CASE MergeChunk
  BY <1>1, MergeChunkHolds
<1>2. CASE StreamStops
  <2>1. /\ stream = "reading" /\ usageSum = 0 /\ chunkCount < MaxStreamChunks
        /\ chunkCount \in 0..MaxStreamChunks /\ MaxStreamChunks \in Nat
    BY <1>2, StreamFacts DEF StreamIInv, StreamStops
  <2>2. usageSum' \in {0, 1} /\ chunkCount' \in 0..MaxStreamChunks /\ stream' \in {"whole", "cut"}
    BY <1>2, <2>1 DEF StreamStops
  <2>3. UNCHANGED <<toolCallsMap, contentLength, preview, sentText, sentPieces>> /\ WholeSent
    BY <1>2 DEF StreamStops
  <2>4. WholeSent'
    BY <2>3 DEF WholeSent, Unsent
  <2>5. MessageOf(sentPieces)' = MessageOf(sentPieces)
    BY <2>3
  <2> QED BY <2>2, <2>3, <2>4, <2>5 DEF StreamIInv
<1>3. CASE StreamIdle
  <2>1. stream' \in {"cut", "raised"}
    BY <1>3 DEF StreamIdle
  <2>2. UNCHANGED <<toolCallsMap, contentLength, chunkCount, usageSum, preview, sentText, sentPieces>>
    BY <1>3 DEF StreamIdle
  <2> QED BY <2>1, <2>2 DEF StreamIInv
<1>4. CASE UNCHANGED streamVars
  BY <1>4 DEF streamVars, StreamIInv, WholeSent, Unsent
<1> QED BY <1>1, <1>2, <1>3, <1>4 DEF StreamNext

LEMMA StreamImplies ==
  IndexGiven => (StreamIInv => StreamTypeOK /\ CallsKeptApart /\ WholeIsAll /\ StreamBounded)
<1> SUFFICES ASSUME IndexGiven, StreamIInv
             PROVE  StreamTypeOK /\ CallsKeptApart /\ WholeIsAll /\ StreamBounded
  OBVIOUS
<1>1. PICK sent, msg : sent = sentPieces /\ msg = MessageOf(sent)
  OBVIOUS
<1>2. /\ sent \in PiecesSent /\ toolCallsMap = msg /\ preview = msg
  BY <1>1 DEF StreamIInv
<1>3. ArgumentPieces \in Nat /\ \A c \in StreamCalls : sent[c] \in -1..ArgumentPieces
  BY <1>2, StreamFacts DEF PiecesSent
<1>4. msg = [c \in {d \in StreamCalls : sent[d] >= 0} |-> [id |-> c, pieces |-> PiecesOf(c, sent[c] + 1)]]
  BY <1>1 DEF MessageOf
<1>5. DOMAIN msg = {d \in StreamCalls : sent[d] >= 0}
  BY <1>4
<1>6. \A c \in DOMAIN msg : msg[c].id = c /\ msg[c].pieces = PiecesOf(c, sent[c] + 1)
  BY <1>4, <1>5
<1>7. EntriesOK(msg)
  <2> SUFFICES ASSUME NEW c \in DOMAIN msg
               PROVE  /\ c \in Indexes /\ msg[c].id \in StreamCalls \cup {-1}
                      /\ ToSet(msg[c].pieces) \subseteq [call : StreamCalls, place : 0..ArgumentPieces]
    BY DEF EntriesOK
  <2>1. c \in StreamCalls /\ c \in Indexes
    BY <1>5 DEF Indexes
  <2>2. sent[c] + 1 \in 0..(ArgumentPieces + 1)
    BY <1>3, <2>1
  <2>3. PiecesOf(c, sent[c] + 1) \in Seq([call : StreamCalls, place : 0..ArgumentPieces])
    BY <2>1, <2>2, PiecesFacts
  <2>4. ToSet(PiecesOf(c, sent[c] + 1)) \subseteq [call : StreamCalls, place : 0..ArgumentPieces]
    <3>1. PICK s, T : s = PiecesOf(c, sent[c] + 1)
                      /\ T = [call : StreamCalls, place : 0..ArgumentPieces]
      OBVIOUS
    <3>2. s \in Seq(T)
      BY <2>3, <3>1
    <3>3. \A k \in DOMAIN s : s[k] \in T
      BY <3>2
    <3>4. ToSet(s) \subseteq T
      BY <3>3 DEF ToSet
    <3> QED BY <3>1, <3>4
  <2> QED BY <1>6, <2>1, <2>4
<1>8. StreamTypeOK
  BY <1>2, <1>7 DEF StreamIInv, StreamTypeOK, PiecesSent
<1>9. CallsKeptApart
  <2>1. ASSUME NEW c \in StreamCalls
        PROVE  IF sentPieces[c] < 0 THEN c \notin DOMAIN toolCallsMap
               ELSE toolCallsMap[c] = [id |-> c,
                                       pieces |-> [k \in 1..(sentPieces[c] + 1) |-> Piece(c, k - 1)]]
    <3>1. sent[c] \in Int
      BY <1>3
    <3>2. CASE sent[c] < 0
      <4>1. c \notin DOMAIN msg
        BY <1>5, <3>1, <3>2
      <4> QED BY <1>1, <1>2, <3>2, <4>1
    <3>3. CASE ~(sent[c] < 0)
      <4>1. c \in DOMAIN msg
        BY <1>5, <3>1, <3>3
      <4>2. msg[c] = [id |-> c, pieces |-> PiecesOf(c, sent[c] + 1)]
        BY <1>4, <1>5, <4>1
      <4> QED BY <1>1, <1>2, <3>3, <4>2 DEF PiecesOf
    <3> QED BY <3>2, <3>3
  <2> QED BY <1>2, <2>1 DEF CallsKeptApart
<1>10. WholeIsAll /\ StreamBounded
  <2>1. MaxStreamChunks \in Nat
    BY StreamFacts
  <2> QED BY <2>1 DEF StreamIInv, WholeIsAll, StreamBounded
<1> QED BY <1>8, <1>9, <1>10

(* For any number of parallel calls and pieces, given with their indexes:  *)
(* each call of the message has all of its own pieces and no other's.      *)
THEOREM PiecesStayApart ==
  ASSUME IndexGiven
  PROVE  StreamSpec => [](StreamTypeOK /\ CallsKeptApart /\ WholeIsAll /\ StreamBounded)
<1>1. IndexGiven
  OBVIOUS
<1> QED BY <1>1, StreamInitHolds, StreamStepHolds, StreamImplies, PTL DEF StreamSpec

--------------------------------------------------------------------------------
(***************************************************************************)
(* The artifact store.  Its inductive invariant adds to the count of bytes *)
(* that it is the number of the bytes themselves, and to the pages that the*)
(* characters shown all end before the next one starts.                    *)
(***************************************************************************)

(* Counting by a map: no more values than places.                          *)
LEMMA ImageCounts ==
  ASSUME NEW A, IsFiniteSet(A), NEW B, NEW f \in [A -> B], \A b \in B : \E a \in A : f[a] = b
  PROVE  /\ IsFiniteSet(B) /\ Cardinality(B) \in Nat /\ Cardinality(A) \in Nat
         /\ Cardinality(B) <= Cardinality(A)
<1>1. f \in Surjection(A, B)
  BY DEF Surjection
<1> QED BY <1>1, FS_Surjection, FS_CardinalityType

LEMMA SubsetCounts ==
  ASSUME NEW B, IsFiniteSet(B), NEW A, A \subseteq B
  PROVE  /\ IsFiniteSet(A) /\ Cardinality(A) \in Nat /\ Cardinality(B) \in Nat
         /\ Cardinality(A) <= Cardinality(B)
<1>1. A \in SUBSET B
  OBVIOUS
<1> QED BY <1>1, FS_Subset, FS_CardinalityType

LEMMA SpanCounts ==
  ASSUME NEW off \in Nat, NEW c \in Nat, off <= c
  PROVE  IsFiniteSet((off + 1)..c) /\ Cardinality((off + 1)..c) = c - off
<1>1. off + 1 \in Int /\ c \in Int
  OBVIOUS
<1>2. /\ IsFiniteSet((off + 1)..c)
      /\ Cardinality((off + 1)..c) = IF off + 1 > c THEN 0 ELSE c - (off + 1) + 1
  BY <1>1, FS_Interval
<1>3. (IF off + 1 > c THEN 0 ELSE c - (off + 1) + 1) = c - off
  OBVIOUS
<1> QED BY <1>2, <1>3

(* The characters of a content are numbered without gaps, none after more  *)
(* than its bytes.                                                         *)
LEMMA EncodedFacts ==
  ASSUME NEW x, Encoded(x)
  PROVE  /\ Len(x) \in Nat /\ DOMAIN x = 1..Len(x) /\ x \in Seq(Nat \ {0})
         /\ IsFiniteSet(DOMAIN x) /\ Cardinality(DOMAIN x) = Len(x)
         /\ \A b \in DOMAIN x : x[b] \in 1..Len(x) /\ 1..x[b] \subseteq ToSet(x)
         /\ ToSet(x) \subseteq 1..Len(x)
         /\ \A d \in ToSet(x) : /\ d \in Nat /\ d >= 1 /\ 1..d \subseteq ToSet(x)
                                /\ \E b \in DOMAIN x : x[b] = d
<1>1. x \in Seq(Nat \ {0})
  BY DEF Encoded
<1>2. Len(x) \in Nat /\ DOMAIN x = 1..Len(x) /\ \A b \in DOMAIN x : x[b] \in Nat /\ x[b] >= 1
  BY <1>1
<1>3. IsFiniteSet(DOMAIN x) /\ Cardinality(DOMAIN x) = Len(x)
  BY <1>2, FiniteInterval
<1>4. ToSet(x) = {x[b] : b \in DOMAIN x}
  BY DEF ToSet
<1>5. \A b \in DOMAIN x : 1..x[b] \subseteq ToSet(x)
  BY DEF Encoded
<1>6. IsFiniteSet(ToSet(x)) /\ Cardinality(ToSet(x)) \in Nat /\ Cardinality(ToSet(x)) <= Len(x)
  <2>1. PICK f, T : f = [b \in DOMAIN x |-> x[b]] /\ T = ToSet(x)
    OBVIOUS
  <2>2. f \in [DOMAIN x -> T] /\ \A t \in T : \E b \in DOMAIN x : f[b] = t
    BY <1>4, <2>1
  <2> QED BY <1>3, <2>1, <2>2, ImageCounts
<1>7. ASSUME NEW b \in DOMAIN x PROVE x[b] \in 1..Len(x)
  <2>1. x[b] \in Nat /\ x[b] >= 1
    BY <1>2
  <2>2. Cardinality(1..x[b]) = x[b]
    BY <2>1, FiniteInterval
  <2>3. Cardinality(1..x[b]) <= Cardinality(ToSet(x))
    BY <1>5, <1>6, SubsetCounts
  <2> QED BY <1>2, <1>6, <2>1, <2>2, <2>3
<1>8. \A d \in ToSet(x) : \E b \in DOMAIN x : x[b] = d
  BY <1>4
<1>9. ToSet(x) \subseteq 1..Len(x)
  BY <1>7, <1>8
<1>10. \A d \in ToSet(x) : d \in Nat /\ d >= 1 /\ 1..d \subseteq ToSet(x)
  BY <1>2, <1>5, <1>8
<1> QED BY <1>1, <1>2, <1>3, <1>5, <1>7, <1>8, <1>9, <1>10

(* What a page says of the characters it shows (chars, of a content x) when *)
(* it was read at off and the next one is read at next.                    *)
ReadPast(text, x, d, off) ==
  IF text THEN d <= off ELSE \A b \in DOMAIN x : x[b] = d => b <= off

PageOK(text, x, off, chars, next) ==
  /\ chars \subseteq ToSet(x) /\ next \in Nat /\ off <= next
  /\ \A d \in chars : ReadPast(text, x, d, next)
  /\ \A d \in ToSet(x), e \in chars : ReadPast(text, x, d, off) => d < e
  /\ (\A b \in DOMAIN x : x[b] = b) => chars = DOMAIN x \cap (off + 1)..next

LEMMA TextPage ==
  ASSUME NEW x, Encoded(x), NEW off \in Nat, NEW limit \in Nat \ {0},
         NEW chars, chars = ToSet(x) \cap (off + 1)..(off + limit),
         NEW count, count = Cardinality(BytesOf(x, chars))
  PROVE  PageOK(TRUE, x, off, chars, off + count)
<1>1. PICK S, L : S = BytesOf(x, chars) /\ L = Len(x)
  OBVIOUS
<1>2. S = {b \in DOMAIN x : x[b] \in chars}
  BY <1>1 DEF BytesOf
<1>3. /\ L \in Nat /\ DOMAIN x = 1..L /\ IsFiniteSet(DOMAIN x) /\ Cardinality(DOMAIN x) = L
      /\ \A d \in ToSet(x) : d \in Nat /\ 1..d \subseteq ToSet(x) /\ \E b \in DOMAIN x : x[b] = d
  BY <1>1, EncodedFacts
<1>4. IsFiniteSet(S) /\ count \in Nat /\ count = Cardinality(S)
  <2>1. S \subseteq DOMAIN x
    BY <1>2
  <2> QED BY <1>1, <1>3, <2>1, SubsetCounts
<1>5. \A d \in chars : d \in Nat /\ off < d /\ d <= off + limit /\ d \in ToSet(x)
  BY <1>3
<1>6. ASSUME NEW d \in chars PROVE d <= off + count
  <2>1. d \in Nat /\ off < d /\ d <= off + limit /\ d \in ToSet(x)
    BY <1>5
  <2>2. PICK T : T = (off + 1)..d
    OBVIOUS
  <2>3. IsFiniteSet(T) /\ Cardinality(T) = d - off
    BY <2>1, <2>2, SpanCounts
  <2>4. \A t \in T : t \in chars
    <3>1. ASSUME NEW t \in T PROVE t \in chars
      <4>1. t \in Int /\ off + 1 <= t /\ t <= d
        BY <2>1, <2>2
      <4>2. t \in 1..d /\ t \in (off + 1)..(off + limit)
        BY <2>1, <4>1
      <4>3. t \in ToSet(x)
        BY <1>3, <2>1, <4>2
      <4> QED BY <4>2, <4>3
    <3> QED BY <3>1
  <2>5. PICK U, f : U = {b \in S : x[b] \in T} /\ f = [b \in U |-> x[b]]
    OBVIOUS
  <2>6. IsFiniteSet(U) /\ Cardinality(U) \in Nat /\ Cardinality(U) <= count
    BY <1>4, <2>5, SubsetCounts
  <2>7. f \in [U -> T]
    BY <2>5
  <2>8. \A t \in T : \E b \in U : f[b] = t
    <3>1. ASSUME NEW t \in T PROVE \E b \in U : f[b] = t
      <4>1. t \in chars /\ t \in ToSet(x)
        BY <1>5, <2>4
      <4>2. PICK b \in DOMAIN x : x[b] = t
        BY <1>3, <4>1
      <4>3. b \in U
        BY <1>2, <2>5, <4>1, <4>2
      <4> QED BY <2>5, <4>2, <4>3
    <3> QED BY <3>1
  <2>9. Cardinality(T) <= Cardinality(U)
    BY <2>6, <2>7, <2>8, ImageCounts
  <2>10. d - off <= count
    BY <1>4, <2>1, <2>3, <2>6, <2>9
  <2> QED BY <1>4, <2>1, <2>10
<1>7. ASSUME \A b \in DOMAIN x : x[b] = b
      PROVE  chars = DOMAIN x \cap (off + 1)..(off + count)
  <2>1. ToSet(x) = DOMAIN x
    BY <1>7 DEF ToSet
  <2>2. S = chars
    BY <1>2, <1>7, <2>1
  <2>3. ASSUME NEW d \in chars PROVE d \in DOMAIN x /\ d \in (off + 1)..(off + count)
    <3>1. d \in Nat /\ off < d /\ d <= off + count /\ d \in ToSet(x)
      BY <1>5, <1>6
    <3> QED BY <1>4, <2>1, <3>1
  <2>4. IsFiniteSet((off + 1)..(off + limit)) /\ Cardinality((off + 1)..(off + limit)) = limit
    <3>1. off + limit \in Nat /\ off <= off + limit /\ (off + limit) - off = limit
      OBVIOUS
    <3> QED BY <3>1, SpanCounts
  <2>5. chars \subseteq (off + 1)..(off + limit)
    OBVIOUS
  <2>6. count <= limit
    BY <1>4, <2>2, <2>4, <2>5, SubsetCounts
  <2>7. ASSUME NEW d \in DOMAIN x, d \in (off + 1)..(off + count) PROVE d \in chars
    <3>1. d \in (off + 1)..(off + limit)
      BY <1>4, <2>6, <2>7
    <3> QED BY <2>1, <3>1
  <2> QED BY <2>3, <2>7
<1>8. \A d \in chars : ReadPast(TRUE, x, d, off + count)
  BY <1>6 DEF ReadPast
<1>9. ASSUME NEW d \in ToSet(x), NEW e \in chars, ReadPast(TRUE, x, d, off) PROVE d < e
  <2>1. d <= off /\ off < e /\ d \in Nat /\ e \in Nat
    BY <1>3, <1>5, <1>9 DEF ReadPast
  <2> QED BY <2>1
<1>10. chars \subseteq ToSet(x) /\ off + count \in Nat /\ off <= off + count
  BY <1>4
<1> QED BY <1>7, <1>8, <1>9, <1>10 DEF PageOK

(* Pages of bytes: a character is shown when all of its bytes were read,   *)
(* and of any other that was met no more than one byte was.                *)
LEMMA BytePage ==
  ASSUME NEW x, Encoded(x), NEW off \in Nat, NEW limit \in Nat \ {0}
  PROVE  PageOK(FALSE, x, off, ReadBytes(x, off, limit).chars,
                off + ReadBytes(x, off, limit).bytes)
<1>a. PICK read : read = DOMAIN x \cap (off + 1)..(off + limit)
  OBVIOUS
<1>b. PICK met : met = {x[b] : b \in read}
  OBVIOUS
<1>c. PICK chars : chars = {d \in met : BytesOf(x, {d}) \subseteq read}
  OBVIOUS
<1>d. PICK count : count = Cardinality(BytesOf(x, chars)) + 3 * Cardinality(met \ chars)
  OBVIOUS
<1>e. ReadBytes(x, off, limit) = [chars |-> chars, bytes |-> count]
  BY <1>a, <1>b, <1>c, <1>d DEF ReadBytes
<1> USE <1>a, <1>b, <1>c, <1>d
<1>1. PICK L, S, K : L = Len(x) /\ S = BytesOf(x, chars) /\ K = met \ chars
  OBVIOUS
<1>2. /\ L \in Nat /\ DOMAIN x = 1..L /\ IsFiniteSet(DOMAIN x) /\ Cardinality(DOMAIN x) = L
      /\ \A d \in ToSet(x) : d \in Nat /\ 1..d \subseteq ToSet(x) /\ \E b \in DOMAIN x : x[b] = d
      /\ \A b \in DOMAIN x : x[b] \in Nat
  <2>1. \A b \in DOMAIN x : x[b] \in 1..L
    BY <1>1, EncodedFacts
  <2>2. L \in Nat /\ DOMAIN x = 1..L /\ IsFiniteSet(DOMAIN x) /\ Cardinality(DOMAIN x) = L
    BY <1>1, EncodedFacts
  <2>3. \A d \in ToSet(x) : d \in Nat /\ 1..d \subseteq ToSet(x) /\ \E b \in DOMAIN x : x[b] = d
    BY EncodedFacts
  <2> QED BY <2>1, <2>2, <2>3
<1>3. \A b \in read : b \in DOMAIN x /\ b \in Nat /\ off < b /\ b <= off + limit
  BY <1>2
<1>4. S = {b \in DOMAIN x : x[b] \in chars}
  BY <1>1 DEF BytesOf
<1>5. ASSUME NEW d \in met
      PROVE  d \in chars <=> \A b \in DOMAIN x : x[b] = d => b \in read
  <2>1. BytesOf(x, {d}) = {b \in DOMAIN x : x[b] = d}
    BY DEF BytesOf
  <2> QED BY <2>1
<1>6. \A d \in chars : d \in met /\ \A b \in DOMAIN x : x[b] = d => b \in read
  BY <1>5
<1>7. chars \subseteq met /\ met \subseteq ToSet(x)
  BY <1>3 DEF ToSet
<1>8. IsFiniteSet(read) /\ Cardinality(read) \in Nat /\ S \subseteq read
  <2>1. read \subseteq DOMAIN x
    OBVIOUS
  <2>2. S \subseteq read
    BY <1>4, <1>6
  <2> QED BY <1>2, <2>1, <2>2, SubsetCounts
<1>9. IsFiniteSet(met) /\ IsFiniteSet(K) /\ Cardinality(K) \in Nat
  <2>1. PICK f : f = [b \in read |-> x[b]]
    OBVIOUS
  <2>2. f \in [read -> met] /\ \A d \in met : \E b \in read : f[b] = d
    BY <2>1
  <2>3. IsFiniteSet(met)
    BY <1>8, <2>2, ImageCounts
  <2>4. K \subseteq met
    BY <1>1
  <2> QED BY <2>3, <2>4, SubsetCounts
<1>10. IsFiniteSet(S) /\ Cardinality(S) \in Nat
  BY <1>8, SubsetCounts
<1>11. count \in Nat /\ count = Cardinality(S) + 3 * Cardinality(K)
  BY <1>1, <1>9, <1>10
(* What was read and not shown has each character once.                    *)
<1>12. PICK R : R = read \ S
  OBVIOUS
<1>13. \A b \in R : x[b] \in K /\ b \in read /\ b \in DOMAIN x
  BY <1>1, <1>3, <1>4, <1>12
<1>14. ASSUME NEW b \in R, NEW c \in R, x[b] = x[c] PROVE b = c
  <2>1. b \in Nat /\ c \in Nat /\ b \in read /\ c \in read /\ b \in DOMAIN x /\ c \in DOMAIN x
    BY <1>3, <1>13
  <2>2. x[b] \in met /\ x[b] \notin chars
    BY <1>1, <1>13
  <2>3. PICK d \in DOMAIN x : x[d] = x[b] /\ d \notin read
    BY <1>5, <2>2
  <2>4. d \in Nat /\ d # b /\ d # c
    BY <1>2, <2>1, <2>3
  <2>5. \A i, j \in DOMAIN x : x[i] = x[j] => ~(i + 1 < j)
    <3>1. ASSUME NEW i \in DOMAIN x, NEW j \in DOMAIN x, x[i] = x[j], i + 1 < j PROVE FALSE
      <4>1. x[i] < x[j]
        BY <3>1 DEF Encoded
      <4>2. x[i] \in Nat /\ x[j] \in Nat
        BY <1>2
      <4> QED BY <3>1, <4>1, <4>2
    <3> QED BY <3>1
  <2>6. /\ ~(d + 1 < b) /\ ~(b + 1 < d) /\ ~(d + 1 < c)
        /\ ~(c + 1 < d) /\ ~(b + 1 < c) /\ ~(c + 1 < b)
    BY <1>14, <2>1, <2>3, <2>5
  <2> QED BY <2>1, <2>4, <2>6
<1>15. Cardinality(R) <= Cardinality(K) /\ IsFiniteSet(R) /\ Cardinality(R) \in Nat
  <2>1. PICK f : f = [b \in R |-> x[b]]
    OBVIOUS
  <2>2. f \in [R -> K] /\ \A b, c \in R : f[b] = f[c] => b = c
    BY <1>13, <1>14, <2>1
  <2>3. f \in Injection(R, K)
    BY <2>2 DEF Injection, IsInjective
  <2> QED BY <1>9, <2>3, FS_Injection, FS_CardinalityType
<1>16. Cardinality(read) = Cardinality(S) + Cardinality(R)
  <2>1. read = S \cup R /\ S \cap R = {}
    BY <1>8, <1>12
  <2> QED BY <1>10, <1>15, <2>1, DisjointCounts
<1>17. Cardinality(read) <= count
  BY <1>9, <1>10, <1>11, <1>15, <1>16
<1>18. ASSUME NEW b \in read PROVE b <= off + count
  <2>1. b \in Nat /\ off < b /\ b <= off + limit /\ b \in DOMAIN x
    BY <1>3
  <2>2. IsFiniteSet((off + 1)..b) /\ Cardinality((off + 1)..b) = b - off
    BY <2>1, SpanCounts
  <2>3. (off + 1)..b \subseteq read
    <3>1. ASSUME NEW i \in (off + 1)..b PROVE i \in read
      <4>1. i \in 1..L /\ i \in (off + 1)..(off + limit)
        BY <1>2, <2>1
      <4> QED BY <1>2, <4>1
    <3> QED BY <3>1
  <2>4. Cardinality((off + 1)..b) <= Cardinality(read)
    BY <1>8, <2>3, SubsetCounts
  <2> QED BY <1>8, <1>11, <1>17, <2>1, <2>2, <2>4
<1>19. \A d \in chars : ReadPast(FALSE, x, d, off + count)
  BY <1>6, <1>18 DEF ReadPast
<1>20. ASSUME NEW d \in ToSet(x), NEW e \in chars, ReadPast(FALSE, x, d, off) PROVE d < e
  <2>1. PICK b \in DOMAIN x : x[b] = d
    BY <1>2
  <2>2. PICK c \in read : x[c] = e
    BY <1>7
  <2>3. b <= off /\ off < c /\ b \in Nat /\ c \in Nat /\ c \in DOMAIN x
    BY <1>2, <1>3, <1>20, <2>1, <2>2 DEF ReadPast
  <2>4. b < c /\ d \in Nat /\ e \in Nat
    BY <1>2, <2>1, <2>2, <2>3
  <2>5. x[b] <= x[c]
    BY <2>3, <2>4 DEF Encoded
  <2>6. d # e
    <3>1. SUFFICES ASSUME d = e PROVE FALSE
      OBVIOUS
    <3>2. c <= off
      BY <1>20, <2>2, <2>3, <3>1 DEF ReadPast
    <3> QED BY <2>3, <3>2
  <2> QED BY <2>1, <2>2, <2>4, <2>5, <2>6
<1>21. ASSUME \A b \in DOMAIN x : x[b] = b
       PROVE  chars = DOMAIN x \cap (off + 1)..(off + count)
  <2>1. met = read
    BY <1>3, <1>21
  <2>2. \A d \in met : d \in chars
    <3>1. \A d \in met : \A b \in DOMAIN x : x[b] = d => b \in read
      BY <1>21, <2>1
    <3> QED BY <1>5, <3>1
  <2>3. chars = read
    BY <1>7, <2>1, <2>2
  <2>4. S = read /\ K = {}
    <3>1. \A b \in read : b \in DOMAIN x /\ x[b] \in chars
      BY <1>3, <1>21, <2>3
    <3>2. read \subseteq S
      BY <1>4, <3>1
    <3>3. S = read
      BY <1>8, <3>2
    <3>4. met \ chars = {}
      BY <2>1, <2>3
    <3> QED BY <1>1, <3>3, <3>4
  <2>5. count = Cardinality(read)
    BY <1>8, <1>11, <2>4, FS_EmptySet
  <2>6. IsFiniteSet((off + 1)..(off + limit)) /\ Cardinality((off + 1)..(off + limit)) = limit
    <3>1. off + limit \in Nat /\ off <= off + limit /\ (off + limit) - off = limit
      OBVIOUS
    <3> QED BY <3>1, SpanCounts
  <2>7. count <= limit
    <3>1. read \subseteq (off + 1)..(off + limit)
      OBVIOUS
    <3> QED BY <2>5, <2>6, <3>1, SubsetCounts
  <2>8. ASSUME NEW d \in DOMAIN x, d \in (off + 1)..(off + count) PROVE d \in chars
    <3>1. d \in (off + 1)..(off + limit)
      BY <1>11, <2>7, <2>8
    <3>2. d \in read
      BY <2>8, <3>1
    <3> QED BY <2>3, <3>2
  <2>9. ASSUME NEW d \in chars PROVE d \in DOMAIN x /\ d \in (off + 1)..(off + count)
    <3>0. d \in read
      BY <2>3
    <3>1. d \in Nat /\ off < d /\ d <= off + count /\ d \in DOMAIN x
      BY <1>3, <1>18, <3>0
    <3> QED BY <1>11, <3>1
  <2> QED BY <2>8, <2>9
<1>22. chars \subseteq ToSet(x) /\ off + count \in Nat /\ off <= off + count
  BY <1>7, <1>11
<1>23. PageOK(FALSE, x, off, chars, off + count)
  BY <1>19, <1>20, <1>21, <1>22 DEF PageOK
<1>24. ReadBytes(x, off, limit).chars = chars /\ ReadBytes(x, off, limit).bytes = count
  BY ONLY <1>e
<1> QED BY ONLY <1>23, <1>24

(* A page of any artifact.                                                 *)
LEMMA PageFacts ==
  ASSUME NEW o, Encoded(o.content), NEW off \in Nat, NEW limit \in Nat \ {0}
  PROVE  /\ PageOK(o.source = "text", o.content, off, ReadEntry(o, off, limit).chars,
                   NextOffset(off, ReadEntry(o, off, limit)))
<1>1. PICK x : x = o.content
  OBVIOUS
<1>2. CASE o.source = "text"
  <2>1. PICK chars, count : /\ chars = ToSet(x) \cap (off + 1)..(off + limit)
                            /\ count = Cardinality(BytesOf(x, chars))
    OBVIOUS
  <2>2. ReadEntry(o, off, limit) = [chars |-> chars, bytes |-> count]
    BY <1>1, <1>2, <2>1 DEF ReadEntry, ReadText
  <2>3. PageOK(TRUE, x, off, chars, off + count)
    BY <1>1, <2>1, TextPage
  <2>4. NextOffset(off, ReadEntry(o, off, limit)) = off + count /\ ReadEntry(o, off, limit).chars = chars
    BY <2>2 DEF NextOffset
  <2> QED BY <1>1, <1>2, <2>3, <2>4
<1>3. CASE o.source # "text"
  <2>1. ReadEntry(o, off, limit) = ReadBytes(x, off, limit)
    BY <1>1, <1>3 DEF ReadEntry
  <2>2. PageOK(FALSE, x, off, ReadBytes(x, off, limit).chars, off + ReadBytes(x, off, limit).bytes)
    BY <1>1, BytePage
  <2>3. (o.source = "text") = FALSE
    BY <1>3
  <2> QED BY <1>1, <2>1, <2>2, <2>3 DEF NextOffset
<1> QED BY <1>2, <1>3

--------------------------------------------------------------------------------
(* The bytes held inline for some artifacts.                               *)
HeldBytes(E, A) == UNION {{a} \X Inline(E[a]) : a \in A}

LEMMA InlineFacts ==
  ASSUME NEW e \in Entries
  PROVE  IsFiniteSet(Inline(e)) /\ Cardinality(Inline(e)) \in Nat
<1>1. Encoded(e.offer.content)
  <2>1. e.offer \in Offers
    BY DEF Entries
  <2> QED BY <2>1, ArtifactAssumption
<1>2. IsFiniteSet(Bytes(e))
  BY <1>1, EncodedFacts DEF Bytes
<1>3. IsFiniteSet(Inline(e))
  BY <1>2, FS_EmptySet DEF Inline
<1> QED BY <1>3, FS_CardinalityType

LEMMA HeldOne ==
  ASSUME NEW E, NEW a, E[a] \in Entries
  PROVE  /\ IsFiniteSet(HeldBytes(E, {a}))
         /\ Cardinality(HeldBytes(E, {a})) = Cardinality(Inline(E[a]))
<1>1. PICK T : T = Inline(E[a])
  OBVIOUS
<1>2. IsFiniteSet(T) /\ Cardinality(T) \in Nat
  BY <1>1, InlineFacts
<1>3. HeldBytes(E, {a}) = {a} \X T
  BY <1>1 DEF HeldBytes
<1>4. IsFiniteSet({a}) /\ Cardinality({a}) = 1
  BY FS_Singleton
<1>5. IsFiniteSet({a} \X T) /\ Cardinality({a} \X T) = 1 * Cardinality(T)
  <2>1. IsFiniteSet({a} \X T) /\ Cardinality({a} \X T) = Cardinality({a}) * Cardinality(T)
    BY <1>2, <1>4, FS_Product
  <2> QED BY <1>4, <2>1
<1>6. 1 * Cardinality(T) = Cardinality(T)
  BY <1>2
<1> QED BY <1>1, <1>3, <1>5, <1>6

LEMMA HeldFinite ==
  ASSUME NEW E, NEW A, IsFiniteSet(A), \A a \in A : E[a] \in Entries
  PROVE  IsFiniteSet(HeldBytes(E, A)) /\ Cardinality(HeldBytes(E, A)) \in Nat
<1>1. PICK f, S : S = {{a} \X Inline(E[a]) : a \in A} /\ f = [a \in A |-> {a} \X Inline(E[a])]
  OBVIOUS
<1>2. f \in [A -> S] /\ \A t \in S : \E a \in A : f[a] = t
  BY <1>1
<1>3. IsFiniteSet(S)
  BY <1>2, ImageCounts
<1>4. ASSUME NEW T \in S PROVE IsFiniteSet(T)
  <2>1. PICK a \in A : T = {a} \X Inline(E[a])
    BY <1>1
  <2>2. IsFiniteSet(Inline(E[a]))
    BY InlineFacts
  <2> QED BY <2>1, <2>2, FS_Product, FS_Singleton
<1>5. HeldBytes(E, A) = UNION S
  BY <1>1 DEF HeldBytes
<1>6. IsFiniteSet(UNION S)
  BY <1>3, <1>4, FS_UNION
<1> QED BY <1>5, <1>6, FS_CardinalityType

LEMMA HeldSplit ==
  ASSUME NEW E, NEW A, IsFiniteSet(A), NEW B, IsFiniteSet(B), A \cap B = {},
         \A a \in A \cup B : E[a] \in Entries
  PROVE  /\ Cardinality(HeldBytes(E, A \cup B)) =
              Cardinality(HeldBytes(E, A)) + Cardinality(HeldBytes(E, B))
         /\ Cardinality(HeldBytes(E, A)) \in Nat /\ Cardinality(HeldBytes(E, B)) \in Nat
<1>1. HeldBytes(E, A \cup B) = HeldBytes(E, A) \cup HeldBytes(E, B)
  BY DEF HeldBytes
<1>2. \A p \in HeldBytes(E, A) : p[1] \in A
  BY DEF HeldBytes
<1>3. \A p \in HeldBytes(E, B) : p[1] \in B
  BY DEF HeldBytes
<1>4. HeldBytes(E, A) \cap HeldBytes(E, B) = {}
  BY <1>2, <1>3
<1>5. IsFiniteSet(HeldBytes(E, A)) /\ IsFiniteSet(HeldBytes(E, B))
  BY HeldFinite
<1> QED BY <1>1, <1>4, <1>5, DisjointCounts

LEMMA HeldMinus ==
  ASSUME NEW E, NEW A, IsFiniteSet(A), \A a \in A : E[a] \in Entries, NEW B
  PROVE  /\ Cardinality(HeldBytes(E, A \ B)) =
              Cardinality(HeldBytes(E, A)) - Cardinality(HeldBytes(E, B \cap A))
         /\ Cardinality(HeldBytes(E, A \ B)) <= Cardinality(HeldBytes(E, A))
<1>1. PICK C, D : C = A \ B /\ D = B \cap A
  OBVIOUS
<1>2. C \subseteq A /\ D \subseteq A /\ C \cap D = {} /\ C \cup D = A
  BY <1>1
<1>3. IsFiniteSet(C) /\ IsFiniteSet(D)
  BY <1>2, SubsetCounts
<1>4. /\ Cardinality(HeldBytes(E, C \cup D)) =
           Cardinality(HeldBytes(E, C)) + Cardinality(HeldBytes(E, D))
      /\ Cardinality(HeldBytes(E, C)) \in Nat /\ Cardinality(HeldBytes(E, D)) \in Nat
  BY <1>2, <1>3, HeldSplit
<1>5. Cardinality(HeldBytes(E, A)) = Cardinality(HeldBytes(E, C)) + Cardinality(HeldBytes(E, D))
  BY <1>2, <1>4
<1> QED BY <1>1, <1>4, <1>5

(* What is stored: the order o of the artifacts, their entries E and the   *)
(* count n of their bytes.                                                 *)
StoreOK(o, E, n) ==
  /\ o \in Seq(Artifacts) /\ IsInjective(o) /\ ToSet(o) \subseteq DOMAIN E
  /\ E \in [DOMAIN E -> Entries] /\ DOMAIN E \subseteq Artifacts
  /\ \A a \in DOMAIN E : E[a].durable => E[a].expires = Never
  /\ n = Cardinality(HeldBytes(E, ToSet(o)))

LEMMA ItemsFinite ==
  ASSUME NEW S, NEW o \in Seq(S)
  PROVE  IsFiniteSet(ToSet(o)) /\ ToSet(o) = {o[i] : i \in 1..Len(o)} /\ Len(o) \in Nat
<1>1. Len(o) \in Nat /\ DOMAIN o = 1..Len(o)
  OBVIOUS
<1>2. ToSet(o) = {o[i] : i \in 1..Len(o)}
  BY <1>1 DEF ToSet
<1>3. PICK f, T : f = [i \in 1..Len(o) |-> o[i]] /\ T = ToSet(o)
  OBVIOUS
<1>4. f \in [1..Len(o) -> T] /\ \A t \in T : \E i \in 1..Len(o) : f[i] = t
  BY <1>2, <1>3
<1>5. IsFiniteSet(1..Len(o))
  BY <1>1, FiniteInterval
<1>6. IsFiniteSet(T)
  BY <1>4, <1>5, ImageCounts
<1> QED BY <1>1, <1>2, <1>3, <1>6

LEMMA StoredFacts ==
  ASSUME NEW o, NEW E, NEW n, StoreOK(o, E, n)
  PROVE  /\ n \in Nat /\ Len(o) \in Nat /\ IsFiniteSet(ToSet(o))
         /\ \A a \in ToSet(o) : E[a] \in Entries /\ a \in Artifacts
<1>1. o \in Seq(Artifacts) /\ ToSet(o) \subseteq DOMAIN E /\ E \in [DOMAIN E -> Entries]
      /\ DOMAIN E \subseteq Artifacts /\ n = Cardinality(HeldBytes(E, ToSet(o)))
  BY DEF StoreOK
<1>2. IsFiniteSet(ToSet(o)) /\ Len(o) \in Nat
  BY <1>1, ItemsFinite
<1>3. \A a \in ToSet(o) : E[a] \in Entries /\ a \in Artifacts
  BY <1>1
<1>4. n \in Nat
  BY <1>1, <1>2, <1>3, HeldFinite
<1> QED BY <1>2, <1>3, <1>4

(* Some are taken out.                                                     *)
LEMMA OmitOK ==
  ASSUME NEW o, NEW E, NEW n, StoreOK(o, E, n), NEW A,
         NEW u, u = Omitting(o, A), NEW m, m = n - Cardinality(HeldBytes(E, A \cap ToSet(o)))
  PROVE  /\ StoreOK(u, E, m) /\ ToSet(u) = ToSet(o) \ A
         /\ Len(u) <= Len(o) /\ m <= n
<1>1. o \in Seq(Artifacts) /\ IsInjective(o) /\ ToSet(o) \subseteq DOMAIN E
      /\ n = Cardinality(HeldBytes(E, ToSet(o)))
  BY DEF StoreOK
<1>2. /\ u \in Seq(Artifacts) /\ Len(u) <= Len(o)
      /\ ToSet(u) = ToSet(o) \ A /\ IsInjective(u)
  BY <1>1, OmitFacts
<1>3. IsFiniteSet(ToSet(o)) /\ \A a \in ToSet(o) : E[a] \in Entries
  BY StoredFacts
<1>4. /\ Cardinality(HeldBytes(E, ToSet(o) \ A)) =
           Cardinality(HeldBytes(E, ToSet(o))) - Cardinality(HeldBytes(E, A \cap ToSet(o)))
      /\ Cardinality(HeldBytes(E, ToSet(o) \ A)) <= Cardinality(HeldBytes(E, ToSet(o)))
  BY <1>3, HeldMinus
<1>5. m = Cardinality(HeldBytes(E, ToSet(u))) /\ m <= n
  BY <1>1, <1>2, <1>4
<1>6. ToSet(u) \subseteq DOMAIN E
  BY <1>1, <1>2
<1>7. StoreOK(u, E, m)
  BY <1>2, <1>5, <1>6 DEF StoreOK
<1> QED BY <1>2, <1>5, <1>7

Extends(u, S, o, a) ==
  /\ u \in Seq(S) /\ Len(u) = Len(o) + 1
  /\ ToSet(u) = ToSet(o) \cup {a}
  /\ IsInjective(o) /\ a \notin ToSet(o) => IsInjective(u)

LEMMA AppendItem ==
  ASSUME NEW S, NEW o \in Seq(S), NEW a \in S, NEW u, u = Append(o, a)
  PROVE  Extends(u, S, o, a)
<1>1. /\ u \in Seq(S) /\ Len(u) = Len(o) + 1 /\ u[Len(o) + 1] = a
      /\ \A i \in 1..Len(o) : u[i] = o[i]
  BY AppendProperties
<1>2. Len(o) \in Nat /\ DOMAIN o = 1..Len(o) /\ DOMAIN u = 1..(Len(o) + 1)
  BY <1>1
<1>3. \A i \in DOMAIN u : i \in 1..Len(o) \/ i = Len(o) + 1
  BY <1>2
<1>7. ASSUME IsInjective(o), a \notin ToSet(o) PROVE IsInjective(u)
  <2>1. \A i \in 1..Len(o) : o[i] # a
    BY <1>2, <1>7 DEF ToSet
  <2>2. \A i, j \in 1..Len(o) : o[i] = o[j] => i = j
    BY <1>2, <1>7 DEF IsInjective
  <2>3. \A i, j \in DOMAIN u : u[i] = u[j] => i = j
    BY <1>1, <1>3, <2>1, <2>2
  <2> QED BY <2>3 DEF IsInjective
<1>8. ToSet(u) = ToSet(o) \cup {a}
  <2>1. ToSet(u) = {u[i] : i \in DOMAIN u} /\ ToSet(o) = {o[i] : i \in 1..Len(o)}
    BY <1>2 DEF ToSet
  <2>2. Len(o) + 1 \in DOMAIN u /\ 1..Len(o) \subseteq DOMAIN u
    BY <1>2
  <2>3. ASSUME NEW b \in ToSet(u) PROVE b \in ToSet(o) \cup {a}
    <3>1. PICK i \in DOMAIN u : u[i] = b
      BY <2>1
    <3> QED BY <1>1, <1>3, <2>1, <3>1
  <2>4. ASSUME NEW b \in ToSet(o) PROVE b \in ToSet(u)
    <3>1. PICK i \in 1..Len(o) : o[i] = b
      BY <2>1
    <3>2. u[i] = b /\ i \in DOMAIN u
      BY <1>1, <2>2, <3>1
    <3> QED BY <2>1, <3>2
  <2>5. a \in ToSet(u)
    BY <1>1, <2>1, <2>2
  <2> QED BY <2>3, <2>4, <2>5
<1> QED BY <1>1, <1>7, <1>8 DEF Extends

(* One comes.                                                              *)
WithEntry(E, a, e) == [b \in DOMAIN E \cup {a} |-> IF b = a THEN e ELSE E[b]]

LEMMA PutOK ==
  ASSUME NEW o, NEW E, NEW n, StoreOK(o, E, n), NEW a \in Artifacts, a \notin DOMAIN E,
         NEW e \in Entries, e.durable => e.expires = Never,
         NEW u, u = Append(o, a)
  PROVE  /\ StoreOK(u, WithEntry(E, a, e), n + Cardinality(Inline(e)))
         /\ ToSet(u) = ToSet(o) \cup {a}
<1>0. PICK F, m : /\ F = [b \in DOMAIN E \cup {a} |-> IF b = a THEN e ELSE E[b]]
                  /\ m = n + Cardinality(Inline(e))
  OBVIOUS
<1>1. /\ o \in Seq(Artifacts) /\ IsInjective(o) /\ ToSet(o) \subseteq DOMAIN E
      /\ E \in [DOMAIN E -> Entries] /\ DOMAIN E \subseteq Artifacts
      /\ \A b \in DOMAIN E : E[b].durable => E[b].expires = Never
      /\ n = Cardinality(HeldBytes(E, ToSet(o)))
  BY DEF StoreOK
<1>2. a \notin ToSet(o)
  BY <1>1
<1>3. u \in Seq(Artifacts) /\ IsInjective(u) /\ ToSet(u) = ToSet(o) \cup {a}
  <2>1. o \in Seq(Artifacts)
    BY <1>1
  <2>2. IsInjective(o)
    BY <1>1
  <2>3. Extends(u, Artifacts, o, a)
    BY <2>1, AppendItem
  <2> QED BY <2>2, <1>2, <2>3 DEF Extends
<1>4. /\ DOMAIN F = DOMAIN E \cup {a} /\ F[a] = e /\ \A b \in DOMAIN E : F[b] = E[b]
  BY <1>0
<1>5. \A b \in DOMAIN F : F[b] \in Entries /\ (F[b].durable => F[b].expires = Never)
  BY <1>1, <1>4
<1>6. F \in [DOMAIN F -> Entries]
  BY <1>0, <1>1
<1>7. m = Cardinality(HeldBytes(F, ToSet(u)))
  <2>1. HeldBytes(F, ToSet(o)) = HeldBytes(E, ToSet(o))
    <3>1. \A b \in ToSet(o) : F[b] = E[b]
      BY <1>1, <1>4
    <3> QED BY <3>1 DEF HeldBytes
  <2>2. IsFiniteSet(ToSet(o)) /\ IsFiniteSet({a}) /\ ToSet(o) \cap {a} = {}
    BY <1>2, StoredFacts, FS_Singleton
  <2>3. \A b \in ToSet(o) \cup {a} : F[b] \in Entries
    BY <1>1, <1>4, <1>5
  <2>4. Cardinality(HeldBytes(F, ToSet(o) \cup {a})) =
          Cardinality(HeldBytes(F, ToSet(o))) + Cardinality(HeldBytes(F, {a}))
    BY <2>2, <2>3, HeldSplit
  <2>5. Cardinality(HeldBytes(F, {a})) = Cardinality(Inline(e))
    <3>1. F[a] \in Entries
      BY <1>4
    <3> QED BY <1>4, <3>1, HeldOne
  <2> QED BY <1>0, <1>1, <1>3, <2>1, <2>4, <2>5
<1>8. ToSet(u) \subseteq DOMAIN F /\ DOMAIN F \subseteq Artifacts
  BY <1>1, <1>3, <1>4
<1>9. StoreOK(u, F, m)
  BY <1>3, <1>5, <1>6, <1>7, <1>8 DEF StoreOK
<1> QED BY <1>0, <1>3, <1>9 DEF WithEntry

(* One is used.                                                            *)
LEMMA TouchOK ==
  ASSUME NEW o, NEW E, NEW n, StoreOK(o, E, n), NEW a \in ToSet(o),
         NEW u, u = Append(Omitting(o, {a}), a)
  PROVE  StoreOK(u, E, n) /\ ToSet(u) = ToSet(o) /\ Len(u) <= Len(o)
<1>1. /\ o \in Seq(Artifacts) /\ IsInjective(o) /\ ToSet(o) \subseteq DOMAIN E
      /\ DOMAIN E \subseteq Artifacts /\ n = Cardinality(HeldBytes(E, ToSet(o)))
  BY DEF StoreOK
<1>2. PICK w, I : w = Omitting(o, {a}) /\ I = {i \in DOMAIN o : o[i] \notin {a}}
  OBVIOUS
<1>3. w \in Seq(Artifacts) /\ ToSet(w) = ToSet(o) \ {a} /\ IsInjective(w)
  BY <1>1, <1>2, OmitFacts
<1>4. a \in Artifacts /\ a \notin ToSet(w) /\ u = Append(w, a)
  BY <1>1, <1>2, <1>3
<1>5. /\ u \in Seq(Artifacts) /\ IsInjective(u) /\ Len(u) = Len(w) + 1
      /\ ToSet(u) = ToSet(w) \cup {a}
  <2>1. w \in Seq(Artifacts)
    BY <1>3
  <2>2. IsInjective(w)
    BY <1>3
  <2>3. Extends(u, Artifacts, w, a)
    BY <1>4, <2>1, AppendItem
  <2> QED BY <2>2, <1>4, <2>3 DEF Extends
<1>6. ToSet(u) = ToSet(o)
  BY <1>3, <1>5
<1>7. Len(w) + 1 <= Len(o)
  <2>1. w = Keeping(o, I) /\ I \in SUBSET DOMAIN o
    BY <1>2 DEF Omitting
  <2>2. Len(w) = Cardinality(I) /\ Cardinality(I) \in Nat
    BY <1>1, <2>1, KeepingKeeps
  <2>3. PICK i \in DOMAIN o : o[i] = a
    BY DEF ToSet
  <2>4. I # DOMAIN o
    BY <1>2, <2>3
  <2>5. Len(o) \in Nat /\ IsFiniteSet(DOMAIN o) /\ Cardinality(DOMAIN o) = Len(o)
    <3>1. Len(o) \in Nat /\ DOMAIN o = 1..Len(o)
      BY <1>1
    <3> QED BY <3>1, FiniteInterval
  <2>6. Cardinality(I) <= Cardinality(DOMAIN o) /\ Cardinality(I) # Cardinality(DOMAIN o)
    BY <2>1, <2>4, <2>5, FS_Subset
  <2> QED BY <2>2, <2>5, <2>6
<1>8. StoreOK(u, E, n)
  BY <1>5, <1>6 DEF StoreOK
<1> QED BY <1>5, <1>6, <1>7, <1>8

--------------------------------------------------------------------------------
(* What a reader has seen of a content x, with its next page at off.       *)
Increasing(q) == \A i \in 1..(Len(q) - 1) : q[i] < q[i + 1]

SeenOK(text, x, q, off) ==
  /\ q \in Seq(Nat) /\ Increasing(q)
  /\ \A d \in ToSet(q) : d \in ToSet(x) /\ ReadPast(text, x, d, off)
  /\ (\A b \in DOMAIN x : x[b] = b) => ToSet(q) = DOMAIN x \cap 1..off

LEMMA InOrderFacts ==
  ASSUME NEW x, Encoded(x), NEW chars, chars \subseteq ToSet(x), NEW q, q = InOrder(x, chars)
  PROVE  q \in Seq(Nat) /\ Increasing(q) /\ ToSet(q) = chars
<1>1. PICK all : all = [i \in 1..Len(x) |-> i]
  OBVIOUS
<1>2. Len(x) \in Nat /\ chars \subseteq 1..Len(x)
  BY EncodedFacts
<1>3. all \in Seq(Nat) /\ chars \in SUBSET DOMAIN all /\ DOMAIN all = 1..Len(x)
  BY <1>1, <1>2
<1>4. q = Keeping(all, chars)
  BY <1>1 DEF InOrder
<1>5. q \in Seq(Nat) /\ \E at : KeepsAt(q, all, chars, at)
  BY <1>3, <1>4, KeepingKeeps
<1>6. ToSet(q) = chars
  <2>1. ToSet(q) = {all[i] : i \in chars}
    BY <1>3, <1>4, KeepingSet
  <2>2. \A i \in chars : all[i] = i
    BY <1>1, <1>2
  <2> QED BY <2>1, <2>2
<1>7. Increasing(q)
  <2>1. PICK at : KeepsAt(q, all, chars, at)
    BY <1>5
  <2>2. Len(q) \in Nat
    BY <1>5
  <2>3. /\ at \in [1..Len(q) -> chars]
        /\ \A k \in 1..Len(q) : q[k] = all[at[k]]
        /\ \A k, l \in 1..Len(q) : k < l => at[k] < at[l]
    BY <2>1 DEF KeepsAt
  <2>4. \A k \in 1..Len(q) : q[k] = at[k]
    BY <1>1, <1>2, <2>3
  <2>5. ASSUME NEW i \in 1..(Len(q) - 1) PROVE q[i] < q[i + 1]
    <3>1. i \in 1..Len(q) /\ i + 1 \in 1..Len(q) /\ i < i + 1
      BY <2>2
    <3>2. at[i] < at[i + 1]
      BY <2>3, <3>1
    <3> QED BY <2>4, <3>1, <3>2
  <2> QED BY <2>5 DEF Increasing
<1> QED BY <1>5, <1>6, <1>7

Precede(S, T) == \A d \in S, e \in T : d < e
Joined(r, p, q) == r \in Seq(Nat) /\ Increasing(r) /\ ToSet(r) = ToSet(p) \cup ToSet(q)

LEMMA ConcatOK ==
  ASSUME NEW p \in Seq(Nat), NEW q \in Seq(Nat), Increasing(p), Increasing(q),
         Precede(ToSet(p), ToSet(q)),
         NEW r, r = p \o q
  PROVE  Joined(r, p, q)
<1>1. PICK m, n : m = Len(p) /\ n = Len(q)
  OBVIOUS
<1>2. m \in Nat /\ n \in Nat /\ DOMAIN p = 1..m /\ DOMAIN q = 1..n
  BY <1>1
<1>3. /\ r \in Seq(Nat) /\ Len(r) = m + n
      /\ \A i \in 1..(m + n) : r[i] = IF i <= m THEN p[i] ELSE q[i - m]
  BY <1>1, ConcatProperties
<1>4. DOMAIN r = 1..(m + n)
  BY <1>3
<1>5. /\ \A i \in 1..m : r[i] = p[i] /\ i \in DOMAIN r
      /\ \A i \in 1..n : r[i + m] = q[i] /\ i + m \in DOMAIN r
  <2>1. ASSUME NEW i \in 1..m PROVE r[i] = p[i] /\ i \in DOMAIN r
    <3>1. i \in 1..(m + n) /\ i <= m
      BY <1>2
    <3> QED BY <1>3, <1>4, <3>1
  <2>2. ASSUME NEW i \in 1..n PROVE r[i + m] = q[i] /\ i + m \in DOMAIN r
    <3>1. i + m \in 1..(m + n) /\ ~(i + m <= m) /\ (i + m) - m = i
      BY <1>2
    <3> QED BY <1>3, <1>4, <3>1
  <2> QED BY <2>1, <2>2
<1>6. \A i \in DOMAIN r : i \in 1..m \/ (i - m \in 1..n /\ i = (i - m) + m)
  BY <1>2, <1>4
<1>7. /\ ToSet(p) = {p[i] : i \in 1..m} /\ ToSet(q) = {q[i] : i \in 1..n}
      /\ ToSet(r) = {r[i] : i \in DOMAIN r}
  BY <1>2 DEF ToSet
<1>8. ToSet(r) = ToSet(p) \cup ToSet(q)
  <2>1. ASSUME NEW d \in ToSet(r) PROVE d \in ToSet(p) \cup ToSet(q)
    <3>1. PICK i \in DOMAIN r : r[i] = d
      BY <1>7
    <3>2. CASE i \in 1..m
      <4>1. p[i] = d
        BY <1>5, <3>1, <3>2
      <4> QED BY <1>7, <3>2, <4>1
    <3>3. CASE i - m \in 1..n /\ i = (i - m) + m
      <4>1. q[i - m] = d
        BY <1>5, <3>1, <3>3
      <4> QED BY <1>7, <3>3, <4>1
    <3> QED BY <1>6, <3>2, <3>3
  <2>2. ASSUME NEW d \in ToSet(p) PROVE d \in ToSet(r)
    <3>1. PICK i \in 1..m : p[i] = d
      BY <1>7
    <3> QED BY <1>5, <1>7, <3>1
  <2>3. ASSUME NEW d \in ToSet(q) PROVE d \in ToSet(r)
    <3>1. PICK i \in 1..n : q[i] = d
      BY <1>7
    <3> QED BY <1>5, <1>7, <3>1
  <2> QED BY <2>1, <2>2, <2>3
<1>9. ASSUME NEW i \in 1..(m + n - 1) PROVE r[i] < r[i + 1]
  <2>1. CASE i < m
    <3>1. i \in 1..m /\ i + 1 \in 1..m /\ i \in 1..(m - 1)
      BY <1>2, <2>1
    <3>2. p[i] < p[i + 1]
      BY <1>1, <3>1 DEF Increasing
    <3> QED BY <1>5, <3>1, <3>2
  <2>2. CASE i = m
    <3>1. i \in 1..m /\ 1 \in 1..n /\ 1 + m = i + 1
      BY <1>2, <2>2
    <3>2. r[i] = p[i] /\ r[i + 1] = q[1]
      BY <1>5, <3>1
    <3>3. p[i] \in ToSet(p) /\ q[1] \in ToSet(q)
      BY <1>7, <3>1
    <3> QED BY <3>2, <3>3 DEF Precede
  <2>3. CASE i > m
    <3>1. PICK k : k = i - m
      OBVIOUS
    <3>2. /\ k \in 1..n /\ k + 1 \in 1..n /\ k \in 1..(n - 1)
          /\ k + m = i /\ (k + 1) + m = i + 1
      BY <1>2, <2>3, <3>1
    <3>3. q[k] < q[k + 1]
      BY <1>1, <3>2 DEF Increasing
    <3>4. r[i] = q[k] /\ r[i + 1] = q[k + 1]
      BY <1>5, <3>2
    <3> QED BY <3>3, <3>4
  <2> QED BY <1>2, <2>1, <2>2, <2>3
<1>10. Increasing(r)
  <2>1. Len(r) - 1 = m + n - 1
    BY <1>2, <1>3
  <2> QED BY <1>9, <2>1 DEF Increasing
<1> QED BY <1>3, <1>8, <1>10 DEF Joined

(* The next page.                                                          *)
LEMMA SeenGrows ==
  ASSUME NEW text \in BOOLEAN, NEW x, Encoded(x), NEW q, NEW off \in Nat, SeenOK(text, x, q, off),
         NEW chars, NEW next, PageOK(text, x, off, chars, next),
         NEW new, new = InOrder(x, chars), NEW r, r = q \o new
  PROVE  SeenOK(text, x, r, next)
<1>1. /\ q \in Seq(Nat) /\ Increasing(q)
      /\ \A d \in ToSet(q) : d \in ToSet(x) /\ ReadPast(text, x, d, off)
  BY DEF SeenOK
<1>2. /\ chars \subseteq ToSet(x) /\ next \in Nat /\ off <= next
      /\ \A d \in chars : ReadPast(text, x, d, next)
      /\ \A d \in ToSet(x), e \in chars : ReadPast(text, x, d, off) => d < e
  BY DEF PageOK
<1>3. new \in Seq(Nat) /\ Increasing(new) /\ ToSet(new) = chars
  BY <1>2, InOrderFacts
<1>4. \A d \in ToSet(q), e \in ToSet(new) : d < e
  BY <1>1, <1>2, <1>3
<1>5. r \in Seq(Nat) /\ Increasing(r) /\ ToSet(r) = ToSet(q) \cup chars
  <2>1. Precede(ToSet(q), ToSet(new))
    BY <1>4 DEF Precede
  <2>2. Joined(r, q, new)
    BY <1>1, <1>3, <2>1, ConcatOK
  <2> QED BY <1>3, <2>2 DEF Joined
<1>6. DOMAIN x = 1..Len(x) /\ Len(x) \in Nat /\ \A d \in ToSet(x) : d \in Nat
  BY EncodedFacts
<1>7. ASSUME NEW d \in ToSet(x), ReadPast(text, x, d, off) PROVE ReadPast(text, x, d, next)
  <2>1. CASE text
    <3>1. d <= off /\ d \in Nat
      BY <1>6, <1>7, <2>1 DEF ReadPast
    <3>2. d <= next
      BY <1>2, <3>1
    <3> QED BY <2>1, <3>2 DEF ReadPast
  <2>2. CASE ~text
    <3>1. ASSUME NEW b \in DOMAIN x, x[b] = d PROVE b <= next
      <4>1. b <= off /\ b \in Nat
        BY <1>6, <1>7, <2>2, <3>1 DEF ReadPast
      <4> QED BY <1>2, <4>1
    <3> QED BY <2>2, <3>1 DEF ReadPast
  <2> QED BY <2>1, <2>2
<1>8. \A d \in ToSet(r) : d \in ToSet(x) /\ ReadPast(text, x, d, next)
  BY <1>1, <1>2, <1>5, <1>7
<1>9. ASSUME \A b \in DOMAIN x : x[b] = b PROVE ToSet(r) = DOMAIN x \cap 1..next
  <2>1. ToSet(q) = DOMAIN x \cap 1..off /\ chars = DOMAIN x \cap (off + 1)..next
    BY <1>9 DEF SeenOK, PageOK
  <2>2. \A b \in DOMAIN x : b \in 1..next <=> b \in 1..off \/ b \in (off + 1)..next
    BY <1>2, <1>6
  <2> QED BY <1>5, <2>1, <2>2
<1> QED BY <1>5, <1>8, <1>9 DEF SeenOK

(* The reader.                                                             *)
States == {"ended", "open", "gone", "eof"}
Seen(r, e) == SeenOK(e.offer.source = "text", e.offer.content, r.seen, r.offset)

ReaderOK(r, E) ==
  /\ r \in [id : Artifacts \cup {"none"}, offset : Nat, seen : Seq(Nat), state : States]
  /\ Increasing(r.seen)
  /\ r.state # "ended" => r.id \in DOMAIN E /\ Seen(r, E[r.id])
  /\ r.state = "eof" => r.offset >= Len(E[r.id].offer.content)

(* The store counts its bytes and keeps its order, a reader is inside the  *)
(* artifact it read, and the limits hold but while an eviction is under way. *)
ArtifactIInv ==
  /\ StoreOK(order, entryOf, inlineBytes) /\ ReaderOK(pageReader, entryOf)
  /\ evicting \in BOOLEAN /\ clock \in 0..MaxClock
  /\ ~evicting => ~OverLimits

LEMMA ArtifactInitHolds == ArtifactInit => ArtifactIInv
<1> SUFFICES ASSUME ArtifactInit PROVE ArtifactIInv
  OBVIOUS
<1>1. PICK o, E : o = <<>> /\ E = [a \in {} |-> a]
  OBVIOUS
<1>2. order = o /\ entryOf = E /\ inlineBytes = 0 /\ evicting = FALSE /\ clock = 0
  BY <1>1 DEF ArtifactInit
<1>3. o \in Seq(Artifacts) /\ Len(o) = 0 /\ DOMAIN o = {}
  BY <1>1
<1>4. ToSet(o) = {}
  BY <1>3 DEF ToSet
<1>5. IsInjective(o)
  BY <1>3 DEF IsInjective
<1>6. DOMAIN E = {} /\ E \in [DOMAIN E -> Entries]
  BY <1>1
<1>7. 0 = Cardinality(HeldBytes(E, ToSet(o)))
  <2>1. HeldBytes(E, {}) = {}
    BY DEF HeldBytes
  <2> QED BY <1>4, <2>1, FS_EmptySet
<1>8. StoreOK(o, E, 0)
  BY <1>3, <1>4, <1>5, <1>6, <1>7 DEF StoreOK
<1>9. ReaderOK(pageReader, entryOf)
  <2>1. pageReader = NoReader
    BY DEF ArtifactInit
  <2>2. <<>> \in Seq(Nat) /\ Increasing(<<>>)
    BY DEF Increasing
  <2>3. /\ NoReader \in [id : Artifacts \cup {"none"}, offset : Nat, seen : Seq(Nat), state : States]
        /\ NoReader.state = "ended" /\ NoReader.seen = <<>>
    BY DEF NoReader, States
  <2> QED BY <2>1, <2>2, <2>3 DEF ReaderOK
<1>10. ~OverLimits
  <2>1. MaxEntries \in Nat /\ MaxBytes \in Nat
    BY ArtifactAssumption
  <2>2. Len(order) = 0 /\ inlineBytes = 0
    BY <1>2, <1>3
  <2> QED BY <2>1, <2>2 DEF OverLimits
<1>11. 0 \in 0..MaxClock
  BY ArtifactAssumption
<1> QED BY <1>2, <1>8, <1>9, <1>10, <1>11 DEF ArtifactIInv

LEMMA EvictableFacts ==
  ASSUME order \in Seq(Artifacts), Evictable > 0
  PROVE  order[Evictable] \in ToSet(order) /\ ~entryOf[order[Evictable]].durable
<1>1. PICK I : I = {i \in 1..Len(order) : ~entryOf[order[i]].durable}
  OBVIOUS
<1>2. Evictable = IF I # {} THEN Min(I) ELSE 0
  BY <1>1 DEF Evictable, SelectInSeq
<1>3. I # {} /\ Evictable = Min(I)
  BY <1>2
<1>4. Len(order) \in Nat /\ DOMAIN order = 1..Len(order)
  OBVIOUS
<1>5. I \subseteq Nat
  BY <1>1, <1>4
<1>6. Min(I) \in I
  BY <1>3, <1>5, MinOfNaturals
<1>7. Evictable \in DOMAIN order /\ ~entryOf[order[Evictable]].durable
  BY <1>1, <1>3, <1>4, <1>6
<1> QED BY <1>7 DEF ToSet

LEMMA LimitsStay ==
  ASSUME Len(order) \in Nat, Len(order') \in Nat, Len(order') <= Len(order),
         inlineBytes \in Nat, inlineBytes' \in Nat, inlineBytes' <= inlineBytes,
         order' \in Seq(Artifacts), ~OverLimits
  PROVE  ~OverLimits'
<1>1. MaxEntries \in Nat /\ MaxBytes \in Nat
  BY ArtifactAssumption
<1>2. ~(MaxEntries > 0 /\ Len(order') > MaxEntries)
  <2>1. ~(MaxEntries > 0 /\ Len(order) > MaxEntries)
    BY DEF OverLimits
  <2> QED BY <1>1, <2>1
<1>3. ~(MaxBytes > 0 /\ inlineBytes' > MaxBytes /\ order' # <<>>)
  <2>1. ~(MaxBytes > 0 /\ inlineBytes > MaxBytes /\ order # <<>>)
    BY DEF OverLimits
  <2>2. SUFFICES ASSUME MaxBytes > 0, inlineBytes' > MaxBytes, order' # <<>> PROVE FALSE
    OBVIOUS
  <2>3. order = <<>>
    BY <1>1, <2>1, <2>2
  <2>4. Len(order) = 0
    BY <2>3
  <2>5. Len(order') = 0
    BY <2>4
  <2>6. order' = <<>>
    BY <2>5, EmptySeq
  <2> QED BY <2>2, <2>6
<1> QED BY <1>2, <1>3 DEF OverLimits

LEMMA InlineIs == \A A : InlineOf(A) = Cardinality(HeldBytes(entryOf, A))
BY DEF InlineOf, HeldBytes

LEMMA WithoutOK ==
  ASSUME StoreOK(order, entryOf, inlineBytes), NEW A, Without(A), UNCHANGED entryOf
  PROVE  /\ StoreOK(order', entryOf', inlineBytes') /\ ToSet(order') = ToSet(order) \ A
         /\ ~OverLimits => ~OverLimits'
<1>1. PICK o, E, n : o = order /\ E = entryOf /\ n = inlineBytes
  OBVIOUS
<1>2. PICK u, m : u = Omitting(o, A) /\ m = n - Cardinality(HeldBytes(E, A \cap ToSet(o)))
  OBVIOUS
<1>3. order' = u /\ inlineBytes' = m /\ entryOf' = E
  BY <1>1, <1>2, InlineIs DEF Without
<1>4. StoreOK(o, E, n)
  BY <1>1
<1>5. StoreOK(u, E, m) /\ ToSet(u) = ToSet(o) \ A /\ Len(u) <= Len(o) /\ m <= n
  BY <1>2, <1>4, OmitOK
<1>6. n \in Nat /\ m \in Nat /\ Len(o) \in Nat /\ Len(u) \in Nat
  BY <1>4, <1>5, StoredFacts
<1>7. u \in Seq(Artifacts)
  BY <1>5 DEF StoreOK
<1>8. ~OverLimits => ~OverLimits'
  BY <1>1, <1>3, <1>5, <1>6, <1>7, LimitsStay
<1> QED BY <1>1, <1>3, <1>5, <1>8

(* _entry takes nothing else out than an artifact that has expired.        *)
LEMMA EntryOK ==
  ASSUME StoreOK(order, entryOf, inlineBytes), NEW a, Entry(a), UNCHANGED entryOf
  PROVE  /\ StoreOK(order', entryOf', inlineBytes')
         /\ \A b \in ToSet(order) : b \in ToSet(order') \/ Expired(b)
         /\ ~OverLimits => ~OverLimits'
<1>1. CASE Found(a)
  <2>1. PICK o, E, n : o = order /\ E = entryOf /\ n = inlineBytes
    OBVIOUS
  <2>2. PICK u : u = Append(Omitting(o, {a}), a)
    OBVIOUS
  <2>3. order' = u /\ inlineBytes' = n /\ entryOf' = E /\ a \in ToSet(o)
    BY <1>1, <2>1, <2>2 DEF Entry, Found, Holds
  <2>4. StoreOK(o, E, n)
    BY <2>1
  <2>5. StoreOK(u, E, n) /\ ToSet(u) = ToSet(o) /\ Len(u) <= Len(o)
    BY <2>2, <2>3, <2>4, TouchOK
  <2>6. n \in Nat /\ Len(o) \in Nat /\ Len(u) \in Nat /\ n <= n
    BY <2>4, <2>5, StoredFacts
  <2>7. u \in Seq(Artifacts)
    BY <2>5 DEF StoreOK
  <2>8. ~OverLimits => ~OverLimits'
    BY <2>1, <2>3, <2>5, <2>6, <2>7, LimitsStay
  <2> QED BY <2>1, <2>3, <2>5, <2>8
<1>2. CASE ~Found(a)
  <2>1. Without({a})
    BY <1>2 DEF Entry
  <2>2. /\ StoreOK(order', entryOf', inlineBytes') /\ ToSet(order') = ToSet(order) \ {a}
        /\ ~OverLimits => ~OverLimits'
    BY <2>1, WithoutOK
  <2>3. a \in ToSet(order) => Expired(a)
    BY <1>2 DEF Found, Holds
  <2> QED BY <2>2, <2>3
<1> QED BY <1>1, <1>2

LEMMA ReaderKeeps ==
  ASSUME NEW r, NEW E, ReaderOK(r, E), NEW F, \A a \in DOMAIN E : a \in DOMAIN F /\ F[a] = E[a]
  PROVE  ReaderOK(r, F)
<1>1. /\ r \in [id : Artifacts \cup {"none"}, offset : Nat, seen : Seq(Nat), state : States]
      /\ Increasing(r.seen)
  BY DEF ReaderOK
<1>2. ASSUME r.state # "ended" PROVE r.id \in DOMAIN F /\ Seen(r, F[r.id]) /\ F[r.id] = E[r.id]
  <2>1. r.id \in DOMAIN E /\ Seen(r, E[r.id])
    BY <1>2 DEF ReaderOK
  <2>2. r.id \in DOMAIN F /\ F[r.id] = E[r.id]
    BY <2>1
  <2> QED BY <2>1, <2>2
<1>3. ASSUME r.state = "eof" PROVE r.offset >= Len(F[r.id].offer.content)
  <2>1. r.offset >= Len(E[r.id].offer.content)
    BY <1>3 DEF ReaderOK
  <2>2. F[r.id] = E[r.id]
    BY <1>2, <1>3
  <2> QED BY <2>1, <2>2
<1> QED BY <1>1, <1>2, <1>3 DEF ReaderOK

LEMMA PutKeeps ==
  ASSUME ArtifactIInv, NEW a \in Artifacts, Put(a)
  PROVE  /\ ArtifactIInv'
         /\ \A b \in ToSet(order) : b \in ToSet(order') \/ Expired(b)
<1>1. PICK f \in Offers, r \in ArtifactRuns, d \in BOOLEAN :
        PutEntry(a, [offer |-> f, run |-> r, durable |-> d, expires |-> ExpiresAt(d)])
  BY DEF Put
<1>2. PICK e : e = [offer |-> f, run |-> r, durable |-> d, expires |-> ExpiresAt(d)]
  OBVIOUS
<1>3. PutEntry(a, e)
  BY <1>1, <1>2
<1>4. e \in Entries /\ (e.durable => e.expires = Never)
  <2>1. MaxClock \in Nat /\ ArtifactTtl \in Nat /\ clock \in Nat
    BY ArtifactAssumption DEF ArtifactIInv
  <2>2. ExpiresAt(d) \in Nat /\ (d => ExpiresAt(d) = Never)
    BY <2>1 DEF ExpiresAt, Never
  <2> QED BY <1>2, <2>2 DEF Entries
<1>5. PICK o, E, n : o = order /\ E = entryOf /\ n = inlineBytes
  OBVIOUS
<1>6. PICK X : X = {b \in ToSet(o) : Expired(b)}
  OBVIOUS
<1>7. X \cap ToSet(o) = X
  BY <1>6
<1>8. PICK u, m : u = Omitting(o, X) /\ m = n - Cardinality(HeldBytes(E, X \cap ToSet(o)))
  OBVIOUS
<1>9. StoreOK(o, E, n)
  BY <1>5 DEF ArtifactIInv
<1>10. StoreOK(u, E, m) /\ ToSet(u) = ToSet(o) \ X
  BY <1>8, <1>9, OmitOK
<1>11. PICK v, k, F : /\ v = Append(u, a) /\ k = m + Cardinality(Inline(e))
                      /\ F = [b \in DOMAIN E \cup {a} |-> IF b = a THEN e ELSE E[b]]
  OBVIOUS
<1>12. a \notin DOMAIN E
  BY <1>3, <1>5 DEF PutEntry
<1>13. order' = v /\ entryOf' = F
  BY <1>3, <1>5, <1>6, <1>8, <1>11 DEF PutEntry
<1>14. inlineBytes' = k
  <2>1. inlineBytes' = n - InlineOf(X) + Cardinality(Inline(e))
    BY <1>3, <1>5, <1>6 DEF PutEntry
  <2>2. InlineOf(X) = Cardinality(HeldBytes(E, X \cap ToSet(o)))
    BY <1>5, <1>7, InlineIs
  <2> QED BY <1>8, <1>11, <2>1, <2>2
<1>15. evicting' = TRUE /\ pageReader' = pageReader /\ clock' = clock
  BY <1>3 DEF PutEntry
<1>16. StoreOK(v, F, k) /\ ToSet(v) = ToSet(u) \cup {a}
  <2>1. StoreOK(u, E, m) /\ v = Append(u, a)
    BY <1>10, <1>11
  <2>2. StoreOK(v, WithEntry(E, a, e), m + Cardinality(Inline(e))) /\ ToSet(v) = ToSet(u) \cup {a}
    BY <1>4, <1>12, <2>1, PutOK
  <2> QED BY <1>11, <2>2 DEF WithEntry
<1>17. ReaderOK(pageReader', F)
  <2>1. \A b \in DOMAIN E : b \in DOMAIN F /\ F[b] = E[b]
    BY <1>11, <1>12
  <2>2. PICK p : p = pageReader
    OBVIOUS
  <2>3. ReaderOK(p, E)
    BY <1>5, <2>2 DEF ArtifactIInv
  <2>4. ReaderOK(p, F)
    BY <2>1, <2>3, ReaderKeeps
  <2> QED BY <1>15, <2>2, <2>4
<1>18. ArtifactIInv'
  BY <1>13, <1>14, <1>15, <1>16, <1>17 DEF ArtifactIInv
<1>19. \A b \in ToSet(order) : b \in ToSet(order') \/ Expired(b)
  BY <1>5, <1>6, <1>10, <1>13, <1>16
<1> QED BY <1>18, <1>19

LEMMA ReadKeeps ==
  ASSUME ArtifactIInv, NEW l \in PageLimits, ReadPage(l)
  PROVE  /\ ArtifactIInv'
         /\ \A b \in ToSet(order) : b \in ToSet(order') \/ Expired(b)
<1>1. PICK p, E, a : p = pageReader /\ E = entryOf /\ a = p.id
  OBVIOUS
<1>2. PICK page, next : page = ReadEntry(E[a].offer, p.offset, l) /\ next = NextOffset(p.offset, page)
  OBVIOUS
<1>3. PICK x, new : x = E[a].offer.content /\ new = InOrder(x, page.chars)
  OBVIOUS
<1>4. PICK r, g : /\ r = [id |-> a, offset |-> next, seen |-> p.seen \o new,
                          state |-> IF next >= Size(E[a]) THEN "eof" ELSE "open"]
                  /\ g = [p EXCEPT !.state = "gone"]
  OBVIOUS
<1>5. ~evicting /\ p.state = "open" /\ Entry(a)
  BY <1>1 DEF ReadPage
<1>6. pageReader' = IF ~Found(a) THEN g ELSE r
  BY <1>1, <1>2, <1>3, <1>4 DEF ReadPage
<1>7. entryOf' = entryOf /\ evicting' = evicting /\ clock' = clock
  BY DEF ReadPage
<1>8. /\ StoreOK(order', entryOf', inlineBytes')
      /\ \A b \in ToSet(order) : b \in ToSet(order') \/ Expired(b)
      /\ ~OverLimits => ~OverLimits'
  <2>1. StoreOK(order, entryOf, inlineBytes)
    BY DEF ArtifactIInv
  <2> QED BY <1>5, <1>7, <2>1, EntryOK
<1>9. ReaderOK(p, E)
  BY <1>1 DEF ArtifactIInv
<1>10. /\ p \in [id : Artifacts \cup {"none"}, offset : Nat, seen : Seq(Nat), state : States]
       /\ Increasing(p.seen) /\ p.id \in DOMAIN E /\ Seen(p, E[p.id])
  <2>1. p.state # "ended"
    BY <1>5
  <2> QED BY <1>9, <2>1 DEF ReaderOK
<1>11. /\ p.offset \in Nat /\ p.seen \in Seq(Nat) /\ a \in DOMAIN E
       /\ a \in Artifacts \cup {"none"}
  BY <1>1, <1>10
<1>12. E[a] \in Entries
  <2>1. E \in [DOMAIN E -> Entries]
    BY <1>1 DEF ArtifactIInv, StoreOK
  <2> QED BY <1>11, <2>1
<1>13. Encoded(x) /\ Encoded(E[a].offer.content)
  <2>1. E[a].offer \in Offers
    BY <1>12 DEF Entries
  <2> QED BY <1>3, <2>1, ArtifactAssumption
<1>14. PICK text \in BOOLEAN : text = (E[a].offer.source = "text")
  OBVIOUS
<1>15. SeenOK(text, x, p.seen, p.offset)
  <2>1. Seen(p, E[a])
    BY <1>1, <1>10
  <2> QED BY <1>3, <1>14, <2>1 DEF Seen
<1>16. l \in Nat \ {0}
  BY ArtifactAssumption
<1>17. PageOK(text, x, p.offset, page.chars, next)
  <2>1. PICK f : f = E[a].offer
    OBVIOUS
  <2>2. Encoded(f.content)
    BY <1>13, <2>1
  <2>3. PageOK(f.source = "text", f.content, p.offset, ReadEntry(f, p.offset, l).chars,
               NextOffset(p.offset, ReadEntry(f, p.offset, l)))
    BY <1>11, <1>16, <2>2, PageFacts
  <2> QED BY <1>2, <1>3, <1>14, <2>1, <2>3
<1>18. SeenOK(text, x, p.seen \o new, next) /\ next \in Nat
  <2>1. PICK q : q = p.seen \o new
    OBVIOUS
  <2>2. SeenOK(text, x, q, next)
    BY <1>3, <1>11, <1>13, <1>15, <1>17, <2>1, SeenGrows
  <2> QED BY <1>17, <2>1, <2>2 DEF PageOK
<1>19. p.seen \o new \in Seq(Nat) /\ Increasing(p.seen \o new)
  BY <1>18 DEF SeenOK
<1>20. ReaderOK(r, E)
  <2>1. r \in [id : Artifacts \cup {"none"}, offset : Nat, seen : Seq(Nat), state : States]
    BY <1>4, <1>11, <1>18, <1>19 DEF States
  <2>2. r.id = a /\ r.offset = next /\ r.seen = p.seen \o new
    BY <1>4
  <2>3. Increasing(r.seen)
    BY <1>19, <2>2
  <2>4. Seen(r, E[r.id])
    BY <1>3, <1>14, <1>18, <2>2 DEF Seen
  <2>5. r.state = "eof" => r.offset >= Len(E[r.id].offer.content)
    <3>1. r.state = "eof" => next >= Size(E[a])
      BY <1>4
    <3> QED BY <2>2, <3>1 DEF Size
  <2> QED BY <1>11, <2>1, <2>2, <2>3, <2>4, <2>5 DEF ReaderOK
<1>21. ReaderOK(g, E)
  <2>1. /\ g \in [id : Artifacts \cup {"none"}, offset : Nat, seen : Seq(Nat), state : States]
        /\ g.id = a /\ g.offset = p.offset /\ g.seen = p.seen /\ g.state = "gone"
    BY <1>1, <1>4, <1>10 DEF States
  <2>2. Seen(g, E[g.id])
    BY <1>3, <1>14, <1>15, <2>1 DEF Seen
  <2> QED BY <1>10, <1>11, <2>1, <2>2 DEF ReaderOK
<1>22. ReaderOK(pageReader', entryOf')
  BY <1>1, <1>6, <1>7, <1>20, <1>21
<1>23. ~evicting => ~OverLimits
  BY DEF ArtifactIInv
<1>24. evicting' \in BOOLEAN /\ clock' \in 0..MaxClock
  BY <1>7 DEF ArtifactIInv
<1>25. ArtifactIInv'
  BY <1>5, <1>8, <1>22, <1>23, <1>24 DEF ArtifactIInv
<1> QED BY <1>8, <1>25

(* Opening, stored content or not.                                         *)
LEMMA OpenKeeps ==
  ASSUME ArtifactIInv, NEW a, Open(a)
  PROVE  ArtifactIInv'
<1>1. PICK r, E : r = [id |-> a, offset |-> 0, seen |-> <<>>, state |-> "open"] /\ E = entryOf
  OBVIOUS
<1>2. /\ pageReader' = r /\ a \in DOMAIN E
      /\ UNCHANGED <<order, entryOf, inlineBytes, evicting, clock>>
  BY <1>1 DEF Open
<1>3. StoreOK(order, E, inlineBytes)
  BY <1>1 DEF ArtifactIInv
<1>4. E[a] \in Entries /\ a \in Artifacts
  BY <1>2, <1>3 DEF StoreOK
<1>5. Encoded(E[a].offer.content)
  <2>1. E[a].offer \in Offers
    BY <1>4 DEF Entries
  <2> QED BY <2>1, ArtifactAssumption
<1>6. PICK x : x = E[a].offer.content
  OBVIOUS
<1>7. DOMAIN x = 1..Len(x)
  BY <1>5, <1>6, EncodedFacts
<1>8. <<>> \in Seq(Nat) /\ Len(<<>>) = 0 /\ ToSet(<<>>) = {} /\ Increasing(<<>>)
  <2>1. ToSet(<<>>) = {}
    BY DEF ToSet
  <2>2. Increasing(<<>>)
    BY DEF Increasing
  <2> QED BY <2>1, <2>2
<1>9. DOMAIN x \cap 1..0 = {}
  OBVIOUS
<1>10. SeenOK(E[a].offer.source = "text", x, <<>>, 0)
  BY <1>8, <1>9 DEF SeenOK
<1>11. /\ r \in [id : Artifacts \cup {"none"}, offset : Nat, seen : Seq(Nat), state : States]
       /\ r.id = a /\ r.offset = 0 /\ r.seen = <<>> /\ r.state = "open"
  BY <1>1, <1>4, <1>8 DEF States
<1>12. Seen(r, E[r.id])
  BY <1>6, <1>10, <1>11 DEF Seen
<1>13. ReaderOK(r, E)
  BY <1>2, <1>8, <1>11, <1>12 DEF ReaderOK
<1>14. ~OverLimits => ~OverLimits'
  BY <1>2 DEF OverLimits
<1> QED BY <1>1, <1>2, <1>3, <1>13, <1>14 DEF ArtifactIInv

(* What only takes artifacts out, some or one that is used.                *)
LEMMA StoreStepKeeps ==
  ASSUME ArtifactIInv, StoreOK(order', entryOf', inlineBytes'), ~OverLimits => ~OverLimits',
         UNCHANGED <<entryOf, pageReader, clock>>, evicting' \in {TRUE, evicting}
  PROVE  ArtifactIInv'
<1>1. ReaderOK(pageReader', entryOf')
  BY DEF ArtifactIInv
<1>2. ~evicting' => ~OverLimits'
  BY DEF ArtifactIInv
<1> QED BY <1>1, <1>2 DEF ArtifactIInv

Kept(b) == b \in ToSet(order') \/ (order' = Omitting(order, {b}) /\ ~evicting)

(* Every step of the store: the invariant stays, and so does every durable *)
(* artifact that is not deleted.                                           *)
LEMMA ArtifactStepKeeps ==
  ASSUME ArtifactIInv, [ArtifactNext]_artVars
  PROVE  /\ ArtifactIInv'
         /\ \A b \in ToSet(order) : entryOf[b].durable => Kept(b)
<1>1. StoreOK(order, entryOf, inlineBytes) /\ order \in Seq(Artifacts)
  BY DEF ArtifactIInv, StoreOK
<1>2. \A b \in ToSet(order) : entryOf[b].durable => ~Expired(b)
  <2>1. ToSet(order) \subseteq DOMAIN entryOf
        /\ \A b \in DOMAIN entryOf : entryOf[b].durable => entryOf[b].expires = Never
    BY <1>1 DEF StoreOK
  <2> QED BY <2>1 DEF Expired
<1>3. ASSUME NEW A, Without(A), UNCHANGED <<entryOf, pageReader, clock>>,
             evicting' \in {TRUE, evicting}
      PROVE  ArtifactIInv' /\ ToSet(order') = ToSet(order) \ A
  <2>1. /\ StoreOK(order', entryOf', inlineBytes') /\ ToSet(order') = ToSet(order) \ A
        /\ ~OverLimits => ~OverLimits'
    BY <1>1, <1>3, WithoutOK
  <2> QED BY <1>3, <2>1, StoreStepKeeps
<1>4. ASSUME NEW a \in Artifacts, Put(a)
      PROVE  ArtifactIInv' /\ \A b \in ToSet(order) : entryOf[b].durable => Kept(b)
  BY <1>2, <1>4, PutKeeps DEF Kept
<1>5. ASSUME NEW a, Delete(a)
      PROVE  ArtifactIInv' /\ \A b \in ToSet(order) : entryOf[b].durable => Kept(b)
  <2>1. ~evicting /\ Without({a}) /\ UNCHANGED <<entryOf, evicting, pageReader, clock>>
    BY <1>5 DEF Delete
  <2>2. ArtifactIInv' /\ ToSet(order') = ToSet(order) \ {a}
    BY <1>3, <2>1
  <2>3. order' = Omitting(order, {a})
    BY <2>1 DEF Without
  <2> QED BY <2>1, <2>2, <2>3 DEF Kept
<1>6. ASSUME NEW a, Access(a)
      PROVE  ArtifactIInv' /\ \A b \in ToSet(order) : entryOf[b].durable => Kept(b)
  <2>1. Entry(a) /\ UNCHANGED <<entryOf, evicting, pageReader, clock>>
    BY <1>6 DEF Access
  <2>2. /\ StoreOK(order', entryOf', inlineBytes')
        /\ \A b \in ToSet(order) : b \in ToSet(order') \/ Expired(b)
        /\ ~OverLimits => ~OverLimits'
    BY <1>1, <2>1, EntryOK
  <2>3. ArtifactIInv'
    BY <2>1, <2>2, StoreStepKeeps
  <2> QED BY <1>2, <2>2, <2>3 DEF Kept
<1>7. ASSUME NEW a, Open(a)
      PROVE  ArtifactIInv' /\ \A b \in ToSet(order) : entryOf[b].durable => Kept(b)
  <2>1. order' = order
    BY <1>7 DEF Open
  <2> QED BY <1>7, <2>1, OpenKeeps DEF Kept
<1>8. ASSUME NEW r, DeleteArtifactsOf(r)
      PROVE  ArtifactIInv' /\ \A b \in ToSet(order) : entryOf[b].durable => Kept(b)
  <2>1. PICK A : A = {a \in ToSet(order) : entryOf[a].run = r /\ ~entryOf[a].durable}
    OBVIOUS
  <2>2. Without(A) /\ UNCHANGED <<entryOf, evicting, pageReader, clock>>
    BY <1>8, <2>1 DEF DeleteArtifactsOf
  <2>3. ArtifactIInv' /\ ToSet(order') = ToSet(order) \ A
    BY <1>3, <2>2
  <2> QED BY <2>1, <2>3 DEF Kept
<1>9. ASSUME NEW l \in PageLimits, ReadPage(l)
      PROVE  ArtifactIInv' /\ \A b \in ToSet(order) : entryOf[b].durable => Kept(b)
  BY <1>2, <1>9, ReadKeeps DEF Kept
<1>10. ASSUME Gc
       PROVE  ArtifactIInv' /\ \A b \in ToSet(order) : entryOf[b].durable => Kept(b)
  <2>1. PICK A : A = {a \in ToSet(order) : Expired(a)}
    OBVIOUS
  <2>2. Without(A) /\ UNCHANGED <<entryOf, pageReader, clock>> /\ evicting' = TRUE
    BY <1>10, <2>1 DEF Gc
  <2>3. ArtifactIInv' /\ ToSet(order') = ToSet(order) \ A
    BY <1>3, <2>2
  <2> QED BY <1>2, <2>1, <2>3 DEF Kept
<1>11. ASSUME EvictOne
       PROVE  ArtifactIInv' /\ \A b \in ToSet(order) : entryOf[b].durable => Kept(b)
  <2>1. PICK a : a = order[Evictable]
    OBVIOUS
  <2>2. Evictable > 0 /\ Without({a}) /\ UNCHANGED <<entryOf, evicting, pageReader, clock>>
    BY <1>11, <2>1 DEF EvictOne
  <2>3. ~entryOf[a].durable
    BY <1>1, <2>1, <2>2, EvictableFacts
  <2>4. ArtifactIInv' /\ ToSet(order') = ToSet(order) \ {a}
    BY <1>3, <2>2
  <2> QED BY <2>3, <2>4 DEF Kept
<1>12. ASSUME EvictionDone
       PROVE  ArtifactIInv' /\ \A b \in ToSet(order) : entryOf[b].durable => Kept(b)
  <2>1. /\ ~OverLimits /\ evicting' = FALSE
        /\ UNCHANGED <<order, entryOf, inlineBytes, pageReader, clock>>
    BY <1>12 DEF EvictionDone
  <2>2. ~OverLimits'
    BY <2>1 DEF OverLimits
  <2> QED BY <2>1, <2>2 DEF ArtifactIInv, Kept
<1>13. ASSUME Advance
       PROVE  ArtifactIInv' /\ \A b \in ToSet(order) : entryOf[b].durable => Kept(b)
  <2>1. /\ clock < MaxClock /\ clock' = clock + 1
        /\ UNCHANGED <<order, entryOf, inlineBytes, evicting, pageReader>>
    BY <1>13 DEF Advance
  <2>2. clock' \in 0..MaxClock
    <3>1. clock \in 0..MaxClock /\ MaxClock \in Nat
      BY ArtifactAssumption DEF ArtifactIInv
    <3> QED BY <2>1, <3>1
  <2>3. OverLimits' <=> OverLimits
    BY <2>1 DEF OverLimits
  <2> QED BY <2>1, <2>2, <2>3 DEF ArtifactIInv, Kept
<1>14. ASSUME UNCHANGED artVars
       PROVE  ArtifactIInv' /\ \A b \in ToSet(order) : entryOf[b].durable => Kept(b)
  <2>1. UNCHANGED <<order, entryOf, inlineBytes, evicting, pageReader, clock>>
    BY <1>14 DEF artVars
  <2>2. OverLimits' <=> OverLimits
    BY <2>1 DEF OverLimits
  <2> QED BY <2>1, <2>2 DEF ArtifactIInv, Kept
<1> QED
  BY <1>4, <1>5, <1>6, <1>7, <1>8, <1>9, <1>10, <1>11, <1>12, <1>13, <1>14 DEF ArtifactNext

LEMMA ArtifactImplies == ArtifactIInv => ArtifactTypeOK /\ LimitsHold /\ PagesInOrder
<1> SUFFICES ASSUME ArtifactIInv PROVE ArtifactTypeOK /\ LimitsHold /\ PagesInOrder
  OBVIOUS
<1>1. StoreOK(order, entryOf, inlineBytes)
  BY DEF ArtifactIInv
<1>2. inlineBytes \in Nat
  BY <1>1, StoredFacts
<1>3. ArtifactTypeOK
  BY <1>1, <1>2 DEF ArtifactIInv, StoreOK, ArtifactTypeOK
<1>4. LimitsHold
  BY <1>1, InlineIs DEF ArtifactIInv, StoreOK, LimitsHold
<1>5. ReaderOK(pageReader, entryOf)
  BY DEF ArtifactIInv
<1>6. \A i \in 1..Len(pageReader.seen) - 1 : pageReader.seen[i] < pageReader.seen[i + 1]
  BY <1>5 DEF ReaderOK, Increasing
<1>7. ASSUME pageReader.state = "eof",
             \A b \in DOMAIN entryOf[pageReader.id].offer.content :
               entryOf[pageReader.id].offer.content[b] = b
      PROVE  ToSet(pageReader.seen) = ToSet(entryOf[pageReader.id].offer.content)
  <2>1. PICK e, x, off, q : /\ e = entryOf[pageReader.id] /\ x = e.offer.content
                            /\ off = pageReader.offset /\ q = pageReader.seen
    OBVIOUS
  <2>2. /\ pageReader.id \in DOMAIN entryOf /\ Seen(pageReader, e) /\ off >= Len(x)
        /\ off \in Nat
    BY <1>5, <1>7, <2>1 DEF ReaderOK
  <2>3. e \in Entries
    BY <1>1, <2>1, <2>2 DEF StoreOK
  <2>4. Encoded(x)
    <3>1. e.offer \in Offers
      BY <2>3 DEF Entries
    <3> QED BY <2>1, <3>1, ArtifactAssumption
  <2>5. \A b \in DOMAIN x : x[b] = b
    BY <1>7, <2>1
  <2>6. ToSet(q) = DOMAIN x \cap 1..off
    BY <2>1, <2>2, <2>5 DEF Seen, SeenOK
  <2>7. DOMAIN x = 1..Len(x) /\ Len(x) \in Nat
    BY <2>4, EncodedFacts
  <2>8. DOMAIN x \cap 1..off = DOMAIN x
    BY <2>2, <2>7
  <2>9. ToSet(x) = DOMAIN x
    BY <2>5 DEF ToSet
  <2> QED BY <2>1, <2>6, <2>8, <2>9
<1>8. PagesInOrder
  BY <1>6, <1>7 DEF PagesInOrder
<1> QED BY <1>3, <1>4, <1>8

(* Each with the store alone: its limits, its pages and what is durable.   *)
THEOREM ArtifactsInOrder == ArtifactSpec => [](ArtifactTypeOK /\ LimitsHold /\ PagesInOrder)
<1>1. ArtifactIInv /\ [ArtifactNext]_artVars => ArtifactIInv'
  BY ArtifactStepKeeps
<1> QED BY <1>1, ArtifactInitHolds, ArtifactImplies, PTL DEF ArtifactSpec

--------------------------------------------------------------------------------
(***************************************************************************)
(* files: what file_edit puts into a file and file_read shows of it.       *)
(***************************************************************************)

(* The scan for a text after i tokens: nothing was found and all was       *)
(* copied, or something was; if one place is replaced at most, what is     *)
(* before and after that place is copied.                                  *)
Copied(text, new, p, n, i) == (SubSeq(text, 1, p - 1) \o new) \o SubSeq(text, p + n, i)
ScanOK(text, old, new, most, s, i) ==
  /\ DOMAIN s = {"out", "skip", "count"}
  /\ s.out \in Seq(Tokens) /\ s.skip \in Nat /\ s.count \in Nat
  /\ s.count = 0 =>
       /\ s.skip = 0 /\ s.out = SubSeq(text, 1, i)
       /\ \A j \in 1..i : ~MatchesAt(text, old, j)
  /\ s.count > 0 => \E j \in 1..i : MatchesAt(text, old, j)
  /\ most = 1 /\ s.count > 0 =>
       \E p \in 1..i :
         /\ MatchesAt(text, old, p)
         /\ s.skip = IF p + Len(old) - 1 > i THEN p + Len(old) - 1 - i ELSE 0
         /\ s.out = Copied(text, new, p, Len(old), i)

ScanState == [out : Seq(Tokens), skip : Nat, count : Nat]

LEMMA TokenFacts ==
  ASSUME NEW text \in Seq(Tokens)
  PROVE  /\ Len(text) \in Nat /\ SubSeq(text, 1, 0) = <<>>
         /\ \A i \in 1..Len(text) : text[i] \in Tokens
         /\ \A a \in 1..(Len(text) + 1), b \in 0..Len(text) :
              /\ SubSeq(text, a, b) \in Seq(Tokens)
              /\ b < a => SubSeq(text, a, b) = <<>>
              /\ a <= b + 1 /\ b + 1 <= Len(text) =>
                   SubSeq(text, a, b + 1) = Append(SubSeq(text, a, b), text[b + 1])
<1>1. Len(text) \in Nat /\ (\A i \in 1..Len(text) : text[i] \in Tokens) /\ SubSeq(text, 1, 0) = <<>>
  OBVIOUS
<1>2. ASSUME NEW a \in 1..(Len(text) + 1), NEW b \in 0..Len(text)
      PROVE  /\ SubSeq(text, a, b) \in Seq(Tokens)
             /\ b < a => SubSeq(text, a, b) = <<>>
             /\ a <= b + 1 /\ b + 1 <= Len(text) =>
                   SubSeq(text, a, b + 1) = Append(SubSeq(text, a, b), text[b + 1])
  <2>1. SubSeq(text, a, b) \in Seq(Tokens)
    <3>1. \A i \in a..b : text[i] \in Tokens
      BY <1>1
    <3> QED BY <3>1, <1>1
  <2>2. b < a => SubSeq(text, a, b) = <<>>
    BY <1>1
  <2>3. ASSUME a <= b + 1, b + 1 <= Len(text)
        PROVE  SubSeq(text, a, b + 1) = Append(SubSeq(text, a, b), text[b + 1])
    <3>1. a \in Nat /\ b \in Nat /\ b + 1 - a + 1 \in Nat
      BY <2>3
    <3>2. \A i \in a..(b + 1) : text[i] \in Tokens
      BY <1>1, <2>3
    <3>3. /\ SubSeq(text, a, b + 1) \in Seq(Tokens) /\ Len(SubSeq(text, a, b + 1)) = b + 1 - a + 1
          /\ \A i \in 1..(b + 1 - a + 1) : SubSeq(text, a, b + 1)[i] = text[a + i - 1]
      BY <3>1, <3>2, <2>3, <1>1
    <3>4. /\ Len(SubSeq(text, a, b)) = b - a + 1
          /\ \A i \in 1..(b - a + 1) : SubSeq(text, a, b)[i] = text[a + i - 1]
      BY SMTT(40), <3>1, <3>2, <2>1, <2>3, <1>1
    <3>5. text[b + 1] \in Tokens
      BY <1>1, <2>3
    <3>6. /\ Append(SubSeq(text, a, b), text[b + 1]) \in Seq(Tokens)
          /\ Len(Append(SubSeq(text, a, b), text[b + 1])) = b + 1 - a + 1
          /\ \A i \in 1..(b + 1 - a + 1) : Append(SubSeq(text, a, b), text[b + 1])[i] = text[a + i - 1]
      BY <2>1, <3>1, <3>4, <3>5
    <3>7. PICK x, y : x = SubSeq(text, a, b + 1) /\ y = Append(SubSeq(text, a, b), text[b + 1])
      OBVIOUS
    <3>8. /\ x \in Seq(Tokens) /\ y \in Seq(Tokens) /\ Len(x) = Len(y)
          /\ \A i \in 1..Len(x) : x[i] = y[i]
      BY <3>3, <3>6, <3>7
    <3>9. x = y
      BY <3>8
    <3> QED BY <3>7, <3>9
  <2> QED BY <2>1, <2>2, <2>3
<1> QED BY <1>1, <1>2

AppendsAtEnd(a, c, x) == Append(a \o c, x) = a \o Append(c, x)

LEMMA ConcatAppended ==
  ASSUME NEW S, NEW a \in Seq(S), NEW c \in Seq(S), NEW x \in S
  PROVE  AppendsAtEnd(a, c, x)
<1>1. PICK k, m, ac, cx : k = Len(a) /\ m = Len(c) /\ ac = a \o c /\ cx = Append(c, x)
  OBVIOUS
<1>2. k \in Nat /\ m \in Nat
  BY <1>1
<1>3. /\ cx \in Seq(S) /\ Len(cx) = m + 1
      /\ \A i \in 1..(m + 1) : cx[i] = IF i = m + 1 THEN x ELSE c[i]
  BY <1>1
<1>4. /\ ac \in Seq(S) /\ Len(ac) = k + m
      /\ \A i \in 1..(k + m) : ac[i] = IF i <= k THEN a[i] ELSE c[i - k]
  BY <1>1, ConcatProperties
<1>5. PICK y, z : y = Append(ac, x) /\ z = a \o cx
  OBVIOUS
<1>6. /\ y \in Seq(S) /\ Len(y) = k + m + 1
      /\ \A i \in 1..(k + m + 1) : y[i] = IF i = k + m + 1 THEN x ELSE ac[i]
  BY <1>2, <1>4, <1>5
<1>7. /\ z \in Seq(S) /\ Len(z) = k + (m + 1)
      /\ \A i \in 1..(k + (m + 1)) : z[i] = IF i <= k THEN a[i] ELSE cx[i - k]
  BY <1>1, <1>3, <1>5, ConcatProperties
<1>8. ASSUME NEW i \in 1..(k + m + 1) PROVE y[i] = z[i]
  <2>1. i \in Int /\ i >= 1 /\ i <= k + m + 1
    BY <1>2
  <2>2. CASE i <= k
    BY <1>2, <1>4, <1>6, <1>7, <2>1, <2>2
  <2>3. CASE i = k + m + 1
    <3>1. i - k = m + 1 /\ ~(i <= k) /\ m + 1 \in 1..(m + 1) /\ i \in 1..(k + (m + 1))
      BY <1>2, <2>1, <2>3
    <3>2. z[i] = cx[m + 1] /\ cx[m + 1] = x /\ y[i] = x
      BY <1>3, <1>6, <1>7, <2>3, <3>1
    <3> QED BY <3>2
  <2>4. CASE i > k /\ i # k + m + 1
    <3>1. i - k \in 1..(m + 1) /\ i - k # m + 1 /\ ~(i <= k) /\ i \in 1..(k + m) /\ i \in 1..(k + (m + 1))
      BY <1>2, <2>1, <2>4
    <3>2. z[i] = cx[i - k] /\ cx[i - k] = c[i - k] /\ y[i] = ac[i] /\ ac[i] = c[i - k]
      BY <1>3, <1>4, <1>6, <1>7, <2>4, <3>1
    <3> QED BY <3>2
  <2> QED BY <2>1, <2>2, <2>3, <2>4, <1>2
<1>9. Len(y) = Len(z) /\ \A i \in 1..Len(y) : y[i] = z[i]
  BY <1>2, <1>6, <1>7, <1>8
<1>10. y = z
  BY <1>6, <1>7, <1>9
<1> QED BY <1>1, <1>5, <1>10 DEF AppendsAtEnd

LEMMA ScanStepHolds ==
  ASSUME NEW text \in Seq(Tokens), NEW old \in Seq(Tokens), old # <<>>, NEW new \in Seq(Tokens),
         NEW most \in Nat \ {0}, NEW i \in 1..Len(text), NEW s,
         ScanOK(text, old, new, most, s, i - 1)
  PROVE  ScanOK(text, old, new, most, ScanStep(text, old, new, most, s, i), i)
<1> DEFINE n == Len(old)
           r == ScanStep(text, old, new, most, s, i)
<1>1. /\ DOMAIN s = {"out", "skip", "count"} /\ s.out \in Seq(Tokens) /\ s.skip \in Nat /\ s.count \in Nat
      /\ i \in Nat /\ i - 1 \in 0..Len(text) /\ n \in Nat \ {0} /\ Len(text) \in Nat
      /\ text[i] \in Tokens
  BY TokenFacts DEF ScanOK
<1>2. s.count > 0 => \E j \in 1..(i - 1) : MatchesAt(text, old, j)
  BY DEF ScanOK
<1>3. s.count = 0 =>
       /\ s.skip = 0 /\ s.out = SubSeq(text, 1, i - 1)
       /\ \A j \in 1..(i - 1) : ~MatchesAt(text, old, j)
  BY DEF ScanOK
<1>4. most = 1 /\ s.count > 0 =>
       \E p \in 1..(i - 1) :
         /\ MatchesAt(text, old, p)
         /\ s.skip = IF p + n - 1 > i - 1 THEN p + n - 1 - (i - 1) ELSE 0
         /\ s.out = Copied(text, new, p, n, i - 1)
  BY DEF ScanOK
<1> HIDE DEF n, r
<1>5. CASE s.skip > 0
  <2>1. r = [s EXCEPT !.skip = @ - 1]
    BY <1>5 DEF r, ScanStep
  <2>2. /\ DOMAIN r = {"out", "skip", "count"} /\ r.out = s.out /\ r.count = s.count
        /\ r.skip = s.skip - 1 /\ r.skip \in Nat
    BY <1>1, <1>5, <2>1
  <2>3. s.count > 0 /\ \E j \in 1..i : MatchesAt(text, old, j)
    BY <1>1, <1>2, <1>3, <1>5
  <2>4. ASSUME most = 1
        PROVE \E p \in 1..i :
          /\ MatchesAt(text, old, p)
          /\ r.skip = IF p + n - 1 > i THEN p + n - 1 - i ELSE 0
          /\ r.out = Copied(text, new, p, n, i)
    <3>1. PICK p \in 1..(i - 1) :
         /\ MatchesAt(text, old, p)
         /\ s.skip = IF p + n - 1 > i - 1 THEN p + n - 1 - (i - 1) ELSE 0
         /\ s.out = Copied(text, new, p, n, i - 1)
      BY <1>4, <2>3, <2>4
    <3>2. p + n - 1 > i - 1 /\ s.skip = p + n - 1 - (i - 1)
      BY <1>1, <1>5, <3>1
    <3>3. r.skip = IF p + n - 1 > i THEN p + n - 1 - i ELSE 0
      BY <1>1, <2>2, <3>2
    <3>4. p + n \in 1..(Len(text) + 1) /\ i < p + n
      <4>1. p + n - 1 <= Len(text)
        BY <3>1 DEF MatchesAt, n
      <4> QED BY <1>1, <3>2, <4>1
    <3>5. SubSeq(text, p + n, i) = <<>> /\ SubSeq(text, p + n, i - 1) = <<>>
      BY <1>1, <3>4, TokenFacts
    <3>6. r.out = Copied(text, new, p, n, i)
      BY <2>2, <3>1, <3>5 DEF Copied
    <3>7. p \in 1..i
      BY <1>1
    <3> QED BY <3>1, <3>3, <3>6, <3>7
  <2>5. r.count # 0 /\ r.out \in Seq(Tokens) /\ r.count \in Nat
    BY <1>1, <2>2, <2>3
  <2> QED BY <2>2, <2>3, <2>4, <2>5 DEF ScanOK, r, n
<1>6. CASE s.skip = 0 /\ s.count < most /\ MatchesAt(text, old, i)
  <2>1. r = [out |-> s.out \o new, skip |-> n - 1, count |-> s.count + 1]
    BY <1>1, <1>6 DEF r, ScanStep, n
  <2>2. /\ DOMAIN r = {"out", "skip", "count"} /\ r.out = s.out \o new /\ r.count = s.count + 1
        /\ r.skip = n - 1 /\ r.skip \in Nat /\ r.out \in Seq(Tokens) /\ r.count \in Nat /\ r.count # 0
    BY SMTT(40), <1>1, <2>1
  <2>3. i \in 1..i
    BY <1>1
  <2>4. ASSUME most = 1
        PROVE \E p \in 1..i :
          /\ MatchesAt(text, old, p)
          /\ r.skip = IF p + n - 1 > i THEN p + n - 1 - i ELSE 0
          /\ r.out = Copied(text, new, p, n, i)
    <3>1. s.count = 0
      BY <1>1, <1>6, <2>4
    <3>2. r.skip = IF i + n - 1 > i THEN i + n - 1 - i ELSE 0
      BY <1>1, <2>2
    <3>3. i + n - 1 <= Len(text)
      BY <1>6 DEF MatchesAt, n
    <3>4. i + n \in 1..(Len(text) + 1) /\ i < i + n /\ i \in 0..Len(text)
      BY <1>1, <3>3
    <3>5. SubSeq(text, i + n, i) = <<>>
      BY <3>4, TokenFacts
    <3>6. (s.out \o new) \o <<>> = s.out \o new
      BY <1>1
    <3>7. r.out = Copied(text, new, i, n, i)
      BY <1>3, <2>2, <3>1, <3>5, <3>6 DEF Copied
    <3> QED BY <1>6, <2>3, <3>2, <3>7
  <2> QED BY <1>6, <2>2, <2>3, <2>4 DEF ScanOK, r, n
<1>7. CASE s.skip = 0 /\ ~(s.count < most /\ MatchesAt(text, old, i))
  <2>1. r = [s EXCEPT !.out = Append(@, text[i])]
    BY <1>1, <1>7 DEF r, ScanStep
  <2>2. /\ DOMAIN r = {"out", "skip", "count"} /\ r.out = Append(s.out, text[i]) /\ r.count = s.count
        /\ r.skip = 0 /\ r.out \in Seq(Tokens)
    BY <1>1, <1>7, <2>1
  <2>3. ASSUME s.count = 0
        PROVE  r.out = SubSeq(text, 1, i) /\ \A j \in 1..i : ~MatchesAt(text, old, j)
    <3>1. s.out = SubSeq(text, 1, i - 1) /\ (\A j \in 1..(i - 1) : ~MatchesAt(text, old, j))
          /\ ~MatchesAt(text, old, i)
      BY <1>3, <1>7, <2>3, <1>1
    <3>2. 1 \in 1..(Len(text) + 1) /\ 1 <= (i - 1) + 1 /\ (i - 1) + 1 <= Len(text) /\ (i - 1) + 1 = i
      BY <1>1
    <3>3. SubSeq(text, 1, (i - 1) + 1) = Append(SubSeq(text, 1, i - 1), text[(i - 1) + 1])
      BY <1>1, <3>2, TokenFacts
    <3>4. \A j \in 1..i : j = i \/ j \in 1..(i - 1)
      BY <1>1
    <3> QED BY <2>2, <3>1, <3>2, <3>3, <3>4
  <2>4. s.count > 0 => \E j \in 1..i : MatchesAt(text, old, j)
    BY <1>1, <1>2
  <2>5. ASSUME most = 1, s.count > 0
        PROVE \E p \in 1..i :
          /\ MatchesAt(text, old, p)
          /\ r.skip = IF p + n - 1 > i THEN p + n - 1 - i ELSE 0
          /\ r.out = Copied(text, new, p, n, i)
    <3>1. PICK p \in 1..(i - 1) :
         /\ MatchesAt(text, old, p)
         /\ s.skip = IF p + n - 1 > i - 1 THEN p + n - 1 - (i - 1) ELSE 0
         /\ s.out = Copied(text, new, p, n, i - 1)
      BY <1>4, <2>5
    <3>2. p + n - 1 <= i - 1 /\ p \in 1..i
      BY <1>1, <1>7, <3>1
    <3>3. r.skip = IF p + n - 1 > i THEN p + n - 1 - i ELSE 0
      BY <1>1, <2>2, <3>2
    <3>4. /\ p + n \in 1..(Len(text) + 1) /\ p + n <= (i - 1) + 1 /\ (i - 1) + 1 <= Len(text)
          /\ (i - 1) + 1 = i /\ 1 \in 1..(Len(text) + 1) /\ p - 1 \in 0..Len(text)
      BY <1>1, <3>2
    <3>5. SubSeq(text, p + n, (i - 1) + 1) = Append(SubSeq(text, p + n, i - 1), text[(i - 1) + 1])
      BY <1>1, <3>4, TokenFacts
    <3>6. SubSeq(text, p + n, i - 1) \in Seq(Tokens) /\ SubSeq(text, 1, p - 1) \in Seq(Tokens)
      BY <1>1, <3>4, TokenFacts
    <3>7. PICK a, c, d, x : a = SubSeq(text, 1, p - 1) \o new /\ c = SubSeq(text, p + n, i - 1)
                         /\ d = SubSeq(text, p + n, i) /\ x = text[i]
      OBVIOUS
    <3>8. a \in Seq(Tokens) /\ c \in Seq(Tokens) /\ x \in Tokens /\ d = Append(c, x)
      <4>1. (i - 1) + 1 = i
        BY <3>4
      <4>2. SubSeq(text, p + n, i) = Append(SubSeq(text, p + n, i - 1), text[i])
        BY <3>5, <4>1
      <4>3. a \in Seq(Tokens)
        BY <3>6, <3>7, ConcatProperties
      <4> QED BY <1>1, <3>6, <3>7, <4>2, <4>3
    <3>9. Append(a \o c, x) = a \o Append(c, x)
      <4>1. AppendsAtEnd(a, c, x)
        BY <3>8, ConcatAppended
      <4> QED BY <4>1 DEF AppendsAtEnd
    <3>10. r.out = Copied(text, new, p, n, i)
      BY <2>2, <3>1, <3>7, <3>8, <3>9 DEF Copied
    <3> QED BY <3>1, <3>2, <3>3, <3>10
  <2>6. r.count \in Nat /\ r.skip \in Nat
    BY <1>1, <2>2
  <2>7. r.count = 0 =>
          r.skip = 0 /\ r.out = SubSeq(text, 1, i) /\ \A j \in 1..i : ~MatchesAt(text, old, j)
    BY <2>2, <2>3
  <2>8. r.count > 0 => \E j \in 1..i : MatchesAt(text, old, j)
    BY <2>2, <2>4
  <2>9. most = 1 /\ r.count > 0 =>
          \E p \in 1..i :
            /\ MatchesAt(text, old, p)
            /\ r.skip = IF p + n - 1 > i THEN p + n - 1 - i ELSE 0
            /\ r.out = Copied(text, new, p, n, i)
    BY <2>2, <2>5
  <2>10. ScanOK(text, old, new, most, r, i)
    BY <2>2, <2>6, <2>7, <2>8, <2>9 DEF ScanOK, n
  <2> QED BY <2>10 DEF r
<1> QED BY <1>1, <1>5, <1>6, <1>7

LEMMA ScanStepIs ==
  ASSUME NEW text \in Seq(Tokens), NEW old, Len(old) \in Nat \ {0}, NEW new \in Seq(Tokens), NEW most,
         NEW i \in 1..Len(text), NEW s \in ScanState
  PROVE  ScanStep(text, old, new, most, s, i) \in ScanState
<1>1. s.out \in Seq(Tokens) /\ s.skip \in Nat /\ s.count \in Nat /\ text[i] \in Tokens
  BY DEF ScanState
<1>2. CASE s.skip > 0
  BY SMTT(40), <1>1, <1>2 DEF ScanStep, ScanState
<1>3. CASE ~(s.skip > 0) /\ s.count < most /\ MatchesAt(text, old, i)
  <2>1. s.out \o new \in Seq(Tokens) /\ Len(old) - 1 \in Nat /\ s.count + 1 \in Nat
    BY <1>1
  <2> QED BY <1>3, <2>1 DEF ScanStep, ScanState
<1>4. CASE ~(s.skip > 0) /\ ~(s.count < most /\ MatchesAt(text, old, i))
  <2>1. Append(s.out, text[i]) \in Seq(Tokens)
    BY <1>1
  <2> QED BY <1>4, <2>1 DEF ScanStep, ScanState
<1> QED BY <1>2, <1>3, <1>4

LEMMA ScanHolds ==
  ASSUME NEW text \in Seq(Tokens), NEW old \in Seq(Tokens), old # <<>>, NEW new \in Seq(Tokens),
         NEW most \in Nat \ {0}
  PROVE  ScanOK(text, old, new, most, Scan(text, old, new, most), Len(text))
<1> DEFINE N == Len(text)
           a == [out |-> <<>>, skip |-> 0, count |-> 0]
           Is(g) == g = [i \in 0..N |-> IF i = 0 THEN a
                                        ELSE ScanStep(text, old, new, most, g[i - 1], i)]
           step == [i \in 1..N |-> [s \in ScanState |-> ScanStep(text, old, new, most, s, i)]]
<1>1. N \in Nat /\ Len(old) \in Nat \ {0}
  BY TokenFacts
<1>2. PICK A : A = a
  OBVIOUS
<1>3. A \in ScanState /\ ScanOK(text, old, new, most, A, 0)
  <2>1. A.out = <<>> /\ A.skip = 0 /\ A.count = 0 /\ DOMAIN A = {"out", "skip", "count"}
    BY <1>2
  <2>2. A.out \in Seq(Tokens) /\ SubSeq(text, 1, 0) = <<>>
    BY <2>1, TokenFacts
  <2>3. ScanOK(text, old, new, most, A, 0)
    BY <2>1, <2>2 DEF ScanOK
  <2>4. A \in ScanState
    BY <1>2, <2>2, <2>1 DEF ScanState
  <2> QED BY <2>3, <2>4
<1>4. AreSteps(step, N, ScanState)
  <2>1. \A i \in 1..N : \A s \in ScanState : ScanStep(text, old, new, most, s, i) \in ScanState
    BY <1>1, ScanStepIs
  <2> HIDE DEF N
  <2> QED BY <2>1 DEF AreSteps
<1>5. \E f : Is(f)
  <2>1. PICK st : st = step
    OBVIOUS
  <2>2. N \in Nat /\ A \in ScanState /\ AreSteps(st, N, ScanState)
    BY <1>1, <1>3, <1>4, <2>1
  <2>3. PICK f \in [0..N -> ScanState] : f[0] = A /\ \A i \in 1..N : f[i] = st[i][f[i - 1]]
    <3>1. \E f : StepsTo(f, A, st, N, ScanState)
      <4> HIDE DEF N
      <4> QED BY <2>2, SomeStepsTo
    <3> HIDE DEF N
    <3> QED BY <3>1 DEF StepsTo
  <2>4. \A i \in 1..N : f[i - 1] \in ScanState
    <3>1. \A i \in 1..N : i - 1 \in 0..N
      BY <1>1
    <3> HIDE DEF N
    <3> QED BY <2>3, <3>1
  <2>5. \A i \in 1..N : f[i] = ScanStep(text, old, new, most, f[i - 1], i)
    <3> HIDE DEF N
    <3> QED BY <2>1, <2>3, <2>4
  <2>6. \A i \in 0..N : f[i] = IF i = 0 THEN a ELSE ScanStep(text, old, new, most, f[i - 1], i)
    <3>1. \A i \in 0..N : i = 0 \/ i \in 1..N
      BY <1>1
    <3> HIDE DEF N, a
    <3> QED BY <1>2, <2>3, <2>5, <3>1
  <2> HIDE DEF N, a
  <2> QED BY <2>3, <2>6
<1>6. Scanned(text, old, new, most) = CHOOSE g : Is(g)
  BY DEF Scanned
<1>7. PICK g : g = Scanned(text, old, new, most) /\ Is(g)
  <2> HIDE DEF Is
  <2> QED BY <1>5, <1>6
<1>8. g[0] = A /\ \A i \in 1..N : g[i] = ScanStep(text, old, new, most, g[i - 1], i)
  <2>1. \A i \in 0..N : g[i] = IF i = 0 THEN a ELSE ScanStep(text, old, new, most, g[i - 1], i)
    BY <1>7
  <2>2. 0 \in 0..N /\ \A i \in 1..N : i \in 0..N /\ i # 0
    BY <1>1
  <2> HIDE DEF N, a
  <2> QED BY <1>2, <2>1, <2>2
<1> HIDE DEF a, Is, step
<1>9. ScanOK(text, old, new, most, g[N], N)
  <2> DEFINE h == [i \in 0..N |-> ScanOK(text, old, new, most, g[i], i)]
  <2>1. h[0] \in {TRUE}
    <3>1. 0 \in 0..N
      BY <1>1
    <3>2. h[0] = ScanOK(text, old, new, most, g[0], 0)
      BY <3>1
    <3>3. ScanOK(text, old, new, most, g[0], 0) = TRUE
      BY <1>3, <1>8
    <3> QED BY <3>2, <3>3
  <2>2. \A i \in 1..N : h[i - 1] \in {TRUE} => h[i] \in {TRUE}
    <3> SUFFICES ASSUME NEW i \in 1..N, ScanOK(text, old, new, most, g[i - 1], i - 1)
                 PROVE  ScanOK(text, old, new, most, g[i], i)
      <4>1. \A i \in 1..N : i \in 0..N /\ i - 1 \in 0..N
        BY <1>1
      <4> QED BY <4>1
    <3>1. ScanOK(text, old, new, most, ScanStep(text, old, new, most, g[i - 1], i), i)
      BY ScanStepHolds
    <3> QED BY <1>8, <3>1
  <2>3. PICK H : H = h
    OBVIOUS
  <2> HIDE DEF h, N
  <2>4. \A i \in 0..N : H[i] \in {TRUE}
    <3>1. PICK T : T = {TRUE}
      OBVIOUS
    <3>2. N \in Nat /\ H[0] \in T /\ (\A i \in 1..N : H[i - 1] \in T => H[i] \in T)
      BY <1>1, <2>1, <2>2, <2>3, <3>1
    <3>3. \A i \in 0..N : H[i] \in T
      BY <3>2, StepsStay
    <3> QED BY <3>1, <3>3
  <2>5. N \in 0..N
    BY <1>1
  <2>6. h[N] = TRUE
    BY <2>3, <2>4, <2>5
  <2> QED BY <2>5, <2>6 DEF h
<1> QED BY <1>7, <1>9 DEF Scan

(* A text is found when it is somewhere, however many places are replaced. *)
ScanFound(text, old, new, most, s) ==
  /\ s.out \in Seq(Tokens) /\ s.count \in Nat
  /\ s.count = 0 <=> \A j \in 1..Len(text) : ~MatchesAt(text, old, j)
  /\ most = 1 /\ s.count > 0 =>
       \E p \in 1..Len(text) :
         MatchesAt(text, old, p) /\ s.out = Copied(text, new, p, Len(old), Len(text))

LEMMA ScanFacts ==
  ASSUME NEW text \in Seq(Tokens), NEW old \in Seq(Tokens), old # <<>>, NEW new \in Seq(Tokens),
         NEW most \in Nat \ {0}
  PROVE  ScanFound(text, old, new, most, Scan(text, old, new, most))
<1>1. PICK s : s = Scan(text, old, new, most)
  OBVIOUS
<1>2. ScanOK(text, old, new, most, s, Len(text))
  BY <1>1, ScanHolds
<1>3. s.out \in Seq(Tokens) /\ s.count \in Nat
  BY <1>2 DEF ScanOK
<1>4. s.count = 0 => \A j \in 1..Len(text) : ~MatchesAt(text, old, j)
  BY <1>2 DEF ScanOK
<1>5. s.count > 0 => \E j \in 1..Len(text) : MatchesAt(text, old, j)
  BY <1>2 DEF ScanOK
<1>6. most = 1 /\ s.count > 0 =>
              \E p \in 1..Len(text) :
                MatchesAt(text, old, p) /\ s.out = Copied(text, new, p, Len(old), Len(text))
  BY <1>2 DEF ScanOK
<1>7. s.count = 0 \/ s.count > 0
  BY <1>3
<1>8. s.count = 0 <=> \A j \in 1..Len(text) : ~MatchesAt(text, old, j)
  BY <1>4, <1>5, <1>7
<1>9. ScanFound(text, old, new, most, s)
  BY <1>3, <1>6, <1>8 DEF ScanFound
<1> QED BY <1>1, <1>9

LEMMA CountFacts ==
  ASSUME NEW text \in Seq(Tokens), NEW old \in Seq(Tokens), old # <<>>
  PROVE  /\ Count(text, old) \in Nat
         /\ Count(text, old) > 0 => \E j \in 1..Len(text) : MatchesAt(text, old, j)
<1>1. <<>> \in Seq(Tokens) /\ Len(text) \in Nat
  OBVIOUS
<1>2. CASE Len(text) > 0
  <2>1. Len(text) \in Nat \ {0}
    BY <1>1, <1>2
  <2>2. PICK s : s = Scan(text, old, <<>>, Len(text))
    OBVIOUS
  <2>3. s.count \in Nat /\ (s.count = 0 <=> \A j \in 1..Len(text) : ~MatchesAt(text, old, j))
    <3>1. ScanFound(text, old, <<>>, Len(text), s)
      BY <1>1, <2>1, <2>2, ScanFacts
    <3> QED BY <3>1 DEF ScanFound
  <2> QED BY <2>2, <2>3 DEF Count
<1>3. CASE Len(text) = 0
  <2> DEFINE a == [out |-> <<>>, skip |-> 0, count |-> 0]
             Is(g) == g = [i \in 0..Len(text) |-> IF i = 0 THEN a
                             ELSE ScanStep(text, old, <<>>, Len(text), g[i - 1], i)]
  <2>1. \E f : Is(f)
    <3> DEFINE f == [i \in 0..0 |-> a]
    <3>1. \A i \in 0..0 : i = 0
      OBVIOUS
    <3>2. f = [i \in 0..0 |-> IF i = 0 THEN a ELSE ScanStep(text, old, <<>>, Len(text), f[i - 1], i)]
      <4> HIDE DEF a
      <4> QED BY <3>1
    <3>3. Is(f)
      BY <1>3, <3>2
    <3> HIDE DEF f, Is
    <3> QED BY <3>3
  <2>2. Scanned(text, old, <<>>, Len(text)) = CHOOSE g : Is(g)
    BY DEF Scanned
  <2>3. PICK g : g = Scanned(text, old, <<>>, Len(text)) /\ Is(g)
    <3> HIDE DEF Is
    <3> QED BY <2>1, <2>2
  <2>4. g[0] = a
    <3>1. 0 \in 0..Len(text)
      BY <1>1
    <3> HIDE DEF a
    <3> QED BY <2>3, <3>1
  <2>5. Count(text, old) = a.count
    <3> HIDE DEF a, Is
    <3> QED BY <1>3, <2>3, <2>4 DEF Count, Scan
  <2> QED BY <2>5
<1> QED BY <1>1, <1>2, <1>3

LEMMA NormalizedFacts ==
  ASSUME NEW text \in Seq(Tokens)
  PROVE  /\ Normalized(text) \in Seq(Tokens) /\ Len(Normalized(text)) = Len(text)
         /\ \A i \in 1..Len(text) :
              Normalized(text)[i] = IF text[i] = "curly" THEN "quote" ELSE text[i]
<1>1. DOMAIN text = 1..Len(text) /\ Len(text) \in Nat /\ \A i \in 1..Len(text) : text[i] \in Tokens
  OBVIOUS
<1>2. "quote" \in Tokens
  BY DEF Tokens
<1>3. Normalized(text) = [i \in 1..Len(text) |-> IF text[i] = "curly" THEN "quote" ELSE text[i]]
  BY <1>1 DEF Normalized
<1>4. \A i \in 1..Len(text) : (IF text[i] = "curly" THEN "quote" ELSE text[i]) \in Tokens
  BY <1>1, <1>2
<1>5. PICK f : f = [i \in 1..Len(text) |-> IF text[i] = "curly" THEN "quote" ELSE text[i]]
  OBVIOUS
<1>6. f \in [1..Len(text) -> Tokens] /\ \A i \in 1..Len(text) : f[i] = IF text[i] = "curly" THEN "quote" ELSE text[i]
  BY <1>4, <1>5
<1>7. f \in Seq(Tokens) /\ Len(f) = Len(text)
  BY <1>1, <1>6
<1> QED BY <1>3, <1>5, <1>6, <1>7

(* A part of what is normalized is the part normalized.                    *)
LEMMA NormalizedPart ==
  ASSUME NEW text \in Seq(Tokens), NEW a \in 1..(Len(text) + 1), NEW b \in 0..Len(text)
  PROVE  SubSeq(Normalized(text), a, b) = Normalized(SubSeq(text, a, b))
<1>1. /\ Len(text) \in Nat /\ a \in Nat /\ b \in Nat
      /\ \A i \in a..b : i \in 1..Len(text) /\ text[i] \in Tokens
      /\ \A i \in 1..(b - a + 1) : a + i - 1 \in a..b /\ a + i - 1 \in 1..Len(text)
  BY TokenFacts
<1>2. PICK w : w = Normalized(text)
  OBVIOUS
<1>3. /\ w \in Seq(Tokens) /\ Len(w) = Len(text)
      /\ \A i \in 1..Len(text) : w[i] = IF text[i] = "curly" THEN "quote" ELSE text[i]
  BY <1>2, NormalizedFacts
<1>4. PICK x, y : x = SubSeq(w, a, b) /\ y = SubSeq(text, a, b)
  OBVIOUS
<1>5. x \in Seq(Tokens) /\ y \in Seq(Tokens)
  BY <1>3, <1>4, TokenFacts
<1>6. PICK z : z = Normalized(y)
  OBVIOUS
<1>7. /\ z \in Seq(Tokens) /\ Len(z) = Len(y)
      /\ \A i \in 1..Len(y) : z[i] = IF y[i] = "curly" THEN "quote" ELSE y[i]
  BY <1>5, <1>6, NormalizedFacts
<1>8. CASE a <= b
  <2>1. Len(x) = b - a + 1 /\ \A i \in 1..(b - a + 1) : x[i] = w[a + i - 1]
    BY <1>1, <1>3, <1>4, <1>8
  <2>2. Len(y) = b - a + 1 /\ \A i \in 1..(b - a + 1) : y[i] = text[a + i - 1]
    BY <1>1, <1>4, <1>8
  <2>3. \A i \in 1..Len(x) : x[i] = z[i]
    BY <1>1, <1>3, <1>7, <2>1, <2>2
  <2>4. Len(x) = Len(z)
    BY <1>7, <2>1, <2>2
  <2>5. x = z
    BY <1>5, <1>7, <2>3, <2>4
  <2> QED BY <1>2, <1>4, <1>6, <2>5
<1>9. CASE b < a
  <2>1. x = <<>> /\ y = <<>>
    BY <1>3, <1>4, <1>9, TokenFacts
  <2>2. Len(z) = 0
    BY <1>7, <2>1
  <2>3. z = <<>>
    BY <1>7, <2>2
  <2> QED BY <1>2, <1>4, <1>6, <2>1, <2>3
<1> QED BY <1>1, <1>8, <1>9

(* A text that is found is found when both are normalized.                 *)
LEMMA NormalizedMatch ==
  ASSUME NEW text \in Seq(Tokens), NEW old \in Seq(Tokens), old # <<>>, NEW p \in 1..Len(text),
         MatchesAt(text, old, p)
  PROVE  MatchesAt(Normalized(text), Normalized(old), p)
<1>1. Len(old) \in Nat \ {0} /\ Len(text) \in Nat
  OBVIOUS
<1>2. p + Len(old) - 1 <= Len(text) /\ SubSeq(text, p, p + Len(old) - 1) = old
  BY DEF MatchesAt
<1>3. /\ Len(Normalized(old)) = Len(old) /\ Len(Normalized(text)) = Len(text)
  BY NormalizedFacts
<1>4. PICK q : q = p + Len(old) - 1
  OBVIOUS
<1>5. q \in 0..Len(text) /\ p \in 1..(Len(text) + 1)
  BY <1>1, <1>2, <1>4
<1>6. SubSeq(Normalized(text), p, q) = Normalized(SubSeq(text, p, q))
  BY <1>5, NormalizedPart
<1> QED BY <1>2, <1>3, <1>4, <1>6 DEF MatchesAt

(* What is beside the file changes one place of it.                        *)
Local(before, old, new, text) ==
  \E i \in 1..Len(before) :
    LET head == SubSeq(before, 1, i - 1)
        tail == SubSeq(before, i + Len(old), Len(before)) IN
    /\ MatchesAt(Normalized(before), Normalized(old), i)
    /\ \/ text = head \o new \o tail
       \/ /\ Count(before, old) = 0
          /\ text = Normalized(head) \o new \o Normalized(tail)

LEMMA EditFacts ==
  ASSUME NEW text \in Seq(Tokens), NEW old \in Seq(Tokens), old # <<>>, NEW new \in Seq(Tokens),
         NEW all \in BOOLEAN,
         Edited(text, old, new, all).count = 1 \/ Edited(text, old, new, all).count > 1
  PROVE  /\ Edited(text, old, new, all).text \in Seq(Tokens)
         /\ all \/ Local(text, old, new, Edited(text, old, new, all).text)
<1>1. PICK exact, within, find, most :
        /\ exact = (Count(text, old) > 0)
        /\ within = (IF exact THEN text ELSE Normalized(text))
        /\ find = (IF exact THEN old ELSE Normalized(old))
        /\ most = (IF all THEN Len(text) ELSE 1)
  OBVIOUS
<1>2. /\ Edited(text, old, new, all).count = Count(within, find)
      /\ Edited(text, old, new, all).text = Scan(within, find, new, most).out
  BY <1>1 DEF Edited
<1>3. /\ Len(text) \in Nat /\ Len(old) \in Nat \ {0}
      /\ Normalized(text) \in Seq(Tokens) /\ Len(Normalized(text)) = Len(text)
      /\ Normalized(old) \in Seq(Tokens) /\ Len(Normalized(old)) = Len(old)
  BY NormalizedFacts
<1>4. within \in Seq(Tokens) /\ find \in Seq(Tokens) /\ find # <<>>
      /\ Len(within) = Len(text) /\ Len(find) = Len(old)
  BY <1>1, <1>3
<1>5. \E j \in 1..Len(within) : MatchesAt(within, find, j)
  <2>1. Count(within, find) \in Nat /\ (Count(within, find) = 1 \/ Count(within, find) > 1)
    BY <1>2, <1>4, CountFacts
  <2>2. Count(within, find) > 0
    BY <2>1
  <2> QED BY <1>4, <2>2, CountFacts
<1>6. most \in Nat \ {0}
  BY <1>1, <1>3, <1>4, <1>5
<1>7. PICK s : s = Scan(within, find, new, most)
  OBVIOUS
<1>8. /\ s.out \in Seq(Tokens) /\ s.count \in Nat
      /\ s.count = 0 <=> \A j \in 1..Len(within) : ~MatchesAt(within, find, j)
      /\ most = 1 /\ s.count > 0 =>
              \E p \in 1..Len(within) :
                MatchesAt(within, find, p) /\ s.out = Copied(within, new, p, Len(find), Len(within))
  <2>1. ScanFound(within, find, new, most, s)
    BY <1>4, <1>6, <1>7, ScanFacts
  <2> QED BY <2>1 DEF ScanFound
<1>9. ASSUME ~all PROVE Local(text, old, new, s.out)
  <2>1. most = 1 /\ s.count > 0
    BY <1>1, <1>5, <1>8, <1>9
  <2>2. PICK p \in 1..Len(text) :
          MatchesAt(within, find, p) /\ s.out = Copied(within, new, p, Len(old), Len(text))
    BY <1>4, <1>8, <2>1
  <2>3. p + Len(old) - 1 <= Len(text) /\ p \in Nat
    BY <1>3, <1>4, <2>2 DEF MatchesAt
  <2>4. /\ 1 \in 1..(Len(text) + 1) /\ p - 1 \in 0..Len(text)
        /\ p + Len(old) \in 1..(Len(text) + 1) /\ Len(text) \in 0..Len(text)
    BY <1>3, <2>3
  <2>5. PICK head, tail : /\ head = SubSeq(text, 1, p - 1)
                          /\ tail = SubSeq(text, p + Len(old), Len(text))
    OBVIOUS
  <2>6. CASE exact
    <3>1. MatchesAt(Normalized(text), Normalized(old), p)
      BY <1>1, <2>2, <2>6, NormalizedMatch
    <3>2. s.out = head \o new \o tail
      BY <1>1, <2>2, <2>5, <2>6 DEF Copied
    <3> QED BY <2>5, <3>1, <3>2 DEF Local
  <2>7. CASE ~exact
    <3>1. Count(text, old) = 0
      <4>1. Count(text, old) \in Nat
        BY CountFacts
      <4>2. ~(Count(text, old) > 0)
        BY <1>1, <2>7
      <4> QED BY <4>1, <4>2
    <3>2. /\ SubSeq(Normalized(text), 1, p - 1) = Normalized(head)
          /\ SubSeq(Normalized(text), p + Len(old), Len(text)) = Normalized(tail)
      BY <2>4, <2>5, NormalizedPart
    <3>3. s.out = Normalized(head) \o new \o Normalized(tail)
      BY <1>1, <2>2, <2>7, <3>2 DEF Copied
    <3>4. MatchesAt(Normalized(text), Normalized(old), p)
      BY <1>1, <2>2, <2>7
    <3> QED BY <2>5, <3>1, <3>3, <3>4 DEF Local
  <2> QED BY <1>1, <2>6, <2>7
<1> QED BY <1>2, <1>7, <1>8, <1>9

(* A reader's lines, when one range covers the file.                       *)
LEMMA WholeFacts ==
  ASSUME file \in Seq(Tokens), NEW ranges, CoversFile(ranges)
  PROVE  /\ Len(LinesOf(ranges)) = TotalLines
         /\ \A i \in DOMAIN LinesOf(ranges) : LinesOf(ranges)[i] = i
<1>1. PICK t : t = TotalLines
  OBVIOUS
<1>2. t \in Nat \ {0}
  <2>1. PICK m : m = Len(file)
    OBVIOUS
  <2>2. m \in Nat
    BY <2>1
  <2>3. \E x \in {1, m} : \A y \in {1, m} : x >= y
    <3>1. CASE m >= 1
      BY <2>2, <3>1
    <3>2. CASE ~(m >= 1)
      BY <2>2, <3>2
    <3> QED BY <3>1, <3>2
  <2>4. Max({1, m}) \in {1, m} /\ \A y \in {1, m} : Max({1, m}) >= y
    BY <2>3, Zenon DEF Max
  <2>5. t = Max({1, m})
    BY <1>1, <2>1 DEF TotalLines
  <2> QED BY <2>2, <2>4, <2>5
<1>3. Len(ranges) = 1 /\ ranges[1] = <<1, t>>
  BY <1>1 DEF CoversFile
<1>4. PICK seqs : seqs = [k \in 1..Len(ranges) |->
                [i \in 1..(ranges[k][2] - ranges[k][1] + 1) |-> ranges[k][1] + i - 1]]
  OBVIOUS
<1>5. LinesOf(ranges) = FlattenSeq(seqs)
  BY <1>4 DEF LinesOf
<1>6. Len(seqs) = 1 /\ seqs[1] = [i \in 1..(ranges[1][2] - ranges[1][1] + 1) |-> ranges[1][1] + i - 1]
  <2>1. 1..Len(ranges) = 1..1 /\ 1 \in 1..1
    BY <1>3
  <2>2. DOMAIN seqs = 1..1
    BY <1>4, <2>1
  <2>3. seqs[1] = [i \in 1..(ranges[1][2] - ranges[1][1] + 1) |-> ranges[1][1] + i - 1]
    BY <1>4, <2>1
  <2>4. \A k \in 1..1 : seqs[k] \in {seqs[1]}
    OBVIOUS
  <2>5. seqs \in [1..1 -> {seqs[1]}]
    BY <1>4, <2>1, <2>2, <2>4
  <2>6. seqs \in Seq({seqs[1]})
    BY SMTT(40), <2>5
  <2> QED BY <2>2, <2>3, <2>6
<1>7. PICK w : w = [i \in 1..t |-> i]
  OBVIOUS
<1>8. seqs[1] = w
  <2>1. ranges[1][2] - ranges[1][1] + 1 = t /\ ranges[1][1] = 1
    BY <1>2, <1>3
  <2>2. \A i \in 1..t : 1 + i - 1 = i
    BY <1>2
  <2>3. seqs[1] = [i \in 1..t |-> 1 + i - 1]
    BY <1>6, <2>1
  <2> QED BY <1>7, <2>2, <2>3
<1>9. FlattenSeq(seqs) = w
  <2> DEFINE Is(g) == g = [i \in 1..Len(seqs) |-> IF i = 1 THEN seqs[i] ELSE g[i - 1] \o seqs[i]]
  <2>1. FlattenSeq(seqs) = (CHOOSE g : Is(g))[Len(seqs)]
    BY <1>6 DEF FlattenSeq
  <2>2. \A i \in 1..1 : i = 1
    OBVIOUS
  <2>3. Is([i \in 1..1 |-> w])
    <3>1. PICK f : f = [i \in 1..1 |-> w]
      OBVIOUS
    <3>2. f = [i \in 1..1 |-> IF i = 1 THEN seqs[i] ELSE f[i - 1] \o seqs[i]]
      BY <1>8, <2>2, <3>1
    <3>3. Is(f)
      BY <1>6, <3>2
    <3> HIDE DEF Is
    <3> QED BY <3>1, <3>3
  <2>4. PICK g : g = (CHOOSE h : Is(h)) /\ Is(g)
    <3> HIDE DEF Is
    <3> QED BY <2>3
  <2>5. g[1] = w
    <3>1. g = [i \in 1..1 |-> IF i = 1 THEN seqs[i] ELSE g[i - 1] \o seqs[i]]
      BY <1>6, <2>4
    <3>2. 1 \in 1..1
      OBVIOUS
    <3>3. g[1] = IF 1 = 1 THEN seqs[1] ELSE g[1 - 1] \o seqs[1]
      BY <3>1, <3>2, Zenon
    <3> QED BY <1>8, <3>3
  <2> HIDE DEF Is
  <2> QED BY <1>6, <2>1, <2>4, <2>5
<1>10. LinesOf(ranges) = w /\ TotalLines = t
  BY <1>1, <1>5, <1>9
<1>11. w \in Seq(Nat) /\ Len(w) = t /\ \A i \in DOMAIN w : w[i] = i
  <2>1. w \in [1..t -> Nat]
    BY <1>2, <1>7
  <2> QED BY <1>2, <1>7, <2>1
<1> QED BY <1>10, <1>11

--------------------------------------------------------------------------------
(* An edit that is to be renamed into place was made from the file that is *)
(* still there, and differs from it where the text was to change.          *)
FileIInv ==
  /\ FileTypeOK /\ WholeIsWhole
  /\ DOMAIN editing = {"kind", "old", "new", "all", "before"} /\ editing.new \in Seq(Tokens)
  /\ editing.kind = "edit" =>
       /\ file = editing.before
       /\ editing.all \/ Local(editing.before, editing.old, editing.new, tmpFile)

LEMMA FileFacts ==
  /\ Texts \subseteq Seq(Tokens) /\ <<>> \in Seq(Tokens)
  /\ Absent \notin Seq(Tokens)
  /\ NoEdit.kind = "none" /\ NoEdit.new = <<>> /\ NoEdit.all = FALSE
  /\ DOMAIN NoEdit = {"kind", "old", "new", "all", "before"}
<1>1. Absent \notin Seq(Tokens)
  <2>1. SUFFICES ASSUME Absent \in Seq(Tokens) PROVE FALSE
    OBVIOUS
  <2>2. PICK a : a = Absent
    OBVIOUS
  <2>3. a[1] = "absent" /\ Len(a) = 1 /\ a \in Seq(Tokens)
    BY <2>1, <2>2 DEF Absent
  <2>4. a[1] \in Tokens
    BY <2>3
  <2> QED BY <2>3, <2>4 DEF Tokens
<1> QED BY <1>1, FileAssumption DEF NoEdit

LEMMA FileInitHolds == FileInit => FileIInv
<1> SUFFICES ASSUME FileInit PROVE FileIInv
  OBVIOUS
<1>1. file \in Texts \cup {Absent} /\ tmpFile = Absent /\ editing = NoEdit /\ shownLines.partial = TRUE
  BY DEF FileInit, NoShown
<1> QED BY <1>1, FileFacts DEF FileIInv, FileTypeOK, WholeIsWhole

LEMMA FileStepHolds == FileIInv /\ [FileNext]_fileVars => FileIInv'
<1> SUFFICES ASSUME FileIInv, [FileNext]_fileVars PROVE FileIInv'
  OBVIOUS
<1> USE FileFacts
<1>1. /\ {file, tmpFile} \subseteq Seq(Tokens) \cup {Absent}
      /\ editing.kind \in {"none", "write", "append", "edit"}
      /\ editing.all \in BOOLEAN /\ shownLines.partial \in BOOLEAN
      /\ WholeIsWhole /\ editing.new \in Seq(Tokens)
      /\ DOMAIN editing = {"kind", "old", "new", "all", "before"}
      /\ editing.kind = "edit" =>
          /\ file = editing.before
          /\ editing.all \/ Local(editing.before, editing.old, editing.new, tmpFile)
  BY DEF FileIInv, FileTypeOK
<1>2. ASSUME NEW text \in Texts, WriteStarts(text) PROVE FileIInv'
  <2>1. /\ editing' = [NoEdit EXCEPT !.kind = "write", !.new = text] /\ file' = <<>>
        /\ tmpFile' = tmpFile /\ shownLines' = shownLines
    BY <1>2 DEF WriteStarts
  <2>2. /\ editing'.kind = "write" /\ editing'.new \in Seq(Tokens) /\ editing'.all \in BOOLEAN
        /\ DOMAIN editing' = {"kind", "old", "new", "all", "before"}
    BY <2>1
  <2> QED BY <1>1, <2>1, <2>2 DEF FileIInv, FileTypeOK, WholeIsWhole
<1>3. ASSUME NEW text \in Texts, NEW create \in BOOLEAN, AppendStarts(text, create) PROVE FileIInv'
  <2>1. PICK before : before = IF file = Absent THEN <<>> ELSE file
    OBVIOUS
  <2>2. before \in Seq(Tokens) /\ before \o text \in Seq(Tokens)
    BY <1>1, <2>1
  <2>3. /\ editing' = [NoEdit EXCEPT !.kind = "append", !.new = before \o text] /\ file' = before
        /\ tmpFile' = tmpFile /\ shownLines' = shownLines
    BY <1>3, <2>1 DEF AppendStarts
  <2>4. /\ editing'.kind = "append" /\ editing'.new \in Seq(Tokens) /\ editing'.all \in BOOLEAN
        /\ DOMAIN editing' = {"kind", "old", "new", "all", "before"}
    BY <2>2, <2>3
  <2> QED BY <1>1, <2>2, <2>3, <2>4 DEF FileIInv, FileTypeOK, WholeIsWhole
<1>4. ASSUME NEW old \in Texts, NEW new \in Texts, NEW all \in BOOLEAN, EditStarts(old, new, all)
      PROVE FileIInv'
  <2>1. PICK edited : edited = Edited(file, old, new, all)
    OBVIOUS
  <2>2. /\ editing.kind = "none" /\ file # Absent /\ old # <<>>
        /\ edited.count = 1 \/ edited.count > 1
        /\ tmpFile' = edited.text
        /\ editing' = [kind |-> "edit", old |-> old, new |-> new, all |-> all, before |-> file]
        /\ file' = file /\ shownLines' = shownLines
    BY <1>4, <2>1 DEF EditStarts
  <2>3. file \in Seq(Tokens) /\ old \in Seq(Tokens) /\ new \in Seq(Tokens)
    BY <1>1, <2>2
  <2>4. Edited(file, old, new, all).count = 1 \/ Edited(file, old, new, all).count > 1
    BY <2>1, <2>2
  <2>5. edited.text \in Seq(Tokens) /\ (all \/ Local(file, old, new, edited.text))
    BY <2>1, <2>2, <2>3, <2>4, EditFacts
  <2>6. /\ editing'.kind = "edit" /\ editing'.new = new /\ editing'.all = all
        /\ editing'.old = old /\ editing'.before = file
        /\ DOMAIN editing' = {"kind", "old", "new", "all", "before"}
    BY <2>2
  <2>7. FileTypeOK'
    BY <1>1, <2>2, <2>3, <2>5, <2>6 DEF FileTypeOK
  <2>8. WholeIsWhole'
    BY <1>1, <2>2 DEF WholeIsWhole
  <2>9. editing'.all \/ Local(editing'.before, editing'.old, editing'.new, tmpFile')
    BY <2>2, <2>5, <2>6
  <2> QED BY <2>2, <2>3, <2>6, <2>7, <2>8, <2>9 DEF FileIInv, Local
<1>5. CASE WriteEnds
  <2>1. file' = editing.new /\ editing' = NoEdit /\ tmpFile' = tmpFile /\ shownLines' = shownLines
    BY <1>5 DEF WriteEnds
  <2> QED BY <1>1, <2>1 DEF FileIInv, FileTypeOK, WholeIsWhole
<1>6. CASE EditEnds
  <2>1. file' \in {file, tmpFile} /\ editing' = NoEdit /\ tmpFile' = Absent /\ shownLines' = shownLines
    BY <1>6 DEF EditEnds
  <2> QED BY <1>1, <2>1 DEF FileIInv, FileTypeOK, WholeIsWhole
<1>7. CASE ProcessDies
  <2>1. file' = file /\ editing' = NoEdit /\ tmpFile' = tmpFile /\ shownLines' = shownLines
    BY <1>7 DEF ProcessDies
  <2> QED BY <1>1, <2>1 DEF FileIInv, FileTypeOK, WholeIsWhole
<1>8. ASSUME NEW ranges \in LineRanges, ReadFile(ranges) PROVE FileIInv'
  <2>1. PICK clamped : clamped = Clamped(ranges)
    OBVIOUS
  <2>2. /\ editing.kind = "none" /\ file # Absent
        /\ shownLines' = [lines |-> LinesOf(clamped), total |-> TotalLines,
                          partial |-> ~CoversFile(clamped)]
        /\ file' = file /\ editing' = editing /\ tmpFile' = tmpFile
    BY <1>8, <2>1 DEF ReadFile
  <2>3. /\ shownLines'.lines = LinesOf(clamped) /\ shownLines'.total = TotalLines
        /\ shownLines'.partial = ~CoversFile(clamped)
    BY <2>2
  <2>4. CoversFile(clamped) \in BOOLEAN
    BY DEF CoversFile
  <2>5. file \in Seq(Tokens)
    BY <1>1, <2>2
  <2>6. CoversFile(clamped) =>
          /\ Len(LinesOf(clamped)) = TotalLines
          /\ \A i \in DOMAIN LinesOf(clamped) : LinesOf(clamped)[i] = i
    BY <2>5, WholeFacts
  <2>7. WholeIsWhole'
    BY <2>3, <2>6 DEF WholeIsWhole
  <2> QED BY <1>1, <2>2, <2>3, <2>4, <2>7 DEF FileIInv, FileTypeOK
<1>9. CASE UNCHANGED fileVars
  <2>1. file' = file /\ editing' = editing /\ tmpFile' = tmpFile /\ shownLines' = shownLines
    BY <1>9 DEF fileVars
  <2> QED BY <1>1, <2>1 DEF FileIInv, FileTypeOK, WholeIsWhole, Local
<1> QED BY <1>2, <1>3, <1>4, <1>5, <1>6, <1>7, <1>8, <1>9 DEF FileNext

LEMMA FileImplies == FileIInv => FileTypeOK /\ EditIsLocal /\ WholeIsWhole
BY DEF FileIInv, EditIsLocal, Local

(* Whatever tools write and edit a file one after the other, an edit       *)
(* changes nothing but the text it was to change, and a part that is shown *)
(* is the whole if it says so.                                             *)
THEOREM EditsStayLocal == FileSpec => [](FileTypeOK /\ EditIsLocal /\ WholeIsWhole)
BY FileInitHolds, FileStepHolds, FileImplies, PTL DEF FileSpec

--------------------------------------------------------------------------------
(***************************************************************************)
(* tracing: a span is finished once, which of them are finished follows    *)
(* the phase, the round and the calls of the run.                          *)
(***************************************************************************)

Finishes ==
  /\ Root \in finished => trPhase = "ended"
  /\ ErrorSpan \in finished => trPhase \in {"told", "ended"}
  /\ \A n \in 1..TraceRounds : <<"llm_call", n>> \in finished =>
       n <= trRound /\ (trPhase = "llm" => n # trRound)
  /\ \A n \in 1..TraceRounds : <<"round_end", n>> \in finished =>
       n <= trRound /\ (trPhase \in {"llm", "tools"} => n # trRound)
  /\ \A c \in TraceCalls : <<"tool_call", c>> \in finished => callState[c] = "closed"
  /\ trPhase \in {"llm", "tools"} => trRound > 0
  /\ trPhase = "llm" => llmSpan = trRound

(* The spans a call or a round has finished are those of the place it is   *)
(* at, each once, and all of them are accounted for.                       *)
TraceIInv == /\ TraceTypeOK /\ IsFiniteSet(finished) /\ spans \in Seq(TraceSpans)
             /\ SpansAccounted /\ Finishes

LEMMA TraceFacts == TraceRounds \in Nat /\ QueueLimit \in Nat \ {0} /\ MaxSpans \in Nat \ {0}
BY TraceAssumption

LEMMA TraceInitHolds == TraceInit => TraceIInv
<1> SUFFICES ASSUME TraceInit PROVE TraceIInv
  OBVIOUS
<1>1. /\ trPhase = "new" /\ trRound = 0 /\ llmSpan = 0 /\ pending = {} /\ spans = <<>>
      /\ callState = [c \in TraceCalls |-> "new"] /\ finished = {}
      /\ stats = [stored |-> 0, dropped |-> 0, failed |-> 0]
  BY DEF TraceInit
<1>2. stats \in [{"stored", "dropped", "failed"} -> Nat]
      /\ stats.stored = 0 /\ stats.dropped = 0 /\ stats.failed = 0
  BY <1>1
<1>3. TraceTypeOK
  BY <1>1, <1>2, TraceFacts DEF TraceTypeOK
<1>4. IsFiniteSet({}) /\ Cardinality({}) = 0
  BY FS_EmptySet
<1>5. ToSet(spans) = {} /\ IsInjective(spans) /\ spans \in Seq(TraceSpans)
  BY <1>1 DEF ToSet, IsInjective
<1>6. SpansAccounted
  BY <1>1, <1>2, <1>4, <1>5 DEF SpansAccounted
<1>7. Finishes
  BY <1>1 DEF Finishes
<1> QED BY <1>1, <1>3, <1>4, <1>5, <1>6, <1>7 DEF TraceIInv

(* A span is finished for the first time: it is queued or counted.         *)
LEMMA FinishCounts ==
  ASSUME TraceIInv, NEW span \in TraceSpans \ finished, NEW error, Finish(span, error),
         UNCHANGED spans
  PROVE  /\ finished' = finished \cup {span} /\ IsFiniteSet(finished')
         /\ pending' \subseteq finished'
         /\ stats' \in [{"stored", "dropped", "failed"} -> Nat]
         /\ SpansAccounted'
<1>1. /\ IsFiniteSet(finished) /\ IsFiniteSet(pending) /\ span \notin pending
      /\ pending \subseteq finished /\ stats \in [{"stored", "dropped", "failed"} -> Nat]
  BY FS_Subset DEF TraceIInv, TraceTypeOK
<1>2. finished' = finished \cup {span}
  BY DEF Finish
<1>3. IsFiniteSet(finished') /\ Cardinality(finished') = Cardinality(finished) + 1
  BY <1>1, <1>2, FS_AddElement
<1>4. /\ Cardinality(finished) \in Nat /\ Cardinality(pending) \in Nat
      /\ Cardinality(pending \cup {span}) = Cardinality(pending) + 1
  BY <1>1, FS_CardinalityType, FS_AddElement
<1>5. /\ stats.stored \in Nat /\ stats.dropped \in Nat /\ stats.failed \in Nat
  BY <1>1
<1>6. Cardinality(finished) = stats.stored + stats.failed + stats.dropped + Cardinality(pending)
  BY DEF TraceIInv, SpansAccounted
<1>7. ToSet(spans') \subseteq finished' \ pending' /\ IsInjective(spans')
      /\ pending' \subseteq finished'
  <2>1. pending' \subseteq pending \cup {span} /\ ToSet(spans') = ToSet(spans)
    BY DEF Finish
  <2>2. ToSet(spans) \subseteq finished \ pending /\ IsInjective(spans')
    BY DEF TraceIInv, SpansAccounted
  <2> QED BY <1>1, <1>2, <2>1, <2>2
<1>8. CASE pending' = pending \cup {span} /\ stats' = stats
  <2>1. Cardinality(finished') = stats'.stored + stats'.failed + stats'.dropped + Cardinality(pending')
    BY <1>3, <1>4, <1>5, <1>6, <1>8
  <2> QED BY <1>1, <1>2, <1>3, <1>7, <1>8, <2>1 DEF SpansAccounted
<1>9. CASE pending' = pending /\ stats' = [stats EXCEPT !.dropped = @ + 1]
  <2>1. /\ stats' \in [{"stored", "dropped", "failed"} -> Nat] /\ stats'.dropped = stats.dropped + 1
        /\ stats'.stored = stats.stored /\ stats'.failed = stats.failed
    BY <1>1, <1>9
  <2>2. Cardinality(finished') = stats'.stored + stats'.failed + stats'.dropped + Cardinality(pending')
    BY <1>3, <1>4, <1>5, <1>6, <1>9, <2>1
  <2> QED BY <1>2, <1>3, <1>7, <2>1, <2>2 DEF SpansAccounted
<1> QED BY <1>8, <1>9 DEF Finish

(* A step that finishes nothing and saves nothing.                         *)
LEMMA NothingFinished ==
  ASSUME TraceIInv, UNCHANGED <<finished, pending, spans, stats>>
  PROVE  SpansAccounted' /\ IsFiniteSet(finished') /\ spans' \in Seq(TraceSpans)
         /\ finished' \subseteq TraceSpans /\ pending' \subseteq finished'
         /\ stats' \in [{"stored", "dropped", "failed"} -> Nat]
BY DEF TraceIInv, TraceTypeOK, SpansAccounted

LEMMA SpansAre ==
  /\ Root \in TraceSpans /\ ErrorSpan \in TraceSpans /\ Root # ErrorSpan
  /\ \A n \in 1..TraceRounds : /\ <<"llm_call", n>> \in TraceSpans \ {Root, ErrorSpan}
                               /\ <<"round_end", n>> \in TraceSpans \ {Root, ErrorSpan}
  /\ \A c \in TraceCalls : <<"tool_call", c>> \in TraceSpans \ {Root, ErrorSpan}
BY DEF Root, ErrorSpan, TraceSpans

LEMMA QuietHolds ==
  ASSUME TraceIInv, OnStart \/ PreLlmCall \/ LlmCallFails \/ \E c \in TraceCalls : PreToolCall(c)
  PROVE  TraceIInv'
<1>1. UNCHANGED <<finished, pending, spans, stats>>
  BY DEF OnStart, PreLlmCall, LlmCallFails, PreToolCall
<1>2. TraceTypeOK'
  BY <1>1, NothingFinished, TraceFacts
     DEF TraceIInv, TraceTypeOK, OnStart, PreLlmCall, LlmCallFails, PreToolCall
<1>3. Finishes'
  BY <1>1, TraceFacts DEF TraceIInv, TraceTypeOK, Finishes, OnStart, PreLlmCall, LlmCallFails, PreToolCall
<1> QED BY <1>1, <1>2, <1>3, NothingFinished DEF TraceIInv

LEMMA PostLlmHolds == ASSUME TraceIInv, PostLlmCall PROVE TraceIInv'
<1>1. /\ trRound \in 1..TraceRounds /\ llmSpan = trRound /\ trRound' = trRound /\ trPhase = "llm"
      /\ trPhase' \in {"error", "tools"} /\ llmSpan' \in 0..trRound
      /\ callState' = callState /\ spans' = spans
  <2>1. trRound \in 0..TraceRounds /\ llmSpan = trRound /\ trRound > 0 /\ trPhase = "llm"
    BY DEF TraceIInv, TraceTypeOK, Finishes, PostLlmCall
  <2>2. trRound \in 1..TraceRounds /\ 0 \in 0..trRound /\ trRound \in 0..trRound
    BY <2>1, TraceFacts
  <2>3. /\ trRound' = trRound /\ callState' = callState /\ spans' = spans
        /\ trPhase' \in {"error", "tools"} /\ llmSpan' \in {0, llmSpan}
    BY DEF PostLlmCall
  <2> QED BY <2>1, <2>2, <2>3
<1>2. PICK span : span = <<"llm_call", trRound>>
  OBVIOUS
<1>3. span \in TraceSpans \ finished /\ Finish(span, FALSE)
  BY <1>1, <1>2, SpansAre DEF TraceIInv, Finishes, PostLlmCall
<1>4. /\ finished' = finished \cup {span} /\ IsFiniteSet(finished') /\ pending' \subseteq finished'
      /\ stats' \in [{"stored", "dropped", "failed"} -> Nat] /\ SpansAccounted'
  BY <1>1, <1>3, FinishCounts
<1>5. TraceTypeOK'
  BY <1>1, <1>3, <1>4 DEF TraceIInv, TraceTypeOK
<1>6. Finishes'
  <2>1. span # Root /\ span # ErrorSpan /\ \A n \in 1..TraceRounds : span # <<"round_end", n>>
    BY <1>1, <1>2, SpansAre
  <2>2. \A c \in TraceCalls : span # <<"tool_call", c>>
    BY <1>2
  <2>3. \A n \in 1..TraceRounds : span = <<"llm_call", n>> => n = trRound
    BY <1>2
  <2> QED BY <1>1, <1>4, <2>1, <2>2, <2>3 DEF TraceIInv, Finishes
<1> QED BY <1>1, <1>4, <1>5, <1>6 DEF TraceIInv

LEMMA RoundEndHolds == ASSUME TraceIInv, OnRoundEnd PROVE TraceIInv'
<1>1. /\ trRound \in 1..TraceRounds /\ trRound' = trRound /\ trPhase = "tools"
      /\ trPhase' \in {"error", "round"} /\ llmSpan' = llmSpan
      /\ callState' = callState /\ spans' = spans
  BY TraceFacts DEF TraceIInv, TraceTypeOK, Finishes, OnRoundEnd
<1>2. PICK span : span = <<"round_end", trRound>>
  OBVIOUS
<1>3. span \in TraceSpans \ finished /\ Finish(span, FALSE)
  BY <1>1, <1>2, SpansAre DEF TraceIInv, Finishes, OnRoundEnd
<1>4. /\ finished' = finished \cup {span} /\ IsFiniteSet(finished') /\ pending' \subseteq finished'
      /\ stats' \in [{"stored", "dropped", "failed"} -> Nat] /\ SpansAccounted'
  BY <1>1, <1>3, FinishCounts
<1>5. TraceTypeOK'
  BY <1>1, <1>3, <1>4 DEF TraceIInv, TraceTypeOK
<1>6. Finishes'
  <2>1. span # Root /\ span # ErrorSpan /\ \A n \in 1..TraceRounds : span # <<"llm_call", n>>
    BY <1>1, <1>2, SpansAre
  <2>2. \A c \in TraceCalls : span # <<"tool_call", c>>
    BY <1>2
  <2>3. \A n \in 1..TraceRounds : span = <<"round_end", n>> => n = trRound
    BY <1>2
  <2> QED BY <1>1, <1>4, <2>1, <2>2, <2>3 DEF TraceIInv, Finishes
<1> QED BY <1>1, <1>4, <1>5, <1>6 DEF TraceIInv

LEMMA PostToolHolds ==
  ASSUME TraceIInv, NEW c \in TraceCalls, NEW error \in BOOLEAN, PostToolCall(c, error)
  PROVE  TraceIInv'
<1>1. /\ trRound' = trRound /\ trPhase' \in {"error", trPhase} /\ llmSpan' = llmSpan
      /\ (trPhase' # trPhase => trPhase = "tools")
      /\ callState[c] = "open" /\ callState' = [callState EXCEPT ![c] = "closed"] /\ spans' = spans
  BY DEF PostToolCall
<1>2. PICK span : span = <<"tool_call", c>>
  OBVIOUS
<1>3. span \in TraceSpans \ finished /\ Finish(span, error)
  BY <1>1, <1>2, SpansAre DEF TraceIInv, Finishes, PostToolCall
<1>4. /\ finished' = finished \cup {span} /\ IsFiniteSet(finished') /\ pending' \subseteq finished'
      /\ stats' \in [{"stored", "dropped", "failed"} -> Nat] /\ SpansAccounted'
  BY <1>1, <1>3, FinishCounts
<1>5. TraceTypeOK'
  BY <1>1, <1>3, <1>4 DEF TraceIInv, TraceTypeOK
<1>6. Finishes'
  <2>1. span # Root /\ span # ErrorSpan
    BY <1>2, SpansAre
  <2>2. \A n \in 1..TraceRounds : span # <<"llm_call", n>> /\ span # <<"round_end", n>>
    BY <1>2
  <2>3. \A d \in TraceCalls : span = <<"tool_call", d>> => d = c
    BY <1>2
  <2>4. callState'[c] = "closed" /\ \A d \in TraceCalls \ {c} : callState'[d] = callState[d]
    BY <1>1 DEF TraceIInv, TraceTypeOK
  <2> QED BY <1>1, <1>4, <2>1, <2>2, <2>3, <2>4 DEF TraceIInv, Finishes
<1> QED BY <1>1, <1>4, <1>5, <1>6 DEF TraceIInv

LEMMA EndsHold == ASSUME TraceIInv, OnError \/ OnEnd PROVE TraceIInv'
<1>1. PICK span, error : /\ span \in {Root, ErrorSpan} \ finished /\ Finish(span, error)
                         /\ span = ErrorSpan => trPhase' = "told"
                         /\ span = Root => trPhase' = "ended"
  BY SpansAre DEF TraceIInv, Finishes, OnError, OnEnd
<1>2. /\ trRound' = trRound /\ llmSpan' = llmSpan /\ spans' = spans
      /\ trPhase' \in {"told", "ended"} /\ (trPhase' = "told" => trPhase = "error")
      /\ callState' \in [TraceCalls -> {"new", "open", "closed", "dropped"}]
      /\ \A c \in TraceCalls : callState[c] = "closed" => callState'[c] = "closed"
  BY DEF TraceIInv, TraceTypeOK, OnError, OnEnd
<1>3. span \in TraceSpans \ finished
  BY <1>1, SpansAre
<1>4. /\ finished' = finished \cup {span} /\ IsFiniteSet(finished') /\ pending' \subseteq finished'
      /\ stats' \in [{"stored", "dropped", "failed"} -> Nat] /\ SpansAccounted'
  BY <1>1, <1>2, <1>3, FinishCounts
<1>5. TraceTypeOK'
  BY <1>2, <1>3, <1>4 DEF TraceIInv, TraceTypeOK
<1>6. Finishes'
  <2>1. /\ \A n \in 1..TraceRounds : span # <<"llm_call", n>> /\ span # <<"round_end", n>>
        /\ \A c \in TraceCalls : span # <<"tool_call", c>>
    BY <1>1, SpansAre
  <2>2. Root # ErrorSpan
    BY SpansAre
  <2> QED BY <1>1, <1>2, <1>4, <2>1, <2>2 DEF TraceIInv, Finishes
<1> QED BY <1>2, <1>4, <1>5, <1>6 DEF TraceIInv

(* The last of a sequence without repetition, and one more, do not repeat. *)
LEMMA SpanStored ==
  ASSUME NEW S, NEW s \in Seq(S), IsInjective(s), NEW x \in S \ ToSet(s), NEW max \in Nat \ {0}
  PROVE  LET t == LastN(Append(s, x), max) IN
         t \in Seq(S) /\ IsInjective(t) /\ ToSet(t) \subseteq ToSet(s) \cup {x}
<1>1. PICK a : a = Append(s, x)
  OBVIOUS
<1>2. /\ a \in Seq(S) /\ Len(a) = Len(s) + 1 /\ a[Len(s) + 1] = x /\ DOMAIN a = 1..(Len(s) + 1)
      /\ \A i \in 1..Len(s) : a[i] = s[i]
  BY <1>1, AppendProperties
<1>3. Len(s) \in Nat /\ DOMAIN s = 1..Len(s)
  OBVIOUS
<1>4. \A i \in DOMAIN a : a[i] \in ToSet(s) \cup {x}
  BY <1>2, <1>3 DEF ToSet
<1>5. \A i, j \in DOMAIN a : a[i] = a[j] => i = j
  <2> SUFFICES ASSUME NEW i \in 1..(Len(s) + 1), NEW j \in 1..(Len(s) + 1), a[i] = a[j], i # j
               PROVE  FALSE
    BY <1>2
  <2>1. CASE i \in 1..Len(s) /\ j \in 1..Len(s)
    BY <1>2, <1>3, <2>1 DEF IsInjective
  <2>2. CASE i = Len(s) + 1
    <3>1. j \in 1..Len(s)
      BY <1>3, <2>2
    <3> QED BY <1>2, <1>3, <2>2, <3>1 DEF ToSet
  <2>3. CASE j = Len(s) + 1
    <3>1. i \in 1..Len(s)
      BY <1>3, <2>3
    <3> QED BY <1>2, <1>3, <2>3, <3>1 DEF ToSet
  <2> QED BY <1>3, <2>1, <2>2, <2>3
<1>6. CASE Len(a) <= max
  <2>1. LastN(a, max) = a
    BY <1>2, <1>3, <1>6 DEF LastN
  <2>2. IsInjective(a) /\ ToSet(a) \subseteq ToSet(s) \cup {x}
    BY <1>4, <1>5 DEF IsInjective, ToSet
  <2> QED BY <1>1, <1>2, <2>1, <2>2
<1>7. CASE Len(a) > max
  <2> DEFINE m == Len(a) - max + 1
  <2>1. m \in 1..Len(a) /\ Len(a) \in Nat /\ Len(a) - m + 1 = max
    BY <1>2, <1>3, <1>7
  <2>2. PICK t : t = SubSeq(a, m, Len(a))
    OBVIOUS
  <2>3. /\ t \in Seq(S) /\ Len(t) = max
        /\ \A k \in 1..max : t[k] = a[m + k - 1]
    BY <1>2, <2>1, <2>2, SubSeqProperties
  <2>4. DOMAIN t = 1..max
    BY <2>3
  <2>5. \A k \in 1..max : m + k - 1 \in DOMAIN a
    BY <1>2, <1>3, <2>1
  <2>6. IsInjective(t)
    <3> SUFFICES ASSUME NEW i \in 1..max, NEW j \in 1..max, t[i] = t[j] PROVE i = j
      BY <2>4 DEF IsInjective
    <3>1. m + i - 1 = m + j - 1
      BY <1>5, <2>3, <2>5
    <3> QED BY <2>1, <3>1
  <2>7. ToSet(t) \subseteq ToSet(s) \cup {x}
    <3>1. \A k \in 1..max : t[k] \in ToSet(s) \cup {x}
      BY <1>4, <2>3, <2>5
    <3> QED BY <2>4, <3>1 DEF ToSet
  <2>8. LastN(a, max) = t
    BY <1>7, <2>2 DEF LastN
  <2> QED BY <1>1, <2>3, <2>6, <2>7, <2>8
<1> QED BY <1>2, <1>3, <1>6, <1>7

LEMMA SaveHolds ==
  ASSUME TraceIInv, NEW span \in pending, NEW ok \in BOOLEAN, SaveEnds(span, ok)
  PROVE  TraceIInv'
<1>1. /\ IsFiniteSet(finished) /\ IsFiniteSet(pending) /\ pending \subseteq finished
      /\ stats \in [{"stored", "dropped", "failed"} -> Nat] /\ span \in TraceSpans
      /\ finished \subseteq TraceSpans
  BY FS_Subset DEF TraceIInv, TraceTypeOK
<1>2. /\ pending' = pending \ {span} /\ finished' = finished
      /\ UNCHANGED <<trPhase, trRound, sampled, llmSpan, callState>>
  BY DEF SaveEnds
<1>3. Cardinality(pending) \in Nat /\ Cardinality(pending') = Cardinality(pending) - 1
      /\ Cardinality(pending') \in Nat
  BY <1>1, <1>2, FS_RemoveElement, FS_CardinalityType, FS_Subset
<1>4. /\ stats.stored \in Nat /\ stats.dropped \in Nat /\ stats.failed \in Nat
  BY <1>1
<1>5. Cardinality(finished) = stats.stored + stats.failed + stats.dropped + Cardinality(pending)
  BY DEF TraceIInv, SpansAccounted
<1>6. /\ stats' \in [{"stored", "dropped", "failed"} -> Nat] /\ stats'.dropped = stats.dropped
      /\ stats'.stored + stats'.failed = stats.stored + stats.failed + 1
      /\ stats'.stored \in Nat /\ stats'.failed \in Nat
  <2>1. CASE ok
    <3>1. stats' = [stats EXCEPT !.stored = @ + 1]
      BY <2>1 DEF SaveEnds
    <3>2. stats' \in [{"stored", "dropped", "failed"} -> Nat] /\ stats'.dropped = stats.dropped
          /\ stats'.stored = stats.stored + 1 /\ stats'.failed = stats.failed
      BY <1>1, <3>1
    <3> QED BY <1>4, <3>2
  <2>2. CASE ~ok
    <3>1. stats' = [stats EXCEPT !.failed = @ + 1]
      BY <2>2 DEF SaveEnds
    <3>2. stats' \in [{"stored", "dropped", "failed"} -> Nat] /\ stats'.dropped = stats.dropped
          /\ stats'.stored = stats.stored /\ stats'.failed = stats.failed + 1
      BY <1>1, <3>1
    <3> QED BY <1>4, <3>2
  <2> QED BY <2>1, <2>2
<1>7. /\ spans' \in Seq(TraceSpans) /\ IsInjective(spans')
      /\ ToSet(spans') \subseteq ToSet(spans) \cup {span}
  <2>1. spans \in Seq(TraceSpans) /\ IsInjective(spans) /\ span \in TraceSpans \ ToSet(spans)
    BY <1>1 DEF TraceIInv, SpansAccounted
  <2>2. CASE ok
    <3>1. spans' = LastN(Append(spans, span), MaxSpans)
      BY <2>2 DEF SaveEnds
    <3> QED BY <2>1, <3>1, SpanStored, TraceFacts
  <2>3. CASE ~ok
    <3>1. spans' = spans
      BY <2>3 DEF SaveEnds
    <3>2. ToSet(spans') = ToSet(spans)
      BY <3>1
    <3> QED BY <2>1, <3>1, <3>2
  <2> QED BY <2>2, <2>3
<1>8. ToSet(spans') \subseteq finished' \ pending'
  BY <1>1, <1>2, <1>7 DEF TraceIInv, SpansAccounted
<1>9. Cardinality(finished') = stats'.stored + stats'.failed + stats'.dropped + Cardinality(pending')
  BY <1>2, <1>3, <1>4, <1>5, <1>6
<1>10. SpansAccounted'
  BY <1>7, <1>8, <1>9 DEF SpansAccounted
<1>11. TraceTypeOK'
  BY <1>1, <1>2, <1>6 DEF TraceIInv, TraceTypeOK
<1>12. Finishes'
  BY <1>2 DEF TraceIInv, Finishes
<1> QED BY <1>1, <1>2, <1>7, <1>10, <1>11, <1>12 DEF TraceIInv

LEMMA TraceStepHolds == ASSUME TraceIInv, [TraceNext]_trVars PROVE TraceIInv'
<1>1. CASE TraceNext
  BY <1>1, QuietHolds, PostLlmHolds, RoundEndHolds, PostToolHolds, EndsHold, SaveHolds
     DEF TraceNext
<1>2. CASE UNCHANGED trVars
  <2>1. UNCHANGED <<finished, pending, spans, stats>>
    BY <1>2 DEF trVars
  <2>2. TraceTypeOK' /\ Finishes'
    BY <1>2 DEF trVars, TraceIInv, TraceTypeOK, Finishes
  <2> QED BY <2>1, <2>2, NothingFinished DEF TraceIInv
<1> QED BY <1>1, <1>2

(* Every span that is finished is stored, failed, dropped or still to be   *)
(* saved, and counted so, and no span is stored twice, whatever the queue  *)
(* refuses and in whichever order saves and tool calls end.                *)
THEOREM SpansStayAccounted == TraceSpec => [](TraceTypeOK /\ SpansAccounted)
<1>1. TraceIInv /\ [TraceNext]_trVars => TraceIInv'
  BY TraceStepHolds
<1>2. TraceIInv => TraceTypeOK /\ SpansAccounted
  BY DEF TraceIInv
<1> QED BY <1>1, <1>2, TraceInitHolds, PTL DEF TraceSpec

--------------------------------------------------------------------------------
(***************************************************************************)
(* window: what an LLM call sees of a conversation.                        *)
(***************************************************************************)

(* The results of one answer are of one kind, and none of them is empty.   *)
ResultsAlike == "empty" \notin ResultKinds /\ ~MixedResults

(* An answer with calls is followed by their results, and results follow   *)
(* their answers only.                                                     *)
AnswerOK(c, i) ==
  c[i].calls > 0 =>
    /\ c[i].role = "assistant" /\ i + c[i].calls <= Len(c)
    /\ \A j \in (i + 1)..(i + c[i].calls) :
         c[j].role = "tool" /\ c[j].of = i /\ c[j].kind = c[i + 1].kind
ResultOK(c, i) ==
  /\ c[i].role = "tool" =>
       /\ c[i].of \in 1..Len(c) /\ c[c[i].of].calls > 0
       /\ i \in (c[i].of + 1)..(c[i].of + c[c[i].of].calls)
  /\ c[i].kind = "durable" => c[i].role = "tool"

(* Every answer is followed by the results of all its calls, and a result  *)
(* belongs to an answer before it.                                         *)
ChatIInv ==
  /\ chat \in Seq([role : {"system", "user", "assistant", "tool"}, calls : Nat, of : Nat,
                   kind : {"plain", "durable"}, tokens : Nat])
  /\ \A i \in 1..Len(chat) : AnswerOK(chat, i) /\ ResultOK(chat, i)

LEMMA ChatInitHolds == ContextInit => ChatIInv
BY DEF ContextInit, ChatIInv, AnswerOK, ResultOK, Message

(* One message without calls that is no result.                            *)
LEMMA OneMoreMessage ==
  ASSUME ChatIInv, NEW role \in {"user", "assistant"}, NEW t \in Nat,
         chat' = Append(chat, Message(role, 0, 0, "plain", t))
  PROVE  ChatIInv'
<1> DEFINE M == [role : {"system", "user", "assistant", "tool"}, calls : Nat, of : Nat,
                 kind : {"plain", "durable"}, tokens : Nat]
<1>1. PICK m : m = Message(role, 0, 0, "plain", t)
  OBVIOUS
<1>2. /\ m \in M
      /\ m.calls = 0 /\ m.role # "tool" /\ m.kind = "plain"
  BY <1>1 DEF Message
<1>3. chat \in Seq(M) /\ chat' = Append(chat, m)
  BY <1>1 DEF ChatIInv
<1> HIDE DEF M
<1>4. /\ chat' \in Seq(M) /\ Len(chat') = Len(chat) + 1 /\ Len(chat) \in Nat
      /\ \A i \in 1..Len(chat) : chat'[i] = chat[i]
      /\ chat'[Len(chat) + 1] = m
  BY <1>2, <1>3
<1>5. ASSUME NEW i \in 1..Len(chat')
      PROVE  AnswerOK(chat', i) /\ ResultOK(chat', i)
  <2>1. CASE i = Len(chat) + 1
    BY <1>2, <1>4, <2>1 DEF AnswerOK, ResultOK
  <2>2. CASE i \in 1..Len(chat)
    <3>1. AnswerOK(chat, i) /\ ResultOK(chat, i) /\ chat'[i] = chat[i] /\ chat[i] \in M
      BY <1>3, <1>4, <2>2 DEF ChatIInv
    <3>2. AnswerOK(chat', i)
      <4>1. SUFFICES ASSUME chat[i].calls > 0 PROVE AnswerOK(chat', i)
        BY <3>1 DEF AnswerOK
      <4>2. chat[i].calls \in Nat
        BY <3>1 DEF M
      <4>3. /\ chat[i].role = "assistant" /\ i + chat[i].calls <= Len(chat)
            /\ \A j \in (i + 1)..(i + chat[i].calls) :
                 chat[j].role = "tool" /\ chat[j].of = i /\ chat[j].kind = chat[i + 1].kind
        BY <3>1, <4>1 DEF AnswerOK
      <4>4. \A j \in (i + 1)..(i + chat[i].calls) : chat'[j] = chat[j]
        BY <1>4, <2>2, <4>2, <4>3
      <4>5. chat'[i + 1] = chat[i + 1]
        BY <4>1, <4>2, <4>4, <2>2
      <4> QED BY <1>4, <3>1, <4>3, <4>4, <4>5, <4>2, <2>2 DEF AnswerOK
    <3>3. ResultOK(chat', i)
      BY <1>4, <3>1 DEF ResultOK
    <3> QED BY <3>2, <3>3
  <2> QED BY <1>4, <2>1, <2>2
<1> QED BY <1>4, <1>5 DEF ChatIInv, M

(* An answer and the results of its calls.                                 *)
LEMMA MoreCalls ==
  ASSUME ChatIInv, NEW n \in Nat \ {0}, NEW t \in Nat, NEW kind \in {"plain", "durable"},
         chat' = Append(chat, Message("assistant", n, 0, "plain", t))
                 \o [i \in 1..n |-> Message("tool", 0, Len(chat) + 1, kind, t)]
  PROVE  ChatIInv'
<1> DEFINE M == [role : {"system", "user", "assistant", "tool"}, calls : Nat, of : Nat,
                 kind : {"plain", "durable"}, tokens : Nat]
           L == Len(chat)
           m == Message("assistant", n, 0, "plain", t)
           r == Message("tool", 0, L + 1, kind, t)
           R == [i \in 1..n |-> r]
<1>1. chat \in Seq(M) /\ L \in Nat
  BY DEF ChatIInv
<1>2. /\ m \in M /\ m.calls = n /\ m.role = "assistant" /\ m.kind = "plain"
      /\ r \in M /\ r.calls = 0 /\ r.role = "tool" /\ r.of = L + 1 /\ r.kind = kind
  BY <1>1 DEF Message
<1> HIDE DEF M, m, r
<1>3. R \in Seq(M) /\ Len(R) = n /\ \A i \in 1..n : R[i] = r
  BY <1>2
<1>4. Append(chat, m) \in Seq(M) /\ Len(Append(chat, m)) = L + 1
      /\ (\A i \in 1..L : Append(chat, m)[i] = chat[i]) /\ Append(chat, m)[L + 1] = m
  BY <1>1, <1>2
<1>5. chat' = Append(chat, m) \o R
  BY DEF m, r
<1> HIDE DEF R, L
<1>6. /\ chat' \in Seq(M) /\ Len(chat') = L + 1 + n
      /\ \A i \in 1..L : chat'[i] = chat[i]
      /\ chat'[L + 1] = m
      /\ \A i \in (L + 2)..(L + 1 + n) : chat'[i] = r
  <2>1. PICK a : a = Append(chat, m)
    OBVIOUS
  <2>2. a \in Seq(M) /\ Len(a) = L + 1 /\ (\A i \in 1..L : a[i] = chat[i]) /\ a[L + 1] = m
        /\ chat' = a \o R
    BY <1>4, <1>5, <2>1
  <2>3. a \o R \in Seq(M) /\ Len(a \o R) = L + 1 + n
        /\ \A i \in 1..(L + 1 + n) : (a \o R)[i] = IF i <= L + 1 THEN a[i] ELSE R[i - (L + 1)]
    <3>1. /\ a \o R \in Seq(M) /\ Len(a \o R) = Len(a) + Len(R)
          /\ \A i \in 1..(Len(a) + Len(R)) :
               (a \o R)[i] = IF i <= Len(a) THEN a[i] ELSE R[i - Len(a)]
      BY <2>2, <1>3, ConcatProperties
    <3> QED BY <3>1, <2>2, <1>3
  <2>4. /\ \A i \in 1..(L + 1 + n) : chat'[i] = IF i <= L + 1 THEN a[i] ELSE R[i - (L + 1)]
        /\ chat' \in Seq(M) /\ Len(chat') = L + 1 + n
    BY <2>2, <2>3
  <2>5. /\ \A i \in 1..L : chat'[i] = chat[i]
        /\ chat'[L + 1] = m
    BY <2>4, <2>2, <1>1
  <2>6. ASSUME NEW i \in (L + 2)..(L + 1 + n) PROVE chat'[i] = r
    <3>1. i \in Int /\ i >= L + 2 /\ i <= L + 1 + n /\ n \in Nat /\ L \in Nat
      BY <1>1
    <3>2. i \in 1..(L + 1 + n) /\ ~(i <= L + 1)
      BY <3>1
    <3>3. i - (L + 1) \in 1..n
      BY <3>1
    <3> QED BY <3>2, <3>3, <2>4, <1>3
  <2> QED BY <2>4, <2>5, <2>6
<1>7. ASSUME NEW i \in 1..Len(chat')
      PROVE  AnswerOK(chat', i) /\ ResultOK(chat', i)
  <2>1. CASE i \in 1..L
    <3>1. AnswerOK(chat, i) /\ ResultOK(chat, i) /\ chat'[i] = chat[i] /\ chat[i] \in M
      BY SMTT(40), <1>1, <1>6, <2>1 DEF ChatIInv, L
    <3>2. AnswerOK(chat', i)
      <4>1. SUFFICES ASSUME chat[i].calls > 0 PROVE AnswerOK(chat', i)
        BY <3>1 DEF AnswerOK
      <4>2. chat[i].calls \in Nat
        BY <3>1 DEF M
      <4>3. /\ chat[i].role = "assistant" /\ i + chat[i].calls <= L
            /\ \A j \in (i + 1)..(i + chat[i].calls) :
                 chat[j].role = "tool" /\ chat[j].of = i /\ chat[j].kind = chat[i + 1].kind
        BY <3>1, <4>1 DEF AnswerOK, L
      <4>4. \A j \in (i + 1)..(i + chat[i].calls) : chat'[j] = chat[j]
        BY <1>1, <1>6, <2>1, <4>2, <4>3
      <4>5. chat'[i + 1] = chat[i + 1]
        <5>1. i \in Nat /\ i + 1 \in (i + 1)..(i + chat[i].calls)
          BY <4>1, <4>2, <2>1, <1>1
        <5> QED BY <4>4, <5>1
      <4>6. i + chat'[i].calls <= Len(chat') /\ chat'[i].role = "assistant"
        BY <1>1, <1>6, <3>1, <4>3, <4>2, <2>1
      <4>7. \A j \in (i + 1)..(i + chat'[i].calls) :
              chat'[j].role = "tool" /\ chat'[j].of = i /\ chat'[j].kind = chat'[i + 1].kind
        BY <3>1, <4>3, <4>4, <4>5
      <4> QED BY <4>6, <4>7 DEF AnswerOK
    <3>3. ResultOK(chat', i)
      <4>1. CASE chat[i].role = "tool"
        <5>1. /\ chat[i].of \in 1..L /\ chat[chat[i].of].calls > 0
              /\ i \in (chat[i].of + 1)..(chat[i].of + chat[chat[i].of].calls)
          BY <3>1, <4>1 DEF ResultOK, L
        <5>2. chat'[chat[i].of] = chat[chat[i].of] /\ chat[i].of \in 1..Len(chat')
          BY <1>1, <1>6, <5>1
        <5> QED BY <3>1, <4>1, <5>1, <5>2 DEF ResultOK
      <4>2. CASE chat[i].role # "tool"
        BY <3>1, <4>2 DEF ResultOK
      <4> QED BY <4>1, <4>2
    <3> QED BY <3>2, <3>3
  <2>2. CASE i = L + 1
    <3>1. \A j \in (L + 2)..(L + 1 + n) :
            chat'[j].role = "tool" /\ chat'[j].of = L + 1 /\ chat'[j].kind = kind
      BY <1>2, <1>6
    <3>2. chat'[L + 2].kind = kind
      <4>1. L + 2 \in (L + 2)..(L + 1 + n)
        BY <1>1
      <4> QED BY <3>1, <4>1
    <3>3. AnswerOK(chat', L + 1)
      <4>1. chat'[L + 1].calls = n /\ chat'[L + 1].role = "assistant"
        BY <1>2, <1>6
      <4>2. L + 1 + n <= Len(chat') /\ (L + 1) + 1 = L + 2
        BY <1>1, <1>6
      <4> QED BY <3>1, <3>2, <4>1, <4>2 DEF AnswerOK
    <3>4. ResultOK(chat', L + 1)
      BY <1>2, <1>6 DEF ResultOK
    <3> QED BY <2>2, <3>3, <3>4
  <2>3. CASE i \in (L + 2)..(L + 1 + n)
    <3>1. chat'[i] = r /\ chat'[L + 1] = m
      BY <1>6, <2>3
    <3>2. AnswerOK(chat', i)
      BY <3>1, <1>2 DEF AnswerOK
    <3>3. ResultOK(chat', i)
      <4>1. chat'[i].of = L + 1 /\ chat'[i].role = "tool" /\ chat'[L + 1].calls = n
        BY <3>1, <1>2
      <4>2. L + 1 \in 1..Len(chat') /\ n > 0 /\ i \in ((L + 1) + 1)..((L + 1) + n)
        BY <1>1, <1>6, <2>3
      <4> QED BY <4>1, <4>2 DEF ResultOK
    <3> QED BY <3>2, <3>3
  <2> QED BY <1>1, <1>6, <2>1, <2>2, <2>3
<1> QED BY <1>6, <1>7 DEF ChatIInv, M

LEMMA ChatStepHolds == ResultsAlike /\ ChatIInv /\ [ContextNext]_chat => ChatIInv'
<1> SUFFICES ASSUME ResultsAlike, ChatIInv, [ContextNext]_chat PROVE ChatIInv'
  OBVIOUS
<1>1. TokenCounts \subseteq Nat /\ ResultKinds \subseteq {"plain", "durable"} /\ ChatCalls \subseteq Nat \ {0}
  BY ContextWindowAssumption DEF ResultsAlike
<1>2. CASE UserSays
  BY <1>1, <1>2, OneMoreMessage DEF UserSays
<1>3. CASE TurnAnswered
  BY <1>1, <1>3, OneMoreMessage DEF TurnAnswered
<1>4. CASE AnswerCalls
  <2>1. PICK n \in ChatCalls, t \in TokenCounts : \E kinds \in [1..n -> ResultKinds] :
          /\ MixedResults \/ \A i, j \in 1..n : kinds[i] = kinds[j]
          /\ chat' = Append(chat, Message("assistant", n, 0, "plain", t))
                     \o [i \in 1..n |-> Message("tool", 0, Len(chat) + 1, kinds[i], t)]
    BY <1>4 DEF AnswerCalls
  <2>2. PICK kinds \in [1..n -> ResultKinds] :
          /\ MixedResults \/ \A i, j \in 1..n : kinds[i] = kinds[j]
          /\ chat' = Append(chat, Message("assistant", n, 0, "plain", t))
                     \o [i \in 1..n |-> Message("tool", 0, Len(chat) + 1, kinds[i], t)]
    BY <2>1, Zenon
  <2>3. n \in Nat \ {0} /\ t \in Nat
    BY <1>1
  <2>4. kinds[1] \in {"plain", "durable"} /\ \A i \in 1..n : kinds[i] = kinds[1]
    <3>1. 1 \in 1..n
      BY <2>3
    <3>2. \A i, j \in 1..n : kinds[i] = kinds[j]
      BY <2>2 DEF ResultsAlike
    <3>3. kinds[1] \in ResultKinds
      BY <3>1
    <3> QED BY <1>1, <3>1, <3>2, <3>3
  <2>5. [i \in 1..n |-> Message("tool", 0, Len(chat) + 1, kinds[i], t)]
        = [i \in 1..n |-> Message("tool", 0, Len(chat) + 1, kinds[1], t)]
    BY <2>4
  <2> QED BY ZenonT(40), <2>2, <2>3, <2>4, <2>5, MoreCalls
<1>5. CASE UNCHANGED chat
  BY <1>5 DEF ChatIInv
<1> QED BY <1>2, <1>3, <1>4, <1>5 DEF ContextNext

--------------------------------------------------------------------------------
(* The calls of answer i with their results.                               *)
AnswerOf(i) == i..(i + chat[i].calls)

LEMMA ChatFacts ==
  ASSUME ChatIInv
  PROVE  /\ Len(chat) \in Nat /\ DOMAIN chat = 1..Len(chat)
         /\ \A i \in DOMAIN chat :
              /\ chat[i].calls \in Nat /\ chat[i].of \in Nat
              /\ AnswerOK(chat, i) /\ ResultOK(chat, i)
         /\ NormalizedHistory = DOMAIN chat
<1> DEFINE M == [role : {"system", "user", "assistant", "tool"}, calls : Nat, of : Nat,
                 kind : {"plain", "durable"}, tokens : Nat]
<1>1. chat \in Seq(M) /\ \A i \in 1..Len(chat) : AnswerOK(chat, i) /\ ResultOK(chat, i)
  BY DEF ChatIInv
<1>2. Len(chat) \in Nat /\ DOMAIN chat = 1..Len(chat) /\ \A i \in DOMAIN chat : chat[i] \in M
  <2> HIDE DEF M
  <2>1. chat \in Seq(M)
    BY <1>1
  <2>2. Len(chat) \in Nat /\ DOMAIN chat = 1..Len(chat)
    BY <2>1
  <2>3. \A i \in 1..Len(chat) : chat[i] \in M
    BY <2>1
  <2> QED BY <2>2, <2>3
<1>3. \A i \in DOMAIN chat : chat[i].calls \in Nat /\ chat[i].of \in Nat /\ chat[i].kind # "empty"
  BY <1>2
<1> HIDE DEF M
<1>4. NormalizedHistory = DOMAIN chat
  BY <1>3 DEF NormalizedHistory
<1> QED BY <1>1, <1>2, <1>3, <1>4

LEMMA CallsFacts ==
  ASSUME ChatIInv, NEW i \in DOMAIN chat, chat[i].calls > 0
  PROVE  /\ chat[i].role = "assistant" /\ chat[i].kind # "durable"
         /\ AnswerOf(i) \subseteq DOMAIN chat /\ ResultsOf(i) = AnswerOf(i) \ {i} /\ i \in AnswerOf(i)
         /\ \A j \in AnswerOf(i) \ {i} :
              chat[j].role = "tool" /\ chat[j].of = i /\ chat[j].kind = chat[i + 1].kind
         /\ \A j \in AnswerOf(i) : chat[j].role \notin {"system", "user"}
         /\ \A j \in AnswerOf(i) : RoundOf(j) = RoundOf(i)
<1>1. /\ Len(chat) \in Nat /\ DOMAIN chat = 1..Len(chat) /\ chat[i].calls \in Nat /\ i \in Nat
      /\ AnswerOK(chat, i) /\ ResultOK(chat, i) /\ NormalizedHistory = DOMAIN chat
  BY ChatFacts
<1>2. /\ chat[i].role = "assistant" /\ i + chat[i].calls <= Len(chat)
      /\ \A j \in (i + 1)..(i + chat[i].calls) :
           chat[j].role = "tool" /\ chat[j].of = i /\ chat[j].kind = chat[i + 1].kind
  BY <1>1 DEF AnswerOK
<1>3. chat[i].kind # "durable"
  BY <1>1, <1>2 DEF ResultOK
<1>4. AnswerOf(i) \ {i} = (i + 1)..(i + chat[i].calls) /\ i \in AnswerOf(i)
  BY <1>1 DEF AnswerOf
<1>5. AnswerOf(i) \subseteq DOMAIN chat
  BY <1>1, <1>2 DEF AnswerOf
<1>6. ResultsOf(i) = AnswerOf(i) \ {i}
  BY <1>1, <1>2, <1>4 DEF ResultsOf
<1>7. \A j \in AnswerOf(i) : chat[j].role \notin {"system", "user"}
  BY <1>2, <1>4
<1>8. ASSUME NEW j \in AnswerOf(i) PROVE RoundOf(j) = RoundOf(i)
  <2>1. j \in Nat /\ j >= i /\ i >= 1
    BY <1>1 DEF AnswerOf
  <2>2. \A k \in 1..j : k > i => k \in AnswerOf(i)
    BY <1>1, <2>1 DEF AnswerOf
  <2>3. {k \in 1..j : chat[k].role = "user"} = {k \in 1..i : chat[k].role = "user"}
    <3>1. \A k \in 1..i : k \in 1..j
      BY <1>1, <2>1
    <3>2. \A k \in 1..j : chat[k].role = "user" => k \in 1..i
      BY <1>1, <2>1, <2>2, <1>7
    <3> QED BY <3>1, <3>2
  <2> QED BY <2>3 DEF RoundOf
<1> QED BY <1>2, <1>3, <1>4, <1>5, <1>6, <1>7, <1>8

(* What is kept for an answer's sake is its calls with their results.      *)
LEMMA PairedIsWhole ==
  ASSUME ChatIInv, NEW K, K \subseteq DOMAIN chat, NEW i \in DOMAIN chat, chat[i].calls > 0,
         AnswerOf(i) \cap K # {} => i \in K \/ AnswerOf(i) \ {i} \subseteq K
  PROVE  AnswerOf(i) \subseteq Paired(K) \/ AnswerOf(i) \cap Paired(K) = {}
<1>1. /\ NormalizedHistory = DOMAIN chat /\ ResultsOf(i) = AnswerOf(i) \ {i} /\ i \in AnswerOf(i)
      /\ AnswerOf(i) \subseteq DOMAIN chat
      /\ chat[i].role = "assistant"
      /\ \A j \in AnswerOf(i) \ {i} : chat[j].role = "tool" /\ chat[j].of = i
  BY ChatFacts, CallsFacts
<1> DEFINE paired(k) ==
      {j \in {k} \cup ResultsOf(k) : k \in K \/ \E l \in ResultsOf(k) \cap K : j = k \/ l <= j}
<1>2. Paired(K) = K \cup UNION {paired(k) : k \in DOMAIN chat}
  BY <1>1 DEF Paired
<1>3. CASE AnswerOf(i) \cap K # {}
  <2>1. CASE i \in K
    <3>1. paired(i) = AnswerOf(i)
      BY <1>1, <2>1
    <3> QED BY <1>2, <3>1
  <2>2. CASE AnswerOf(i) \ {i} \subseteq K /\ i \notin K
    <3>1. PICK l \in AnswerOf(i) \ {i} : TRUE
      BY <1>3, <2>2
    <3>2. i \in paired(i)
      BY <1>1, <2>2, <3>1
    <3> QED BY <1>2, <2>2, <3>2
  <2> QED BY <1>3, <2>1, <2>2
<1>4. CASE AnswerOf(i) \cap K = {}
  <2>1. ASSUME NEW x \in AnswerOf(i), x \in Paired(K) PROVE FALSE
    <3>1. PICK k \in DOMAIN chat : x \in paired(k)
      BY <1>2, <1>4, <2>1
    <3>2. k \in K \/ ResultsOf(k) \cap K # {}
      BY <3>1
    <3>3. CASE x = k
      <4>1. k \notin K
        BY <1>4, <2>1, <3>3
      <4>2. PICK l \in ResultsOf(k) \cap K : TRUE
        BY <3>2, <4>1
      <4>3. k = i
        <5>1. l \in Nat /\ k \in Nat /\ chat[k].calls \in Nat /\ l > k /\ l <= k + chat[k].calls
          BY <4>2, ChatFacts DEF ResultsOf
        <5>2. chat[k].calls > 0
          BY <5>1
        <5>3. chat[k].role = "assistant"
          BY <5>2, CallsFacts
        <5> QED BY <1>1, <3>3, <5>3
      <4> QED BY <1>1, <1>4, <4>2, <4>3
    <3>4. CASE x \in ResultsOf(k)
      <4>1. x \in Nat /\ k \in Nat /\ chat[k].calls \in Nat /\ x > k /\ x <= k + chat[k].calls
        BY <3>4, ChatFacts DEF ResultsOf
      <4>2. chat[k].calls > 0
        BY <4>1
      <4>3. chat[x].role = "tool" /\ chat[x].of = k
        BY <3>4, <4>2, CallsFacts
      <4>4. k = i
        BY <1>1, <4>3
      <4> QED BY <1>1, <1>4, <3>2, <4>4
    <3> QED BY <3>1, <3>3, <3>4
  <2> QED BY <2>1
<1> QED BY <1>3, <1>4

LEMMA RecentIsWhole ==
  ASSUME ChatIInv, NEW i \in DOMAIN chat, chat[i].calls > 0
  PROVE  AnswerOf(i) \subseteq Recent \/ AnswerOf(i) \cap Recent = {}
<1> DEFINE systems == {j \in NormalizedHistory : chat[j].role = "system"}
           maxRound == Cardinality({j \in NormalizedHistory : chat[j].role = "user"})
           cutoff == IF maxRound - RecentRounds + 1 > 1 THEN maxRound - RecentRounds + 1 ELSE 1
           durable == {j \in NormalizedHistory : chat[j].kind = "durable"}
           newest == {j \in NormalizedHistory : RoundOf(j) >= cutoff}
           K == systems \cup newest \cup durable
<1>1. Recent = IF RecentRounds = 0 THEN systems ELSE Paired(K)
  BY DEF Recent
<1>2. /\ NormalizedHistory = DOMAIN chat /\ i \in AnswerOf(i)
      /\ AnswerOf(i) \subseteq DOMAIN chat /\ chat[i].kind # "durable"
      /\ \A j \in AnswerOf(i) \ {i} : chat[j].kind = chat[i + 1].kind
      /\ \A j \in AnswerOf(i) : chat[j].role \notin {"system", "user"}
      /\ \A j \in AnswerOf(i) : RoundOf(j) = RoundOf(i)
  BY ChatFacts, CallsFacts
<1>3. AnswerOf(i) \cap systems = {}
  BY <1>2
<1>4. AnswerOf(i) \cap newest # {} => i \in newest
  <2>1. PICK c : c = cutoff
    OBVIOUS
  <2> HIDE DEF cutoff
  <2> QED BY <1>2, <2>1
<1>5. AnswerOf(i) \cap durable # {} => AnswerOf(i) \ {i} \subseteq durable
  BY <1>2
<1>6. K \subseteq DOMAIN chat
  BY <1>2
<1>7. AnswerOf(i) \cap K # {} => i \in K \/ AnswerOf(i) \ {i} \subseteq K
  <2> HIDE DEF systems, newest, durable
  <2> QED BY <1>3, <1>4, <1>5
<1> HIDE DEF K, systems
<1>8. CASE RecentRounds = 0
  BY <1>1, <1>3, <1>8
<1>9. CASE RecentRounds # 0
  BY <1>1, <1>6, <1>7, <1>9, PairedIsWhole
<1> QED BY <1>8, <1>9

LEMMA RecentIsChat == ASSUME ChatIInv PROVE Recent \subseteq DOMAIN chat
<1>1. NormalizedHistory = DOMAIN chat
  BY ChatFacts
<1>2. \A i \in NormalizedHistory : ResultsOf(i) \subseteq NormalizedHistory
  BY DEF ResultsOf
<1>3. \A K : K \subseteq NormalizedHistory => Paired(K) \subseteq NormalizedHistory
  BY <1>2 DEF Paired
<1> QED BY <1>1, <1>3 DEF Recent

(* Whatever groups are selected, they are sent whole.                      *)
LEMMA ChatImplies == ChatIInv => ContextTypeOK /\ CallsAreAnswered
<1> SUFFICES ASSUME ChatIInv PROVE ContextTypeOK /\ CallsAreAnswered
  OBVIOUS
<1>1. PICK S, G : S = Recent /\ G = Selected(S)
  OBVIOUS
<1>2. Sent = {i \in S : GroupOf(S, i) \in G}
  BY <1>1 DEF Sent
<1>3. Sent \subseteq DOMAIN chat
  BY <1>1, <1>2, RecentIsChat
<1>4. \A i \in DOMAIN chat : chat[i].role = "tool" => chat[chat[i].of].calls > 0
  BY ChatFacts DEF ResultOK
<1>5. ASSUME NEW i \in DOMAIN chat, chat[i].calls > 0
      PROVE  AnswerOf(i) \subseteq Sent \/ AnswerOf(i) \cap Sent = {}
  <2>1. AnswerOf(i) \subseteq S \/ AnswerOf(i) \cap S = {}
    BY <1>1, <1>5, RecentIsWhole
  <2>2. CASE AnswerOf(i) \cap S = {}
    BY <1>2, <2>2
  <2>3. CASE AnswerOf(i) \subseteq S
    <3>1. /\ i \in AnswerOf(i) /\ chat[i].role = "assistant"
          /\ \A j \in AnswerOf(i) \ {i} : chat[j].role = "tool" /\ chat[j].of = i
      BY <1>5, CallsFacts
    <3>2. \A j \in AnswerOf(i) : GroupOf(S, j) = i
      BY <2>3, <3>1 DEF GroupOf
    <3> QED BY <1>2, <2>3, <3>2
  <2> QED BY <2>1, <2>2, <2>3
<1>6. CallsAreAnswered
  BY <1>5 DEF CallsAreAnswered, AnswerOf
<1> QED BY <1>3, <1>4, <1>6 DEF ContextTypeOK

(* Whatever is dropped from the window of messages, a result stays with    *)
(* its call and a call with all its results, if no round mixes results to  *)
(* be kept with others or answers with nothing.                            *)
THEOREM CallsStayAnswered ==
  ASSUME ResultsAlike
  PROVE  ContextSpec => [](ContextTypeOK /\ CallsAreAnswered)
<1>1. ChatIInv /\ [ContextNext]_chat => ChatIInv'
  BY ChatStepHolds
<1> QED BY <1>1, ChatInitHolds, ChatImplies, PTL DEF ContextSpec

--------------------------------------------------------------------------------
(***************************************************************************)
(* compress: what the plugin of one conversation remembers, in memory and  *)
(* in the boundary it has saved.                                           *)
(***************************************************************************)

OneTalk == \A t, u \in Talks : t = u

(* A summary, a buffer and durable results of the first n items, which     *)
(* keep what was saved.                                                    *)
RememberedOK(t, n, s, b, d, saved) ==
  /\ s \subseteq {t} \X (1..n) /\ b \in Seq({t} \X (1..n)) /\ d \in Seq({t} \X (1..n))
  /\ DurableKeep > 0 => Len(d) <= DurableKeep
  /\ Covers(s, b, saved)

TalkOK(t) ==
  /\ RememberedOK(t, itemCount[t], boundary[t].summary, boundary[t].buffer,
                  boundary[t].durables, savedItems[t])
  /\ boundary[t].rounds \in Nat
  /\ t \in loadedTalks => RememberedOK(t, itemCount[t], summary, itemBuffer, durables, savedItems[t])
  /\ t \notin loadedTalks => summary = {} /\ itemBuffer = <<>> /\ durables = <<>> /\ talkPhase[t] = "idle"
  /\ summarizer.content # {} => summary # {}
  /\ talkPhase[t] = "running" => itemCount[t] < MaxItems
  /\ talkPhase[t] = "summarizing" =>
       /\ summary = {} /\ askedItems[t] = ToSet(itemBuffer)
       /\ <<t, itemCount[t]>> \in ToSet(itemBuffer)

CompressShape ==
  /\ talkPhase \in [Talks -> {"idle", "running", "summarizing"}]
  /\ itemCount \in [Talks -> 0..MaxItems] /\ roundCount \in Nat
  /\ loadedTalks \subseteq Talks
  /\ DOMAIN boundary = Talks /\ DOMAIN savedItems = Talks /\ DOMAIN askedItems = Talks
  /\ DOMAIN summarizer = {"content", "failures", "broken"}

(* Summary, buffer and durable results keep, of each conversation, all up  *)
(* to its boundary, and what was saved of it.                              *)
CompressIInv == CompressShape /\ \A t \in Talks : TalkOK(t)

LEMMA CompressFacts ==
  /\ MaxItems \in Nat /\ DurableKeep \in Nat
  /\ ToSet(<<>>) = {}
BY CompressAssumption DEF ToSet

LEMMA EmptyRemembered ==
  ASSUME NEW t, NEW n \in Nat
  PROVE  RememberedOK(t, n, {}, <<>>, <<>>, {})
BY CompressFacts DEF RememberedOK, Covers

(* More items may follow.                                                  *)
LEMMA RememberedGrows ==
  ASSUME NEW t, NEW n \in Nat, NEW s, NEW b, NEW d, NEW saved, RememberedOK(t, n, s, b, d, saved)
  PROVE  RememberedOK(t, n + 1, s, b, d, saved)
<1>1. {t} \X (1..n) \subseteq {t} \X (1..(n + 1))
  OBVIOUS
<1>2. PICK S, T : S = {t} \X (1..n) /\ T = {t} \X (1..(n + 1))
  OBVIOUS
<1>3. b \in Seq(S) /\ d \in Seq(S) /\ S \subseteq T
  BY <1>1, <1>2 DEF RememberedOK
<1>4. b \in Seq(T) /\ d \in Seq(T)
  BY <1>3
<1> QED BY <1>2, <1>3, <1>4 DEF RememberedOK

LEMMA AppendedSet ==
  ASSUME NEW S, NEW q \in Seq(S), NEW x \in S
  PROVE  ToSet(Append(q, x)) = ToSet(q) \cup {x} /\ Append(q, x) \in Seq(S)
<1>1. PICK a : a = Append(q, x)
  OBVIOUS
<1>2. /\ a \in Seq(S) /\ Len(a) = Len(q) + 1 /\ a[Len(q) + 1] = x
      /\ \A i \in 1..Len(q) : a[i] = q[i]
  BY <1>1, AppendProperties
<1>3. Len(q) \in Nat /\ DOMAIN q = 1..Len(q) /\ DOMAIN a = 1..(Len(q) + 1)
  BY <1>2
<1>4. \A i \in 1..(Len(q) + 1) : i \in 1..Len(q) \/ i = Len(q) + 1
  BY <1>3
<1>5. \A i \in 1..Len(q) : i \in 1..(Len(q) + 1)
  BY <1>3
<1>6. Len(q) + 1 \in 1..(Len(q) + 1)
  BY <1>3
<1>7. ToSet(a) \subseteq ToSet(q) \cup {x}
  BY <1>2, <1>3, <1>4 DEF ToSet
<1>8. ToSet(q) \cup {x} \subseteq ToSet(a)
  BY <1>2, <1>3, <1>5, <1>6 DEF ToSet
<1> QED BY <1>1, <1>2, <1>7, <1>8

(* The durable results: the last ones, with a new one or without.          *)
LEMMA LastItemsFacts ==
  ASSUME NEW S, NEW q \in Seq(S)
  PROVE  LastItems(q) \in Seq(S) /\ (DurableKeep > 0 => Len(LastItems(q)) <= DurableKeep)
<1>1. Len(q) \in Nat /\ DurableKeep \in Nat
  BY CompressFacts
<1>2. CASE DurableKeep > 0 /\ Len(q) > DurableKeep
  <2> DEFINE m == Len(q) - DurableKeep + 1
  <2>1. m \in 1..Len(q) /\ Len(q) - m + 1 = DurableKeep /\ Len(q) \in 1..Len(q)
    BY <1>1, <1>2
  <2>2. PICK t : t = SubSeq(q, m, Len(q))
    OBVIOUS
  <2>3. t \in Seq(S) /\ Len(t) = DurableKeep
    BY <2>1, <2>2, SubSeqProperties
  <2>4. LastItems(q) = t
    BY <1>2, <2>2 DEF LastItems
  <2> QED BY <1>1, <2>3, <2>4
<1>3. CASE ~(DurableKeep > 0 /\ Len(q) > DurableKeep)
  BY <1>1, <1>3 DEF LastItems
<1> QED BY <1>2, <1>3

(* A round more: its item is in the buffer, and durable or not.            *)
LEMMA RoundRemembered ==
  ASSUME NEW t, NEW n \in Nat, NEW s, NEW b, NEW d, NEW saved, RememberedOK(t, n, s, b, d, saved),
         NEW e, e \in {d, LastItems(Append(d, <<t, n + 1>>))}
  PROVE  /\ RememberedOK(t, n + 1, s, Append(b, <<t, n + 1>>), e, saved)
         /\ RememberedOK(t, n + 1, s, Append(b, <<t, n + 1>>), e, saved \cup {<<t, n + 1>>})
         /\ <<t, n + 1>> \in ToSet(Append(b, <<t, n + 1>>))
<1>1. RememberedOK(t, n + 1, s, b, d, saved)
  BY RememberedGrows
<1>2. PICK x, T : x = <<t, n + 1>> /\ T = {t} \X (1..(n + 1))
  OBVIOUS
<1>3. x \in T /\ x \notin {t} \X (1..n)
  BY <1>2
<1>4. s \subseteq T /\ b \in Seq(T) /\ d \in Seq(T) /\ (DurableKeep > 0 => Len(d) <= DurableKeep)
      /\ Covers(s, b, saved)
  BY <1>1, <1>2 DEF RememberedOK
<1>5. ToSet(Append(b, x)) = ToSet(b) \cup {x} /\ Append(b, x) \in Seq(T) /\ Append(d, x) \in Seq(T)
  BY <1>3, <1>4, AppendedSet
<1>6. e \in Seq(T) /\ (DurableKeep > 0 => Len(e) <= DurableKeep)
  BY <1>2, <1>4, <1>5, LastItemsFacts
<1>7. x \notin s
  BY <1>3 DEF RememberedOK
<1>8. Covers(s, Append(b, x), saved) /\ Covers(s, Append(b, x), saved \cup {x})
  BY <1>4, <1>5, <1>7 DEF Covers
<1> QED BY <1>2, <1>4, <1>5, <1>6, <1>8 DEF RememberedOK

(* The buffer becomes the summary.                                         *)
LEMMA SummaryRemembered ==
  ASSUME NEW t, NEW n, NEW b, NEW d, NEW saved, RememberedOK(t, n, {}, b, d, saved)
  PROVE  RememberedOK(t, n, ToSet(b), <<>>, d, saved)
<1>1. PICK T : T = {t} \X (1..n)
  OBVIOUS
<1>2. b \in Seq(T)
  BY <1>1 DEF RememberedOK
<1>3. ToSet(b) \subseteq T
  BY <1>2 DEF ToSet
<1>4. Covers(ToSet(b), <<>>, saved)
  BY CompressFacts DEF RememberedOK, Covers
<1>5. <<>> \in Seq(T)
  OBVIOUS
<1> QED BY <1>1, <1>3, <1>4, <1>5 DEF RememberedOK

LEMMA CompressInitHolds == CompressInit => CompressIInv
<1> SUFFICES ASSUME CompressInit PROVE CompressIInv
  OBVIOUS
<1>1. CompressShape
  BY CompressFacts DEF CompressInit, CompressShape, FreshSummarizer
<1>2. ASSUME NEW t \in Talks PROVE TalkOK(t)
  <2>1. boundary[t] = Blank /\ itemCount[t] = 0 /\ talkPhase[t] = "idle" /\ savedItems[t] = {}
        /\ loadedTalks = {} /\ summary = {} /\ itemBuffer = <<>> /\ durables = <<>>
    BY DEF CompressInit
  <2>2. summarizer.content = {}
    BY DEF CompressInit, FreshSummarizer
  <2>3. /\ boundary[t].summary = {} /\ boundary[t].buffer = <<>> /\ boundary[t].durables = <<>>
        /\ boundary[t].rounds = 0
    BY <2>1 DEF Blank
  <2> QED BY <2>1, <2>2, <2>3, EmptyRemembered DEF TalkOK
<1> QED BY <1>1, <1>2 DEF CompressIInv

LEMMA StartHolds ==
  ASSUME OneTalk, CompressIInv, NEW t \in Talks, StartTalk(t)
  PROVE  CompressIInv'
<1>1. TalkOK(t) /\ itemCount[t] \in Nat
  BY CompressFacts DEF CompressIInv, CompressShape
<1>2. /\ talkPhase' = [talkPhase EXCEPT ![t] = "running"] /\ loadedTalks' = loadedTalks \cup {t}
      /\ UNCHANGED <<itemCount, askedItems, summarizer, boundary, savedItems>>
      /\ itemCount[t] < MaxItems
  BY DEF StartTalk, LoadBoundary
<1>3. talkPhase'[t] = "running"
  BY <1>2 DEF CompressIInv, CompressShape
<1>4. /\ RememberedOK(t, itemCount[t], summary', itemBuffer', durables', savedItems[t])
      /\ roundCount' \in Nat /\ (summarizer.content # {} => summary' # {})
  <2>1. CASE t \in loadedTalks
    BY <1>1, <2>1 DEF StartTalk, LoadBoundary, remembered, TalkOK, CompressIInv, CompressShape
  <2>2. CASE t \notin loadedTalks /\ boundary[t] = Blank
    <3>1. UNCHANGED remembered
      BY <2>2 DEF StartTalk, LoadBoundary
    <3>2. summary' = {} /\ itemBuffer' = <<>> /\ durables' = <<>> /\ roundCount' \in Nat
          /\ ~(summarizer.content # {})
      BY <1>1, <2>2, <3>1 DEF remembered, TalkOK, CompressIInv, CompressShape
    <3>3. RememberedOK(t, itemCount[t], {}, <<>>, <<>>, savedItems[t])
      BY <1>1, <2>2 DEF TalkOK, Blank
    <3> QED BY <3>2, <3>3
  <2>3. CASE t \notin loadedTalks /\ boundary[t] # Blank
    <3>1. /\ summary' = boundary[t].summary /\ itemBuffer' = boundary[t].buffer
          /\ durables' = boundary[t].durables
          /\ roundCount' \in {boundary[t].rounds, roundCount}
      BY <2>3 DEF StartTalk, LoadBoundary
    <3> QED BY <1>1, <2>3, <3>1 DEF TalkOK, CompressIInv, CompressShape
  <2> QED BY <2>1, <2>2, <2>3
<1>5. TalkOK(t)'
  BY <1>1, <1>2, <1>3, <1>4 DEF TalkOK
<1>6. CompressShape'
  BY <1>2, <1>4 DEF CompressIInv, CompressShape
<1> QED BY <1>5, <1>6 DEF OneTalk, CompressIInv

(* A round is saved with its conversation.                                 *)
LEMMA SavedHolds ==
  ASSUME OneTalk, CompressIInv, NEW t \in Talks, SaveBoundary(t), t \in loadedTalks',
         loadedTalks' = loadedTalks, itemCount' \in [Talks -> 0..MaxItems], roundCount' \in Nat,
         RememberedOK(t, itemCount'[t], summary', itemBuffer', durables',
                      savedItems[t] \cup {<<t, itemCount'[t]>>}),
         summarizer'.content # {} => summary' # {}, DOMAIN askedItems' = Talks,
         DOMAIN summarizer' = {"content", "failures", "broken"}
  PROVE  CompressIInv'
<1>1. /\ boundary' = [boundary EXCEPT ![t] = [summary |-> summary', buffer |-> itemBuffer',
                                              durables |-> durables', rounds |-> roundCount']]
      /\ savedItems' = [savedItems EXCEPT ![t] = @ \cup {<<t, itemCount'[t]>>}]
      /\ talkPhase' = [talkPhase EXCEPT ![t] = "idle"]
  BY DEF SaveBoundary
<1>2. /\ savedItems'[t] = savedItems[t] \cup {<<t, itemCount'[t]>>} /\ talkPhase'[t] = "idle"
      /\ boundary'[t] = [summary |-> summary', buffer |-> itemBuffer',
                         durables |-> durables', rounds |-> roundCount']
  BY <1>1 DEF CompressIInv, CompressShape
<1>3. /\ boundary'[t].summary = summary' /\ boundary'[t].buffer = itemBuffer'
      /\ boundary'[t].durables = durables' /\ boundary'[t].rounds = roundCount'
  BY <1>2
<1>4. TalkOK(t)'
  BY <1>2, <1>3 DEF TalkOK
<1>5. CompressShape'
  BY <1>1 DEF CompressIInv, CompressShape
<1> QED BY <1>4, <1>5 DEF OneTalk, CompressIInv

LEMMA RoundHolds ==
  ASSUME OneTalk, CompressIInv, NEW t \in Talks, NEW durable \in BOOLEAN, RoundEnds(t, durable)
  PROVE  CompressIInv'
<1> DEFINE n == itemCount[t]
           item == <<t, n + 1>>
<1>a. TalkOK(t) /\ talkPhase[t] = "running"
  BY DEF CompressIInv, RoundEnds
<1>b. n \in Nat /\ n < MaxItems /\ t \in loadedTalks
  BY <1>a, CompressFacts DEF TalkOK, CompressIInv, CompressShape
<1>1. TalkOK(t) /\ n \in Nat /\ n < MaxItems /\ t \in loadedTalks /\ MaxItems \in Nat
      /\ talkPhase[t] = "running"
  BY <1>a, <1>b, CompressFacts
<1>2. /\ itemCount' = [itemCount EXCEPT ![t] = @ + 1] /\ roundCount' = roundCount + 1
      /\ durables' \in {durables, LastItems(Append(durables, item))}
      /\ UNCHANGED <<summarizer, loadedTalks>>
  BY DEF RoundEnds
<1>3. itemCount'[t] = n + 1 /\ itemCount' \in [Talks -> 0..MaxItems] /\ roundCount' \in Nat
  BY <1>1, <1>2 DEF CompressIInv, CompressShape
<1>4. RememberedOK(t, n, summary, itemBuffer, durables, savedItems[t])
  BY <1>1 DEF TalkOK
<1>5. PICK e : e = durables'
  OBVIOUS
<1>6. /\ RememberedOK(t, n + 1, summary, Append(itemBuffer, item), durables', savedItems[t])
      /\ RememberedOK(t, n + 1, summary, Append(itemBuffer, item), durables', savedItems[t] \cup {item})
      /\ item \in ToSet(Append(itemBuffer, item))
  BY <1>1, <1>2, <1>4, <1>5, RoundRemembered
<1>7. CASE Asks
  <2>1. /\ itemBuffer' = Append(itemBuffer, item) /\ summary' = summary
        /\ askedItems' = [askedItems EXCEPT ![t] = ToSet(itemBuffer')]
        /\ talkPhase' = [talkPhase EXCEPT ![t] = "summarizing"]
        /\ boundary' = boundary /\ savedItems' = savedItems
    BY <1>7 DEF RoundEnds
  <2>2. summary = {} /\ askedItems'[t] = ToSet(itemBuffer') /\ talkPhase'[t] = "summarizing"
    BY <1>7, <2>1 DEF Asks, CompressIInv, CompressShape
  <2>3. RememberedOK(t, n + 1, boundary[t].summary, boundary[t].buffer, boundary[t].durables, savedItems[t])
    BY <1>1, RememberedGrows DEF TalkOK
  <2>4. TalkOK(t)'
    BY <1>1, <1>2, <1>3, <1>6, <2>1, <2>2, <2>3 DEF TalkOK
  <2>5. CompressShape'
    BY <1>2, <1>3, <2>1 DEF CompressIInv, CompressShape
  <2> QED BY <2>4, <2>5 DEF OneTalk, CompressIInv
<1>8. CASE ~Asks
  <2>1. /\ summary' = IF summary = {} /\ roundCount' >= SummaryAfter THEN summarizer.content
                      ELSE summary
        /\ itemBuffer' = IF summary = {} /\ summary' # {} THEN <<>> ELSE Append(itemBuffer, item)
        /\ SaveBoundary(t) /\ askedItems' = askedItems
    BY <1>8 DEF RoundEnds
  <2>2. summary' = summary
    BY <1>1, <2>1 DEF TalkOK
  <2>3. itemBuffer' = Append(itemBuffer, item)
    BY <2>1, <2>2
  <2>4. DOMAIN askedItems' = Talks /\ DOMAIN summarizer' = {"content", "failures", "broken"}
        /\ (summarizer'.content # {} => summary' # {})
    BY <1>1, <1>2, <2>1, <2>2 DEF CompressIInv, CompressShape, TalkOK
  <2> QED BY <1>1, <1>2, <1>3, <1>6, <2>1, <2>2, <2>3, <2>4, SavedHolds
<1> QED BY <1>7, <1>8

LEMMA SummarizedHolds ==
  ASSUME OneTalk, CompressIInv, NEW t \in Talks, SummaryArrives(t) \/ SummaryFails(t)
  PROVE  CompressIInv'
<1>1. TalkOK(t) /\ t \in loadedTalks /\ talkPhase[t] = "summarizing"
      /\ itemCount \in [Talks -> 0..MaxItems] /\ roundCount \in Nat /\ DOMAIN askedItems = Talks
  BY DEF CompressIInv, CompressShape, TalkOK, SummaryArrives, SummaryFails, Summarized
<1>2. /\ summary = {} /\ askedItems[t] = ToSet(itemBuffer)
      /\ <<t, itemCount[t]>> \in ToSet(itemBuffer) /\ summarizer.content = {}
  BY <1>1 DEF TalkOK
<1>3. /\ UNCHANGED <<itemCount, durables, roundCount, loadedTalks>> /\ SaveBoundary(t)
      /\ askedItems' = [askedItems EXCEPT ![t] = {}]
  BY DEF SummaryArrives, SummaryFails, Summarized
<1>4. PICK s : /\ s \in {[summarizer EXCEPT !.content = askedItems[t], !.failures = 0],
                         [summarizer EXCEPT !.failures = @ + 1,
                                            !.broken = summarizer.failures + 1 >= MaxFailures]}
               /\ Summarized(t, s)
  BY DEF SummaryArrives, SummaryFails
<1>5. DOMAIN s = {"content", "failures", "broken"} /\ s.content \in {ToSet(itemBuffer), {}}
  <2>1. CompressShape /\ summarizer.content = {} /\ askedItems[t] = ToSet(itemBuffer)
    BY <1>2 DEF CompressIInv
  <2>2. DOMAIN s = {"content", "failures", "broken"} /\ s.content \in {askedItems[t], {}}
    BY <1>4, <2>1 DEF CompressShape
  <2> QED BY <2>1, <2>2
<1>6. summarizer' = s /\ summary' = s.content /\ itemBuffer' = IF s.content = {} THEN itemBuffer ELSE <<>>
  BY <1>4 DEF Summarized
<1>7. RememberedOK(t, itemCount[t], {}, itemBuffer, durables, savedItems[t])
  BY <1>1, <1>2 DEF TalkOK
<1>8. /\ RememberedOK(t, itemCount[t], summary', itemBuffer', durables, savedItems[t])
      /\ <<t, itemCount[t]>> \in summary' \cup ToSet(itemBuffer')
  <2>1. CASE s.content = {}
    BY <1>2, <1>6, <1>7, <2>1
  <2>2. CASE s.content = ToSet(itemBuffer) /\ s.content # {}
    BY <1>2, <1>6, <1>7, <2>2, SummaryRemembered
  <2> QED BY <1>5, <2>1, <2>2
<1>9. RememberedOK(t, itemCount'[t], summary', itemBuffer', durables',
                   savedItems[t] \cup {<<t, itemCount'[t]>>})
  BY <1>3, <1>8 DEF RememberedOK, Covers
<1> QED BY <1>1, <1>3, <1>5, <1>6, <1>9, SavedHolds

LEMMA RestartHolds ==
  ASSUME CompressIInv, CompressRestart
  PROVE  CompressIInv'
<1>1. /\ talkPhase' = [t \in Talks |-> "idle"] /\ askedItems' = [t \in Talks |-> {}]
      /\ summary' = {} /\ itemBuffer' = <<>> /\ durables' = <<>> /\ roundCount' = 0
      /\ summarizer' = FreshSummarizer /\ loadedTalks' = {}
      /\ UNCHANGED <<itemCount, boundary, savedItems>>
  BY DEF CompressRestart
<1>2. CompressShape'
  BY <1>1 DEF CompressIInv, CompressShape, FreshSummarizer
<1>3. summarizer'.content = {}
  BY <1>1 DEF FreshSummarizer
<1>4. ASSUME NEW t \in Talks PROVE TalkOK(t)'
  BY <1>1, <1>3 DEF CompressIInv, TalkOK
<1> QED BY <1>2, <1>4 DEF CompressIInv

LEMMA CompressStepHolds ==
  ASSUME OneTalk, CompressIInv, [CompressNext]_compressVars
  PROVE  CompressIInv'
<1>1. CASE UNCHANGED compressVars
  BY <1>1 DEF compressVars, remembered, CompressIInv, CompressShape, TalkOK
<1>2. ASSUME NEW t \in Talks, StartTalk(t) PROVE CompressIInv'
  BY <1>2, StartHolds
<1>3. ASSUME NEW t \in Talks, SummaryArrives(t) \/ SummaryFails(t) PROVE CompressIInv'
  BY <1>3, SummarizedHolds
<1>4. ASSUME NEW t \in Talks, NEW durable \in BOOLEAN, RoundEnds(t, durable) PROVE CompressIInv'
  BY <1>4, RoundHolds
<1>5. CASE CompressRestart
  BY <1>5, RestartHolds
<1> QED BY <1>1, <1>2, <1>3, <1>4, <1>5 DEF CompressNext

LEMMA CompressImplies ==
  ASSUME CompressIInv, Talks # {}
  PROVE  CompressTypeOK /\ NothingForgotten /\ BoundaryIsOwn
<1>1. ASSUME NEW t \in Talks
      PROVE  /\ {t} \X (1..itemCount[t]) \subseteq Items
             /\ {t} \X (1..itemCount[t]) \subseteq {t} \X (1..MaxItems)
  BY CompressFacts DEF CompressIInv, CompressShape, Items
<1>2. PICK u \in Talks : TRUE
  OBVIOUS
<1>3. PICK t \in Talks : t \in loadedTalks \/ (t = u /\ loadedTalks = {})
  <2>1. loadedTalks \subseteq Talks
    BY DEF CompressIInv, CompressShape
  <2>2. CASE loadedTalks = {}
    BY <1>2, <2>2
  <2>3. CASE loadedTalks # {}
    <3>1. PICK v : v \in loadedTalks
      BY <2>3
    <3> QED BY <2>1, <3>1
  <2> QED BY <2>2, <2>3
<1>4. TalkOK(t)
  BY DEF CompressIInv
<1>5. PICK S : S = {t} \X (1..itemCount[t])
  OBVIOUS
<1>6. /\ S \subseteq Items /\ summary \subseteq S /\ itemBuffer \in Seq(S) /\ durables \in Seq(S)
      /\ DurableKeep > 0 => Len(durables) <= DurableKeep
  <2>1. CASE t \in loadedTalks
    BY <1>1, <1>4, <1>5, <2>1 DEF TalkOK, RememberedOK
  <2>2. CASE loadedTalks = {}
    BY <1>1, <1>4, <1>5, <2>2, CompressFacts DEF TalkOK
  <2> QED BY <1>3, <2>1, <2>2
<1>7. CompressTypeOK
  <2>1. itemBuffer \in Seq(Items) /\ durables \in Seq(Items)
    BY <1>6
  <2> QED BY <1>6, <2>1 DEF CompressTypeOK, CompressIInv, CompressShape
<1>8. NothingForgotten
  BY DEF NothingForgotten, CompressIInv, TalkOK, RememberedOK
<1>9. BoundaryIsOwn
  <2> SUFFICES ASSUME NEW v \in Talks
               PROVE  boundary[v].summary \cup ToSet(boundary[v].buffer) \cup ToSet(boundary[v].durables)
                        \subseteq {v} \X (1..MaxItems)
    BY DEF BoundaryIsOwn
  <2>1. PICK T : T = {v} \X (1..itemCount[v])
    OBVIOUS
  <2>2. /\ boundary[v].summary \subseteq T /\ boundary[v].buffer \in Seq(T)
        /\ boundary[v].durables \in Seq(T)
    BY <2>1 DEF CompressIInv, TalkOK, RememberedOK
  <2>3. ASSUME NEW q \in Seq(T) PROVE ToSet(q) \subseteq T
    BY DEF ToSet
  <2>4. T \subseteq {v} \X (1..MaxItems)
    BY <1>1, <2>1
  <2> QED BY <2>2, <2>3, <2>4
<1> QED BY <1>7, <1>8, <1>9

(* An agent with one conversation forgets none of its rounds, in no        *)
(* process, and keeps nothing that is not of it.                           *)
THEOREM NothingIsForgotten ==
  ASSUME OneTalk, Talks # {}
  PROVE  CompressSpec => [](CompressTypeOK /\ NothingForgotten /\ BoundaryIsOwn)
<1>1. CompressInit => CompressIInv
  BY CompressInitHolds
<1>2. CompressIInv /\ [CompressNext]_compressVars => CompressIInv'
  BY CompressStepHolds
<1>3. CompressIInv => CompressTypeOK /\ NothingForgotten /\ BoundaryIsOwn
  BY CompressImplies
<1> QED BY <1>1, <1>2, <1>3, PTL DEF CompressSpec

--------------------------------------------------------------------------------
(***************************************************************************)
(* skill: however the disk and the loaded skills change under a call.      *)
(***************************************************************************)

GoodTables == {T \in SUBSET Item : \A s \in T : Named(T, s.name) = {s} /\ Wanted(s)}
LoadStates == [table : GoodTables, failed : BOOLEAN]

ScriptOK(me, records, started) ==
  /\ me.phase \in {"new", "running", "ended", "cancelled"}
  /\ me.item \subseteq Item /\ \A s \in me.item : Wanted(s)
  /\ me.phase = "new" => ~started
  /\ me.phase = "running" => started
  /\ me.phase \in {"new", "running"} => records = <<>>
  /\ me.phase = "ended" => Len(records) = 1 /\ (records[1].allowed <=> started)

(* The table is one that the loader makes, and each call has the records   *)
(* of the place it is at.                                                  *)
SkillIInv ==
  /\ disk \in [1..Places -> Directory]
  /\ skills \in GoodTables /\ loadFailed \in BOOLEAN /\ ran \subseteq ScriptCalls
  /\ DOMAIN script = ScriptCalls /\ DOMAIN audit = ScriptCalls
  /\ script = [c \in ScriptCalls |-> script[c]] /\ audit = [c \in ScriptCalls |-> audit[c]]
  /\ \A c \in ScriptCalls : ScriptOK(script[c], audit[c], c \in ran)

(* A place more: a skill is added, replaces the one of its name, or none.  *)
LEMMA LoadOneIs ==
  ASSUME NEW state \in LoadStates, NEW items \in Directory
  PROVE  LoadOne(state, items) \in LoadStates
<1>1. state.table \in GoodTables /\ state.failed \in BOOLEAN
  BY DEF LoadStates
<1>2. \A T \in GoodTables, b \in BOOLEAN : [table |-> T, failed |-> b] \in LoadStates
  BY DEF LoadStates
<1>3. state = [table |-> state.table, failed |-> state.failed]
  BY DEF LoadStates
<1>4. CASE state.failed \/ items = {}
  BY <1>4 DEF LoadOne
<1>5. CASE ~(state.failed \/ items = {})
  <2>1. PICK item : item = (CHOOSE i \in items : TRUE) /\ item \in items
    BY <1>5
  <2> DEFINE same == Named(state.table, item.name)
  <2>2. LoadOne(state, items) =
          IF item.version = Broken THEN [state EXCEPT !.failed = TRUE]
          ELSE IF ~Wanted(item) THEN state
          ELSE IF same = {} \/ DuplicatePolicy = "replace"
               THEN [state EXCEPT !.table = (@ \ same) \cup {item}]
          ELSE [state EXCEPT !.failed = DuplicatePolicy = "error"]
    BY <1>5, <2>1 DEF LoadOne
  <2>3. [state EXCEPT !.failed = TRUE] \in LoadStates
        /\ [state EXCEPT !.failed = DuplicatePolicy = "error"] \in LoadStates
    BY DEF LoadStates
  <2>4. ASSUME item.version # Broken, Wanted(item)
        PROVE  [state EXCEPT !.table = (@ \ same) \cup {item}] \in LoadStates
    <3>1. item \in Item
      BY <2>1, <2>4 DEF Directory
    <3>2. PICK T : T = (state.table \ same) \cup {item}
      OBVIOUS
    <3>3. T \subseteq Item
      BY <1>1, <3>1, <3>2 DEF GoodTables
    <3>4. ASSUME NEW s \in T PROVE Named(T, s.name) = {s} /\ Wanted(s)
      <4>1. CASE s = item
        BY <2>4, <3>2, <4>1 DEF Named
      <4>2. CASE s # item
        <5>1. s \in state.table /\ s.name # item.name
          BY <3>2, <3>4, <4>2 DEF Named
        <5>2. Named(state.table, s.name) = {s} /\ Wanted(s)
          BY <1>1, <5>1 DEF GoodTables
        <5> QED BY <3>2, <3>4, <5>1, <5>2 DEF Named
      <4> QED BY <4>1, <4>2
    <3>5. T \in GoodTables
      BY <3>3, <3>4 DEF GoodTables
    <3> QED BY <3>2, <3>5 DEF LoadStates
  <2> QED BY <2>2, <2>3, <2>4
<1> QED BY <1>4, <1>5

LEMMA LoadedSteps ==
  ASSUME NEW d \in [1..Places -> Directory]
  PROVE  \E f : /\ LoadedUpTo(d) = f /\ f[0] = [table |-> {}, failed |-> FALSE]
                /\ \A p \in 1..Places : f[p] = LoadOne(f[p - 1], d[p])
<1>1. Places \in Nat
  BY SkillAssumption
<1> DEFINE a == [table |-> {}, failed |-> FALSE]
           step == [p \in 1..Places |-> [s \in LoadStates |-> LoadOne(s, d[p])]]
           F == [p \in 0..Places |-> LoadedUpTo(d)[p]]
<1>2. a \in LoadStates
  BY DEF LoadStates, GoodTables
<1>3. step \in [1..Places -> [LoadStates -> LoadStates]]
  BY LoadOneIs
<1>4. \E f \in [0..Places -> LoadStates] :
        f[0] = a /\ \A n \in 1..Places : f[n] = step[n][f[n - 1]]
  <2>1. PICK N, S, b, st : N = Places /\ S = LoadStates /\ b = a /\ st = step
    OBVIOUS
  <2> HIDE DEF step, a
  <2>2. N \in Nat /\ b \in S /\ AreSteps(st, N, S)
    BY <1>1, <1>2, <1>3, <2>1 DEF AreSteps
  <2>3. \E f \in [0..N -> S] : f[0] = b /\ \A n \in 1..N : f[n] = st[n][f[n - 1]]
    BY <2>2, StepsExist
  <2> QED BY <2>1, <2>3
<1>5. PICK f \in [0..Places -> LoadStates] :
        f[0] = a /\ \A n \in 1..Places : f[n] = step[n][f[n - 1]]
  BY <1>4
<1>6. \A n \in 1..Places : f[n] = LoadOne(f[n - 1], d[n])
  <2> SUFFICES ASSUME NEW n \in 1..Places PROVE f[n] = LoadOne(f[n - 1], d[n])
    OBVIOUS
  <2>1. f[n - 1] \in LoadStates
    BY <1>1, <1>5
  <2> QED BY <1>5, <2>1
<1> DEFINE Is(g) == g = [p \in 0..Places |-> IF p = 0 THEN a ELSE LoadOne(g[p - 1], d[p])]
<1>7. Is(f)
  <2>1. \A p \in 0..Places : p # 0 => p \in 1..Places
    BY <1>1
  <2>2. \A p \in 0..Places : f[p] = IF p = 0 THEN a ELSE LoadOne(f[p - 1], d[p])
    BY <1>5, <1>6, <2>1
  <2> QED BY <1>5, <2>2
<1>8. LoadedUpTo(d) = CHOOSE g : Is(g)
  BY DEF LoadedUpTo
<1>9. PICK g : g = LoadedUpTo(d) /\ Is(g)
  <2> HIDE DEF Is
  <2> QED BY <1>7, <1>8
<1>10. g[0] = a /\ \A p \in 1..Places : g[p] = LoadOne(g[p - 1], d[p])
  <2>1. \A p \in 0..Places : g[p] = IF p = 0 THEN a ELSE LoadOne(g[p - 1], d[p])
    BY <1>9
  <2>2. 0 \in 0..Places /\ \A p \in 1..Places : p \in 0..Places /\ p # 0
    BY <1>1
  <2> QED BY <2>1, <2>2
<1> QED BY <1>9, <1>10

LEMMA LoadedIs ==
  ASSUME NEW d \in [1..Places -> Directory]
  PROVE  Loaded(d) \in LoadStates
<1>1. PICK f : /\ LoadedUpTo(d) = f /\ f[0] = [table |-> {}, failed |-> FALSE]
               /\ \A p \in 1..Places : f[p] = LoadOne(f[p - 1], d[p])
  BY LoadedSteps
<1>2. Places \in Nat /\ Places \in 0..Places
  BY SkillAssumption
<1>3. f[0] \in LoadStates
  BY <1>1 DEF LoadStates, GoodTables
<1>4. \A p \in 1..Places : f[p - 1] \in LoadStates => f[p] \in LoadStates
  BY <1>1, LoadOneIs
<1>5. f[Places] \in LoadStates
  BY <1>2, <1>3, <1>4, StepsStay
<1> QED BY <1>1, <1>5 DEF Loaded, LoadStates

LEMMA SkillInitHolds == SkillInit => SkillIInv
<1> SUFFICES ASSUME SkillInit PROVE SkillIInv
  OBVIOUS
<1>1. disk \in [1..Places -> Directory] /\ skills = Loaded(disk).table /\ loadFailed = FALSE
      /\ ran = {}
  BY DEF SkillInit
<1>2. skills \in GoodTables
  BY <1>1, LoadedIs DEF LoadStates
<1>3. /\ script = [c \in ScriptCalls |-> [phase |-> "new", item |-> {}]]
      /\ audit = [c \in ScriptCalls |-> <<>>]
  BY DEF SkillInit
<1>4. \A c \in ScriptCalls : ScriptOK(script[c], audit[c], c \in ran)
  BY <1>1, <1>3 DEF ScriptOK
<1> QED BY <1>1, <1>2, <1>3, <1>4 DEF SkillIInv

LEMMA DiskHolds == ASSUME SkillIInv, DiskChanges \/ ReloadSkills PROVE SkillIInv'
<1>1. /\ UNCHANGED <<script, audit, ran>> /\ disk' \in [1..Places -> Directory]
      /\ skills' \in GoodTables /\ loadFailed' \in BOOLEAN
  <2>1. CASE DiskChanges
    BY <2>1 DEF DiskChanges, SkillIInv
  <2>2. CASE ReloadSkills
    <3>1. Loaded(disk) \in LoadStates
      BY LoadedIs DEF SkillIInv
    <3> QED BY <2>2, <3>1 DEF ReloadSkills, SkillIInv, LoadStates
  <2> QED BY <2>1, <2>2
<1> QED BY <1>1 DEF SkillIInv

(* A step of one call.                                                     *)
LEMMA CallHolds ==
  ASSUME SkillIInv, NEW c \in ScriptCalls, NEW to, NEW records, NEW started \in BOOLEAN,
         script' = [script EXCEPT ![c] = to], audit' = [audit EXCEPT ![c] = records],
         ran' = (IF started THEN ran \cup {c} ELSE ran), c \in ran => started,
         ScriptOK(to, records, started), UNCHANGED <<disk, skills, loadFailed>>
  PROVE  SkillIInv'
<1>1. /\ script'[c] = to /\ audit'[c] = records /\ (c \in ran' <=> started)
      /\ \A b \in ScriptCalls \ {c} : /\ script'[b] = script[b] /\ audit'[b] = audit[b]
                                      /\ (b \in ran' <=> b \in ran)
  BY DEF SkillIInv
<1>2. (c \in ran') = started /\ \A b \in ScriptCalls \ {c} : (b \in ran') = (b \in ran)
  BY <1>1
<1>3. \A b \in ScriptCalls : ScriptOK(script'[b], audit'[b], b \in ran')
  BY <1>1, <1>2 DEF SkillIInv
<1>4. /\ DOMAIN script' = ScriptCalls /\ DOMAIN audit' = ScriptCalls
      /\ script' = [b \in ScriptCalls |-> script'[b]] /\ audit' = [b \in ScriptCalls |-> audit'[b]]
  BY DEF SkillIInv
<1>5. ran' \subseteq ScriptCalls
  BY DEF SkillIInv
<1> QED BY <1>3, <1>4, <1>5 DEF SkillIInv

LEMMA StartsHolds ==
  ASSUME SkillIInv, NEW c \in ScriptCalls, NEW name, NEW ok, NEW splits,
         ScriptStarts(c, name, ok, splits)
  PROVE  SkillIInv'
<1> DEFINE found == {s \in Named(skills, name) : s.scripts}
<1>1. ScriptOK(script[c], audit[c], c \in ran) /\ script[c].phase = "new" /\ c \notin ran
      /\ audit[c] = <<>> /\ UNCHANGED <<disk, skills, loadFailed>>
  BY DEF SkillIInv, ScriptStarts, ScriptOK
<1>2. CASE /\ script' = [script EXCEPT ![c].phase = "ended"]
           /\ Recorded(c, "rejected", FALSE) /\ UNCHANGED ran
  <2> DEFINE to == [script[c] EXCEPT !.phase = "ended"]
             records == Append(audit[c], [event |-> "rejected", allowed |-> FALSE])
  <2>1. script' = [script EXCEPT ![c] = to] /\ audit' = [audit EXCEPT ![c] = records]
    BY <1>2 DEF Recorded
  <2>2. ScriptOK(to, records, FALSE)
    BY <1>1 DEF ScriptOK
  <2> HIDE DEF to, records
  <2> QED BY <1>1, <1>2, <2>1, <2>2, CallHolds
<1>3. CASE /\ script' = [script EXCEPT ![c] = [phase |-> "running", item |-> found]]
           /\ ran' = ran \cup {c} /\ UNCHANGED audit
  <2> DEFINE to == [phase |-> "running", item |-> found]
  <2>1. audit' = [audit EXCEPT ![c] = <<>>]
    BY <1>1, <1>3 DEF SkillIInv
  <2>2. found \subseteq Item /\ \A s \in found : Wanted(s)
    BY DEF SkillIInv, GoodTables, Named
  <2>3. ScriptOK(to, <<>>, TRUE)
    BY <2>2 DEF ScriptOK
  <2> HIDE DEF to
  <2>4. script' = [script EXCEPT ![c] = to]
    BY <1>3 DEF to
  <2> QED BY <1>1, <1>3, <2>1, <2>3, <2>4, CallHolds
<1> QED BY <1>2, <1>3 DEF ScriptStarts

LEMMA EndsHolds ==
  ASSUME SkillIInv, NEW c \in ScriptCalls,
         ScriptCancelled(c) \/ \E event \in {"executed", "failed"} : ScriptEnds(c, event)
  PROVE  SkillIInv'
<1>1. ScriptOK(script[c], audit[c], c \in ran) /\ script[c].phase = "running" /\ c \in ran
      /\ audit[c] = <<>> /\ UNCHANGED <<disk, skills, loadFailed, ran>>
  BY DEF SkillIInv, ScriptEnds, ScriptCancelled, ScriptOK
<1>2. ran' = ran \cup {c}
  BY <1>1
<1>3. CASE ScriptCancelled(c)
  <2> DEFINE to == [script[c] EXCEPT !.phase = "cancelled"]
  <2>1. script' = [script EXCEPT ![c] = to] /\ audit' = [audit EXCEPT ![c] = <<>>]
    BY <1>1, <1>3 DEF ScriptCancelled, SkillIInv
  <2>2. ScriptOK(to, <<>>, TRUE)
    BY <1>1 DEF ScriptOK
  <2> HIDE DEF to
  <2> QED BY <1>1, <1>2, <2>1, <2>2, CallHolds
<1>4. ASSUME NEW event, ScriptEnds(c, event) PROVE SkillIInv'
  <2> DEFINE to == [script[c] EXCEPT !.phase = "ended"]
             records == Append(audit[c], [event |-> event, allowed |-> TRUE])
  <2>1. script' = [script EXCEPT ![c] = to] /\ audit' = [audit EXCEPT ![c] = records]
    BY <1>4 DEF ScriptEnds, Recorded
  <2>2. ScriptOK(to, records, TRUE)
    BY <1>1 DEF ScriptOK
  <2> HIDE DEF to, records
  <2> QED BY <1>1, <1>2, <2>1, <2>2, CallHolds
<1> QED BY <1>3, <1>4

LEMMA SkillStepHolds == ASSUME SkillIInv, [SkillNext]_skillVars PROVE SkillIInv'
<1>1. CASE SkillNext
  BY <1>1, DiskHolds, StartsHolds, EndsHolds DEF SkillNext
<1>2. CASE UNCHANGED skillVars
  BY <1>2 DEF skillVars, SkillIInv
<1> QED BY <1>1, <1>2

LEMMA SkillImplies == ASSUME SkillIInv PROVE SkillTypeOK /\ SkillsAccounted
BY DEF SkillIInv, SkillTypeOK, SkillsAccounted, ScriptOK, GoodTables

(* A call that ends has one audit record, which says whether its script    *)
(* was started; and no skill is loaded twice or against the policy,        *)
(* whatever happens to the disk.                                           *)
THEOREM ScriptsStayAccounted == SkillSpec => [](SkillTypeOK /\ SkillsAccounted)
<1>1. SkillIInv /\ [SkillNext]_skillVars => SkillIInv'
  BY SkillStepHolds
<1>2. SkillIInv => SkillTypeOK /\ SkillsAccounted
  BY SkillImplies
<1> QED BY <1>1, <1>2, SkillInitHolds, PTL DEF SkillSpec

--------------------------------------------------------------------------------
(***************************************************************************)
(* output_format: the draft under repair is not valid, and what is         *)
(* delivered is what the report tells of.                                  *)
(***************************************************************************)

Contracts == [type : Formats, strict : BOOLEAN, repair : BOOLEAN, model : BOOLEAN]

(* What the validation of an answer has tried, and what it reports, follow *)
(* from the place it is at.                                                *)
FormatIInv ==
  /\ FormatTypeOK /\ contract \in Contracts
  /\ delivery = "validating" => draft = answer /\ attempts = 0
  /\ delivery \in {"validating", "repairing"} => ~report.made
  /\ delivery = "repairing" => attempts < RepairAttempts /\ contract.repair /\ ~ValidText(answer)
                               /\ answer.wrap # "empty" /\ ~ValidText(draft)
  /\ ContractKept

LEMMA TextFields ==
  ASSUME NEW t \in Text
  PROVE  /\ t.wrap \in {"empty", "prose", "wrapped", "bare"} /\ t.meets \in BOOLEAN
         /\ t.long \in {"no", "as_wrapped", "always"} /\ t.id \in TextIds
         /\ Extracted(t) \in Text /\ Extracted(t).meets = t.meets /\ Extracted(t).long = t.long
         /\ Extracted(t).wrap = (IF t.wrap = "wrapped" THEN "bare" ELSE t.wrap)
         /\ Extracted(Extracted(t)) = Extracted(t)
BY DEF Text, Extracted

(* What is delivered of a valid text is valid, and is that text without    *)
(* its wrapping.                                                           *)
LEMMA ContentFacts ==
  ASSUME NEW t \in Text, contract \in Contracts, ValidText(t)
  PROVE  /\ ContentOf(t) \in Text /\ ValidText(ContentOf(t))
         /\ Extracted(ContentOf(t)) = Extracted(t)
         /\ contract.type = "json_schema" => ContentOf(t).wrap = "bare"
BY TextFields DEF ContentOf, ValidText, HasJson, Long, Contracts

LEMMA FormatInitHolds == FormatInit => FormatIInv
<1> SUFFICES ASSUME FormatInit PROVE FormatIInv
  OBVIOUS
<1>1. RepairAttempts \in Nat /\ 0 \in 0..RepairAttempts
  BY FormatAssumption
<1>2. FormatTypeOK /\ contract \in Contracts
  BY <1>1 DEF FormatInit, FormatTypeOK, NoReport, Contracts
<1>3. ContractKept /\ draft = answer /\ attempts = 0 /\ ~report.made /\ delivery = "validating"
  BY DEF FormatInit, ContractKept, NoReport
<1> QED BY <1>2, <1>3 DEF FormatIInv

(* A delivery of a text that is valid content, or of one that is not       *)
(* valid, the answer's own when that is valid.                             *)
LEMMA DeliverHolds ==
  ASSUME FormatIInv, NEW t \in Text, NEW n \in 0..RepairAttempts, Deliver(t, n),
         UNCHANGED <<contract, answer>>,
         ValidText(t) /\ contract.repair /\ contract.type = "json_schema" => t.wrap = "bare",
         ValidText(answer) => Extracted(t) = Extracted(answer)
  PROVE  FormatIInv'
<1>1. draft' = t /\ attempts' = n /\ delivery' \in {"raised", "returned"}
      /\ (delivery' = "returned" /\ contract.strict => ValidText(t))
  BY DEF Deliver
<1>2. report' = [made |-> TRUE, valid |-> ValidText(t), attempts |-> n, repaired |-> t # answer]
  BY DEF Deliver
<1>3. PICK valid : valid = ValidText(t)
  OBVIOUS
<1>4. valid \in BOOLEAN /\ ValidText(t)' = valid /\ ValidText(draft)' = valid
      /\ ValidText(answer)' = ValidText(answer)
  BY <1>1, <1>3 DEF ValidText, Long, HasJson
<1>5. /\ report' \in [made : BOOLEAN, valid : BOOLEAN, attempts : 0..RepairAttempts, repaired : BOOLEAN]
      /\ report'.made /\ report'.valid = valid
  BY <1>2, <1>3, <1>4
<1>6. FormatTypeOK' /\ contract' \in Contracts
  BY <1>1, <1>5 DEF FormatIInv, FormatTypeOK
<1>7. ContractKept'
  <2>1. Extracted(draft)' = Extracted(t) /\ Extracted(answer)' = Extracted(answer)
    BY <1>1 DEF Extracted
  <2> QED BY <1>1, <1>3, <1>4, <1>5, <2>1 DEF ContractKept
<1> QED BY <1>1, <1>6, <1>7 DEF FormatIInv

LEMMA ValidateHolds == ASSUME FormatIInv, Validate PROVE FormatIInv'
<1>0. answer \in Text /\ 0 \in 0..RepairAttempts /\ RepairAttempts \in Nat
      /\ contract \in Contracts /\ delivery = "validating" /\ draft = answer /\ attempts = 0
      /\ ~report.made /\ contract' = contract /\ answer' = answer
  BY FormatAssumption DEF FormatIInv, FormatTypeOK, Validate
<1>1. CASE /\ answer.wrap = "empty" \/ contract.type = "none"
           /\ delivery' = "returned" /\ UNCHANGED <<draft, attempts, report>>
  <2>1. contract.type = "none" => ValidText(draft)'
    BY <1>0, <1>1 DEF ValidText
  <2>2. ContractKept'
    BY <1>0, <1>1, <2>1 DEF ContractKept
  <2>3. FormatTypeOK' /\ contract' \in Contracts
    BY <1>0, <1>1 DEF FormatIInv, FormatTypeOK
  <2> QED BY <1>0, <1>1, <2>2, <2>3 DEF FormatIInv
<1>2. CASE ~contract.repair /\ Deliver(answer, 0)
  BY <1>0, <1>2, DeliverHolds
<1>3. CASE contract.repair /\ ValidText(answer) /\ Deliver(ContentOf(answer), 0)
  <2>1. PICK t \in Text : t = ContentOf(answer)
    BY <1>0, <1>3, ContentFacts
  <2>2. Extracted(t) = Extracted(answer) /\ (contract.type = "json_schema" => t.wrap = "bare")
    BY <1>0, <1>3, <2>1, ContentFacts
  <2> QED BY <1>0, <1>3, <2>1, <2>2, DeliverHolds
<1>4. CASE contract.repair /\ ~ValidText(answer) /\ Deliver(answer, 0)
  BY <1>0, <1>4, DeliverHolds
<1>5. CASE /\ contract.repair /\ ~ValidText(answer) /\ answer.wrap # "empty" /\ RepairAttempts # 0
           /\ delivery' = "repairing" /\ UNCHANGED <<draft, attempts, report>>
  <2>1. ~ValidText(answer)' /\ ~ValidText(draft)'
    BY <1>0, <1>5 DEF ValidText, Long, HasJson
  <2>2. ContractKept'
    BY <1>0, <1>5, <2>1 DEF ContractKept
  <2>3. FormatTypeOK' /\ contract' \in Contracts
    BY <1>0, <1>5 DEF FormatIInv, FormatTypeOK
  <2>4. attempts' < RepairAttempts
    BY <1>0, <1>5
  <2> QED BY <1>0, <1>5, <2>1, <2>2, <2>3, <2>4 DEF FormatIInv
<1> QED BY <1>1, <1>2, <1>3, <1>4, <1>5 DEF Validate

LEMMA RepairHolds == ASSUME FormatIInv, Repair \/ RepairRaises PROVE FormatIInv'
<1>0. /\ answer \in Text /\ draft \in Text /\ RepairAttempts \in Nat /\ attempts \in Nat
      /\ attempts < RepairAttempts /\ contract \in Contracts /\ delivery = "repairing"
      /\ ~ValidText(answer) /\ ~report.made /\ contract.repair /\ answer.wrap # "empty"
      /\ ~ValidText(draft)
      /\ contract' = contract /\ answer' = answer
  BY FormatAssumption DEF FormatIInv, FormatTypeOK, Repair, RepairRaises
<1>1. attempts + 1 \in 0..RepairAttempts
  BY <1>0
<1>2. CASE RepairRaises
  <2>1. Deliver(draft, attempts + 1)
    BY <1>2 DEF RepairRaises
  <2> QED BY <1>0, <1>1, <2>1, DeliverHolds
<1>3. CASE Repair
  <2>1. PICK t \in Repairs :
          IF ValidText(t) THEN Deliver(ContentOf(t), attempts + 1)
          ELSE IF attempts + 1 = RepairAttempts \/ (t = answer /\ ~contract.model)
          THEN Deliver(t, attempts + 1)
          ELSE /\ draft' = t /\ attempts' = attempts + 1
               /\ UNCHANGED <<delivery, report>>
    BY <1>3 DEF Repair
  <2>2. t \in Text
    BY <1>0, TextFields DEF Repairs, LocalRepair
  <2>3. CASE ValidText(t)
    <3>1. PICK u \in Text : u = ContentOf(t)
      BY <1>0, <2>2, <2>3, ContentFacts
    <3>2. contract.type = "json_schema" => u.wrap = "bare"
      BY <1>0, <2>2, <2>3, <3>1, ContentFacts
    <3>3. Deliver(u, attempts + 1)
      BY <2>1, <2>3, <3>1
    <3> QED BY <1>0, <1>1, <3>2, <3>3, DeliverHolds
  <2>4. CASE ~ValidText(t) /\ Deliver(t, attempts + 1)
    BY <1>0, <1>1, <2>2, <2>4, DeliverHolds
  <2>5. CASE /\ ~ValidText(t) /\ attempts + 1 # RepairAttempts /\ draft' = t /\ attempts' = attempts + 1
             /\ UNCHANGED <<delivery, report>>
    <3>1. ~ValidText(answer)' /\ ~ValidText(draft)'
      BY <1>0, <2>5 DEF ValidText, Long, HasJson
    <3>2. ContractKept'
      BY <1>0, <2>5, <3>1 DEF ContractKept
    <3>3. FormatTypeOK' /\ contract' \in Contracts
      BY <1>0, <1>1, <2>2, <2>5 DEF FormatIInv, FormatTypeOK
    <3>4. attempts' < RepairAttempts
      BY <1>0, <2>5
    <3> QED BY <1>0, <2>5, <3>1, <3>2, <3>3, <3>4 DEF FormatIInv
  <2> QED BY <2>1, <2>3, <2>4, <2>5
<1> QED BY <1>2, <1>3

LEMMA FormatStepHolds == ASSUME FormatIInv, [FormatNext]_formatVars PROVE FormatIInv'
<1>1. CASE FormatNext
  BY <1>1, ValidateHolds, RepairHolds DEF FormatNext
<1>2. CASE UNCHANGED formatVars
  <2>1. ValidText(answer)' = ValidText(answer) /\ ValidText(draft)' = ValidText(draft)
        /\ ContractKept' = ContractKept
    BY <1>2 DEF formatVars, ContractKept, ValidText, Long, HasJson, Extracted
  <2> QED BY <1>2, <2>1 DEF formatVars, FormatIInv, FormatTypeOK
<1> QED BY <1>1, <1>2

(* Whatever the model answers and however often it is asked to repair: a   *)
(* strict contract delivers only what is valid, the report tells what was  *)
(* delivered, and a valid answer is changed in nothing but its wrapping.   *)
THEOREM ContractsAreKept == FormatSpec => [](FormatTypeOK /\ ContractKept)
<1>1. FormatIInv /\ [FormatNext]_formatVars => FormatIInv'
  BY FormatStepHolds
<1>2. FormatIInv => FormatTypeOK /\ ContractKept
  BY DEF FormatIInv
<1> QED BY <1>1, <1>2, FormatInitHolds, PTL DEF FormatSpec
================================================================================
