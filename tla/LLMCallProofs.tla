------------------------------ MODULE LLMCallProofs -----------------------------
(***************************************************************************)
(* Proofs about LLMCall, for every kind and number of calls, every limit   *)
(* of chunks and every size of the bridge's queue: what a consumer was     *)
(* shown is what the call returns, and a call that gave no content is      *)
(* tried again.                                                            *)
(*                                                                         *)
(* The events of a call are one stream: those shown, those in the queue    *)
(* and those a blocked put still holds.  Its content is that of the        *)
(* attempt under way, as long as the consumer stays.                       *)
(***************************************************************************)
EXTENDS LLMCall, FiniteSetTheorems, SequenceTheorems, TLAPS

Stays == reader \in {"waiting", "holding"}
Stream == shown \o (queue \o out)
Count(events) == Cardinality(ContentOf(events))
HeardCount == Cardinality(HeardContent)

(* Where the task is says what it holds, and only a bridge has a queue.    *)
TaskState ==
  /\ task = "emitting" <=> out # <<>>
  /\ then \in {"calling", "hooks"}
  /\ result = "broken" => task \in {"done", "marking"}
  /\ task # "idle" => modes # <<>>
  /\ ~Sink => queue = <<>> /\ out = <<>> /\ shown = <<>> /\ reader \notin {"holding", "closing"}

(* A consumer that leaves has told the task so, until the task is done.    *)
ReaderState ==
  /\ doomed => reader = "closing" /\ task \in Busy
  /\ reader = "closing" => doomed \/ task \in {"done", "marking"}
  /\ reader = "closing" /\ ended = "none" => task = "done"
  /\ reader = "over" => task \in {"done", "idle"}
  /\ reader # "over" => ended # "returned" /\ task # "idle"

(* The end marker is the last thing the task puts.                         *)
EndIsLast == \A i \in DOMAIN queue : queue[i] = End => i = Len(queue) /\ task = "done"

(* No delta is lost or repeated between the provider and the consumer.     *)
Conserved == Sink /\ Stays => Count(Stream) = HeardCount
Delivered ==
  Sink /\ ((reader = "closing" /\ ended = "none") \/ (reader = "over" /\ ended = "returned"))
    => Count(shown) = HeardCount
OwnAttempt == \A i \in ContentOf(Stream) : Stream[i].attempt = attempt

(* While the consumer stays, the flag says whether there was content, if   *)
(* it is not left over from a call that had no bridge to reset it.         *)
SilentUnlessEmitted == Sink /\ Stays /\ ~emitted => HeardContent = {}
FlagIsOwn ==
  (\A i \in DOMAIN modes : modes[i] # "direct") /\ emitted =>
    Sink /\ Stays /\ HeardContent # {}
SleepsSilent == task = "sleeping" /\ Mode # "sync" => ~emitted

IInv ==
  /\ TypeOK /\ TaskState /\ ReaderState /\ EndIsLast
  /\ Conserved /\ Delivered /\ OwnAttempt
  /\ SilentUnlessEmitted /\ FlagIsOwn /\ SleepsSilent
  /\ BridgedIsRetried

--------------------------------------------------------------------------------
(* Content of sequences of events.                                         *)
Items == Events \cup {End}

LEMMA ItemKinds == /\ \A e \in Events : e # End /\ e \in Items
                   /\ End \in Items /\ End \notin Events /\ End.kind # "content"
BY DEF Items, Events, End, Kinds

LEMMA ItemsConcat ==
  ASSUME NEW s \in Seq(Items), NEW t \in Seq(Items), NEW u \in Seq(Items)
  PROVE  /\ s \o t \in Seq(Items) /\ t \o u \in Seq(Items)
         /\ (s \o t) \o u = s \o (t \o u)
<1>1. s \o t \in Seq(Items) /\ t \o u \in Seq(Items)
  BY ConcatProperties
<1>2. (s \o t) \o u = s \o (t \o u)
  BY ConcatAssociative
<1> QED BY <1>1, <1>2

LEMMA CountType ==
  ASSUME NEW S, NEW s \in Seq(S)
  PROVE  IsFiniteSet(ContentOf(s)) /\ Count(s) \in Nat
<1>1. DOMAIN s = 1..Len(s) /\ Len(s) \in Nat
  OBVIOUS
<1>2. IsFiniteSet(1..Len(s))
  BY <1>1, FS_Interval
<1>3. ContentOf(s) \in SUBSET (1..Len(s))
  BY <1>1 DEF ContentOf
<1> QED BY <1>2, <1>3, FS_Subset, FS_CardinalityType DEF Count

LEMMA CountAppend ==
  ASSUME NEW s \in Seq(Items), NEW e \in Items
  PROVE  /\ Append(s, e) \in Seq(Items)
         /\ Count(Append(s, e)) = Count(s) + IF e.kind = "content" THEN 1 ELSE 0
         /\ \A i \in ContentOf(Append(s, e)) :
              \/ i \in ContentOf(s) /\ Append(s, e)[i] = s[i]
              \/ e.kind = "content" /\ Append(s, e)[i] = e
<1> DEFINE t == Append(s, e)
           n == Len(s) + 1
<1>1. /\ Len(s) \in Nat /\ DOMAIN s = 1..Len(s) /\ DOMAIN t = 1..n /\ t[n] = e
      /\ t \in Seq(Items) /\ \A i \in DOMAIN s : t[i] = s[i]
  OBVIOUS
<1> HIDE DEF t
<1>2. n \notin ContentOf(s)
  BY <1>1 DEF ContentOf
<1>3. IsFiniteSet(ContentOf(s)) /\ Count(s) \in Nat
  BY CountType
<1>4. CASE e.kind = "content"
  <2>1. ContentOf(t) = ContentOf(s) \cup {n}
    BY <1>1, <1>4 DEF ContentOf
  <2>2. Count(t) = Count(s) + 1
    BY <1>2, <1>3, <2>1, FS_AddElement DEF Count
  <2> QED BY <1>1, <1>4, <2>1, <2>2 DEF t, ContentOf
<1>5. CASE e.kind # "content"
  <2>1. ContentOf(t) = ContentOf(s)
    BY <1>1, <1>5 DEF ContentOf
  <2>2. Count(t) = Count(s)
    BY <2>1 DEF Count
  <2> QED BY <1>1, <1>3, <1>5, <2>1, <2>2 DEF t, ContentOf
<1> QED BY <1>4, <1>5

LEMMA HeardAppend ==
  ASSUME TypeOK, NEW kind \in Kinds, heard' = Append(heard, kind)
  PROVE  /\ HeardCount' = HeardCount + IF kind = "content" THEN 1 ELSE 0
         /\ HeardCount \in Nat
         /\ HeardContent \subseteq HeardContent'
         /\ kind = "content" => HeardContent' # {}
         /\ kind # "content" => HeardContent' = HeardContent
<1> DEFINE n == Len(heard) + 1
<1>1. /\ Len(heard) \in Nat /\ DOMAIN heard = 1..Len(heard) /\ DOMAIN heard' = 1..n
      /\ heard'[n] = kind /\ \A i \in DOMAIN heard : heard'[i] = heard[i]
  BY DEF TypeOK
<1>2. IsFiniteSet(HeardContent) /\ HeardCount \in Nat
  <2>1. IsFiniteSet(1..Len(heard))
    BY <1>1, FS_Interval
  <2>2. HeardContent \in SUBSET (1..Len(heard))
    BY <1>1 DEF HeardContent
  <2> QED BY <2>1, <2>2, FS_Subset, FS_CardinalityType DEF HeardCount
<1>3. n \notin HeardContent
  BY <1>1 DEF HeardContent
<1>4. CASE kind = "content"
  <2>1. HeardContent' = HeardContent \cup {n}
    BY <1>1, <1>4 DEF HeardContent
  <2>2. HeardCount' = HeardCount + 1
    BY <1>2, <1>3, <2>1, FS_AddElement DEF HeardCount
  <2> QED BY <1>2, <1>4, <2>1, <2>2
<1>5. CASE kind # "content"
  <2>1. HeardContent' = HeardContent
    BY <1>1, <1>5 DEF HeardContent
  <2> QED BY <1>2, <1>5, <2>1 DEF HeardCount
<1> QED BY <1>4, <1>5

(* The events of a chunk: its content is at most its last event.           *)
EventKinds == Kinds \cup {"thinkingStart", "thinkingEnd", "start"}
SameContent(t, s) == Count(t) = Count(s) /\ \A i \in ContentOf(t) : i \in ContentOf(s) /\ t[i] = s[i]
OneContent(t, s) ==
  /\ Count(t) = Count(s) + 1
  /\ \A i \in ContentOf(t) : (i \in ContentOf(s) /\ t[i] = s[i]) \/ t[i] = Ev("content")

LEMMA EvType ==
  ASSUME TypeOK, NEW k \in EventKinds
  PROVE  Ev(k) \in Events /\ Ev(k) \in Items /\ Ev(k).kind = k
BY DEF TypeOK, Ev, Events, Items, EventKinds

LEMMA PutOne ==
  ASSUME TypeOK, NEW k \in EventKinds, NEW s \in Seq(Items)
  PROVE  /\ <<Ev(k)>> \in Seq(Events) /\ <<Ev(k)>> \in Seq(Items)
         /\ s \o <<Ev(k)>> \in Seq(Items)
         /\ k # "content" => SameContent(s \o <<Ev(k)>>, s)
         /\ k = "content" => OneContent(s \o <<Ev(k)>>, s)
<1> DEFINE e == Ev(k)
<1>1. e \in Events /\ e \in Items /\ e.kind = k
  BY EvType
<1> HIDE DEF e
<1>2. s \o <<e>> = Append(s, e) /\ <<e>> \in Seq(Events) /\ <<e>> \in Seq(Items)
  BY <1>1, AppendIsConcat
<1>3. Count(s) \in Nat
  BY CountType
<1>4. /\ Append(s, e) \in Seq(Items)
      /\ Count(Append(s, e)) = Count(s) + IF e.kind = "content" THEN 1 ELSE 0
      /\ \A i \in ContentOf(Append(s, e)) :
           \/ i \in ContentOf(s) /\ Append(s, e)[i] = s[i]
           \/ e.kind = "content" /\ Append(s, e)[i] = e
  BY <1>1, CountAppend
<1>5. k = "content" => /\ Count(Append(s, e)) = Count(s) + 1
                       /\ \A i \in ContentOf(Append(s, e)) :
                            (i \in ContentOf(s) /\ Append(s, e)[i] = s[i]) \/ Append(s, e)[i] = e
  BY <1>1, <1>4
<1>6. k # "content" => SameContent(Append(s, e), s)
  <2> SUFFICES ASSUME k # "content" PROVE SameContent(Append(s, e), s)
    OBVIOUS
  <2>1. e.kind # "content"
    BY <1>1
  <2>2. Count(Append(s, e)) = Count(s)
    BY <1>3, <1>4, <2>1
  <2> QED BY <1>4, <2>1, <2>2 DEF SameContent
<1>7. k = "content" => e = Ev("content")
  BY DEF e
<1>8. k = "content" => OneContent(Append(s, e), s)
  BY <1>5, <1>7 DEF OneContent
<1> QED BY <1>2, <1>4, <1>6, <1>8 DEF e

LEMMA PutIf ==
  ASSUME TypeOK, NEW k \in EventKinds, NEW c \in BOOLEAN, NEW s \in Seq(Items), k # "content"
  PROVE  /\ If(c, k) \in Seq(Events) /\ If(c, k) \in Seq(Items)
         /\ s \o If(c, k) \in Seq(Items)
         /\ SameContent(s \o If(c, k), s)
<1>1. CASE c
  BY <1>1, PutOne DEF If
<1>2. CASE ~c
  <2>1. s \o If(c, k) = s /\ If(c, k) = <<>>
    BY <1>2, ConcatEmptySeq DEF If
  <2> QED BY <2>1 DEF SameContent
<1> QED BY <1>1, <1>2

LEMMA DeltaContent ==
  ASSUME TypeOK, NEW kind \in Kinds, NEW s \in Seq(Items)
  PROVE  /\ Delta(kind) \in Seq(Events)
         /\ s \o Delta(kind) \in Seq(Items)
         /\ kind = "content" => OneContent(s \o Delta(kind), s)
         /\ kind # "content" => SameContent(s \o Delta(kind), s)
<1>0. /\ thinking \in BOOLEAN /\ (~thinking) \in BOOLEAN /\ (~started) \in BOOLEAN
      /\ {"thinking", "content", "tool", "thinkingStart", "thinkingEnd", "start"} \subseteq EventKinds
  <2>1. thinking \in BOOLEAN /\ started \in BOOLEAN
    BY DEF TypeOK
  <2>2. (~thinking) \in BOOLEAN /\ (~started) \in BOOLEAN
    BY <2>1, Zenon
  <2>3. {"thinking", "content", "tool", "thinkingStart", "thinkingEnd", "start"} \subseteq EventKinds
    BY DEF EventKinds, Kinds
  <2> QED BY <2>1, <2>2, <2>3
<1>1. CASE kind = "thinking"
  <2> DEFINE a == If(~thinking, "thinkingStart")
             b == <<Ev("thinking")>>
  <2>1. a \in Seq(Events) /\ a \in Seq(Items) /\ s \o a \in Seq(Items) /\ SameContent(s \o a, s)
    BY <1>0, PutIf
  <2>2. b \in Seq(Events) /\ b \in Seq(Items) /\ (s \o a) \o b \in Seq(Items)
        /\ SameContent((s \o a) \o b, s \o a)
    BY <1>0, <2>1, PutOne
  <2>3. Delta(kind) = a \o b
    BY <1>1 DEF Delta
  <2> HIDE DEF a, b
  <2>4. a \o b \in Seq(Events) /\ s \o (a \o b) = (s \o a) \o b
    <3>1. a \o b \in Seq(Events)
      BY <2>1, <2>2, ConcatProperties
    <3>2. s \o (a \o b) = (s \o a) \o b
      BY SMTT(40), <2>1, <2>2, ItemsConcat
    <3> QED BY <3>1, <3>2
  <2> QED BY <1>1, <2>1, <2>2, <2>3, <2>4 DEF SameContent
<1>2. CASE kind = "content"
  <2> DEFINE a == If(thinking, "thinkingEnd")
             b == If(~started, "start")
             c == <<Ev("content")>>
  <2>1. a \in Seq(Events) /\ a \in Seq(Items) /\ s \o a \in Seq(Items) /\ SameContent(s \o a, s)
    BY <1>0, PutIf
  <2>2. b \in Seq(Events) /\ b \in Seq(Items) /\ (s \o a) \o b \in Seq(Items)
        /\ SameContent((s \o a) \o b, s \o a)
    BY <1>0, <2>1, PutIf
  <2>3. c \in Seq(Events) /\ c \in Seq(Items) /\ ((s \o a) \o b) \o c \in Seq(Items)
        /\ OneContent(((s \o a) \o b) \o c, (s \o a) \o b)
    BY <1>0, <2>2, PutOne
  <2>4. Delta(kind) = (a \o b) \o c
    BY <1>2 DEF Delta
  <2> HIDE DEF a, b, c
  <2>5. a \o b \in Seq(Events) /\ a \o b \in Seq(Items)
    BY <2>1, <2>2, ConcatProperties
  <2>6. (a \o b) \o c \in Seq(Events)
    BY <2>3, <2>5, ConcatProperties
  <2>7. s \o ((a \o b) \o c) = ((s \o a) \o b) \o c
    <3>1. s \o ((a \o b) \o c) = (s \o (a \o b)) \o c
      BY SMTT(40), <2>3, <2>5, ItemsConcat
    <3>2. s \o (a \o b) = (s \o a) \o b
      BY SMTT(40), <2>1, <2>2, ItemsConcat
    <3> QED BY <3>1, <3>2
  <2>8. OneContent(((s \o a) \o b) \o c, s)
    BY <2>1, <2>2, <2>3 DEF OneContent, SameContent
  <2> QED BY <1>2, <2>3, <2>4, <2>6, <2>7, <2>8
<1>3. CASE kind = "tool"
  <2>1. Delta(kind) = <<Ev("tool")>>
    BY <1>3 DEF Delta
  <2> QED BY <1>0, <1>3, <2>1, PutOne
<1> QED BY <1>1, <1>2, <1>3 DEF Kinds

--------------------------------------------------------------------------------
(* The puts of the task.                                                   *)
LEMMA StreamType ==
  ASSUME TypeOK
  PROVE  /\ shown \in Seq(Items) /\ queue \in Seq(Items) /\ out \in Seq(Items)
         /\ queue \o out \in Seq(Items) /\ Stream \in Seq(Items)
<1>1. shown \in Seq(Events) /\ out \in Seq(Events) /\ queue \in Seq(Items)
  BY DEF TypeOK, Items
<1>2. Events \subseteq Items
  BY ItemKinds
<1>3. shown \in Seq(Items) /\ out \in Seq(Items)
  BY <1>1, <1>2, SeqMonotonic
<1>4. queue \o out \in Seq(Items)
  BY <1>1, <1>3, ConcatProperties
<1> QED BY <1>1, <1>3, <1>4, ConcatProperties DEF Stream

LEMMA QueueRoom ==
  ASSUME TypeOK
  PROVE  /\ Room \in Nat /\ Len(queue) \in Nat /\ QueueSize \in Nat \ {0}
         /\ Room = QueueSize - Len(queue) /\ Len(queue) <= QueueSize
BY ConstantsAssumption DEF TypeOK, Room

LEMMA EmitFacts ==
  ASSUME TypeOK, NEW events \in Seq(Events), NEW next \in {"calling", "hooks"}, Emit(events, next)
  PROVE  /\ queue' \in Seq(Items) /\ Len(queue') <= QueueSize /\ out' \in Seq(Events)
         /\ Sink => queue' \o out' = queue \o events
         /\ ~Sink => queue' = queue /\ out' = <<>>
         /\ task' = "emitting" <=> out' # <<>>
         /\ task' \in {"emitting", next} /\ then' = next
         /\ \A i \in DOMAIN queue' : queue'[i] = End => i \in DOMAIN queue /\ queue[i] = End
<1> DEFINE n == IF Len(events) <= Room THEN Len(events) ELSE Room
           put == SubSeq(events, 1, n)
           rest == SubSeq(events, n + 1, Len(events))
<1>1. /\ n \in Nat /\ n <= Room /\ n <= Len(events) /\ Len(events) \in Nat
      /\ queue \in Seq(Items) /\ Events \subseteq Items
  BY QueueRoom, StreamType, ItemKinds
<1>2. CASE ~Sink
  <2>1. queue' = queue /\ out' = <<>> /\ task' = next /\ then' = next
    BY <1>2 DEF Emit
  <2> QED BY <1>1, <1>2, <2>1, QueueRoom
<1>3. CASE Sink
  <2>1. /\ queue' = queue \o put /\ out' = rest
        /\ task' = IF rest = <<>> THEN next ELSE "emitting"
        /\ then' = next
    BY <1>3 DEF Emit
  <2> HIDE DEF n
  <2>2. /\ put \in Seq(Events) /\ Len(put) = n /\ \A i \in 1..n : put[i] = events[i]
        /\ rest \in Seq(Events) /\ Len(rest) = Len(events) - n
        /\ \A i \in 1..(Len(events) - n) : rest[i] = events[n + i]
    <3>1. \A i \in 1..Len(events) : events[i] \in Events
      OBVIOUS
    <3>2. put \in Seq(Events) /\ Len(put) = n /\ \A i \in 1..n : put[i] = events[i]
      BY <1>1, <3>1
    <3>3. rest \in Seq(Events) /\ Len(rest) = Len(events) - n
          /\ \A i \in 1..(Len(events) - n) : rest[i] = events[n + i]
      BY <1>1, <3>1
    <3> QED BY <3>2, <3>3
  <2>3. put \in Seq(Items) /\ rest \in Seq(Items) /\ events \in Seq(Items)
    BY <1>1, <2>2, SeqMonotonic
  <2> HIDE DEF put, rest
  <2>4. put \o rest = events
    <3>1. /\ put \o rest \in Seq(Items) /\ Len(put \o rest) = Len(put) + Len(rest)
          /\ \A i \in 1..(Len(put) + Len(rest)) :
               (put \o rest)[i] = IF i <= Len(put) THEN put[i] ELSE rest[i - Len(put)]
      BY <2>3, ConcatProperties
    <3>2. \A i \in 1..Len(events) : (put \o rest)[i] = events[i]
      <4> SUFFICES ASSUME NEW i \in 1..Len(events) PROVE (put \o rest)[i] = events[i]
        OBVIOUS
      <4>1. CASE i <= n
        BY <1>1, <2>2, <3>1, <4>1
      <4>2. CASE i > n
        <5>1. (put \o rest)[i] = rest[i - n] /\ i - n \in 1..(Len(events) - n)
          BY <1>1, <2>2, <3>1, <4>2
        <5>2. rest[i - n] = events[n + (i - n)] /\ n + (i - n) = i
          BY <1>1, <2>2, <5>1
        <5> QED BY <5>1, <5>2
      <4>3. i \in Nat /\ n \in Nat
        BY <1>1
      <4>4. i <= n \/ i > n
        BY <4>3
      <4> QED BY <4>1, <4>2, <4>4
    <3>3. Len(put \o rest) = Len(events)
      BY <1>1, <2>2, <3>1
    <3> DEFINE whole == put \o rest
    <3>4. whole \in Seq(Items) /\ Len(whole) = Len(events) /\ \A i \in 1..Len(whole) : whole[i] = events[i]
      BY <3>1, <3>2, <3>3
    <3> HIDE DEF whole
    <3>5. whole = events
      BY <2>3, <3>4, SeqEqual
    <3> QED BY <3>5 DEF whole
  <2>5. queue' \o out' = queue \o events
    <3>1. (queue \o put) \o rest = queue \o (put \o rest)
      BY <1>1, <2>3, ItemsConcat
    <3> QED BY <2>1, <2>4, <3>1
  <2>6. /\ queue' \in Seq(Items) /\ Len(queue') = Len(queue) + n
        /\ \A i \in 1..(Len(queue) + n) :
             queue'[i] = IF i <= Len(queue) THEN queue[i] ELSE put[i - Len(queue)]
    <3>1. queue \in Seq(Items) /\ put \in Seq(Items) /\ Len(put) = n
      BY <1>1, <2>2, <2>3
    <3>2. /\ queue \o put \in Seq(Items) /\ Len(queue \o put) = Len(queue) + Len(put)
          /\ \A i \in 1..(Len(queue) + Len(put)) :
               (queue \o put)[i] = IF i <= Len(queue) THEN queue[i] ELSE put[i - Len(queue)]
      BY <3>1, ConcatProperties
    <3> QED BY <2>1, <3>1, <3>2
  <2>7. Len(queue') <= QueueSize
    BY <1>1, <2>6, QueueRoom
  <2>8. ASSUME NEW i \in DOMAIN queue', queue'[i] = End
        PROVE  i \in DOMAIN queue /\ queue[i] = End
    <3>1. i \in 1..(Len(queue) + n) /\ Len(queue) \in Nat /\ DOMAIN queue = 1..Len(queue)
      BY <1>1, <2>6, QueueRoom
    <3>2. CASE i > Len(queue)
      <4>1. i - Len(queue) \in 1..n /\ queue'[i] = put[i - Len(queue)]
        BY <1>1, <2>6, <3>1, <3>2
      <4>2. put[i - Len(queue)] \in Events
        BY <1>1, <2>2, <4>1
      <4> QED BY <2>8, <4>1, <4>2, ItemKinds
    <3> QED BY <2>6, <2>8, <3>1, <3>2
  <2> QED BY <1>3, <2>1, <2>2, <2>5, <2>6, <2>7, <2>8
<1> QED BY <1>2, <1>3

(* The stream of a call grows by the events that are put.                  *)
LEMMA StreamGrows ==
  ASSUME TypeOK, NEW events \in Seq(Items), out = <<>>, UNCHANGED shown,
         queue' \o out' = queue \o events
  PROVE  Stream' = Stream \o events /\ Stream = shown \o queue
<1>1. shown \in Seq(Items) /\ queue \in Seq(Items)
  BY StreamType
<1>2. Stream = shown \o queue
  BY <1>1, ConcatEmptySeq DEF Stream
<1>3. Stream' = shown \o (queue \o events)
  BY DEF Stream
<1>4. shown \o (queue \o events) = (shown \o queue) \o events
  BY SMTT(40), <1>1, ItemsConcat
<1> QED BY <1>2, <1>3, <1>4

(* Finish puts the end marker, or leaves it to wait for room.              *)
LEMMA FinishFacts ==
  ASSUME TypeOK, EndIsLast, task # "done", Finish
  PROVE  /\ out' = <<>> /\ task' \in {"done", "marking"}
         /\ queue' \in Seq(Items) /\ Len(queue') <= QueueSize
         /\ queue' = queue \/ (Sink /\ queue' = Append(queue, End) /\ task' = "done")
         /\ \A i \in DOMAIN queue' : queue'[i] = End => i = Len(queue') /\ task' = "done"
<1>1. /\ queue \in Seq(Items) /\ End \in Items /\ Len(queue) \in Nat
      /\ Room \in Nat /\ Room = QueueSize - Len(queue) /\ QueueSize \in Nat
      /\ Len(queue) <= QueueSize
  BY StreamType, ItemKinds, QueueRoom
<1>2. \A i \in DOMAIN queue : queue[i] # End
  BY DEF EndIsLast
<1>3. CASE Sink /\ Room > 0
  <2>1. queue' = Append(queue, End) /\ out' = <<>> /\ task' = "done"
    BY <1>1, <1>3 DEF Finish
  <2> HIDE DEF Sink
  <2> QED BY <1>1, <1>2, <1>3, <2>1
<1>4. CASE ~(Sink /\ Room > 0)
  BY <1>1, <1>2, <1>4 DEF Finish
<1> QED BY <1>3, <1>4

--------------------------------------------------------------------------------
(* The steps.                                                              *)
LEMMA SameMode == UNCHANGED modes => Mode' = Mode /\ Sink' = Sink
BY DEF Mode, Sink

(* A task that works on a call and was not told to stop has a consumer.    *)
LEMMA TaskHasReader ==
  ASSUME IInv, task \in {"calling", "emitting", "sleeping", "hooks"}, ~doomed
  PROVE  Stays /\ result # "broken" /\ modes # <<>> /\ (out = <<>> <=> task # "emitting")
BY DEF IInv, TypeOK, TaskState, ReaderState, Stays, Readers, Busy

LEMMA ModeKinds ==
  ASSUME TypeOK, modes # <<>>
  PROVE  /\ Mode \in {"bridged", "direct", "sync"}
         /\ (\A i \in DOMAIN modes : modes[i] # "direct") => Mode # "direct"
<1>1. Mode = modes[Len(modes)] /\ Len(modes) \in DOMAIN modes
  BY DEF TypeOK, Mode, Last
<1>2. Mode \in Modes
  BY <1>1 DEF TypeOK
<1>3. Modes \subseteq {"bridged", "direct", "sync"}
  BY ConstantsAssumption
<1> QED BY <1>1, <1>2, <1>3

LEMMA Limits == /\ QueueSize \in Nat \ {0} /\ MaxChunks \in Nat \ {0} /\ MaxCalls \in Nat \ {0}
                /\ <<>> \in Seq(Modes) /\ <<>> \in Seq(Kinds) /\ <<>> \in Seq(Events)
                /\ <<>> \in Seq(Events \cup {End}) /\ Len(<<>>) = 0
BY ConstantsAssumption

LEMMA NoContent ==
  ASSUME NEW S, NEW s \in Seq(S), Count(s) = 0
  PROVE  ContentOf(s) = {}
BY CountType, FS_EmptySet DEF Count

LEMMA InitIInv == Init => IInv
<1> SUFFICES ASSUME Init PROVE IInv
  OBVIOUS
<1> USE DEF Init
<1>1. TypeOK
  <2>1. emitted \in BOOLEAN /\ thinking \in BOOLEAN /\ started \in BOOLEAN /\ doomed \in BOOLEAN
    BY Zenon
  <2>2. heard \in Seq(Kinds) /\ Len(heard) <= MaxChunks /\ modes \in Seq(Modes) /\ Len(modes) <= MaxCalls
    BY Limits
  <2>3. queue \in Seq(Events \cup {End}) /\ Len(queue) <= QueueSize /\ out \in Seq(Events) /\ shown \in Seq(Events)
    BY Limits
  <2> QED BY <2>1, <2>2, <2>3 DEF TypeOK, Phases, Busy, Readers
<1>2. TaskState /\ ReaderState /\ EndIsLast
  BY DEF TaskState, ReaderState, EndIsLast
<1>3. Mode = "none" /\ ~Sink
  BY DEF Mode, Sink
<1>4. Stream = <<>> /\ ContentOf(Stream) = {}
  BY DEF Stream, ContentOf
<1>5. Conserved /\ Delivered /\ OwnAttempt /\ SilentUnlessEmitted /\ FlagIsOwn /\ SleepsSilent
  BY <1>3, <1>4 DEF Conserved, Delivered, OwnAttempt, SilentUnlessEmitted, FlagIsOwn, SleepsSilent
<1>6. BridgedIsRetried
  BY DEF BridgedIsRetried, RetriedUnlessPartial
<1> QED BY <1>1, <1>2, <1>5, <1>6 DEF IInv

LEMMA BeginIInv ==
  ASSUME IInv, NEW m \in Modes, Begin(m)
  PROVE  IInv'
<1> USE DEF Begin
<1>1. TypeOK'
  <2>1. modes' \in Seq(Modes) /\ Len(modes') <= MaxCalls
    BY ConstantsAssumption DEF IInv, TypeOK
  <2>2. emitted' \in BOOLEAN
    BY DEF IInv, TypeOK
  <2> HIDE DEF Begin
  <2>3. /\ heard' = <<>> /\ thinking' = FALSE /\ started' = FALSE /\ doomed' = FALSE
        /\ task' = "calling" /\ then' = "calling" /\ attempt' = 1 /\ out' = <<>> /\ shown' = <<>>
        /\ queue' = <<>> /\ result' = "none" /\ reader' = "waiting" /\ ended' = "none"
    BY DEF Begin
  <2>4. thinking' \in BOOLEAN /\ started' \in BOOLEAN /\ doomed' \in BOOLEAN
    BY <2>3, Zenon
  <2>5. heard' \in Seq(Kinds) /\ Len(heard') <= MaxChunks
    BY <2>3, Limits
  <2>6. queue' \in Seq(Events \cup {End}) /\ Len(queue') <= QueueSize /\ out' \in Seq(Events) /\ shown' \in Seq(Events)
    BY <2>3, Limits
  <2> QED BY <2>1, <2>2, <2>3, <2>4, <2>5, <2>6 DEF TypeOK, Phases, Busy, Readers
<1>2. TaskState' /\ ReaderState' /\ EndIsLast'
  BY DEF IInv, TypeOK, TaskState, ReaderState, EndIsLast, Busy
<1>3. Stream' = <<>> /\ ContentOf(Stream)' = {} /\ HeardContent' = {}
  BY DEF Stream, ContentOf, HeardContent
<1>4. Conserved' /\ Delivered' /\ OwnAttempt' /\ SilentUnlessEmitted' /\ SleepsSilent'
  BY <1>3 DEF Conserved, Delivered, OwnAttempt, SilentUnlessEmitted, SleepsSilent, Count, HeardCount
<1>5. FlagIsOwn'
  <2>1. \A i \in DOMAIN modes : i \in DOMAIN modes' /\ modes'[i] = modes[i]
    BY DEF IInv, TypeOK
  <2>2. ~Stays
    BY DEF Stays
  <2> QED BY <2>1, <2>2 DEF IInv, FlagIsOwn
<1>6. BridgedIsRetried'
  BY DEF BridgedIsRetried, RetriedUnlessPartial
<1> QED BY <1>1, <1>2, <1>4, <1>5, <1>6 DEF IInv

LEMMA ChunkIInv ==
  ASSUME IInv, NEW kind \in Kinds, Chunk(kind)
  PROVE  IInv'
<1>0. /\ TypeOK /\ task = "calling" /\ ~doomed /\ Mode # "sync" /\ Len(heard) < MaxChunks
      /\ heard' = Append(heard, kind) /\ emitted' = (emitted \/ kind = "content")
      /\ Emit(Delta(kind), "calling") /\ UNCHANGED <<modes, attempt, result, doomed, reader, shown, ended>>
      /\ Stays /\ result # "broken" /\ modes # <<>> /\ out = <<>>
      /\ Mode' = Mode /\ Sink' = Sink
  BY TaskHasReader, SameMode DEF IInv, Chunk
<1>1. Delta(kind) \in Seq(Events) /\ Delta(kind) \in Seq(Items)
  <2>1. <<>> \in Seq(Items) /\ Events \subseteq Items
    BY ItemKinds
  <2>2. Delta(kind) \in Seq(Events)
    BY <1>0, <2>1, DeltaContent
  <2> QED BY <2>1, <2>2, SeqMonotonic
<1>2. /\ queue' \in Seq(Items) /\ Len(queue') <= QueueSize /\ out' \in Seq(Events)
      /\ Sink => queue' \o out' = queue \o Delta(kind)
      /\ ~Sink => queue' = queue /\ out' = <<>>
      /\ task' = "emitting" <=> out' # <<>>
      /\ task' \in {"emitting", "calling"} /\ then' = "calling"
      /\ \A i \in DOMAIN queue' : queue'[i] = End => i \in DOMAIN queue /\ queue[i] = End
  BY <1>0, <1>1, EmitFacts
<1>3. TypeOK'
  <2>1. heard' \in Seq(Kinds) /\ Len(heard') <= MaxChunks
    BY <1>0, ConstantsAssumption DEF TypeOK
  <2>2. emitted' \in BOOLEAN /\ thinking' \in BOOLEAN /\ started' \in BOOLEAN
    <3>1. (emitted \/ kind = "content") \in BOOLEAN /\ (kind = "thinking") \in BOOLEAN
          /\ (started \/ (Sink /\ kind = "content")) \in BOOLEAN
      BY Zenon
    <3>2. thinking \in BOOLEAN
      BY <1>0 DEF TypeOK
    <3>3. thinking' \in {(kind = "thinking"), thinking}
      BY DEF Chunk
    <3>4. started' = (started \/ (Sink /\ kind = "content"))
      BY DEF Chunk
    <3> QED BY <1>0, <3>1, <3>2, <3>3, <3>4
  <2> QED BY <1>0, <1>2, <2>1, <2>2 DEF TypeOK, Phases, Busy, Items
<1>4. TaskState' /\ ReaderState' /\ EndIsLast'
  <2>1. TaskState'
    BY <1>0, <1>2 DEF IInv, TaskState
  <2>2. ReaderState'
    BY <1>0, <1>2 DEF IInv, ReaderState, Stays, Busy
  <2>3. EndIsLast'
    BY <1>0, <1>2 DEF IInv, EndIsLast
  <2> QED BY <2>1, <2>2, <2>3
<1>5. /\ HeardCount' = HeardCount + IF kind = "content" THEN 1 ELSE 0
      /\ HeardCount \in Nat /\ HeardContent \subseteq HeardContent'
      /\ kind = "content" => HeardContent' # {}
      /\ kind # "content" => HeardContent' = HeardContent
  BY <1>0, HeardAppend
<1>6. Delivered' /\ Stays' /\ SleepsSilent'
  BY <1>0, <1>2 DEF Delivered, Stays, SleepsSilent
<1>7. SilentUnlessEmitted'
  BY <1>0, <1>5 DEF IInv, SilentUnlessEmitted
<1>8. FlagIsOwn'
  BY <1>0, <1>5, <1>6, ModeKinds DEF IInv, FlagIsOwn, Sink
<1>9. BridgedIsRetried'
  BY <1>0 DEF BridgedIsRetried, RetriedUnlessPartial
<1>10. Conserved' /\ OwnAttempt'
  <2>1. CASE ~Sink
    <3>1. Stream' = Stream
      BY <1>0, <1>2, <2>1 DEF Stream
    <3> QED BY <1>0, <2>1, <3>1 DEF IInv, Conserved, OwnAttempt
  <2>2. CASE Sink
    <3>1. Stream' = Stream \o Delta(kind) /\ Stream \in Seq(Items)
      BY <1>0, <1>1, <1>2, <2>2, StreamGrows, StreamType
    <3>2. /\ kind = "content" => OneContent(Stream', Stream)
          /\ kind # "content" => SameContent(Stream', Stream)
      BY <1>0, <3>1, DeltaContent
    <3>3. Count(Stream) = HeardCount
      BY <1>0, <2>2 DEF IInv, Conserved
    <3>4. Conserved'
      BY <1>5, <3>2, <3>3 DEF Conserved, OneContent, SameContent, Count
    <3>5. OwnAttempt'
      BY <1>0, <3>2 DEF IInv, OwnAttempt, OneContent, SameContent, Ev
    <3> QED BY <3>4, <3>5
  <2> QED BY <2>1, <2>2
<1> QED BY <1>3, <1>4, <1>6, <1>7, <1>8, <1>9, <1>10 DEF IInv

(* What a prefix of the stream holds, the stream holds.                    *)
LEMMA PrefixContent ==
  ASSUME NEW s \in Seq(Items), NEW t \in Seq(Items)
  PROVE  \A i \in ContentOf(s) : i \in ContentOf(s \o t) /\ (s \o t)[i] = s[i]
<1>1. /\ s \o t \in Seq(Items) /\ Len(s \o t) = Len(s) + Len(t)
      /\ \A i \in 1..(Len(s) + Len(t)) :
           (s \o t)[i] = IF i <= Len(s) THEN s[i] ELSE t[i - Len(s)]
  BY ConcatProperties
<1>2. DOMAIN s = 1..Len(s) /\ Len(s) \in Nat /\ Len(t) \in Nat
      /\ DOMAIN (s \o t) = 1..Len(s \o t)
  BY <1>1
<1> QED BY <1>1, <1>2 DEF ContentOf

(* A step that leaves the chunks and the stream of the attempt as they are.*)
LEMMA SameStreamIInv ==
  ASSUME IInv, TypeOK', TaskState', ReaderState', EndIsLast', BridgedIsRetried',
         UNCHANGED <<modes, attempt, heard, emitted, reader, ended, shown>>,
         Stream' = Stream, task' = "sleeping" => SleepsSilent'
  PROVE  IInv'
<1>1. Mode' = Mode /\ Sink' = Sink /\ Stays' = Stays
  BY SameMode DEF Stays
<1>2. HeardContent' = HeardContent /\ HeardCount' = HeardCount /\ Count(Stream)' = Count(Stream)
      /\ Count(shown)' = Count(shown) /\ ContentOf(Stream)' = ContentOf(Stream)
  BY DEF HeardContent, HeardCount, Count, ContentOf
<1>3. Conserved' /\ Delivered' /\ OwnAttempt' /\ SilentUnlessEmitted'
  BY <1>1, <1>2 DEF IInv, Conserved, Delivered, OwnAttempt, SilentUnlessEmitted
<1>4. FlagIsOwn'
  BY <1>1, <1>2 DEF IInv, FlagIsOwn
<1>5. SleepsSilent'
  BY DEF SleepsSilent
<1> QED BY <1>3, <1>4, <1>5 DEF IInv

LEMMA CompleteIInv ==
  ASSUME IInv, Complete
  PROVE  IInv'
<1> DEFINE events == If(thinking, "thinkingEnd")
<1>0. /\ TypeOK /\ task = "calling" /\ ~doomed /\ Mode # "sync" /\ result' = "message" /\ thinking' = FALSE
      /\ Emit(events, "hooks")
      /\ UNCHANGED <<modes, emitted, attempt, heard, started, doomed, reader, shown, ended>>
      /\ Stays /\ modes # <<>> /\ out = <<>> /\ Mode' = Mode /\ Sink' = Sink
  BY TaskHasReader, SameMode DEF IInv, Complete
<1>1. Stream \in Seq(Items) /\ thinking \in BOOLEAN /\ "thinkingEnd" \in EventKinds
  BY <1>0, StreamType DEF TypeOK, EventKinds
<1>2. events \in Seq(Events) /\ events \in Seq(Items) /\ SameContent(Stream \o events, Stream)
  BY <1>0, <1>1, PutIf
<1> HIDE DEF events
<1>3. /\ queue' \in Seq(Items) /\ Len(queue') <= QueueSize /\ out' \in Seq(Events)
      /\ Sink => queue' \o out' = queue \o events
      /\ ~Sink => queue' = queue /\ out' = <<>>
      /\ task' = "emitting" <=> out' # <<>>
      /\ task' \in {"emitting", "hooks"} /\ then' = "hooks"
      /\ \A i \in DOMAIN queue' : queue'[i] = End => i \in DOMAIN queue /\ queue[i] = End
  BY <1>0, <1>2, EmitFacts
<1>4. TypeOK'
  <2>1. thinking' \in BOOLEAN
    BY <1>0, Zenon
  <2> QED BY <1>0, <1>3, <2>1 DEF TypeOK, Phases, Busy, Items
<1>5. TaskState' /\ ReaderState' /\ EndIsLast'
  <2>1. TaskState'
    BY <1>0, <1>3 DEF IInv, TaskState
  <2>2. ReaderState'
    BY <1>0, <1>3 DEF IInv, ReaderState, Stays, Busy
  <2>3. EndIsLast'
    BY <1>0, <1>3 DEF IInv, EndIsLast
  <2> QED BY <2>1, <2>2, <2>3
<1>6. SameContent(Stream', Stream)
  <2>1. CASE Sink
    BY <1>0, <1>2, <1>3, <2>1, StreamGrows
  <2>2. CASE ~Sink
    BY <1>0, <1>3, <2>2 DEF Stream, SameContent
  <2> QED BY <2>1, <2>2
<1>7. HeardContent' = HeardContent /\ HeardCount' = HeardCount /\ Stays'
  BY <1>0 DEF HeardContent, HeardCount, Stays
<1>8. Conserved' /\ OwnAttempt'
  BY <1>0, <1>6, <1>7 DEF IInv, Conserved, OwnAttempt, SameContent, Count
<1>9. Delivered' /\ SilentUnlessEmitted' /\ FlagIsOwn' /\ SleepsSilent' /\ BridgedIsRetried'
  BY <1>0, <1>3, <1>7
     DEF IInv, Delivered, SilentUnlessEmitted, FlagIsOwn, SleepsSilent, Stays, BridgedIsRetried,
         RetriedUnlessPartial
<1> QED BY <1>4, <1>5, <1>8, <1>9 DEF IInv

(* A step of the task that puts nothing: the answer of a chat, the wait    *)
(* before the retry, and the cancellation of a put.                        *)
LEMMA NoPutIInv ==
  ASSUME IInv, Answer \/ (Break /\ Sleep) \/ (Interrupt /\ task = "marking")
  PROVE  IInv'
<1> USE DEF Answer, Break, Sleep, Interrupt
<1>0. /\ TypeOK /\ UNCHANGED <<modes, emitted, attempt, heard, reader, shown, ended, queue, out>>
      /\ Mode' = Mode /\ Sink' = Sink
  BY SameMode DEF IInv, attempts, emission
<1>1. TypeOK'
  <2>1. thinking' \in BOOLEAN /\ started' \in BOOLEAN /\ doomed' \in BOOLEAN
    <3>1. FALSE \in BOOLEAN
      BY Zenon
    <3> QED BY <1>0, <3>1 DEF TypeOK, attempts
  <2> QED BY <1>0, <2>1 DEF TypeOK, Phases, Busy, attempts, emission
<1>2. TaskState' /\ ReaderState' /\ EndIsLast'
  <2>1. TaskState'
    BY <1>0 DEF IInv, TaskState, attempts, emission
  <2>2. ReaderState'
    BY <1>0 DEF IInv, ReaderState, Busy, TaskState
  <2>3. EndIsLast'
    BY <1>0 DEF IInv, EndIsLast
  <2> QED BY <2>1, <2>2, <2>3
<1>3. Stream' = Stream
  BY <1>0 DEF Stream
<1>4. BridgedIsRetried'
  BY <1>0 DEF IInv, BridgedIsRetried, RetriedUnlessPartial
<1>5. task' = "sleeping" => SleepsSilent'
  BY <1>0 DEF SleepsSilent, RetryAllowed
<1> QED BY <1>0, <1>1, <1>2, <1>3, <1>4, <1>5, SameStreamIInv

(* The attempt starts over: it was silent, or had no bridge.               *)
LEMMA AttemptIInv ==
  ASSUME IInv, ~doomed, task \in {"calling", "sleeping"}, Mode # "sync" => ~emitted,
         NEW n \in {2, 3}, Attempt(n),
         UNCHANGED <<modes, emitted, out, then, result, doomed, queue, reader, shown, ended>>
  PROVE  IInv'
<1> USE DEF Attempt
<1>0. TypeOK /\ Stays /\ result # "broken" /\ modes # <<>> /\ Mode' = Mode /\ Sink' = Sink
  BY TaskHasReader, SameMode DEF IInv
<1>1. TypeOK'
  <2>1. thinking' \in BOOLEAN /\ started' \in BOOLEAN
    BY Zenon
  <2>2. heard' \in Seq(Kinds) /\ Len(heard') <= MaxChunks
    BY Limits
  <2> QED BY <1>0, <2>1, <2>2 DEF TypeOK, Phases, Busy
<1>2. TaskState' /\ ReaderState' /\ EndIsLast'
  <2>1. TaskState'
    BY <1>0 DEF IInv, TaskState
  <2>2. ReaderState'
    BY <1>0 DEF IInv, ReaderState, Busy, Stays
  <2>3. EndIsLast'
    BY <1>0 DEF IInv, EndIsLast
  <2> QED BY <2>1, <2>2, <2>3
<1>3. Stream' = Stream /\ HeardContent' = {} /\ HeardCount' = 0 /\ Cardinality({}) = 0 /\ Stays'
  BY <1>0, FS_EmptySet DEF Stream, HeardContent, HeardCount, Stays
<1>4. Sink => Count(Stream) = 0 /\ ContentOf(Stream) = {}
  <2> SUFFICES ASSUME Sink PROVE Count(Stream) = 0 /\ ContentOf(Stream) = {}
    OBVIOUS
  <2>1. HeardContent = {}
    BY <1>0 DEF IInv, SilentUnlessEmitted, Sink
  <2>2. Count(Stream) = 0
    BY <1>0, <1>3, <2>1 DEF IInv, Conserved, HeardCount
  <2> QED BY <1>0, <2>2, StreamType, NoContent
<1>5. ~Sink => ContentOf(Stream) = {}
  BY DEF IInv, TaskState, Stream, ContentOf
<1>6. Conserved' /\ OwnAttempt'
  BY <1>0, <1>3, <1>4, <1>5 DEF Conserved, OwnAttempt, Count
<1>7. Delivered' /\ SilentUnlessEmitted' /\ SleepsSilent' /\ BridgedIsRetried'
  BY <1>0, <1>3 DEF Delivered, Stays, SilentUnlessEmitted, SleepsSilent, BridgedIsRetried, RetriedUnlessPartial
<1>8. FlagIsOwn'
  <2>1. (\A i \in DOMAIN modes : modes[i] # "direct") => ~emitted
    BY <1>0 DEF IInv, FlagIsOwn, Sink
  <2> QED BY <1>0, <2>1 DEF FlagIsOwn
<1> QED BY <1>1, <1>2, <1>6, <1>7, <1>8 DEF IInv

(* The call is left: by an error, by hooks that have run, by the last      *)
(* attempt, or because the consumer has left, which loses what was put.    *)
LEMMA FinishIInv ==
  ASSUME IInv, task \in Busy, Finish, doomed' = FALSE, BridgedIsRetried',
         ~doomed => out = <<>>, result' \in {"none", "message", "error", "broken"},
         UNCHANGED <<modes, emitted, attempts, then, reader, shown, ended>>
  PROVE  IInv'
<1>0. /\ TypeOK /\ EndIsLast /\ task # "done" /\ task # "idle" /\ Mode' = Mode /\ Sink' = Sink
      /\ UNCHANGED <<modes, emitted, attempt, heard, thinking, started, then, reader, shown, ended>>
  BY SameMode DEF IInv, Busy, attempts
<1>1. /\ out' = <<>> /\ task' \in {"done", "marking"}
      /\ queue' \in Seq(Items) /\ Len(queue') <= QueueSize
      /\ queue' = queue \/ (Sink /\ queue' = Append(queue, End) /\ task' = "done")
      /\ \A i \in DOMAIN queue' : queue'[i] = End => i = Len(queue') /\ task' = "done"
  BY <1>0, FinishFacts
<1>2. TypeOK'
  <2>1. doomed' \in BOOLEAN
    BY Zenon
  <2> QED BY <1>0, <1>1, <2>1, Limits DEF TypeOK, Phases, Busy, Items
<1>3. TaskState' /\ ReaderState' /\ EndIsLast'
  <2>1. TaskState'
    BY <1>0, <1>1 DEF IInv, TaskState
  <2>2. ReaderState'
    BY <1>0, <1>1 DEF IInv, ReaderState
  <2>3. EndIsLast'
    BY <1>1 DEF EndIsLast
  <2> QED BY <2>1, <2>2, <2>3
<1>4. /\ shown \in Seq(Items) /\ queue \in Seq(Items) /\ out \in Seq(Items) /\ shown \o queue \in Seq(Items)
      /\ End \in Items /\ End.kind # "content"
  BY <1>0, StreamType, ItemKinds, ConcatProperties
<1>5. Stream' = shown \o queue' /\ Stream = (shown \o queue) \o out
  <2>1. queue' \o <<>> = queue'
    BY <1>1, ConcatEmptySeq
  <2>2. (shown \o queue) \o out = shown \o (queue \o out)
    BY <1>4, ItemsConcat
  <2> QED BY <1>0, <1>1, <2>1, <2>2 DEF Stream
<1>6. SameContent(Stream', shown \o queue)
  <2>1. CASE queue' = queue
    BY <1>5, <2>1 DEF SameContent
  <2>2. CASE queue' = Append(queue, End)
    <3>1. shown \o Append(queue, End) = Append(shown \o queue, End)
      <4>1. queue \o <<End>> = Append(queue, End) /\ <<End>> \in Seq(Items)
        BY <1>4, AppendIsConcat
      <4>2. shown \o (queue \o <<End>>) = (shown \o queue) \o <<End>>
        BY <1>4, <4>1, ItemsConcat
      <4>3. (shown \o queue) \o <<End>> = Append(shown \o queue, End)
        BY <1>4, AppendIsConcat
      <4> QED BY <4>1, <4>2, <4>3
    <3> DEFINE before == shown \o queue
    <3>2. before \in Seq(Items) /\ Stream' = Append(before, End)
      BY <1>4, <1>5, <2>2, <3>1
    <3> HIDE DEF before
    <3>3. /\ Count(Append(before, End)) = Count(before) + 0 /\ Count(before) \in Nat
          /\ \A i \in ContentOf(Append(before, End)) : i \in ContentOf(before) /\ Append(before, End)[i] = before[i]
      BY <1>4, <3>2, CountAppend, CountType
    <3>4. SameContent(Append(before, End), before)
      <4>1. Count(Append(before, End)) = Count(before)
        BY <3>3
      <4> QED BY <3>3, <4>1 DEF SameContent
    <3> QED BY <3>2, <3>4 DEF before
  <2> QED BY <1>1, <2>1, <2>2
<1>7. HeardContent' = HeardContent /\ HeardCount' = HeardCount
  BY <1>0 DEF HeardContent, HeardCount
<1>8. OwnAttempt'
  <2>1. \A i \in ContentOf(shown \o queue) : i \in ContentOf(Stream) /\ Stream[i] = (shown \o queue)[i]
    BY <1>4, <1>5, PrefixContent
  <2> QED BY <1>0, <1>6, <2>1 DEF IInv, OwnAttempt, SameContent
<1>9. Conserved'
  <2> SUFFICES ASSUME Sink, Stays PROVE Count(Stream') = HeardCount
    BY <1>0, <1>7 DEF Conserved, Stays, Count
  <2>1. out = <<>>
    BY DEF IInv, ReaderState, Stays
  <2>2. Stream = shown \o queue
    BY <1>4, <1>5, <2>1, ConcatEmptySeq
  <2> QED BY <1>6, <2>2 DEF IInv, Conserved, SameContent
<1>10. Delivered' /\ SilentUnlessEmitted' /\ FlagIsOwn' /\ SleepsSilent'
  BY <1>0, <1>1, <1>7
     DEF IInv, ReaderState, Delivered, SilentUnlessEmitted, FlagIsOwn, SleepsSilent, Stays
<1> QED BY <1>2, <1>3, <1>8, <1>9, <1>10 DEF IInv

LEMMA LeftIInv ==
  ASSUME IInv, Hooked \/ Fail \/ (Break /\ GiveUp) \/ (Interrupt /\ task # "marking")
                 \/ (Flush /\ task = "marking")
  PROVE  IInv'
<1> USE DEF Hooked, Fail, Break, GiveUp, Interrupt, Flush
<1>1. /\ task \in Busy /\ Finish /\ doomed' = FALSE
      /\ UNCHANGED <<modes, emitted, attempts, then, reader, shown, ended>>
  BY DEF IInv, TypeOK, Busy
<1>2. ~doomed => out = <<>>
  BY DEF IInv, TaskState
<1>3. result' \in {"none", "message", "error", "broken"}
  BY DEF IInv, TypeOK
<1>4. BridgedIsRetried'
  <2>1. CASE result' = result \/ result' # "broken"
    BY <1>1, <2>1 DEF IInv, BridgedIsRetried, RetriedUnlessPartial, attempts
  <2>2. CASE Break /\ GiveUp
    <3> SUFFICES ASSUME \A i \in DOMAIN modes : modes[i] # "direct", attempt < LastAttempt
                 PROVE  Contains(heard, "content")
      BY <1>1 DEF BridgedIsRetried, RetriedUnlessPartial, attempts
    <3>1. emitted
      BY <2>2 DEF LastAttempt, RetryAllowed, IInv, TypeOK
    <3>2. HeardContent # {}
      BY <3>1 DEF IInv, FlagIsOwn
    <3> QED BY <3>2 DEF HeardContent, Contains, IInv, TypeOK
  <2> QED BY <2>1, <2>2
<1> QED BY <1>1, <1>2, <1>3, <1>4, FinishIInv

(* A put that waited goes on.                                              *)
LEMMA FlushIInv ==
  ASSUME IInv, Flush, task = "emitting"
  PROVE  IInv'
<1>0. /\ TypeOK /\ ~doomed /\ Emit(out, then) /\ then \in {"calling", "hooks"} /\ out \in Seq(Events)
      /\ UNCHANGED <<modes, emitted, attempt, heard, thinking, started, result, doomed, reader, shown, ended>>
      /\ Stays /\ result # "broken" /\ modes # <<>> /\ Mode' = Mode /\ Sink' = Sink
      /\ out # <<>> /\ Sink
  BY TaskHasReader, SameMode DEF IInv, Flush, TaskState, TypeOK, attempts
<1>1. /\ queue' \in Seq(Items) /\ Len(queue') <= QueueSize /\ out' \in Seq(Events)
      /\ queue' \o out' = queue \o out
      /\ task' = "emitting" <=> out' # <<>>
      /\ task' \in {"emitting", then} /\ then' = then
      /\ \A i \in DOMAIN queue' : queue'[i] = End => i \in DOMAIN queue /\ queue[i] = End
  BY <1>0, EmitFacts
<1>2. TypeOK'
  BY <1>0, <1>1 DEF TypeOK, Phases, Busy, Items
<1>3. TaskState' /\ ReaderState' /\ EndIsLast'
  <2>1. TaskState'
    BY <1>0, <1>1 DEF IInv, TaskState
  <2>2. ReaderState'
    BY <1>0, <1>1 DEF IInv, ReaderState, Stays, Busy
  <2>3. EndIsLast'
    BY <1>0, <1>1 DEF IInv, EndIsLast
  <2> QED BY <2>1, <2>2, <2>3
<1>4. Stream' = Stream
  BY <1>0, <1>1 DEF Stream
<1>5. BridgedIsRetried' /\ task' # "sleeping"
  BY <1>0, <1>1 DEF IInv, BridgedIsRetried, RetriedUnlessPartial
<1> QED BY <1>0, <1>2, <1>3, <1>4, <1>5, SameStreamIInv

LEMMA TaskStepIInv ==
  ASSUME IInv, TaskStep
  PROVE  IInv'
<1>1. CASE \E kind \in Kinds : Chunk(kind)
  BY <1>1, ChunkIInv
<1>2. CASE Complete
  BY <1>2, CompleteIInv
<1>3. CASE Answer \/ (Break /\ Sleep)
  BY <1>3, NoPutIInv
<1>4. CASE Hooked \/ Fail \/ (Break /\ GiveUp)
  BY <1>4, LeftIInv
<1>5. CASE Break /\ FallBack
  BY <1>5, AttemptIInv DEF Break, FallBack, RetryAllowed
<1>6. CASE Retry
  BY <1>6, AttemptIInv DEF Retry, emission, IInv, SleepsSilent
<1>7. CASE Flush
  BY <1>7, FlushIInv, LeftIInv DEF Flush
<1>8. CASE Interrupt
  BY <1>8, NoPutIInv, LeftIInv
<1> QED BY <1>1, <1>2, <1>3, <1>4, <1>5, <1>6, <1>7, <1>8 DEF TaskStep, Break

--------------------------------------------------------------------------------
(* The consumer.                                                           *)

(* The consumer leaves the stream: nothing of the call changes.            *)
LEMMA CloseIInv ==
  ASSUME IInv, Stays, Sink, Close, ended' \in {"dropped", "cancelled"},
         UNCHANGED <<modes, task, attempts, emission, result, queue, shown>>
  PROVE  IInv'
<1>0. /\ TypeOK /\ Mode' = Mode /\ Sink' = Sink
      /\ UNCHANGED <<modes, task, attempt, heard, thinking, started, out, then, result, queue, shown>>
      /\ reader' = "closing" /\ doomed' = (task # "done") /\ emitted' = FALSE
  BY SameMode DEF IInv, Close, attempts, emission
<1>1. TypeOK'
  <2>1. doomed' \in BOOLEAN /\ emitted' \in BOOLEAN
    BY <1>0, Zenon
  <2> QED BY <1>0, <2>1 DEF TypeOK, Readers
<1>2. TaskState' /\ EndIsLast'
  BY <1>0 DEF IInv, TaskState, EndIsLast
<1>3. ReaderState'
  <2>1. task \in Busy \cup {"done"}
    BY DEF IInv, TypeOK, ReaderState, Phases, Stays
  <2> QED BY <1>0, <2>1 DEF ReaderState, Busy
<1>4. Stream' = Stream
  BY <1>0 DEF Stream
<1>5. OwnAttempt'
  BY <1>0, <1>4 DEF IInv, OwnAttempt, ContentOf
<1>6. Conserved' /\ Delivered' /\ SilentUnlessEmitted' /\ FlagIsOwn' /\ SleepsSilent'
  BY <1>0 DEF Conserved, Delivered, SilentUnlessEmitted, FlagIsOwn, SleepsSilent, Stays
<1>7. BridgedIsRetried'
  BY <1>0 DEF IInv, BridgedIsRetried, RetriedUnlessPartial
<1> QED BY <1>1, <1>2, <1>3, <1>5, <1>6, <1>7 DEF IInv

(* The end marker is read: all of the stream has been shown.               *)
LEMMA ReadEndIInv ==
  ASSUME IInv, Read, Head(queue) = End
  PROVE  IInv'
<1>0. /\ TypeOK /\ Sink /\ reader = "waiting" /\ queue # <<>> /\ queue' = Tail(queue)
      /\ reader' = "closing" /\ doomed' = (task # "done") /\ emitted' = FALSE
      /\ UNCHANGED <<modes, task, attempt, heard, thinking, started, out, then, result, shown, ended>>
      /\ Mode' = Mode /\ Sink' = Sink
  BY SameMode DEF IInv, Read, Close, attempts, emission
<1>1. queue \in Seq(Items) /\ shown \in Seq(Items) /\ End \in Items /\ End.kind # "content"
  BY <1>0, StreamType, ItemKinds
<1>2. 1 \in DOMAIN queue /\ queue[1] = End
  BY <1>0, <1>1 DEF Read
<1>3. task = "done" /\ Len(queue) = 1
  BY <1>2 DEF IInv, EndIsLast
<1>4. queue' = <<>> /\ out = <<>> /\ queue = <<End>>
  BY <1>0, <1>1, <1>2, <1>3 DEF IInv, TaskState
<1>5. Stream = Append(shown, End) /\ Stream' = shown
  <2>1. queue \o out = <<End>> /\ queue' \o out' = <<>>
    BY <1>0, <1>1, <1>4, ConcatEmptySeq
  <2>2. shown \o <<End>> = Append(shown, End) /\ shown \o <<>> = shown
    BY <1>1, AppendIsConcat, ConcatEmptySeq
  <2> QED BY <1>0, <2>1, <2>2 DEF Stream
<1>6. /\ Count(Append(shown, End)) = Count(shown) + 0 /\ Count(shown) \in Nat
  BY <1>1, CountAppend, CountType
<1>7. TypeOK'
  <2>1. doomed' \in BOOLEAN /\ emitted' \in BOOLEAN
    BY <1>0, Zenon
  <2> QED BY <1>0, <1>4, <2>1, Limits DEF TypeOK, Readers
<1>8. TaskState' /\ EndIsLast' /\ ReaderState'
  <2>1. TaskState'
    BY <1>0, <1>3, <1>4 DEF IInv, TaskState
  <2>2. EndIsLast'
    BY <1>4 DEF EndIsLast
  <2>3. doomed' = FALSE /\ task' = "done" /\ reader' = "closing"
    BY <1>0, <1>3
  <2>4. ReaderState'
    BY <1>0, <2>3 DEF IInv, ReaderState
  <2> QED BY <2>1, <2>2, <2>4
<1>9. Count(shown) = HeardCount
  BY <1>0, <1>5, <1>6 DEF IInv, Conserved, Stays
<1>10. Delivered'
  <2>1. HeardCount' = HeardCount /\ Count(shown)' = Count(shown)
    BY <1>0 DEF HeardCount, HeardContent, Count, ContentOf
  <2> QED BY <1>9, <2>1 DEF Delivered
<1>11. OwnAttempt'
  <2>1. shown \o <<End>> = Stream /\ <<End>> \in Seq(Items)
    BY <1>1, <1>5, AppendIsConcat
  <2>2. \A i \in ContentOf(shown) : i \in ContentOf(Stream) /\ Stream[i] = shown[i]
    BY <1>1, <2>1, PrefixContent
  <2> QED BY <1>0, <1>5, <2>2 DEF IInv, OwnAttempt
<1>12. Conserved' /\ SilentUnlessEmitted' /\ FlagIsOwn' /\ SleepsSilent' /\ BridgedIsRetried'
  BY <1>0 DEF IInv, Conserved, SilentUnlessEmitted, FlagIsOwn, SleepsSilent, Stays, BridgedIsRetried,
              RetriedUnlessPartial
<1> QED BY <1>7, <1>8, <1>10, <1>11, <1>12 DEF IInv

(* An event is read: it moves from the queue to what was shown.            *)
LEMMA ReadEventIInv ==
  ASSUME IInv, Read, Head(queue) # End
  PROVE  IInv'
<1> DEFINE e == Head(queue)
           left == Tail(queue)
<1>0. /\ TypeOK /\ Sink /\ reader = "waiting" /\ queue # <<>> /\ queue' = left
      /\ reader' = "holding" /\ shown' = Append(shown, e)
      /\ UNCHANGED <<modes, task, attempt, heard, thinking, started, out, then, result, emitted, doomed, ended>>
      /\ Mode' = Mode /\ Sink' = Sink
  BY SameMode DEF IInv, Read, attempts, emission
<1>1. /\ queue \in Seq(Items) /\ shown \in Seq(Items) /\ out \in Seq(Items) /\ e \in Items /\ e \in Events
      /\ left \in Seq(Items) /\ Len(left) = Len(queue) - 1 /\ Len(queue) \in Nat
      /\ \A i \in DOMAIN left : i + 1 \in DOMAIN queue /\ left[i] = queue[i + 1] /\ i \in Nat
      /\ queue = <<e>> \o left
  <2>1. queue \in Seq(Items) /\ shown \in Seq(Items) /\ out \in Seq(Items)
    BY <1>0, StreamType
  <2>2. e \in Items /\ e # End
    BY <1>0, <2>1
  <2>3. e \in Events
    BY <2>2 DEF Items
  <2>4. queue = <<e>> \o left
    BY <1>0, <2>1
  <2> QED BY <1>0, <2>1, <2>2, <2>3, <2>4
<1> HIDE DEF e, left
<1>2. TypeOK'
  <2>1. shown' \in Seq(Events)
    BY <1>0, <1>1 DEF TypeOK
  <2>2. queue' \in Seq(Events \cup {End}) /\ Len(queue') <= QueueSize
    BY <1>0, <1>1, QueueRoom DEF Items
  <2> QED BY <1>0, <2>1, <2>2 DEF TypeOK, Readers
<1>3. TaskState' /\ EndIsLast' /\ ReaderState'
  <2>1. TaskState' /\ ReaderState'
    BY <1>0 DEF IInv, TaskState, ReaderState
  <2>2. EndIsLast'
    BY <1>0, <1>1 DEF IInv, EndIsLast
  <2> QED BY <2>1, <2>2
<1>4. Stream' = Stream
  <2>1. Append(shown, e) = shown \o <<e>> /\ <<e>> \in Seq(Items) /\ left \o out \in Seq(Items)
    <3>1. Append(shown, e) = shown \o <<e>> /\ <<e>> \in Seq(Items)
      BY <1>1, AppendIsConcat
    <3> QED BY <1>1, <3>1, ItemsConcat
  <2>t. shown \in Seq(Items) /\ <<e>> \in Seq(Items) /\ left \in Seq(Items) /\ out \in Seq(Items)
    BY <1>1, <2>1
  <2>2. (shown \o <<e>>) \o (left \o out) = shown \o (<<e>> \o (left \o out))
    BY SMTT(40), <2>t, <2>1, ItemsConcat
  <2>3. <<e>> \o (left \o out) = (<<e>> \o left) \o out
    BY <2>t, ItemsConcat
  <2> QED BY <1>0, <1>1, <2>1, <2>2, <2>3 DEF Stream
<1>5. Stays /\ Stays' /\ HeardContent' = HeardContent /\ HeardCount' = HeardCount
      /\ Count(Stream)' = Count(Stream) /\ ContentOf(Stream)' = ContentOf(Stream)
  BY <1>0, <1>4 DEF Stays, HeardContent, HeardCount, Count, ContentOf
<1>6. Conserved' /\ OwnAttempt' /\ SilentUnlessEmitted' /\ FlagIsOwn' /\ SleepsSilent'
  BY <1>0, <1>4, <1>5 DEF IInv, Conserved, OwnAttempt, SilentUnlessEmitted, FlagIsOwn, SleepsSilent
<1>7. Delivered' /\ BridgedIsRetried'
  BY <1>0 DEF IInv, Delivered, BridgedIsRetried, RetriedUnlessPartial
<1> QED BY <1>2, <1>3, <1>6, <1>7 DEF IInv

(* The consumer goes on, is cancelled once more, or is given the end.      *)
LEMMA ReaderMovesIInv ==
  ASSUME IInv, GoOn \/ Closed \/ (Cancel /\ (reader = "closing" \/ ~Sink))
  PROVE  IInv'
<1> USE DEF GoOn, Closed, Cancel
<1>0. /\ TypeOK /\ Mode' = Mode /\ Sink' = Sink
      /\ UNCHANGED <<modes, emitted, attempt, heard, thinking, started, out, then, result, queue, shown>>
  BY SameMode DEF IInv, attempts, emission, TaskState
<1>1. Stream' = Stream /\ ContentOf(Stream)' = ContentOf(Stream) /\ HeardContent' = HeardContent
      /\ HeardCount' = HeardCount /\ Count(Stream)' = Count(Stream) /\ Count(shown)' = Count(shown)
  BY <1>0 DEF Stream, ContentOf, HeardContent, HeardCount, Count
<1>2. CASE GoOn
  <2>1. /\ reader = "holding" /\ reader' = "waiting" /\ Stays /\ Stays'
        /\ UNCHANGED <<task, doomed, ended>>
    BY <1>2 DEF Stays
  <2>2. TypeOK'
    BY <1>0, <2>1 DEF TypeOK, Readers
  <2>3. TaskState' /\ EndIsLast' /\ ReaderState'
    BY <1>0, <2>1 DEF IInv, TaskState, EndIsLast, ReaderState
  <2>4. Conserved' /\ OwnAttempt' /\ SilentUnlessEmitted' /\ FlagIsOwn' /\ SleepsSilent' /\ Delivered'
    BY <1>0, <1>1, <2>1
       DEF IInv, Conserved, OwnAttempt, SilentUnlessEmitted, FlagIsOwn, SleepsSilent, Delivered
  <2> QED BY <1>0, <2>2, <2>3, <2>4 DEF IInv, BridgedIsRetried, RetriedUnlessPartial
<1>3. CASE Closed
  <2>1. /\ reader = (IF Sink THEN "closing" ELSE "waiting") /\ task = "done" /\ reader' = "over"
        /\ ended' = IF ended # "none" THEN ended
                    ELSE IF result = "message" THEN "returned" ELSE "failed"
        /\ UNCHANGED <<task, doomed>>
    BY <1>3
  <2>2. TypeOK'
    BY <1>0, <2>1 DEF TypeOK, Readers
  <2>3. TaskState' /\ EndIsLast' /\ ReaderState'
    BY <1>0, <2>1 DEF IInv, TaskState, EndIsLast, ReaderState, Busy
  <2>4. FlagIsOwn'
    BY <1>0, <2>1 DEF IInv, FlagIsOwn, Stays
  <2>5. Delivered'
    BY <1>0, <1>1, <2>1 DEF IInv, Delivered, ReaderState
  <2>6. Conserved' /\ OwnAttempt' /\ SilentUnlessEmitted' /\ SleepsSilent'
    BY <1>0, <1>1, <2>1 DEF IInv, Conserved, OwnAttempt, SilentUnlessEmitted, SleepsSilent, Stays
  <2> QED BY <1>0, <2>2, <2>3, <2>4, <2>5, <2>6 DEF IInv, BridgedIsRetried, RetriedUnlessPartial
<1>4. CASE /\ reader = "closing" /\ task # "done" /\ doomed' = TRUE
           /\ UNCHANGED <<task, reader, ended>>
  <2>1. doomed' \in BOOLEAN
    BY <1>4, Zenon
  <2>2. TypeOK'
    BY <1>0, <1>4, <2>1 DEF TypeOK, Readers
  <2>3. TaskState' /\ EndIsLast' /\ ReaderState'
    <3>1. task \in Busy
      BY <1>4 DEF IInv, TypeOK, ReaderState, Phases
    <3> QED BY <1>0, <1>4, <3>1 DEF IInv, TaskState, EndIsLast, ReaderState
  <2>4. Conserved' /\ OwnAttempt' /\ SilentUnlessEmitted' /\ FlagIsOwn' /\ SleepsSilent' /\ Delivered'
    BY <1>0, <1>1, <1>4
       DEF IInv, Conserved, OwnAttempt, SilentUnlessEmitted, FlagIsOwn, SleepsSilent, Delivered, Stays
  <2> QED BY <1>0, <2>2, <2>3, <2>4 DEF IInv, BridgedIsRetried, RetriedUnlessPartial
<1>5. CASE /\ ~Sink /\ reader = "waiting" /\ task # "done" /\ task' = "done" /\ reader' = "over"
           /\ ended' = "cancelled" /\ UNCHANGED doomed
  <2>1. TypeOK'
    BY <1>0, <1>5 DEF TypeOK, Readers, Phases
  <2>2. TaskState' /\ EndIsLast' /\ ReaderState'
    BY <1>0, <1>5 DEF IInv, TaskState, EndIsLast, ReaderState
  <2>3. FlagIsOwn'
    BY <1>0, <1>5 DEF IInv, FlagIsOwn
  <2>4. Conserved' /\ OwnAttempt' /\ SilentUnlessEmitted' /\ SleepsSilent' /\ Delivered'
    BY <1>0, <1>1, <1>5
       DEF IInv, Conserved, OwnAttempt, SilentUnlessEmitted, SleepsSilent, Delivered
  <2> QED BY <1>0, <2>1, <2>2, <2>3, <2>4 DEF IInv, BridgedIsRetried, RetriedUnlessPartial
<1> QED BY <1>2, <1>3, <1>4, <1>5

LEMMA NextIInv ==
  ASSUME IInv, [Next]_vars
  PROVE  IInv'
<1>1. CASE UNCHANGED vars
  <2>1. UNCHANGED <<modes, emitted, task, attempt, heard, thinking, started, out, then, result, doomed, queue,
                    reader, shown, ended>>
    BY <1>1 DEF vars, attempts, emission
  <2>2. TypeOK' /\ TaskState' /\ ReaderState' /\ EndIsLast' /\ BridgedIsRetried'
    BY <2>1, SameMode
       DEF IInv, TypeOK, TaskState, ReaderState, EndIsLast, BridgedIsRetried, RetriedUnlessPartial
  <2>3. Stream' = Stream
    BY <2>1 DEF Stream
  <2>4. SleepsSilent'
    BY <2>1, SameMode DEF IInv, SleepsSilent
  <2> QED BY <2>1, <2>2, <2>3, <2>4, SameStreamIInv
<1>2. CASE \E m \in Modes : Begin(m)
  BY <1>2, BeginIInv
<1>3. CASE TaskStep
  BY <1>3, TaskStepIInv
<1>4. CASE ReaderStep
  BY <1>4, ReadEndIInv, ReadEventIInv, ReaderMovesIInv DEF ReaderStep
<1>5. CASE Drop
  BY <1>5, CloseIInv DEF Drop, Stays, IInv, TaskState
<1>6. CASE Cancel
  BY <1>6, CloseIInv, ReaderMovesIInv DEF Cancel, Stays
<1> QED BY <1>1, <1>2, <1>3, <1>4, <1>5, <1>6 DEF Next

(* The inductive invariant.                                                *)
THEOREM Invariance == Spec => []IInv
<1>1. IInv /\ [Next]_vars => IInv'
  BY NextIInv
<1> QED BY InitIInv, <1>1, PTL DEF Spec

(* What the consumer of a bridged call was shown is the content of the     *)
(* message the call returns, whatever broke, waited or was retried.        *)
THEOREM ShownAsReturned == Spec => []ShownIsReturned
<1>1. IInv => ShownIsReturned
  <2> SUFFICES ASSUME IInv, ended = "returned", Sink
               PROVE  /\ Count(shown) = HeardCount
                      /\ \A i \in ContentOf(shown) : shown[i] = Ev("content")
    BY DEF IInv, ShownIsReturned, Count, HeardCount
  <2>1. reader = "over"
    BY DEF IInv, ReaderState
  <2>2. Count(shown) = HeardCount
    BY <2>1 DEF IInv, Delivered
  <2>3. shown \in Seq(Items) /\ queue \o out \in Seq(Items) /\ shown \in Seq(Events)
    BY StreamType DEF IInv, TypeOK
  <2>4. ASSUME NEW i \in ContentOf(shown) PROVE shown[i] = Ev("content")
    <3>1. shown[i].attempt = attempt
      BY <2>3, PrefixContent DEF IInv, OwnAttempt, Stream
    <3>2. shown[i] \in Events /\ shown[i].kind = "content"
      BY <2>3 DEF ContentOf
    <3> QED BY <3>1, <3>2 DEF Events, Ev
  <2> QED BY <2>2, <2>4
<1> QED BY <1>1, Invariance, PTL

(* Without a call that streams around the bridge, a call that broke before *)
(* it gave content has used up its attempts.                               *)
THEOREM RetriedBeforePartial == Spec => []BridgedIsRetried
<1>1. IInv => BridgedIsRetried
  BY DEF IInv
<1> QED BY <1>1, Invariance, PTL
================================================================================
