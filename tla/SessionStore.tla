------------------------------ MODULE SessionStore -----------------------------
(***************************************************************************)
(* The message history of conversations: each agent's SessionManager       *)
(* (core/session_manager.py), a cache with a size limit and a time to      *)
(* live over a MessagePersistence all agents of the engine share           *)
(* (storage/in_memory.py), and the runs that read a history when they      *)
(* begin and write it back after their last event (Agent._execute_stream   *)
(* and _resume_from_workflow_plan).                                        *)
(*                                                                         *)
(* Every operation of a manager runs under its asyncio.Lock, which serves  *)
(* waiting tasks in order: the queue of a scope holds the operations that  *)
(* wait, and the one at its head runs as one step.  Between write-back's   *)
(* get_or_create and its save the lock is given up.                        *)
(*                                                                         *)
(* A history is the sequence of turns it holds messages of.                *)
(***************************************************************************)
EXTENDS Integers, FiniteSets, SequencesExt

CONSTANTS
  Turns,           (* runs with a session id                               *)
  Conversations,   (* one per agent and session id                         *)
  ConversationOf,  (* the conversation of a turn                           *)
  Scopes,          (* the agents' scope ids, one SessionManager for each   *)
  ScopeOf,         (* the scope of a conversation                          *)
  Persistent,      (* whether the engine has a MessagePersistence          *)
  MaxSessions,     (* max_sessions of a manager                            *)
  StoreSessions,   (* max_sessions of InMemoryMessagePersistence           *)
  Ttl,             (* ttl of a manager, in ticks of the clock              *)
  SessionLimit,    (* max_session_concurrent_runs, see Admission           *)
  RunLimit,        (* max_engine_concurrent_runs, see Admission            *)
  Interruptible,   (* phases a turn can be cancelled in                    *)
  MaxTurns,        (* bound: turns that begin                              *)
  MaxTime,         (* bound: the clock                                     *)
  MaxEvents        (* bound: waits of the clock, calls of resume_stream,   *)
                   (* reset_session and get_session, all together          *)

(* The phases in which a turn holds its session slot.                      *)
Active == {"reading", "running", "writing", "saving"}

ASSUME TurnsAssumption ==
  /\ IsFiniteSet(Turns) /\ IsFiniteSet(Conversations)
  /\ ConversationOf \in [Turns -> Conversations]
  /\ ScopeOf \in [Conversations -> Scopes]
ASSUME LimitsAssumption ==
  /\ Persistent \in BOOLEAN
  /\ {MaxSessions, StoreSessions, SessionLimit, RunLimit} \subseteq Nat \ {0}
  /\ {Ttl, MaxTurns, MaxTime, MaxEvents} \subseteq Nat
  /\ Interruptible \subseteq Active

VARIABLES
  phase,           (* new, a phase of Active, refused, left or ended       *)
  seen,            (* the history a turn was given                         *)
  queue,           (* the operations that wait for a manager's lock        *)
  lru,             (* the cached conversations, least recently used first  *)
  messages,        (* Session.messages of a cached conversation            *)
  access,          (* last_access of a cached conversation                 *)
  saves,           (* the persisted conversations, oldest save first       *)
  stored,          (* the persisted history                                *)
  overtaken,       (* history: turns that were resumed, or ran across a    *)
                   (* reset of their conversation                          *)
  now,
  events           (* how often the clock, resume_stream or the host has   *)
                   (* come in between                                      *)

cache == <<lru, messages, access>>
store == <<saves, stored>>
counters == <<now, events>>
vars == <<phase, seen, queue, cache, store, overtaken, counters>>

Histories == UNION {[1..n -> Turns] : n \in 0..Cardinality(Turns)}

(* The operations of the lock's queue.                                     *)
OpsOf(t) == [op : {"read", "write", "save"}, turn : {t}]
TurnOps == UNION {OpsOf(t) : t \in Turns}
HostOps == [op : {"remove", "get"}, of : Conversations] \cup [op : {"clear"}, of : Scopes]

Init ==
  /\ phase = [t \in Turns |-> "new"]
  /\ seen = [t \in Turns |-> <<>>]
  /\ queue = [s \in Scopes |-> <<>>]
  /\ lru = [s \in Scopes |-> <<>>]
  /\ messages = [c \in Conversations |-> <<>>]
  /\ access = [c \in Conversations |-> 0]
  /\ saves = <<>>
  /\ stored = [c \in Conversations |-> <<>>]
  /\ overtaken = {}
  /\ now = 0 /\ events = 0

--------------------------------------------------------------------------------
(* An OrderedDict's keys, and a lock's queue, from which some go: the      *)
(* positions that stay, in order, and what is found there.                 *)
Ordered(I) == [k \in 1..Cardinality(I) |-> CHOOSE i \in I : Cardinality({j \in I : j <= i}) = k]
Only(q, I) == [k \in 1..Cardinality(I) |-> q[Ordered(I)[k]]]
Without(q, C) == Only(q, {i \in DOMAIN q : q[i] \notin C})

--------------------------------------------------------------------------------
(* The manager.                                                            *)

TurnScope(t) == ScopeOf[ConversationOf[t]]

Cached(c) == c \in ToSet(lru[ScopeOf[c]])
Persisted(c) == c \in ToSet(saves)

(* _evict_expired                                                          *)
Expired == {c \in Conversations : Ttl # 0 /\ now - access[c] > Ttl}
Kept(s) == Without(lru[s], Expired)

(* get_or_create: the history it returns, and the cache it leaves.         *)
Hit(c) == c \in ToSet(Kept(ScopeOf[c]))
History(c) ==
  CASE Hit(c) -> messages[c]
    [] ~Hit(c) /\ Persistent /\ Persisted(c) -> stored[c]
    [] OTHER -> <<>>
(* Defects: the newest entry of a full cache is evicted; the cache holds   *)
(* one entry too many.                                                     *)
OpenedEvictsNewest(c) ==
  LET kept == Kept(ScopeOf[c])
  IN  IF Hit(c) THEN Append(Without(kept, {c}), c)
      ELSE Append(IF Len(kept) < MaxSessions THEN kept ELSE Front(kept), c)
OpenedGrows(c) ==
  LET kept == Kept(ScopeOf[c])
      grown == Append(kept, c)
  IN  IF Hit(c) THEN Append(Without(kept, {c}), c)
      ELSE IF Len(kept) > MaxSessions THEN Tail(grown) ELSE grown

Opened(c) ==
  LET kept == Kept(ScopeOf[c])
      grown == Append(kept, c)
  IN  IF Hit(c) THEN Append(Without(kept, {c}), c)
      ELSE IF Len(grown) > MaxSessions THEN Tail(grown) ELSE grown

(* The cache of c's manager becomes the sequence q; what leaves it is      *)
(* forgotten, and c, if it stays, has the history h.                       *)
SetCache(c, q, h) ==
  LET s == ScopeOf[c]
      stays(d) == ScopeOf[d] # s \/ d \in ToSet(q)
  IN  /\ lru' = [lru EXCEPT ![s] = q]
      /\ messages' = [d \in Conversations |->
                        IF ~stays(d) THEN <<>> ELSE IF d = c THEN h ELSE messages[d]]
      /\ access' = [d \in Conversations |->
                        IF ~stays(d) THEN 0 ELSE IF d = c THEN now ELSE access[d]]

(* Defect: a history is only saved the first time.                         *)
PersistOnce(c) ==
  /\ saves' = IF Persisted(c) THEN saves ELSE Append(saves, c)
  /\ stored' = IF Persisted(c) THEN stored ELSE [stored EXCEPT ![c] = messages[c]]

(* InMemoryMessagePersistence.save                                         *)
Persist(c) ==
  LET grown == Append(Without(saves, {c}), c)
      trimmed == IF Len(grown) > StoreSessions THEN Tail(grown) ELSE grown
  IN  /\ saves' = trimmed
      /\ stored' = [d \in Conversations |->
                      IF d \notin ToSet(trimmed) THEN <<>>
                      ELSE IF d = c THEN messages[c] ELSE stored[d]]

(* Conversations C are popped from the cache of scope s, and from the      *)
(* persistence (SessionManager.remove, clear).                             *)
Forget(s, C) ==
  /\ lru' = [lru EXCEPT ![s] = Without(@, C)]
  /\ messages' = [d \in Conversations |-> IF d \in C THEN <<>> ELSE messages[d]]
  /\ access' = [d \in Conversations |-> IF d \in C THEN 0 ELSE access[d]]
  /\ overtaken' = overtaken \cup
       {t \in Turns : phase[t] \in {"running", "writing"} /\ ConversationOf[t] \in C}
  /\ IF Persistent
       THEN /\ saves' = Without(saves, C)
            /\ stored' = [d \in Conversations |-> IF d \in C THEN <<>> ELSE stored[d]]
       ELSE UNCHANGED store

--------------------------------------------------------------------------------
(* The turns.                                                              *)

Enqueue(s, o) == queue' = [queue EXCEPT ![s] = Append(@, o)]
Dequeue(s) == queue' = [queue EXCEPT ![s] = Tail(@)]
AtHead(s, o) == queue[s] # <<>> /\ Head(queue[s]) = o

(* Something comes in between.                                             *)
Event == events < MaxEvents /\ events' = events + 1

(* The slots a run needs are free.                                         *)
Admissible(t) ==
  LET active == {u \in Turns : phase[u] \in Active}
      same == {u \in active : ConversationOf[u] = ConversationOf[t]}
  IN  Cardinality(active) < RunLimit /\ Cardinality(same) < SessionLimit

(* A run is admitted and asks for its session.                             *)
Begin(t) ==
  /\ phase[t] = "new" /\ Admissible(t)
  /\ Cardinality({u \in Turns : phase[u] # "new"}) < MaxTurns
  /\ phase' = [phase EXCEPT ![t] = "reading"]
  /\ Enqueue(TurnScope(t), [op |-> "read", turn |-> t])
  /\ UNCHANGED <<seen, cache, store, overtaken, counters>>

(* get_or_create, and restore_context into the run's own message store.    *)
Read(t) ==
  LET c == ConversationOf[t] IN
  /\ AtHead(TurnScope(t), [op |-> "read", turn |-> t])
  /\ Dequeue(TurnScope(t))
  /\ SetCache(c, Opened(c), History(c))
  /\ phase' = [phase EXCEPT ![t] = "running"]
  /\ seen' = [seen EXCEPT ![t] = History(c)]
  /\ UNCHANGED <<store, overtaken, counters>>

(* The last event was consumed: the run asks for its session again.        *)
Finish(t) ==
  /\ phase[t] = "running"
  /\ phase' = [phase EXCEPT ![t] = "writing"]
  /\ Enqueue(TurnScope(t), [op |-> "write", turn |-> t])
  /\ UNCHANGED <<seen, cache, store, overtaken, counters>>

(* session.messages = executor.message_store.get_all(), then save begins   *)
(* to wait for the lock.                                                   *)
WriteBack(t) ==
  LET c == ConversationOf[t] IN
  /\ AtHead(TurnScope(t), [op |-> "write", turn |-> t])
  /\ queue' = [queue EXCEPT ![TurnScope(t)] = Append(Tail(@), [op |-> "save", turn |-> t])]
  /\ SetCache(c, Opened(c), Append(seen[t], t))
  /\ phase' = [phase EXCEPT ![t] = "saving"]
  /\ UNCHANGED <<seen, store, overtaken, counters>>

(* SessionManager.save                                                     *)
Save(t) ==
  LET c == ConversationOf[t] IN
  /\ AtHead(TurnScope(t), [op |-> "save", turn |-> t])
  /\ Dequeue(TurnScope(t))
  /\ phase' = [phase EXCEPT ![t] = "ended"]
  /\ IF Persistent /\ Cached(c) THEN Persist(c) ELSE UNCHANGED store
  /\ UNCHANGED <<seen, cache, overtaken, counters>>

(* The run ends without its write-back: its task is cancelled, the host    *)
(* stops consuming events, or chat raises on an error event.  A task that  *)
(* waits for the lock leaves the queue.  A run that has begun leaves a     *)
(* checkpoint, except in a plan, whose checkpoints name no session: such a *)
(* run, even when resumed, stays "left" for its session.                   *)
AfterInterrupt(p) ==
  CASE p = "reading" -> "refused"
    [] p = "saving" -> "ended"
    [] OTHER -> "left"

Interrupt(t) ==
  /\ phase[t] \in Interruptible
  /\ phase' = [phase EXCEPT ![t] = AfterInterrupt(@)]
  /\ queue' = [queue EXCEPT ![TurnScope(t)] = Without(@, OpsOf(t))]
  /\ UNCHANGED <<seen, cache, store, overtaken, counters>>

(* resume_stream: the run continues with the messages of its checkpoint;   *)
(* the session is not read again.                                          *)
Resume(t) ==
  /\ phase[t] = "left" /\ Admissible(t)
  /\ Event
  /\ phase' = [phase EXCEPT ![t] = "running"]
  /\ overtaken' = overtaken \cup {t}
  /\ UNCHANGED <<seen, queue, cache, store, now>>

--------------------------------------------------------------------------------
(* The host.                                                               *)

(* reset_session and get_session are called and wait for the lock.         *)
HostCall(s, o) ==
  /\ Event
  /\ s = IF o.op = "clear" THEN o.of ELSE ScopeOf[o.of]
  /\ Enqueue(s, o)
  /\ UNCHANGED <<phase, seen, cache, store, overtaken, now>>

RemoveSession(c) ==
  /\ AtHead(ScopeOf[c], [op |-> "remove", of |-> c])
  /\ Dequeue(ScopeOf[c])
  /\ Forget(ScopeOf[c], {c})
  /\ UNCHANGED <<phase, seen, counters>>

(* Defect: clear() ignores the scope.                                      *)
ScopeSessionsAll(s) == Conversations

ScopeSessions(s) == {c \in Conversations : ScopeOf[c] = s}

ClearSessions(s) ==
  /\ AtHead(s, [op |-> "clear", of |-> s])
  /\ Dequeue(s)
  /\ Forget(s, ScopeSessions(s))
  /\ UNCHANGED <<phase, seen, counters>>

(* SessionManager.get renews the access time, not the LRU position.        *)
GetSession(c) ==
  /\ AtHead(ScopeOf[c], [op |-> "get", of |-> c])
  /\ Dequeue(ScopeOf[c])
  /\ access' = IF Cached(c) THEN [access EXCEPT ![c] = now] ELSE access
  /\ UNCHANGED <<phase, seen, lru, messages, store, overtaken, counters>>

(* The clock counts hours, an operation on the lock takes milliseconds:    *)
(* time passes while no operation waits.                                   *)
Tick ==
  /\ Event
  /\ \A s \in Scopes : queue[s] = <<>>
  /\ now' \in (now + 1)..MaxTime
  /\ UNCHANGED <<phase, seen, queue, cache, store, overtaken>>

TurnStep(t) ==
  \/ Begin(t) \/ Read(t) \/ Finish(t) \/ WriteBack(t) \/ Save(t)
  \/ Interrupt(t) \/ Resume(t)

HostStep ==
  \/ \E s \in Scopes, o \in HostOps : HostCall(s, o)
  \/ \E c \in Conversations : RemoveSession(c) \/ GetSession(c)
  \/ \E s \in Scopes : ClearSessions(s)

Next == (\E t \in Turns : TurnStep(t)) \/ HostStep \/ Tick

Spec == Init /\ [][Next]_vars

--------------------------------------------------------------------------------
TypeOK ==
  /\ phase \in [Turns -> Active \cup {"new", "refused", "left", "ended"}]
  /\ seen \in [Turns -> Histories]
  /\ queue \in [Scopes -> Seq(TurnOps \cup HostOps)]
  /\ lru \in [Scopes -> Seq(Conversations)] /\ saves \in Seq(Conversations)
  /\ \A s \in Scopes :
       /\ IsInjective(lru[s]) /\ Len(lru[s]) <= MaxSessions
       /\ \A i \in DOMAIN lru[s] : ScopeOf[lru[s][i]] = s
  /\ IsInjective(saves) /\ Len(saves) <= StoreSessions
  /\ {messages, stored} \subseteq [Conversations -> Histories]
  /\ access \in [Conversations -> 0..now]
  /\ overtaken \subseteq Turns
  /\ now \in 0..MaxTime /\ events \in 0..MaxEvents

(* The history the next turn of c would be given, were no entry to expire. *)
Log(c) == IF Cached(c) THEN messages[c] ELSE stored[c]

State(t) ==
  CASE phase[t] \in {"new", "reading"} -> "new"
    [] phase[t] \in {"running", "writing"} -> "running"
    [] phase[t] \in {"saving", "ended"} -> "ended"
    [] OTHER -> "left"

Promise == INSTANCE SessionPromise WITH
  log <- [c \in Conversations |-> Log(c)], state <- [t \in Turns |-> State(t)],
  read <- seen, overtaken <- overtaken

(* Whatever is evicted, expires, is loaded again or cleared for another    *)
(* agent, and however turns, resets and resumptions interleave, the        *)
(* conversations behave as the logs of SessionPromise: no turn is lost,    *)
(* repeated, or shown to another conversation.                             *)
KeepsPromise == Promise!Spec

(* Outside a write-back, all of a conversation's history is persisted: the *)
(* process may end at any such point and a new one find it.  Its first     *)
(* part is that of the types, and that the cache keeps its size.           *)
SavedAfterTurn ==
  /\ TypeOK
  /\ Persistent =>
       \A c \in Conversations :
         (\A t \in Turns : ConversationOf[t] = c => phase[t] # "saving") => stored[c] = Log(c)

(* What is evicted from the cache (which only happens when a turn asks for *)
(* its session) is persisted: "persistence is guaranteed by the caller of  *)
(* get_or_create" (_evict_expired).                                        *)
EvictedIsSaved ==
  [][phase' # phase =>
       \A c \in Conversations : Cached(c) /\ ~Cached(c)' => stored[c] = messages[c]]_vars
--------------------------------------------------------------------------------
(* The instance of the run: two turns of c1 and one each of the other      *)
(* conversations, of which c2 belongs to another agent, whose persistence  *)
(* is the same.                                                            *)
FiveTurns ==
  [t \in Turns |-> CASE t = "t3" -> "c2" [] t = "t4" -> "c3" [] t = "t5" -> "c4" [] OTHER -> "c1"]
TwoAgents == [c \in Conversations |-> IF c = "c2" THEN "b" ELSE "a"]
================================================================================
