----------------------------- MODULE InMemoryStores ----------------------------
(***************************************************************************)
(* The bounded in-memory stores of an engine: in storage/in_memory.py the  *)
(* KVStore, whose entries are given up when they are old or were not used  *)
(* for longest, and the message persistence, which keeps the sessions      *)
(* saved last, each under its scope; in runtime/checkpoint.py the          *)
(* checkpoints of the runs used last.  Each call holds the lock of its     *)
(* store: it is one step.                                                  *)
(***************************************************************************)
EXTENDS Integers, FiniteSets, SequencesExt, KeptItems

CONSTANTS
  Keys,
  KvMaxSize,       (* max_size                                             *)
  KvTtl,           (* ttl, 0 for none                                      *)
  Scopes, Names,   (* of sessions                                          *)
  MaxSessions,     (* max_sessions                                         *)
  MaxKvClock       (* bound: time                                          *)

ASSUME StoresAssumption ==
  /\ {KvMaxSize, MaxSessions} \subseteq Nat \ {0} /\ {KvTtl, MaxKvClock} \subseteq Nat
  /\ \A S \in {Keys, Scopes, Names} : IsFiniteSet(S)

VARIABLES
  kvClock,
  data,            (* _data: the keys, the one used longest ago first      *)
  setAt,           (* when the value of a key was set                      *)
  store,           (* _store: the sessions, the one saved first first      *)
  usage            (* history: keys and sessions in the order of their     *)
                   (* last use, for ever                                   *)

storesVars == <<kvClock, data, setAt, store, usage>>

SessionKeys == Scopes \X Names

StoresInit ==
  /\ kvClock = 0
  /\ data = <<>> /\ setAt = [k \in Keys |-> 0]
  /\ store = <<>>
  /\ usage = [kv |-> <<>>, messages |-> <<>>]

(* move_to_end                                                             *)
MovedToEnd(s, x) == Append(Omitting(s, {x}), x)
(* The loop of popitem(last=False).  Defect: the entry used last goes.     *)
CappedAtEnd(s, max) == IF Len(s) > max THEN SubSeq(s, 1, max) ELSE s
Capped(s, max) == IF Len(s) > max THEN SubSeq(s, Len(s) - max + 1, Len(s)) ELSE s

KvTick ==
  /\ kvClock < MaxKvClock
  /\ kvClock' = kvClock + 1
  /\ UNCHANGED <<data, setAt, store, usage>>

KvOld(k) == KvTtl > 0 /\ kvClock - setAt[k] > KvTtl

(* get: nothing, an old entry that is removed, or the value.               *)
(* Defect: what is read does not count as used.                            *)
KvGetUnused(k) ==
  /\ k \in ToSet(data)
  /\ data' = IF KvOld(k) THEN Omitting(data, {k}) ELSE data
  /\ usage' = [usage EXCEPT !.kv = IF KvOld(k) THEN Omitting(@, {k}) ELSE MovedToEnd(@, k)]
  /\ UNCHANGED <<kvClock, setAt, store>>

KvGet(k) ==
  /\ k \in ToSet(data)
  /\ data' = IF KvOld(k) THEN Omitting(data, {k}) ELSE MovedToEnd(data, k)
  /\ usage' = [usage EXCEPT !.kv = IF KvOld(k) THEN Omitting(@, {k}) ELSE MovedToEnd(@, k)]
  /\ UNCHANGED <<kvClock, setAt, store>>

KvSet(k) ==
  /\ data' = Capped(MovedToEnd(data, k), KvMaxSize)
  /\ setAt' = [setAt EXCEPT ![k] = kvClock]
  /\ usage' = [usage EXCEPT !.kv = MovedToEnd(@, k)]
  /\ UNCHANGED <<kvClock, store>>

KvDelete(k) ==
  /\ data' = Omitting(data, {k})
  /\ usage' = [usage EXCEPT !.kv = Omitting(@, {k})]
  /\ UNCHANGED <<kvClock, setAt, store>>

(* list_keys removes the old entries, and uses none.                       *)
KvListKeys ==
  /\ LET old == {k \in ToSet(data) : KvOld(k)} IN
     /\ data' = Omitting(data, old)
     /\ usage' = [usage EXCEPT !.kv = Omitting(@, old)]
  /\ UNCHANGED <<kvClock, setAt, store>>

--------------------------------------------------------------------------------
MessagesSave(key) ==
  /\ store' = Capped(MovedToEnd(store, key), MaxSessions)
  /\ usage' = [usage EXCEPT !.messages = MovedToEnd(@, key)]
  /\ UNCHANGED <<kvClock, data, setAt>>

MessagesDelete(key) ==
  /\ store' = Omitting(store, {key})
  /\ usage' = [usage EXCEPT !.messages = Omitting(@, {key})]
  /\ UNCHANGED <<kvClock, data, setAt>>

(* clear: all sessions of a scope                                          *)
MessagesClear(scope) ==
  /\ LET cleared == {scope} \X Names IN
     /\ store' = Omitting(store, cleared)
     /\ usage' = [usage EXCEPT !.messages = Omitting(@, cleared)]
  /\ UNCHANGED <<kvClock, data, setAt>>

StoresNext ==
  \/ KvTick \/ KvListKeys
  \/ \E k \in Keys : KvGet(k) \/ KvSet(k) \/ KvDelete(k)
  \/ \E key \in SessionKeys : MessagesSave(key) \/ MessagesDelete(key)
  \/ \E scope \in Scopes : MessagesClear(scope)

StoresSpec == StoresInit /\ [][StoresNext]_storesVars

--------------------------------------------------------------------------------
StoresTypeOK ==
  /\ ToSet(data) \subseteq Keys /\ IsInjective(data) /\ Len(data) <= KvMaxSize
  /\ setAt \in [Keys -> 0..MaxKvClock]
  /\ ToSet(store) \subseteq SessionKeys /\ IsInjective(store) /\ Len(store) <= MaxSessions

(* Full stores give up what was used, or saved, longest ago and nothing    *)
(* else: what they hold is the end of the history of what was used and not *)
(* deleted, cleared or found too old since.                                *)
StoresKeepLatest ==
  /\ IsSuffix(data, usage.kv)
  /\ IsSuffix(store, usage.messages)

--------------------------------------------------------------------------------
(***************************************************************************)
(* InMemoryCheckpointStore.  Executions save in any order of their         *)
(* sequence numbers (see Execution, and Collaboration: nested executions   *)
(* share a run id), and a resumption starts from the latest one.           *)
(***************************************************************************)
CONSTANTS
  CkRuns,          (* run ids                                              *)
  CkSequences,     (* sequence numbers                                     *)
  CkStatuses,
  MaxCkRuns,       (* max_runs                                             *)
  MaxPerRun,       (* max_checkpoints_per_run                              *)
  MaxSaves         (* bound: saves                                         *)

ASSUME CheckpointAssumption ==
  /\ CkSequences \subseteq Nat
  /\ {MaxCkRuns, MaxPerRun} \subseteq Nat \ {0} /\ MaxSaves \in Nat

VARIABLES
  ckOrder,         (* the keys of _runs, least recently used first         *)
  ckItems,         (* the checkpoints of a run                             *)
  ckSaved,         (* history: all a run saved since it came into the      *)
                   (* store, in the order of saving                        *)
  ckCount          (* saves so far                                         *)

ckVars == <<ckOrder, ckItems, ckSaved, ckCount>>

Checkpoints == [sequence : CkSequences, status : CkStatuses, id : 1..MaxSaves]

CheckpointInit ==
  /\ ckOrder = <<>>
  /\ ckItems = [r \in CkRuns |-> <<>>]
  /\ ckSaved = [r \in CkRuns |-> <<>>]
  /\ ckCount = 0

(* items.append, and the stable sort by sequence.  Defect: among equals    *)
(* the new one comes first.                                                *)
InsertedFirst(items, c) ==
  LET n == SelectLastInSeq(items, LAMBDA d : d.sequence < c.sequence)
  IN  InsertAt(items, n + 1, c)
Inserted(items, c) ==
  LET n == SelectLastInSeq(items, LAMBDA d : d.sequence <= c.sequence)
  IN  InsertAt(items, n + 1, c)

Trimmed(items) == Capped(items, MaxPerRun)

Used(r) == MovedToEnd(ckOrder, r)

(* Run r leaves the store.                                                 *)
Dropped(f, R) == [r \in CkRuns |-> IF r \in R THEN <<>> ELSE f[r]]

SaveCheckpoint(r, c) ==
  LET grown == Used(r)
      gone == IF Len(grown) > MaxCkRuns THEN {Head(grown)} ELSE {}
  IN
  /\ ckCount < MaxSaves /\ ckCount' = ckCount + 1
  /\ ckOrder' = Capped(grown, MaxCkRuns)
  /\ ckItems' = Dropped([ckItems EXCEPT ![r] = Trimmed(Inserted(@, c))], gone)
  /\ ckSaved' = Dropped([ckSaved EXCEPT ![r] = Append(@, c)], gone)

(* latest, list: the run becomes the one used last.                        *)
ReadRun(r) ==
  /\ ckItems[r] # <<>>
  /\ ckOrder' = Used(r)
  /\ UNCHANGED <<ckItems, ckSaved, ckCount>>

DeleteCkRun(r) ==
  /\ ckOrder' = Omitting(ckOrder, {r})
  /\ ckItems' = Dropped(ckItems, {r})
  /\ ckSaved' = Dropped(ckSaved, {r})
  /\ UNCHANGED ckCount

(* list_runs, of the runs whose latest checkpoint has the status.          *)
ListRuns(status) ==
  Keeping(ckOrder, {i \in DOMAIN ckOrder : Last(ckItems[ckOrder[i]]).status = status})

CheckpointNext ==
  \E r \in CkRuns :
    \/ \E s \in CkSequences, t \in CkStatuses :
         SaveCheckpoint(r, [sequence |-> s, status |-> t, id |-> ckCount + 1])
    \/ ReadRun(r)
    \/ DeleteCkRun(r)

CheckpointSpec == CheckpointInit /\ [][CheckpointNext]_ckVars

--------------------------------------------------------------------------------
CheckpointTypeOK ==
  /\ IsInjective(ckOrder) /\ Len(ckOrder) <= MaxCkRuns
  /\ \A r \in CkRuns : ckItems[r] \in Seq(Checkpoints) /\ Len(ckItems[r]) <= MaxPerRun
  /\ \A r \in CkRuns : ckItems[r] # <<>> <=> r \in ToSet(ckOrder)

(* The order of a run's saves: by sequence, of equals the earlier first.   *)
Before(all, i, j) ==
  \/ all[i].sequence < all[j].sequence
  \/ all[i].sequence = all[j].sequence /\ i < j

(* The items are the last of all in that order: at tells which.            *)
LastOf(items, all, at) ==
  /\ at \in [DOMAIN items -> DOMAIN all]
  /\ \A p \in DOMAIN items : items[p] = all[at[p]]
  /\ \A p, q \in DOMAIN items : p < q => Before(all, at[p], at[q])
  /\ \A j \in DOMAIN all :
       \A p \in DOMAIN items : Before(all, j, at[p]) \/ \E q \in DOMAIN items : at[q] = j

(* Whatever the order of the saves: a run's checkpoints are the highest of *)
(* all it saved, of equal ones those saved last, in order; its latest is   *)
(* the one a resumption has to start from, and the one list_runs goes by.  *)
HighestKept ==
  \A r \in CkRuns :
    LET all == ckSaved[r]
        items == ckItems[r]
    IN  /\ Len(items) = IF Len(all) < MaxPerRun THEN Len(all) ELSE MaxPerRun
        /\ \E at \in [DOMAIN items -> DOMAIN all] : LastOf(items, all, at)
        /\ \A t \in CkStatuses :
             r \in ToSet(ListRuns(t)) <=>
               \E i \in DOMAIN all : /\ all[i].status = t
                                     /\ \A j \in DOMAIN all \ {i} : Before(all, j, i)
================================================================================
