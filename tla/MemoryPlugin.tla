------------------------------ MODULE MemoryPlugin -----------------------------
(***************************************************************************)
(* The memory plugin (plugins/builtin/memory/plugin.py): one instance      *)
(* serves all runs of an agent.  Memories belong to scopes (tenant, user,  *)
(* agent) and are persisted in a KVStore; the plugin works on the memories *)
(* of the scope it loaded last, and keeps those of every scope it loaded.  *)
(*                                                                         *)
(* Handlers that change memories hold the plugin's lock; inject_context    *)
(* takes none.  The store is the in-memory one, whose calls never suspend: *)
(* a handler is one step, but for the extraction, which awaits a model     *)
(* while it holds the lock.                                                *)
(*                                                                         *)
(* A memory is a fact and the scope of the run that stated it; facts that  *)
(* are alike (char_similarity) are one fact.                               *)
(***************************************************************************)
EXTENDS Integers, FiniteSets

CONSTANTS
  MemUsers,           (* runs of the agent                                    *)
  MemScopes,
  ScopeOfUser,     (* MemoryScopeResolver.scope_id of a run                *)
  Facts,
  Lasting,         (* facts of the identity and lesson layers              *)
  Importance,      (* of a fact                                            *)
  MaxMemories,     (* max_memories, 0 for no limit                         *)
  TopK,            (* how many memories a context or a search shows        *)
  Overlapping,     (* whether runs of the agent may overlap                *)
  StoreMayFail,    (* whether reading the store may fail                   *)
  MaxRestarts      (* bound: restarts of the process                       *)

NoScope == "default"   (* the scope without a run                          *)

ASSUME MemoryAssumption ==
  /\ ScopeOfUser \in [MemUsers -> MemScopes] /\ NoScope \notin MemScopes
  /\ Lasting \subseteq Facts /\ Importance \in [Facts -> Nat]
  /\ MaxMemories \in Nat /\ TopK \in Nat \ {0} /\ MaxRestarts \in Nat
  /\ {Overlapping, StoreMayFail} \subseteq BOOLEAN

VARIABLES
  userPhase,       (* new, injected, running, extracting (the lock is held) *)
                   (* or ended                                             *)
  active,          (* _active_scope                                        *)
  working,         (* the memories of MemoryService and _memories          *)
  cached,          (* the scopes of _scope_cache ...                       *)
  scopeCache,      (* ... and the memories it has of them                  *)
  kv,              (* the memories the store holds under a scope's prefix  *)
  persisting,      (* background tasks: a scope and the touched memories   *)
  shown,           (* the memories a run that goes on was shown last       *)
  restarts

view == <<active, working, cached, scopeCache>>
memVars == <<userPhase, view, kv, persisting, shown, restarts>>

Memories == [fact : Facts, owner : MemScopes]
Phases == {"new", "injected", "running", "extracting", "ended"}

MemoryInit ==
  /\ userPhase = [u \in MemUsers |-> "new"]
  /\ active = NoScope
  /\ working = {}
  /\ cached = {}
  /\ scopeCache = [s \in MemScopes \cup {NoScope} |-> {}]
  /\ kv = [s \in MemScopes |-> {}]
  /\ persisting = {}
  /\ shown = [u \in MemUsers |-> {}]
  /\ restarts = 0

LockFree == \A u \in MemUsers : userPhase[u] # "extracting"
To(u, phase) == userPhase' = [userPhase EXCEPT ![u] = phase]

--------------------------------------------------------------------------------
(* _load_memories: the memories of scope s, from the cache or the store,   *)
(* or, when the store fails, those that were there.                        *)
Loads(s) ==
  IF s \in cached THEN {[ms |-> scopeCache[s], ok |-> TRUE]}
  ELSE {[ms |-> kv[s], ok |-> TRUE]} \cup
       {[ms |-> working, ok |-> FALSE] : fails \in {StoreMayFail} \cap {TRUE}}

(* The memories become ms (_sync_memories_view) while s is active.         *)
WorkOn(s, ms) ==
  /\ active' = s
  /\ working' = ms
  /\ cached' = cached \cup {s}
  /\ scopeCache' = [scopeCache EXCEPT ![s] = ms]

(* Nothing but the load happens.                                           *)
Load(s, load) ==
  IF load.ok THEN WorkOn(s, load.ms)
  ELSE active' = s /\ UNCHANGED <<working, cached, scopeCache>>

(* MemoryService.retrieve and hybrid_search: no more than TopK of the      *)
(* memories, whatever they score.                                          *)
Retrieved(ms) == {R \in SUBSET ms : Cardinality(R) <= TopK}

(* _enforce_capacity: the sets of memories that may be removed.            *)
Weakest(V, ms) == \A v \in V, m \in ms \ V : Importance[v.fact] <= Importance[m.fact]
Victims(ms) ==
  IF MaxMemories = 0 \/ Cardinality(ms) <= MaxMemories THEN {{}}
  ELSE {V \in SUBSET ms : Cardinality(ms \ V) = MaxMemories /\ Weakest(V, ms)}

(* _add_memory of fact f, by a run of scope s, to the memories ms while    *)
(* scope a is active: a fact alike one of them is merged into it, and what *)
(* is in the end kept of the two is saved.                                 *)
(* Defect: what is removed to make room stays in the store.                *)
AddNoDelete(s, f, a, ms) ==
  LET same == {m \in ms : m.fact = f}
      new == IF same = {} THEN {[fact |-> f, owner |-> s]} ELSE same
  IN  \E V \in Victims(ms \cup new) :
        /\ WorkOn(a, (ms \cup new) \ V)
        /\ kv' = [kv EXCEPT ![s] = @ \cup (new \ V)]

AddMemory(s, f, a, ms) ==
  LET same == {m \in ms : m.fact = f}
      new == IF same = {} THEN {[fact |-> f, owner |-> s]} ELSE same
  IN  \E V \in Victims(ms \cup new) :
        /\ WorkOn(a, (ms \cup new) \ V)
        /\ kv' = [kv EXCEPT ![s] = (@ \ V) \cup (new \ V)]

--------------------------------------------------------------------------------
(* The hooks of a run.                                                     *)

(* inject_context, which the executor calls before on_execution_start: it  *)
(* is synchronous and takes no lock, and the memories it shows are those   *)
(* of whichever scope was loaded last.  They count as accessed: that is    *)
(* saved in the background.                                                *)
InjectContext(u) ==
  /\ userPhase[u] = "new"
  /\ Overlapping \/ \A v \in MemUsers : userPhase[v] \in {"new", "ended"}
  /\ To(u, "injected")
  /\ WorkOn(ScopeOfUser[u], working)
  /\ \E R \in Retrieved(working) :
       /\ shown' = [shown EXCEPT ![u] = R]
       /\ persisting' = IF R = {} THEN persisting
                         ELSE persisting \cup {[scope |-> ScopeOfUser[u], ids |-> R]}
  /\ UNCHANGED <<kv, restarts>>

OnExecutionStart(u) ==
  /\ userPhase[u] = "injected" /\ LockFree
  /\ To(u, "running")
  /\ \E load \in Loads(ScopeOfUser[u]) : Load(ScopeOfUser[u], load)
  /\ UNCHANGED <<kv, persisting, shown, restarts>>

(* _persist_memories as a background task: it saves, under its run's       *)
(* scope, those of its memories that are in use when it runs.              *)
(* Defect: it saves what it was asked to.                                  *)
TouchedAtAll(task) == task.ids
Touched(task) == task.ids \cap working

PersistTask(task) ==
  /\ persisting' = persisting \ {task}
  /\ kv' = [kv EXCEPT ![task.scope] = @ \cup Touched(task)]
  /\ UNCHANGED <<userPhase, view, shown, restarts>>

(* on_round_end, without a utility model or with one that is then awaited; *)
(* the memories are those of whichever scope was loaded last.              *)
AddMessage(u, f) ==
  /\ userPhase[u] = "running" /\ LockFree
  /\ AddMemory(ScopeOfUser[u], f, active, working)
  /\ UNCHANGED <<userPhase, persisting, shown, restarts>>

AskModel(u) ==
  /\ userPhase[u] = "running" /\ LockFree
  /\ To(u, "extracting")
  /\ UNCHANGED <<view, kv, persisting, shown, restarts>>

(* extract_with_llm: a fact of the answer, unless there is one alike.      *)
ExtractFact(u, f) ==
  /\ userPhase[u] = "extracting"
  /\ \A m \in working : m.fact # f
  /\ AddMemory(ScopeOfUser[u], f, active, working)
  /\ UNCHANGED <<userPhase, persisting, shown, restarts>>

ExtractionEnds(u) ==
  /\ userPhase[u] = "extracting"
  /\ To(u, "running")
  /\ UNCHANGED <<view, kv, persisting, shown, restarts>>

(* on_execution_end: some of the memories that age (decayed, or past their *)
(* time to live) are removed; the run then waits for all background tasks. *)
OnExecutionEnd(u) ==
  /\ userPhase[u] = "running" /\ LockFree
  /\ To(u, "ended")
  /\ \E old \in SUBSET {m \in working : m.fact \notin Lasting} :
       IF old = {} THEN UNCHANGED <<view, kv>>
       ELSE /\ WorkOn(active, working \ old)
            /\ kv' = [kv EXCEPT ![ScopeOfUser[u]] = @ \ old]
  /\ shown' = [shown EXCEPT ![u] = {}]
  /\ UNCHANGED <<persisting, restarts>>

--------------------------------------------------------------------------------
(* The tools (MemoryToolHandlers), which all load their scope first.       *)

ToolAdd(u, f) ==
  /\ userPhase[u] = "running" /\ LockFree
  /\ \E load \in Loads(ScopeOfUser[u]) :
       IF \E m \in load.ms : m.fact = f
         THEN Load(ScopeOfUser[u], load) /\ UNCHANGED kv
         ELSE AddMemory(ScopeOfUser[u], f, ScopeOfUser[u], load.ms)
  /\ UNCHANGED <<userPhase, persisting, shown, restarts>>

(* search, list and export                                                 *)
ToolSearch(u) ==
  /\ userPhase[u] = "running" /\ LockFree
  /\ \E load \in Loads(ScopeOfUser[u]) : \E R \in Retrieved(load.ms) :
       /\ WorkOn(ScopeOfUser[u], load.ms)
       /\ shown' = [shown EXCEPT ![u] = R]
       /\ kv' = [kv EXCEPT ![ScopeOfUser[u]] = @ \cup R]
  /\ UNCHANGED <<userPhase, persisting, restarts>>

ToolDelete(u, m) ==
  /\ userPhase[u] = "running" /\ LockFree
  /\ \E load \in Loads(ScopeOfUser[u]) :
       IF m \notin load.ms THEN Load(ScopeOfUser[u], load) /\ UNCHANGED kv
       ELSE /\ WorkOn(ScopeOfUser[u], load.ms \ {m})
            /\ kv' = [kv EXCEPT ![ScopeOfUser[u]] = @ \ {m}]
  /\ UNCHANGED <<userPhase, persisting, shown, restarts>>

--------------------------------------------------------------------------------
(* The process ends and starts again, over the same store.                 *)
Restart ==
  /\ restarts < MaxRestarts
  /\ restarts' = restarts + 1
  /\ userPhase' = [u \in MemUsers |-> IF userPhase[u] = "new" THEN "new" ELSE "ended"]
  /\ active' = NoScope
  /\ working' = {}
  /\ cached' = {}
  /\ scopeCache' = [s \in MemScopes \cup {NoScope} |-> {}]
  /\ persisting' = {}
  /\ shown' = [u \in MemUsers |-> {}]
  /\ UNCHANGED kv

MemoryNext ==
  \/ \E u \in MemUsers :
       \/ OnExecutionStart(u) \/ InjectContext(u) \/ AskModel(u) \/ ExtractionEnds(u)
       \/ OnExecutionEnd(u) \/ ToolSearch(u)
       \/ \E f \in Facts : AddMessage(u, f) \/ ExtractFact(u, f) \/ ToolAdd(u, f)
       \/ \E m \in Memories : ToolDelete(u, m)
  \/ \E task \in persisting : PersistTask(task)
  \/ Restart

MemorySpec == MemoryInit /\ [][MemoryNext]_memVars

--------------------------------------------------------------------------------
MemoryTypeOK ==
  /\ userPhase \in [MemUsers -> Phases]
  /\ active \in MemScopes \cup {NoScope}
  /\ working \subseteq Memories
  /\ cached \subseteq MemScopes \cup {NoScope}
  /\ scopeCache \in [MemScopes \cup {NoScope} -> SUBSET Memories]
  /\ kv \in [MemScopes -> SUBSET Memories]
  /\ persisting \subseteq [scope : MemScopes, ids : SUBSET Memories]
  /\ shown \in [MemUsers -> SUBSET Memories]

(* A run is shown memories that runs of its own scope stated, and nothing  *)
(* of another user or tenant.                                              *)
ShownIsOwn == \A u \in MemUsers : \A m \in shown[u] : m.owner = ScopeOfUser[u]

(* What the plugin keeps of a scope is what the store holds: a restart     *)
(* neither loses a memory nor brings back one that was deleted, removed to *)
(* make room or has aged.                                                  *)
CacheIsStored == \A s \in MemScopes \cap cached : scopeCache[s] = kv[s]
================================================================================
