--------------------------- MODULE AdmissionPromise ---------------------------
(***************************************************************************)
(* What run admission promises, without saying how: at any time only so    *)
(* many runs execute in one engine, on one agent and in one conversation   *)
(* of an agent.  A limit of zero means "unlimited" and a run without a     *)
(* session id belongs to no conversation.  A run executes at most once.    *)
(***************************************************************************)
EXTENDS Integers, FiniteSets

CONSTANTS
  Runs,          (* the attempts to execute an agent                       *)
  AgentOf,       (* the agent of a run                                     *)
  SessionOf,     (* the session id of a run                                *)
  NoSession,     (* the empty session id                                   *)
  EngineLimit,   (* max_engine_concurrent_runs                             *)
  AgentLimit,    (* max_agent_concurrent_runs                              *)
  SessionLimit   (* max_session_concurrent_runs                            *)

VARIABLES
  executing,     (* the runs that execute now                              *)
  over           (* the runs that have executed, or never will             *)

pvars == <<executing, over>>

SameConversation(r, q) == AgentOf[r] = AgentOf[q] /\ SessionOf[r] = SessionOf[q]

HasConversation(r) == SessionOf[r] # NoSession

(* The limits leave room for r besides the runs of S.                      *)
RoomFor(r, S) ==
  /\ EngineLimit = 0 \/ Cardinality(S) < EngineLimit
  /\ AgentLimit = 0 \/ Cardinality({q \in S : AgentOf[q] = AgentOf[r]}) < AgentLimit
  /\ \/ SessionLimit = 0
     \/ ~HasConversation(r)
     \/ Cardinality({q \in S : SameConversation(q, r)}) < SessionLimit

Init == executing = {} /\ over = {}

Admit(r) ==
  /\ r \notin executing \cup over
  /\ RoomFor(r, executing)
  /\ executing' = executing \cup {r}
  /\ UNCHANGED over

Finish(r) ==
  /\ r \in executing
  /\ executing' = executing \ {r}
  /\ over' = over \cup {r}

Refuse(r) ==
  /\ r \notin executing \cup over
  /\ over' = over \cup {r}
  /\ UNCHANGED executing

Next == \E r \in Runs : Admit(r) \/ Finish(r) \/ Refuse(r)

Spec == Init /\ [][Next]_pvars
===============================================================================
