----------------------------- MODULE SessionPromise ----------------------------
(***************************************************************************)
(* What the sessions of an agent promise, without saying how: every        *)
(* conversation is a log of turns.  A turn reads the whole log, and when   *)
(* it ends it is added to the log; a reset empties the log.                *)
(*                                                                         *)
(* The promise is weak in one place: a turn that was overtaken, because    *)
(* the conversation was reset while it ran or because it was left and      *)
(* resumed later, may replace the log by what it had read itself.          *)
(***************************************************************************)
EXTENDS Sequences

CONSTANTS
  Turns,           (* the runs of the agents that carry a session id       *)
  Conversations,   (* the conversations, one per agent and session id      *)
  ConversationOf,  (* the conversation of a turn                           *)
  ScopeOf          (* the agent of a conversation                          *)

VARIABLES
  log,             (* the turns a conversation consists of                 *)
  state,           (* new, running, left (without an end) or ended         *)
  read,            (* the log a turn has read                              *)
  overtaken        (* turns that may have read an outdated log             *)

pvars == <<log, state, read, overtaken>>

Init ==
  /\ log = [c \in Conversations |-> <<>>]
  /\ state = [t \in Turns |-> "new"]
  /\ read = [t \in Turns |-> <<>>]
  /\ overtaken = {}

Read(t) ==
  /\ state[t] = "new"
  /\ state' = [state EXCEPT ![t] = "running"]
  /\ read' = [read EXCEPT ![t] = log[ConversationOf[t]]]
  /\ UNCHANGED <<log, overtaken>>

End(t) ==
  /\ state[t] = "running"
  /\ state' = [state EXCEPT ![t] = "ended"]
  /\ LET c == ConversationOf[t] IN
       \/ log' = [log EXCEPT ![c] = Append(@, t)]
       \/ t \in overtaken /\ log' = [log EXCEPT ![c] = Append(read[t], t)]
  /\ UNCHANGED <<read, overtaken>>

Leave(t) ==
  /\ state[t] \in {"new", "running"}
  /\ state' = [state EXCEPT ![t] = "left"]
  /\ UNCHANGED <<log, read, overtaken>>

Resume(t) ==
  /\ state[t] = "left"
  /\ state' = [state EXCEPT ![t] = "running"]
  /\ overtaken' = overtaken \cup {t}
  /\ UNCHANGED <<log, read>>

(* One conversation is reset, or all of one agent.                         *)
Together == {{c} : c \in Conversations}
              \cup {{d \in Conversations : ScopeOf[d] = ScopeOf[c]} : c \in Conversations}

Reset(C) ==
  /\ log' = [c \in Conversations |-> IF c \in C THEN <<>> ELSE log[c]]
  /\ overtaken' = overtaken \cup {t \in Turns : state[t] = "running" /\ ConversationOf[t] \in C}
  /\ UNCHANGED <<state, read>>

Next ==
  \/ \E t \in Turns : Read(t) \/ End(t) \/ Leave(t) \/ Resume(t)
  \/ \E C \in Together : Reset(C)

Spec == Init /\ [][Next]_pvars
================================================================================
