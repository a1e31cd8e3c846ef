------------------------------ MODULE CallPromise ------------------------------
(***************************************************************************)
(* What AgentMessageDispatcher.request promises its callers: a call is     *)
(* executed at most once, it is answered only when it was executed, and it *)
(* is over once: what happens at the callee after the caller gave up never *)
(* reaches the caller.                                                     *)
(***************************************************************************)
CONSTANT Calls

VARIABLES
  call,          (* new, waiting, answered or failed, for the caller       *)
  executed       (* the calls the callee has begun to execute              *)

Init ==
  /\ call = [q \in Calls |-> "new"]
  /\ executed = {}

Issue(q) ==
  /\ call[q] = "new"
  /\ call' = [call EXCEPT ![q] = "waiting"]
  /\ UNCHANGED executed

Execute(q) ==
  /\ call[q] # "new"
  /\ q \notin executed
  /\ executed' = executed \cup {q}
  /\ UNCHANGED call

Answer(q) ==
  /\ call[q] = "waiting"
  /\ q \in executed
  /\ call' = [call EXCEPT ![q] = "answered"]
  /\ UNCHANGED executed

Fail(q) ==
  /\ call[q] = "waiting"
  /\ call' = [call EXCEPT ![q] = "failed"]
  /\ UNCHANGED executed

Next == \E q \in Calls : Issue(q) \/ Execute(q) \/ Answer(q) \/ Fail(q)

Spec == Init /\ [][Next]_<<call, executed>>
================================================================================
