-------------------------------- MODULE Approval --------------------------------
(***************************************************************************)
(* The human_in_the_loop plugin: a tool call of high risk waits for an     *)
(* answer.  Requests, answers and whatever else the host of a run puts     *)
(* there share the one approval queue of the run; each waiting call has a  *)
(* listener that takes an item at a time and puts back what is not its     *)
(* own.  Several calls wait at once (the calls of a batch, nested agents). *)
(*                                                                         *)
(* The host is external: it takes items off the same queue, puts back what *)
(* is no request, and answers a request once, at any later time, through   *)
(* the queue or through resolve_approval.                                  *)
(***************************************************************************)
EXTENDS Integers, SequencesExt

CONSTANTS
  ToolCalls,       (* calls of tools at or above risk_threshold, none of   *)
                   (* them in auto_approve                                 *)
  RequestIds,      (* what "tool_name + id(arguments)" may come to         *)
  NoId,            (* the id of a call that asked for nothing yet          *)
  IdsReused        (* TRUE: the arguments of an ended call are freed and   *)
                   (* their address is given out again                     *)

ASSUME ApprovalAssumption == IdsReused \in BOOLEAN /\ NoId \notin RequestIds

Answers == {"approve", "reject"}

VARIABLES
  approvalQueue,   (* the run's approval_queue                             *)
  requestOf,       (* the request id of a call                             *)
  approval,        (* new, waiting, allowed, rejected or cancelled         *)
  future,          (* what the future of a call holds                      *)
  listener,        (* off, sleeping or getting, per call                   *)
  atHost,          (* the calls whose request the host has taken           *)
  verdict          (* history: what the host answered of a call            *)

approvalVars ==
  <<approvalQueue, requestOf, approval, future, listener, atHost, verdict>>

ApprovalInit ==
  /\ approvalQueue = <<>> /\ atHost = {}
  /\ requestOf = [c \in ToolCalls |-> NoId]
  /\ approval = [c \in ToolCalls |-> "new"]
  /\ future = [c \in ToolCalls |-> "empty"]
  /\ listener = [c \in ToolCalls |-> "off"]
  /\ verdict = [c \in ToolCalls |-> "none"]

(* _pending_approvals: an id is pending while its call waits.              *)
PendingCalls(i) == {c \in ToolCalls : approval[c] = "waiting" /\ requestOf[c] = i}
IdFree(i) ==
  /\ PendingCalls(i) = {}
  /\ IdsReused \/ \A c \in ToolCalls : requestOf[c] # i

RequestApproval(c) ==
  /\ approval[c] = "new"
  /\ \E i \in RequestIds :
       /\ IdFree(i)
       /\ requestOf' = [requestOf EXCEPT ![c] = i]
       /\ approvalQueue' = Append(approvalQueue,
                                  [kind |-> "request", id |-> i, call |-> c])
  /\ approval' = [approval EXCEPT ![c] = "waiting"]
  /\ listener' = [listener EXCEPT ![c] = "sleeping"]
  /\ UNCHANGED <<future, atHost, verdict>>

(* pre_tool_call goes on: with the answer, or with none.                   *)
ApprovalResumes(c) ==
  /\ approval[c] = "waiting" /\ future[c] # "empty"
  /\ approval' = [approval EXCEPT ![c] =
                    IF future[c] = "approve" THEN "allowed" ELSE "rejected"]
  /\ UNCHANGED <<approvalQueue, requestOf, future, listener, atHost, verdict>>

ApprovalEndsUnanswered(c) ==
  /\ approval[c] = "waiting" /\ future[c] = "empty"
  /\ \E s \in {"rejected", "cancelled"} : approval' = [approval EXCEPT ![c] = s]
  /\ UNCHANGED <<approvalQueue, requestOf, future, listener, atHost, verdict>>

(* The loop of a listener goes round: while its request id is pending,     *)
(* after a sleep and after a second in which nothing came.                 *)
ListenerLoops(c) ==
  /\ listener[c] = "sleeping" \/ (listener[c] = "getting" /\ approvalQueue = <<>>)
  /\ listener' = [listener EXCEPT ![c] =
                    IF PendingCalls(requestOf[c]) # {} THEN "getting" ELSE "off"]
  /\ UNCHANGED <<approvalQueue, requestOf, approval, future, atHost, verdict>>

(* For the mutants: a listener takes any answer for its own.               *)
IsOwnResponseAny(c, item) == item.kind \in Answers

IsOwnResponse(c, item) == item.kind \in Answers /\ item.id = requestOf[c]

Settled(calls, answer) ==
  [c \in ToolCalls |->
     IF c \in calls /\ future[c] = "empty" THEN answer ELSE future[c]]

ListenerTakes(c) ==
  LET item == Head(approvalQueue) IN
  /\ listener[c] = "getting" /\ approvalQueue # <<>>
  /\ \/ /\ IsOwnResponse(c, item)
        /\ future' = Settled(PendingCalls(requestOf[c]), item.kind)
        /\ approvalQueue' = Tail(approvalQueue)
        /\ listener' = [listener EXCEPT ![c] = "off"]
     \/ /\ ~IsOwnResponse(c, item)
        /\ approvalQueue' = Append(Tail(approvalQueue), item)
        /\ listener' = [listener EXCEPT ![c] = "sleeping"]
        /\ UNCHANGED future
  /\ UNCHANGED <<requestOf, approval, atHost, verdict>>

HostTakes ==
  /\ approvalQueue # <<>>
  /\ LET item == Head(approvalQueue) IN
     IF item.kind = "request"
     THEN /\ approvalQueue' = Tail(approvalQueue)
          /\ atHost' = atHost \cup {item.call}
     ELSE /\ approvalQueue' = Append(Tail(approvalQueue), item)
          /\ UNCHANGED atHost
  /\ UNCHANGED <<requestOf, approval, future, listener, verdict>>

HostAnswers(c, answer) ==
  /\ c \in atHost /\ atHost' = atHost \ {c}
  /\ verdict' = [verdict EXCEPT ![c] = answer]
  /\ approvalQueue' = Append(approvalQueue,
                             [kind |-> answer, id |-> requestOf[c], call |-> c])
  /\ UNCHANGED <<requestOf, approval, future, listener>>

(* resolve_approval                                                        *)
HostResolves(c, answer) ==
  /\ c \in atHost /\ atHost' = atHost \ {c}
  /\ verdict' = [verdict EXCEPT ![c] = answer]
  /\ future' = Settled(PendingCalls(requestOf[c]), answer)
  /\ UNCHANGED <<approvalQueue, requestOf, approval, listener>>

ApprovalNext ==
  \/ \E c \in ToolCalls :
       \/ RequestApproval(c) \/ ApprovalResumes(c) \/ ApprovalEndsUnanswered(c)
       \/ ListenerLoops(c) \/ ListenerTakes(c)
       \/ \E answer \in Answers : HostAnswers(c, answer) \/ HostResolves(c, answer)
  \/ HostTakes

ApprovalSpec == ApprovalInit /\ [][ApprovalNext]_approvalVars

--------------------------------------------------------------------------------
(* The variables have their types.                                         *)
ApprovalTypeOK ==
  /\ approvalQueue \in Seq([kind : Answers \cup {"request"}, id : RequestIds,
                            call : ToolCalls])
  /\ requestOf \in [ToolCalls -> RequestIds \cup {NoId}] /\ atHost \subseteq ToolCalls
  /\ approval \in [ToolCalls ->
                     {"new", "waiting", "allowed", "rejected", "cancelled"}]
  /\ future \in [ToolCalls -> Answers \cup {"empty"}]
  /\ listener \in [ToolCalls -> {"off", "sleeping", "getting"}]
  /\ verdict \in [ToolCalls -> Answers \cup {"none"}]

(* A call is let through only when the host approved that call, whatever   *)
(* the other listeners and late answers do to the queue they share.        *)
AllowedIsApproved ==
  \A c \in ToolCalls : approval[c] = "allowed" => verdict[c] = "approve"
================================================================================
