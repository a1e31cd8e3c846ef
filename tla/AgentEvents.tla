------------------------------ MODULE AgentEvents ------------------------------
(***************************************************************************)
(* What the caller of an agent sees of the run it called: the events the   *)
(* consumer publishes beside its reply, and AgentMessageDispatcher.request *)
(* with its two listeners, one for the reply and one for the events        *)
(* (core/dispatcher.py).  Module Dispatcher says which calls are answered; *)
(* here one consumer serves several requests, and each may be given up at  *)
(* any time.                                                               *)
(*                                                                         *)
(* publish() on the in-memory bus never suspends, so what a task publishes *)
(* without other waits is one step; an event reaches whoever listens then. *)
(***************************************************************************)
EXTENDS Integers, SequencesExt

CONSTANTS
  EventRequests,   (* requests with an event_callback                      *)
  Broadcasts,      (* publish(): messages without a correlation id         *)
  NoRequest,       (* the consumer is idle                                 *)
  MaxChildSteps,   (* bound: events of a called run                        *)
  CallbackAwaits   (* TRUE: the callback returns an awaitable              *)

ASSUME EventsAssumption ==
  /\ EventRequests \cap Broadcasts = {} /\ NoRequest \notin EventRequests \cup Broadcasts
  /\ MaxChildSteps \in Nat /\ CallbackAwaits \in BOOLEAN

ChildMessages == EventRequests \cup Broadcasts

VARIABLES
  requestState, (* new, waiting, notifying, cleaning or returned; a        *)
                (* broadcast: new or returned                              *)
  childInbox,   (* the queue of the agent's inbox                          *)
  serving,      (* the message the consumer handles                        *)
  failedStep,   (* its run has yielded an error event                      *)
  eventQueue,   (* the queue of _events:{correlation_id}                   *)
  replyQueue,   (* the queue of _reply:{correlation_id}                    *)
  replyFuture,  (* what the future of a request holds                      *)
  inCallback,   (* requests whose event listener awaits the callback       *)
  published,    (* history: the events of a request's run                  *)
  seen          (* history: what the callback was called with              *)

eventVars == <<requestState, childInbox, serving, failedStep, eventQueue, replyQueue,
               replyFuture, inCallback, published, seen>>

(* "timeout" is the sub_agent_complete that request() makes up itself.     *)
ChildEvent(k, ok) == [kind |-> k, success |-> ok]
ChildEvents == [kind : {"start", "step", "complete", "timeout"}, success : BOOLEAN]

Listening(q) == requestState[q] \in {"waiting", "notifying", "cleaning"}

EventsInit ==
  /\ requestState = [q \in ChildMessages |-> "new"]
  /\ childInbox = <<>> /\ serving = NoRequest /\ failedStep = FALSE
  /\ eventQueue = [q \in EventRequests |-> <<>>]
  /\ replyQueue = [q \in EventRequests |-> <<>>]
  /\ replyFuture = [q \in EventRequests |-> "empty"]
  /\ inCallback = {}
  /\ published = [q \in EventRequests |-> <<>>]
  /\ seen = [q \in EventRequests |-> <<>>]

--------------------------------------------------------------------------------
(* The callee.                                                             *)

(* _publish_child_event: nothing without a correlation id.                 *)
PublishEvents(q, es) ==
  IF q \in Broadcasts THEN UNCHANGED <<eventQueue, published>>
  ELSE /\ published' = [published EXCEPT ![q] = @ \o es]
       /\ eventQueue' = IF Listening(q) THEN [eventQueue EXCEPT ![q] = @ \o es]
                        ELSE eventQueue

TakeMessage ==
  /\ serving = NoRequest /\ childInbox # <<>>
  /\ serving' = Head(childInbox) /\ childInbox' = Tail(childInbox)
  /\ failedStep' = FALSE
  /\ PublishEvents(Head(childInbox), <<ChildEvent("start", TRUE)>>)
  /\ UNCHANGED <<requestState, replyQueue, replyFuture, inCallback, seen>>

(* Every event of the run but done is passed on, an error event too.       *)
ChildStep ==
  /\ serving # NoRequest
  /\ serving \in EventRequests => Len(published[serving]) <= MaxChildSteps
  /\ \E ok \in BOOLEAN :
       /\ PublishEvents(serving, <<ChildEvent("step", ok)>>)
       /\ failedStep' = (failedStep \/ ~ok)
  /\ UNCHANGED <<requestState, childInbox, serving, replyQueue, replyFuture, inCallback, seen>>

(* The run is over - with its done event, without one (cancelled), or with *)
(* an exception -: the complete event, then the reply.                     *)
ChildEnds ==
  /\ serving # NoRequest
  /\ \E o \in {"done", "silent", "raised"} :
       /\ PublishEvents(serving,
                        <<ChildEvent("complete", o = "done" /\ ~failedStep)>>)
       /\ replyQueue' =
            IF serving \in Broadcasts \/ ~Listening(serving)
            THEN replyQueue
            ELSE [replyQueue EXCEPT ![serving] =
                    Append(@, IF failedStep \/ o = "raised" THEN "error" ELSE "reply")]
  /\ serving' = NoRequest /\ failedStep' = FALSE
  /\ UNCHANGED <<requestState, childInbox, replyFuture, inCallback, seen>>

--------------------------------------------------------------------------------
(* The caller.                                                             *)

(* Both listeners have subscribed before the callee can take the envelope. *)
RequestSends(q) ==
  /\ requestState[q] = "new"
  /\ requestState' = [requestState EXCEPT ![q] = IF q \in Broadcasts THEN "returned" ELSE "waiting"]
  /\ childInbox' = Append(childInbox, q)
  /\ UNCHANGED <<serving, failedStep, eventQueue, replyQueue, replyFuture, inCallback,
                 published, seen>>

(* For a mutant: the callback is dropped only after the listeners.         *)
EventHeardLate(q) ==
  /\ Listening(q) /\ q \notin inCallback /\ eventQueue[q] # <<>>
  /\ eventQueue' = [eventQueue EXCEPT ![q] = Tail(@)]
  /\ seen' = [seen EXCEPT ![q] = Append(@, Head(eventQueue[q]))]
  /\ inCallback' = inCallback \cup {p \in {q} : CallbackAwaits}
  /\ UNCHANGED <<requestState, childInbox, serving, failedStep, replyQueue, replyFuture, published>>

(* For a mutant: an event that arrives while the callback runs is shown    *)
(* beside it, the last one first.                                          *)
EventHeardLast(q) ==
  /\ Listening(q) /\ eventQueue[q] # <<>>
  /\ eventQueue' = [eventQueue EXCEPT ![q] = Front(@)]
  /\ IF requestState[q] = "cleaning" THEN UNCHANGED <<seen, inCallback>>
     ELSE /\ seen' = [seen EXCEPT ![q] = Append(@, Last(eventQueue[q]))]
          /\ inCallback' = inCallback \cup {p \in {q} : CallbackAwaits}
  /\ UNCHANGED <<requestState, childInbox, serving, failedStep, replyQueue, replyFuture, published>>

(* _listen_events: one event after the other; the callback of a request    *)
(* that cleans up is already gone.                                         *)
EventHeard(q) ==
  /\ Listening(q) /\ q \notin inCallback /\ eventQueue[q] # <<>>
  /\ eventQueue' = [eventQueue EXCEPT ![q] = Tail(@)]
  /\ IF requestState[q] = "cleaning" THEN UNCHANGED <<seen, inCallback>>
     ELSE /\ seen' = [seen EXCEPT ![q] = Append(@, Head(eventQueue[q]))]
          /\ inCallback' = inCallback \cup {p \in {q} : CallbackAwaits}
  /\ UNCHANGED <<requestState, childInbox, serving, failedStep, replyQueue, replyFuture, published>>

CallbackReturns(q) ==
  /\ q \in inCallback
  /\ inCallback' = inCallback \ {q}
  /\ UNCHANGED <<requestState, childInbox, serving, failedStep, eventQueue, replyQueue,
                 replyFuture, published, seen>>

(* _listen_reply: the first reply completes the future.                    *)
ReplyHeard(q) ==
  /\ Listening(q) /\ replyQueue[q] # <<>>
  /\ replyQueue' = [replyQueue EXCEPT ![q] = Tail(@)]
  /\ replyFuture' = [replyFuture EXCEPT ![q] =
                       IF requestState[q] = "waiting" THEN Head(replyQueue[q]) ELSE @]
  /\ UNCHANGED <<requestState, childInbox, serving, failedStep, eventQueue, inCallback,
                 published, seen>>

(* wait_for returns the reply, or the callback has heard of the timeout;   *)
(* or the caller is cancelled before that.                                 *)
WaitEnds(q) ==
  /\ requestState[q] \in {"waiting", "notifying"}
  /\ requestState' = [requestState EXCEPT ![q] = "cleaning"]
  /\ UNCHANGED <<childInbox, serving, failedStep, eventQueue, replyQueue, replyFuture,
                 inCallback, published, seen>>

(* The timeout, also when the reply has arrived but the task has not run   *)
(* since.                                                                  *)
RequestTimesOut(q) ==
  /\ requestState[q] = "waiting"
  /\ requestState' = [requestState EXCEPT ![q] = IF CallbackAwaits THEN "notifying" ELSE "cleaning"]
  /\ seen' = [seen EXCEPT ![q] = Append(@, ChildEvent("timeout", FALSE))]
  /\ UNCHANGED <<childInbox, serving, failedStep, eventQueue, replyQueue, replyFuture,
                 inCallback, published>>

(* cancel_and_wait of both listeners: their queues leave the bus.          *)
ListenersEnd(q) ==
  /\ requestState[q] = "cleaning"
  /\ requestState' = [requestState EXCEPT ![q] = "returned"]
  /\ inCallback' = inCallback \ {q}
  /\ eventQueue' = [eventQueue EXCEPT ![q] = <<>>]
  /\ replyQueue' = [replyQueue EXCEPT ![q] = <<>>]
  /\ UNCHANGED <<childInbox, serving, failedStep, replyFuture, published, seen>>

EventsNext ==
  \/ TakeMessage \/ ChildStep \/ ChildEnds
  \/ \E q \in ChildMessages : RequestSends(q)
  \/ \E q \in EventRequests :
       \/ EventHeard(q) \/ CallbackReturns(q) \/ ReplyHeard(q) \/ WaitEnds(q)
       \/ RequestTimesOut(q) \/ ListenersEnd(q)

EventsSpec == EventsInit /\ [][EventsNext]_eventVars

--------------------------------------------------------------------------------
(* Properties.                                                             *)

(* The type invariant.                                                     *)
EventsTypeOK ==
  /\ requestState \in [ChildMessages -> {"new", "waiting", "notifying", "cleaning", "returned"}]
  /\ childInbox \in Seq(ChildMessages) /\ serving \in ChildMessages \cup {NoRequest}
  /\ failedStep \in BOOLEAN /\ inCallback \subseteq EventRequests
  /\ eventQueue \in [EventRequests -> Seq(ChildEvents)]
  /\ replyQueue \in [EventRequests -> Seq({"reply", "error"})]
  /\ replyFuture \in [EventRequests -> {"empty", "reply", "error"}]
  /\ published \in [EventRequests -> Seq(ChildEvents)]
  /\ seen \in [EventRequests -> Seq(ChildEvents)]

(* How many of the first i events that were shown are events of the run.   *)
Heard(shown, i) == Cardinality({j \in 1..i : shown[j].kind # "timeout"})

(* What a caller is shown of a run is the beginning of what the run did,   *)
(* each event once and in order, also when several requests share the      *)
(* consumer and some are given up; the note of a timeout stands apart.     *)
EventsAreInOrder ==
  \A q \in EventRequests : \A i \in DOMAIN seen[q] :
    seen[q][i].kind # "timeout" =>
      /\ Heard(seen[q], i) <= Len(published[q])
      /\ seen[q][i] = published[q][Heard(seen[q], i)]

(* Once request() has its answer, the callback is not called again: a late *)
(* event cannot reach a run that has gone on.                              *)
QuietAfterAnswer ==
  [][\A q \in EventRequests :
       requestState[q] \in {"cleaning", "returned"} => seen'[q] = seen[q]]_eventVars

(* A caller hears of one end of the run it called.  It may hear of two: of *)
(* the timeout, and of the completion already under way.                   *)
OneEndShown ==
  \A q \in EventRequests :
    Len(SelectSeq(seen[q], LAMBDA e : e.kind \in {"complete", "timeout"})) <= 1
================================================================================
