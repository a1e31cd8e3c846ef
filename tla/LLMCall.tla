--------------------------------- MODULE LLMCall --------------------------------
(***************************************************************************)
(* The LLM calls of one execution context: LLMCaller (core/llm_caller.py)  *)
(* with its retry and fallback, the aggregation of a stream's chunks       *)
(* (core/stream_aggregator.py), and StreamLLMBridge (core/execution_run.py)*)
(* through whose bounded queue a round's consumer sees the deltas.         *)
(*                                                                         *)
(* A call is "bridged" (LLMCaller.call runs in a task of its own, the      *)
(* consumer reads the queue), "direct" (streamed without a sink, as the    *)
(* steps of a plan are, in the consumer's own task) or "sync" (ctx.config  *)
(* .stream is off).  Phases name the await at which the task is suspended. *)
(***************************************************************************)
EXTENDS Integers, FiniteSets, SequencesExt

CONSTANTS
  Modes,           (* the kinds of call the context makes                  *)
  Fallback,        (* whether there is a fallback provider                 *)
  QueueSize,       (* the bridge's asyncio.Queue(maxsize=1000)             *)
  MaxChunks,       (* STREAM_MAX_CHUNKS                                    *)
  MaxCalls         (* bound: calls of the context                          *)

ASSUME ConstantsAssumption ==
  /\ Modes \subseteq {"bridged", "direct", "sync"}
  /\ Fallback \in BOOLEAN
  /\ {QueueSize, MaxChunks, MaxCalls} \subseteq Nat \ {0}

VARIABLES
  modes,           (* the modes of the calls so far; the last is under way *)
  emitted,         (* ctx.runtime.stream_delta_emitted                     *)
  task,            (* where LLMCaller.call is, see Phases                  *)
  attempt,         (* 1, 2: the primary provider; 3: the fallback          *)
  heard,           (* the chunks the attempt's aggregator has merged       *)
  thinking,        (* StreamEventEmitter._in_thinking                      *)
  started,         (* StreamEventEmitter._stream_started                   *)
  out,             (* the events a blocked put and those after it emit ... *)
  then,            (* ... and the phase that follows                       *)
  result,          (* the message or exception the call comes to           *)
  doomed,          (* task.cancel() was called, CancelledError is to come  *)
  queue,           (* the bridge's queue                                   *)
  reader,          (* the consumer's side, see Readers                     *)
  shown,           (* the events of this call the consumer was given       *)
  ended            (* how the call ended for the consumer                  *)

attempts == <<attempt, heard, thinking, started>>
emission == <<out, then>>
vars == <<modes, emitted, task, attempts, emission, result, doomed, queue,
          reader, shown, ended>>

(* The task awaits the provider, a put, the sleep before the retry, the    *)
(* post_llm_call hooks, or the put of the end marker.                      *)
Busy == {"calling", "emitting", "sleeping", "hooks", "marking"}
Phases == Busy \cup {"idle", "done"}

(* The consumer awaits the queue (or its own call), works on an event, or  *)
(* waits in cancel_and_wait.                                               *)
Readers == {"waiting", "holding", "closing", "over"}

Kinds == {"thinking", "content", "tool"}
Events == [kind : Kinds \cup {"thinkingStart", "thinkingEnd", "start"}, attempt : 1..3]
End == [kind |-> "end", attempt |-> 0]

Init ==
  /\ modes = <<>>
  /\ emitted = FALSE
  /\ task = "idle"
  /\ attempt = 1 /\ heard = <<>> /\ thinking = FALSE /\ started = FALSE
  /\ out = <<>> /\ then = "calling"
  /\ result = "none"
  /\ doomed = FALSE
  /\ queue = <<>>
  /\ reader = "over"
  /\ shown = <<>>
  /\ ended = "none"

Mode == IF modes = <<>> THEN "none" ELSE Last(modes)
Sink == Mode = "bridged"
Room == QueueSize - Len(queue)

(* ctx.config.stream is the same for all calls.  A round whose call failed *)
(* ends the execution; a plan goes on with its next step.                  *)
Begin(m) ==
  /\ reader = "over" /\ ended \in {"none", "returned", "failed"}
  /\ Len(modes) < MaxCalls
  /\ modes # <<>> => ((m = "sync") <=> (Mode = "sync"))
  /\ ended = "failed" => "bridged" \notin {m, Mode}
  /\ modes' = Append(modes, m)
  /\ task' = "calling"
  /\ attempt' = 1 /\ heard' = <<>> /\ thinking' = FALSE /\ started' = FALSE
  /\ out' = <<>> /\ then' = "calling"
  /\ result' = "none" /\ doomed' = FALSE
  /\ queue' = <<>> /\ shown' = <<>>
  /\ reader' = "waiting" /\ ended' = "none"
  /\ UNCHANGED emitted

--------------------------------------------------------------------------------
(* The call.                                                               *)

(* Defect: the queue has no limit.                                         *)
EmitUnbounded(events, next) ==
  /\ queue' = IF Sink THEN queue \o events ELSE queue
  /\ out' = <<>>
  /\ task' = next
  /\ then' = next

(* The puts of the sink: the first that finds the queue full waits.        *)
Emit(events, next) ==
  LET n == IF Len(events) <= Room THEN Len(events) ELSE Room
      rest == IF Sink THEN SubSeq(events, n + 1, Len(events)) ELSE <<>>
  IN  /\ queue' = IF Sink THEN queue \o SubSeq(events, 1, n) ELSE queue
      /\ out' = rest
      /\ task' = IF rest = <<>> THEN next ELSE "emitting"
      /\ then' = next

Ev(kind) == [kind |-> kind, attempt |-> attempt]
If(condition, kind) == IF condition THEN <<Ev(kind)>> ELSE <<>>

(* StreamEventEmitter.on_delta                                             *)
Delta(kind) ==
  CASE kind = "thinking" -> If(~thinking, "thinkingStart") \o <<Ev("thinking")>>
    [] kind = "content" -> If(thinking, "thinkingEnd") \o If(~started, "start")
                             \o <<Ev("content")>>
    [] OTHER -> <<Ev("tool")>>

(* The provider's next chunk is merged.                                    *)
Chunk(kind) ==
  /\ task = "calling" /\ ~doomed /\ Mode # "sync"
  /\ Len(heard) < MaxChunks
  /\ heard' = Append(heard, kind)
  /\ emitted' = (emitted \/ kind = "content")
  /\ thinking' = IF Sink /\ kind \in {"thinking", "content"}
                 THEN kind = "thinking" ELSE thinking
  /\ started' = (started \/ (Sink /\ kind = "content"))
  /\ Emit(Delta(kind), "calling")
  /\ UNCHANGED <<modes, attempt, result, doomed, reader, shown, ended>>

(* The stream ends, comes to its limit, or is idle for too long after it   *)
(* gave content or tool calls: what was heard becomes the message.         *)
Complete ==
  /\ task = "calling" /\ ~doomed /\ Mode # "sync"
  /\ result' = "message"
  /\ thinking' = FALSE
  /\ Emit(If(thinking, "thinkingEnd"), "hooks")
  /\ UNCHANGED <<modes, emitted, attempt, heard, started, doomed, reader, shown, ended>>

(* LLMProvider.chat returns.                                               *)
Answer ==
  /\ task = "calling" /\ Mode = "sync"
  /\ result' = "message"
  /\ task' = "hooks"
  /\ UNCHANGED <<modes, emitted, attempts, emission, doomed, queue, reader, shown, ended>>

(* Defect: the marker is put without waiting, and dropped by a full queue. *)
FinishNowait ==
  /\ out' = <<>>
  /\ task' = "done"
  /\ queue' = IF Sink /\ Room > 0 THEN Append(queue, End) ELSE queue

(* The call is left; the bridge's task puts its end marker in any case.    *)
Finish ==
  /\ out' = <<>>
  /\ task' = IF Sink /\ Room = 0 THEN "marking" ELSE "done"
  /\ queue' = IF Sink /\ Room > 0 THEN Append(queue, End) ELSE queue

(* The hooks have run, or one has raised.                                  *)
Hooked ==
  /\ task = "hooks" /\ ~doomed
  /\ result' \in {"message", "error"}
  /\ Finish
  /\ UNCHANGED <<modes, emitted, attempts, then, doomed, reader, shown, ended>>

(* An error that is not tried again, among them CancelledError of the      *)
(* engine when a stream is idle that gave neither content nor tool calls.  *)
Fail ==
  /\ task = "calling" /\ ~doomed
  /\ Mode = "sync" \/ Len(heard) < MaxChunks
  /\ result' = "error"
  /\ Finish
  /\ UNCHANGED <<modes, emitted, attempts, then, doomed, reader, shown, ended>>

(* Defect: a stream that broke is always tried again.                      *)
RetryAlways == TRUE

(* fallback_allowed                                                        *)
RetryAllowed == Mode = "sync" \/ ~emitted

(* The attempt starts with an aggregator and an emitter of its own.        *)
Attempt(n) ==
  /\ attempt' = n
  /\ heard' = <<>> /\ thinking' = FALSE /\ started' = FALSE
  /\ task' = "calling"

(* A retryable error ends the attempt (RETRYABLE_LLM_ERRORS).              *)
Sleep ==
  /\ RetryAllowed /\ attempt = 1
  /\ task' = "sleeping"
  /\ UNCHANGED <<attempts, out, result, queue>>

FallBack ==
  /\ RetryAllowed /\ attempt = 2 /\ Fallback
  /\ Attempt(3)
  /\ UNCHANGED <<out, result, queue>>

GiveUp ==
  /\ ~RetryAllowed \/ attempt = 3 \/ (attempt = 2 /\ ~Fallback)
  /\ result' = "broken"
  /\ Finish
  /\ UNCHANGED attempts

Break ==
  /\ task = "calling" /\ ~doomed
  /\ Mode = "sync" \/ Len(heard) < MaxChunks
  /\ Sleep \/ FallBack \/ GiveUp
  /\ UNCHANGED <<modes, emitted, then, doomed, reader, shown, ended>>

Retry ==
  /\ task = "sleeping" /\ ~doomed
  /\ Attempt(2)
  /\ UNCHANGED <<modes, emitted, emission, result, doomed, queue, reader, shown, ended>>

(* A put that waited finds room: the remaining events, or the end marker.  *)
Flush ==
  /\ task \in {"emitting", "marking"} /\ ~doomed
  /\ Room > 0
  /\ IF task = "emitting" THEN Emit(out, then) ELSE Finish /\ UNCHANGED then
  /\ UNCHANGED <<modes, emitted, attempts, result, doomed, reader, shown, ended>>

(* asyncio.CancelledError is thrown into the bridge's task: its finally    *)
(* clause still puts the marker, unless that put is what is interrupted.   *)
Interrupt ==
  /\ doomed /\ task \in Busy
  /\ doomed' = FALSE
  /\ IF task = "marking"
     THEN task' = "done" /\ UNCHANGED <<result, out, queue>>
     ELSE result' = "none" /\ Finish
  /\ UNCHANGED <<modes, emitted, attempts, then, reader, shown, ended>>

--------------------------------------------------------------------------------
(* The consumer.                                                           *)

(* Defect: the flag of a finished call is left for the next one.           *)
CloseFlagged ==
  /\ reader' = "closing"
  /\ doomed' = (task # "done")
  /\ UNCHANGED emitted

(* The finally clause of StreamLLMBridge.call up to its await.             *)
Close ==
  /\ reader' = "closing"
  /\ doomed' = (task # "done")
  /\ emitted' = FALSE

(* The next item of the queue: an event is yielded, the marker ends it.    *)
Read ==
  /\ Sink /\ reader = "waiting" /\ queue # <<>>
  /\ queue' = Tail(queue)
  /\ IF Head(queue) = End
     THEN Close /\ UNCHANGED shown
     ELSE /\ shown' = Append(shown, Head(queue))
          /\ reader' = "holding"
          /\ UNCHANGED <<emitted, doomed>>
  /\ UNCHANGED <<modes, task, attempts, emission, result, ended>>

GoOn ==
  /\ reader = "holding"
  /\ reader' = "waiting"
  /\ UNCHANGED <<modes, emitted, task, attempts, emission, result, doomed, queue,
                 shown, ended>>

(* The consumer closes the stream at an event.                             *)
Drop ==
  /\ reader = "holding"
  /\ ended' = "dropped"
  /\ Close
  /\ UNCHANGED <<modes, task, attempts, emission, result, queue, shown>>

(* The consumer's task is cancelled while it waits, or has waited: events  *)
(* may have come since.  In cancel_and_wait the cancellation reaches the   *)
(* bridge's task once more and is swallowed.                               *)
Cancel ==
  \/ /\ Sink /\ reader = "waiting"
     /\ ended' = "cancelled"
     /\ Close
     /\ UNCHANGED <<modes, task, attempts, emission, result, queue, shown>>
  \/ /\ reader = "closing" /\ task # "done"
     /\ doomed' = TRUE
     /\ UNCHANGED <<modes, emitted, task, attempts, emission, result, queue, reader,
                    shown, ended>>
  \/ /\ ~Sink /\ reader = "waiting" /\ task # "done"
     /\ task' = "done" /\ reader' = "over"
     /\ ended' = "cancelled"
     /\ UNCHANGED <<modes, emitted, attempts, emission, result, doomed, queue, shown>>

(* The call is over: its message or its exception is the consumer's.       *)
Closed ==
  /\ reader = (IF Sink THEN "closing" ELSE "waiting")
  /\ task = "done"
  /\ reader' = "over"
  /\ ended' = IF ended # "none" THEN ended
              ELSE IF result = "message" THEN "returned" ELSE "failed"
  /\ UNCHANGED <<modes, emitted, task, attempts, emission, result, doomed, queue, shown>>

TaskStep ==
  \/ \E kind \in Kinds : Chunk(kind)
  \/ Complete \/ Answer \/ Hooked \/ Fail \/ Break \/ Retry \/ Flush \/ Interrupt

ReaderStep == Read \/ GoOn \/ Closed

Next == (\E m \in Modes : Begin(m)) \/ TaskStep \/ ReaderStep \/ Drop \/ Cancel

Spec == Init /\ [][Next]_vars

(* A stream is idle for stream_idle_timeout at most and limited in chunks, *)
(* a chat has the client's timeout; the event loop runs ready tasks, and a *)
(* consumer goes on with its stream or closes it.                          *)
FairSpec == Spec /\ WF_vars(TaskStep) /\ WF_vars(ReaderStep)
--------------------------------------------------------------------------------
(* Properties.                                                             *)

(* The type invariant; the queue stays within its limit.                   *)
TypeOK ==
  /\ modes \in Seq(Modes) /\ Len(modes) <= MaxCalls
  /\ {emitted, thinking, started, doomed} \subseteq BOOLEAN
  /\ task \in Phases /\ then \in Phases
  /\ attempt \in 1..3
  /\ heard \in Seq(Kinds) /\ Len(heard) <= MaxChunks
  /\ out \in Seq(Events) /\ shown \in Seq(Events)
  /\ queue \in Seq(Events \cup {End}) /\ Len(queue) <= QueueSize
  /\ result \in {"none", "message", "error", "broken"}
  /\ reader \in Readers
  /\ ended \in {"none", "returned", "failed", "dropped", "cancelled"}

(* What of events, and of the attempt's chunks, is content.                *)
ContentOf(events) == {i \in DOMAIN events : events[i].kind = "content"}
HeardContent == {i \in DOMAIN heard : heard[i] = "content"}

(* The content the consumer was shown while a call was under way is the    *)
(* content of the message the call returns: no delta is lost between task  *)
(* and queue, and none is left over from an attempt that broke             *)
(* (LLMCaller._call_with_retry: "Stream interrupted after partial output").*)
(* Its first part is that of the types, and that the queue keeps its size. *)
ShownIsReturned ==
  /\ TypeOK
  /\ ended = "returned" /\ Sink =>
       /\ Cardinality(ContentOf(shown)) = Cardinality(HeardContent)
       /\ \A i \in ContentOf(shown) : shown[i] = Ev("content")

(* The last attempt a call has.                                            *)
LastAttempt == IF Fallback THEN 3 ELSE 2

(* A call that breaks before it gave any content uses up its attempts:     *)
(* what LLMCaller._call_with_retry reports otherwise is "Stream            *)
(* interrupted after partial output".                                      *)
RetriedUnlessPartial ==
  result = "broken" /\ attempt < LastAttempt => Contains(heard, "content")

(* The same in a context none of whose calls streams without a bridge:     *)
(* there no call inherits the flag of an earlier one.                      *)
BridgedIsRetried == (\A i \in DOMAIN modes : modes[i] # "direct") => RetriedUnlessPartial

(* A consumer that stays gets the end of its call, and one that leaves is  *)
(* released with the call's task, except from a queue it left full: there  *)
(* the put of the end marker waits for a reader.                           *)
CallEnds ==
  reader # "over" ~> \/ reader = "over"
                     \/ ended # "none" /\ task = "marking" /\ Room = 0
================================================================================
