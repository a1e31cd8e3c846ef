-------------------------------- MODULE Tracing --------------------------------
(***************************************************************************)
(* The tracing plugin (plugins/builtin/tracing/plugin.py) in one           *)
(* execution: the hooks open and finish spans (the execution, LLM calls,   *)
(* tool calls that run side by side, errors, rounds); finished spans are   *)
(* sampled and saved by background tasks in a bounded SpanStore            *)
(* (InMemorySpanStore of storage/in_memory.py).                            *)
(*                                                                         *)
(* A full queue of tasks makes the hook raise, after the span counts as    *)
(* emitted; what a tool call's hook raises ends the execution, but not the *)
(* calls that run beside it.                                               *)
(***************************************************************************)
EXTENDS Integers, FiniteSets, SequencesExt

CONSTANTS
  TraceCalls,      (* tool calls                                           *)
  TraceRounds,     (* bound: rounds                                        *)
  Sampled,         (* the values of TraceSampler.sampled that occur        *)
  SampleErrors,    (* sample_errors                                        *)
  QueueLimit,      (* queue_limit                                          *)
  MaxSpans         (* max_spans of the store                               *)

ASSUME TraceAssumption ==
  /\ IsFiniteSet(TraceCalls) /\ TraceRounds \in Nat
  /\ Sampled \subseteq BOOLEAN /\ SampleErrors \in BOOLEAN
  /\ {QueueLimit, MaxSpans} \subseteq Nat \ {0}

VARIABLES
  trPhase,         (* new, round (between rounds), llm, tools, error (to   *)
                   (* be told to on_error), told or ended                  *)
  trRound,
  sampled,         (* the trace is sampled                                 *)
  llmSpan,         (* the round of current_llm_span, 0 for none            *)
  callState,       (* new, open (in active_spans), closed or dropped       *)
  pending,         (* _pending_tasks, by the span they save                *)
  spans,           (* InMemorySpanStore._spans                             *)
  stats,           (* _stats                                               *)
  finished         (* history: the spans finished                          *)

trVars == <<trPhase, trRound, sampled, llmSpan, callState, pending, spans, stats, finished>>

Root == <<"execution", 0>>
ErrorSpan == <<"error", 0>>
TraceSpans == {Root, ErrorSpan} \cup ({"llm_call", "round_end"} \X (1..TraceRounds))
              \cup ({"tool_call"} \X TraceCalls)

TraceInit ==
  /\ trPhase = "new" /\ trRound = 0
  /\ sampled \in Sampled
  /\ llmSpan = 0
  /\ callState = [c \in TraceCalls |-> "new"]
  /\ pending = {} /\ spans = <<>>
  /\ stats = [stored |-> 0, dropped |-> 0, failed |-> 0]
  /\ finished = {}

--------------------------------------------------------------------------------
(* TraceSampler.should_emit; no span is slow.                              *)
ShouldEmit(error) == sampled \/ (error /\ SampleErrors)
QueueFull == Cardinality(pending) >= QueueLimit
Raises(error) == ShouldEmit(error) /\ QueueFull

LastN(s, n) == IF Len(s) > n THEN SubSeq(s, Len(s) - n + 1, Len(s)) ELSE s

(* _finish_span, emit and _schedule.  Defect: a span the full queue keeps  *)
(* out is not counted.                                                     *)
FinishUncounted(span, error) ==
  /\ finished' = finished \cup {span}
  /\ stats' = IF ShouldEmit(error) THEN stats ELSE [stats EXCEPT !.dropped = @ + 1]
  /\ pending' = IF ShouldEmit(error) /\ ~QueueFull THEN pending \cup {span} ELSE pending

Finish(span, error) ==
  /\ finished' = finished \cup {span}
  /\ IF ShouldEmit(error) /\ ~QueueFull
       THEN pending' = pending \cup {span} /\ UNCHANGED stats
       ELSE stats' = [stats EXCEPT !.dropped = @ + 1] /\ UNCHANGED pending

--------------------------------------------------------------------------------
(* on_execution_start                                                      *)
OnStart ==
  /\ trPhase = "new"
  /\ trPhase' = "round"
  /\ UNCHANGED <<trRound, sampled, llmSpan, callState, pending, spans, stats, finished>>

(* pre_llm_call                                                            *)
PreLlmCall ==
  /\ trPhase = "round" /\ trRound < TraceRounds
  /\ trPhase' = "llm"
  /\ trRound' = trRound + 1
  /\ llmSpan' = trRound'
  /\ UNCHANGED <<sampled, callState, pending, spans, stats, finished>>

(* post_llm_call, which is not called when the call failed: its span stays *)
(* open for good.                                                          *)
PostLlmCall ==
  /\ trPhase = "llm"
  /\ Finish(<<"llm_call", llmSpan>>, FALSE)
  /\ IF Raises(FALSE) THEN trPhase' = "error" /\ UNCHANGED llmSpan
     ELSE trPhase' = "tools" /\ llmSpan' = 0
  /\ UNCHANGED <<trRound, sampled, callState, spans>>

LlmCallFails ==
  /\ trPhase = "llm"
  /\ trPhase' = "error"
  /\ UNCHANGED <<trRound, sampled, llmSpan, callState, pending, spans, stats, finished>>

(* pre_tool_call                                                           *)
PreToolCall(c) ==
  /\ trPhase = "tools" /\ callState[c] = "new"
  /\ callState' = [callState EXCEPT ![c] = "open"]
  /\ UNCHANGED <<trPhase, trRound, sampled, llmSpan, pending, spans, stats, finished>>

(* post_tool_call, or on_tool_call_failed of a call that raised, timed out *)
(* or was rejected; possibly after another call's hook raised, even after  *)
(* the execution.                                                          *)
PostToolCall(c, error) ==
  /\ callState[c] = "open"
  /\ callState' = [callState EXCEPT ![c] = "closed"]
  /\ Finish(<<"tool_call", c>>, error)
  /\ trPhase' = IF trPhase = "tools" /\ Raises(error) THEN "error" ELSE trPhase
  /\ UNCHANGED <<trRound, sampled, llmSpan, spans>>

(* on_round_end                                                            *)
OnRoundEnd ==
  /\ trPhase = "tools" /\ \A c \in TraceCalls : callState[c] # "open"
  /\ Finish(<<"round_end", trRound>>, FALSE)
  /\ trPhase' = IF Raises(FALSE) THEN "error" ELSE "round"
  /\ UNCHANGED <<trRound, sampled, llmSpan, callState, spans>>

(* on_error                                                                *)
OnError ==
  /\ trPhase = "error"
  /\ Finish(ErrorSpan, TRUE)
  /\ trPhase' = "told"
  /\ UNCHANGED <<trRound, sampled, llmSpan, callState, spans>>

(* on_execution_end, of an execution that completed or failed, or that was *)
(* cancelled with its tool calls.                                          *)
OnEnd ==
  /\ trPhase \in {"round", "told", "llm", "tools"}
  /\ Finish(Root, trPhase # "round")
  /\ callState' = [c \in TraceCalls |->
                     IF callState[c] = "open" /\ trPhase = "tools" THEN "dropped"
                     ELSE callState[c]]
  /\ trPhase' = "ended"
  /\ UNCHANGED <<trRound, sampled, llmSpan, spans>>

(* _save_span, save_span of the store and _on_task_done                    *)
SaveEnds(span, ok) ==
  /\ pending' = pending \ {span}
  /\ spans' = IF ok THEN LastN(Append(spans, span), MaxSpans) ELSE spans
  /\ stats' = IF ok THEN [stats EXCEPT !.stored = @ + 1] ELSE [stats EXCEPT !.failed = @ + 1]
  /\ UNCHANGED <<trPhase, trRound, sampled, llmSpan, callState, finished>>

TraceNext ==
  \/ OnStart \/ PreLlmCall \/ PostLlmCall \/ LlmCallFails
  \/ \E c \in TraceCalls : PreToolCall(c) \/ \E error \in BOOLEAN : PostToolCall(c, error)
  \/ OnRoundEnd \/ OnError \/ OnEnd
  \/ \E span \in pending, ok \in BOOLEAN : SaveEnds(span, ok)

TraceSpec == TraceInit /\ [][TraceNext]_trVars

--------------------------------------------------------------------------------
TraceTypeOK ==
  /\ trPhase \in {"new", "round", "llm", "tools", "error", "told", "ended"}
  /\ trRound \in 0..TraceRounds /\ llmSpan \in 0..trRound
  /\ callState \in [TraceCalls -> {"new", "open", "closed", "dropped"}]
  /\ finished \subseteq TraceSpans /\ pending \subseteq finished
  /\ stats \in [{"stored", "dropped", "failed"} -> Nat]

(* No span is lost unnoticed: each that was finished is stored, is being   *)
(* saved, or is counted as failed or dropped (sampled away, or kept out by *)
(* a full queue), whatever finishes or raises beside it; and the store     *)
(* has none twice.                                                         *)
SpansAccounted ==
  /\ Cardinality(finished) = stats.stored + stats.failed + stats.dropped + Cardinality(pending)
  /\ ToSet(spans) \subseteq finished \ pending /\ IsInjective(spans)
================================================================================
