------------------------------ MODULE ChatApi ------------------------------
(***************************************************************************)
(* POST /v1/chat/completions (api/routes/chat.py): a request is checked,   *)
(* an agent runs it, and the events of the run become one completion or a  *)
(* stream of chunks.  The run is the environment here: it reports its      *)
(* tokens so far, text and tool calls in any order, ends with one terminal *)
(* event, and may raise before or after it.                                *)
(***************************************************************************)
EXTENDS Integers, FiniteSets, Sequences

CONSTANTS ToolIds,      \* identities of tool calls
          MaxRunEvents  \* events of a run before its terminal one

ASSUME ChatAssumption == MaxRunEvents \in Nat

VARIABLES request,  \* flaw, stream and usage of the request
          http,     \* "idle", "running", "answered" or "broken"
          agentRun,      \* the events so far, the tokens used, the terminal event
          noted,    \* the usage the handler has noted, 0 when none
          chunks,   \* what a stream has sent
          response  \* what a request without a stream was answered

chatVars == <<request, http, agentRun, noted, chunks, response>>

Flaws == {"none", "no agent", "unsupported", "unknown agent", "no user message"}

\* stream_options without a stream is an unsupported parameter.
FlawOf(r) == IF r.flaw \in {"none", "unknown agent", "no user message"} /\ r.usage /\ ~r.stream
             THEN "unsupported" ELSE r.flaw

NoRun == [events |-> 0, used |-> 0, ended |-> "no"]
NoAnswer == [status |-> 0, usage |-> 0]

ChatInit == /\ request \in [flaw : Flaws, stream : BOOLEAN, usage : BOOLEAN]
            /\ http = "idle" /\ agentRun = NoRun /\ noted = 0 /\ chunks = <<>> /\ response = NoAnswer

Chunk(kind) == [kind |-> kind, index |-> 0, call |-> "", usage |-> 0]

StatusOf(flaw) == IF flaw = "unknown agent" THEN 404 ELSE 400

Refuse == /\ http = "idle" /\ FlawOf(request) # "none"
          /\ http' = "answered"
          /\ response' = [status |-> StatusOf(FlawOf(request)), usage |-> 0]
          /\ UNCHANGED <<request, agentRun, noted, chunks>>

\* A stream begins with the role of its message.
Accept == /\ http = "idle" /\ FlawOf(request) = "none"
          /\ http' = "running"
          /\ chunks' = IF request.stream THEN <<Chunk("role")>> ELSE <<>>
          /\ UNCHANGED <<request, agentRun, noted, response>>

Running == http = "running" /\ agentRun.ended = "no" /\ agentRun.events < MaxRunEvents

\* For a mutant: the events are taken for the tokens of one call each.
CostUpdateAdded == /\ Running
                   /\ agentRun' = [agentRun EXCEPT !.events = @ + 1, !.used = @ + 1]
                   /\ noted' = noted + agentRun'.used
                   /\ UNCHANGED <<request, http, chunks, response>>

\* A cost_update event carries the sum of the tokens of the run so far.
CostUpdate == /\ Running
              /\ agentRun' = [agentRun EXCEPT !.events = @ + 1, !.used = @ + 1]
              /\ noted' = agentRun'.used
              /\ UNCHANGED <<request, http, chunks, response>>

Sends(chunk) == chunks' = IF request.stream THEN Append(chunks, chunk) ELSE chunks

\* Text, a call and a preview of a call's arguments; only a preview knows
\* which of the calls of one answer it belongs to.
RunEvent == /\ Running
            /\ agentRun' = [agentRun EXCEPT !.events = @ + 1]
            /\ \/ Sends(Chunk("content"))
               \/ \E c \in ToolIds : Sends([Chunk("call") EXCEPT !.call = c])
               \/ \E c \in ToolIds, i \in 0..1 : Sends([Chunk("preview") EXCEPT !.call = c, !.index = i])
            /\ UNCHANGED <<request, http, noted, response>>

RunDone == /\ http = "running" /\ agentRun.ended = "no"
           /\ agentRun' = [agentRun EXCEPT !.ended = "done"]
           /\ chunks' = IF ~request.stream THEN chunks
                        ELSE chunks \o <<Chunk("stop")>>
                               \o (IF request.usage THEN <<[Chunk("usage") EXCEPT !.usage = noted]>> ELSE <<>>)
           /\ UNCHANGED <<request, http, noted, response>>

\* Without a stream an error is the answer at once.
RunError == /\ http = "running" /\ agentRun.ended = "no"
            /\ agentRun' = [agentRun EXCEPT !.ended = "error"]
            /\ IF request.stream THEN Sends(Chunk("error")) /\ UNCHANGED <<http, response>>
               ELSE /\ http' = "answered" /\ response' = [status |-> 500, usage |-> 0]
                    /\ UNCHANGED chunks
            /\ UNCHANGED <<request, noted>>

\* Neither form looks at a cancelled event.
RunCancelled == /\ http = "running" /\ agentRun.ended = "no"
                /\ agentRun' = [agentRun EXCEPT !.ended = "cancelled"]
                /\ UNCHANGED <<request, http, noted, chunks, response>>

RunRaises == /\ http = "running"
             /\ http' = "broken"
             /\ UNCHANGED <<request, agentRun, noted, chunks, response>>

EventsEnd == /\ http = "running" /\ agentRun.ended # "no"
             /\ http' = "answered"
             /\ Sends(Chunk("[DONE]"))
             /\ response' = IF request.stream THEN response ELSE [status |-> 200, usage |-> noted]
             /\ UNCHANGED <<request, agentRun, noted>>

ChatNext == Refuse \/ Accept \/ CostUpdate \/ RunEvent \/ RunDone \/ RunError \/ RunCancelled \/ RunRaises \/ EventsEnd

ChatSpec == ChatInit /\ [][ChatNext]_chatVars

\* The types of the variables.
ChatTypeOK == /\ http \in {"idle", "running", "answered", "broken"}
              /\ agentRun.ended \in {"no", "done", "error", "cancelled"}
              /\ agentRun.events \in 0..MaxRunEvents
              /\ response.status \in {0, 200, 400, 404, 500}

Count(kind) == Cardinality({n \in DOMAIN chunks : chunks[n].kind = kind})

\* What a client is told agrees with the run: a finished stream ends with
\* [DONE] and at most one reason, a failed run never looks like a success,
\* and the usage told is that of the whole run.
AnswerAgrees ==
    /\ http = "answered" /\ request.stream /\ FlawOf(request) = "none" =>
          /\ chunks[Len(chunks)].kind = "[DONE]" /\ Count("[DONE]") = 1
          /\ Count("stop") = (IF agentRun.ended = "done" THEN 1 ELSE 0)
          /\ Count("error") = (IF agentRun.ended = "error" THEN 1 ELSE 0)
    /\ \A n \in DOMAIN chunks : chunks[n].kind = "usage" => chunks[n].usage = agentRun.used
    /\ response.status = 200 => agentRun.ended # "error" /\ response.usage = agentRun.used

\* A client that asked for usage is told it before [DONE].  It is not when
\* the run fails or is cancelled.
UsageIsSent ==
    (http = "answered" /\ request.stream /\ request.usage /\ FlawOf(request) = "none") => Count("usage") = 1

\* A completion is the answer of a run that was done.  That of a cancelled
\* run is an empty one.
CompletedIsDone == response.status = 200 => agentRun.ended = "done"
=============================================================================
