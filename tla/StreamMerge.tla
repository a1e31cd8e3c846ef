------------------------------ MODULE StreamMerge ------------------------------
(***************************************************************************)
(* StreamAggregator.aggregate (core/stream_aggregator.py): the chunks of a *)
(* streamed answer merged into one message, with the previews shown on the *)
(* way.  The provider is external: it sends the text of its answer and the *)
(* pieces of its tool calls, those of parallel calls interleaved and       *)
(* several in one chunk, each with the index of its call or without one,   *)
(* and it may fall silent.                                                 *)
(***************************************************************************)
EXTENDS Integers, FiniteSets, SequencesExt

CONSTANTS
  StreamCalls,       (* the calls of the answer: their indexes             *)
  ArgumentPieces,    (* pieces the arguments of a call come in             *)
  TextPieces,        (* bound: pieces of content                           *)
  IndexGiven,        (* FALSE: the provider leaves out "index"             *)
  MaxStreamChunks,   (* STREAM_MAX_CHUNKS                                  *)
  MaxStreamContent   (* STREAM_MAX_CONTENT_LENGTH                          *)

ASSUME StreamAssumption ==
  /\ StreamCalls \subseteq Nat /\ IndexGiven \in BOOLEAN
  /\ {ArgumentPieces, TextPieces} \subseteq Nat /\ IsFiniteSet(StreamCalls)
  /\ {MaxStreamChunks, MaxStreamContent} \subseteq Nat \ {0}

VARIABLES
  toolCallsMap,     (* index -> the id and the argument pieces so far      *)
  contentLength,
  chunkCount,
  usageSum,         (* the tokens counted                                  *)
  stream,           (* reading, whole, cut (partial) or raised             *)
  preview,          (* what on_delta last showed of each index             *)
  sentText,         (* the provider: pieces of content sent                *)
  sentPieces        (* the provider: pieces of each call sent; 0: also its *)
                    (* opening with id and name is still to come           *)

streamVars == <<toolCallsMap, contentLength, chunkCount, usageSum, stream, preview,
                sentText, sentPieces>>

(* A piece belongs to a call of the provider and has its place in it: 0 is *)
(* the opening, which carries the id and the name.                         *)
Piece(c, k) == [call |-> c, place |-> k]
IndexOf(p) == IF IndexGiven THEN p.call ELSE 0
Indexes == IF IndexGiven THEN StreamCalls ELSE {0}

NoEntry == [id |-> -1, pieces |-> <<>>]

StreamInit ==
  /\ toolCallsMap = [i \in {} |-> NoEntry]
  /\ preview = [i \in {} |-> NoEntry]
  /\ contentLength = 0 /\ chunkCount = 0 /\ usageSum = 0
  /\ stream = "reading"
  /\ sentText = 0
  /\ sentPieces = [c \in StreamCalls |-> -1]

Updated(calls, i, new) ==
  [j \in DOMAIN calls \cup {i} |-> IF j = i THEN new ELSE calls[j]]

(* For a mutant: an opening starts the entry afresh, every other piece     *)
(* goes to the entry opened last.                                          *)
MergeIntoLast(calls, p) ==
  LET i == IF p.place = 0 \/ calls = << >> THEN IndexOf(p)
           ELSE CHOOSE j \in DOMAIN calls : \A k \in DOMAIN calls : k <= j
      old == IF i \in DOMAIN calls THEN calls[i] ELSE NoEntry
      new == [id |-> IF p.place = 0 THEN p.call ELSE old.id,
              pieces |-> Append(old.pieces, p)]
  IN  Updated(calls, i, new)

(* _merge_tool_call: the id is replaced, the arguments are appended.       *)
MergeToolCall(calls, p) ==
  LET old == IF IndexOf(p) \in DOMAIN calls THEN calls[IndexOf(p)] ELSE NoEntry
      new == [id |-> IF p.place = 0 THEN p.call ELSE old.id,
              pieces |-> Append(old.pieces, p)]
  IN  Updated(calls, IndexOf(p), new)

(* The pieces of one chunk, one after the other.                           *)
MergeDeltas(calls, deltas) ==
  LET merged[n \in 0..Len(deltas)] ==
        IF n = 0 THEN calls ELSE MergeToolCall(merged[n - 1], deltas[n])
  IN  merged[Len(deltas)]

(* For a mutant: the length of a chunk is not counted.                     *)
LimitByChunks(count, length) == count >= MaxStreamChunks

(* limit_exceeded, looked at before every chunk is awaited.                *)
LimitExceeded(count, length) == count >= MaxStreamChunks \/ length >= MaxStreamContent

(* The provider's next chunk: perhaps a piece of text, and the next piece  *)
(* of some calls, in any order.                                            *)
Listings(S) == UNION {Injection(1..n, S) : n \in 0..Cardinality(S)}

Unsent == {c \in StreamCalls : sentPieces[c] < ArgumentPieces}
WholeSent == Unsent = {}

MergeChunk ==
  /\ stream = "reading"
  /\ \E cs \in Listings(Unsent), text \in {0, 1} :
       LET deltas == [k \in DOMAIN cs |-> Piece(cs[k], sentPieces[cs[k]] + 1)]
           merged == MergeDeltas(toolCallsMap, deltas)
           shownOf == {IndexOf(deltas[k]) : k \in DOMAIN deltas}
       IN  /\ sentText + text <= TextPieces
           /\ cs # <<>> \/ text = 1
           /\ toolCallsMap' = merged
           /\ preview' = [i \in DOMAIN preview \cup shownOf |->
                          IF i \in shownOf THEN merged[i] ELSE preview[i]]
           /\ sentText' = sentText + text
           /\ sentPieces' = [c \in StreamCalls |-> sentPieces[c] + IF c \in ToSet(cs) THEN 1 ELSE 0]
           /\ contentLength' = contentLength + text
           /\ chunkCount' = chunkCount + 1
           /\ stream' = IF LimitExceeded(chunkCount + 1, contentLength + text)
                        THEN "cut" ELSE stream
  /\ UNCHANGED usageSum

(* The last chunk carries the usage; then the stream stops.                *)
StreamStops ==
  /\ stream = "reading" /\ WholeSent
  /\ \E u \in {0, 1} : usageSum' = usageSum + u
  /\ chunkCount' = chunkCount + 1
  /\ stream' = IF LimitExceeded(chunkCount + 1, contentLength) THEN "cut" ELSE "whole"
  /\ UNCHANGED <<toolCallsMap, contentLength, preview, sentText, sentPieces>>

(* For a mutant: silence after some payload is taken for the end.          *)
StreamIdleAsEnd ==
  /\ stream = "reading"
  /\ stream' = IF contentLength > 0 \/ DOMAIN toolCallsMap # {} THEN "whole" ELSE "raised"
  /\ UNCHANGED <<toolCallsMap, contentLength, chunkCount, usageSum, preview, sentText,
                 sentPieces>>

(* Nothing comes for stream_idle_timeout.                                  *)
StreamIdle ==
  /\ stream = "reading"
  /\ stream' = IF contentLength > 0 \/ DOMAIN toolCallsMap # {} THEN "cut" ELSE "raised"
  /\ UNCHANGED <<toolCallsMap, contentLength, chunkCount, usageSum, preview, sentText,
                 sentPieces>>

StreamNext == MergeChunk \/ StreamStops \/ StreamIdle

StreamSpec == StreamInit /\ [][StreamNext]_streamVars

--------------------------------------------------------------------------------
(* Properties.                                                             *)

EntriesOK(calls) ==
  \A i \in DOMAIN calls :
    /\ i \in Indexes
    /\ calls[i].id \in StreamCalls \cup {-1}
    /\ ToSet(calls[i].pieces) \subseteq
         [call : StreamCalls, place : 0..ArgumentPieces]

(* The type invariant.                                                     *)
StreamTypeOK ==
  /\ EntriesOK(toolCallsMap) /\ EntriesOK(preview)
  /\ contentLength \in 0..TextPieces /\ chunkCount \in 0..MaxStreamChunks
  /\ usageSum \in {0, 1} /\ stream \in {"reading", "whole", "cut", "raised"}
  /\ sentText = contentLength /\ sentPieces \in [StreamCalls -> -1..ArgumentPieces]

(* However the pieces of parallel calls are interleaved, each call of the  *)
(* message has its own pieces, all that were sent and in their order, and  *)
(* the id they came with; what was shown of it last is what it says.  This *)
(* needs a provider that numbers its calls: without "index" they all run   *)
(* together in one.                                                        *)
CallsKeptApart ==
  /\ preview = toolCallsMap
  /\ \A c \in StreamCalls :
       IF sentPieces[c] < 0 THEN c \notin DOMAIN toolCallsMap
       ELSE toolCallsMap[c] = [id |-> c,
                               pieces |-> [k \in 1..(sentPieces[c] + 1) |-> Piece(c, k - 1)]]

(* A message that is not marked partial holds every call of the answer to  *)
(* the end; what is cut at a limit or by silence is marked.  (The callers   *)
(* of aggregate() do not look at the mark.)                                *)
WholeIsAll == stream = "whole" => WholeSent

(* Reading stops at the limits: no message is longer than them.            *)
StreamBounded ==
  /\ chunkCount <= MaxStreamChunks
  /\ stream = "reading" => contentLength < MaxStreamContent
================================================================================
