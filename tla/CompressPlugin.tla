---------------------------- MODULE CompressPlugin -----------------------------
(***************************************************************************)
(* What the compress plugin (plugins/builtin/compress) lets an LLM call    *)
(* see of a conversation: the rounds of the recent window, durable tool    *)
(* results, what completes them to whole tool calls, and of all that what  *)
(* the input window has room for.                                          *)
(*                                                                         *)
(* The conversation grows as the executor grows it: a user message, then   *)
(* answers whose tool calls have their results appended before the next.   *)
(* Contents are left out but for their tokens and for being empty.         *)
(***************************************************************************)
EXTENDS Integers, FiniteSets, SequencesExt

CONSTANTS
  ChatRounds,      (* bound: user messages                                 *)
  ChatAnswers,     (* bound: answers with tool calls                       *)
  ChatCalls,       (* how many calls an answer may have                    *)
  ResultKinds,     (* tool results: plain, durable or empty                *)
  MixedResults,    (* whether the results of one answer differ in kind     *)
  TokenCounts,     (* of a message                                         *)
  RecentRounds,    (* recent_window.rounds                                 *)
  InputBudget,     (* max_input_tokens - reserve_output_tokens, at least 0 *)
  ExtraTokens      (* of the summary and other messages that are added     *)

ASSUME ContextWindowAssumption ==
  /\ {ChatRounds, ChatAnswers, RecentRounds, InputBudget, ExtraTokens} \subseteq Nat
  /\ ChatCalls \subseteq Nat \ {0} /\ TokenCounts \subseteq Nat \ {0}
  /\ ResultKinds \subseteq {"plain", "durable", "empty"} /\ MixedResults \in BOOLEAN

VARIABLE
  chat             (* the MessageStore: messages; of a tool result, the    *)
                   (* position of its call's answer                        *)

Message(role, calls, of, kind, tokens) ==
  [role |-> role, calls |-> calls, of |-> of, kind |-> kind, tokens |-> tokens]

ContextInit == chat = <<Message("system", 0, 0, "plain", 1)>>

UserSays ==
  /\ Last(chat).role # "user" /\ Cardinality({i \in DOMAIN chat : chat[i].role = "user"}) < ChatRounds
  /\ \E t \in TokenCounts : chat' = Append(chat, Message("user", 0, 0, "plain", t))

(* An answer without calls ends the round.                                 *)
TurnAnswered ==
  /\ Last(chat).role \in {"user", "tool"}
  /\ \E t \in TokenCounts : chat' = Append(chat, Message("assistant", 0, 0, "plain", t))

(* append of an answer and append_tool_results.                            *)
AnswerCalls ==
  /\ Last(chat).role \in {"user", "tool"}
  /\ Cardinality({i \in DOMAIN chat : chat[i].calls > 0}) < ChatAnswers
  /\ \E n \in ChatCalls, t \in TokenCounts :
     \E kinds \in [1..n -> ResultKinds] :
        /\ MixedResults \/ \A i, j \in 1..n : kinds[i] = kinds[j]
        /\ chat' = Append(chat, Message("assistant", n, 0, "plain", t))
                   \o [i \in 1..n |-> Message("tool", 0, Len(chat) + 1, kinds[i], t)]

ContextNext == UserSays \/ TurnAnswered \/ AnswerCalls
ContextSpec == ContextInit /\ [][ContextNext]_chat

--------------------------------------------------------------------------------
(* normalize_messages: empty messages are dropped; a message belongs to    *)
(* the round of the user message before it.                                *)
NormalizedHistory == {i \in DOMAIN chat : chat[i].kind # "empty" \/ chat[i].calls > 0}
RoundOf(i) == Cardinality({j \in 1..i : chat[j].role = "user"})

(* The results of the calls of answer i.                                   *)
ResultsOf(i) == {j \in NormalizedHistory : j > i /\ j <= i + chat[i].calls}

(* _paired_tool_indexes: call after call, an answer is kept for a result   *)
(* that is kept and a result for an answer that is kept by then, which it  *)
(* is for a result before it.                                              *)
(* Defect: results are kept for answers only.                              *)
PairedByAnswer(keep) ==
  keep \cup UNION {ResultsOf(i) : i \in keep \cap NormalizedHistory}
Paired(keep) ==
  LET paired(i) ==
        {j \in {i} \cup ResultsOf(i) : i \in keep \/ \E k \in ResultsOf(i) \cap keep : j = i \/ k <= j}
  IN  keep \cup UNION {paired(i) : i \in NormalizedHistory}

(* select_recent_window                                                    *)
Recent ==
  LET systems == {i \in NormalizedHistory : chat[i].role = "system"}
      maxRound == Cardinality({i \in NormalizedHistory : chat[i].role = "user"})
      cutoff == IF maxRound - RecentRounds + 1 > 1 THEN maxRound - RecentRounds + 1 ELSE 1
      durable == {i \in NormalizedHistory : chat[i].kind = "durable"}
  IN  IF RecentRounds = 0 THEN systems
      ELSE Paired(systems \cup {i \in NormalizedHistory : RoundOf(i) >= cutoff} \cup durable)

--------------------------------------------------------------------------------
(* pack_context: groups are the answers with their results, and all other  *)
(* messages alone, each named by its first message.                        *)
GroupOf(S, i) == IF chat[i].role = "tool" /\ chat[i].of \in S THEN chat[i].of ELSE i
Group(S, g) == {i \in S : GroupOf(S, i) = g}
TokensOf(I) == SumFunction([i \in I |-> chat[i].tokens])

(* _required_groups.  Defect: durable results are not required.            *)
RequiredLess(S) ==
  {g \in S : chat[g].role = "system"} \cup
  {g \in S : chat[g].role = "user" /\ \A h \in S : h > g => chat[h].role # "user"}
Required(S) ==
  {g \in S : chat[g].role = "system"} \cup
  {g \in S : chat[g].role = "user" /\ \A h \in S : h > g => chat[h].role # "user"} \cup
  {GroupOf(S, i) : i \in {j \in S : chat[j].kind = "durable"}}

(* The other groups, the newest first, as far as there is room.            *)
Selected(S) ==
  LET required == Required(S)
      tokens(G) == TokensOf({i \in S : GroupOf(S, i) \in G})
      others == SetToSortSeq({GroupOf(S, i) : i \in S} \ required, >)
  IN  FoldLeft(LAMBDA chosen, g :
                 IF ExtraTokens + tokens(chosen) + tokens({g}) <= InputBudget
                   THEN chosen \cup {g} ELSE chosen,
               required, others)

(* transform_messages: the messages the LLM is sent.                       *)
Sent ==
  LET S == Recent
      selected == Selected(S)
  IN  {i \in S : GroupOf(S, i) \in selected}

--------------------------------------------------------------------------------
ContextTypeOK ==
  /\ \A i \in DOMAIN chat : chat[i].role = "tool" => chat[chat[i].of].calls > 0
  /\ Sent \subseteq DOMAIN chat

(* Tool calls and their results reach the LLM as atomic groups: a call     *)
(* with its result, and no result without its call.                        *)
CallsAreAnswered ==
  LET sent == Sent IN
  \A i \in DOMAIN chat :
    chat[i].calls > 0 => i..(i + chat[i].calls) \subseteq sent \/ i..(i + chat[i].calls) \cap sent = {}

(* However small the window, the system prompt, the question and durable   *)
(* results reach the LLM; the other messages only where there is room, and *)
(* what is left out would not have fitted as well.                         *)
WindowIsUsed ==
  LET S == Recent
      sent == Sent
      must == {i \in S : \/ chat[i].role = "system" \/ chat[i].kind = "durable"
                         \/ chat[i].role = "user" /\ \A j \in S : j > i => chat[j].role # "user"}
      required == UNION {Group(S, GroupOf(S, i)) : i \in must}
      used == ExtraTokens + TokensOf(sent)
  IN  /\ required \subseteq sent
      /\ sent # required => used <= InputBudget
      /\ \A i \in S \ sent : used + TokensOf(Group(S, GroupOf(S, i))) > InputBudget
      /\ RecentRounds > 0 => {i \in NormalizedHistory : chat[i].kind = "durable"} \subseteq sent

--------------------------------------------------------------------------------
(***************************************************************************)
(* What the compress plugin (plugins/builtin/compress/plugin.py) remembers *)
(* of a conversation: a buffer of its rounds, the summary a utility model  *)
(* makes of them, durable tool results, and the boundary in which all this *)
(* is saved after every round, for the next process.                       *)
(*                                                                         *)
(* One instance serves all runs of an agent.  The boundary store never     *)
(* suspends (in-memory or KVStore); asking the model does.  A round, its   *)
(* lines in the buffer and a durable result are one item, named by its     *)
(* conversation and number.                                                *)
(***************************************************************************)
CONSTANTS
  Talks,           (* conversations (session ids) of the agent             *)
  TalksOverlap,    (* whether runs of different conversations overlap      *)
  MaxItems,        (* bound: rounds of a conversation                      *)
  SummaryAfter,    (* summary.after_rounds                                 *)
  MaxFailures,     (* summary.max_failures                                 *)
  DurableKeep,     (* durable_tools.keep                                   *)
  MaxProcesses     (* bound: processes                                     *)

ASSUME CompressAssumption ==
  /\ IsFiniteSet(Talks) /\ TalksOverlap \in BOOLEAN
  /\ {MaxItems, SummaryAfter, MaxFailures, DurableKeep, MaxProcesses} \subseteq Nat

VARIABLES
  talkPhase,       (* idle, running or summarizing                         *)
  itemCount,       (* rounds of a conversation so far                      *)
  askedItems,      (* the items the model was asked to summarize           *)
  summary,         (* _summary: the items it was made of, {} for none      *)
  itemBuffer,      (* _conversation_buffer                                 *)
  durables,        (* _durable_results                                     *)
  roundCount,      (* _round_count                                         *)
  summarizer,      (* the state of the SessionSummarizer                   *)
  loadedTalks,     (* _boundary_loaded_sessions                            *)
  boundary,        (* the boundaries saved                                 *)
  savedItems,      (* history: the items of a conversation whose round     *)
                   (* ended with a save                                    *)
  processes

remembered == <<summary, itemBuffer, durables, roundCount>>
compressVars == <<talkPhase, itemCount, askedItems, remembered, summarizer, loadedTalks, boundary,
                  savedItems, processes>>

Items == Talks \X (1..MaxItems)
Blank == [summary |-> {}, buffer |-> <<>>, durables |-> <<>>, rounds |-> 0]
FreshSummarizer == [content |-> {}, failures |-> 0, broken |-> FALSE]

CompressInit ==
  /\ talkPhase = [t \in Talks |-> "idle"] /\ itemCount = [t \in Talks |-> 0]
  /\ askedItems = [t \in Talks |-> {}]
  /\ summary = {} /\ itemBuffer = <<>> /\ durables = <<>> /\ roundCount = 0
  /\ summarizer = FreshSummarizer
  /\ loadedTalks = {}
  /\ boundary = [t \in Talks |-> Blank]
  /\ savedItems = [t \in Talks |-> {}]
  /\ processes = 1

(* CompressionBoundaryService.load: once in a process, if there is a       *)
(* boundary.                                                               *)
LoadBoundary(t) ==
  /\ loadedTalks' = loadedTalks \cup {t}
  /\ IF t \in loadedTalks \/ boundary[t] = Blank THEN UNCHANGED remembered
     ELSE /\ summary' = boundary[t].summary
          /\ itemBuffer' = boundary[t].buffer
          /\ durables' = boundary[t].durables
          /\ roundCount' = IF boundary[t].rounds > roundCount THEN boundary[t].rounds ELSE roundCount

(* CompressionBoundaryService.save, of what there will be, at the end of a *)
(* round.  Defect: the buffer is left out.                                 *)
SaveNoBuffer(t) ==
  /\ boundary' = [boundary EXCEPT ![t] = [summary |-> summary', buffer |-> <<>>,
                                          durables |-> durables', rounds |-> roundCount']]
  /\ savedItems' = [savedItems EXCEPT ![t] = @ \cup {<<t, itemCount'[t]>>}]
  /\ talkPhase' = [talkPhase EXCEPT ![t] = "idle"]

SaveBoundary(t) ==
  /\ boundary' = [boundary EXCEPT ![t] = [summary |-> summary', buffer |-> itemBuffer',
                                          durables |-> durables', rounds |-> roundCount']]
  /\ savedItems' = [savedItems EXCEPT ![t] = @ \cup {<<t, itemCount'[t]>>}]
  /\ talkPhase' = [talkPhase EXCEPT ![t] = "idle"]

(* on_execution_start                                                      *)
StartTalk(t) ==
  /\ talkPhase[t] = "idle" /\ itemCount[t] < MaxItems
  /\ TalksOverlap \/ \A u \in Talks : talkPhase[u] = "idle"
  /\ talkPhase' = [talkPhase EXCEPT ![t] = "running"]
  /\ LoadBoundary(t)
  /\ UNCHANGED <<itemCount, askedItems, summarizer, boundary, savedItems, processes>>

Asks == summary = {} /\ roundCount' >= SummaryAfter /\ ~summarizer.broken

LastItems(s) ==
  IF DurableKeep > 0 /\ Len(s) > DurableKeep THEN SubSeq(s, Len(s) - DurableKeep + 1, Len(s)) ELSE s

(* post_tool_call, perhaps with a durable result, and on_round_end, up to  *)
(* the model's answer if one is asked; a summarizer that is broken returns *)
(* what it made last.                                                      *)
RoundEnds(t, durable) ==
  LET item == <<t, itemCount[t] + 1>> IN
  /\ talkPhase[t] = "running"
  /\ itemCount' = [itemCount EXCEPT ![t] = @ + 1]
  /\ roundCount' = roundCount + 1
  /\ durables' = IF durable THEN LastItems(Append(durables, item)) ELSE durables
  /\ IF Asks
       THEN /\ itemBuffer' = Append(itemBuffer, item)
            /\ askedItems' = [askedItems EXCEPT ![t] = ToSet(itemBuffer')]
            /\ talkPhase' = [talkPhase EXCEPT ![t] = "summarizing"]
            /\ UNCHANGED <<summary, boundary, savedItems>>
       ELSE /\ summary' = IF summary = {} /\ roundCount' >= SummaryAfter THEN summarizer.content
                          ELSE summary
            /\ itemBuffer' = IF summary = {} /\ summary' # {} THEN <<>> ELSE Append(itemBuffer, item)
            /\ SaveBoundary(t)
            /\ UNCHANGED askedItems
  /\ UNCHANGED <<summarizer, loadedTalks, processes>>

(* _maybe_summarize with the summarizer's new state s: a summary replaces  *)
(* the buffer.                                                             *)
Summarized(t, s) ==
  /\ talkPhase[t] = "summarizing"
  /\ summarizer' = s
  /\ summary' = s.content
  /\ itemBuffer' = IF s.content = {} THEN itemBuffer ELSE <<>>
  /\ askedItems' = [askedItems EXCEPT ![t] = {}]
  /\ UNCHANGED <<itemCount, durables, roundCount, loadedTalks, processes>>
  /\ SaveBoundary(t)

SummaryArrives(t) ==
  Summarized(t, [summarizer EXCEPT !.content = askedItems[t], !.failures = 0])

SummaryFails(t) ==
  Summarized(t, [summarizer EXCEPT !.failures = @ + 1,
                                   !.broken = summarizer.failures + 1 >= MaxFailures])

(* The process ends, in the middle of anything, and starts again.          *)
CompressRestart ==
  /\ processes < MaxProcesses
  /\ processes' = processes + 1
  /\ talkPhase' = [t \in Talks |-> "idle"]
  /\ askedItems' = [t \in Talks |-> {}]
  /\ summary' = {} /\ itemBuffer' = <<>> /\ durables' = <<>> /\ roundCount' = 0
  /\ summarizer' = FreshSummarizer
  /\ loadedTalks' = {}
  /\ UNCHANGED <<itemCount, boundary, savedItems>>

CompressNext ==
  \/ \E t \in Talks :
       \/ StartTalk(t) \/ SummaryArrives(t) \/ SummaryFails(t)
       \/ \E durable \in BOOLEAN : RoundEnds(t, durable)
  \/ CompressRestart

CompressSpec == CompressInit /\ [][CompressNext]_compressVars

--------------------------------------------------------------------------------
CompressTypeOK ==
  /\ talkPhase \in [Talks -> {"idle", "running", "summarizing"}]
  /\ summary \subseteq Items /\ itemBuffer \in Seq(Items) /\ durables \in Seq(Items)
  /\ DurableKeep > 0 => Len(durables) <= DurableKeep
  /\ loadedTalks \subseteq Talks

(* No round of a conversation is forgotten: it is in the summary or in the *)
(* buffer a summary will be made of, and not in both, in the boundary the  *)
(* next process starts from and in the plugin once it has loaded it.       *)
Covers(s, buffer, items) ==
  items \subseteq s \cup ToSet(buffer) /\ s \cap ToSet(buffer) = {}
NothingForgotten ==
  \A t \in Talks :
    /\ Covers(boundary[t].summary, boundary[t].buffer, savedItems[t])
    /\ t \in loadedTalks => Covers(summary, itemBuffer, savedItems[t])

(* What is remembered of a conversation is its own.                        *)
BoundaryIsOwn ==
  \A t \in Talks :
    boundary[t].summary \cup ToSet(boundary[t].buffer) \cup ToSet(boundary[t].durables)
      \subseteq {t} \X (1..MaxItems)
================================================================================
