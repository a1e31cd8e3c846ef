------------------------------ MODULE MCAgentParts -----------------------------
(***************************************************************************)
(* What an agent is made of, on small instances: the admission of its      *)
(* runs, the rate limiter, the stores, the merging of streams, the command *)
(* sandbox, its plugins and the file tools.  They share no state: a        *)
(* behaviour is one of any one of them, named by part, while the others    *)
(* stay as they began.                                                     *)
(***************************************************************************)
EXTENDS Admission, ArtifactStore, InMemoryStores,
  RateLimiter, StreamMerge, BuiltinTools, MemoryPlugin, Tracing,
  CompressPlugin, Approval, Guards, Skill, OutputFormat, Knowledge,
  Graph, Mcp

CONSTANTS r1, r2, r3, r4, a1, a2, s1

(* Two turns of one conversation, a stateless run of the same agent, and a *)
(* turn of another agent's conversation of the same id.                    *)
MCAgentOf == [r \in Runs |-> IF r = r4 THEN a2 ELSE a1]
MCSessionOf == [r \in Runs |-> IF r = r3 THEN NoSession ELSE s1]

(* A text with characters of two bytes, and what a page cuts through.      *)
MCOffers == {[source |-> "text", content |-> <<1, 1, 2, 3, 3>>],
             [source |-> "bytes", content |-> <<1, 2, 2>>],
             [source |-> "file", content |-> <<1, 2, 3>>]}

MCScopes == [u \in {"u1", "u2", "u3"} |-> "p"]
MCImportance == [f \in {"f", "h"} |-> IF f = "h" THEN 2 ELSE 1]

(* A rule that rewrites a call and one that rejects; the levels of risk.   *)
MCCall(t, a) == [tool |-> t, args |-> a]
MCHookRules == <<[matches |-> {MCCall("t", "a")}, action |-> "transform", args |-> "b"],
                 [matches |-> {MCCall("u", "b")}, action |-> "reject", args |-> "b"]>>
MCRiskRules == {[matches |-> {MCCall("t", "b")}, level |-> 2],
                [matches |-> {MCCall("t", "b")}, level |-> 1],
                [matches |-> {MCCall("u", "a")}, level |-> 3]}

MCSkill == [name |-> "s", version |-> 1, scripts |-> FALSE]
MCContract == [type |-> "none", strict |-> FALSE, repair |-> FALSE, model |-> FALSE]
MCAnswer == [wrap |-> "bare", meets |-> TRUE, long |-> "no", id |-> 1]

(* Two chunks of a source, a mounted document and one of the host's store. *)
MCDoc(s, n) == [source |-> s, number |-> n]
MCChunks == <<MCDoc("one", 0), MCDoc("one", 1)>>
MCMounted == {MCDoc("mount", 0)}
MCStored == {MCDoc("store", 0)}
MCQueries == {{MCDoc("one", 0), MCDoc("mount", 0), MCDoc("store", 0)}, {MCDoc("one", 1)}}

MCDocValues == {[text |-> 1, tag |-> "open"], [text |-> 2, tag |-> "team"]}
MCRequests == {[query |-> {1, 2}, tags |-> {"open"}]}
MCRewrites == {{2}}
MCRerankOrders == {<<>>, <<2, 1>>, <<1>>}

MCTexts == {<<"curly">>, <<"quote">>, <<"word", "curly">>}
MCLineRanges == {<< <<1, 9>> >>, << <<0, 1>>, <<3, 3>> >>, << <<2, 1>> >>}

MCSourceItems == <<[name |-> "n", type |-> "concept"], [name |-> "o", type |-> "secret"]>>

MCServers == <<"s", "t">>
MCToolsOf == [s \in {"s", "t"} |-> IF s = "s" THEN {"s1"} ELSE {"t1", "t2"}]

VARIABLE part      (* the component that runs in this behaviour           *)

Parts == {"admission", "artifacts", "checkpoints", "stores", "rate",
          "stream", "sandbox", "memory", "tracing", "window", "compress",
          "approval", "guards", "skills", "format", "knowledge", "index",
          "files", "graph", "servers"}

(* What a component may start from is not told apart where it only waits.  *)
MCInit ==
  /\ part \in Parts
  /\ Init
  /\ ArtifactInit
  /\ CheckpointInit
  /\ StoresInit
  /\ RateInit
  /\ StreamInit
  /\ SandboxInit
  /\ MemoryInit
  /\ (part # "tracing" => sampled = TRUE) /\ TraceInit
  /\ ContextInit
  /\ CompressInit
  /\ ApprovalInit
  /\ GuardsInit
  /\ (part # "skills" => disk = [p \in 1..Places |-> {MCSkill}]) /\ SkillInit
  /\ (part # "format" => contract = MCContract /\ answer = MCAnswer) /\ FormatInit
  /\ KnowledgeInit
  /\ IndexInit
  /\ (part # "files" => file = Absent) /\ FileInit
  /\ GraphInit
  /\ McpInit

MCNext ==
  /\ UNCHANGED part
  /\ IF part = "admission" THEN Next ELSE UNCHANGED vars
  /\ IF part = "artifacts" THEN ArtifactNext ELSE UNCHANGED artVars
  /\ IF part = "checkpoints" THEN CheckpointNext ELSE UNCHANGED ckVars
  /\ IF part = "stores" THEN StoresNext ELSE UNCHANGED storesVars
  /\ IF part = "rate" THEN RateNext ELSE UNCHANGED rateVars
  /\ IF part = "stream" THEN StreamNext ELSE UNCHANGED streamVars
  /\ IF part = "sandbox" THEN SandboxNext ELSE UNCHANGED sandboxVars
  /\ IF part = "memory" THEN MemoryNext ELSE UNCHANGED memVars
  /\ IF part = "tracing" THEN TraceNext ELSE UNCHANGED trVars
  /\ IF part = "window" THEN ContextNext ELSE UNCHANGED chat
  /\ IF part = "compress" THEN CompressNext ELSE UNCHANGED compressVars
  /\ IF part = "approval" THEN ApprovalNext ELSE UNCHANGED approvalVars
  /\ IF part = "guards" THEN GuardsNext ELSE UNCHANGED guardVars
  /\ IF part = "skills" THEN SkillNext ELSE UNCHANGED skillVars
  /\ IF part = "format" THEN FormatNext ELSE UNCHANGED formatVars
  /\ IF part = "knowledge" THEN KnowledgeNext ELSE UNCHANGED knowledgeVars
  /\ IF part = "index" THEN IndexNext ELSE UNCHANGED indexVars
  /\ IF part = "files" THEN FileNext ELSE UNCHANGED fileVars
  /\ IF part = "graph" THEN GraphNext ELSE UNCHANGED graphVars
  /\ IF part = "servers" THEN McpNext ELSE UNCHANGED mcpVars

mcVars == <<part, vars, artVars, ckVars, storesVars, rateVars, streamVars,
            sandboxVars, memVars, trVars, chat, compressVars, approvalVars,
            guardVars, skillVars, formatVars, knowledgeVars, indexVars,
            fileVars, graphVars, mcpVars>>

(* The fairness of each component, where it is the one that runs.          *)
MCFairness ==
  /\ \A r \in Runs :
       /\ WF_vars(part = "admission" /\ Step(r))
       /\ WF_vars(part = "admission" /\ Leave(r))
       /\ WF_vars(part = "admission" /\ Finalize(r))
  /\ WF_artVars(part = "artifacts" /\ (EvictOne \/ EvictionDone))
  /\ \A c \in Commands :
       /\ WF_sandboxVars(part = "sandbox" /\ CommandStep(c))
       /\ WF_sandboxVars(part = "sandbox" /\ (VenvAdvances(c) \/ VenvFails(c)))

MCSpec == MCInit /\ [][MCNext]_mcVars /\ MCFairness

--------------------------------------------------------------------------------
(* The invariants of the components of this run, see their modules:        *)
(* the admission is of its types, artifacts keep their limits and pages    *)
(* come in order, the checkpoint of the highest sequence stays, the stores *)
(* keep what was written last, no window of the rate limiter holds too     *)
(* many places, parallel tool calls of a stream stay apart and cut answers *)
(* are marked, and a command leaves neither a process nor a script.        *)
RuntimeHolds ==
  /\ part = "admission" => TypeOK
  /\ part = "artifacts" => ArtifactTypeOK /\ LimitsHold /\ PagesInOrder
  /\ part = "checkpoints" => CheckpointTypeOK /\ HighestKept
  /\ part = "stores" => StoresTypeOK /\ StoresKeepLatest
  /\ part = "rate" => RateTypeOK /\ PlacesPerWindow
  /\ part = "stream" => StreamTypeOK /\ CallsKeptApart /\ WholeIsAll /\ StreamBounded
  /\ part = "sandbox" => SandboxTypeOK /\ CommandsLeaveNothing

(* Every run of the admission is admitted or gives up and returns what it  *)
(* held; an eviction ends unless nothing but durable artifacts is left, and *)
(* a command ends whatever its process does.                               *)
RuntimeEnds ==
  /\ part = "admission" => EveryRunEnds
  /\ EvictionEnds /\ CommandsEnd

(* The invariants of the plugins, see their modules: spans are accounted   *)
(* for, the window keeps calls with their results, a compressed            *)
(* conversation forgets nothing, skill scripts are audited, an answer      *)
(* keeps its contract, the local index is shown whole, keywords are those  *)
(* of the documents, an edit changes what it was to change, the graph is   *)
(* sound, and a run has the tools of all servers.                          *)
PluginsHold ==
  /\ part = "memory" => MemoryTypeOK
  /\ part = "tracing" => TraceTypeOK /\ SpansAccounted
  /\ part = "window" => ContextTypeOK /\ CallsAreAnswered
  /\ part = "compress" => CompressTypeOK /\ NothingForgotten
  /\ part = "approval" => ApprovalTypeOK
  /\ part = "guards" => GuardsTypeOK
  /\ part = "skills" => SkillTypeOK /\ SkillsAccounted
  /\ part = "format" => FormatTypeOK /\ ContractKept
  /\ part = "knowledge" => KnowledgeTypeOK /\ AnswersAreWhole /\ ShownIsFound
  /\ part = "index" => IndexTypeOK /\ KeywordsAreCurrent
  /\ part = "files" => FileTypeOK /\ EditIsLocal /\ WholeIsWhole
  /\ part = "graph" => GraphTypeOK /\ GraphIsSound
  /\ part = "servers" => McpTypeOK /\ RunsHaveAllTools

(* What is chosen by a walk over the data leaves out nothing that had a    *)
(* place: the window uses its budget, and a search of the graph finds      *)
(* every relation near to its entity.                                      *)
NothingLeftOut ==
  /\ part = "window" => WindowIsUsed
  /\ part = "graph" => SearchIsComplete
================================================================================
