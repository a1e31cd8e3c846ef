------------------------------- MODULE Knowledge -------------------------------
(***************************************************************************)
(* The knowledge plugin (plugins/builtin/knowledge/plugin.py): the chunks  *)
(* of its local sources, the local index built by the first run that needs *)
(* it while others wait, and a search that asks each mounted resource in   *)
(* turn and merges the answers.  The search inside the local index is the  *)
(* second part of the module; here it answers with what it holds.          *)
(*                                                                         *)
(* A chunk is a record of its source and its number in that source.  A     *)
(* query is the set of documents it is near to.                            *)
(***************************************************************************)
EXTENDS KeptItems, SequencesExt

CONSTANTS Chunks,        \* chunks of the local sources, in order
          MountedDocs,   \* documents of knowledge.documents
          StoreDocs,     \* documents of knowledge.index and knowledge.vector_store
          Queries,       \* sets of documents a query is near to
          HasIndex, HasEmbedding, HasVectors,  \* what the host mounted
          KnowledgeRuns,
          NoRun,         \* no run
          TopicPassed,   \* whether a caller of inject_context gives the topic
          ResourcesFail  \* a mounted resource may raise

ASSUME KnowledgeAssumption == (HasVectors => HasEmbedding) /\ NoRun \notin KnowledgeRuns

VARIABLES localIndex,   \* what the local index holds
          indexReady, indexLock, searching

knowledgeVars == <<localIndex, indexReady, indexLock, searching>>

LocalDocs == ToSet(Chunks) \cup MountedDocs
HasDocuments == Chunks # <<>> \/ MountedDocs # {}

IdleSearch == [phase |-> "start", query |-> {}, found |-> {}, shown |-> {}, matched |-> {}]

KnowledgeInit == /\ localIndex = {} /\ indexReady = FALSE /\ indexLock = NoRun
                 /\ searching = [r \in KnowledgeRuns |-> IdleSearch]

Goes(r, phase) == searching' = [searching EXCEPT ![r].phase = phase]

(***************************************************************************)
(* Building the local index, at the start of a run                         *)
(***************************************************************************)

\* Who finds the index ready, or nothing to index, goes on; who does not
\* waits for the lock.
RunStarts(r) ==
    /\ searching[r].phase = "start"
    /\ Goes(r, IF HasDocuments /\ ~indexReady THEN "waiting" ELSE "running")
    /\ UNCHANGED <<localIndex, indexReady, indexLock>>

\* Under the lock readiness is looked at again.
LockTaken(r) ==
    /\ searching[r].phase = "waiting"
    /\ indexLock = NoRun
    /\ IF indexReady THEN Goes(r, "running") /\ UNCHANGED indexLock
       ELSE Goes(r, "mounting") /\ indexLock' = r
    /\ UNCHANGED <<localIndex, indexReady>>

\* For a mutant: readiness is told before the embeddings are back.
DocumentsMountedReady(r) ==
    /\ searching[r].phase = "mounting"
    /\ IF HasEmbedding THEN Goes(r, "embedding") /\ localIndex' = {} /\ indexReady' = TRUE /\ UNCHANGED indexLock
       ELSE Goes(r, "running") /\ localIndex' = LocalDocs /\ indexReady' = TRUE /\ indexLock' = NoRun

\* The mounted documents are in; the new index waits for their embeddings,
\* and without an embedding client it is ready at once.
DocumentsMounted(r) ==
    /\ searching[r].phase = "mounting"
    /\ IF HasEmbedding THEN Goes(r, "embedding") /\ localIndex' = {} /\ UNCHANGED <<indexReady, indexLock>>
       ELSE Goes(r, "running") /\ localIndex' = LocalDocs /\ indexReady' = TRUE /\ indexLock' = NoRun

IndexBuilt(r) ==
    /\ searching[r].phase = "embedding"
    /\ Goes(r, "running")
    /\ localIndex' = LocalDocs /\ indexReady' = TRUE /\ indexLock' = NoRun

\* A resource that raises ends the run; the next run builds again.
BuildFails(r) ==
    /\ ResourcesFail
    /\ searching[r].phase \in {"mounting", "embedding"}
    /\ Goes(r, "failed")
    /\ indexLock' = NoRun
    /\ UNCHANGED <<localIndex, indexReady>>

(***************************************************************************)
(* Context and searches of a run                                           *)
(***************************************************************************)

\* A chunk found by its words is looked up again by its number, in the list
\* of the chunks of all sources.
ByNumber(chunk) == Chunks[chunk.number + 1]

ContextInjected(r) ==
    /\ TopicPassed
    /\ searching[r].phase = "running"
    /\ \E query \in Queries :
         LET matched == ToSet(Chunks) \cap query
         IN searching' = [searching EXCEPT ![r].matched = matched,
                                           ![r].shown = {ByNumber(chunk) : chunk \in matched}]
    /\ UNCHANGED <<localIndex, indexReady, indexLock>>

SearchBegins(r) ==
    /\ searching[r].phase = "running"
    /\ \E query \in Queries :
         searching' = [searching EXCEPT ![r] = [@ EXCEPT !.query = query, !.found = {},
                                      !.phase = IF HasIndex THEN "asking index" ELSE "ensuring"]]
    /\ UNCHANGED <<localIndex, indexReady, indexLock>>

IndexAnswers(r) ==
    /\ searching[r].phase = "asking index"
    /\ searching' = [searching EXCEPT ![r].phase = "ensuring", ![r].found = StoreDocs \cap searching[r].query]
    /\ UNCHANGED <<localIndex, indexReady, indexLock>>

\* The local index was made ready at the start of the run.
LocalAnswers(r) ==
    /\ searching[r].phase = "ensuring"
    /\ HasDocuments => indexReady
    /\ searching' = [searching EXCEPT ![r].phase = IF HasVectors THEN "asking vectors" ELSE "answered",
                                      ![r].found = @ \cup (localIndex \cap searching[r].query)]
    /\ UNCHANGED <<localIndex, indexReady, indexLock>>

\* The vectors near to the query, whatever the filter of the request.
VectorsAnswer(r) ==
    /\ searching[r].phase = "asking vectors"
    /\ searching' = [searching EXCEPT ![r].phase = "answered", ![r].found = @ \cup (StoreDocs \cap searching[r].query)]
    /\ UNCHANGED <<localIndex, indexReady, indexLock>>

\* One resource that raises is an error of the whole search; the run goes on.
KnowledgeSearchFails(r) ==
    /\ ResourcesFail
    /\ searching[r].phase \in {"asking index", "ensuring", "asking vectors"}
    /\ searching' = [searching EXCEPT ![r].phase = "running", ![r].found = {}, ![r].query = {}]
    /\ UNCHANGED <<localIndex, indexReady, indexLock>>

SearchReturns(r) ==
    /\ searching[r].phase = "answered"
    /\ Goes(r, "running")
    /\ UNCHANGED <<localIndex, indexReady, indexLock>>

KnowledgeNext ==
    \E r \in KnowledgeRuns :
        \/ RunStarts(r) \/ LockTaken(r) \/ DocumentsMounted(r) \/ IndexBuilt(r) \/ BuildFails(r)
        \/ ContextInjected(r) \/ SearchBegins(r) \/ IndexAnswers(r) \/ LocalAnswers(r) \/ VectorsAnswer(r)
        \/ KnowledgeSearchFails(r) \/ SearchReturns(r)

KnowledgeSpec == KnowledgeInit /\ [][KnowledgeNext]_knowledgeVars

\* The types of the variables.
KnowledgeTypeOK ==
    /\ localIndex \subseteq LocalDocs
    /\ indexReady \in BOOLEAN
    /\ indexLock \in KnowledgeRuns \cup {NoRun}
    /\ \A r \in KnowledgeRuns : searching[r].found \subseteq LocalDocs \cup StoreDocs

\* A search that answers has found every local document near to its query,
\* though the index is built while runs start; and the lock of the building
\* is held only by a run that builds, so no run waits for ever.
AnswersAreWhole ==
    /\ \A r \in KnowledgeRuns :
          searching[r].phase = "answered" => LocalDocs \cap searching[r].query \subseteq searching[r].found
    /\ indexLock # NoRun => searching[indexLock].phase \in {"mounting", "embedding"}

\* The chunks shown in the context are those that were found.
ShownIsFound == \A r \in KnowledgeRuns : searching[r].shown = searching[r].matched

--------------------------------------------------------------------------------
(***************************************************************************)
(* The in-memory knowledge index and the hybrid search over it             *)
(* (plugins/builtin/knowledge/support/retrieval.py): documents, the        *)
(* embedding of each one and a keyword (BM25) index.  Writing and          *)
(* searching are coroutines that wait for the embedding client in the      *)
(* middle, so both see what the others did meanwhile.                      *)
(*                                                                         *)
(* A document is a record of the text and the tag that filters look at; a  *)
(* query is the set of texts it is near to, by words or by vector.  The    *)
(* scores of a ranking are abstracted to an order of the hits, any order.  *)
(***************************************************************************)
CONSTANTS DocIds,        \* identities of documents
          DocValues,     \* records [text, tag]
          IndexWriters,  \* tasks that write once each
          IndexReaders,  \* tasks that search once each
          Requests,      \* records [query, tags]: texts near to it, tags allowed
          Rewrites,      \* queries a rewriter may add
          RerankOrders,  \* what a reranker may answer: sequences of positions
          CandidateK, ResultK,
          EmbedMayFail   \* the embedding client may raise

ASSUME IndexAssumption == IsFiniteSet(DocIds) /\ {CandidateK, ResultK} \subseteq Nat

VARIABLES documents, embeddings, keywordIndex, writing, reading

indexVars == <<documents, embeddings, keywordIndex, writing, reading>>

NoRequest == [query |-> {}, tags |-> {}]

IdleReader == [phase |-> "idle", request |-> NoRequest, snapshot |-> <<>>, queries |-> <<>>,
               lists |-> <<>>, blind |-> FALSE, merged |-> <<>>, found |-> <<>>]

Contents == UNION {[D -> DocValues] : D \in SUBSET DocIds}

IndexInit == /\ documents = <<>> /\ embeddings = <<>> /\ keywordIndex = <<>>
             /\ writing = [w \in IndexWriters |-> [phase |-> "idle", docs |-> <<>>]]
             /\ reading = [r \in IndexReaders |-> IdleReader]

\* A dictionary brought up to date with another.
UpdatedWith(f, g) == [i \in DOMAIN g \cup DOMAIN f |-> IF i \in DOMAIN g THEN g[i] ELSE f[i]]
WithoutIds(f, D) == [i \in DOMAIN f \ D |-> f[i]]

(***************************************************************************)
(* Writers                                                                 *)
(***************************************************************************)

\* The documents are in the table before their texts are embedded.
UpsertStarts(w) ==
    /\ writing[w].phase = "idle"
    /\ \E docs \in Contents :
         /\ docs # <<>>
         /\ documents' = UpdatedWith(documents, docs)
         /\ writing' = [writing EXCEPT ![w] = [phase |-> "embedding", docs |-> docs]]
    /\ UNCHANGED <<embeddings, keywordIndex, reading>>

\* Mutant of UpsertEnds: the keyword index is rebuilt from what this task
\* wrote, not from the table as it is now.
UpsertEndsAlone(w) ==
    /\ writing[w].phase = "embedding"
    /\ embeddings' = UpdatedWith(embeddings, [i \in DOMAIN writing[w].docs |-> writing[w].docs[i].text])
    /\ keywordIndex' = UpdatedWith(keywordIndex, writing[w].docs)
    /\ writing' = [writing EXCEPT ![w].phase = "done"]
    /\ UNCHANGED <<documents, reading>>

UpsertEnds(w) ==
    /\ writing[w].phase = "embedding"
    /\ embeddings' = UpdatedWith(embeddings, [i \in DOMAIN writing[w].docs |-> writing[w].docs[i].text])
    /\ keywordIndex' = documents
    /\ writing' = [writing EXCEPT ![w].phase = "done"]
    /\ UNCHANGED <<documents, reading>>

UpsertFails(w) ==
    /\ EmbedMayFail
    /\ writing[w].phase = "embedding"
    /\ writing' = [writing EXCEPT ![w].phase = "done"]
    /\ UNCHANGED <<documents, embeddings, keywordIndex, reading>>

DeleteDocuments(w) ==
    /\ writing[w].phase = "idle"
    /\ \E D \in SUBSET DocIds :
         /\ D # {}
         /\ documents' = WithoutIds(documents, D)
         /\ embeddings' = WithoutIds(embeddings, D)
         /\ keywordIndex' = IF D \cap DOMAIN documents = {} THEN keywordIndex ELSE documents'
    /\ writing' = [writing EXCEPT ![w].phase = "done"]
    /\ UNCHANGED reading

(***************************************************************************)
(* Searches                                                                *)
(***************************************************************************)

Matches(request, doc) == request.tags = {} \/ doc.tag \in request.tags

Hit(i, doc) == [id |-> i, doc |-> doc]

\* The first ones, as many as are wanted.
FirstOf(q, limit) == SubSeq(q, 1, IF Len(q) > limit THEN limit ELSE Len(q))

\* The hits in any order.
Rankings(hits) == {FirstOf(q, CandidateK) : q \in SetToSeqs(hits)}

KeywordHits(docs, query, request) ==
    {Hit(i, docs[i]) : i \in {j \in DOMAIN docs : Matches(request, docs[j]) /\ docs[j].text \in query}}

\* Mutant of VectorHits: the filter is left to the keyword ranking.
VectorHitsUnfiltered(query, request) ==
    {Hit(i, documents[i]) : i \in {j \in DOMAIN embeddings \cap DOMAIN documents : embeddings[j] \in query}}

\* What is near by vector is decided by the embedding and what is returned
\* is the document now under that identity.
VectorHits(query, request) ==
    {Hit(i, documents[i]) : i \in {j \in DOMAIN embeddings \cap DOMAIN documents :
                                        Matches(request, documents[j]) /\ embeddings[j] \in query}}

\* A position n (from 1) counts 1 / (60 + n), here in millionths.
RrfWeight(n) == 1000000 \div (60 + n)

\* Where the lists name a document, list after list.
Appearances(lists) == UNION {{l} \X DOMAIN lists[l] : l \in DOMAIN lists}
Appearing(lists, i) == {p \in Appearances(lists) : lists[p[1]][p[2]].id = i}
Sooner(p, q) == p[1] < q[1] \/ (p[1] = q[1] /\ p[2] < q[2])

\* Each identity once, with the value of its last appearance.
LastHits(lists) ==
    {lists[p[1]][p[2]] : p \in {q \in Appearances(lists) :
                                   \A o \in Appearing(lists, lists[q[1]][q[2]].id) : ~Sooner(q, o)}}

\* By the sum of its weights, first come first among equals.
RrfScore(lists, i) == SumFunction([p \in Appearing(lists, i) |-> RrfWeight(p[2])])
RrfBefore(lists, i, j) ==
    \/ RrfScore(lists, i) > RrfScore(lists, j)
    \/ /\ RrfScore(lists, i) = RrfScore(lists, j)
       /\ \E p \in Appearing(lists, i) : \A q \in Appearing(lists, j) : Sooner(p, q)

\* Reciprocal rank fusion; the set holds the one order there is.
RrfMerges(lists, limit) ==
    {FirstOf(q, limit) : q \in {o \in SetToSeqs(LastHits(lists)) :
        \A n, m \in DOMAIN o : n < m => RrfBefore(lists, o[n].id, o[m].id)}}

\* Answers of the keyword index alone.
KeywordSearch(r) ==
    /\ reading[r].phase = "idle"
    /\ \E request \in Requests : \E ranked \in Rankings(KeywordHits(keywordIndex, request.query, request)) :
         reading' = [reading EXCEPT ![r] = [@ EXCEPT !.phase = "done", !.request = request,
                                                     !.queries = <<request.query>>, !.found = ranked]]
    /\ UNCHANGED <<documents, embeddings, keywordIndex, writing>>

\* A hybrid search looks for words in the documents it finds at its start.
SearchStarts(r) ==
    /\ reading[r].phase = "idle"
    /\ \E request \in Requests :
         reading' = [reading EXCEPT ![r] = [IdleReader EXCEPT !.phase = "rewriting", !.request = request,
                                                              !.snapshot = documents]]
    /\ UNCHANGED <<documents, embeddings, keywordIndex, writing>>

QueriesKnown(r) ==
    /\ reading[r].phase = "rewriting"
    /\ \E extra \in {<<>>} \cup {<<q>> : q \in Rewrites \ {reading[r].request.query}} :
         reading' = [reading EXCEPT ![r] = [@ EXCEPT !.phase = "embedding", !.blind = (documents = <<>>),
                                                     !.queries = <<reading[r].request.query>> \o extra]]
    /\ UNCHANGED <<documents, embeddings, keywordIndex, writing>>

\* The embedding of one query is back: its two rankings are fused, and after
\* the last query all of them are.
QueryEmbedded(r) ==
    /\ reading[r].phase = "embedding"
    /\ LET me == reading[r]
           query == me.queries[Len(me.lists) + 1]
       IN \E bm25 \in Rankings(KeywordHits(me.snapshot, query, me.request)),
             vector \in Rankings(IF me.blind THEN {} ELSE VectorHits(query, me.request)) :
            LET limit == IF CandidateK > ResultK THEN CandidateK ELSE ResultK
            IN \E fused \in RrfMerges(<<bm25, vector>>, limit) :
               \E merged \in RrfMerges(Append(me.lists, fused), limit) :
                 LET lists == Append(me.lists, fused)
                     next == IF Len(lists) < Len(me.queries) THEN "embedding"
                             ELSE IF merged = <<>> THEN "done" ELSE "reranking"
                 IN reading' = [reading EXCEPT ![r] = [@ EXCEPT !.phase = next, !.lists = lists,
                                   !.blind = (documents = <<>>),
                                   !.merged = IF next = "reranking" THEN merged ELSE <<>>]]
    /\ UNCHANGED <<documents, embeddings, keywordIndex, writing>>

\* A reranker answers with positions in the order it likes, not all of them;
\* an answer of none leaves the fused order.
Reranked(merged, order) ==
    LET known == Keeping(order, {n \in DOMAIN order : order[n] \in DOMAIN merged})
    IN IF known = <<>> THEN merged ELSE [n \in DOMAIN known |-> merged[known[n]]]

SearchReranked(r) ==
    /\ reading[r].phase = "reranking"
    /\ \E order \in RerankOrders :
         reading' = [reading EXCEPT ![r] = [@ EXCEPT !.phase = "done",
                        !.found = FirstOf(Reranked(reading[r].merged, order), ResultK)]]
    /\ UNCHANGED <<documents, embeddings, keywordIndex, writing>>

SearchFails(r) ==
    /\ EmbedMayFail
    /\ reading[r].phase = "embedding"
    /\ reading' = [reading EXCEPT ![r].phase = "failed"]
    /\ UNCHANGED <<documents, embeddings, keywordIndex, writing>>

IndexNext == \/ \E w \in IndexWriters : \/ UpsertStarts(w) \/ UpsertEnds(w) \/ UpsertFails(w) \/ DeleteDocuments(w)
             \/ \E r \in IndexReaders : \/ KeywordSearch(r) \/ SearchStarts(r) \/ QueriesKnown(r)
                                        \/ QueryEmbedded(r) \/ SearchReranked(r) \/ SearchFails(r)

IndexSpec == IndexInit /\ [][IndexNext]_indexVars

\* The types of the variables.
IndexTypeOK == /\ documents \in Contents
               /\ keywordIndex \in Contents
               /\ DOMAIN embeddings \subseteq DocIds
               /\ \A w \in IndexWriters : writing[w].phase \in {"idle", "embedding", "done"}
               /\ \A r \in IndexReaders : reading[r].phase \in {"idle", "rewriting", "embedding", "reranking",
                                                                "done", "failed"}

\* When no write waits for embeddings, the keyword index holds the documents
\* of the table, each at its latest value: writes that overlap and deletions
\* in the middle of one leave no document out and none in.
KeywordsAreCurrent ==
    (\A w \in IndexWriters : writing[w].phase # "embedding") => keywordIndex = documents

\* What a search answers passes the filter of its request, though documents
\* change while it waits, and names no document twice.
FoundIsAllowed ==
    \A r \in IndexReaders :
        LET found == reading[r].found
        IN /\ \A n \in DOMAIN found : Matches(reading[r].request, found[n].doc)
           /\ \A n, m \in DOMAIN found : n # m => found[n].id # found[m].id
================================================================================
