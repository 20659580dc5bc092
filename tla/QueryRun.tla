------------------------------ MODULE QueryRun ------------------------------
(***************************************************************************)
(* One request to POST /api/query: QueryService.run_query makes a run for  *)
(* every variant, one after the other, in one database session.  A run     *)
(* goes through RetrievalOrchestrator.query: a hypothesis, the retrieval   *)
(* lanes (native RAG-Anything and metadata side by side in fast mode),     *)
(* neighbours, graph expansion and hydration, the selection of the         *)
(* evidence, the answer; then the run is committed.                        *)
(*                                                                         *)
(* A chunk stands for all that is found under its key, text and score left *)
(* out: the orders in which ranking and reranking can put the candidates   *)
(* are choices.  A database statement that fails, or is cancelled by a     *)
(* timeout, leaves the transaction of the session aborted: what reads the  *)
(* session after it fails too, until a rollback.                           *)
(***************************************************************************)
EXTENDS Integers, FiniteSets, FiniteSetsExt, RetrievalRoute

CONSTANTS
    Chunks,         \* canonical chunks
    Rows,           \* rows of the native runtime's vector store
    DocOf,          \* chunk or row -> its document
    Exactness,      \* chunk -> how the metadata lane matches it, see FusionPriority
    Tokens,         \* chunk or row -> the tokens of its text
    NotProjected,   \* chunks that a quality policy keeps out of the graph
    Withheld,       \* chunks that the context does not take: see Contexts
    Similar,        \* pairs of chunks and rows whose texts are nearly the same
    Scopes,         \* the document_ids a request may have, {} for all documents
    NumVariants,    \* variants of the request
    Limit,          \* the limit of the request
    CandidateLimit, \* max(2 * Limit, 20) in the code, scaled down
    MaxContext      \* max_context_tokens

ASSUME QueryAssumption ==
    /\ IsFiniteSet(Chunks) /\ IsFiniteSet(Rows) /\ Chunks \cap Rows = {}
    /\ NumVariants \in Nat \ {0} /\ Limit \in Nat \ {0}
    /\ Withheld \subseteq Chunks
    /\ CandidateLimit \in Nat /\ CandidateLimit >= 2 * Limit
    /\ \A pair \in Similar : <<pair[2], pair[1]>> \in Similar

Candidates == Chunks \cup Rows

VARIABLES
    request,    \* its mode, its documents, whether it requires a hypothesis
    variant,    \* the variant that is run
    phase,      \* where the request is
    transaction,\* the session's: "open" or "aborted"
    expired,    \* a rollback expired the objects loaded before it
    native,     \* the native lane: its state and its rows
    metadata,   \* the metadata lane: its state and its chunks
    related,    \* chunks of the neighbour and graph lanes
    graph,      \* the graph lane: whether it may run, and the chunks it named
    fused,      \* the candidates after the final fusion
    evidence,   \* the final evidence
    run,        \* the run of the variant: status, error, answer
    failures,   \* what has failed or timed out, of what may end the run
    stored      \* variant -> its run in the database

vars == <<request, variant, phase, transaction, expired, native, metadata, related, graph,
          fused, evidence, run, failures, stored>>

laneVars == <<native, metadata, related, graph, fused, evidence>>

-----------------------------------------------------------------------------
Phases == {"start", "plan", "retrieve", "layout", "context", "graph", "hydrate",
           "assemble", "answer", "commit", "recover", "done", "raised"}

Run(status, error, answer, sources) ==
    [status |-> status, error |-> error, answer |-> answer, sources |-> sources]
NotStored == Run("none", "none", "none", {})
Running == Run("running", "none", "none", {})
Failed(error) == Run("failed", error, "none", {})

Lane(state, found) == [state |-> state, found |-> found]

InScope(c) == request.documents = {} \/ DocOf[c] \in request.documents
ScopedChunks == {c \in Chunks : InScope(c)}

\* Retrieval with documents selected runs native before metadata, except in fast mode.
Sequential == request.documents # {} /\ request.mode = "full"

NoLanes ==
    /\ native' = Lane("off", {}) /\ metadata' = Lane("off", {}) /\ graph' = Lane("off", {})
    /\ related' = {} /\ fused' = {} /\ evidence' = {}

Init ==
    /\ request \in [mode : {"fast", "full"}, documents : Scopes,
                    hypothesis : {"optional", "required"}]
    /\ variant = 1 /\ phase = "start"
    /\ transaction = "open" /\ expired = FALSE
    /\ native = Lane("off", {}) /\ metadata = Lane("off", {}) /\ graph = Lane("off", {})
    /\ related = {} /\ fused = {} /\ evidence = {}
    /\ run = NotStored /\ failures = {}
    /\ stored = [i \in 1 .. NumVariants |-> NotStored]

Goes(to) == phase' = to
Fails(what) == failures' = failures \cup {what}

\* The run ends with an error, whatever lanes have given.
EndsInError(what) ==
    /\ Fails(what) /\ run' = Failed(what) /\ Goes("commit") /\ NoLanes

\* A statement on the request's session succeeds only outside an aborted
\* transaction; a failure of the statement itself aborts the transaction.
Succeeds == transaction = "open" /\ UNCHANGED transaction
FailsOnSession == transaction' \in {transaction, "aborted"}

-----------------------------------------------------------------------------
\* The health check blocks the request: every variant gets a failed run.
Blocked ==
    /\ phase = "start" /\ variant = 1
    /\ stored' = [i \in 1 .. NumVariants |-> Failed("health")]
    /\ Goes("done")
    /\ UNCHANGED <<request, variant, transaction, expired, run, failures, laneVars>>

\* The loop of _run_runtime_query takes the next variant.  Reading an object
\* that a rollback expired raises out of run_query; a runtime that cannot be
\* built fails the run.
StartVariant ==
    /\ phase = "start"
    /\ IF expired
         THEN Goes("raised") /\ UNCHANGED <<run, failures>>
         ELSE \/ run' = Running /\ failures' = {} /\ Goes("plan")
              \/ run' = Failed("build") /\ failures' = {"build"} /\ Goes("commit")
    /\ UNCHANGED <<request, variant, transaction, expired, laneVars, stored>>

\* _domain_metadata_for_documents fails silently.
LooksUpMetadata ==
    \/ Succeeds
    \/ request.documents # {} /\ FailsOnSession

\* The states the index record of a selected document may be in, and its projections,
\* oldest first.
IndexRecords == [request.documents -> {"missing", "succeeded", "warning", "failed"}]
Projections == [request.documents -> {<<>>, <<"succeeded">>, <<"succeeded", "running">>}]

\* The lanes of the route plan start; the metadata lane stands for the canonical
\* one, which every plan requires.
LanesStart ==
    LET degradations == {<<IndexDegraded(records), GraphDegraded(projections)>> :
                            records \in IndexRecords, projections \in Projections}
    IN  \E lanes \in UNION {Plans(d[1], d[2]) : d \in degradations} :
            /\ native' = Lane(IF "raganything_runtime" \in lanes THEN "running" ELSE "off", {})
            /\ graph' = Lane(IF "graph" \in lanes THEN "running" ELSE "off", {})
            /\ metadata' = Lane("running", {})

\* What comes of the hypothesis: the deterministic one, the model's, or an empty one,
\* when neither is a search plan, the model fails or the time is up.
Hypotheses == {"deterministic", "llm", "empty"}

\* It is required by the query, or because the documents declare Arabic.
HypothesisRequired == request.hypothesis = "required"

\* _safe_query_hypothesis and the route plan: without a hypothesis the run ends
\* only when it is required.
Plan ==
    /\ phase = "plan"
    /\ LooksUpMetadata
    /\ \E hypothesis \in Hypotheses :
         IF hypothesis = "empty" /\ HypothesisRequired
           THEN EndsInError("hypothesis")
           ELSE /\ IF hypothesis = "empty" THEN Fails("hypothesis") ELSE UNCHANGED failures
                /\ LanesStart /\ Goes("retrieve")
                /\ UNCHANGED <<run, related, fused, evidence>>
    /\ UNCHANGED <<request, variant, expired, stored>>

-----------------------------------------------------------------------------
Waits(lane) == phase = "retrieve" /\ lane.state = "running"

NativeGives(lane) ==
    /\ native' = lane
    /\ UNCHANGED <<request, variant, phase, transaction, expired, metadata, related, graph,
                   fused, evidence, run, failures, stored>>

\* The native runtime answers with rows of the selected documents (NativeStorage
\* shows why), without sources when no document is selected, or with an error.
NativeAnswers ==
    /\ Waits(native)
    /\ \/ \E rows \in SUBSET {r \in Rows : request.documents # {} /\ InScope(r)} :
             NativeGives(Lane("ok", rows))
       \/ NativeGives(Lane("failed", {}))

\* Mutant: only the deadline of a fast response cancels the native lane.
NativeTimesOutInFastMode ==
    /\ Waits(native) /\ request.mode = "fast"
    /\ NativeGives(Lane("failed", {}))

\* Its own timeout, or in fast mode the deadline of the response once metadata
\* has ended, cancels the native lane.
NativeTimesOut == Waits(native) /\ NativeGives(Lane("failed", {}))

MetadataTurn == Waits(metadata) /\ (Sequential => native.state # "running")

\* The passes search with a session of their own, or with the request's.
MetadataAnswers ==
    /\ MetadataTurn
    /\ \/ \E found \in SUBSET ScopedChunks :
             metadata' = Lane("ok", found) /\ UNCHANGED <<failures, transaction>>
       \/ metadata' = Lane("failed", {}) /\ Fails("metadata") /\ FailsOnSession
    /\ UNCHANGED <<request, variant, phase, expired, native, related, graph, fused, evidence,
                   run, stored>>

MetadataTimesOut ==
    /\ MetadataTurn
    /\ metadata' = Lane("failed", {}) /\ Fails("metadata_timeout") /\ FailsOnSession
    /\ UNCHANGED <<request, variant, phase, expired, native, related, graph, fused, evidence,
                   run, stored>>

RetrievalEnded == phase = "retrieve" /\ native.state # "running" /\ metadata.state # "running"

\* Mutant: a native lane that failed fails the run.
ResolveEither ==
    /\ RetrievalEnded
    /\ IF metadata.state = "failed" \/ native.state = "failed"
         THEN run' = Failed("retrieval") /\ Goes("commit") /\ NoLanes
         ELSE Goes("layout") /\ UNCHANGED <<run, laneVars>>
    /\ UNCHANGED <<request, variant, transaction, expired, failures, stored>>

\* _resolve_retrieval_results: without metadata the run fails, even when the
\* native lane has answered; without native it goes on, degraded.
Resolve ==
    /\ RetrievalEnded
    /\ IF metadata.state = "failed"
         THEN run' = Failed("retrieval") /\ Goes("commit") /\ NoLanes
         ELSE Goes("layout") /\ UNCHANGED <<run, laneVars>>
    /\ UNCHANGED <<request, variant, transaction, expired, failures, stored>>

-----------------------------------------------------------------------------
\* A lane that only adds candidates: it gives some of these chunks, or nothing
\* when it fails, and the next phase begins either way.
OptionalLane(chunks) ==
    \/ Succeeds /\ \E found \in SUBSET chunks : related' = related \cup found
    \/ FailsOnSession /\ UNCHANGED related

LaneUnchanged ==
    UNCHANGED <<request, variant, expired, native, metadata, fused, evidence, run, failures,
                stored>>

\* LayoutNeighborService: chunks of the selected documents, or of the seeds' own.
LayoutNeighbors ==
    /\ phase = "layout" /\ Goes("context")
    /\ IF metadata.found = {}
         THEN UNCHANGED <<related, transaction>>
         ELSE OptionalLane(IF request.documents # {} THEN ScopedChunks
                ELSE {c \in Chunks : DocOf[c] \in {DocOf[s] : s \in metadata.found}})
    /\ LaneUnchanged /\ UNCHANGED graph

\* ContextWindowService reads the selected documents, and nothing without them.
ContextNeighbors ==
    /\ phase = "context" /\ Goes("graph")
    /\ IF metadata.found \cup related = {} \/ request.documents = {}
         THEN UNCHANGED <<related, transaction>>
         ELSE OptionalLane(ScopedChunks)
    /\ LaneUnchanged /\ UNCHANGED graph

\* Canonical evidence of the selected documents that its quality policy lets into
\* the graph; the first of it in the order of the seed fusion.
GraphSeeds == {c \in metadata.found \ NotProjected : InScope(c)}

\* GraphExpansionService: from the seeds, Neo4j names chunks of the workspace: of any
\* document, some of them deleted since.
Expansions == SUBSET (Chunks \ (metadata.found \cup related))

\* _safe_graph_expansion: no candidates when there are no seeds, and when it fails.
ExpandGraph ==
    /\ phase = "graph" /\ Goes("hydrate")
    /\ IF graph.state = "off" \/ GraphSeeds = {}
         THEN graph' = Lane("off", {})
         ELSE \/ \E named \in Expansions : graph' = Lane("ok", named)
              \/ graph' = Lane("failed", {})
    /\ LaneUnchanged /\ UNCHANGED <<related, transaction>>

\* Mutant: the documents of the hydrated chunks are not looked at.
HydrateAll ==
    /\ phase = "hydrate" /\ Goes("assemble")
    /\ IF graph.found = {}
         THEN UNCHANGED <<related, transaction>>
         ELSE OptionalLane(graph.found)
    /\ LaneUnchanged /\ graph' = Lane("off", {})

\* _hydrate_graph_candidates keeps what is a chunk of the selected documents.
Hydrate ==
    /\ phase = "hydrate" /\ Goes("assemble")
    /\ IF graph.found = {}
         THEN UNCHANGED <<related, transaction>>
         ELSE OptionalLane({c \in graph.found : InScope(c)})
    /\ LaneUnchanged /\ graph' = Lane("off", {})

-----------------------------------------------------------------------------
\* What a chunk found by the metadata lane is matched by, and the two orders
\* on it: of the fusion and of the context (which knows no hypothesis).
ExactnessOf(c) == IF c \in metadata.found THEN Exactness[c] ELSE "none"

FusionPriority(c) ==
    CASE ExactnessOf(c) = "hypothesis" -> 4
      [] ExactnessOf(c) = "reference"  -> 3
      [] ExactnessOf(c) = "arabic"     -> 2
      [] OTHER                         -> 1

ContextPriority(c) ==
    CASE ExactnessOf(c) = "reference" -> 3
      [] ExactnessOf(c) = "arabic"    -> 2
      [] OTHER                        -> 1

Direct(S) == {c \in S : ExactnessOf(c) \in {"reference", "arabic"}}

Smaller(m, n) == IF m < n THEN m ELSE n

\* The first n of S in any order that puts a higher rank first.
FirstOf(S, n, Rank(_)) ==
    {T \in SUBSET S : /\ Cardinality(T) = Smaller(n, Cardinality(S))
                      /\ \A x \in T, y \in S \ T : Rank(x) >= Rank(y)}

\* RetrievalFusion.fuse: one candidate for a chunk, direct evidence first.
Fusions == FirstOf(native.found \cup metadata.found \cup related, CandidateLimit,
                   FusionPriority)

\* What the candidates come to the selection as: in the order the reranker, or the
\* model that stands in for it, gives them, or as the fusion has left them, when it
\* is off, as for a fast query, not allowed, fails, or gives nothing that can be used.
Rerankings == IF request.mode = "fast" THEN {"kept"} ELSE {"reranked", "kept"}

\* apply_query_aware_ordering: of several selected documents, each may have a
\* candidate moved to the front.
Reordered == Cardinality(request.documents) > 1

MayPrecede(x, y, order) ==
    order = "reranked" \/ Reordered \/ FusionPriority(x) >= FusionPriority(y)

\* Mutant: every candidate that resembles another may be suppressed.
DiverseOfAll(F, order) ==
    {D \in SUBSET F :
        /\ \A y \in F \ D : \E x \in D : <<x, y>> \in Similar /\ MayPrecede(x, y, order)
        /\ \A x, y \in D : x # y => <<x, y>> \notin Similar}

\* select_diverse_candidates: direct evidence stays, another candidate is suppressed
\* when one before it says the same.
Diverse(F, order) ==
    {D \in SUBSET F :
        /\ Direct(F) \subseteq D
        /\ \A y \in F \ D : \E x \in D : <<x, y>> \in Similar /\ MayPrecede(x, y, order)
        /\ \A x, y \in D \ Direct(F) : x # y => <<x, y>> \notin Similar}

TokensOf(S) == MapThenSumSet(LAMBDA c : Tokens[c], S)

\* _policy_drop_reason: native rows carry runtime_bridge_missing; of a chunk its
\* metadata may tell of a policy that blocks it, of a stale projection or bridge or
\* of a degraded reranker.
PolicyDrops == Rows \cup Withheld

\* ContextAssemblyService.assemble: what the policy drops is dropped first, direct
\* or not; other direct evidence is kept whatever it costs, and of the rest what
\* still fits when its turn comes.
Contexts(D) ==
    LET allowed == D \ PolicyDrops
    IN  {K \in SUBSET allowed :
            /\ Direct(allowed) \subseteq K
            /\ LET used == TokensOf(K)
               IN  /\ K # Direct(allowed) => used <= MaxContext
                   /\ \A y \in allowed \ K : used + Tokens[y] > MaxContext}

\* The evidence is the first Limit of the context; when the context is empty, of
\* the candidates as they were ranked, dropped as they may have been.
Evidences(D, K) ==
    IF K # {} THEN FirstOf(K, Limit, ContextPriority)
              ELSE FirstOf(D, Limit, LAMBDA c : 0)

\* Final fusion, diversity and context assembly.  With nothing found in selected
\* documents their quality reports are read (_quality_diagnostics_trace).
Assemble ==
    /\ phase = "assemble" /\ Goes("answer")
    /\ \E F \in Fusions : \E D \in UNION {Diverse(F, order) : order \in Rerankings} :
       \E K \in Contexts(D) : \E E \in Evidences(D, K) :
            /\ fused' = F
            /\ evidence' = E
            /\ \/ UNCHANGED transaction
               \/ F = {} /\ request.documents # {} /\ FailsOnSession
    /\ native' = Lane("off", {}) /\ related' = {}
    /\ UNCHANGED <<request, variant, expired, metadata, graph, run, failures, stored>>

-----------------------------------------------------------------------------
Answered(by) == run' = Run("succeeded", "none", by, evidence) /\ Goes("commit") /\ NoLanes

AnswerUnchanged == UNCHANGED <<request, variant, transaction, expired, stored>>

\* The verifier looks for the hypothesis in evidence of the selected documents only;
\* it may find it there.
Verifiable == {c \in evidence : InScope(c)}
Confirmable == "hypothesis" \notin failures /\ Verifiable # {}

\* answer_confirmed_hypothesis quotes the evidence.
FromEvidence == Confirmable /\ Answered("evidence")

\* A confirmed hypothesis is answered from the evidence; no evidence, with a
\* fixed text; otherwise the model answers.
Answer ==
    /\ phase = "answer"
    /\ \/ FromEvidence
       \/ evidence = {} /\ Answered("no_evidence")
       \/ evidence # {} /\ Answered("model")
    /\ UNCHANGED failures /\ AnswerUnchanged

\* The model does not answer in time: a fast query falls back on the evidence.
AnswerTimesOut ==
    /\ phase = "answer" /\ evidence # {}
    /\ IF request.mode = "fast"
         THEN Fails("model_timeout") /\ Answered("evidence")
         ELSE EndsInError("model_timeout")
    /\ AnswerUnchanged

\* The model refuses, or cannot be reached.
AnswerFails ==
    /\ phase = "answer" /\ evidence # {}
    /\ EndsInError("model")
    /\ AnswerUnchanged

-----------------------------------------------------------------------------
\* The run is in the database: the next variant, or the response, which reads
\* the runs of all variants; those of a rolled back session cannot be read.
Stores(record, unreadable) ==
    /\ stored' = [stored EXCEPT ![variant] = record]
    /\ transaction' = "open"
    /\ expired' = (expired \/ unreadable)
    /\ IF variant < NumVariants
         THEN variant' = variant + 1 /\ Goes("start")
         ELSE /\ Goes(IF expired \/ (unreadable /\ variant > 1) THEN "raised" ELSE "done")
              /\ UNCHANGED variant
    /\ UNCHANGED <<request, laneVars, run, failures>>

Commit ==
    /\ phase = "commit" /\ transaction = "open"
    /\ Stores(run, FALSE)

\* The commit fails: for the aborted transaction, or on its own.
CommitFails ==
    /\ phase = "commit" /\ Goes("recover")
    /\ transaction' = "aborted"
    /\ UNCHANGED <<request, variant, expired, laneVars, run, failures, stored>>

\* Mutant: the columns of the recovered run are those of a new one.
RecoverNew == phase = "recover" /\ Stores(Running, TRUE)

\* _commit_query_run: rollback, and the snapshot of the run is committed again.
Recover == phase = "recover" /\ Stores(run, TRUE)

\* The second commit fails too: the error leaves run_query.
RecoverFails ==
    /\ phase = "recover" /\ Goes("raised")
    /\ Fails("database")
    /\ UNCHANGED <<request, variant, transaction, expired, laneVars, run, stored>>

Stopped == phase \in {"done", "raised"} /\ UNCHANGED vars

Retrieve == NativeAnswers \/ NativeTimesOut \/ MetadataAnswers \/ MetadataTimesOut \/ Resolve
Expand == LayoutNeighbors \/ ContextNeighbors \/ ExpandGraph \/ Hydrate \/ Assemble
Conclude == Answer \/ AnswerTimesOut \/ AnswerFails
Store == Commit \/ CommitFails \/ Recover \/ RecoverFails

Next ==
    \/ Blocked \/ StartVariant \/ Plan
    \/ Retrieve \/ Expand \/ Conclude \/ Store
    \/ Stopped

\* The database answers or fails, and the timeouts come; nothing makes the
\* native runtime, the metadata passes or the model answer.
Fairness ==
    /\ WF_vars(Blocked \/ StartVariant \/ Plan)
    /\ WF_vars(NativeTimesOut) /\ WF_vars(MetadataTimesOut) /\ WF_vars(Resolve)
    /\ WF_vars(Expand) /\ WF_vars(Answer \/ AnswerTimesOut) /\ WF_vars(Store)

Spec == Init /\ [][Next]_vars /\ Fairness

-----------------------------------------------------------------------------
Results ==
    [status : {"none", "running", "succeeded", "failed"},
     error : {"none", "health", "build", "hypothesis", "retrieval", "model", "model_timeout"},
     answer : {"none", "evidence", "no_evidence", "model"}, sources : SUBSET Candidates]

TypeOK ==
    /\ variant \in 1 .. NumVariants /\ phase \in Phases
    /\ transaction \in {"open", "aborted"} /\ expired \in BOOLEAN
    /\ native.state \in {"off", "running", "ok", "failed"} /\ native.found \subseteq Rows
    /\ {metadata.state, graph.state} \subseteq {"off", "running", "ok", "failed"}
    /\ metadata.found \cup related \cup graph.found \subseteq Chunks
    /\ evidence \subseteq fused /\ fused \subseteq Candidates
    /\ run \in Results /\ stored \in [1 .. NumVariants -> Results]

\* Every source of every stored run is of a document the request selected
\* (query-retrieval-architecture.md: no silent scope widening), although the
\* graph names chunks of the whole workspace.
ScopePreserved == \A i \in 1 .. NumVariants : \A c \in stored[i].sources : InScope(c)

\* A run fails for what it cannot do without: never for a lane that only adds
\* candidates (native, neighbours, graph, hydration, an optional hypothesis), and
\* a fast one never for a model that does not answer in time.
Critical ==
    {"build", "metadata", "metadata_timeout", "model"}
    \cup (IF request.hypothesis = "required" THEN {"hypothesis"} ELSE {})
    \cup (IF request.mode = "full" THEN {"model_timeout"} ELSE {})
OnlyCriticalFailuresFail ==
    phase = "commit" /\ run.status = "failed" => failures \cap Critical # {}

\* Direct evidence that no policy withholds reaches the answer through fusion,
\* reranking, diversity, context assembly and the cut to the limit: only evidence
\* that is matched at least as well can take its place.
DirectEvidenceSurvives ==
    phase = "answer" => \A c \in Direct(metadata.found) \ Withheld :
        \/ c \in evidence
        \/ evidence # {} /\ \A e \in evidence : FusionPriority(e) >= FusionPriority(c)

\* Every variant that was run has its run in the database, as it ended, also
\* when the transaction it was written in was aborted under it.
RunsAreStored ==
    /\ \A i \in 1 .. variant - 1 : stored[i].status \in {"succeeded", "failed"}
    /\ phase = "done" => \A i \in 1 .. NumVariants : stored[i].status \in {"succeeded", "failed"}
    /\ phase = "start" /\ variant > 1 => stored[variant - 1] = run

\* Every request ends, although the native runtime, the metadata passes and
\* the model may never answer.
RequestEnds == <>(phase \in {"done", "raised"})
=============================================================================
