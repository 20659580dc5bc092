--------------------------- MODULE IndexPipeline ---------------------------
(***************************************************************************)
(* One index_document job from request to outcome, and what its attempts   *)
(* leave in the stores: the canonical chunks, the index records and the    *)
(* graph projection records in Postgres, the runtime (LightRAG) index and  *)
(* the Neo4j graph outside it.  An attempt is DocumentService.run_index_job *)
(* around IndexLifecycleService.reindex_document, or, after a recovery,    *)
(* IndexJobRunner._resume_graph_projection.                                *)
(*                                                                         *)
(* Each step ends with a commit or with a call to an outside store.  Some  *)
(* commits look at the lease under the row lock (_ensure_current_lease):   *)
(* WritersOwnTheirJobs, proved of JobQueue, lets them be one step here.    *)
(* The others do not look, and calls to outside stores cannot.             *)
(*                                                                         *)
(* What the stores hold is tagged with the attempt that wrote it; 0 is an  *)
(* earlier job of the same document.                                       *)
(***************************************************************************)
EXTENDS JobRows, FiniteSets

CONSTANT
    Batches    \* in how many batches the chunks of the document are persisted

ASSUME BatchesAssumption == Batches \in Nat \ {0}

Gens == 0 .. MaxAttempts

RecordStatus     == {"absent", "running", "succeeded", "failed"}
ProjectionStatus == {"absent", "pending", "succeeded", "failed", "skipped", "stale"}
GraphResult      == {"none", "not_run", "succeeded", "failed", "skipped"}

VARIABLES
    row,         \* the job
    doc,         \* Document.status
    chunks,      \* the persisted batches: <<attempt, batch>>
    records,     \* IndexRecord.status, by the attempt that added the record
    projections, \* GraphProjectionRecord.status, likewise
    made,        \* the order in which the projection records were created
    runtime,     \* whose entries the runtime index holds
    graph,       \* the batches the document's graph in Neo4j was projected from
    thread,      \* by attempt: where its enrichment thread stands, and in which process
    run,         \* by worker: the attempt it makes
    late         \* may an attempt that has lost its lease take further steps before
                 \* the heartbeat cancels it?  It never changes: FALSE is the timing
                 \* assumption that the attempt is cancelled, or dead, at once, and
                 \* the thread it left as well.

stores == <<chunks, records, projections, made, runtime, graph>>
vars   == <<row, doc, stores, thread, run, late>>

\* Where an attempt stands, after the step it is named for.
Phases ==
    {"idle", "claimed", "started", "parsing", "split", "validated", "projected",
     "persisting", "published", "persisted", "searchable", "enriching", "enriched",
     "graphing", "projecting", "closing", "degrading", "skipping", "unwinding",
     "unwound", "failing", "finished", "resuming", "resumed"}

ThreadPhases == {"none", "clearing", "inserting", "done", "failed"}

Idle     == [pc |-> "idle", gen |-> 0, batch |-> 0, pick |-> 0, result |-> "none"]
NoThread == [at |-> "none", host |-> NoWorker]

TypeOK ==
    /\ row \in JobRow
    /\ late \in BOOLEAN
    /\ doc \in StageStatus
    /\ chunks \subseteq Gens \X (1 .. Batches)
    /\ records \in [Gens -> RecordStatus]
    /\ projections \in [Gens -> ProjectionStatus]
    /\ made \in [Gens -> Gens]
    /\ runtime \subseteq Gens
    /\ graph \subseteq Gens \X (1 .. Batches)
    /\ thread \in [Gens -> [at: ThreadPhases, host: Workers \cup {NoWorker}]]
    /\ run \in [Workers -> [pc: Phases, gen: Gens, batch: 0 .. Batches, pick: Gens,
                            result: GraphResult]]

Complete(g) == {g} \X (1 .. Batches)

\* Lexical and metadata search works: every chunk of one attempt is there.
Searchable == \E g \in Gens : chunks = Complete(g)

\* The request has been accepted: a READY job, its document RUNNING, and the
\* document new or indexed before.
Init ==
    \E d \in Docs, before \in BOOLEAN :
        /\ row = NewRow(d)
        /\ doc = "running"
        /\ chunks = IF before THEN Complete(0) ELSE {}
        /\ records = [g \in Gens |-> IF before /\ g = 0 THEN "succeeded" ELSE "absent"]
        /\ projections = [g \in Gens |-> IF before /\ g = 0 THEN "succeeded" ELSE "absent"]
        /\ made = [g \in Gens |-> 0]
        /\ runtime = IF before THEN {0} ELSE {}
        /\ graph = chunks
        /\ thread = [g \in Gens |-> NoThread]
        /\ run = [w \in Workers |-> Idle]
        /\ late \in BOOLEAN

-----------------------------------------------------------------------------
Holds(w) == HoldsLease(row, w)

\* A step whose commit looks at the lease, and one that does not.
Fenced(w, pc)   == run[w].pc = pc /\ Holds(w)
Unfenced(w, pc) == run[w].pc = pc /\ (late \/ Holds(w))

Goto(w, pc)      == run' = [run EXCEPT ![w].pc = pc]
Reported(w, s)   == [Renewed(row) EXCEPT !.stage = s, !.by = run[w].gen]

-----------------------------------------------------------------------------
(* The queue around the attempts: JobQueue in one step each                *)

Seen == IF Recoverable(row) THEN Recovered(row) ELSE row

\* run_once recovers and claims in one transaction.
Claim(w) ==
    /\ run[w].pc = "idle"
    /\ Claimable(Seen)
    /\ row' = Claimed(Seen, w)
    /\ run' = [run EXCEPT ![w] = [Idle EXCEPT !.pc = "claimed", !.gen = row.attempts + 1]]
    /\ UNCHANGED <<doc, stores, thread>>

\* Recovery with nothing to claim: READY for the next poll, or FAILED with its
\* document once the attempts are spent.
Recover ==
    /\ Recoverable(row)
    /\ row' = Recovered(row)
    /\ doc' = IF row'.status = "failed" THEN "failed" ELSE doc
    /\ UNCHANGED <<stores, thread, run>>

\* The heartbeats fail to come in time: the worker is dead, stalled or cut off.
Expire ==
    /\ row.status = "running" /\ row.lease > 0
    /\ row' = [row EXCEPT !.lease = Lapsed]
    /\ UNCHANGED <<doc, stores, thread, run>>

\* The heartbeat, or the next look at the lease, finds it lost: the operation
\* is cancelled and its session rolled back.  A thread of it goes on.
LeaseLost(w) ==
    /\ run[w].pc \notin {"idle", "finished"}
    /\ ~Holds(w)
    /\ run' = [run EXCEPT ![w] = Idle]
    /\ UNCHANGED <<row, doc, stores, thread>>

\* The process dies with its threads.
Crash(w) ==
    /\ run[w].pc # "idle"
    /\ run' = [run EXCEPT ![w] = Idle]
    /\ thread' = [g \in Gens |-> IF thread[g].host = w THEN NoThread ELSE thread[g]]
    /\ UNCHANGED <<row, doc, stores>>

-----------------------------------------------------------------------------
(* cleanup_document_index_artifacts                                        *)

\* Mutant: a SUCCEEDED record is left alone.
CleanProjectionKeepingSucceeded(status) ==
    IF status \in {"pending", "failed", "skipped"} THEN "absent" ELSE status

\* The code deletes no record with nodes; those that are not SUCCEEDED have none.
CleanProjection(status) ==
    IF status = "succeeded" THEN "stale"
    ELSE IF status \in {"pending", "failed", "skipped"} THEN "absent"
    ELSE status

CleanArtifacts ==
    /\ chunks' = {}
    /\ records' = [g \in Gens |-> "absent"]
    /\ projections' = [g \in Gens |-> CleanProjection(projections[g])]

\* cleanup_runtime_index_best_effort: an error is logged and swallowed.
CleanRuntime == runtime' \in {{}, runtime}

-----------------------------------------------------------------------------
(* A full run                                                              *)

\* The first commit of run_index_job.
Start(w) ==
    /\ Fenced(w, "claimed")
    /\ row.recovery # "resume_graph_projection"
    /\ row' = Renewed(row)
    /\ doc' = "running"
    /\ Goto(w, "started")
    /\ UNCHANGED <<stores, thread>>

\* The two commits before parsing: what the job row is stamped with, which
\* JobQueue models, and the cleanup of the earlier index.  The session set the
\* document RUNNING in Start; setting it again writes nothing.
CleanUp(w) ==
    /\ Unfenced(w, "started")
    /\ CleanArtifacts
    /\ Goto(w, "parsing")
    /\ UNCHANGED <<row, doc, made, runtime, graph, thread>>

\* MinerU delivers the document and it is split, annotated and found good.
Parse(w) ==
    /\ Unfenced(w, "parsing")
    /\ Goto(w, "split")
    /\ UNCHANGED <<row, doc, stores, thread>>

\* Preprocessing, the health check or MinerU fails.
ParseFails(w) ==
    /\ run[w].pc \in {"started", "parsing"}
    /\ late \/ Holds(w)
    /\ Goto(w, "failing")
    /\ UNCHANGED <<row, doc, stores, thread>>

\* Splitting or the quality gate raises.
SplitFails(w) ==
    /\ Unfenced(w, "parsing")
    /\ CleanRuntime
    /\ Goto(w, "failing")
    /\ UNCHANGED <<row, doc, chunks, records, projections, made, graph, thread>>

\* on_stage, between the steps of the lifecycle: the stage reported on leaving
\* a phase, and the phase that follows.
StageAfter ==
    [split     |-> <<"mineru_validated", "validated">>,
     projected |-> <<"chunks_persisting", "persisting">>,
     published |-> <<"chunks_persisted", "persisted">>,
     persisted |-> <<"search_ready", "searchable">>,
     enriched  |-> <<"graph_enriching", "graphing">>]

ReportStage(w) ==
    \E pc \in DOMAIN StageAfter :
        /\ Fenced(w, pc)
        /\ row' = Reported(w, StageAfter[pc][1])
        /\ Goto(w, StageAfter[pc][2])
        /\ UNCHANGED <<doc, stores, thread>>

\* _create_pending_graph_projection
CreateProjection(w) ==
    /\ Unfenced(w, "validated")
    /\ projections' = [projections EXCEPT ![run[w].gen] = "pending"]
    /\ made' = [made EXCEPT ![run[w].gen] = 1 + Cardinality({g \in Gens : made[g] > 0})]
    /\ Goto(w, "projected")
    /\ UNCHANGED <<row, doc, chunks, records, runtime, graph, thread>>

\* Mutant: the batches are committed without a look at the lease.
PersistBatchUnfenced(w) ==
    LET batch == <<run[w].gen, run[w].batch + 1>>
    IN  /\ Unfenced(w, "persisting")
        /\ run[w].batch < Batches
        /\ row' = Reported(w, "chunks_persisting")
        /\ chunks' = IF run[w].batch = 0 THEN {batch} ELSE chunks \cup {batch}
        /\ run' = [run EXCEPT ![w].batch = @ + 1]
        /\ UNCHANGED <<doc, records, projections, made, runtime, graph, thread>>

\* ChunkPersistenceService.persist: one commit for each batch, the first one
\* with the deletion of whatever chunks the document had.
PersistBatch(w) ==
    LET batch == <<run[w].gen, run[w].batch + 1>>
    IN  /\ Fenced(w, "persisting")
        /\ run[w].batch < Batches
        /\ row' = Reported(w, "chunks_persisting")
        /\ chunks' = IF run[w].batch = 0 THEN {batch} ELSE chunks \cup {batch}
        /\ run' = [run EXCEPT ![w].batch = @ + 1]
        /\ UNCHANGED <<doc, records, projections, made, runtime, graph, thread>>

\* Mutant: off by one, the last batch is still to come.
PublishChunksEarly(w) ==
    /\ Unfenced(w, "persisting")
    /\ run[w].batch >= Batches - 1
    /\ records' = [records EXCEPT ![run[w].gen] = "running"]
    /\ doc' = "succeeded"
    /\ Goto(w, "published")
    /\ UNCHANGED <<row, chunks, projections, made, runtime, graph, thread>>

\* The index record and the SUCCEEDED document.
PublishChunks(w) ==
    /\ Unfenced(w, "persisting")
    /\ run[w].batch = Batches
    /\ records' = [records EXCEPT ![run[w].gen] = "running"]
    /\ doc' = "succeeded"
    /\ Goto(w, "published")
    /\ UNCHANGED <<row, chunks, projections, made, runtime, graph, thread>>

\* Anything raised inside persist_studio_chunks, a lost lease included, is
\* caught: the runtime index is cleaned, the projection record SKIPPED, and the
\* exception goes on to run_index_job.
PersistFails(w) ==
    /\ run[w].pc \in {"projected", "persisting", "published", "persisted"}
    /\ late \/ Holds(w)
    /\ CleanRuntime
    /\ Goto(w, "unwinding")
    /\ UNCHANGED <<row, doc, chunks, records, projections, made, graph, thread>>

\* _mark_graph_projection_skipped raises when the record has disappeared; `next'
\* is where the caller goes on when it has not.
SkipProjection(w, pc, next, result) ==
    LET g == run[w].gen
    IN  /\ Unfenced(w, pc)
        /\ \/ /\ projections[g] # "absent"
              /\ projections' = [projections EXCEPT ![g] = "skipped"]
              /\ run' = [run EXCEPT ![w].pc = next, ![w].result = result]
           \/ /\ projections[g] = "absent"
              /\ Goto(w, "failing")
              /\ UNCHANGED projections
        /\ UNCHANGED <<row, doc, chunks, records, made, runtime, graph, thread>>

SkipAfterPersistFailed(w) == SkipProjection(w, "unwinding", "failing", "none")

\* RUNTIME_ENRICHING is reported and the enrichment thread starts.
StartEnrichment(w) ==
    /\ Fenced(w, "searchable")
    /\ row' = Reported(w, "runtime_enriching")
    /\ thread' = [thread EXCEPT ![run[w].gen] = [at |-> "clearing", host |-> w]]
    /\ Goto(w, "enriching")
    /\ UNCHANGED <<doc, stores>>

\* No chunk passes the materialization gate: no thread, and nothing to clean.
NothingApproved(w) ==
    /\ Fenced(w, "searchable")
    /\ row' = Reported(w, "runtime_enriching")
    /\ Goto(w, "degrading")
    /\ UNCHANGED <<doc, stores, thread>>

-----------------------------------------------------------------------------
(* The enrichment thread runs on when its task is cancelled                *)

ThreadRuns(g, at) ==
    /\ thread[g].at = at
    /\ LET w == thread[g].host
       IN  late \/ (run[w].pc = "enriching" /\ run[w].gen = g /\ Holds(w))

ThreadTo(g, at) == thread' = [thread EXCEPT ![g].at = at]

ThreadClears(g) ==
    /\ ThreadRuns(g, "clearing")
    /\ runtime' = {}
    /\ ThreadTo(g, "inserting")
    /\ UNCHANGED <<row, doc, chunks, records, projections, made, graph, run>>

ThreadInserts(g) ==
    /\ ThreadRuns(g, "inserting")
    /\ runtime' = runtime \cup {g}
    /\ ThreadTo(g, "done")
    /\ UNCHANGED <<row, doc, chunks, records, projections, made, graph, run>>

\* An error before the insertion, or after a part of it; or fewer chunks come
\* back than went in.
ThreadFails(g) ==
    /\ \E at \in {"clearing", "inserting"} : ThreadRuns(g, at)
    /\ runtime' \in IF thread[g].at = "inserting" THEN {runtime, runtime \cup {g}} ELSE {runtime}
    /\ ThreadTo(g, "failed")
    /\ UNCHANGED <<row, doc, chunks, records, projections, made, graph, run>>

-----------------------------------------------------------------------------
(* The rest of the run                                                     *)

\* _mark_runtime_index_succeeded: every record of the document.
Enriched(w) ==
    /\ Unfenced(w, "enriching")
    /\ thread[run[w].gen].at = "done"
    /\ records' = [g \in Gens |-> IF records[g] = "absent" THEN "absent" ELSE "succeeded"]
    /\ thread' = [thread EXCEPT ![run[w].gen] = NoThread]
    /\ Goto(w, "enriched")
    /\ UNCHANGED <<row, doc, chunks, projections, made, runtime, graph>>

EnrichmentFailed(w) ==
    /\ Unfenced(w, "enriching")
    /\ thread[run[w].gen].at = "failed"
    /\ CleanRuntime
    /\ thread' = [thread EXCEPT ![run[w].gen] = NoThread]
    /\ Goto(w, "degrading")
    /\ UNCHANGED <<row, doc, chunks, records, projections, made, graph>>

\* _mark_runtime_index_failed
Degrade(w) ==
    /\ Unfenced(w, "degrading")
    /\ records' = [g \in Gens |-> IF records[g] = "absent" THEN "absent" ELSE "failed"]
    /\ Goto(w, "skipping")
    /\ UNCHANGED <<row, doc, chunks, projections, made, runtime, graph, thread>>

SkipDegraded(w) == SkipProjection(w, "skipping", "closing", "skipped")

\* The renewal and the commit before materialize_pending.
RenewForGraph(w) ==
    /\ Fenced(w, "graphing")
    /\ row' = Renewed(row)
    /\ Goto(w, "projecting")
    /\ UNCHANGED <<doc, stores, thread>>

Pending == {g \in Gens : projections[g] = "pending"}

\* materialize_pending: the newest PENDING record is chosen and the graph of the
\* document replaced by that of its present chunks.  The record changes in the
\* commit that follows.
Materialize(w, next) ==
    /\ \/ /\ Pending = {}
          /\ run' = [run EXCEPT ![w].pc = next, ![w].result = "not_run"]
          /\ UNCHANGED graph
       \/ \E g \in Pending, result \in {"succeeded", "failed", "skipped"} :
            /\ \A h \in Pending : made[h] <= made[g]
            /\ run' = [run EXCEPT ![w].pc = next, ![w].result = result, ![w].pick = g]
            /\ graph' = IF result = "succeeded" THEN chunks ELSE graph
    /\ UNCHANGED <<row, doc, chunks, records, projections, made, runtime, thread>>

\* The projection records as the commit after Materialize writes them; a success
\* removes the other records of the same graph.
GraphWritten(w) ==
    [g \in Gens |->
        IF run[w].pick = 0 THEN projections[g]
        ELSE IF g = run[w].pick THEN run[w].result
        ELSE IF run[w].result = "succeeded" THEN "absent" ELSE projections[g]]

ProjectGraph(w) == Unfenced(w, "projecting") /\ Materialize(w, "closing")

\* Mutant: a graph that was skipped is no warning.
GraphWarningOnlyFailed(w) == run[w].result = "failed"

GraphWarning(w) == run[w].result \in {"failed", "skipped"}

\* Parser warnings may make a clean run READY_WITH_WARNINGS as well.
FinalStages(w) ==
    IF GraphWarning(w) THEN {"ready_with_warnings"} ELSE {"ready", "ready_with_warnings"}

\* The terminal commit of run_index_job.
FinishRun(w) ==
    /\ Fenced(w, "closing")
    /\ projections' = GraphWritten(w)
    /\ \E stage \in FinalStages(w) : row' = Finished(row, run[w].gen, "succeeded", stage)
    /\ doc' = "succeeded"
    /\ Goto(w, "finished")
    /\ UNCHANGED <<chunks, records, made, runtime, graph, thread>>

\* The failure path of run_index_job: the artifacts go with the outcome.
FailRun(w) ==
    /\ Fenced(w, "failing")
    /\ CleanArtifacts
    /\ row' = Finished(row, run[w].gen, "failed", "failed")
    /\ doc' = "failed"
    /\ Goto(w, "finished")
    /\ UNCHANGED <<made, runtime, graph, thread>>

ClearTerminalLease(w) ==
    /\ run[w].pc = "finished"
    /\ row' = Cleared(row)
    /\ run' = [run EXCEPT ![w] = Idle]
    /\ UNCHANGED <<doc, stores, thread>>

-----------------------------------------------------------------------------
(* A resumption                                                            *)

ResumeGraph(w) ==
    /\ Unfenced(w, "claimed")
    /\ row.recovery = "resume_graph_projection"
    /\ Materialize(w, "resuming")

\* The first commit of a resumption: the projection's outcome, and every index
\* record of the document SUCCEEDED.
ResumeRenew(w) ==
    /\ Fenced(w, "resuming")
    /\ row' = Renewed(row)
    /\ projections' = GraphWritten(w)
    /\ records' = [g \in Gens |-> IF records[g] = "absent" THEN "absent" ELSE "succeeded"]
    /\ Goto(w, "resumed")
    /\ UNCHANGED <<doc, chunks, made, runtime, graph, thread>>

\* The second one.
ResumeFinish(w) ==
    /\ Unfenced(w, "resumed")
    /\ row' = Cleared(Finished(row, run[w].gen, "succeeded",
                               IF GraphWarning(w) THEN "ready_with_warnings" ELSE "ready"))
    /\ doc' = "succeeded"
    /\ run' = [run EXCEPT ![w] = Idle]
    /\ UNCHANGED <<stores, thread>>

\* An error the attempt does not handle itself: _mark_failed_after_runner_error.
MarkAttemptFailed(w) ==
    /\ run[w].pc \in {"claimed", "failing", "resuming", "resumed"}
    /\ Holds(w)
    /\ row' = MarkedFailed(row, run[w].gen)
    /\ doc' = "failed"
    /\ run' = [run EXCEPT ![w] = Idle]
    /\ UNCHANGED <<stores, thread>>

\* The job has its outcome and nobody works on it any more.
Settled ==
    /\ row.status \in Terminal
    /\ \A w \in Workers : run[w].pc = "idle"
    /\ UNCHANGED vars

-----------------------------------------------------------------------------
FullRun(w) ==
    \/ Start(w) \/ CleanUp(w) \/ Parse(w) \/ ParseFails(w) \/ SplitFails(w)
    \/ ReportStage(w) \/ CreateProjection(w) \/ PersistBatch(w) \/ PublishChunks(w)
    \/ PersistFails(w) \/ SkipAfterPersistFailed(w)
    \/ StartEnrichment(w) \/ NothingApproved(w) \/ Enriched(w) \/ EnrichmentFailed(w)
    \/ Degrade(w) \/ SkipDegraded(w) \/ RenewForGraph(w) \/ ProjectGraph(w)
    \/ FinishRun(w) \/ FailRun(w) \/ ClearTerminalLease(w)

Resumption(w) ==
    ResumeGraph(w) \/ ResumeRenew(w) \/ ResumeFinish(w)

Enrichment(g) == ThreadClears(g) \/ ThreadInserts(g) \/ ThreadFails(g)

Next ==
    /\ \/ \E w \in Workers : Claim(w) \/ LeaseLost(w) \/ Crash(w)
       \/ \E w \in Workers : FullRun(w) \/ Resumption(w) \/ MarkAttemptFailed(w)
       \/ \E g \in Gens : Enrichment(g)
       \/ Recover
       \/ Expire
       \/ Settled
    /\ UNCHANGED late

Spec == Init /\ [][Next]_vars
-----------------------------------------------------------------------------
(* The job is one of LeasedJobs                                              *)

AbstractPhase == [ready |-> "waiting", running |-> "held",
                  succeeded |-> "succeeded", failed |-> "failed"]

AbstractItem ==
    [phase  |-> AbstractPhase[row.status],
     holder |-> IF row.status = "running" THEN row.worker ELSE NoWorker,
     grants |-> row.attempts,
     wrote  |-> row.by]

Leased == INSTANCE LeasedJobs WITH NumJobs <- 1, item <- <<AbstractItem>>

\* Whatever the pipeline does to its job is a step of the abstract queue that
\* JobQueue implements: only its present attempt writes it, and it keeps its
\* outcome.  The exception is the second commit of _resume_graph_projection: it
\* does not look at the lease, and a late attempt may end a job of another.
StepsAreLeased == [][\/ Leased!Next
                     \/ late /\ \E w \in Workers : ResumeFinish(w)]_row

-----------------------------------------------------------------------------
(* What the stores and the job promise each other.  The three that ask ~late *)
(* do not hold of an attempt that goes on after losing its lease.            *)

\* READY without warnings, from the attempt that persisted the chunks, is the
\* whole index: that attempt's chunks in the runtime index and nothing else
\* there, its record SUCCEEDED, its projection made and the graph made from it.
ReadyRunIsFullyIndexed ==
    (~late /\ row.status = "succeeded" /\ row.stage = "ready" /\ chunks = Complete(row.by))
        => /\ runtime = {row.by}
           /\ records[row.by] = "succeeded"
           /\ projections[row.by] = "succeeded"
           /\ graph = chunks

\* A projection record says SUCCEEDED only while the graph in Neo4j shows the
\* chunks the document has now.
ProjectionIsCurrent ==
    ~late /\ (\E g \in Gens : projections[g] = "succeeded") => graph = chunks

\* A document that reads SUCCEEDED can be searched: no earlier attempt's cleanup
\* and no partly persisted batch is behind the status.
SucceededDocumentIsSearchable ==
    ~late /\ doc = "succeeded" => Searchable

\* What survives attempts that go on after losing their lease: chunks are only
\* ever added by the attempt the job counts as its present one.
OnlyLatestAttemptPersists ==
    [][\A b \in chunks' \ chunks : b[1] = row.attempts]_vars
=============================================================================
