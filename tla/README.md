# Ragstudio: TLA+ models of indexing, contracts and queries

Ragstudio indexes documents in the background and answers questions over them. A
request stores a row in the `jobs` table; a worker claims it under a lease, prepares
the PDF, has MinerU parse it, cuts the text into chunks by the reference contract of
the document, judges the chunks, persists them, enriches a runtime (LightRAG) index
and projects a graph into Neo4j. A query asks several retrieval lanes for candidates,
fuses them and lets a model answer. Workers die, stall and are replaced while this
goes on, outside stores take part in no transaction, and every lane may fail.

These modules model that way from the upload to the answer: who may write to a job
and when; what job, document, chunks, index records, runtime index and graph say about
each other; whether text, warnings and references survive the chunking and its gates;
whether the contract a user saw verified is the one that cuts the chunks; and what a
query may lose, widen or leave unfinished when parts of it fail.

Paths below are relative to `backend/src/ragstudio/` unless they say otherwise.

## Inventory

| Part | State | Operations | What is hard | What makes it correct |
|---|---|---|---|---|
| Job queue, `services/job_queue_service.py` | rows of `jobs`: status, worker, lease, attempts, recovery action, stage | `claim_next`, `heartbeat`, `mark_failed`, `recover_expired_jobs` | `SKIP LOCKED` polls beside open transactions, lapsed leases, spent attempts | one owner at a time; outcomes final; nothing stuck |
| Worker, `workers/index_worker.py` | the job it runs | `run_once`, `run_forever`, failure reporting | crash and restart at any point | every job settles |
| Runner, `services/index_job_runner.py` | heartbeat task, session | `run`, `_resume_graph_projection`, `_ensure_current_lease`, `_clear_terminal_lease` | a lease lost in the middle of work; two commits at the end of a resumption | a worker without the lease writes nothing |
| Document service and API, `services/document_service.py`, `api/routes/documents.py` | `documents`, files, `jobs`, `index_contract` | upload, reindex, delete, rematerialize, `run_index_job` | advisory lock against unlocked paths, stale sessions, files outside the transaction | status, chunks and contract of a document agree |
| Lifecycle, `services/index_lifecycle_service.py` with `index_artifact_cleanup.py`, `chunk_persistence_service.py` | chunks, index records, projection records, runtime index | the stage ladder of `reindex_document` | a commit for each step, degradation, a thread that cannot be cancelled, commits that do not check the lease | a status never promises what the stores do not hold |
| Graph projection, `services/graph_projection_runner.py`, `graph_materialization_service.py` | projection records, the Neo4j graph, cleanup markers | `materialize_pending`, `rematerialize_document`, `delete_document_graph` | record and graph change in different stores | a SUCCEEDED record means a current graph; no orphaned graph |
| Progress, event stream, repair requests, `services/index_progress.py`, `api/routes/jobs.py`, `services/job_quality_warning_service.py` | `job.result`: stage, capped events, outcome, plan | `update_job_stage`, status callbacks, `queue_repair_job`, the stream | one JSON column, several writers with copies of their own | no lost update; streams miss nothing and end |
| PDF preflight and OCR cleanup, `services/pdf_*_service.py` | `preprocessed/<id>/` | `inspect`, `clean_sample`, `clean` | which file is used after which failure | the parse reads the file that was chosen |
| MinerU client and extraction check, `services/mineru_client.py`, `http_retry.py`, `mineru_extraction_validator.py` | `mineru-artifacts/<id>/`, the remote job | submit, poll, download, unpack, normalise | deadline against a late answer, retries, files an attempt left behind | chunks are of the attempt's own parse |
| Parsing and chunking, `services/chunk_splitter.py`, `parser_normalization.py`, `reference_unit_assembler.py` and helpers | none that lasts | normalise, recover, stitch, order, cut, assemble, group | a protocol of passes over blocks, each with carry-over | no text lost, doubled or filed under another reference |
| Quality gate and vision recovery, `services/domain_metadata_quality_gate.py`, `quality_repair_service.py`, `targeted_vision_recovery_service.py` | marks on the chunks | validate, repair, recover, validate again | passes that read and rewrite each other's marks | sound chunks are indexed, unsound ones never, and reported |
| Domain metadata and reference contracts, `services/domain_metadata_ai_suggester.py`, `domain_metadata_contract_compiler.py`, `reference_contract_executor.py`, frontend `features/documents/documents-page.tsx` | the suggestion on the page, `index_contract`, job options | analyse, edit, package, upload, reindex | the contract is recompiled from its own output at each hand-over | what cuts the chunks was executed on this very content |
| Runtime adapter, `services/native_raganything_adapter.py`, `native_storage_config.py` | `os.environ`, a process lock, the proxied store, the LLM cache | query, insert, delete | settings travel through the environment of the process; timeouts anywhere | an operation sees its own settings; an answer stays in its scope |
| Query pipeline, `services/query_service.py`, `retrieval_orchestrator.py`, `retrieval_route_planner.py` with ranking, diversity, context and answer services | runs of the request | lanes, fusion, selection, answer, commit and recovery | an aborted transaction poisons what follows; timeouts per lane | no scope widening; optional lanes never fail a run; every run is stored |
| Settings, health, diagnostics, experiments, proof packets, other pages | configuration, reports | | no interleaving of their own | |

The parts meet in the database. A request writes the job and sets the document
RUNNING. The worker polls the jobs table (`run_once` recovers lapsed jobs and claims
one in the same transaction) and hands the claimed job to the runner. The runner starts
a heartbeat task with a session of its own beside the operation, which is
`DocumentService.run_index_job` around `reindex_document`, or, after a recovery from a
search-ready stage, `_resume_graph_projection`. The lifecycle calls back through
`on_stage`, which looks at the lease under the row lock, renews it and commits. Runtime
index and Neo4j are called in between and take part in no transaction. A query reads
what indexing has left, degrades by its records, and calls the runtime under the same
environment lock that insertions and deletions take.

The hazards this produces are listed in `PROJECT.json`, each at its line, with the
properties that answer it or the reason why none does.

## Modules

| Module | Models |
|---|---|
| `JobRows` | one row of `jobs` and what the code does to a row: claim, renew, recover, finish. Pure operators, applied inside the transactions of other modules. |
| `LeasedJobs` | the abstract queue: waiting, held, succeeded or failed; a bounded number of grants; writes only by the current grant. |
| `JobQueue`, `JobQueueInv` | the queue, the worker loop and the lease protocol with sessions, row locks, clock and crashes, which implement `LeasedJobs`; its inductive invariant. |
| `IndexPipeline` | one job from request to outcome: every commit and every outside call of an attempt, of its resumption and of its enrichment thread; its steps on the job are steps of `LeasedJobs`. |
| `DocumentGraph` | the graph of one document and the records that say where it is: deletion with its markers, rematerialisation, reindexing, second uploads. |
| `JobResults` | the column `job.result` of the jobs of one document: worker, recovery, repair request and event streams. |
| `SourceParse` | from the uploaded PDF to an accepted parse, over the files all attempts share. |
| `DocumentChunks` | from the content list of a parse to chunks and reference units. |
| `ReferenceQuality` | from chunks to those the runtime indexes: gate, local repair, vision recovery, second validation, report. |
| `ReferenceContract` | from an analysis of a file to the anchors its chunks are cut by, through page, package, upload, job and reindex. |
| `NativeStorage` | the operations of one process on the native runtime: environment, lock, proxy, cache, timeouts. |
| `RetrievalRoute` | which lanes a query may use: degradation, classification, materialization policies. Pure operators. |
| `QueryRun` | one query request with its variants: lanes, expansion, selection, answer, commit and recovery. EXTENDS `RetrievalRoute`. |
| `MC*` | instances for TLC. |
| `JobQueueProofs`, `IndexPipelineProofs`, `JobResultsProofs`, `ParsingProofs` (of `SourceParse` and `DocumentChunks`), `ReferenceQualityProofs`, `DocumentGraphProofs`, `ReferenceContractProofs`, `QueryRunProofs` (also those of `NativeStorage`) | the proofs. `DocumentChunks` and `NativeStorage` have names of their own for what every specification has (`SplitInit`, `SplitSpec`, ...), so that one module can speak of both. |

`JobQueue` and `IndexPipeline` both apply `JobRows`, and both are shown to treat a job as
`LeasedJobs` says: what the pipeline takes for one step of the queue is what the queue
guarantees. The others meet at what one hands
to the next: `IndexPipeline`'s step Parse is `SourceParse`; what lies between it and the
first batch is `DocumentChunks` and `ReferenceQuality`; the contract both of these take
as given is what `ReferenceContract` leaves with the job; the degradation of `QueryRun`
is by the records `IndexPipeline` and `DocumentGraph` keep; its native lane is
`NativeStorage`. They are not composed into one specification: the product would
only multiply states, since at each hand-over one side is finished when the other begins.

### State and actions of JobQueue

`job[j]` and `docs[d]` are committed rows. A transaction that stays open over several
statements has two actions: one locks rows and puts its writes into `jobWrites[w]` and
`docWrites[w]`, and `CommitPoll` or `CommitWrite` publishes them. `Poll` is
`recover_expired_jobs` and `claim_next` in one session; `SKIP LOCKED` is the filter
`~JobLocked`. `BeginRun`, `BeginStage` and `BeginFinish` are `_ensure_current_lease`
with the writes the session flushes along; `Heartbeat` is the first heartbeat and those
of the heartbeat task; `LeaseLost` is `JobLeaseLostError` from whichever of them
notices. `StampResult` is the commit before the cleanup in `reindex_document`: it looks at
no lease and may flush stage and progress computed from the copy of the row read at the
claim, as it does with a PDF preflight, which a contract with required scripts turns on
by itself. `ResumeRenew` and
`ResumeFinish` are the two commits of a resumption. Sessions are created with
`expire_on_commit=False` (`db/engine.py`), so a session goes on with old values until it
reads again: that is why `run[w].stage` remembers the stage seen at the claim. The
history variables `began` and `indexed` say which attempt of a job last began a full run,
and which last reported a stage to resume from.

Time is relative: a lease is the number of ticks left, so no run needs a bound on the
clock. The code holds a lease while it is strictly in the future and recovers it when
strictly past; the tick at zero is neither, as in the code.

### State and actions of IndexPipeline

`row` is the job; `chunks`, `records`, `projections`, `runtime` and `graph` are the
stores, each entry tagged with the attempt that wrote it (0 for an earlier job of the
document). `run[w]` says after which commit an attempt stands. `Fenced` steps end in a
commit that looked at the lease; `Unfenced` ones do not look. `late`, chosen at the
start, says whether an attempt, or the enrichment thread it started, may go on after
losing its lease; if not, it is cancelled before its next step. Claim and recovery are
one step here because `JobQueue` is where their interleavings are checked, and a fenced
commit is one step because of the theorem `WritersOwnTheirJobs`. `StageAfter` is the
ladder of `on_stage` calls; `PersistBatch` is one batch with its progress commit, the
first with the deletion of older chunks; `PublishChunks` is the commit of index record
and SUCCEEDED document; `PersistFails` is the handler that also catches a lost lease;
`ThreadClears`, `ThreadInserts` and `ThreadFails` are
`_run_runtime_enrichment_in_thread`.

### State and actions of DocumentGraph

`records` are the committed `graph_projection_records` (a set: nothing in the code tells
equal ones apart), `graph` says for each target (workspace, URI, user) whether its nodes
show the present chunks, older ones, or are none. `job` is the place at which the index
job stands. `request[r]` is an API session inside one operation:

- `delete_document` with `delete_document_graph`: `BeginDelete` takes the advisory lock
  and the row, refuses when a job is active and groups the records by target;
  `MarkRunning`, `EraseGraph` or `EraseFails`, and `MarkErased` follow for each target,
  the markers in commits of their own; then `UnlinkArtifact` and `CommitDelete`.
  `AbandonDelete` is any failure or crash in between: the transaction is rolled back,
  markers, graphs and files are not.
- `rematerialize_document`: `Rematerialize` (lock and checks in the route),
  `RewriteGraph`, `CommitRematerialized`.
- `UploadAgain` and `QueueUploaded` are `_ensure_queued_index_job`, which takes no
  advisory lock and waits only for the document's row.

The active profile may be another one at every use, so a target is chosen where the code
reads it. Three history variables change no step; the properties use them to say which
graphs the code cannot know of or gets wrong: `unrecorded`, the targets whose nodes were
written by a call that no commit recorded; `revived`, those rewritten after a deletion
that failed later had erased and marked them; `overtaken`, those whose rewriting an index
run began beside. The deletion of the runtime index is left out: it is tried once and its
errors are ignored.

### State and actions of JobResults

`job[j].result` is the column; `worker` the running job with the copy of the column it
took at the claim; `request[r]` a repair request and the copy of the queued job that
`session.refresh` reads after its first commit (`RefreshQueued`). The job may be claimed,
run and ended before and after that. Every write is a write of the whole copy, as in the code: `ReportStage`,
`OnMineruStatus`, `Succeed`, `FailJob` write the worker's, `AttachPlan` the request's.
An event is its sequence number; the list keeps the last `MaxStageEvents`. `PollStream`
is one turn of the stream's loop, with `sent = len(events)`. `overrun`, `rewound` and
`undone` are history: the jobs that were running when a plan was attached to them, those
whose events had moved on since the request read them, and those that had ended since. Who may write a job at all
is `JobQueue`'s subject: here one worker runs one job at a time.

### State and actions of SourceParse

`disk` holds the files of all attempts (the two cleaned PDFs, `artifacts.zip.part`,
`artifacts.zip`, `extracted/`), each tagged with the parse it is of; `remote` is what
MinerU was asked to do; `attempt` is the running attempt. One action is one call whose
failure leaves something behind: `Preflight`, `CleanSample`, `Clean`, `Submit`, `Poll`,
`OpenPart`, `ReplaceZip`, `ClearExtracted`, `Unpack`, `Normalize`; `Die` is death at any
of them. A PDF is a sequence of up to 20 pages of four kinds with one reference unit per
page at most; ratios are in halves. One attempt runs at a time: an attempt that overlaps
with its successor after a lost lease shares these directories with it, and the lease
keeps its chunks out (`OnlyLatestAttemptPersists`), not its files. `Accepted` has no test
of the page coverage because the code never makes it (Known limit 10).

### State and actions of DocumentChunks

A text is a sequence of tokens (words, anchors, inline references, contexts, headings);
`items` is the content list. Every loop of the code is one turn at a time: it goes over
`blocks` from `pos` on and leaves what it makes in `made`, and `LoopEnds` hands `made` to
the next. `NormalizeItem` takes an item: keep, recover by vision under the two budgets, or
quarantine with a warning. `Stitch` joins a paragraph to the one before it over a page
boundary or not, `Order` puts blocks in reading order, `Cut` cuts one at its primary or
contextual anchors; `Assemble` is one turn of the loop of `ReferenceUnitAssembler` and
`EndUnits` what follows that loop; `Group` and `EndGroups` are the other path. Of an open
unit (`current`) and of the blocks that wait for a reference (`pending`) the state keeps
what the code goes on to use: their text, their warnings, the page of the last block and
whether the body has text. Several parser chunks name one content list
(`SkipParserChunk`).

### State and actions of ReferenceQuality

A text is the set of scripts each reference's part of it has letters of. `Validate` is
the gate over all chunks with its local repairs, warnings, records, policies and requests
for vision; before it the chunks have the splitter's warnings, which name no reference
(`SplitterWarnings`, `QuarantineWarnings`). `BeginRequest`, `CallModel`, `PassOver`, `GiveUp` and `RefuseRequest` are
`recover()` request by request and page by page; `Revalidate` is the gate over the marks
the first pass left; `Materialize` is `_runtime_materializable_chunks`.

### State and actions of ReferenceContract

A metadata record has a schema, three anchors, candidate contracts, the status of their
execution and a validation; a regex is a model value with the groups it names and the
units it finds in each file. `Suggested` is `suggest` (acceptance, execution, demotion,
structure from execution), `Compiled` the contract compiler, `Accepted` the server's
validation, `Cut` the extractor that would cut chunks, `Stored` the one that is stored.
`Merged` joins a suggestion with a saved profile: fields of the schema are united, of the rest
the profile's stands where it has any.
The page has `SelectFile`, `Analyze`, `AnalysisReturns`, `AnalysisFails`, `Upload` and
`ReindexOffered`; any client has `ClientUpload`, `ClientReindex`, `PlainUpload`,
`DeleteDocument`; the worker has `StartJob`, `FinishJob`, `FailJob`. The state holds
digests of packages instead of the records: compiling once more what was compiled changes
no digest (`Recompiles`, the theorem `CompilesToItself`), so a digest is all a job, a chunk
or a page needs to keep. `own`, `toldApart` and `overtaken` are history.

### State and actions of NativeStorage

`env` is `os.environ` on the keys the settings write. `Acquire`, `WriteKey` (one turn of
the loop), the body, `RestoreKey` and `Release` are `scoped_native_storage_env`; the
tasks interleave at each of them, as the threads of the enrichment stage make them do.
A query with selected documents makes two calls (`stage`), the second under
`_scoped_chunks_vdb` (`EnterScope`, `AnswerScoped`). `TimeOut` is `wait_for` cancelling
the query where it awaits.

### State and actions of RetrievalRoute and QueryRun

`PlannedLanes` is `RetrievalRoutePlanner.plan` over the query config, the classification
of the documents' domain, the materialization policies and the two degradations.
`request` is one POST; its variants run one after the other in one session.
`transaction` says whether the session is aborted: every statement after that fails until
a rollback, which expires what was loaded (`expired`). The phases of a run are `Plan`;
the lanes, side by side in fast mode, native first when documents are selected in full
mode (`NativeAnswers`, `NativeTimesOut`, `MetadataAnswers`, `MetadataTimesOut`,
`Resolve`); `LayoutNeighbors`, `ContextNeighbors`, `ExpandGraph`, `Hydrate`; `Assemble`
(fusion, reranking, diversity, context, cut to the limit); `Answer`, `AnswerTimesOut`,
`AnswerFails`; `Commit`, `CommitFails`, `Recover`, `RecoverFails`. Scores are left out:
fusion takes any order that respects `FusionPriority`, reranking any order at all.
The context drops first what a policy withholds (`PolicyDrops`: every native row, since its
runtime bridge is missing, and the chunks of `Withheld`), direct evidence or not, as
`backend/tests/test_context_assembly_service.py` asks; when the context is empty the answer
is made from all candidates, those included (`services/retrieval_orchestrator.py:487`).

## Runs

| Run | Instance | Shows |
|---|---|---|
| `queue_safety` | 2 workers, 2 documents, 2 jobs, 2 attempts, lease of 1 tick, one stage to resume from | owner, index and lease are respected, and the queue implements `LeasedJobs` |
| `queue_liveness` | 2 workers, 1 job, 3 attempts, also a stage after SEARCH_READY that restarts, `CommitsPromptly` off, under `FairSpec` | only what the newest full run indexed is resumed; every job settles, unless an operation lasts for ever |
| `pipeline` | 2 workers, 3 attempts, 2 batches, `late` either way | job and document never promise more than the stores hold; stale attempts add no chunks |
| `graph_safety` | 2 requests, 2 targets, 2 records, one stray thread, second uploads at any time | deletions leave no recorded graph but revived ones; what retrieval would use is true unless overtaken |
| `results` | 2 jobs, 2 attempts, a list of 2 events, one repair request, one stream, under `FairSpec` | which updates of `job.result` two sessions may lose, and that no other is; streams send everything, and end if runs do |
| `source_parse` | 2 attempts, 2 tries, 4 PDFs with 12 contracts, 4 archives, under `FairSpec` | chunks come whole from the attempt's own parse of the chosen file; attempts end |
| `document_chunks` | all documents of three blocks over a few shapes and four page layouts, 7 contracts | text, warnings and references survive normalisation, stitching and assembly |
| `reference_quality` | all documents of three chunks out of nine kinds, 7 contracts | indexed chunks are sound, sound ones indexed, the report true |
| `reference_contract` | two files that look alike, ten answers of the model, two profiles, 2 analyses in flight | what cuts chunks was executed; page, stored contract and chunks agree |
| `contract_uploads` | the same | counterexample, see Findings |
| `native_storage` | 2 queries (one scoped), an insertion, a deletion, 2 keys, 2 profiles | own settings, restored environment, answers in scope; queries end |
| `query_run` | 4 chunks, one of them withheld, and a native row of 2 documents, 2 variants, both modes, all or one document | no scope widening, only critical failures fail, every run stored, requests end |

### Bounds

Two workers are enough for every race in the queue, which is always between an owner and
one successor or between two pollers; two jobs let one transaction recover one row and
claim another, and let a document be requested again. What stage a job resumes from is
a matter of one job, and is checked with one and three attempts. With two attempts a job is
claimed, recovered, claimed again and given up (the default of `max_attempts` is 3); the
pipeline has three, so that a resumption can itself be followed by another. A lease of
one tick has all the values the code distinguishes: held, on the boundary, lapsed,
missing. Two batches are the least that have a middle. Two records are one at each of two
targets, or a superseded and a new one at the same; with one stray thread every write can
already be overwritten. With three records the run passes too (13 million states); the
theorems hold for any number.

A list of two events and sequences up to four let events fall out and a stream be behind
by one or two. Two attempts and two tries leave every kind of remainder on the disk to
a successor. Three blocks are an open unit, a page gap or carried text, and what follows;
three chunks are the one recovered, its sibling and a bystander. The two keys of
`native_storage` are one that every profile sets and one that is absent in one of them.
The four chunks of `query_run` are two matched by reference, one of them withheld by policy;
one that repeats the text of a native row and of the first; and one longer than the
context, of another document, found by the hypothesis; a limit of one makes every cut bite. Scopes are all
documents or one; `Reordered`, the order of layout neighbours for several selected
documents, does not arise, and reranking already allows every order.

The bounds are `NumJobs`, `MaxAttempts`, `Batches`, `LeaseTicks`, `MaxRecords`,
`MaxJobs`, `MaxSequence`, `MaxRequests`; the other numbers are parameters of the code,
scaled down. Workers, requests and targets are symmetric; runs with symmetry check safety
only. Deadlock is checked in every run: each module names the one place where it may
stop (`Settled`, `Deleted`, `Quiet`, `Over`, `Done`, `Stopped`); the queue's clock always
ticks, and a user can always select a file.

### Properties

- `JobQueue`: `WriterOwnsJob` (between lease check and commit the writer owns the row,
  in its own attempt, and nobody else has it locked), `OneActiveJob`,
  `ResumeFromSearchReady`, `OnlyHolderEndsLease`, `EveryJobSettles`,
  `ImplementsLeasedJobs`.
- `IndexPipeline`: `ReadyRunIsFullyIndexed`, `ProjectionIsCurrent`,
  `SucceededDocumentIsSearchable` when attempts end with their lease (`~late`);
  `OnlyLatestAttemptPersists` either way.
- `DocumentGraph`: `DeletionErasesRecordedGraphs`, `SucceededProjectionIsCurrent`.
- `JobResults`: `StreamSendsEveryEvent`, `RepairPlanStays`, `OutcomeIsKept`, `StreamsEnd`.
- `SourceParse`: `ChunksAreOwn`, `OneParsePerAttempt`, `AttemptsEnd`.
- `DocumentChunks`: `TextIsKeptOnce`, `WarningsAreKept`, `UnitsReadTogether`.
- `ReferenceQuality`: `OnlySoundChunksAreIndexed`, `SoundChunksAreIndexed`,
  `ReportMatchesTexts`, `MissingScriptsAreReported`. `Sound` is stated from the final
  text and the contract, not from the marks the gate leaves.
- `ReferenceContract`: `CutsWereExecuted`, `StateTellsUpload`, `ContractMatchesChunks`,
  `PageOffersOwnAnalysis`. What they do not cover is in named conditions: `ToldApart` (no
  two candidates with the same schema), `SameIdentity` (a profile below the suggestion
  names the same identity fields, or only some of them and no anchor of its own), an execution that is not `unverified`, and the history
  variables `own` (an analysis bound to this content) and `overtaken` (an upload beside a
  running job). Each condition answers to an entry under Known limits.
- `NativeStorage`: `OwnSettings`, `SettingsRestored`, `AnswersInScope`, `QueriesEnd`.
- `QueryRun`: `ScopePreserved`, `OnlyCriticalFailuresFail`, `DirectEvidenceSurvives`,
  `RunsAreStored`, `RequestEnds`.

Each has a mutant in `PROJECT.json`: a changed definition under which it fails.

### Fairness

- Queue: the clock ticks, an idle worker polls (`run_forever` loops without end), and a
  worker standing at a commit or at a lease check takes it unless it crashes each time it
  gets there. Stages, heartbeats, crashes and requests are left to chance. So is the end of
  an operation: enrichment runs in a thread without a timeout
  (`services/index_lifecycle_service.py:316`) and the storage lock of the native runtime has
  none, while the heartbeat renews the lease. `EveryJobSettles` is therefore conditional:
  if no operation lasts for ever (`OperationsEnd`), every job settles. Recovery needs no
  fairness of its own; it is part of `Poll`.
- `JobResults`: workers poll and recover, and a stream polls twice a second. Nothing makes a
  run end, so `StreamsEnd` has the condition `RunsEnd`; nor need the request's second
  commit ever come.
- `SourceParse`: an attempt goes on and time passes; MinerU need never answer.
- `NativeStorage`: the event loops run what is ready, and `wait_for` cancels a query.
  Nothing makes the work of an insertion or of a deletion end.
- `QueryRun`: the database answers or fails, and the timeouts come. Nothing makes the
  native runtime, the metadata passes or the model answer.
- `DocumentChunks`, `ReferenceQuality`: sequential code that goes on.

### Timing assumptions

`CommitsPromptly` says that no session stalls for a whole lease (five minutes by
default) between the two commits of a resumption, the second of which checks no lease;
`late = FALSE` that an attempt which has lost its lease is cancelled before its next
step. The code enforces neither. The first is a constant of `JobQueue`, assumed by
`OnlyHolderEndsLease` and `ImplementsLeasedJobs`; the second a condition in properties of
`IndexPipeline`, so that the run also covers what happens without it. No other guard or
switch stands for something the code does not check: where a race of the code goes wrong
the step is taken, a history variable notes it, and the property names the variable.

## Findings

`contract_uploads`: `services/domain_metadata_ai_suggester.py:458` takes a contract's
first extractor as the validated one, whichever matched, while the anchors are written
from the extractor that did match. The compiler at upload withdraws every verification
but that of the regex the validation names
(`services/domain_metadata_contract_compiler.py:226`), so a suggestion the page shows as
verified is refused with 422 when its match came from a later extractor. The plan
`docs/superpowers/plans/2026-05-25-verified-vision-contract-upload-handoff.md:5` promises
the contrary. Editing the anchor into the first extractor's regex is accepted and cuts
by an anchor that matched nothing.

### Known limits

What the code does beside what the properties above say. None of these is reported by a
run; each is why a condition, a history variable or an assumption is there.

Indexing:

1. `services/index_job_runner.py:121`: the second commit of a resumption checks no lease;
   a session that stalls between the two ends a job another worker holds
   (`CommitsPromptly`).
2. `services/index_lifecycle_service.py:126`: with the PDF preflight a worker that has
   lost its lease writes its old `result` over the row, the stage included (`StampResult`).
   The stage may go back or forward, but the newest full run stays the one that counts, so
   `ResumeFromSearchReady` holds with it.
3. `services/job_queue_service.py:151`: a worker that dies in RUNTIME_ENRICHING, after
   SEARCH_READY, is followed by a full run, where
   `docs/architecture/durable-rag-indexing.md:94` promises a resumption.
4. `services/index_job_runner.py:93`: a resumption from SEARCH_READY marks the index
   record SUCCEEDED with nothing in the runtime index. `ReadyRunIsFullyIndexed` speaks of
   jobs that end READY without warnings.
5. `services/index_lifecycle_service.py:297`: a worker that has lost its lease may mark
   the document SUCCEEDED after the new owner has deleted its chunks (`late`).
6. `services/graph_projection_runner.py:152`: a target marked as cleaned by a deletion
   that failed later is passed over by the next deletion, even when
   `rematerialize_document` has written a new graph to it since (`revived`). Retrieval
   reads the status of a record and not its cleanup
   (`services/query_service.py:693`), so it goes on using a projection whose graph a begun
   deletion has erased (`DeletionBegun`).
7. `services/document_service.py:422`: a second upload queues a job without the workflow
   lock, so that a rematerialisation records the graph of chunks that were replaced
   meanwhile (`overtaken` of `DocumentGraph`).
8. `services/graph_projection_runner.py:397`: a graph whose record was not committed is
   not found by a deletion (`unrecorded`).
9. `services/job_quality_warning_service.py:179`: the plan of a repair job is attached in a
   second commit, from a copy of the result. A worker that runs the job at that moment
   writes over the plan (`overrun`); the copy writes over the events (`rewound`) or the
   outcome (`undone`) a worker has stored since it was read.
10. `services/mineru_extraction_validator.py:121`: the page coverage is tested only when the
    parser metadata has a page total, and `normalize_artifact_zip`
    (`services/mineru_client.py:316`) puts none there, though
    `docs/superpowers/specs/2026-05-12-metadata-aware-index-quality-gate.md:118` wants it
    validated; a parse with the texts of a few pages is accepted.

Chunking and quality:

11. Contextual cuts drop the text before a first anchor that no context precedes, and a
    context after the last anchor with what follows it; the rule that units do not cross
    book or chapter boundaries is not enforced for them. Text after a page gap and leading text
    join the next reference, not the one before; a page gap within carried text is not looked at
    (`docs/superpowers/plans/2026-05-12-canonical-reference-units.md:506`). A stitched
    block counts as being on its first page.
12. A recovery by vision of an allowed block without text is paid for and discarded. The
    placeholder of quarantined text is indexed when no reference quality is required.
13. The total vision budget is checked once for a request and not for each page it tries.
    A script recovered for a chunk with several references is appended to the last of
    them. A document that must have Arabic and has none is rejected before vision could
    find it. Warnings of a sibling reference stay counted after its recovery, and the
    statuses of failed requests are lost by the second validation.
14. A layout policy that blocks missing-script warnings blocks a recovered chunk only
    after the second validation, be the warning the splitter's or the gate's
    (`SoundChunksAreIndexed` leaves this policy out); a block policy is undone for
    warnings that are pure layout noise.

Contracts:

15. Candidates with the same schema and template: the first one's regexes are marked
    verified, whichever matched (`ToldApart`).
16. A saved profile below a verified suggestion makes the upload fail if it names other
    identity fields, or not all of them and has anchors (`SameIdentity`).
17. An upload beside a RUNNING job overwrites `index_contract` while the chunks are being
    cut with the job's options (`overtaken` of `ReferenceContract`).
18. A declared `reference_resolution`: the first compilation switches it off, and
    validated candidates stay metadata only. Switched on without any reference signal the
    page says "generic" and the upload is refused with 422.
19. After failed generated contracts with a verified fallback a second compilation gives
    another result (`execution # "unverified"`).
20. `POST /documents/{id}/reindex` compares no analysis binding, and options found in the
    chunks hold none (`own`).

Queries:

21. `services/query_service.py:208` and 264–275: after a first commit that was rolled back,
    later variants and the response touch expired objects and may raise although the run
    was recovered; `raised` is the phase where such a request ends.
22. A metadata timeout fails a query, although
    `docs/architecture/query-retrieval-architecture.md:69` lets a lane that reaches its
    timeout return what it has. A candidate dropped for the token budget is still
    used by the fallback when no candidate fits. Failures of the quality diagnostics and
    of the metadata lookup are silent, yet leave the transaction aborted.
23. `_scope_leak_error` of the runtime adapter inspects rows that are already filtered, so
    it never fires.

## Proofs

All theorems hold for every value of the constants: any sets of workers and documents,
any number of jobs and attempts and any lease in `JobQueue`; any number of workers, attempts
and batches in `IndexPipeline`; any scripts, contracts, chunks, warnings and budgets of
vision calls in `ReferenceQuality`; any number of jobs, requests
and streams and any cap of the event list in `JobResults`; any documents, contracts,
archives, attempts and retries in `SourceParse`; any content lists, contracts, recoveries,
budgets, lengths of parts and parser chunks in `DocumentChunks`; any targets, profiles and requests in
`DocumentGraph`; any files, regexes, answers of the model and profiles in
`ReferenceContract`; any tasks, settings, keys and documents in `NativeStorage`; any finite sets
of chunks and rows, any number of variants, limits, token costs and likeness in `QueryRun`.

- `JobQueueProofs`: `TypeCorrect` (`Typed` restates `TypeOK` in parts that each action
  can disturb; the lemmas on row operators say that each of them yields a row);
  `InvariantHolds`, that `IInv` is inductive, and from it `WritersOwnTheirJobs`,
  `AtMostOneActiveJob`, `ReadyJobsAreClaimable`, `ActiveJobsHaveLiveDocuments`,
  `ResumptionsAreOfIndexedRuns`; and, assuming `CommitsPromptly`, `OutcomesAreFinal`,
  `LeasesAreRespected` and `QueueImplementsLeasedJobs`.
- `IndexPipelineProofs`: `TypeInvariant`, `LatestAttemptPersists`, `ReadyMeansIndexed`,
  `SucceededProjectionIsCurrent` and `SucceededMeansSearchable`. The last three are of
  attempts that stop with their lease (`~late`, part of the properties); the first two of
  all. `PipelineStepsAreLeased` shows step by step, with `Attempts` below as invariant,
  that the pipeline's job is one of `LeasedJobs`, the second commit of a late resumption
  excepted (Known limit 1). `StepsAreLeased` is proved only: no run repeats it, since
  `queue_safety` checks the same specification where leases are modelled in full.
- `JobResultsProofs`: `JobResultsType`, `OutcomeKept`, `PlanStays` and `StreamComplete`.
- `ParsingProofs`: of `SourceParse`, `OwnChunks` and `ParsesAskedOnce`;
  of `DocumentChunks`, `SplitTypes`, `TextKeptOnce`, `WarningsStay` and `UnitsTogether`.
- `ReferenceQualityProofs`: `TypeInvariant`, `IndexedMeansSound`, `SoundMeansIndexed`,
  `ReportIsCurrent` and `MissingMeansWarned`.
- `DocumentGraphProofs`: `DocumentGraphType`, `DeletionLeavesNoGraph` and
  `UsableGraphIsCurrent`.
- `ReferenceContractProofs`: `CompilesToItself`, `ChunksAreCutByExecutedAnchors`,
  `StoredContractMatches`, `OwnAnalysisOffered` and `BadgeTellsUpload`.
- `QueryRunProofs`: `QueryRunType`, `SourcesInScope`, `OptionalLanesDoNotFail`,
  `DirectEvidenceReachesAnswer` and `VariantsAreStored`; and of `NativeStorage`, which
  its native lane queries, `NativeStorageType`, `OperationsSeeOwnSettings`,
  `EnvironmentRestored`, `ProxyOnlyInBody` and `ScopedAnswers`.

None of the queue's safety properties is inductive. What carries them is in `IInv`: a row
is locked by one transaction at a time (`LocksExclusive`); a draft in an open transaction
moves the committed row underneath by exactly one legal step (`PollsOK`, `WritersOK`), so
a commit can be judged by the row it replaces; a worker whose name is in its row works in
the attempt the row counts (`GenerationsOK`), which is what tells an owner from its own
former self after a crash; a full run never works on a row to be resumed (`RunnersOK`). That
a stage can be trusted is `ResumptionInv`: an attempt past its start is the newest full run
of its job (`BegunOK`), and one at its start carries no stage to resume from, neither its
own nor one it could flush in `StampResult` (`BeginnersOK`).

For the pipeline the invariant is `IInv` of `IndexPipelineProofs`, in two halves.
`Attempts` holds of every attempt, also one that goes on after its lease: an attempt has
the number the row counted for it, no two workers make the same attempt, and the worker
the row names makes the newest (`GenOK`, `DistinctOK`). As a fenced commit asks for
that name, chunks come from the newest attempt only. `Timely` is about `~late`, and says
of the holder of the lease what each of its phases may rely on (`AttemptOK`): the chunks
are those of the batches persisted so far (`BatchOK`), after the cleanup no projection is in
force but its own (`PendingOK`), the enrichment thread brings the runtime index to the
attempt's entries and to nothing else (`EnrichingOK`), and what it is about to record is
true of graph and index (`OutcomeOK`). An attempt hands over to the next only by the
row, so the stores must keep what recovery reads from it: a resumable stage is evidence of
searchable chunks (`RecoveryOK`). That half fails once an attempt outlives its lease,
which is Known limit 3.

For the quality gate the invariant is `IInv` of `ReferenceQualityProofs`. Its centre is
`Checked`, what a pass establishes of a chunk: in the index exactly if sound, its records
those of its text, every lacking script warned of. It holds after each pass, and until an
answer of the vision model extends a text; from then on a request stands as succeeded
(`Recovery`), which is what makes `reindex_document` validate again. For a pass to
establish it, the marks of earlier passes must not mislead it: nothing but the layout
policy blocks a warning, and quarantine warnings are those of the splitter (`WarningsOK`);
and where the gate keeps no records, and so judges by the policy the chunk already has,
that policy was right and depends on no text (`VectorOK`).

For job results the invariant is `ResultsInv`. Two sessions write one JSON column from
copies of their own, so it says what a copy and the row may differ in: the worker's copy
has the plan of the row unless the worker was overrun, and its events unless they were
rewound (`WorkerOK`); an outcome in the copy of a request is that of the row, stage
included, since an outcome is final (`CopyOK`). No two requests name one job
(`QueuedOK`). The event list is in order, and has lost none while its last number fits
the cap and nothing was rewound (`EventsOK`); a stream has sent a prefix of it.

For the parse the invariant is `ParseInv`. The files are shared by all attempts, so it
says from which phase on each of them is this attempt's (`OwnOK`: the part when it is
received, the archive when it is unpacked, the directory when it is read), that the parse
in `attempt.job` was asked for by this attempt and of the file `FileToParse`, that
an attempt which has not submitted has none (`AskedOK`), and that the record "cleaned" is
written only with the cleaned file on disk (`ChosenOK`).

For the chunks the invariant is `SplitInv`. A step moves text, and the invariant says where
all text is: what is kept of the items taken so far (`Due`) is what `made`, the rest of
`blocks`, `current`, `pending` and `chunks` hold (`Held`), no token twice in one of them
or in two (`Apart`); contextual cuts may repeat and drop, and are held to `Held \subseteq Due`.
Which of these places are empty in which phase is `StageOK`, so at the end all is in
`chunks`. Each step is shown to move text without loss (`Moves`); that leaves the operators,
whose lemmas say it of any text. The pieces of `CutAt` lie side by side and each has one of
the positions (`SpanProperties`, from the order of positions in `NthProperties`), so a cut
neither loses nor doubles; a bijection of blocks keeps their tokens (`OrderTokens`); what
waited is passed on once (`PassedOn`). Warnings go the same way, by inclusion. That units
read together is `UnitOK`: the text of a unit is from an unbroken run of blocks with one
anchor in all of them (`Filed`), what waits is from such a run with none, up to the block
before (`Waits`), and a cut leaves one anchor in a block at most.

For contracts the argument is about operators more than about steps. `SuggestedRan` says
of whatever `suggest` returns (`Ran`): no absent anchor is verified and every regex is
safe, a verified status names a validated extractor that is safe to run, and that one was
found on this file, where candidates can be told apart; and where the page says "verified"
the anchors hold just this extractor and it names every identity field. `CompiledAgain`
shows that the compiler is idempotent on what a page may send, `CompiledCut` and
`CutIsStored` that chunks are cut by the validated extractor and that the document stores
the same. The execution takes the first best of the candidates, so a lemma was needed that
finitely many have one (`FirstBestExists`, from the library's well-founded order of finite
sets). The invariant `IInv` carries it through the system: the page holds an analysis
of the file it has selected only, and answers still in flight that count as current are of
that file (`PageInv`); the options of every job and of the chunks are compiled ones that
were executed (`OptionsOK`), and while nothing was overtaken the stored contract is that
of the running job, then of the chunks it has left (`DocumentInv`).

For graphs the invariant is `GraphInv`. Neo4j takes part in no transaction, so it relates
nodes to records at every step: nodes are on record or about to be recorded by whoever
wrote them (`RecordedOK`), a target marked as cleaned has none until a job writes anew or
it is revived (`CleanedOK`), what a deletion has still to erase is in its list
(`DeletingOK`), a rewriting writes the chunks the document has unless it was overtaken
(`RewritingOK`), and a succeeded record shows the current chunks, or nothing once a
deletion was begun (`CurrentOK`). One request holds the workflow lock, and a deletion has
no job beside it (`LocksOK`); a rewriting may have one, which is what `overtaken` is for.

For native storage the invariant is `StorageInv`: exactly the owner of the lock is inside
the context (`OwnerHolds`), and how far it has come with writing or restoring the
environment (`Progress`): keys no longer to be written hold its settings, keys no longer
to be restored hold what the process started with. Two environments equal on every key
are equal (`SameEnvironment`), so the last key finishes the argument. That the proxy is
in place exactly inside the body, and that under it neither rows nor cached texts from
outside the selection get through, gives the last two theorems.

For queries the invariant is `QueryInv`. What the lanes hold is of the selected documents
(`ScopeOK`), with one exception, what Neo4j names before it is hydrated; a metadata lane
that failed is among the critical failures (`FailureOK`); a run is complete before it is
committed (`EndedOK`), which is what lets the recovery store the snapshot. The selection
is one step, so direct evidence is a lemma on its operators (`SelectionKeepsDirect`): a cut
to a positive limit is not empty, and the order of the context agrees with that of the
fusion on what is matched directly.

Assumptions on constants are those named in the modules: attempts, lease and number of
jobs positive, `NoWorker` not a worker, stages among those of the code; queries are not
insertions or deletions, `NoTask` is no task, there is a key, settings and selections are
functions of the tasks, there is an archive a parse may produce; the inputs of
`ReferenceQuality` are contracts and sequences of chunks, with Arabic among the scripts;
the documents of `DocumentChunks` are sequences of items and its contracts records of the
switches it reads, a part has room for a token and some chunk names the content list;
model answers and profiles are metadata records (`Metadata`, whose minimum of units is
positive, `services/domain_metadata_ai_suggester.py:343`) and `None` is no extractor;
chunks and rows of a query are finitely many and disjoint.

Only model-checked: liveness (`EveryJobSettles`, `StreamsEnd`, `AttemptsEnd`,
`QueriesEnd`, `RequestEnds`), which is beyond the prover.

## Not modelled

- The branch of the lifecycle in which the runtime parses the document itself:
  `services/runtime_policy.py:68` admits only `mineru_strict`. Likewise
  `runtime_mode = fallback`, and the methods of the queue that only tests call
  (`enqueue_index_document`, `mark_succeeded`). `IndexStageScheduler` is imported by its
  own test only. The vector lane of queries has no repository in production, and
  `hard_context_tokens` is never set.
- Jobs that outlive their document, and what a stale session copy of a document does in
  `_ensure_queued_index_job`.
- Projection records that store no target of their own and whose profile has been
  removed: a deletion refuses them (`graph_projection_runner.py:177`).
- Lock-order cycles: `JobQueue` takes the locks of one step together, and PostgreSQL
  breaks a cycle by aborting one transaction, which is a crash of that operation here.
- Attempts that overlap on the directories of one document, see `SourceParse`.
- Chunking: tables, modal routing, sanitising, relationships and overlap; a content list
  that cannot be read (the splitter falls back to markdown); recovery over header gaps
  and `CanonicalAssemblyStrategy`, which nothing reaches. Quality: unit roles, modal
  validation and the scores of chunks.
- Contracts: page counts, anchor types and templates beyond their identity fields, the
  caps of eight contracts and four extractors, prompts and the sampling of pages; a client
  that forges the status of a validation.
- Queries: scores, the parsing of references and intents, grounding checks, and query
  configs that state their own readiness. Every registered profile supports every
  materialization hint, so the hint is not looked up.
- Runtime profiles, health and settings, experiments and evaluation, diagnostics and
  timelines, proof packets, and the pages of the frontend that only display: code without
  interleavings of its own. A failed health check is `ParseFails`, `Health` or `Blocked`.

Next would be: a `DocumentWorkflow` of upload, reindex and delete over the advisory lock
with stale session copies and files; and of contextual cuts which text they do keep.
