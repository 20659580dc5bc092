------------------------ MODULE IndexPipelineProofs ------------------------
(***************************************************************************)
(* Theorems about IndexPipeline, for any number of workers, documents,     *)
(* attempts, ticks and batches.  What asks ~late, which a behaviour keeps, *)
(* is about attempts that stop when their lease is lost.                   *)
(***************************************************************************)
EXTENDS IndexPipeline, FiniteSetTheorems, TLAPS

-----------------------------------------------------------------------------
(* The inductive invariant                                                 *)

\* An attempt is one that has been counted, and the newest if the row names
\* its worker.
GenOK ==
    \A w \in Workers : run[w].pc # "idle" =>
        /\ run[w].gen \in 1 .. row.attempts
        /\ row.worker = w => run[w].gen = row.attempts

\* No two workers make the same attempt.
DistinctOK ==
    \A v, w \in Workers :
        run[v].pc # "idle" /\ run[w].pc # "idle" /\ run[v].gen = run[w].gen => v = w

BeforeProjection == {"claimed", "started", "parsing", "split", "validated"}

\* An attempt creates its projection record once.
MadeOK ==
    /\ \A g \in Gens : made[g] > 0 => g \in 1 .. row.attempts
    /\ \A w \in Workers : run[w].pc \in BeforeProjection => made[run[w].gen] = 0

AfterGraph == {"closing", "resuming", "resumed", "finished"}

\* A record that was picked has an outcome to be written.
PickOK ==
    \A w \in Workers : run[w].pick # 0 =>
        /\ run[w].pc \in AfterGraph
        /\ run[w].result \in {"succeeded", "failed", "skipped"}

FinishedOK ==
    \A w \in Workers : run[w].pc = "finished" => row.status \in Terminal

\* The chunks were persisted by attempts made so far.
AgesOK == \A b \in chunks : b[1] <= row.attempts

RunRecord == [pc: Phases, gen: Gens, batch: 0 .. Batches, pick: Gens, result: GraphResult]

RunsOK ==
    /\ run \in [Workers -> RunRecord]
    /\ GenOK /\ DistinctOK /\ PickOK /\ FinishedOK

Attempts == TypeOK /\ RunsOK /\ MadeOK /\ AgesOK

\* A thread that has started runs in the process of a worker.
HostsOK == \A g \in Gens : thread[g].at # "none" => thread[g].host \in Workers

\* The stage of a row decides how its attempt is recovered, and is evidence of
\* searchable chunks.
RecoveryOK ==
    row.status \in Active =>
        /\ row.recovery = "resume_graph_projection" => row.stage \in ResumableStages
        /\ row.stage \in ResumableStages => Searchable
        /\ row.status = "ready" /\ row.stage \in ResumableStages =>
             row.recovery = "resume_graph_projection"

\* What follows is about the attempt of the worker that holds the lease.

BeforePublishing ==
    {"started", "parsing", "split", "validated", "projected", "persisting"}

AfterPublishing ==
    {"published", "persisted", "searchable", "enriching", "enriched", "graphing",
     "projecting", "closing", "degrading", "skipping"}

\* A full run was not asked to resume; until its chunks are published it has the
\* document RUNNING and a stage that calls for a full run again.
FreshOK(w) ==
    /\ run[w].pc \in BeforePublishing => doc = "running" /\ row.stage \notin ResumableStages
    /\ run[w].pc \in BeforePublishing \cup AfterPublishing
         => row.recovery # "resume_graph_projection"
    /\ run[w].pc = "claimed" /\ row.stage \in ResumableStages
         => row.recovery = "resume_graph_projection"

\* The chunks are those of the batches persisted so far.
BatchOK(w) ==
    /\ run[w].pc \in BeforeProjection \cup {"projected"} => run[w].batch = 0
    /\ run[w].pc \in BeforeProjection => run[w].pick = 0
    /\ run[w].pc = "persisting" /\ run[w].batch > 0
         => chunks = {run[w].gen} \X (1 .. run[w].batch)
    /\ run[w].pc \in AfterPublishing => chunks = Complete(run[w].gen)

WithProjection ==
    {"projected", "persisting", "published", "persisted", "searchable", "enriching",
     "enriched", "graphing", "projecting"}

\* After the cleanup no projection record is in force but the attempt's own.
PendingOK(w) ==
    /\ run[w].pc \in {"parsing", "split", "validated"}
         => \A g \in Gens : projections[g] \in {"absent", "stale"}
    /\ run[w].pc \in WithProjection
         => /\ projections[run[w].gen] = "pending"
            /\ \A g \in Gens \ {run[w].gen} : projections[g] \in {"absent", "stale"}

\* Between publication and enrichment: the record is there, and the thread
\* brings the runtime index to the attempt's entries.
EnrichingOK(w) ==
    /\ run[w].pc \in {"published", "persisted", "searchable", "enriching"}
         => records[run[w].gen] # "absent"
    /\ run[w].pc = "enriching"
         => /\ thread[run[w].gen].host = w
            /\ thread[run[w].gen].at \in {"clearing", "inserting", "done", "failed"}
            /\ thread[run[w].gen].at = "inserting" => runtime = {}
            /\ thread[run[w].gen].at = "done" => runtime = {run[w].gen}

IndexedOK(w) == records[run[w].gen] = "succeeded" /\ runtime = {run[w].gen}

\* After an enrichment that went well, the records and the index say so.
EnrichedOK(w) ==
    run[w].pc \in {"enriched", "graphing", "projecting"} => IndexedOK(w)

\* The result of the graph step, until the commit that records it.
OutcomeOK(w) ==
    /\ run[w].pc = "closing"
         => \/ run[w].result \in {"failed", "skipped"}
            \/ run[w].result = "succeeded" /\ run[w].pick = run[w].gen /\ IndexedOK(w)
    /\ run[w].pc \in {"closing", "resuming"} /\ run[w].result = "succeeded"
         => graph = chunks

\* A resumption works on the chunks of an earlier attempt.
ResumeOK(w) ==
    /\ run[w].pc \in {"claimed", "resuming", "resumed"}
         => \A b \in chunks : b[1] < run[w].gen
    /\ run[w].pc \in {"resuming", "resumed"}
         => row.recovery = "resume_graph_projection"

AttemptOK(w) ==
    /\ FreshOK(w)
    /\ BatchOK(w)
    /\ PendingOK(w)
    /\ EnrichingOK(w)
    /\ EnrichedOK(w)
    /\ OutcomeOK(w)
    /\ ResumeOK(w)

\* What the stores promise, whoever works on them.
StoresOK ==
    /\ RecoveryOK
    /\ ReadyRunIsFullyIndexed
    /\ ProjectionIsCurrent
    /\ SucceededDocumentIsSearchable

Timely == ~late => StoresOK /\ \A w \in Workers : Holds(w) => AttemptOK(w)

IInv == Attempts /\ HostsOK /\ Timely

-----------------------------------------------------------------------------
(* Constants and the row operators                                         *)

ConstantsOK ==
    /\ NoWorker \notin Workers
    /\ MaxAttempts \in Nat \ {0}
    /\ LeaseTicks \in Nat \ {0}
    /\ Batches \in Nat \ {0}

LEMMA ConstantsAssumed == ConstantsOK
BY WorkersAssumption, MaxAttemptsAssumption, LeaseTicksAssumption, BatchesAssumption
   DEF ConstantsOK

\* The values the row operators assign are in the columns' types.
LEMMA ColumnValues ==
    /\ {"ready", "running", "succeeded", "failed"} \subseteq StageStatus
    /\ NoWorker \in Workers \cup {NoWorker}
    /\ {Lapsed, NoLease, LeaseTicks} \subseteq NoLease .. LeaseTicks
    /\ {"none", "resume_graph_projection", "retry_full_index"} \subseteq RecoveryAction
    /\ {"none", "failed", "ready", "ready_with_warnings", "mineru_validated",
        "chunks_persisting", "chunks_persisted", "search_ready", "runtime_enriching",
        "graph_enriching"} \subseteq IndexStage
    /\ 0 \in 0 .. MaxAttempts
BY ConstantsAssumed
   DEF ConstantsOK, StageStatus, Lapsed, NoLease, RecoveryAction, IndexStage

LEMMA FreshRow ==
    ASSUME NEW d \in Docs
    PROVE  NewRow(d) \in JobRow
BY ColumnValues DEF NewRow, JobRow

\* Every row operator keeps a row a row, and none but a claim touches the count
\* of its attempts.
LEMMA QueueRows ==
    ASSUME NEW r \in JobRow
    PROVE  /\ Recovered(r) \in JobRow /\ Recovered(r).attempts = r.attempts
           /\ Cleared(r) \in JobRow /\ Cleared(r).attempts = r.attempts
           /\ Renewed(r) \in JobRow /\ Renewed(r).attempts = r.attempts
           /\ [r EXCEPT !.lease = Lapsed] \in JobRow
<1>1. Recovered(r) \in JobRow /\ Recovered(r).attempts = r.attempts
  BY ColumnValues DEF Recovered, JobRow
<1>2. Cleared(r) \in JobRow /\ Cleared(r).attempts = r.attempts
  BY ColumnValues DEF Cleared, JobRow
<1>3. Renewed(r) \in JobRow /\ Renewed(r).attempts = r.attempts
  BY ColumnValues DEF Renewed, JobRow
<1>4. [r EXCEPT !.lease = Lapsed] \in JobRow
  BY ColumnValues DEF JobRow
<1> QED BY <1>1, <1>2, <1>3, <1>4

LEMMA ClaimedRow ==
    ASSUME NEW r \in JobRow, NEW w \in Workers, Claimable(r)
    PROVE  /\ Claimed(r, w) \in JobRow
           /\ Claimed(r, w).attempts = r.attempts + 1
           /\ r.attempts + 1 \in Gens /\ r.attempts \in Nat
<1>1. r.attempts + 1 \in 0 .. MaxAttempts /\ r.attempts \in Nat
  BY ConstantsAssumed DEF Claimable, JobRow, ConstantsOK
<1> QED BY <1>1, ColumnValues DEF Claimed, JobRow, Gens

LEMMA RunnerRows ==
    ASSUME NEW r \in JobRow, NEW gen \in Gens, NEW status \in Terminal,
           NEW stage \in IndexStage
    PROVE  /\ MarkedFailed(r, gen) \in JobRow
           /\ MarkedFailed(r, gen).attempts = r.attempts
           /\ Finished(r, gen, status, stage) \in JobRow
           /\ Finished(r, gen, status, stage).attempts = r.attempts
           /\ [Renewed(r) EXCEPT !.stage = stage, !.by = gen] \in JobRow
<1>1. Renewed(r) \in JobRow /\ Renewed(r).attempts = r.attempts
  BY QueueRows
<1>2. status \in StageStatus
  BY DEF Terminal, StageStatus
<1> QED BY <1>1, <1>2, ColumnValues DEF MarkedFailed, Finished, JobRow, Gens

-----------------------------------------------------------------------------
(* Attempts: types, and how the attempts of a job are counted              *)

LEMMA IdleIsRun == Idle \in RunRecord
BY ConstantsAssumed DEF Idle, RunRecord, Phases, Gens, GraphResult, ConstantsOK

LEMMA NoThreadIsThread ==
    NoThread \in [at: ThreadPhases, host: Workers \cup {NoWorker}]
BY DEF NoThread, ThreadPhases

\* A worker's run, and what its counters are.
LEMMA RunFacts ==
    ASSUME Attempts, NEW w \in Workers
    PROVE  /\ row \in JobRow /\ row.attempts \in 0 .. MaxAttempts
           /\ run[w] \in RunRecord
           /\ run[w].gen \in Gens /\ run[w].pc \in Phases
BY DEF Attempts, RunsOK, TypeOK, JobRow, RunRecord

\* A step of one worker that goes on with its attempt.
LEMMA SameAttempt ==
    ASSUME Attempts, NEW w \in Workers, run[w].pc # "idle",
           NEW r \in RunRecord, run' = [run EXCEPT ![w] = r],
           r.gen = run[w].gen, r.pc # "idle",
           r.pc \in BeforeProjection => run[w].pc \in BeforeProjection,
           r.pick # 0 => /\ r.pc \in AfterGraph
                         /\ r.result \in {"succeeded", "failed", "skipped"},
           row'.attempts = row.attempts, row'.worker \in {row.worker, NoWorker},
           r.pc = "finished" => row'.status \in Terminal,
           row.status \in Terminal => row'.status \in Terminal
    PROVE  /\ RunsOK'
           /\ UNCHANGED made => MadeOK'
<1>1. run \in [Workers -> RunRecord] /\ run' \in [Workers -> RunRecord]
  BY DEF Attempts, RunsOK, TypeOK, RunRecord
<1>2. run'[w] = r /\ \A v \in Workers \ {w} : run'[v] = run[v]
  BY <1>1
<1>3. GenOK'
  BY <1>2, ConstantsAssumed DEF Attempts, RunsOK, GenOK, ConstantsOK
<1>4. DistinctOK'
  BY <1>2 DEF Attempts, RunsOK, DistinctOK
<1>5. FinishedOK'
  BY <1>2 DEF Attempts, RunsOK, FinishedOK
<1>6. PickOK'
  BY <1>2 DEF Attempts, RunsOK, PickOK
<1>7. UNCHANGED made => MadeOK'
  BY <1>2 DEF Attempts, RunsOK, MadeOK
<1> QED BY <1>1, <1>3, <1>4, <1>5, <1>6, <1>7 DEF RunsOK

\* A step that ends a worker's attempt.
LEMMA AttemptEnds ==
    ASSUME Attempts, NEW w \in Workers, run' = [run EXCEPT ![w] = Idle],
           row'.attempts = row.attempts, row'.worker \in {row.worker, NoWorker},
           row.status \in Terminal => row'.status \in Terminal,
           UNCHANGED made
    PROVE  /\ RunsOK' /\ MadeOK'
<1>1. run \in [Workers -> RunRecord] /\ run' \in [Workers -> RunRecord]
  BY IdleIsRun DEF Attempts, RunsOK, TypeOK, RunRecord
<1>2. run'[w].pc = "idle" /\ \A v \in Workers \ {w} : run'[v] = run[v]
  BY <1>1 DEF Idle
<1>3. GenOK'
  BY <1>2, ConstantsAssumed DEF Attempts, RunsOK, GenOK, ConstantsOK
<1>4. DistinctOK'
  BY <1>2 DEF Attempts, RunsOK, DistinctOK
<1>5. FinishedOK'
  BY <1>2 DEF Attempts, RunsOK, FinishedOK
<1>6. PickOK'
  BY <1>1, <1>2 DEF Attempts, RunsOK, PickOK, Idle
<1>7. MadeOK'
  BY <1>2 DEF Attempts, RunsOK, MadeOK, BeforeProjection
<1> QED BY <1>1, <1>3, <1>4, <1>5, <1>6, <1>7 DEF RunsOK

\* A step in which no worker moves.
LEMMA AttemptsStay ==
    ASSUME Attempts, UNCHANGED <<run, made>>,
           row'.attempts = row.attempts, row'.worker \in {row.worker, NoWorker},
           row.status \in Terminal => row'.status \in Terminal
    PROVE  /\ RunsOK' /\ MadeOK'
<1>1. run \in [Workers -> RunRecord]
  BY DEF Attempts, RunsOK, TypeOK, RunRecord
<1>2. GenOK'
  BY ConstantsAssumed DEF Attempts, RunsOK, GenOK, ConstantsOK
<1>3. DistinctOK' /\ PickOK' /\ FinishedOK' /\ MadeOK'
  BY DEF Attempts, RunsOK, DistinctOK, PickOK, FinishedOK, MadeOK
<1> QED BY <1>1, <1>2, <1>3 DEF RunsOK

\* The same for a step to a phase of the attempt, with the rest of the worker's
\* record kept.
LEMMA NextPhase ==
    ASSUME Attempts, NEW w \in Workers, run[w].pc # "idle",
           NEW pc \in Phases, pc # "idle", Goto(w, pc),
           pc \in BeforeProjection => run[w].pc \in BeforeProjection,
           run[w].pc \in AfterGraph => pc \in AfterGraph,
           row'.attempts = row.attempts, row'.worker \in {row.worker, NoWorker},
           pc = "finished" => row'.status \in Terminal,
           row.status \in Terminal => row'.status \in Terminal
    PROVE  /\ RunsOK'
           /\ UNCHANGED made => MadeOK'
<1> DEFINE r == [run[w] EXCEPT !.pc = pc]
<1>1. /\ r \in RunRecord /\ r.gen = run[w].gen /\ r.pc = pc
      /\ r.pick = run[w].pick /\ r.result = run[w].result
  BY RunFacts DEF RunRecord
<1>2. run' = [run EXCEPT ![w] = r]
  BY DEF Goto
<1> HIDE DEF r
<1>3. r.pick # 0 => r.pc \in AfterGraph /\ r.result \in {"succeeded", "failed", "skipped"}
  BY <1>1 DEF Attempts, RunsOK, PickOK
<1> QED BY <1>1, <1>2, <1>3, SameAttempt

\* Nothing is picked before the graph step.
LEMMA NotPicked ==
    ASSUME Attempts, NEW w \in Workers, run[w].pc \notin AfterGraph
    PROVE  run[w].pick = 0
BY DEF Attempts, RunsOK, PickOK

\* The chunks of a step that adds none.
LEMMA NoChunkAdded ==
    ASSUME Attempts, chunks' \subseteq chunks, row'.attempts = row.attempts
    PROVE  AgesOK'
BY DEF Attempts, RunsOK, AgesOK

\* What on_stage writes.
LEMMA ReportedRow ==
    ASSUME Attempts, NEW w \in Workers, NEW stage \in IndexStage
    PROVE  /\ Reported(w, stage) \in JobRow
           /\ Reported(w, stage).attempts = row.attempts
           /\ Reported(w, stage).worker = row.worker
           /\ Reported(w, stage).status = row.status
           /\ Reported(w, stage).recovery = row.recovery
           /\ Reported(w, stage).stage = stage
<1>1. row \in JobRow /\ run[w].gen \in Gens
  BY RunFacts
<1>2. Reported(w, stage) \in JobRow
  BY <1>1, RunnerRows DEF Reported, Terminal
<1> QED BY <1>1, <1>2 DEF Reported, Renewed, JobRow

LEMMA RenewedRow ==
    ASSUME Attempts
    PROVE  /\ Renewed(row) \in JobRow
           /\ Renewed(row).attempts = row.attempts
           /\ Renewed(row).worker = row.worker
           /\ Renewed(row).status = row.status
           /\ Renewed(row).recovery = row.recovery
           /\ Renewed(row).stage = row.stage
<1>1. row \in JobRow
  BY DEF Attempts, RunsOK, TypeOK
<1>2. Renewed(row) \in JobRow
  BY <1>1, QueueRows
<1> QED BY <1>1, <1>2 DEF Renewed, JobRow

LEMMA InitAttempts == Init => Attempts
<1> SUFFICES ASSUME Init PROVE Attempts
  OBVIOUS
<1>1. PICK d \in Docs, before \in BOOLEAN :
        /\ row = NewRow(d)
        /\ doc = "running"
        /\ chunks = IF before THEN Complete(0) ELSE {}
        /\ records = [g \in Gens |-> IF before /\ g = 0 THEN "succeeded" ELSE "absent"]
        /\ projections = [g \in Gens |-> IF before /\ g = 0 THEN "succeeded" ELSE "absent"]
        /\ made = [g \in Gens |-> 0]
        /\ runtime = IF before THEN {0} ELSE {}
        /\ graph = chunks
        /\ thread = [g \in Gens |-> NoThread]
        /\ run = [w \in Workers |-> Idle]
        /\ late \in BOOLEAN
  BY DEF Init
<1>2. 0 \in Gens
  BY ConstantsAssumed DEF Gens, ConstantsOK
<1>3. row \in JobRow /\ row.attempts = 0
  BY <1>1, FreshRow DEF NewRow
<1>4. chunks \subseteq Gens \X (1 .. Batches) /\ \A b \in chunks : b[1] = 0
  BY <1>1, <1>2 DEF Complete
<1>5. TypeOK
  <2>1. doc \in StageStatus
    BY <1>1, ColumnValues
  <2>2. records \in [Gens -> RecordStatus] /\ projections \in [Gens -> ProjectionStatus]
    BY <1>1 DEF RecordStatus, ProjectionStatus
  <2>3. made \in [Gens -> Gens] /\ runtime \subseteq Gens
    BY <1>1, <1>2
  <2>4. thread \in [Gens -> [at: ThreadPhases, host: Workers \cup {NoWorker}]]
    BY <1>1, NoThreadIsThread
  <2>5. run \in [Workers -> RunRecord]
    BY <1>1, IdleIsRun
  <2> QED BY <1>1, <1>3, <1>4, <2>1, <2>2, <2>3, <2>4, <2>5 DEF TypeOK, RunRecord
<1>6. \A w \in Workers : run[w].pc = "idle"
  BY <1>1 DEF Idle
<1>7. RunsOK
  <2>1. GenOK /\ DistinctOK /\ FinishedOK
    BY <1>6 DEF GenOK, DistinctOK, FinishedOK
  <2>2. PickOK
    BY <1>1 DEF PickOK, Idle
  <2> QED BY <1>5, <2>1, <2>2 DEF RunsOK, TypeOK, RunRecord
<1>8. MadeOK
  BY <1>1, <1>6 DEF MadeOK, BeforeProjection
<1>9. AgesOK
  BY <1>3, <1>4 DEF AgesOK
<1> QED BY <1>5, <1>7, <1>8, <1>9 DEF Attempts, RunsOK

\* The row as the poll sees it.
LEMMA SeenRow ==
    ASSUME Attempts
    PROVE  Seen \in JobRow /\ Seen.attempts = row.attempts
BY QueueRows DEF Attempts, RunsOK, TypeOK, Seen

LEMMA ClaimAttempts ==
    ASSUME Attempts, NEW w \in Workers, Claim(w), UNCHANGED late
    PROVE  Attempts'
<1> DEFINE r == [Idle EXCEPT !.pc = "claimed", !.gen = row.attempts + 1]
<1>1. Seen \in JobRow /\ Seen.attempts = row.attempts /\ Claimable(Seen)
  BY SeenRow DEF Claim
<1>2. /\ row' \in JobRow /\ row'.attempts = row.attempts + 1 /\ row'.worker = w
      /\ row.attempts + 1 \in Gens /\ row.attempts \in Nat
  <2>1. Claimed(Seen, w).worker = w
    BY <1>1 DEF Claimed, JobRow
  <2> QED BY <1>1, <2>1, ClaimedRow DEF Claim
<1>3. r \in RunRecord /\ r.pc = "claimed" /\ r.gen = row.attempts + 1
  BY <1>2, IdleIsRun DEF RunRecord, Phases, Idle
<1>4. run' = [run EXCEPT ![w] = r] /\ run[w].pc = "idle"
  BY DEF Claim
<1> HIDE DEF r
<1>5. run' \in [Workers -> RunRecord] /\ run'[w] = r /\ \A v \in Workers \ {w} : run'[v] = run[v]
  BY <1>3, <1>4 DEF Attempts, RunsOK, TypeOK, RunRecord
<1>6. UNCHANGED <<doc, stores, thread>>
  BY DEF Claim
<1>7. TypeOK'
  BY <1>2, <1>5, <1>6 DEF Attempts, RunsOK, TypeOK, stores, RunRecord
<1>8. GenOK'
  BY <1>2, <1>3, <1>5 DEF Attempts, RunsOK, GenOK
<1>9. DistinctOK'
  BY <1>2, <1>3, <1>5 DEF Attempts, RunsOK, GenOK, DistinctOK
<1>10. MadeOK'
  <2>1. made[row.attempts + 1] \in Gens /\ ~(made[row.attempts + 1] > 0)
    BY <1>2 DEF Attempts, RunsOK, TypeOK, MadeOK
  <2>2. made'[row'.attempts] = 0
    BY <1>2, <1>6, <2>1, ConstantsAssumed DEF Gens, ConstantsOK, stores
  <2> QED BY <1>2, <1>3, <1>5, <1>6, <2>2 DEF Attempts, RunsOK, MadeOK, stores
<1>11. FinishedOK'
  <2>1. row.status \notin Terminal
    BY <1>1 DEF Seen, Recoverable, Claimable, Terminal
  <2> QED BY <1>3, <1>5, <2>1 DEF Attempts, RunsOK, FinishedOK
<1>12. PickOK'
  <2>1. r.pick = 0
    BY DEF r, Idle
  <2> QED BY <1>5, <2>1 DEF Attempts, RunsOK, PickOK
<1>13. AgesOK'
  <2>1. \A b \in chunks : b[1] \in Int /\ b[1] <= row.attempts
    BY ConstantsAssumed DEF Attempts, RunsOK, TypeOK, AgesOK, Gens, ConstantsOK
  <2> QED BY <1>2, <1>6, <2>1 DEF AgesOK, stores
<1> QED BY <1>5, <1>7, <1>8, <1>9, <1>10, <1>11, <1>12, <1>13 DEF Attempts, RunsOK

\* Recovery, a lapse, and the end of an attempt by a lost lease or a crash.
LEMMA QueueAttempts ==
    ASSUME Attempts, UNCHANGED late,
           Recover \/ Expire \/ \E w \in Workers : LeaseLost(w) \/ Crash(w)
    PROVE  Attempts'
<1> USE DEF Attempts, RunsOK, TypeOK, RunRecord, stores
<1>1. CASE Recover
  <2>1. row' \in JobRow /\ row'.attempts = row.attempts
        /\ row'.worker = NoWorker /\ row.status = "running"
    <3>1. Recovered(row).worker = NoWorker
      BY DEF Recovered, JobRow
    <3> QED BY <1>1, <3>1, QueueRows DEF Recover, Recoverable
  <2>2. doc' \in StageStatus
    BY <1>1, ColumnValues DEF Recover
  <2>3. UNCHANGED <<run, made>> /\ row.status \notin Terminal
    BY <1>1, <2>1 DEF Recover, Terminal
  <2>4. RunsOK' /\ MadeOK'
    BY <2>1, <2>3, AttemptsStay
  <2>5. AgesOK'
    BY <1>1, <2>1, NoChunkAdded DEF Recover
  <2> QED BY <1>1, <2>1, <2>2, <2>4, <2>5 DEF Recover
<1>2. CASE Expire
  <2>1. row' \in JobRow /\ row'.attempts = row.attempts
        /\ row'.worker = row.worker /\ row.status = "running"
    <3>1. /\ [row EXCEPT !.lease = Lapsed].attempts = row.attempts
          /\ [row EXCEPT !.lease = Lapsed].worker = row.worker
      BY DEF JobRow
    <3> QED BY <1>2, <3>1, QueueRows DEF Expire
  <2>2. UNCHANGED <<run, made>> /\ row.status \notin Terminal
    BY <1>2, <2>1 DEF Expire, Terminal
  <2>3. RunsOK' /\ MadeOK'
    BY <2>1, <2>2, AttemptsStay
  <2>4. AgesOK'
    BY <1>2, <2>1, NoChunkAdded DEF Expire
  <2> QED BY <1>2, <2>1, <2>3, <2>4 DEF Expire
<1>3. ASSUME NEW w \in Workers, LeaseLost(w)
      PROVE  Attempts'
  <2>1. run' = [run EXCEPT ![w] = Idle] /\ UNCHANGED <<row, doc, stores, thread>>
    BY <1>3 DEF LeaseLost
  <2>2. RunsOK' /\ MadeOK'
    BY <2>1, AttemptEnds
  <2>3. AgesOK'
    BY <2>1, NoChunkAdded
  <2> QED BY <2>1, <2>2, <2>3
<1>4. ASSUME NEW w \in Workers, Crash(w)
      PROVE  Attempts'
  <2>1. run' = [run EXCEPT ![w] = Idle] /\ UNCHANGED <<row, doc, stores>>
    BY <1>4 DEF Crash
  <2>2. RunsOK' /\ MadeOK'
    BY <2>1, AttemptEnds
  <2>3. AgesOK'
    BY <2>1, NoChunkAdded
  <2>4. thread' \in [Gens -> [at: ThreadPhases, host: Workers \cup {NoWorker}]]
    BY <1>4, NoThreadIsThread DEF Crash
  <2> QED BY <2>1, <2>2, <2>3, <2>4
<1> QED BY <1>1, <1>2, <1>3, <1>4

\* The steps up to the projection record.
LEMMA ParsingAttempts ==
    ASSUME Attempts, UNCHANGED late, NEW w \in Workers,
           Start(w) \/ CleanUp(w) \/ Parse(w) \/ ParseFails(w) \/ SplitFails(w)
    PROVE  Attempts'
<1> USE DEF Attempts, RunsOK, TypeOK, RunRecord, stores
<1>1. {"started", "parsing", "split", "failing"} \subseteq Phases
  BY DEF Phases
<1>2. CASE Start(w)
  <2>1. /\ run[w].pc = "claimed" /\ Goto(w, "started") /\ row' = Renewed(row)
        /\ UNCHANGED <<stores, thread>>
    BY <1>2 DEF Start, Fenced
  <2>2. row' \in JobRow /\ row'.attempts = row.attempts
        /\ row'.worker = row.worker /\ row'.status = row.status
    BY <2>1, RenewedRow
  <2>3. RunsOK' /\ MadeOK'
    BY <1>1, <2>1, <2>2, NextPhase DEF BeforeProjection, AfterGraph
  <2>4. AgesOK'
    BY <2>1, <2>2, NoChunkAdded
  <2>5. doc' \in StageStatus
    BY <1>2, ColumnValues DEF Start
  <2> QED BY <2>1, <2>2, <2>3, <2>4, <2>5
<1>3. CASE CleanUp(w)
  <2>1. /\ run[w].pc = "started" /\ Goto(w, "parsing")
        /\ UNCHANGED <<row, doc, made, runtime, graph, thread>>
    BY <1>3 DEF CleanUp, Unfenced
  <2>2. RunsOK' /\ MadeOK'
    BY <1>1, <2>1, NextPhase DEF BeforeProjection, AfterGraph
  <2>3. /\ chunks' \subseteq chunks
        /\ records' \in [Gens -> RecordStatus]
        /\ projections' \in [Gens -> ProjectionStatus]
    BY <1>3 DEF CleanUp, CleanArtifacts, CleanProjection, RecordStatus, ProjectionStatus
  <2>4. AgesOK'
    BY <2>1, <2>3, NoChunkAdded
  <2> QED BY <2>1, <2>2, <2>3, <2>4
<1>4. CASE Parse(w)
  <2>1. run[w].pc = "parsing" /\ Goto(w, "split") /\ UNCHANGED <<row, doc, stores, thread>>
    BY <1>4 DEF Parse, Unfenced
  <2>2. RunsOK' /\ MadeOK'
    BY <1>1, <2>1, NextPhase DEF BeforeProjection, AfterGraph
  <2>3. AgesOK'
    BY <2>1, NoChunkAdded
  <2> QED BY <2>1, <2>2, <2>3
<1>5. CASE ParseFails(w) \/ SplitFails(w)
  <2>1. /\ run[w].pc \in {"started", "parsing"} /\ Goto(w, "failing")
        /\ runtime' \in {{}, runtime}
        /\ UNCHANGED <<row, doc, chunks, records, projections, made, graph, thread>>
    BY <1>5 DEF ParseFails, SplitFails, Unfenced, CleanRuntime
  <2>2. RunsOK' /\ MadeOK'
    BY <1>1, <2>1, NextPhase DEF BeforeProjection, AfterGraph
  <2>3. AgesOK'
    BY <2>1, NoChunkAdded
  <2> QED BY <2>1, <2>2, <2>3
<1> QED BY <1>2, <1>3, <1>4, <1>5

\* The position of a new projection record in the order of their creation: no
\* more records were created than there are attempts before this one.
LEMMA RoomForRecord ==
    ASSUME Attempts, NEW w \in Workers, run[w].pc = "validated"
    PROVE  1 + Cardinality({g \in Gens : made[g] > 0}) \in 1 .. MaxAttempts
<1> DEFINE created == {g \in Gens : made[g] > 0}
           others  == (1 .. MaxAttempts) \ {run[w].gen}
<1>1. run[w].gen \in 1 .. MaxAttempts /\ ~(made[run[w].gen] > 0)
  <2>1. run[w].gen \in 1 .. row.attempts /\ made[run[w].gen] = 0
    BY DEF Attempts, RunsOK, GenOK, MadeOK, BeforeProjection
  <2> QED BY <2>1, RunFacts, ConstantsAssumed DEF ConstantsOK
<1>2. created \subseteq others
  <2>1. SUFFICES ASSUME NEW g \in Gens, made[g] > 0
                 PROVE  g \in 1 .. MaxAttempts /\ g # run[w].gen
    OBVIOUS
  <2>2. g \in 1 .. row.attempts /\ row.attempts \in 0 .. MaxAttempts
    BY <2>1, RunFacts DEF Attempts, RunsOK, MadeOK
  <2> QED BY <1>1, <2>1, <2>2, ConstantsAssumed DEF ConstantsOK
<1>3. IsFiniteSet(1 .. MaxAttempts) /\ Cardinality(1 .. MaxAttempts) = MaxAttempts
  BY FS_Interval, ConstantsAssumed DEF ConstantsOK
<1>4. IsFiniteSet(others) /\ Cardinality(others) = MaxAttempts - 1
  BY <1>1, <1>3, FS_RemoveElement
<1> HIDE DEF created, others
<1>5. Cardinality(created) \in Nat /\ Cardinality(created) <= MaxAttempts - 1
  BY <1>2, <1>4, FS_Subset, FS_CardinalityType
<1> QED BY <1>5, ConstantsAssumed DEF created, ConstantsOK

LEMMA CreateProjectionAttempts ==
    ASSUME Attempts, UNCHANGED late, NEW w \in Workers, CreateProjection(w)
    PROVE  Attempts'
<1> DEFINE place == 1 + Cardinality({g \in Gens : made[g] > 0})
<1>1. /\ run[w].pc = "validated" /\ Goto(w, "projected")
      /\ projections' = [projections EXCEPT ![run[w].gen] = "pending"]
      /\ made' = [made EXCEPT ![run[w].gen] = place]
      /\ UNCHANGED <<row, doc, chunks, records, runtime, graph, thread>>
  BY DEF CreateProjection, Unfenced
<1>2. place \in Gens
  BY <1>1, RoomForRecord, ConstantsAssumed DEF Gens, ConstantsOK
<1> HIDE DEF place
<1>3. /\ RunsOK'
      /\ run'[w].pc = "projected" /\ \A v \in Workers \ {w} : run'[v] = run[v]
  <2>1. "projected" \in Phases
    BY DEF Phases
  <2>2. RunsOK'
    BY <1>1, <2>1, NextPhase DEF BeforeProjection, AfterGraph
  <2> QED BY <1>1, <2>2 DEF Attempts, RunsOK, TypeOK, Goto
<1>4. TypeOK'
  BY <1>1, <1>2, <1>3 DEF Attempts, RunsOK, TypeOK, RunRecord, ProjectionStatus
<1>5. MadeOK'
  <2>1. \A g \in Gens : made'[g] > 0 => g \in 1 .. row'.attempts
    BY <1>1 DEF Attempts, RunsOK, TypeOK, MadeOK, GenOK
  <2>2. ASSUME NEW v \in Workers, run'[v].pc \in BeforeProjection
        PROVE  made'[run'[v].gen] = 0
    <3>1. v # w /\ run[v].pc \in BeforeProjection /\ run'[v].gen = run[v].gen
      BY <1>3, <2>2 DEF BeforeProjection, AfterGraph
    <3>2. run[v].gen # run[w].gen
      BY <1>1, <3>1 DEF Attempts, RunsOK, DistinctOK, BeforeProjection
    <3> QED BY <1>1, <3>1, <3>2 DEF Attempts, RunsOK, TypeOK, MadeOK
  <2> QED BY <2>1, <2>2 DEF MadeOK
<1>6. AgesOK'
  BY <1>1, NoChunkAdded
<1> QED BY <1>3, <1>4, <1>5, <1>6 DEF Attempts, RunsOK

\* The five stages on_stage reports between phases.
LEMMA StageReports ==
    ASSUME NEW w \in Workers, ReportStage(w)
    PROVE  /\ Holds(w) /\ UNCHANGED <<doc, stores, thread>>
           /\ \/ /\ run[w].pc = "split" /\ Goto(w, "validated")
                 /\ row' = Reported(w, "mineru_validated")
              \/ /\ run[w].pc = "projected" /\ Goto(w, "persisting")
                 /\ row' = Reported(w, "chunks_persisting")
              \/ /\ run[w].pc = "published" /\ Goto(w, "persisted")
                 /\ row' = Reported(w, "chunks_persisted")
              \/ /\ run[w].pc = "persisted" /\ Goto(w, "searchable")
                 /\ row' = Reported(w, "search_ready")
              \/ /\ run[w].pc = "enriched" /\ Goto(w, "graphing")
                 /\ row' = Reported(w, "graph_enriching")
<1>1. DOMAIN StageAfter = {"split", "projected", "published", "persisted", "enriched"}
  BY DEF StageAfter
<1>2. /\ StageAfter["split"] = <<"mineru_validated", "validated">>
      /\ StageAfter["projected"] = <<"chunks_persisting", "persisting">>
      /\ StageAfter["published"] = <<"chunks_persisted", "persisted">>
      /\ StageAfter["persisted"] = <<"search_ready", "searchable">>
      /\ StageAfter["enriched"] = <<"graph_enriching", "graphing">>
  BY DEF StageAfter
<1>3. PICK pc \in DOMAIN StageAfter :
        /\ Fenced(w, pc)
        /\ row' = Reported(w, StageAfter[pc][1])
        /\ Goto(w, StageAfter[pc][2])
        /\ UNCHANGED <<doc, stores, thread>>
  BY DEF ReportStage
<1>4. run[w].pc = pc /\ Holds(w)
  BY <1>3 DEF Fenced
<1> QED BY <1>1, <1>2, <1>3, <1>4

LEMMA ReportAttempts ==
    ASSUME Attempts, UNCHANGED late, NEW w \in Workers,
           ReportStage(w) \/ StartEnrichment(w) \/ NothingApproved(w) \/ RenewForGraph(w)
    PROVE  Attempts'
<1> USE DEF Attempts, RunsOK, TypeOK, RunRecord, stores
<1>1. /\ {"validated", "persisting", "persisted", "searchable", "graphing", "enriching",
          "degrading", "projecting"} \subseteq Phases
      /\ {"mineru_validated", "chunks_persisting", "chunks_persisted", "search_ready",
          "runtime_enriching", "graph_enriching"} \subseteq IndexStage
  BY DEF Phases, IndexStage
<1>2. PICK from \in Phases, to \in Phases :
        /\ run[w].pc = from /\ Goto(w, to) /\ UNCHANGED <<doc, stores>>
        /\ from # "idle" /\ to \notin {"idle", "finished"}
        /\ to \in BeforeProjection => from \in BeforeProjection
        /\ from \notin AfterGraph
        /\ row' = Renewed(row) \/ \E stage \in IndexStage : row' = Reported(w, stage)
  <2>1. {"split", "projected", "published", "persisted", "enriched", "searchable", "graphing"}
          \subseteq Phases
    BY DEF Phases
  <2>2. CASE ReportStage(w)
    BY <1>1, <2>1, <2>2, StageReports DEF BeforeProjection, AfterGraph
  <2>3. CASE StartEnrichment(w) \/ NothingApproved(w)
    BY <1>1, <2>1, <2>3
       DEF StartEnrichment, NothingApproved, Fenced, BeforeProjection, AfterGraph
  <2>4. CASE RenewForGraph(w)
    BY <1>1, <2>1, <2>4 DEF RenewForGraph, Fenced, BeforeProjection, AfterGraph
  <2> QED BY <2>2, <2>3, <2>4
<1>3. /\ row' \in JobRow /\ row'.attempts = row.attempts
      /\ row'.worker = row.worker /\ row'.status = row.status
  BY <1>2, ReportedRow, RenewedRow
<1>4. RunsOK' /\ MadeOK'
  BY <1>2, <1>3, NextPhase
<1>5. AgesOK'
  BY <1>2, <1>3, NoChunkAdded
<1>6. thread' \in [Gens -> [at: ThreadPhases, host: Workers \cup {NoWorker}]]
  <2>1. CASE StartEnrichment(w)
    BY <2>1 DEF StartEnrichment, ThreadPhases
  <2>2. CASE ~StartEnrichment(w)
    BY <2>2, StageReports DEF NothingApproved, RenewForGraph
  <2> QED BY <2>1, <2>2
<1> QED BY <1>2, <1>3, <1>4, <1>5, <1>6

LEMMA PersistBatchAttempts ==
    ASSUME Attempts, UNCHANGED late, NEW w \in Workers, PersistBatch(w)
    PROVE  Attempts'
<1> DEFINE r     == [run[w] EXCEPT !.batch = run[w].batch + 1]
           batch == <<run[w].gen, run[w].batch + 1>>
<1>1. /\ run[w].pc = "persisting" /\ Holds(w) /\ run[w].batch < Batches
      /\ row' = Reported(w, "chunks_persisting")
      /\ chunks' = IF run[w].batch = 0 THEN {batch} ELSE chunks \cup {batch}
      /\ run' = [run EXCEPT ![w] = r]
      /\ UNCHANGED <<doc, records, projections, made, runtime, graph, thread>>
  BY DEF PersistBatch, Fenced
<1>2. /\ row' \in JobRow /\ row'.attempts = row.attempts
      /\ row'.worker = row.worker /\ row'.status = row.status
  <2>1. "chunks_persisting" \in IndexStage
    BY DEF IndexStage
  <2> QED BY <1>1, <2>1, ReportedRow
<1>3. run[w].gen = row.attempts /\ run[w].gen \in Gens /\ run[w].batch + 1 \in 1 .. Batches
  <2>1. run[w].batch + 1 \in 1 .. Batches
    BY <1>1, RunFacts, ConstantsAssumed DEF RunRecord, ConstantsOK
  <2> QED BY <1>1, <2>1, RunFacts DEF Attempts, RunsOK, GenOK, Holds, HoldsLease
<1>4. r \in RunRecord /\ r.gen = run[w].gen /\ r.pc = "persisting" /\ r.pick = 0
  BY <1>1, <1>3, RunFacts, NotPicked DEF RunRecord, AfterGraph
<1>5. AgesOK'
  <2>1. batch[1] = row.attempts /\ row.attempts \in Nat
    BY <1>3, RunFacts
  <2> QED BY <1>1, <1>2, <2>1 DEF Attempts, RunsOK, AgesOK
<1>6. chunks' \subseteq Gens \X (1 .. Batches)
  BY <1>1, <1>3 DEF Attempts, RunsOK, TypeOK
<1> HIDE DEF r, batch
<1>7. RunsOK' /\ MadeOK'
  BY <1>1, <1>2, <1>4, SameAttempt DEF BeforeProjection, AfterGraph
<1> QED BY <1>1, <1>2, <1>5, <1>6, <1>7 DEF Attempts, RunsOK, TypeOK, RunRecord

\* A skip ends in one of two ways.
LEMMA SkipOutcomes ==
    ASSUME NEW w \in Workers, SkipAfterPersistFailed(w) \/ SkipDegraded(w)
    PROVE  /\ run[w].pc \in {"unwinding", "skipping"} /\ (late \/ Holds(w))
           /\ \/ /\ projections' = [projections EXCEPT ![run[w].gen] = "skipped"]
                 /\ run[w].pc = "skipping"
                 /\ run' = [run EXCEPT ![w] = [run[w] EXCEPT !.pc = "closing",
                                                             !.result = "skipped"]]
              \/ /\ projections' = [projections EXCEPT ![run[w].gen] = "skipped"]
                 /\ run[w].pc = "unwinding"
                 /\ run' = [run EXCEPT ![w] = [run[w] EXCEPT !.pc = "failing",
                                                             !.result = "none"]]
              \/ Goto(w, "failing") /\ UNCHANGED projections
           /\ UNCHANGED <<row, doc, chunks, records, made, runtime, graph, thread>>
BY DEF SkipAfterPersistFailed, SkipDegraded, SkipProjection, Unfenced

\* The steps that change neither the row nor the chunks.
LEMMA StoreAttempts ==
    ASSUME Attempts, UNCHANGED late, NEW w \in Workers,
           \/ PublishChunks(w) \/ PersistFails(w) \/ SkipAfterPersistFailed(w)
           \/ Enriched(w) \/ EnrichmentFailed(w) \/ Degrade(w) \/ SkipDegraded(w)
    PROVE  Attempts'
<1> USE DEF Attempts, RunsOK, TypeOK, RunRecord, stores
<1>1. /\ {"published", "unwinding", "failing", "enriched", "degrading", "skipping",
          "closing"} \subseteq Phases
      /\ {"none", "skipped"} \subseteq GraphResult
  BY DEF Phases, GraphResult
<1>2. UNCHANGED <<row, chunks, made>> /\ AgesOK'
  <2>1. UNCHANGED <<row, chunks, made>>
    BY SkipOutcomes DEF PublishChunks, PersistFails, Enriched, EnrichmentFailed, Degrade
  <2> QED BY <2>1, NoChunkAdded
<1>3. RunsOK' /\ MadeOK'
  <2>1. ASSUME NEW pc \in {"published", "unwinding", "enriched", "degrading", "skipping",
                           "failing"},
               run[w].pc \notin AfterGraph \cup {"idle"}, Goto(w, pc)
        PROVE  RunsOK' /\ MadeOK'
    BY <1>1, <1>2, <2>1, NextPhase DEF BeforeProjection, AfterGraph
  <2>2. CASE PublishChunks(w) \/ PersistFails(w)
    BY <2>1, <2>2 DEF PublishChunks, PersistFails, Unfenced, AfterGraph
  <2>3. CASE Enriched(w) \/ EnrichmentFailed(w) \/ Degrade(w)
    BY <2>1, <2>3 DEF Enriched, EnrichmentFailed, Degrade, Unfenced, AfterGraph
  <2>4. CASE SkipAfterPersistFailed(w) \/ SkipDegraded(w)
    <3>1. ASSUME NEW r \in RunRecord, run[w].pc # "idle", run' = [run EXCEPT ![w] = r],
                 r.gen = run[w].gen, r.pc \in {"closing", "failing"}, r.pick = 0
          PROVE  RunsOK' /\ MadeOK'
      BY <1>2, <3>1, SameAttempt DEF BeforeProjection, AfterGraph
    <3>2. /\ [run[w] EXCEPT !.pc = "closing", !.result = "skipped"] \in RunRecord
          /\ [run[w] EXCEPT !.pc = "failing", !.result = "none"] \in RunRecord
          /\ run[w].pick = 0
      BY <1>1, <2>4, RunFacts, NotPicked, SkipOutcomes DEF AfterGraph
    <3>3. CASE Goto(w, "failing")
      BY <2>1, <2>4, <3>3, SkipOutcomes DEF AfterGraph
    <3>4. CASE run' = [run EXCEPT ![w] = [run[w] EXCEPT !.pc = "closing",
                                                        !.result = "skipped"]]
      BY <2>4, <3>1, <3>2, <3>4, SkipOutcomes
    <3>5. CASE run' = [run EXCEPT ![w] = [run[w] EXCEPT !.pc = "failing",
                                                        !.result = "none"]]
      BY <2>4, <3>1, <3>2, <3>5, SkipOutcomes
    <3> QED BY <2>4, <3>3, <3>4, <3>5, SkipOutcomes
  <2> QED BY <2>2, <2>3, <2>4
<1>4. doc' \in StageStatus
  BY SkipOutcomes, ColumnValues DEF PublishChunks, PersistFails, Enriched, EnrichmentFailed, Degrade
<1>5. records' \in [Gens -> RecordStatus]
  BY SkipOutcomes
     DEF PublishChunks, PersistFails, Enriched, EnrichmentFailed, Degrade, RecordStatus
<1>6. projections' \in [Gens -> ProjectionStatus]
  BY SkipOutcomes
     DEF PublishChunks, PersistFails, Enriched, EnrichmentFailed, Degrade, ProjectionStatus
<1>7. runtime' \subseteq Gens /\ graph' = graph
  BY SkipOutcomes
     DEF PublishChunks, PersistFails, Enriched, EnrichmentFailed, Degrade, CleanRuntime
<1>8. thread' \in [Gens -> [at: ThreadPhases, host: Workers \cup {NoWorker}]]
  BY SkipOutcomes, NoThreadIsThread
     DEF PublishChunks, PersistFails, Enriched, EnrichmentFailed, Degrade
<1> QED BY <1>2, <1>3, <1>4, <1>5, <1>6, <1>7, <1>8

\* What a worker may do to the runtime index through its thread.
LEMMA ThreadAttempts ==
    ASSUME Attempts, UNCHANGED late, NEW g \in Gens, Enrichment(g)
    PROVE  Attempts'
<1>1. UNCHANGED <<row, doc, chunks, records, projections, made, graph, run>>
  BY DEF Enrichment, ThreadClears, ThreadInserts, ThreadFails
<1>2. runtime' \subseteq Gens
  BY DEF Attempts, TypeOK, Enrichment, ThreadClears, ThreadInserts, ThreadFails
<1>3. thread' \in [Gens -> [at: ThreadPhases, host: Workers \cup {NoWorker}]]
  <2>1. thread \in [Gens -> [at: ThreadPhases, host: Workers \cup {NoWorker}]]
    BY DEF Attempts, TypeOK
  <2>2. \E at \in ThreadPhases : thread' = [thread EXCEPT ![g].at = at]
    BY DEF Enrichment, ThreadClears, ThreadInserts, ThreadFails, ThreadTo, ThreadPhases
  <2> QED BY <2>1, <2>2
<1>4. RunsOK' /\ MadeOK'
  BY <1>1, AttemptsStay
<1>5. AgesOK'
  BY <1>1, NoChunkAdded
<1> QED BY <1>1, <1>2, <1>3, <1>4, <1>5 DEF Attempts, TypeOK

\* The worker's record after either way of materialize_pending.
Unpicked(w, next) == [run[w] EXCEPT !.pc = next, !.result = "not_run"]
Picked(w, next, g, result) ==
    [run[w] EXCEPT !.pc = next, !.result = result, !.pick = g]

LEMMA MaterializeOutcomes ==
    ASSUME NEW w \in Workers, NEW next, Materialize(w, next)
    PROVE  /\ \/ /\ Pending = {} /\ UNCHANGED graph
                 /\ run' = [run EXCEPT ![w] = Unpicked(w, next)]
              \/ \E g \in Pending, result \in {"succeeded", "failed", "skipped"} :
                   /\ run' = [run EXCEPT ![w] = Picked(w, next, g, result)]
                   /\ graph' = IF result = "succeeded" THEN chunks ELSE graph
           /\ UNCHANGED <<row, doc, chunks, records, projections, made, runtime, thread>>
<1>1. CASE Pending = {} /\ UNCHANGED graph
           /\ run' = [run EXCEPT ![w].pc = next, ![w].result = "not_run"]
  <2>1. run' = [run EXCEPT ![w] = Unpicked(w, next)]
    BY <1>1 DEF Unpicked
  <2> QED BY <1>1, <2>1 DEF Materialize
<1>2. ASSUME NEW g \in Pending, NEW result \in {"succeeded", "failed", "skipped"},
             run' = [run EXCEPT ![w].pc = next, ![w].result = result, ![w].pick = g],
             graph' = IF result = "succeeded" THEN chunks ELSE graph
      PROVE  run' = [run EXCEPT ![w] = Picked(w, next, g, result)]
  BY <1>2 DEF Picked
<1> QED BY <1>1, <1>2 DEF Materialize

LEMMA MaterializedRun ==
    ASSUME Attempts, NEW w \in Workers, NEW next \in {"closing", "resuming"}
    PROVE  /\ Unpicked(w, next) \in RunRecord
           /\ Unpicked(w, next).gen = run[w].gen
           /\ Unpicked(w, next).pc = next
           /\ Unpicked(w, next).result = "not_run"
           /\ \A g \in Pending, result \in {"succeeded", "failed", "skipped"} :
                /\ Picked(w, next, g, result) \in RunRecord
                /\ Picked(w, next, g, result).gen = run[w].gen
                /\ Picked(w, next, g, result).pc = next
                /\ Picked(w, next, g, result).pick = g
                /\ Picked(w, next, g, result).result = result
<1>1. next \in Phases /\ {"not_run", "succeeded", "failed", "skipped"} \subseteq GraphResult
  BY DEF Phases, GraphResult
<1>2. run[w] \in RunRecord /\ Pending \subseteq Gens
  BY RunFacts DEF Pending
<1> QED BY <1>1, <1>2 DEF Unpicked, Picked, RunRecord

LEMMA MaterializeAttempts ==
    ASSUME Attempts, UNCHANGED late, NEW w \in Workers, ProjectGraph(w) \/ ResumeGraph(w)
    PROVE  Attempts'
<1>1. PICK next \in {"closing", "resuming"} :
        Materialize(w, next) /\ run[w].pc \notin AfterGraph \cup {"idle"}
  BY DEF ProjectGraph, ResumeGraph, Unfenced, AfterGraph
<1>2. UNCHANGED <<row, doc, chunks, records, projections, made, runtime, thread>>
  BY <1>1, MaterializeOutcomes
<1>3. graph' \subseteq Gens \X (1 .. Batches)
  BY <1>1, MaterializeOutcomes DEF Attempts, RunsOK, TypeOK
<1>4. PICK r \in RunRecord :
        /\ run' = [run EXCEPT ![w] = r] /\ r.gen = run[w].gen /\ r.pc = next
        /\ r.pick = 0 \/ r.result \in {"succeeded", "failed", "skipped"}
  <2>1. run[w].pick = 0
    BY <1>1, NotPicked DEF Unpicked, AfterGraph
  <2>2. Unpicked(w, next).pick = 0
    BY <2>1, RunFacts DEF Unpicked, RunRecord
  <2> QED BY <1>1, <2>2, MaterializeOutcomes, MaterializedRun
<1>5. RunsOK' /\ MadeOK'
  BY <1>1, <1>2, <1>4, SameAttempt DEF BeforeProjection, AfterGraph
<1>6. AgesOK'
  BY <1>2, NoChunkAdded
<1> QED BY <1>2, <1>3, <1>5, <1>6 DEF Attempts, RunsOK, TypeOK, RunRecord

\* The outcome a commit writes is a status of a projection record.
LEMMA WrittenType ==
    ASSUME Attempts, NEW w \in Workers
    PROVE  GraphWritten(w) \in [Gens -> ProjectionStatus]
BY DEF Attempts, TypeOK, RunsOK, PickOK, GraphWritten, ProjectionStatus

\* The commits that close the job, or that a resumption makes.
LEMMA OutcomeAttempts ==
    ASSUME Attempts, UNCHANGED late, NEW w \in Workers,
           FinishRun(w) \/ FailRun(w) \/ ResumeRenew(w)
    PROVE  Attempts'
<1>1. /\ {"finished", "resumed"} \subseteq Phases
      /\ {"ready", "ready_with_warnings", "failed"} \subseteq IndexStage
      /\ {"succeeded", "failed"} \subseteq Terminal
  BY DEF Phases, IndexStage, Terminal
<1>2. row \in JobRow /\ run[w].gen \in Gens
  BY RunFacts
<1>3. /\ run[w].pc \in {"closing", "failing", "resuming"}
      /\ \/ Goto(w, "finished") /\ row'.status \in Terminal
         \/ Goto(w, "resumed") /\ row' = Renewed(row)
      /\ row' \in JobRow /\ row'.attempts = row.attempts /\ row'.worker = row.worker
      /\ row.status = "running"
  <2>1. ASSUME NEW stage \in IndexStage, NEW status \in {"succeeded", "failed"},
               row' = Finished(row, run[w].gen, status, stage)
        PROVE  /\ row'.status \in Terminal /\ row' \in JobRow
               /\ row'.attempts = row.attempts /\ row'.worker = row.worker
    <3>1. row' \in JobRow /\ row'.attempts = row.attempts
      BY <1>1, <1>2, <2>1, RunnerRows
    <3>2. row'.status = status /\ row'.worker = row.worker
      BY <1>2, <2>1 DEF Finished, Renewed, JobRow
    <3> QED BY <1>1, <3>1, <3>2
  <2>2. CASE FinishRun(w)
    BY <1>1, <2>1, <2>2 DEF FinishRun, FinalStages, Fenced, Holds, HoldsLease
  <2>3. CASE FailRun(w)
    BY <1>1, <2>1, <2>3 DEF FailRun, Fenced, Holds, HoldsLease
  <2>4. CASE ResumeRenew(w)
    BY <2>4, RenewedRow DEF ResumeRenew, Fenced, Holds, HoldsLease
  <2> QED BY <2>2, <2>3, <2>4
<1>4. /\ chunks' \subseteq chunks /\ UNCHANGED <<made, runtime, graph, thread>>
      /\ records' \in [Gens -> RecordStatus]
  BY DEF FinishRun, FailRun, ResumeRenew, CleanArtifacts, Attempts, TypeOK, RecordStatus
<1>5. projections' \in [Gens -> ProjectionStatus]
  <2>1. CASE FailRun(w)
    BY <2>1
       DEF FailRun, CleanArtifacts, CleanProjection, Attempts, TypeOK, ProjectionStatus
  <2>2. CASE ~FailRun(w)
    BY <2>2, WrittenType DEF FinishRun, ResumeRenew
  <2> QED BY <2>1, <2>2
<1>6. doc' \in StageStatus
  BY ColumnValues DEF FinishRun, FailRun, ResumeRenew, Attempts, TypeOK
<1>7. RunsOK' /\ MadeOK'
  <2>1. row.status \notin Terminal
    BY <1>3 DEF Terminal
  <2>2. CASE Goto(w, "finished")
    BY <1>1, <1>3, <1>4, <2>1, <2>2, NextPhase DEF BeforeProjection, AfterGraph
  <2>3. CASE Goto(w, "resumed")
    BY <1>1, <1>3, <1>4, <2>1, <2>3, NextPhase DEF BeforeProjection, AfterGraph
  <2> QED BY <1>3, <2>2, <2>3
<1>8. AgesOK'
  BY <1>3, <1>4, NoChunkAdded
<1> QED BY <1>3, <1>4, <1>5, <1>6, <1>7, <1>8 DEF Attempts, TypeOK, RunsOK, RunRecord

\* The steps after which the worker is idle again.
LEMMA ReleaseAttempts ==
    ASSUME Attempts, UNCHANGED late, NEW w \in Workers,
           ClearTerminalLease(w) \/ ResumeFinish(w) \/ MarkAttemptFailed(w)
    PROVE  Attempts'
<1>1. run' = [run EXCEPT ![w] = Idle] /\ UNCHANGED <<stores, thread>>
  BY DEF ClearTerminalLease, ResumeFinish, MarkAttemptFailed
<1>2. row \in JobRow /\ run[w].gen \in Gens
  BY RunFacts
<1>3. /\ row' \in JobRow /\ row'.attempts = row.attempts /\ row'.worker = NoWorker
      /\ row'.status = row.status \/ row'.status \in Terminal
  <2>1. ASSUME NEW r \in JobRow
        PROVE  Cleared(r).worker = NoWorker /\ Cleared(r).status = r.status
    BY DEF Cleared, JobRow
  <2>2. CASE ClearTerminalLease(w)
    BY <1>2, <2>1, <2>2, QueueRows DEF ClearTerminalLease
  <2>3. CASE ResumeFinish(w)
    <3> DEFINE stage == IF GraphWarning(w) THEN "ready_with_warnings" ELSE "ready"
               f     == Finished(row, run[w].gen, "succeeded", stage)
    <3>1. stage \in IndexStage /\ "succeeded" \in Terminal
      BY DEF IndexStage, Terminal
    <3>2. f \in JobRow /\ f.attempts = row.attempts
      BY <1>2, <3>1, RunnerRows
    <3>3. f.status = "succeeded"
      BY <1>2 DEF Finished, Renewed, JobRow
    <3>4. row' = Cleared(f)
      BY <2>3 DEF ResumeFinish
    <3> HIDE DEF f
    <3> QED BY <2>1, <3>1, <3>2, <3>3, <3>4, QueueRows
  <2>4. CASE MarkAttemptFailed(w)
    <3>1. /\ MarkedFailed(row, run[w].gen) \in JobRow
          /\ MarkedFailed(row, run[w].gen).attempts = row.attempts
      BY <1>1, <1>2, RunnerRows DEF Terminal, IndexStage
    <3>2. /\ MarkedFailed(row, run[w].gen).worker = NoWorker
          /\ MarkedFailed(row, run[w].gen).status \in Terminal
      BY <1>2 DEF MarkedFailed, JobRow, Terminal
    <3> QED BY <2>4, <3>1, <3>2 DEF MarkAttemptFailed
  <2> QED BY <2>2, <2>3, <2>4
<1>4. doc' \in StageStatus
  BY ColumnValues DEF ClearTerminalLease, ResumeFinish, MarkAttemptFailed, Attempts, TypeOK
<1>5. RunsOK' /\ MadeOK'
  BY <1>1, <1>3, AttemptEnds DEF stores
<1>6. AgesOK'
  BY <1>1, <1>3, NoChunkAdded DEF stores
<1> QED BY <1>1, <1>3, <1>4, <1>5, <1>6 DEF Attempts, TypeOK, RunsOK, RunRecord, stores

LEMMA NextAttempts == Attempts /\ [Next]_vars => Attempts'
<1> SUFFICES ASSUME Attempts, [Next]_vars PROVE Attempts'
  OBVIOUS
<1>1. CASE UNCHANGED vars
  BY <1>1 DEF vars, stores, Attempts, TypeOK, RunsOK, GenOK, DistinctOK, PickOK,
              FinishedOK, MadeOK, AgesOK
<1>2. CASE Settled
  BY <1>1, <1>2 DEF Settled
<1>3. ASSUME UNCHANGED late, NEW w \in Workers, Claim(w) \/ LeaseLost(w) \/ Crash(w)
      PROVE  Attempts'
  BY <1>3, ClaimAttempts, QueueAttempts
<1>4. ASSUME UNCHANGED late, NEW w \in Workers, FullRun(w)
      PROVE  Attempts'
  BY <1>4, ParsingAttempts, CreateProjectionAttempts, ReportAttempts, PersistBatchAttempts,
     StoreAttempts, MaterializeAttempts, OutcomeAttempts, ReleaseAttempts DEF FullRun
<1>5. ASSUME UNCHANGED late, NEW w \in Workers, Resumption(w) \/ MarkAttemptFailed(w)
      PROVE  Attempts'
  BY <1>5, MaterializeAttempts, OutcomeAttempts, ReleaseAttempts DEF Resumption
<1>6. ASSUME UNCHANGED late, NEW g \in Gens, Enrichment(g)
      PROVE  Attempts'
  BY <1>6, ThreadAttempts
<1>7. CASE UNCHANGED late /\ (Recover \/ Expire)
  BY <1>7, QueueAttempts
<1> QED BY <1>1, <1>2, <1>3, <1>4, <1>5, <1>6, <1>7 DEF Next

LEMMA AttemptsInvariant == Spec => []Attempts
<1>1. Init => Attempts
  BY InitAttempts
<1>2. Attempts /\ [Next]_vars => Attempts'
  BY NextAttempts
<1> QED BY <1>1, <1>2, PTL DEF Spec

\* Type correctness of the pipeline: every row, record and store keeps its
\* columns' types, the creation order included, which is bounded because an
\* attempt of run_index_job creates its projection record once.
THEOREM TypeInvariant == Spec => []TypeOK
<1>1. Attempts => TypeOK
  BY DEF Attempts
<1> QED BY <1>1, AttemptsInvariant, PTL

\* ChunkPersistenceService.persist commits a batch only under the lease it has
\* just verified: the chunks that a step adds are those of the newest attempt,
\* also when an older one goes on after losing its lease.
THEOREM LatestAttemptPersists == Spec => OnlyLatestAttemptPersists
<1>1. Attempts /\ [Next]_vars => [\A b \in chunks' \ chunks : b[1] = row.attempts]_vars
  <2> SUFFICES ASSUME Attempts, Next PROVE \A b \in chunks' \ chunks : b[1] = row.attempts
    OBVIOUS
  <2>1. ASSUME NEW w \in Workers, PersistBatch(w)
        PROVE  \A b \in chunks' \ chunks : b[1] = row.attempts
    <3>1. run[w].gen = row.attempts
      BY <2>1 DEF PersistBatch, Fenced, Holds, HoldsLease, Attempts, RunsOK, GenOK
    <3>2. \A b \in chunks' \ chunks : b = <<run[w].gen, run[w].batch + 1>>
      BY <2>1 DEF PersistBatch
    <3> QED BY <3>1, <3>2
  <2>2. CASE \A w \in Workers : ~PersistBatch(w)
    <3>1. chunks' \subseteq chunks
      <4>1. CASE \E w \in Workers : Claim(w) \/ LeaseLost(w) \/ Crash(w)
        BY <4>1 DEF Claim, LeaseLost, Crash, stores
      <4>2. CASE Recover \/ Expire \/ Settled
        BY <4>2 DEF Recover, Expire, Settled, vars, stores
      <4>3. CASE \E g \in Gens : Enrichment(g)
        BY <4>3 DEF Enrichment, ThreadClears, ThreadInserts, ThreadFails
      <4>4. ASSUME NEW w \in Workers, Resumption(w) \/ MarkAttemptFailed(w)
            PROVE  chunks' \subseteq chunks
        BY <4>4 DEF Resumption, MarkAttemptFailed, ResumeGraph, Materialize, ResumeRenew,
                    ResumeFinish, stores
      <4>5. ASSUME NEW w \in Workers, FullRun(w)
            PROVE  chunks' \subseteq chunks
        <5>1. CASE Start(w) \/ CleanUp(w) \/ Parse(w) \/ ParseFails(w) \/ SplitFails(w)
                   \/ ReportStage(w) \/ CreateProjection(w) \/ PublishChunks(w)
          BY <5>1 DEF Start, CleanUp, CleanArtifacts, Parse, ParseFails, SplitFails,
                      ReportStage, CreateProjection, PublishChunks, stores
        <5>2. CASE PersistFails(w) \/ SkipAfterPersistFailed(w) \/ StartEnrichment(w)
                   \/ NothingApproved(w) \/ Enriched(w) \/ EnrichmentFailed(w)
          BY <5>2 DEF PersistFails, SkipAfterPersistFailed, SkipProjection, StartEnrichment,
                      NothingApproved, Enriched, EnrichmentFailed, stores
        <5>3. CASE Degrade(w) \/ SkipDegraded(w) \/ RenewForGraph(w) \/ ProjectGraph(w)
                   \/ FinishRun(w) \/ FailRun(w) \/ ClearTerminalLease(w)
          BY <5>3 DEF Degrade, SkipDegraded, SkipProjection, RenewForGraph, ProjectGraph,
                      Materialize, FinishRun, FailRun, CleanArtifacts, ClearTerminalLease,
                      stores
        <5> QED BY <2>2, <4>5, <5>1, <5>2, <5>3 DEF FullRun
      <4> QED BY <4>1, <4>2, <4>3, <4>4, <4>5 DEF Next
    <3> QED BY <3>1
  <2> QED BY <2>1, <2>2
<1> QED BY <1>1, AttemptsInvariant, PTL DEF Spec, OnlyLatestAttemptPersists

LEMMA NextHosts == Attempts /\ HostsOK /\ [Next]_vars => HostsOK'
<1> SUFFICES ASSUME Attempts, HostsOK, [Next]_vars PROVE HostsOK'
  OBVIOUS
<1>1. thread \in [Gens -> [at: ThreadPhases, host: Workers \cup {NoWorker}]]
  BY DEF Attempts, TypeOK
<1>2. CASE UNCHANGED thread
  BY <1>2 DEF HostsOK
<1>3. ASSUME NEW g \in Gens, Enrichment(g)
      PROVE  HostsOK'
  <2>1. thread[g].at # "none" /\ \E at \in ThreadPhases : ThreadTo(g, at)
    BY <1>3 DEF Enrichment, ThreadClears, ThreadInserts, ThreadFails, ThreadRuns, ThreadPhases
  <2> QED BY <1>1, <2>1 DEF HostsOK, ThreadTo
<1>4. ASSUME NEW w \in Workers,
             Crash(w) \/ StartEnrichment(w) \/ Enriched(w) \/ EnrichmentFailed(w)
      PROVE  HostsOK'
  BY <1>1, <1>4
     DEF Crash, StartEnrichment, Enriched, EnrichmentFailed, HostsOK, NoThread
<1>5. CASE Recover \/ Expire \/ Settled
  BY <1>2, <1>5 DEF Recover, Expire, Settled, vars
<1>6. ASSUME NEW w \in Workers,
             Claim(w) \/ LeaseLost(w) \/ Resumption(w) \/ MarkAttemptFailed(w)
      PROVE  UNCHANGED thread
  BY <1>6 DEF Claim, LeaseLost, Resumption, MarkAttemptFailed, ResumeGraph, Materialize,
              ResumeRenew, ResumeFinish
<1>7. ASSUME NEW w \in Workers, FullRun(w)
      PROVE  HostsOK'
  <2>1. CASE Start(w) \/ CleanUp(w) \/ Parse(w) \/ ParseFails(w) \/ SplitFails(w)
             \/ ReportStage(w) \/ CreateProjection(w) \/ PersistBatch(w)
             \/ PublishChunks(w) \/ PersistFails(w) \/ SkipAfterPersistFailed(w)
    BY <1>2, <2>1
       DEF Start, CleanUp, Parse, ParseFails, SplitFails, ReportStage, CreateProjection,
           PersistBatch, PublishChunks, PersistFails, SkipAfterPersistFailed, SkipProjection
  <2>2. CASE NothingApproved(w) \/ Degrade(w) \/ SkipDegraded(w) \/ RenewForGraph(w)
             \/ ProjectGraph(w) \/ FinishRun(w) \/ FailRun(w) \/ ClearTerminalLease(w)
    BY <1>2, <2>2
       DEF NothingApproved, Degrade, SkipDegraded, SkipProjection, RenewForGraph,
           ProjectGraph, Materialize, FinishRun, FailRun, ClearTerminalLease
  <2> QED BY <1>4, <1>7, <2>1, <2>2 DEF FullRun
<1> QED BY <1>2, <1>3, <1>4, <1>5, <1>6, <1>7 DEF Next, vars

-----------------------------------------------------------------------------
(* Timely: what holds of an attempt while it has the lease, and of the     *)
(* stores, when attempts stop with their lease                             *)

\* What the worker that holds the lease knows.
LEMMA HolderFacts ==
    ASSUME IInv, ~late, NEW w \in Workers, Holds(w)
    PROVE  /\ Attempts /\ StoresOK /\ AttemptOK(w)
           /\ row \in JobRow /\ row.status = "running" /\ row.worker = w
           /\ run[w] \in RunRecord /\ run[w].gen \in Gens /\ run[w].pc # "finished"
           /\ run[w].pc # "idle" => run[w].gen = row.attempts /\ run[w].gen # 0
<1>1. Attempts /\ StoresOK /\ AttemptOK(w)
  BY DEF IInv, Timely
<1>2. row.status = "running" /\ row.worker = w
  BY DEF Holds, HoldsLease
<1>3. row \in JobRow /\ run[w] \in RunRecord /\ run[w].gen \in Gens
  BY <1>1, RunFacts
<1>4. run[w].pc # "finished"
  BY <1>1, <1>2 DEF Attempts, RunsOK, FinishedOK, Terminal
<1>5. run[w].pc # "idle" => run[w].gen = row.attempts /\ run[w].gen # 0
  BY <1>1, <1>2 DEF Attempts, RunsOK, GenOK
<1> QED BY <1>1, <1>2, <1>3, <1>4, <1>5

\* A step of the holder, after which it holds the lease or nobody does.
LEMMA HolderStep ==
    ASSUME NEW w \in Workers, Holds(w), row'.worker \in {row.worker, NoWorker},
           ~late => StoresOK' /\ (Holds(w)' => AttemptOK(w)'), UNCHANGED late
    PROVE  Timely'
<1>1. ASSUME NEW v \in Workers, Holds(v)'
      PROVE  v = w
  BY <1>1, ConstantsAssumed DEF Holds, HoldsLease, ConstantsOK
<1> QED BY <1>1 DEF Timely

\* A step after which nobody holds the lease.
LEMMA NobodyHolds ==
    ASSUME row'.status # "running" \/ row'.worker = NoWorker \/ ~(row'.lease > 0),
           ~late => StoresOK', UNCHANGED late
    PROVE  Timely'
<1>1. \A v \in Workers : ~Holds(v)'
  BY ConstantsAssumed DEF Holds, HoldsLease, ConstantsOK
<1> QED BY <1>1 DEF Timely

\* The stores' promises while a job runs are those that do not speak of READY.
LEMMA RunningStores ==
    ASSUME row'.status # "succeeded", RecoveryOK', ProjectionIsCurrent',
           SucceededDocumentIsSearchable'
    PROVE  StoresOK'
BY DEF StoresOK, ReadyRunIsFullyIndexed

LEMMA AfterGoto ==
    ASSUME Attempts, NEW w \in Workers, NEW pc, Goto(w, pc)
    PROVE  /\ run'[w].pc = pc /\ run'[w].gen = run[w].gen /\ run'[w].batch = run[w].batch
           /\ run'[w].pick = run[w].pick /\ run'[w].result = run[w].result
           /\ \A v \in Workers \ {w} : run'[v] = run[v]
BY DEF Attempts, RunsOK, RunRecord, Goto

LEMMA StartTimely ==
    ASSUME IInv, UNCHANGED late, NEW w \in Workers, Start(w)
    PROVE  Timely'
<1>1. /\ run[w].pc = "claimed" /\ Holds(w) /\ row.recovery # "resume_graph_projection"
      /\ row' = Renewed(row) /\ doc' = "running" /\ Goto(w, "started")
      /\ UNCHANGED <<stores, thread>>
  BY DEF Start, Fenced
<1>2. /\ row'.worker = row.worker /\ row'.status = row.status
      /\ row'.recovery = row.recovery /\ row'.stage = row.stage
  BY <1>1, RenewedRow DEF IInv
<1> SUFFICES ASSUME ~late PROVE StoresOK' /\ AttemptOK(w)'
  BY <1>1, <1>2, HolderStep
<1>3. run'[w].pc = "started" /\ run'[w].batch = run[w].batch /\ run'[w].pick = run[w].pick
  BY <1>1, AfterGoto DEF IInv
<1>4. StoresOK'
  BY <1>1, <1>2, HolderFacts
     DEF StoresOK, RecoveryOK, ReadyRunIsFullyIndexed, ProjectionIsCurrent, Searchable,
         SucceededDocumentIsSearchable, Complete, stores
<1>5. AttemptOK(w)'
  BY <1>1, <1>2, <1>3, HolderFacts
     DEF AttemptOK, FreshOK, BatchOK, PendingOK, EnrichingOK, EnrichedOK, OutcomeOK,
         ResumeOK, BeforeProjection, BeforePublishing,
         AfterPublishing, WithProjection
<1> QED BY <1>4, <1>5

LEMMA ParsingTimely ==
    ASSUME IInv, UNCHANGED late, NEW w \in Workers,
           CleanUp(w) \/ Parse(w) \/ ParseFails(w) \/ SplitFails(w)
    PROVE  Timely'
<1>1. /\ run[w].pc \in {"started", "parsing"} /\ (late \/ Holds(w))
      /\ UNCHANGED <<row, doc, made, graph, thread>>
      /\ \/ /\ Goto(w, "parsing") /\ run[w].pc = "started"
            /\ CleanArtifacts /\ UNCHANGED runtime
         \/ /\ Goto(w, "split") /\ run[w].pc = "parsing"
            /\ UNCHANGED <<chunks, records, projections, runtime>>
         \/ Goto(w, "failing") /\ UNCHANGED <<chunks, records, projections>>
  BY DEF CleanUp, Parse, ParseFails, SplitFails, Unfenced, stores
<1> SUFFICES ASSUME ~late PROVE StoresOK' /\ AttemptOK(w)'
  BY <1>1, HolderStep DEF Timely
<1>2. Attempts /\ run'[w].batch = run[w].batch /\ run'[w].pick = run[w].pick
  BY <1>1, AfterGoto DEF IInv
<1>3. CASE CleanArtifacts /\ Goto(w, "parsing") /\ run[w].pc = "started" /\ UNCHANGED runtime
  <2>1. run'[w].pc = "parsing"
    BY <1>3, AfterGoto DEF IInv
  <2>2. row.stage \notin ResumableStages /\ doc = "running"
    BY <1>1, <1>3, HolderFacts DEF AttemptOK, FreshOK, BeforePublishing
  <2>3. \A g \in Gens : projections'[g] \in {"absent", "stale"}
    BY <1>2, <1>3 DEF CleanArtifacts, CleanProjection, Attempts, TypeOK, ProjectionStatus
  <2>4. StoresOK'
    <3>1. RecoveryOK'
      BY <1>1, <2>2, HolderFacts DEF StoresOK, RecoveryOK
    <3>2. ProjectionIsCurrent' /\ SucceededDocumentIsSearchable'
      BY <1>1, <2>2, <2>3 DEF ProjectionIsCurrent, SucceededDocumentIsSearchable
    <3> QED BY <1>1, <3>1, <3>2, HolderFacts, RunningStores
  <2>5. AttemptOK(w)'
    BY <1>1, <1>2, <2>1, <2>2, <2>3, <1>3, HolderFacts
       DEF AttemptOK, FreshOK, BatchOK, PendingOK, EnrichingOK, EnrichedOK, OutcomeOK,
           ResumeOK, BeforeProjection, BeforePublishing,
         AfterPublishing, WithProjection
  <2> QED BY <2>4, <2>5
<1>4. CASE UNCHANGED <<chunks, records, projections>>
  <2>1. StoresOK'
    BY <1>1, <1>4, HolderFacts
       DEF StoresOK, RecoveryOK, ReadyRunIsFullyIndexed, ProjectionIsCurrent, Searchable,
           SucceededDocumentIsSearchable, Complete
  <2>2. CASE Goto(w, "failing")
    <3>1. run'[w].pc = "failing"
      BY <2>2, AfterGoto DEF IInv
    <3> QED
      BY <2>1, <3>1
         DEF AttemptOK, FreshOK, BatchOK, PendingOK, EnrichingOK, EnrichedOK, OutcomeOK,
             ResumeOK, BeforeProjection, BeforePublishing,
         AfterPublishing, WithProjection
  <2>3. CASE Goto(w, "split") /\ run[w].pc = "parsing" /\ UNCHANGED runtime
    <3>1. run'[w].pc = "split"
      BY <2>3, AfterGoto DEF IInv
    <3>2. AttemptOK(w)'
      BY <1>1, <1>2, <1>4, <2>3, <3>1, HolderFacts
         DEF AttemptOK, FreshOK, BatchOK, PendingOK, EnrichingOK, EnrichedOK, OutcomeOK,
             ResumeOK, BeforeProjection, BeforePublishing,
         AfterPublishing, WithProjection
    <3> QED BY <2>1, <3>2
  <2>4. CASE CleanArtifacts /\ Goto(w, "parsing")
    BY <1>1, <1>3, <1>4, <2>1, <2>2, <2>3, <2>4
  <2> QED BY <1>1, <1>3, <2>2, <2>3
<1> QED BY <1>1, <1>3, <1>4

\* A stage is reported: the stores stay as they are, and the next phase asks of
\* them what this one did.
LEMMA ReportTimely ==
    ASSUME IInv, UNCHANGED late, NEW w \in Workers,
           ReportStage(w) \/ StartEnrichment(w) \/ NothingApproved(w) \/ RenewForGraph(w)
    PROVE  Timely'
<1>1. /\ Holds(w) /\ UNCHANGED <<doc, stores>>
      /\ row' = Renewed(row) \/ \E stage \in IndexStage : row' = Reported(w, stage)
  <2>1. /\ {"mineru_validated", "chunks_persisting", "chunks_persisted", "search_ready",
            "runtime_enriching", "graph_enriching"} \subseteq IndexStage
    BY DEF IndexStage
  <2> QED BY <2>1, StageReports DEF StartEnrichment, NothingApproved, RenewForGraph, Fenced
<1>2. /\ row'.worker = row.worker /\ row'.status = row.status
      /\ row'.recovery = row.recovery
  BY <1>1, ReportedRow, RenewedRow DEF IInv
<1> SUFFICES ASSUME ~late PROVE StoresOK' /\ AttemptOK(w)'
  BY <1>1, <1>2, HolderStep
<1>3. PICK pc \in Phases :
        /\ Goto(w, pc)
        /\ \/ /\ run[w].pc = "split" /\ pc = "validated"
              /\ row'.stage = "mineru_validated"
           \/ /\ run[w].pc = "projected" /\ pc = "persisting"
              /\ row'.stage = "chunks_persisting"
           \/ /\ run[w].pc = "published" /\ pc = "persisted"
              /\ row'.stage = "chunks_persisted"
           \/ /\ run[w].pc = "persisted" /\ pc = "searchable"
              /\ row'.stage = "search_ready"
           \/ /\ run[w].pc = "enriched" /\ pc = "graphing"
              /\ row'.stage = "graph_enriching"
           \/ /\ run[w].pc = "searchable" /\ pc = "enriching"
              /\ row'.stage = "runtime_enriching"
              /\ thread' = [thread EXCEPT ![run[w].gen] = [at |-> "clearing", host |-> w]]
           \/ /\ run[w].pc = "searchable" /\ pc = "degrading"
              /\ row'.stage = "runtime_enriching"
           \/ /\ run[w].pc = "graphing" /\ pc = "projecting"
              /\ row'.stage = row.stage
  <2>1. /\ {"validated", "persisting", "persisted", "searchable", "graphing", "enriching",
            "degrading", "projecting"} \subseteq Phases
        /\ {"mineru_validated", "chunks_persisting", "chunks_persisted", "search_ready",
            "runtime_enriching", "graph_enriching"} \subseteq IndexStage
    BY DEF Phases, IndexStage
  <2>2. ASSUME NEW stage \in IndexStage, row' = Reported(w, stage)
        PROVE  row'.stage = stage
    BY <2>2, ReportedRow DEF IInv
  <2>3. CASE ReportStage(w)
    BY <2>1, <2>2, <2>3, StageReports
  <2>4. CASE StartEnrichment(w)
    BY <2>1, <2>2, <2>4 DEF StartEnrichment, Fenced
  <2>5. CASE NothingApproved(w)
    BY <2>1, <2>2, <2>5 DEF NothingApproved, Fenced
  <2>6. CASE RenewForGraph(w)
    BY <2>1, <2>6, RenewedRow DEF RenewForGraph, Fenced, IInv
  <2> QED BY <2>3, <2>4, <2>5, <2>6
<1>4. /\ run'[w].pc = pc /\ run'[w].gen = run[w].gen /\ run'[w].batch = run[w].batch
      /\ run'[w].pick = run[w].pick /\ run'[w].result = run[w].result
  BY <1>3, AfterGoto DEF IInv
<1>5. StoresOK'
  <2>1. row'.stage \in ResumableStages => Searchable
    <3>1. row'.stage \in ResumableStages => row.stage \in ResumableStages
             \/ run[w].pc \in AfterPublishing
      BY <1>3 DEF ResumableStages, AfterPublishing
    <3>2. run[w].pc \in AfterPublishing => Searchable
      BY <1>1, HolderFacts DEF AttemptOK, BatchOK, Searchable
    <3> QED BY <1>1, <3>1, <3>2, HolderFacts DEF StoresOK, RecoveryOK, Active
  <2>2. row.recovery # "resume_graph_projection"
    BY <1>1, <1>3, HolderFacts DEF AttemptOK, FreshOK, BeforePublishing, AfterPublishing
  <2>3. RecoveryOK'
    BY <1>1, <1>2, <2>1, <2>2, HolderFacts DEF RecoveryOK, Searchable, Complete, stores
  <2>4. ProjectionIsCurrent' /\ SucceededDocumentIsSearchable'
    BY <1>1, HolderFacts
       DEF StoresOK, ProjectionIsCurrent, SucceededDocumentIsSearchable, Searchable,
           Complete, stores
  <2> QED BY <1>1, <1>2, <2>3, <2>4, HolderFacts, RunningStores
<1>6. FreshOK(w)'
  BY <1>1, <1>2, <1>3, <1>4, HolderFacts
     DEF AttemptOK, FreshOK, BeforePublishing, AfterPublishing, ResumableStages
<1>7. BatchOK(w)' /\ PendingOK(w)'
  BY <1>1, <1>3, <1>4, HolderFacts
     DEF AttemptOK, BatchOK, PendingOK, BeforeProjection, AfterPublishing, WithProjection,
         Complete, stores
<1>8. EnrichingOK(w)' /\ EnrichedOK(w)'
  <2>1. CASE pc = "enriching"
    BY <1>1, <1>3, <1>4, <2>1, HolderFacts
       DEF AttemptOK, EnrichingOK, EnrichedOK, Attempts, TypeOK, stores
  <2>2. CASE pc # "enriching"
    BY <1>1, <1>3, <1>4, <2>2, HolderFacts
       DEF AttemptOK, EnrichingOK, EnrichedOK, IndexedOK, stores
  <2> QED BY <2>1, <2>2
<1>9. OutcomeOK(w)' /\ ResumeOK(w)'
  BY <1>3, <1>4 DEF OutcomeOK, ResumeOK
<1> QED BY <1>5, <1>6, <1>7, <1>8, <1>9 DEF AttemptOK

LEMMA CreateProjectionTimely ==
    ASSUME IInv, UNCHANGED late, NEW w \in Workers, CreateProjection(w)
    PROVE  Timely'
<1>1. /\ run[w].pc = "validated" /\ (late \/ Holds(w)) /\ Goto(w, "projected")
      /\ projections' = [projections EXCEPT ![run[w].gen] = "pending"]
      /\ UNCHANGED <<row, doc, chunks, records, runtime, graph, thread>>
  BY DEF CreateProjection, Unfenced
<1> SUFFICES ASSUME ~late PROVE StoresOK' /\ AttemptOK(w)'
  BY <1>1, HolderStep DEF Timely
<1>2. /\ run'[w].pc = "projected" /\ run'[w].gen = run[w].gen
      /\ run'[w].batch = 0 /\ run[w].gen \in Gens
  BY <1>1, AfterGoto, HolderFacts DEF AttemptOK, BatchOK, BeforeProjection
<1>3. /\ projections'[run[w].gen] = "pending"
      /\ \A g \in Gens \ {run[w].gen} : projections'[g] \in {"absent", "stale"}
  BY <1>1, <1>2, HolderFacts DEF AttemptOK, PendingOK, Attempts, TypeOK
<1>4. StoresOK'
  <2>1. ProjectionIsCurrent'
    BY <1>3 DEF ProjectionIsCurrent
  <2>2. RecoveryOK' /\ SucceededDocumentIsSearchable'
    BY <1>1, HolderFacts
       DEF StoresOK, RecoveryOK, SucceededDocumentIsSearchable, Searchable, Complete
  <2> QED BY <1>1, <2>1, <2>2, HolderFacts, RunningStores
<1>5. FreshOK(w)'
  BY <1>1, <1>2, HolderFacts DEF AttemptOK, FreshOK, BeforePublishing, AfterPublishing
<1>6. BatchOK(w)' /\ PendingOK(w)'
  BY <1>2, <1>3
     DEF BatchOK, PendingOK, BeforeProjection, AfterPublishing, WithProjection
<1>7. EnrichingOK(w)' /\ EnrichedOK(w)' /\ OutcomeOK(w)' /\ ResumeOK(w)'
  BY <1>2 DEF EnrichingOK, EnrichedOK, OutcomeOK, ResumeOK
<1> QED BY <1>4, <1>5, <1>6, <1>7 DEF AttemptOK

LEMMA PersistBatchTimely ==
    ASSUME IInv, UNCHANGED late, NEW w \in Workers, PersistBatch(w)
    PROVE  Timely'
<1>1. /\ run[w].pc = "persisting" /\ Holds(w) /\ run[w].batch < Batches
      /\ row' = Reported(w, "chunks_persisting")
      /\ chunks' = IF run[w].batch = 0 THEN {<<run[w].gen, run[w].batch + 1>>}
                   ELSE chunks \cup {<<run[w].gen, run[w].batch + 1>>}
      /\ run' = [run EXCEPT ![w].batch = @ + 1]
      /\ UNCHANGED <<doc, records, projections, made, runtime, graph, thread>>
  BY DEF PersistBatch, Fenced
<1>2. /\ row'.worker = row.worker /\ row'.status = row.status
      /\ row'.recovery = row.recovery /\ row'.stage = "chunks_persisting"
  <2>1. "chunks_persisting" \in IndexStage
    BY DEF IndexStage
  <2> QED BY <1>1, <2>1, ReportedRow DEF IInv
<1> SUFFICES ASSUME ~late PROVE StoresOK' /\ AttemptOK(w)'
  BY <1>1, <1>2, HolderStep
<1>3. /\ run'[w].pc = "persisting" /\ run'[w].gen = run[w].gen
      /\ run'[w].batch = run[w].batch + 1 /\ run[w].batch \in 0 .. Batches
  BY <1>1, HolderFacts DEF RunRecord, Attempts, RunsOK
<1>4. /\ doc = "running" /\ row.recovery # "resume_graph_projection"
      /\ projections[run[w].gen] = "pending"
      /\ \A g \in Gens \ {run[w].gen} : projections[g] \in {"absent", "stale"}
  BY <1>1, HolderFacts
     DEF AttemptOK, FreshOK, PendingOK, BeforePublishing, WithProjection
<1>5. StoresOK'
  <2>1. ProjectionIsCurrent' /\ SucceededDocumentIsSearchable'
    BY <1>1, <1>4 DEF ProjectionIsCurrent, SucceededDocumentIsSearchable
  <2>2. RecoveryOK'
    BY <1>2, <1>4 DEF RecoveryOK, ResumableStages
  <2> QED BY <1>1, <1>2, <2>1, <2>2, HolderFacts, RunningStores
<1>6. FreshOK(w)'
  BY <1>1, <1>2, <1>3, <1>4 DEF FreshOK, ResumableStages
<1>7. BatchOK(w)'
  <2>1. chunks' = {run[w].gen} \X (1 .. run[w].batch + 1)
    <3>1. CASE run[w].batch = 0
      BY <1>1, <3>1
    <3>2. CASE run[w].batch > 0
      <4>1. chunks = {run[w].gen} \X (1 .. run[w].batch)
        BY <1>1, <3>2, HolderFacts DEF AttemptOK, BatchOK
      <4>2. 1 .. run[w].batch + 1 = (1 .. run[w].batch) \cup {run[w].batch + 1}
        BY <1>3, ConstantsAssumed DEF ConstantsOK
      <4>3. chunks' = chunks \cup {<<run[w].gen, run[w].batch + 1>>}
        BY <1>1, <3>2
      <4> QED BY <4>1, <4>2, <4>3
    <3> QED BY <1>3, <3>1, <3>2, ConstantsAssumed DEF ConstantsOK
  <2> QED BY <1>3, <2>1 DEF BatchOK, BeforeProjection, AfterPublishing
<1>8. PendingOK(w)'
  BY <1>1, <1>3, <1>4 DEF PendingOK, WithProjection
<1>9. EnrichingOK(w)' /\ EnrichedOK(w)' /\ OutcomeOK(w)' /\ ResumeOK(w)'
  BY <1>3 DEF EnrichingOK, EnrichedOK, OutcomeOK, ResumeOK
<1> QED BY <1>5, <1>6, <1>7, <1>8, <1>9 DEF AttemptOK

LEMMA PublishChunksTimely ==
    ASSUME IInv, UNCHANGED late, NEW w \in Workers, PublishChunks(w)
    PROVE  Timely'
<1>1. /\ run[w].pc = "persisting" /\ (late \/ Holds(w)) /\ run[w].batch = Batches
      /\ records' = [records EXCEPT ![run[w].gen] = "running"]
      /\ doc' = "succeeded" /\ Goto(w, "published")
      /\ UNCHANGED <<row, chunks, projections, made, runtime, graph, thread>>
  BY DEF PublishChunks, Unfenced
<1> SUFFICES ASSUME ~late PROVE StoresOK' /\ AttemptOK(w)'
  BY <1>1, HolderStep DEF Timely
<1>2. run'[w].pc = "published" /\ run'[w].gen = run[w].gen /\ run[w].gen \in Gens
  BY <1>1, AfterGoto, HolderFacts
<1>3. chunks = Complete(run[w].gen)
  <2>1. run[w].batch > 0
    BY <1>1, ConstantsAssumed DEF ConstantsOK
  <2> QED BY <1>1, <2>1, HolderFacts DEF AttemptOK, BatchOK, Complete
<1>4. StoresOK'
  <2>1. SucceededDocumentIsSearchable'
    BY <1>1, <1>2, <1>3 DEF SucceededDocumentIsSearchable, Searchable, Complete
  <2>2. RecoveryOK' /\ ProjectionIsCurrent'
    BY <1>1, HolderFacts DEF StoresOK, RecoveryOK, ProjectionIsCurrent, Searchable, Complete
  <2> QED BY <1>1, <2>1, <2>2, HolderFacts, RunningStores
<1>5. FreshOK(w)' /\ PendingOK(w)'
  BY <1>1, <1>2, HolderFacts
     DEF AttemptOK, FreshOK, PendingOK, BeforePublishing, AfterPublishing, WithProjection
<1>6. BatchOK(w)'
  BY <1>1, <1>2, <1>3 DEF BatchOK, BeforeProjection, AfterPublishing, Complete
<1>7. EnrichingOK(w)' /\ EnrichedOK(w)' /\ OutcomeOK(w)' /\ ResumeOK(w)'
  <2>1. records'[run[w].gen] = "running"
    BY <1>1, <1>2 DEF IInv, Attempts, TypeOK
  <2> QED BY <1>2, <2>1 DEF EnrichingOK, EnrichedOK, OutcomeOK, ResumeOK
<1> QED BY <1>4, <1>5, <1>6, <1>7 DEF AttemptOK

\* A step to a phase in which nothing is asked of the stores.
LEMMA UnwindingOK ==
    ASSUME NEW w \in Workers, run'[w].pc \in {"unwinding", "failing"}
    PROVE  AttemptOK(w)'
BY DEF AttemptOK, FreshOK, BatchOK, PendingOK, EnrichingOK, EnrichedOK, OutcomeOK, ResumeOK,
       BeforePublishing, BeforeProjection, AfterPublishing, WithProjection

LEMMA PersistFailsTimely ==
    ASSUME IInv, UNCHANGED late, NEW w \in Workers,
           PersistFails(w) \/ SkipAfterPersistFailed(w) \/ SkipDegraded(w)
    PROVE  Timely'
<1>1. /\ late \/ Holds(w)
      /\ UNCHANGED <<row, doc, chunks, records, made, graph, thread>>
  BY SkipOutcomes DEF PersistFails
<1> SUFFICES ASSUME ~late PROVE StoresOK' /\ AttemptOK(w)'
  BY <1>1, HolderStep DEF Timely
<1>2. \A g \in Gens : projections'[g] = "succeeded" => projections[g] = "succeeded"
  BY SkipOutcomes DEF PersistFails, IInv, Attempts, TypeOK
<1>3. StoresOK'
  <2>1. ProjectionIsCurrent'
    BY <1>1, <1>2, HolderFacts DEF StoresOK, ProjectionIsCurrent
  <2>2. RecoveryOK' /\ SucceededDocumentIsSearchable'
    BY <1>1, HolderFacts
       DEF StoresOK, RecoveryOK, SucceededDocumentIsSearchable, Searchable, Complete
  <2> QED BY <1>1, <2>1, <2>2, HolderFacts, RunningStores
<1>4. AttemptOK(w)'
  <2>1. CASE run'[w].pc \in {"unwinding", "failing"}
    BY <2>1, UnwindingOK
  <2>2. CASE SkipDegraded(w) /\ run'[w].pc \notin {"unwinding", "failing"}
    <3>1. /\ run[w].pc = "skipping"
          /\ run' = [run EXCEPT ![w] = [run[w] EXCEPT !.pc = "closing", !.result = "skipped"]]
      <4>1. run[w].pc = "skipping"
        BY <2>2 DEF SkipDegraded, SkipProjection, Unfenced
      <4>2. ~Goto(w, "failing")
        BY <2>2, AfterGoto DEF IInv
      <4> QED BY <2>2, <4>1, <4>2, SkipOutcomes
    <3>2. run'[w].pc = "closing" /\ run'[w].result = "skipped" /\ run'[w].gen = run[w].gen
      BY <3>1, HolderFacts, <1>1 DEF RunRecord, Attempts, RunsOK
    <3>3. chunks' = Complete(run'[w].gen)
      BY <1>1, <3>1, <3>2, HolderFacts DEF AttemptOK, BatchOK, AfterPublishing
    <3>4. FreshOK(w)'
      BY <1>1, <3>1, <3>2, HolderFacts
         DEF AttemptOK, FreshOK, BeforePublishing, AfterPublishing
    <3>5. BatchOK(w)' /\ PendingOK(w)'
      BY <3>2, <3>3
         DEF BatchOK, PendingOK, BeforeProjection, AfterPublishing, WithProjection, Complete
    <3>6. EnrichingOK(w)' /\ EnrichedOK(w)' /\ OutcomeOK(w)' /\ ResumeOK(w)'
      BY <3>2 DEF EnrichingOK, EnrichedOK, OutcomeOK, ResumeOK
    <3> QED BY <3>4, <3>5, <3>6 DEF AttemptOK
  <2>3. PersistFails(w) \/ SkipAfterPersistFailed(w) => run'[w].pc \in {"unwinding", "failing"}
    <3>1. PersistFails(w) => run'[w].pc = "unwinding"
      BY AfterGoto DEF PersistFails, IInv
    <3>2. SkipAfterPersistFailed(w) => run'[w].pc = "failing"
      BY AfterGoto DEF SkipAfterPersistFailed, SkipProjection, IInv, Attempts, RunsOK, RunRecord
    <3> QED BY <3>1, <3>2
  <2> QED BY <2>1, <2>2, <2>3
<1> QED BY <1>3, <1>4

\* The holder of the lease enriches through its own thread, and no other thread
\* runs.
LEMMA ThreadTimely ==
    ASSUME IInv, UNCHANGED late, NEW g \in Gens, Enrichment(g)
    PROVE  Timely'
<1> SUFFICES ASSUME ~late PROVE Timely'
  BY DEF Timely
<1>1. /\ UNCHANGED <<row, doc, chunks, records, projections, made, graph, run>>
      /\ thread[g].at \in {"clearing", "inserting"}
      /\ run[thread[g].host].pc = "enriching" /\ run[thread[g].host].gen = g
      /\ Holds(thread[g].host)
  BY DEF Enrichment, ThreadClears, ThreadInserts, ThreadFails, ThreadRuns
<1>2. PICK w \in Workers : w = thread[g].host /\ run[w].pc = "enriching" /\ run[w].gen = g
                         /\ Holds(w)
  BY <1>1 DEF IInv, HostsOK
<1>3. /\ thread' = [thread EXCEPT ![g].at = thread'[g].at]
      /\ thread'[g].at \in {"inserting", "done", "failed"}
      /\ thread'[g].at = "inserting" => runtime' = {}
      /\ thread'[g].at = "done" => thread[g].at = "inserting" /\ runtime' = runtime \cup {g}
  <2>1. thread \in [Gens -> [at: ThreadPhases, host: Workers \cup {NoWorker}]]
    BY DEF IInv, Attempts, TypeOK
  <2>2. CASE ThreadClears(g)
    BY <2>1, <2>2 DEF ThreadClears, ThreadTo
  <2>3. CASE ThreadInserts(g)
    BY <2>1, <2>3 DEF ThreadInserts, ThreadRuns, ThreadTo
  <2>4. CASE ThreadFails(g)
    BY <2>1, <2>4 DEF ThreadFails, ThreadTo
  <2> QED BY <2>2, <2>3, <2>4 DEF Enrichment
<1>4. StoresOK'
  BY <1>1, <1>2, HolderFacts
     DEF StoresOK, RecoveryOK, ReadyRunIsFullyIndexed, ProjectionIsCurrent, Searchable,
         SucceededDocumentIsSearchable, Complete
<1>5. EnrichingOK(w)'
  <2>1. thread'[g].host = w
    BY <1>1, <1>2, <1>3, HolderFacts DEF AttemptOK, EnrichingOK, IInv, Attempts, TypeOK
  <2>2. thread'[g].at = "done" => runtime' = {g}
    BY <1>1, <1>2, <1>3, HolderFacts DEF AttemptOK, EnrichingOK
  <2> QED BY <1>1, <1>2, <1>3, <2>1, <2>2, HolderFacts DEF AttemptOK, EnrichingOK
<1>6. FreshOK(w)' /\ BatchOK(w)' /\ PendingOK(w)'
  BY <1>1, <1>2, HolderFacts DEF AttemptOK, FreshOK, BatchOK, PendingOK, Complete
<1>7. EnrichedOK(w)' /\ OutcomeOK(w)' /\ ResumeOK(w)'
  BY <1>1, <1>2 DEF EnrichedOK, OutcomeOK, ResumeOK
<1> QED BY <1>1, <1>2, <1>4, <1>5, <1>6, <1>7, HolderStep DEF AttemptOK

LEMMA EnrichedTimely ==
    ASSUME IInv, UNCHANGED late, NEW w \in Workers,
           Enriched(w) \/ EnrichmentFailed(w) \/ Degrade(w)
    PROVE  Timely'
<1>1. /\ late \/ Holds(w)
      /\ UNCHANGED <<row, doc, chunks, projections, made, graph>>
      /\ \/ /\ run[w].pc = "enriching" /\ Goto(w, "enriched")
            /\ thread[run[w].gen].at = "done" /\ UNCHANGED runtime
            /\ records' =
                 [g \in Gens |-> IF records[g] = "absent" THEN "absent" ELSE "succeeded"]
         \/ run[w].pc = "enriching" /\ Goto(w, "degrading")
         \/ run[w].pc = "degrading" /\ Goto(w, "skipping")
  BY DEF Enriched, EnrichmentFailed, Degrade, Unfenced
<1> SUFFICES ASSUME ~late PROVE StoresOK' /\ AttemptOK(w)'
  BY <1>1, HolderStep DEF Timely
<1>2. /\ run'[w].pc \in {"enriched", "degrading", "skipping"}
      /\ run'[w].gen = run[w].gen /\ run[w].gen \in Gens
  BY <1>1, AfterGoto, HolderFacts
<1>3. StoresOK'
  BY <1>1, HolderFacts
     DEF StoresOK, RecoveryOK, ReadyRunIsFullyIndexed, ProjectionIsCurrent, Searchable,
         SucceededDocumentIsSearchable, Complete
<1>4. FreshOK(w)' /\ BatchOK(w)'
  BY <1>1, <1>2, HolderFacts
     DEF AttemptOK, FreshOK, BatchOK, BeforePublishing, AfterPublishing, BeforeProjection,
         Complete
<1>5. PendingOK(w)' /\ EnrichedOK(w)'
  <2>1. CASE run'[w].pc = "enriched"
    <3>1. run[w].pc = "enriching" /\ thread[run[w].gen].at = "done" /\ UNCHANGED runtime
          /\ records' =
               [g \in Gens |-> IF records[g] = "absent" THEN "absent" ELSE "succeeded"]
      BY <1>1, <2>1, AfterGoto, HolderFacts
    <3>2. records'[run[w].gen] = "succeeded" /\ runtime' = {run[w].gen}
      BY <1>1, <1>2, <3>1, HolderFacts DEF AttemptOK, EnrichingOK
    <3> QED BY <1>1, <1>2, <2>1, <3>1, <3>2, HolderFacts
            DEF AttemptOK, PendingOK, EnrichedOK, IndexedOK, WithProjection
  <2>2. CASE run'[w].pc # "enriched"
    BY <1>2, <2>2 DEF PendingOK, EnrichedOK, WithProjection
  <2> QED BY <2>1, <2>2
<1>6. EnrichingOK(w)' /\ OutcomeOK(w)' /\ ResumeOK(w)'
  BY <1>2 DEF EnrichingOK, OutcomeOK, ResumeOK
<1> QED BY <1>3, <1>4, <1>5, <1>6 DEF AttemptOK

\* The graph step of a full run and of a resumption.
LEMMA MaterializeTimely ==
    ASSUME IInv, UNCHANGED late, NEW w \in Workers, ProjectGraph(w) \/ ResumeGraph(w)
    PROVE  Timely'
<1>1. PICK next \in {"closing", "resuming"} :
        /\ Materialize(w, next) /\ (late \/ Holds(w))
        /\ next = "closing" => run[w].pc = "projecting"
        /\ next = "resuming" => /\ run[w].pc = "claimed"
                                /\ row.recovery = "resume_graph_projection"
  BY DEF ProjectGraph, ResumeGraph, Unfenced
<1>2. UNCHANGED <<row, doc, chunks, records, projections, made, runtime, thread>>
  BY <1>1, MaterializeOutcomes
<1> SUFFICES ASSUME ~late PROVE StoresOK' /\ AttemptOK(w)'
  BY <1>1, <1>2, HolderStep DEF Timely
<1>3. PICK r \in RunRecord :
        /\ run' = [run EXCEPT ![w] = r] /\ r.gen = run[w].gen /\ r.pc = next
        /\ \/ /\ Pending = {} /\ UNCHANGED graph /\ r.result = "not_run"
           \/ /\ r.pick \in Pending /\ r.result \in {"succeeded", "failed", "skipped"}
              /\ graph' = IF r.result = "succeeded" THEN chunks ELSE graph
  <2>1. CASE Pending = {} /\ UNCHANGED graph /\ run' = [run EXCEPT ![w] = Unpicked(w, next)]
    <3>1. /\ Unpicked(w, next) \in RunRecord /\ Unpicked(w, next).gen = run[w].gen
          /\ Unpicked(w, next).pc = next /\ Unpicked(w, next).result = "not_run"
      BY MaterializedRun DEF IInv
    <3> QED BY <2>1, <3>1
  <2>2. CASE \E g \in Pending, result \in {"succeeded", "failed", "skipped"} :
               /\ run' = [run EXCEPT ![w] = Picked(w, next, g, result)]
               /\ graph' = IF result = "succeeded" THEN chunks ELSE graph
    <3>1. PICK g \in Pending, result \in {"succeeded", "failed", "skipped"} :
            /\ run' = [run EXCEPT ![w] = Picked(w, next, g, result)]
            /\ graph' = IF result = "succeeded" THEN chunks ELSE graph
      BY <2>2
    <3>2. /\ Picked(w, next, g, result) \in RunRecord
          /\ Picked(w, next, g, result).gen = run[w].gen
          /\ Picked(w, next, g, result).pc = next
          /\ Picked(w, next, g, result).pick = g
          /\ Picked(w, next, g, result).result = result
      BY MaterializedRun DEF IInv
    <3> QED BY <3>1, <3>2
  <2> QED BY <1>1, <2>1, <2>2, MaterializeOutcomes
<1>4. run'[w] = r
  BY <1>3 DEF IInv, Attempts, RunsOK
<1>5. StoresOK'
  <2>1. ProjectionIsCurrent'
    BY <1>1, <1>2, <1>3, HolderFacts DEF StoresOK, ProjectionIsCurrent
  <2>2. RecoveryOK' /\ SucceededDocumentIsSearchable'
    BY <1>1, <1>2, HolderFacts
       DEF StoresOK, RecoveryOK, SucceededDocumentIsSearchable, Searchable, Complete
  <2> QED BY <1>1, <1>2, <2>1, <2>2, HolderFacts, RunningStores
<1>6. FreshOK(w)' /\ BatchOK(w)'
  BY <1>1, <1>2, <1>3, <1>4, HolderFacts
     DEF AttemptOK, FreshOK, BatchOK, BeforePublishing, AfterPublishing, BeforeProjection,
         Complete
<1>7. PendingOK(w)' /\ EnrichingOK(w)' /\ EnrichedOK(w)'
  BY <1>3, <1>4 DEF PendingOK, EnrichingOK, EnrichedOK, WithProjection
<1>8. OutcomeOK(w)'
  <2>1. next = "closing" => Pending = {run[w].gen} /\ IndexedOK(w)
    BY <1>1, HolderFacts DEF AttemptOK, PendingOK, EnrichedOK, WithProjection, Pending
  <2> QED BY <1>2, <1>3, <1>4, <2>1 DEF OutcomeOK, IndexedOK
<1>9. ResumeOK(w)'
  BY <1>1, <1>2, <1>3, <1>4, HolderFacts DEF AttemptOK, ResumeOK
<1> QED BY <1>5, <1>6, <1>7, <1>8, <1>9 DEF AttemptOK

\* A terminal row leaves three promises to check.
LEMMA TerminalStores ==
    ASSUME row'.status \in Terminal, ReadyRunIsFullyIndexed', ProjectionIsCurrent',
           SucceededDocumentIsSearchable'
    PROVE  StoresOK'
BY DEF StoresOK, RecoveryOK, Active, Terminal

\* The projection records after GraphWritten, if one of them says SUCCEEDED.
LEMMA WrittenIsCurrent ==
    ASSUME IInv, ~late, NEW w \in Workers, Holds(w), run[w].pc \in {"closing", "resuming"},
           projections' = GraphWritten(w), UNCHANGED <<chunks, graph>>
    PROVE  ProjectionIsCurrent'
<1>1. run[w].result = "succeeded" => graph = chunks
  BY HolderFacts DEF AttemptOK, OutcomeOK
<1>2. (\E g \in Gens : projections[g] = "succeeded") => graph = chunks
  BY HolderFacts DEF StoresOK, ProjectionIsCurrent
<1> QED BY <1>1, <1>2 DEF GraphWritten, ProjectionIsCurrent

LEMMA FinishRunTimely ==
    ASSUME IInv, UNCHANGED late, NEW w \in Workers, FinishRun(w)
    PROVE  Timely'
<1>1. /\ run[w].pc = "closing" /\ Holds(w)
      /\ projections' = GraphWritten(w) /\ doc' = "succeeded"
      /\ UNCHANGED <<chunks, records, made, runtime, graph, thread>>
  BY DEF FinishRun, Fenced
<1>2. PICK stage \in FinalStages(w) : row' = Finished(row, run[w].gen, "succeeded", stage)
  BY DEF FinishRun
<1>3. row'.status = "succeeded" /\ row'.stage = stage /\ row'.by = run[w].gen
  BY <1>2, RunFacts DEF IInv, Finished, Renewed, JobRow
<1> SUFFICES ASSUME ~late PROVE StoresOK'
  BY <1>3, NobodyHolds
<1>4. chunks = Complete(run[w].gen) /\ run[w].gen \in Gens
  BY <1>1, HolderFacts DEF AttemptOK, BatchOK, AfterPublishing
<1>5. ReadyRunIsFullyIndexed'
  <2> SUFFICES ASSUME stage = "ready"
               PROVE  /\ runtime = {run[w].gen} /\ records[run[w].gen] = "succeeded"
                      /\ projections'[run[w].gen] = "succeeded" /\ graph = chunks
    BY <1>1, <1>3 DEF ReadyRunIsFullyIndexed
  <2>1. run[w].result \notin {"failed", "skipped"}
    BY <1>2 DEF FinalStages, GraphWarning
  <2>2. /\ run[w].result = "succeeded" /\ run[w].pick = run[w].gen /\ IndexedOK(w)
        /\ graph = chunks
    BY <1>1, <2>1, HolderFacts DEF AttemptOK, OutcomeOK
  <2>3. projections'[run[w].gen] = "succeeded"
    BY <1>1, <1>4, <2>2, HolderFacts DEF GraphWritten
  <2> QED BY <2>2, <2>3 DEF IndexedOK
<1>6. ProjectionIsCurrent'
  BY <1>1, WrittenIsCurrent
<1>7. SucceededDocumentIsSearchable'
  BY <1>1, <1>4 DEF SucceededDocumentIsSearchable, Searchable, Complete
<1> QED BY <1>3, <1>5, <1>6, <1>7, TerminalStores DEF Terminal

LEMMA FailRunTimely ==
    ASSUME IInv, UNCHANGED late, NEW w \in Workers, FailRun(w)
    PROVE  Timely'
<1>1. /\ CleanArtifacts /\ doc' = "failed" /\ UNCHANGED graph
      /\ row' = Finished(row, run[w].gen, "failed", "failed")
  BY DEF FailRun
<1>2. row'.status = "failed"
  BY <1>1, RunFacts DEF IInv, Finished, Renewed, JobRow
<1>3. \A g \in Gens : projections'[g] # "succeeded"
  BY <1>1 DEF CleanArtifacts, CleanProjection
<1>4. StoresOK'
  BY <1>1, <1>2, <1>3, TerminalStores
     DEF Terminal, ReadyRunIsFullyIndexed, ProjectionIsCurrent, SucceededDocumentIsSearchable
<1> QED BY <1>2, <1>4, NobodyHolds

LEMMA ResumeRenewTimely ==
    ASSUME IInv, UNCHANGED late, NEW w \in Workers, ResumeRenew(w)
    PROVE  Timely'
<1>1. /\ run[w].pc = "resuming" /\ Holds(w) /\ row' = Renewed(row)
      /\ projections' = GraphWritten(w) /\ Goto(w, "resumed")
      /\ UNCHANGED <<doc, chunks, made, runtime, graph, thread>>
  BY DEF ResumeRenew, Fenced
<1>2. /\ row'.worker = row.worker /\ row'.status = row.status
      /\ row'.recovery = row.recovery /\ row'.stage = row.stage
  BY <1>1, RenewedRow DEF IInv
<1> SUFFICES ASSUME ~late PROVE StoresOK' /\ AttemptOK(w)'
  BY <1>1, <1>2, HolderStep
<1>3. run'[w].pc = "resumed" /\ run'[w].gen = run[w].gen
  BY <1>1, AfterGoto DEF IInv
<1>4. StoresOK'
  <2>1. ProjectionIsCurrent'
    BY <1>1, WrittenIsCurrent
  <2>2. RecoveryOK' /\ SucceededDocumentIsSearchable'
    BY <1>1, <1>2, HolderFacts
       DEF StoresOK, RecoveryOK, SucceededDocumentIsSearchable, Searchable, Complete
  <2> QED BY <1>1, <1>2, <2>1, <2>2, HolderFacts, RunningStores
<1>5. ResumeOK(w)'
  BY <1>1, <1>2, <1>3, HolderFacts DEF AttemptOK, ResumeOK
<1>6. FreshOK(w)' /\ BatchOK(w)' /\ PendingOK(w)'
  BY <1>3 DEF FreshOK, BatchOK, PendingOK, BeforePublishing, AfterPublishing,
              BeforeProjection, WithProjection
<1>7. EnrichingOK(w)' /\ EnrichedOK(w)' /\ OutcomeOK(w)'
  BY <1>3 DEF EnrichingOK, EnrichedOK, OutcomeOK
<1> QED BY <1>4, <1>5, <1>6, <1>7 DEF AttemptOK

\* The document is searchable when a resumption reports it SUCCEEDED: the stage
\* that called for the resumption says so.  Its attempt persisted no chunks.
LEMMA ResumeFinishTimely ==
    ASSUME IInv, UNCHANGED late, NEW w \in Workers, ResumeFinish(w)
    PROVE  Timely'
<1> DEFINE stage == IF GraphWarning(w) THEN "ready_with_warnings" ELSE "ready"
<1>1. /\ run[w].pc = "resumed" /\ (late \/ Holds(w)) /\ doc' = "succeeded"
      /\ row' = Cleared(Finished(row, run[w].gen, "succeeded", stage))
      /\ UNCHANGED <<stores, thread>>
  BY DEF ResumeFinish, Unfenced
<1>2. row'.status = "succeeded" /\ row'.by = run[w].gen
  BY <1>1, RunFacts DEF IInv, Cleared, Finished, Renewed, JobRow
<1> SUFFICES ASSUME ~late PROVE StoresOK'
  BY <1>2, NobodyHolds
<1>3. Searchable
  BY <1>1, HolderFacts DEF AttemptOK, ResumeOK, StoresOK, RecoveryOK, Active
<1>4. \A b \in chunks : b[1] < run[w].gen
  BY <1>1, HolderFacts DEF AttemptOK, ResumeOK
<1>5. chunks # Complete(run[w].gen)
  <2>1. <<run[w].gen, 1>> \in Complete(run[w].gen)
    BY ConstantsAssumed DEF Complete, ConstantsOK
  <2>2. ~(run[w].gen < run[w].gen)
    BY <1>1, HolderFacts, ConstantsAssumed DEF Gens, ConstantsOK
  <2> QED BY <1>4, <2>1, <2>2
<1>6. ReadyRunIsFullyIndexed'
  BY <1>1, <1>2, <1>5 DEF ReadyRunIsFullyIndexed, Complete, stores
<1>7. ProjectionIsCurrent' /\ SucceededDocumentIsSearchable'
  BY <1>1, <1>3, HolderFacts
     DEF StoresOK, ProjectionIsCurrent, SucceededDocumentIsSearchable, Searchable, Complete,
         stores
<1> QED BY <1>2, <1>6, <1>7, TerminalStores DEF Terminal

LEMMA MarkAttemptFailedTimely ==
    ASSUME IInv, UNCHANGED late, NEW w \in Workers, MarkAttemptFailed(w)
    PROVE  Timely'
<1>1. /\ Holds(w) /\ row' = MarkedFailed(row, run[w].gen) /\ doc' = "failed"
      /\ UNCHANGED <<stores, thread>>
  BY DEF MarkAttemptFailed
<1>2. row'.status = "failed"
  BY <1>1, RunFacts DEF IInv, MarkedFailed, JobRow
<1>3. ~late => StoresOK'
  BY <1>1, <1>2, HolderFacts, TerminalStores
     DEF Terminal, StoresOK, ReadyRunIsFullyIndexed, ProjectionIsCurrent,
         SucceededDocumentIsSearchable, stores
<1> QED BY <1>2, <1>3, NobodyHolds

LEMMA ClearTerminalLeaseTimely ==
    ASSUME IInv, UNCHANGED late, NEW w \in Workers, ClearTerminalLease(w)
    PROVE  Timely'
<1>1. run[w].pc = "finished" /\ row' = Cleared(row) /\ UNCHANGED <<doc, stores, thread>>
  BY DEF ClearTerminalLease
<1>2. /\ row'.status = row.status /\ row.status \in Terminal
      /\ row'.stage = row.stage /\ row'.by = row.by
  <2>1. row.status \in Terminal
    BY <1>1 DEF IInv, Attempts, RunsOK, FinishedOK
  <2> QED BY <1>1, <2>1, RunFacts DEF IInv, Cleared, JobRow
<1>3. ~late => StoresOK'
  BY <1>1, <1>2, TerminalStores
     DEF IInv, Timely, StoresOK, ReadyRunIsFullyIndexed, ProjectionIsCurrent, Searchable,
         SucceededDocumentIsSearchable, Complete, stores
<1> QED BY <1>2, <1>3, NobodyHolds DEF Terminal

\* Another worker's attempt ends; the holder, if there is one, is not disturbed.
LEMMA BystanderTimely ==
    ASSUME IInv, UNCHANGED late, NEW w \in Workers, LeaseLost(w) \/ Crash(w)
    PROVE  Timely'
<1>1. /\ run' = [run EXCEPT ![w] = Idle] /\ UNCHANGED <<row, doc, stores>>
      /\ \A g \in Gens : thread[g].host # w => thread'[g] = thread[g]
  BY DEF LeaseLost, Crash
<1>2. run'[w].pc = "idle" /\ \A v \in Workers \ {w} : run'[v] = run[v]
  BY <1>1 DEF IInv, Attempts, RunsOK, Idle
<1> SUFFICES ASSUME ~late PROVE StoresOK' /\ \A v \in Workers : Holds(v)' => AttemptOK(v)'
  BY DEF Timely
<1>3. StoresOK'
  BY <1>1 DEF IInv, Timely, StoresOK, RecoveryOK, ReadyRunIsFullyIndexed,
              ProjectionIsCurrent, SucceededDocumentIsSearchable, Searchable, Complete, stores
<1>4. AttemptOK(w)'
  BY <1>2
     DEF AttemptOK, FreshOK, BatchOK, PendingOK, EnrichingOK, EnrichedOK, OutcomeOK,
         ResumeOK, BeforePublishing, AfterPublishing, BeforeProjection, WithProjection
<1>5. ASSUME NEW v \in Workers \ {w}, Holds(v)'
      PROVE  AttemptOK(v)'
  <2>1. Holds(v) /\ run'[v] = run[v]
    BY <1>1, <1>2, <1>5 DEF Holds, HoldsLease
  <2>2. EnrichingOK(v)'
    BY <1>1, <2>1, HolderFacts DEF AttemptOK, EnrichingOK, stores
  <2>3. FreshOK(v)' /\ BatchOK(v)' /\ PendingOK(v)'
    BY <1>1, <2>1, HolderFacts DEF AttemptOK, FreshOK, BatchOK, PendingOK, Complete, stores
  <2>4. EnrichedOK(v)' /\ OutcomeOK(v)' /\ ResumeOK(v)'
    BY <1>1, <2>1, HolderFacts
       DEF AttemptOK, EnrichedOK, OutcomeOK, ResumeOK, IndexedOK, stores
  <2> QED BY <2>2, <2>3, <2>4 DEF AttemptOK
<1> QED BY <1>3, <1>4, <1>5

\* Recovery gives a row the recovery action that its stage calls for.
LEMMA RecoveredOK ==
    ASSUME IInv, ~late, Recoverable(row)
    PROVE  /\ Recovered(row).status \in {"ready", "failed"}
           /\ Recovered(row).worker = NoWorker
           /\ Recovered(row).status = "ready" =>
                /\ Recovered(row).recovery = "resume_graph_projection"
                     <=> Recovered(row).stage \in ResumableStages
                /\ Recovered(row).stage \in ResumableStages => Searchable
<1>1. row \in JobRow /\ row.status = "running"
  BY DEF IInv, Attempts, TypeOK, Recoverable
<1>2. row.stage \in ResumableStages => Searchable
  BY <1>1 DEF IInv, Timely, StoresOK, RecoveryOK, Active
<1> QED BY <1>1, <1>2 DEF Recovered, JobRow

\* So has a row that can be claimed.
LEMMA SeenOK ==
    ASSUME IInv, ~late, Claimable(Seen)
    PROVE  /\ Seen.recovery = "resume_graph_projection" <=> Seen.stage \in ResumableStages
           /\ Seen.stage \in ResumableStages => Searchable
<1>1. CASE Recoverable(row)
  BY <1>1, RecoveredOK DEF Seen, Claimable
<1>2. CASE ~Recoverable(row)
  BY <1>2 DEF Seen, Claimable, IInv, Timely, StoresOK, RecoveryOK, Active
<1> QED BY <1>1, <1>2

LEMMA ClaimTimely ==
    ASSUME IInv, UNCHANGED late, NEW w \in Workers, Claim(w)
    PROVE  Timely'
<1>1. /\ Claimable(Seen) /\ row' = Claimed(Seen, w)
      /\ run' = [run EXCEPT ![w] = [Idle EXCEPT !.pc = "claimed", !.gen = row.attempts + 1]]
      /\ UNCHANGED <<doc, stores, thread>>
  BY DEF Claim
<1>2. Seen \in JobRow /\ Seen.attempts = row.attempts
  BY SeenRow DEF IInv
<1>3. /\ row'.status = "running" /\ row'.worker = w
      /\ row'.recovery = Seen.recovery /\ row'.stage = Seen.stage
  BY <1>1, <1>2 DEF Claimed, JobRow
<1>4. /\ run'[w].pc = "claimed" /\ run'[w].gen = row.attempts + 1
      /\ run'[w].batch = 0 /\ run'[w].pick = 0
  BY <1>1 DEF IInv, Attempts, RunsOK, Idle
<1> SUFFICES ASSUME ~late PROVE StoresOK' /\ AttemptOK(w)'
  BY <1>3 DEF Timely, Holds, HoldsLease
<1>5. StoresOK'
  <2>1. RecoveryOK'
    BY <1>1, <1>3, SeenOK DEF RecoveryOK, Searchable, Complete, stores
  <2>2. ProjectionIsCurrent' /\ SucceededDocumentIsSearchable'
    BY <1>1 DEF IInv, Timely, StoresOK, ProjectionIsCurrent, SucceededDocumentIsSearchable,
                Searchable, Complete, stores
  <2> QED BY <1>3, <2>1, <2>2, RunningStores
<1>6. FreshOK(w)'
  BY <1>1, <1>3, <1>4, SeenOK DEF FreshOK, BeforePublishing, AfterPublishing
<1>7. BatchOK(w)' /\ PendingOK(w)'
  BY <1>4 DEF BatchOK, PendingOK, BeforeProjection, AfterPublishing, WithProjection
<1>8. EnrichingOK(w)' /\ EnrichedOK(w)' /\ OutcomeOK(w)'
  BY <1>4 DEF EnrichingOK, EnrichedOK, OutcomeOK
<1>9. ResumeOK(w)'
  <2>1. \A b \in chunks : b[1] \in Int /\ b[1] <= row.attempts /\ row.attempts \in Int
    BY ConstantsAssumed DEF IInv, Attempts, TypeOK, AgesOK, Gens, ConstantsOK, JobRow
  <2>2. \A b \in chunks : b[1] < row.attempts + 1
    BY <2>1
  <2> QED BY <1>1, <1>4, <2>2 DEF ResumeOK, stores
<1> QED BY <1>5, <1>6, <1>7, <1>8, <1>9 DEF AttemptOK

LEMMA RecoverTimely ==
    ASSUME IInv, UNCHANGED late, Recover
    PROVE  Timely'
<1>1. /\ Recoverable(row) /\ row' = Recovered(row)
      /\ doc' = IF row'.status = "failed" THEN "failed" ELSE doc
      /\ UNCHANGED <<stores, thread, run>>
  BY DEF Recover
<1>2. row'.worker = NoWorker
  <2>1. row \in JobRow
    BY DEF IInv, Attempts, TypeOK
  <2> QED BY <1>1, <2>1 DEF Recovered, JobRow
<1>3. ASSUME ~late PROVE StoresOK'
  <2>1. RecoveryOK'
    BY <1>1, <1>3, RecoveredOK DEF RecoveryOK, Active, Searchable, Complete, stores
  <2>2. ProjectionIsCurrent' /\ SucceededDocumentIsSearchable'
    BY <1>1, <1>3
       DEF IInv, Timely, StoresOK, ProjectionIsCurrent, SucceededDocumentIsSearchable,
           Searchable, Complete, stores
  <2>3. row'.status # "succeeded"
    BY <1>1, <1>3, RecoveredOK
  <2> QED BY <2>1, <2>2, <2>3, RunningStores
<1> QED BY <1>2, <1>3, NobodyHolds

LEMMA ExpireTimely ==
    ASSUME IInv, UNCHANGED late, Expire
    PROVE  Timely'
<1>1. /\ row.status = "running" /\ row' = [row EXCEPT !.lease = Lapsed]
      /\ UNCHANGED <<doc, stores, thread, run>>
  BY DEF Expire
<1>2. /\ row'.status = row.status /\ row'.recovery = row.recovery
      /\ row'.stage = row.stage /\ ~(row'.lease > 0)
  BY <1>1 DEF IInv, Attempts, TypeOK, JobRow, Lapsed
<1>3. ~late => StoresOK'
  BY <1>1, <1>2
     DEF IInv, Timely, StoresOK, RecoveryOK, ReadyRunIsFullyIndexed, ProjectionIsCurrent,
         SucceededDocumentIsSearchable, Searchable, Complete, stores
<1> QED BY <1>2, <1>3, NobodyHolds

LEMMA NextTimely == IInv /\ [Next]_vars => Timely'
<1> SUFFICES ASSUME IInv, [Next]_vars PROVE Timely'
  OBVIOUS
<1>1. CASE UNCHANGED vars
  BY <1>1
     DEF vars, stores, IInv, Timely, StoresOK, RecoveryOK, ReadyRunIsFullyIndexed,
         ProjectionIsCurrent, SucceededDocumentIsSearchable, Searchable, Complete, Holds,
         AttemptOK, FreshOK, BatchOK, PendingOK, EnrichingOK, EnrichedOK, OutcomeOK,
         IndexedOK, ResumeOK
<1>2. CASE Settled
  BY <1>1, <1>2 DEF Settled
<1>3. ASSUME UNCHANGED late, NEW w \in Workers, Claim(w) \/ LeaseLost(w) \/ Crash(w)
      PROVE  Timely'
  BY <1>3, ClaimTimely, BystanderTimely
<1>4. ASSUME UNCHANGED late, NEW w \in Workers, FullRun(w)
      PROVE  Timely'
  BY <1>4, StartTimely, ParsingTimely, ReportTimely, CreateProjectionTimely,
     PersistBatchTimely, PublishChunksTimely, PersistFailsTimely, EnrichedTimely,
     MaterializeTimely, FinishRunTimely, FailRunTimely, ClearTerminalLeaseTimely
     DEF FullRun
<1>5. ASSUME UNCHANGED late, NEW w \in Workers, Resumption(w) \/ MarkAttemptFailed(w)
      PROVE  Timely'
  BY <1>5, MaterializeTimely, ResumeRenewTimely, ResumeFinishTimely, MarkAttemptFailedTimely
     DEF Resumption
<1>6. ASSUME UNCHANGED late, NEW g \in Gens, Enrichment(g)
      PROVE  Timely'
  BY <1>6, ThreadTimely
<1>7. CASE UNCHANGED late /\ (Recover \/ Expire)
  BY <1>7, RecoverTimely, ExpireTimely
<1> QED BY <1>1, <1>2, <1>3, <1>4, <1>5, <1>6, <1>7 DEF Next

LEMMA InitTimely == Init => HostsOK /\ Timely
<1> SUFFICES ASSUME Init PROVE HostsOK /\ Timely
  OBVIOUS
<1>1. /\ row.status = "ready" /\ row.recovery = "none" /\ row.stage = "none"
      /\ doc = "running" /\ graph = chunks /\ \A g \in Gens : thread[g].at = "none"
  BY DEF Init, NewRow, NoThread
<1>2. HostsOK
  BY <1>1 DEF HostsOK
<1>3. StoresOK
  BY <1>1 DEF StoresOK, RecoveryOK, ReadyRunIsFullyIndexed, ProjectionIsCurrent,
              SucceededDocumentIsSearchable, ResumableStages
<1>4. \A w \in Workers : ~Holds(w)
  BY <1>1 DEF Holds, HoldsLease
<1> QED BY <1>2, <1>3, <1>4 DEF Timely

LEMMA PipelineInvariant == Spec => []IInv
<1>1. Init => IInv
  BY InitAttempts, InitTimely DEF IInv
<1>2. IInv /\ [Next]_vars => IInv'
  BY NextAttempts, NextHosts, NextTimely DEF IInv
<1> QED BY <1>1, <1>2, PTL DEF Spec

-----------------------------------------------------------------------------
(* The theorems                                                            *)

\* As long as no attempt has gone on after losing its lease, a job whose full run
\* run_index_job closes as READY, without warnings, stands for the whole index:
\* the runtime index holds that attempt's chunks and nothing else, the index
\* record and the projection record are SUCCEEDED and the graph was made from the
\* chunks the document has.  Of a job closed by a resumption, whose chunks are of
\* the attempt before it, nothing is said.
THEOREM ReadyMeansIndexed == Spec => []ReadyRunIsFullyIndexed
<1>1. IInv => ReadyRunIsFullyIndexed
  BY DEF IInv, Timely, StoresOK, ReadyRunIsFullyIndexed
<1> QED BY <1>1, PipelineInvariant, PTL

\* As long as no attempt has gone on after losing its lease, no
\* GraphProjectionRecord says SUCCEEDED of a graph that materialize_pending made
\* from chunks the document no longer has: cleanup_document_index_artifacts marks
\* it STALE first.
THEOREM SucceededProjectionIsCurrent == Spec => []ProjectionIsCurrent
<1>1. IInv => ProjectionIsCurrent
  BY DEF IInv, Timely, StoresOK, ProjectionIsCurrent
<1> QED BY <1>1, PipelineInvariant, PTL

\* As long as no attempt has gone on after losing its lease, Document.status reads
\* SUCCEEDED only of a document all of whose chunks, of one attempt, are
\* persisted, through re-indexing, failures, recoveries and resumptions.
THEOREM SucceededMeansSearchable == Spec => []SucceededDocumentIsSearchable
<1>1. IInv => SucceededDocumentIsSearchable
  BY DEF IInv, Timely, StoresOK, SucceededDocumentIsSearchable
<1> QED BY <1>1, PipelineInvariant, PTL

-----------------------------------------------------------------------------
(* The job is one of LeasedJobs                                            *)

ItemOf(r) ==
    [phase  |-> AbstractPhase[r.status],
     holder |-> IF r.status = "running" THEN r.worker ELSE NoWorker,
     grants |-> r.attempts,
     wrote  |-> r.by]

\* What LeasedJobs lets happen to an item.
Moves(i, k) ==
    \/ /\ i.phase = "waiting" /\ i.grants < MaxAttempts
       /\ \E w \in Workers : k = Leased!Granted(i, w)
    \/ i.phase = "held" /\ k = Leased!Revoked(i)
    \/ /\ i.phase = "held" /\ i.grants < MaxAttempts
       /\ \E w \in Workers : k = Leased!Granted(Leased!Revoked(i), w)
    \/ i.phase = "held" /\ k = Leased!Written(i)
    \/ i.phase = "held" /\ \E outcome \in Terminal : k = Leased!Ended(i, outcome)
    \/ k = i

LEMMA MovesAreSteps ==
    ASSUME Moves(ItemOf(row), ItemOf(row'))
    PROVE  Leased!Next
<1>1. PICK i, k : i = ItemOf(row) /\ k = ItemOf(row')
  OBVIOUS
<1>2. <<AbstractItem>> = <<i>> /\ <<AbstractItem>>' = <<k>>
  BY <1>1 DEF AbstractItem, ItemOf
<1>3. Leased!Jobs = {1}
  BY DEF Leased!Jobs
<1>4. Moves(i, k)
  BY <1>1
<1>5. ASSUME NEW j \in Leased!Jobs
      PROVE  \/ Leased!Submit(j) \/ Leased!Grant(j) \/ Leased!Revoke(j)
             \/ Leased!Regrant(j) \/ Leased!Write(j) \/ Leased!End(j) \/ Leased!Keep(j)
  <2>1. <<AbstractItem>>[j] = i /\ <<AbstractItem>>'[j] = k
    BY <1>2, <1>3
  <2>2. CASE i.phase = "waiting" /\ i.grants < MaxAttempts
             /\ \E w \in Workers : k = Leased!Granted(i, w)
    BY <2>1, <2>2 DEF Leased!Grant
  <2>3. CASE i.phase = "held" /\ k = Leased!Revoked(i)
    BY <2>1, <2>3 DEF Leased!Revoke
  <2>4. CASE i.phase = "held" /\ i.grants < MaxAttempts
             /\ \E w \in Workers : k = Leased!Granted(Leased!Revoked(i), w)
    BY <2>1, <2>4 DEF Leased!Regrant
  <2>5. CASE i.phase = "held" /\ k = Leased!Written(i)
    BY <2>1, <2>5 DEF Leased!Write
  <2>6. CASE i.phase = "held" /\ \E outcome \in Terminal : k = Leased!Ended(i, outcome)
    BY <2>1, <2>6 DEF Leased!End, Terminal
  <2>7. CASE k = i
    BY <2>1, <2>7 DEF Leased!Keep
  <2> QED BY <1>4, <2>2, <2>3, <2>4, <2>5, <2>6, <2>7 DEF Moves
<1>6. <<AbstractItem>>' = [j \in Leased!Jobs |-> <<AbstractItem>>'[j]]
  BY <1>2, <1>3
<1> QED BY <1>5, <1>6 DEF Leased!Next

\* What the row operators do to the item of the row.
LEMMA QueueMoves ==
    ASSUME NEW r \in JobRow, r.status = "running"
    PROVE  /\ Moves(ItemOf(r), ItemOf(Recovered(r)))
           /\ Moves(ItemOf(r), ItemOf(Renewed(r)))
           /\ Moves(ItemOf(r), ItemOf([r EXCEPT !.lease = Lapsed]))
           /\ \A stage : Moves(ItemOf(r), ItemOf([Renewed(r) EXCEPT !.stage = stage,
                                                                   !.by = r.attempts]))
<1>1. ItemOf(Recovered(r)) = Leased!Revoked(ItemOf(r)) /\ ItemOf(r).phase = "held"
  <2>1. r.attempts >= MaxAttempts <=> ~(r.attempts < MaxAttempts)
    BY ConstantsAssumed DEF JobRow, ConstantsOK
  <2> QED
    BY <2>1 DEF ItemOf, AbstractPhase, Recovered, Leased!Revoked, Leased!Item, JobRow
<1>2. ItemOf(Renewed(r)) = ItemOf(r) /\ ItemOf([r EXCEPT !.lease = Lapsed]) = ItemOf(r)
  BY DEF ItemOf, Renewed, JobRow
<1>3. ASSUME NEW stage
      PROVE  ItemOf([Renewed(r) EXCEPT !.stage = stage, !.by = r.attempts]) =
             Leased!Written(ItemOf(r))
  BY DEF ItemOf, AbstractPhase, Renewed, Leased!Written, Leased!Item, JobRow
<1> QED BY <1>1, <1>2, <1>3 DEF Moves

LEMMA ClaimMoves ==
    ASSUME NEW r \in JobRow, NEW w \in Workers
    PROVE  /\ Claimable(r) => Moves(ItemOf(r), ItemOf(Claimed(r, w)))
           /\ Recoverable(r) /\ Claimable(Recovered(r)) =>
                Moves(ItemOf(r), ItemOf(Claimed(Recovered(r), w)))
<1>1. ASSUME Claimable(r)
      PROVE  /\ ItemOf(Claimed(r, w)) = Leased!Granted(ItemOf(r), w)
             /\ ItemOf(r).phase = "waiting" /\ ItemOf(r).grants < MaxAttempts
  BY <1>1 DEF ItemOf, AbstractPhase, Claimed, Claimable, Leased!Granted, Leased!Item, JobRow
<1>2. ASSUME Recoverable(r), Claimable(Recovered(r))
      PROVE  /\ ItemOf(Claimed(Recovered(r), w)) =
                    Leased!Granted(Leased!Revoked(ItemOf(r)), w)
             /\ ItemOf(r).phase = "held" /\ ItemOf(r).grants < MaxAttempts
  <2>1. r.status = "running" /\ r.attempts < MaxAttempts
    BY <1>2, ConstantsAssumed DEF Recoverable, Claimable, Recovered, JobRow, ConstantsOK
  <2> QED
    BY <2>1, ConstantsAssumed
       DEF ItemOf, AbstractPhase, Claimed, Recovered, Leased!Granted, Leased!Revoked,
           Leased!Item, JobRow, ConstantsOK
<1> QED BY <1>1, <1>2 DEF Moves

LEMMA EndMoves ==
    ASSUME NEW r \in JobRow, r.status = "running", NEW status \in Terminal, NEW stage
    PROVE  /\ Moves(ItemOf(r), ItemOf(MarkedFailed(r, r.attempts)))
           /\ Moves(ItemOf(r), ItemOf(Finished(r, r.attempts, status, stage)))
           /\ Moves(ItemOf(r), ItemOf(Cleared(Finished(r, r.attempts, status, stage))))
<1>1. ItemOf(r).phase = "held"
  BY DEF ItemOf, AbstractPhase
<1>2. ItemOf(MarkedFailed(r, r.attempts)) = Leased!Ended(ItemOf(r), "failed")
  BY DEF ItemOf, AbstractPhase, MarkedFailed, Leased!Ended, Leased!Item, JobRow
<1>3. ItemOf(Finished(r, r.attempts, status, stage)) = Leased!Ended(ItemOf(r), status)
  BY DEF ItemOf, AbstractPhase, Finished, Renewed, Terminal, Leased!Ended, Leased!Item, JobRow
<1>4. ItemOf(Cleared(Finished(r, r.attempts, status, stage))) =
      Leased!Ended(ItemOf(r), status)
  BY DEF ItemOf, AbstractPhase, Cleared, Finished, Renewed, Terminal, Leased!Ended,
         Leased!Item, JobRow
<1> QED BY <1>1, <1>2, <1>3, <1>4 DEF Moves, Terminal

\* A row with an outcome keeps its item when the lease is cleared.
LEMMA ClearMoves ==
    ASSUME NEW r \in JobRow, r.status \in Terminal
    PROVE  Moves(ItemOf(r), ItemOf(Cleared(r)))
BY DEF Moves, ItemOf, AbstractPhase, Cleared, Terminal, JobRow

\* The pipeline's job moves as LeasedJobs lets it: claimed and recovered by the
\* polls, written and ended by HoldsLease's attempt only; the exception is the
\* second commit of _resume_graph_projection in a late attempt.
THEOREM PipelineStepsAreLeased == Spec => StepsAreLeased
<1>1. Attempts /\ [Next]_vars
        => [Leased!Next \/ (late /\ \E w \in Workers : ResumeFinish(w))]_row
  <2> SUFFICES ASSUME Attempts, [Next]_vars, row' # row,
                      ~(late /\ \E w \in Workers : ResumeFinish(w))
               PROVE  Moves(ItemOf(row), ItemOf(row'))
    BY MovesAreSteps
  <2>1. row \in JobRow /\ Next
    BY DEF Attempts, TypeOK, vars
  <2>2. ASSUME NEW w \in Workers, Holds(w)
        PROVE  /\ row.status = "running"
               /\ run[w].pc # "idle" => run[w].gen = row.attempts
    BY <2>2 DEF Holds, HoldsLease, Attempts, RunsOK, GenOK
  <2>3. ASSUME NEW w \in Workers, Claim(w) \/ LeaseLost(w) \/ Crash(w)
        PROVE  Moves(ItemOf(row), ItemOf(row'))
    <3>1. Claim(w)
      BY <2>3 DEF LeaseLost, Crash
    <3> QED BY <2>1, <3>1, ClaimMoves DEF Claim, Seen
  <2>4. ASSUME NEW w \in Workers, FullRun(w)
        PROVE  Moves(ItemOf(row), ItemOf(row'))
    <3>1. \/ Start(w) \/ ReportStage(w) \/ PersistBatch(w) \/ StartEnrichment(w)
          \/ NothingApproved(w) \/ RenewForGraph(w) \/ FinishRun(w) \/ FailRun(w)
          \/ ClearTerminalLease(w)
      BY <2>4 DEF FullRun, CleanUp, Parse, ParseFails, SplitFails, CreateProjection,
                  PublishChunks, PersistFails, SkipAfterPersistFailed, SkipProjection,
                  Enriched, EnrichmentFailed, Degrade, SkipDegraded, ProjectGraph,
                  Materialize
    <3>2. CASE Start(w) \/ RenewForGraph(w)
      BY <2>1, <2>2, <3>2, QueueMoves DEF Start, RenewForGraph, Fenced
    <3>3. CASE ReportStage(w) \/ PersistBatch(w) \/ StartEnrichment(w) \/ NothingApproved(w)
      <4>1. Holds(w) /\ run[w].pc # "idle"
        BY <3>3 DEF ReportStage, StageAfter, PersistBatch, StartEnrichment,
                    NothingApproved, Fenced
      <4>2. \E stage : row' = Reported(w, stage)
        BY <3>3 DEF ReportStage, PersistBatch, StartEnrichment, NothingApproved
      <4> QED BY <2>1, <2>2, <4>1, <4>2, QueueMoves DEF Reported
    <3>4. CASE FinishRun(w) \/ FailRun(w)
      BY <2>1, <2>2, <3>4, EndMoves DEF FinishRun, FailRun, Fenced, Terminal
    <3>5. CASE ClearTerminalLease(w)
      BY <2>1, <3>5, ClearMoves DEF ClearTerminalLease, Attempts, RunsOK, FinishedOK
    <3> QED BY <3>1, <3>2, <3>3, <3>4, <3>5
  <2>5. ASSUME NEW w \in Workers, Resumption(w) \/ MarkAttemptFailed(w)
        PROVE  Moves(ItemOf(row), ItemOf(row'))
    <3>1. CASE ResumeGraph(w)
      BY <3>1 DEF ResumeGraph, Materialize
    <3>2. CASE ResumeRenew(w)
      BY <2>1, <2>2, <3>2, QueueMoves DEF ResumeRenew, Fenced
    <3>3. CASE ResumeFinish(w)
      <4>1. ~late
        BY <3>3
      <4> QED BY <2>1, <2>2, <3>3, <4>1, EndMoves DEF ResumeFinish, Unfenced, Terminal
    <3>4. CASE MarkAttemptFailed(w)
      BY <2>1, <2>2, <3>4, EndMoves DEF MarkAttemptFailed, Terminal
    <3> QED BY <2>5, <3>1, <3>2, <3>3, <3>4 DEF Resumption
  <2>6. CASE Recover \/ Expire
    BY <2>1, <2>6, QueueMoves DEF Recover, Expire, Recoverable
  <2>7. CASE Settled \/ \E g \in Gens : Enrichment(g)
    BY <2>7 DEF Settled, vars, Enrichment, ThreadClears, ThreadInserts, ThreadFails
  <2> QED BY <2>1, <2>3, <2>4, <2>5, <2>6, <2>7 DEF Next
<1> QED BY <1>1, AttemptsInvariant, PTL DEF Spec, StepsAreLeased
=============================================================================
