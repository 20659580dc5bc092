------------------------------ MODULE JobRows ------------------------------
(***************************************************************************)
(* One row of the jobs table, as an index_document job uses it, and what   *)
(* JobQueueService and IndexJobRunner do to such a row.  The modules that  *)
(* model a process (JobQueue, IndexPipeline) apply these operators inside  *)
(* their transactions.                                                     *)
(*                                                                         *)
(* Time is kept relative: `lease' is lease_expires_at minus the current    *)
(* time, in ticks, so that a long run needs no bound on the clock.  The    *)
(* code compares the two in two ways: a lease is held while it is strictly *)
(* in the future (lease > 0) and is recovered once it is strictly in the   *)
(* past (lease < 0).  At lease = 0 it is neither.                          *)
(***************************************************************************)
EXTENDS Integers

CONSTANTS
    Workers,      \* ids of the worker processes (worker_id)
    NoWorker,     \* worker_id IS NULL
    Docs,         \* the documents a job can target
    MaxAttempts,  \* Job.max_attempts
    LeaseTicks    \* lease_seconds, in ticks of the clock

ASSUME WorkersAssumption == NoWorker \notin Workers
ASSUME MaxAttemptsAssumption == MaxAttempts \in Nat \ {0}
ASSUME LeaseTicksAssumption == LeaseTicks \in Nat \ {0}

Lapsed  == -1   \* lease_expires_at is in the past, however far
NoLease == -2   \* lease_expires_at IS NULL

StageStatus == {"ready", "running", "succeeded", "failed"}
Active      == {"ready", "running"}
Terminal    == {"succeeded", "failed"}

\* "none" stands for a result without an indexing_stage.
IndexStage ==
    {"none", "queued", "mineru_parsing", "mineru_validated", "chunks_persisting",
     "chunks_persisted", "search_ready", "runtime_enriching", "graph_enriching",
     "ready", "ready_with_warnings", "failed"}

RecoveryAction == {"none", "resume_graph_projection", "retry_full_index"}

\* `by' is a history field: the attempt whose runner last reported a stage or
\* set the status (0 for the request that created the row).
JobRow ==
    [doc: Docs, status: StageStatus, worker: Workers \cup {NoWorker},
     lease: NoLease .. LeaseTicks, attempts: 0 .. MaxAttempts,
     recovery: RecoveryAction, stage: IndexStage, by: 0 .. MaxAttempts]

-----------------------------------------------------------------------------
\* A freshly built row: READY, no worker, available at once.
NewRow(d) ==
    [doc |-> d, status |-> "ready", worker |-> NoWorker, lease |-> NoLease,
     attempts |-> 0, recovery |-> "none", stage |-> "none", by |-> 0]

\* A "mutant" below, here and in the other modules, is a faulty variant of the
\* definition that follows it; no specification uses it.

\* The filter of claim_next; available_at is the creation time and never moves.
Claimable(row) == row.status = "ready" /\ row.attempts < MaxAttempts

\* Mutant: the claim does not count as an attempt.
ClaimedUncounted(row, w) ==
    [row EXCEPT !.status = "running", !.worker = w, !.lease = LeaseTicks]

Claimed(row, w) ==
    [row EXCEPT !.status = "running", !.worker = w, !.lease = LeaseTicks,
                !.attempts = @ + 1]

\* Mutant: any worker passes while the lease runs.
HoldsAnyLease(row, w) == row.status = "running" /\ row.lease > 0

\* The check of _require_active_lease and of _ensure_current_lease.
HoldsLease(row, w) == row.status = "running" /\ row.worker = w /\ row.lease > 0

Renewed(row) == [row EXCEPT !.lease = LeaseTicks]

\* Mutants: the filter forgets the lease, or the lapsed leases.
RecoverableAnyLease(row) == row.status = "running"
RecoverableUnleased(row) == row.status = "running" /\ row.lease = NoLease

\* The filter of recover_expired_jobs: the lease is missing or in the past.
Recoverable(row) == row.status = "running" /\ row.lease \in {NoLease, Lapsed}

ResumableStages == {"search_ready", "graph_enriching"}

\* The row after recover_expired_jobs: failed once the attempts are spent,
\* otherwise READY again with the recovery action its last stage calls for.
Recovered(row) ==
    IF row.attempts >= MaxAttempts
    THEN [row EXCEPT !.status = "failed", !.worker = NoWorker, !.lease = NoLease,
                     !.recovery = "none", !.stage = "failed"]
    ELSE [row EXCEPT !.status = "ready", !.worker = NoWorker, !.lease = NoLease,
                     !.recovery = IF row.stage \in ResumableStages
                                  THEN "resume_graph_projection"
                                  ELSE "retry_full_index"]

\* mark_failed: the row is closed and its lease given up; recovery stays.
MarkedFailed(row, gen) ==
    [row EXCEPT !.status = "failed", !.worker = NoWorker, !.lease = NoLease,
                !.stage = "failed", !.by = gen]

\* The `result' column written back from a session's own copy: the stage of that
\* copy comes along.  Nothing is reported, so `by' stays.
Stamped(row, stage) == [row EXCEPT !.stage = stage]

\* A terminal status as run_index_job commits it: after _ensure_current_lease
\* renewed the lease, with the worker and the lease still in the row.
Finished(row, gen, status, stage) ==
    [Renewed(row) EXCEPT !.status = status, !.stage = stage, !.by = gen]

\* _clear_terminal_lease
Cleared(row) ==
    [row EXCEPT !.worker = NoWorker, !.lease = NoLease, !.recovery = "none"]

\* One tick of the wall clock, for a lease that is running down.
AgedLease(lease) == IF lease >= 0 THEN lease - 1 ELSE lease
Aged(row) == [row EXCEPT !.lease = AgedLease(@)]
=============================================================================
