------------------------------ MODULE JobQueue ------------------------------
(***************************************************************************)
(* The durable job queue: JobQueueService, the worker loop that polls it,  *)
(* and the lease protocol by which IndexJobRunner writes to the job it     *)
(* claimed.  What the runner does between two of those writes is the       *)
(* subject of IndexPipeline; here it is only the choice of the next write. *)
(*                                                                         *)
(* A transaction has two steps: the one that takes its row locks and makes *)
(* its writes, kept in jobWrites[w] and docWrites[w] where no other        *)
(* session sees them, and the commit that publishes them.  FOR UPDATE SKIP *)
(* LOCKED is a filter on the rows no other open transaction holds; plain   *)
(* FOR UPDATE waits for them.  A transaction that ends with the statement  *)
(* that took the lock is a single step.                                    *)
(***************************************************************************)
EXTENDS JobRows

CONSTANTS
    NumJobs,        \* bound: how many jobs are ever enqueued
    ReportedStages, \* the stages a runner reports while it works
    CommitsPromptly \* timing assumption: no session stalls for a whole lease
                    \* between two commits that have no other work between them

ASSUME NumJobsAssumption == NumJobs \in Nat \ {0}
ASSUME ReportedStagesAssumption == ReportedStages \subseteq IndexStage
ASSUME CommitsPromptlyAssumption == CommitsPromptly \in BOOLEAN

Jobs  == 1 .. NumJobs   \* in the order of (created_at, id)
NoJob == 0

VARIABLES
    queued, \* how many rows the jobs table holds: jobs 1 .. queued
    job,    \* the committed rows
    docs,   \* Document.status
    jobWrites, docWrites,  \* by worker: the writes of its open transaction
    run,    \* run[w]: the job w works on, its attempt, the stage the row had
            \* when w claimed it, and where w stands
    began, indexed  \* history, by job: the attempt that last began a full run, and
                    \* the one that last reported a stage from which to resume

tx   == <<jobWrites, docWrites>>
hist == <<began, indexed>>
vars == <<queued, job, docs, tx, run, hist>>

\* The phases of run_once and of the runner inside it.
Phases ==
    {"idle", "polling", "claimed", "leased", "preparing", "running", "writing",
     "resumed", "finished"}

NoWrites == [x \in {} |-> x]
Idle     == [pc |-> "idle", job |-> NoJob, gen |-> 0, stage |-> "none"]

Rows          == 1 .. queued
JobLocked(j)  == \E w \in Workers : j \in DOMAIN jobWrites[w]
DocLocked(d)  == \E w \in Workers : d \in DOMAIN docWrites[w]
Holds(w)      == HoldsLease(job[run[w].job], w)

\* f assigns members of T to some members of S.
IsPartial(f, S, T) == DOMAIN f \subseteq S /\ \A x \in DOMAIN f : f[x] \in T

RunType ==
    [pc: Phases, job: Rows \cup {NoJob}, gen: 0 .. MaxAttempts, stage: IndexStage]

QueueTypeOK ==
    /\ queued \in 0 .. NumJobs
    /\ job \in [Rows -> JobRow]
    /\ docs \in [Docs -> StageStatus]
    /\ DOMAIN jobWrites = Workers /\ DOMAIN docWrites = Workers
    /\ \A w \in Workers : IsPartial(jobWrites[w], Rows, JobRow)
    /\ \A w \in Workers : IsPartial(docWrites[w], Docs, StageStatus)
    /\ run \in [Workers -> RunType]

HistoryTypeOK ==
    /\ began \in [Jobs -> 0 .. MaxAttempts]
    /\ indexed \in [Jobs -> 0 .. MaxAttempts]

TypeOK == QueueTypeOK /\ HistoryTypeOK

Init ==
    /\ queued = 0
    /\ job = NoWrites
    /\ docs = [d \in Docs |-> "ready"]
    /\ jobWrites = [w \in Workers |-> NoWrites]
    /\ docWrites = [w \in Workers |-> NoWrites]
    /\ run = [w \in Workers |-> Idle]
    /\ began = [j \in Jobs |-> 0]
    /\ indexed = [j \in Jobs |-> 0]

-----------------------------------------------------------------------------
(* Requests                                                                *)

\* Mutant: a READY job does not count.
HasRunningJob(d) == \E j \in Rows : job[j].doc = d /\ job[j].status = "running"

\* active_index_job, and the rows of uq_active_index_document_job.
HasActiveJob(d) == \E j \in Rows : job[j].doc = d /\ job[j].status \in Active

\* create_index_job and _enqueue_index_job: a new READY row and the document
\* RUNNING, in one commit that the unique index on active jobs can refuse.
Enqueue(d) ==
    /\ queued < NumJobs
    /\ ~HasActiveJob(d)
    /\ ~DocLocked(d)
    /\ queued' = queued + 1
    /\ job' = [j \in 1 .. queued + 1 |-> IF j \in Rows THEN job[j] ELSE NewRow(d)]
    /\ docs' = [docs EXCEPT ![d] = "running"]
    /\ UNCHANGED <<tx, run, hist>>

-----------------------------------------------------------------------------
(* run_once: recover, claim, commit                                        *)

\* Rows as the polling session sees them once recover_expired_jobs has run.
LapsedJobs == {j \in Rows : Recoverable(job[j]) /\ ~JobLocked(j)}
Seen(j)    == IF j \in LapsedJobs THEN Recovered(job[j]) ELSE job[j]

\* _mark_index_document_failed, for the jobs recovery gives up.
DocsGivenUp == {job[j].doc : j \in {k \in LapsedJobs : Recovered(job[k]).status = "failed"}}

\* The row claim_next takes: the oldest claimable one no other session locks.
ClaimableJobs == {j \in Rows : Claimable(Seen(j)) /\ ~JobLocked(j)}
NextClaims    == {j \in ClaimableJobs : \A k \in ClaimableJobs : j <= k}

\* The writes of the polling transaction.  A poll that finds nothing is left out.
Poll(w) ==
    LET touched == LapsedJobs \cup NextClaims
    IN  /\ run[w].pc = "idle"
        /\ touched # {}
        /\ \A d \in DocsGivenUp : ~DocLocked(d)
        /\ jobWrites' = [jobWrites EXCEPT ![w] =
             [j \in touched |-> IF j \in NextClaims THEN Claimed(Seen(j), w) ELSE Seen(j)]]
        /\ docWrites' = [docWrites EXCEPT ![w] = [d \in DocsGivenUp |-> "failed"]]
        /\ run' = [run EXCEPT ![w].pc = "polling"]
        /\ UNCHANGED <<queued, job, docs, hist>>

\* The end of a transaction, committed or not: its writes and its locks go.
CloseTx(w) ==
    /\ jobWrites' = [jobWrites EXCEPT ![w] = NoWrites]
    /\ docWrites' = [docWrites EXCEPT ![w] = NoWrites]

\* Publishing a transaction: its rows replace the committed ones.
Publish(w) ==
    /\ job' = [j \in Rows |-> IF j \in DOMAIN jobWrites[w] THEN jobWrites[w][j] ELSE job[j]]
    /\ docs' = [d \in Docs |-> IF d \in DOMAIN docWrites[w] THEN docWrites[w][d] ELSE docs[d]]
    /\ CloseTx(w)
    /\ UNCHANGED queued

\* The rows a poll claimed, at most one: those it leaves RUNNING.
ClaimsOf(w) == {j \in DOMAIN jobWrites[w] : jobWrites[w][j].status = "running"}

CommitPoll(w) ==
    /\ run[w].pc = "polling"
    /\ Publish(w)
    /\ run' = [run EXCEPT ![w] =
                IF ClaimsOf(w) = {} THEN Idle
                ELSE LET j == CHOOSE j \in ClaimsOf(w) : TRUE
                     IN  [pc |-> "claimed", job |-> j, gen |-> jobWrites[w][j].attempts,
                          stage |-> jobWrites[w][j].stage]]
    /\ UNCHANGED hist

-----------------------------------------------------------------------------
(* The runner's writes to its job                                          *)

\* The runner touches its row only when no other transaction locks it.
AtJob(w, pcs) == run[w].pc \in pcs /\ ~JobLocked(run[w].job)

\* The phases in which the heartbeat task runs beside the operation.
Beating == {"leased", "preparing", "running", "resumed"}

\* heartbeat: the first one, before the operation starts, and the heartbeat
\* task's own, in a session of its own, while the operation runs.
Heartbeat(w) ==
    /\ AtJob(w, {"claimed"} \cup Beating)
    /\ Holds(w)
    /\ job' = [job EXCEPT ![run[w].job] = Renewed(@)]
    /\ run' = [run EXCEPT ![w].pc = IF @ = "claimed" THEN "leased" ELSE @]
    /\ UNCHANGED <<queued, docs, tx, hist>>

\* JobLeaseLostError, whoever notices first: the operation is cancelled, its
\* session rolled back, mark_failed refuses as well, and the loop polls again.
LeaseLost(w) ==
    /\ AtJob(w, {"claimed"} \cup Beating)
    /\ ~Holds(w)
    /\ run' = [run EXCEPT ![w] = Idle]
    /\ UNCHANGED <<queued, job, docs, tx, hist>>

\* Mutant: the runner does not look at the recovery action.
ResumingNever(w) == FALSE

Resuming(w) == job[run[w].job].recovery = "resume_graph_projection"

\* Writes to the worker's own job and to its document, in a transaction that
\* stays open until CommitWrite.
WriteJob(w, row) ==
    /\ jobWrites' = [jobWrites EXCEPT ![w] = [j \in {run[w].job} |-> row]]
    /\ run' = [run EXCEPT ![w].pc = "writing"]
    /\ UNCHANGED <<queued, job, docs, hist>>

WriteDoc(w, status) ==
    docWrites' = [docWrites EXCEPT ![w] = [d \in {job[run[w].job].doc} |-> status]]

\* The first commit of run_index_job: the document RUNNING, under the lease.
BeginRun(w) ==
    /\ AtJob(w, {"leased"})
    /\ Holds(w)
    /\ ~Resuming(w)
    /\ ~DocLocked(job[run[w].job].doc)
    /\ WriteJob(w, Renewed(job[run[w].job]))
    /\ WriteDoc(w, "running")

\* The commit before the cleanup in reindex_document flushes what
\* _index_document_for_job changed in the job and looks at no lease.  For a PDF
\* under strict preflight that is the whole `result' column, from the copy the
\* session read at the claim, and the stage is part of it; for other documents
\* progress and logs.  Which it is depends on file, contract and settings, and is
\* left open.  The flush may hold the row through the health checks; nobody else
\* moves the row meanwhile, so that one step stands for both.
StampResult(w) ==
    /\ AtJob(w, {"preparing"})
    /\ \/ job' = [job EXCEPT ![run[w].job] = Stamped(@, run[w].stage)]
       \/ job' = job
    /\ run' = [run EXCEPT ![w].pc = "running"]
    /\ UNCHANGED <<queued, docs, tx, hist>>

\* on_stage: the new stage is in the session when _ensure_current_lease locks
\* and renews the row; the commit is CommitWrite.
BeginStage(w, s) ==
    /\ AtJob(w, {"running"})
    /\ Holds(w)
    /\ WriteJob(w, [Renewed(job[run[w].job]) EXCEPT !.stage = s, !.by = run[w].gen])
    /\ UNCHANGED docWrites

\* The end of run_index_job, in success or in failure: the terminal status of
\* the job and of its document under the same lock and in the same commit.
BeginFinish(w, status, stage) ==
    /\ AtJob(w, {"preparing", "running"})
    /\ Holds(w)
    /\ ~DocLocked(job[run[w].job].doc)
    /\ WriteJob(w, Finished(job[run[w].job], run[w].gen, status, stage))
    /\ WriteDoc(w, status)

BeginSucceed(w) == BeginFinish(w, "succeeded", "ready")
BeginFail(w)    == BeginFinish(w, "failed", "failed")

CommitWrite(w) ==
    LET j    == run[w].job
        row  == jobWrites[w][j]
        next == IF row.status \in Terminal THEN "finished"
                ELSE IF DOMAIN docWrites[w] = {} THEN "running"  \* a stage
                ELSE "preparing"
    IN  /\ run[w].pc = "writing"
        /\ Publish(w)
        /\ run' = [run EXCEPT ![w].pc = next]
        /\ began' = [began EXCEPT ![j] = IF next = "preparing" THEN run[w].gen ELSE @]
        /\ indexed' = [indexed EXCEPT ![j] =
             IF next = "running" /\ row.stage \in ResumableStages THEN run[w].gen ELSE @]

\* _clear_terminal_lease, a commit of its own after the terminal one.
ClearTerminalLease(w) ==
    /\ AtJob(w, {"finished"})
    /\ job' = [job EXCEPT ![run[w].job] = Cleared(@)]
    /\ run' = [run EXCEPT ![w] = Idle]
    /\ UNCHANGED <<queued, docs, tx, hist>>

\* _resume_graph_projection commits twice.  _require_active_lease renews the
\* lease and commits what the resumption has written so far ...
ResumeRenew(w) ==
    /\ AtJob(w, {"leased"})
    /\ Holds(w)
    /\ Resuming(w)
    /\ job' = [job EXCEPT ![run[w].job] = Renewed(@)]
    /\ run' = [run EXCEPT ![w].pc = "resumed"]
    /\ UNCHANGED <<queued, docs, tx, hist>>

\* ... and the terminal state follows in a commit that checks nothing.
ResumeFinish(w) ==
    /\ AtJob(w, {"resumed"})
    /\ ~DocLocked(job[run[w].job].doc)
    /\ job' = [job EXCEPT ![run[w].job] = Cleared(Finished(@, run[w].gen, "succeeded", "ready"))]
    /\ docs' = [docs EXCEPT ![job[run[w].job].doc] = "succeeded"]
    /\ run' = [run EXCEPT ![w] = Idle]
    /\ UNCHANGED <<queued, tx, hist>>

\* _mark_failed_after_runner_error: the runner raised something else than a
\* lost lease and run_index_job did not handle it.
MarkFailed(w) ==
    /\ AtJob(w, {"claimed"} \cup Beating)
    /\ Holds(w)
    /\ ~DocLocked(job[run[w].job].doc)
    /\ job' = [job EXCEPT ![run[w].job] = MarkedFailed(@, run[w].gen)]
    /\ docs' = [docs EXCEPT ![job[run[w].job].doc] = "failed"]
    /\ run' = [run EXCEPT ![w] = Idle]
    /\ UNCHANGED <<queued, tx, hist>>

\* The commit of persist_studio_chunks marks the document SUCCEEDED in the
\* middle of the run and does not look at the lease.
PublishChunks(w) ==
    /\ run[w].pc = "running"
    /\ ~DocLocked(job[run[w].job].doc)
    /\ docs' = [docs EXCEPT ![job[run[w].job].doc] = "succeeded"]
    /\ UNCHANGED <<queued, job, tx, run, hist>>

-----------------------------------------------------------------------------
(* Failures and time                                                       *)

\* The process dies: its open transaction is rolled back and its locks go.
\* It comes back with the worker id it had.
Crash(w) ==
    /\ run[w].pc # "idle"
    /\ CloseTx(w)
    /\ run' = [run EXCEPT ![w] = Idle]
    /\ UNCHANGED <<queued, job, docs, hist>>

\* Under CommitsPromptly the clock does not reach the end of a lease while its
\* holder stands between the two commits of a resumption.
Tick ==
    /\ CommitsPromptly => \A w \in Workers : run[w].pc = "resumed" => job[run[w].job].lease # 1
    /\ job' = [j \in Rows |-> Aged(job[j])]
    /\ jobWrites' = [w \in Workers |->
                        [j \in DOMAIN jobWrites[w] |-> Aged(jobWrites[w][j])]]
    /\ UNCHANGED <<queued, docs, docWrites, run, hist>>

-----------------------------------------------------------------------------
Work(w) ==
    \/ Poll(w)
    \/ CommitPoll(w)
    \/ Heartbeat(w)
    \/ LeaseLost(w)
    \/ BeginRun(w)
    \/ StampResult(w)
    \/ \E s \in ReportedStages : BeginStage(w, s)
    \/ BeginSucceed(w)
    \/ BeginFail(w)
    \/ CommitWrite(w)
    \/ ClearTerminalLease(w)
    \/ ResumeRenew(w)
    \/ ResumeFinish(w)
    \/ MarkFailed(w)
    \/ PublishChunks(w)

Next ==
    \/ \E d \in Docs : Enqueue(d)
    \/ \E w \in Workers : Work(w) \/ Crash(w)
    \/ Tick

Spec == Init /\ [][Next]_vars

\* What goes on by itself: the clock, the poll loop, and a worker that stands at
\* a statement of its own session.  Strong fairness says that no worker crashes
\* each time it gets there.  Requests, crashes, stages and heartbeats are left to
\* chance, and so is the end of an operation: enrichment runs in a thread without
\* a timeout and the heartbeat task renews the lease meanwhile.
Fairness ==
    /\ WF_vars(Tick)
    /\ \A w \in Workers :
        /\ WF_vars(Poll(w))
        /\ SF_vars(CommitPoll(w))
        /\ SF_vars(run[w].pc = "claimed" /\ Heartbeat(w))
        /\ SF_vars(BeginRun(w) \/ ResumeRenew(w))
        /\ WF_vars(ClearTerminalLease(w))
        /\ WF_vars(run[w].pc \in {"claimed", "leased"} /\ LeaseLost(w))

FairSpec == Spec /\ Fairness

-----------------------------------------------------------------------------
(* Safety                                                                  *)

\* A worker that stands between the lease check and the commit of a write to
\* its job owns that job, in the attempt it was claimed for, and no other
\* open transaction touches the row (_ensure_current_lease keeps the lock).
WriterOwnsJob ==
    \A w \in Workers : run[w].pc = "writing" \/ (CommitsPromptly /\ run[w].pc = "resumed") =>
        /\ job[run[w].job].status = "running"
        /\ job[run[w].job].worker = w
        /\ job[run[w].job].attempts = run[w].gen
        /\ \A v \in Workers \ {w} : run[w].job \notin DOMAIN jobWrites[v]

\* uq_active_index_document_job, which recovery and requests must both respect:
\* a document never has two jobs that are READY or RUNNING.
OneActiveJob ==
    \A i, j \in Rows : job[i].doc = job[j].doc /\ {job[i].status, job[j].status} \subseteq Active
        => i = j

\* No job can get stuck in READY: whatever path put it there (request or
\* recovery), it has an attempt left and no leftover owner, so claim_next takes it.
ReadyIsClaimable ==
    \A j \in Rows : job[j].status = "ready" =>
        Claimable(job[j]) /\ job[j].worker = NoWorker /\ job[j].lease = NoLease

\* The document of an active job is not FAILED: a failure of the job and of the
\* document are one commit, and a new request reopens the document.
ActiveJobDocumentNotFailed ==
    \A j \in Rows : job[j].status \in Active => docs[job[j].doc] \notin {"failed", "ready"}

\* A job that is to be resumed, or would be if its lease lapsed now, was indexed
\* up to SEARCH_READY by its newest full run: neither the stage another runner
\* reports nor the stale one it flushes in StampResult makes a resumption of a
\* job that a later run began to index anew (recover_expired_jobs, run).
ResumeFromSearchReady ==
    \A j \in Rows :
        job[j].status \in Active
        /\ (job[j].recovery = "resume_graph_projection" \/ job[j].stage \in ResumableStages)
            => began[j] # 0 /\ indexed[j] = began[j]

-----------------------------------------------------------------------------
(* What a step may never do                                                *)

\* SUCCEEDED and FAILED are final: no late commit of a former owner, and no
\* recovery, reopens a job or changes its outcome.
TerminalIsFinal ==
    [][\A j \in Rows : job[j].status \in Terminal => job'[j].status = job[j].status]_vars

\* While a lease is held nobody but its holder changes the status of the job.
OnlyHolderEndsLease ==
    [][\A w \in Workers : \A j \in Rows :
        HoldsLease(job[j], w) /\ job'[j].status # "running"
            => run[w].job = j /\ run'[w] # run[w]]_vars

\* The phases of an operation, which may last for ever.
Operating == {"preparing", "running", "writing", "resumed"}

\* No worker stays inside one operation: it returns, fails, is cancelled with its
\* lease or dies.
OperationsEnd == \A w \in Workers : []<>(run[w].pc \notin Operating)

\* Liveness: unless an operation lasts for ever, every job that is enqueued gets
\* an outcome, however its workers crash, stall or lose their leases, because
\* attempts are bounded and recovery finds every lapsed lease.
EveryJobSettles ==
    OperationsEnd => \A j \in Jobs : (j <= queued) ~> (j \in Rows /\ job[j].status \in Terminal)

-----------------------------------------------------------------------------
(* JobQueue implements LeasedJobs                                          *)

AbstractPhase == [ready |-> "waiting", running |-> "held",
                  succeeded |-> "succeeded", failed |-> "failed"]

AbstractItem(j) ==
    IF j \in Rows
    THEN [phase  |-> AbstractPhase[job[j].status],
          holder |-> IF job[j].status = "running" THEN job[j].worker ELSE NoWorker,
          grants |-> job[j].attempts,
          wrote  |-> job[j].by]
    ELSE [phase |-> "none", holder |-> NoWorker, grants |-> 0, wrote |-> 0]

Leased == INSTANCE LeasedJobs WITH item <- [j \in Jobs |-> AbstractItem(j)]

\* Every step of the queue is a step of LeasedJobs or leaves the jobs alone.
ImplementsLeasedJobs == Leased!Spec
=============================================================================
