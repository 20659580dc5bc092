----------------------------- MODULE JobResults -----------------------------
(***************************************************************************)
(* The column job.result of the index jobs of one document and those who   *)
(* read and write it: the worker that runs a job (stage events, MinerU     *)
(* status, outcome), the recovery that gives a job up, the repair request  *)
(* of the jobs API, which attaches its plan to a job it has just queued,   *)
(* and the event streams that follow a job.                                *)
(*                                                                         *)
(* Sessions keep what they have read (expire_on_commit=False): the worker  *)
(* writes the whole column from the copy it took at the claim, and the     *)
(* repair request from the copy it read after its first commit.  The job   *)
(* that commit has queued may be claimed at once, so either may write over *)
(* what the other wrote: three history variables say over what.            *)
(*                                                                         *)
(* Who may write a job at all is the subject of JobQueue: here one worker  *)
(* runs one job at a time and a crash hands the job back.                  *)
(***************************************************************************)
EXTENDS Naturals, Sequences, SequencesExt, FiniteSets

CONSTANTS
    Requests,          \* repair requests
    Streams,           \* clients that follow a job
    MaxJobs,           \* bound: index jobs of the document
    MaxAttempts,       \* max_attempts of a job
    MaxStageEvents,    \* _MAX_STAGE_EVENTS
    MaxSequence        \* bound: stage events of one job

ASSUME ResultsAssumption ==
    /\ MaxJobs \in Nat \ {0}
    /\ MaxAttempts \in Nat \ {0}
    /\ MaxStageEvents \in Nat \ {0}
    /\ MaxSequence \in Nat \ {0}

VARIABLES
    job,        \* committed rows of the document's index jobs
    worker,     \* the running job and the copy of its result, or no job
    request,    \* repair requests
    stream,     \* event streams
    delivered,  \* the sequence numbers each stream has sent
    overrun,    \* history: the jobs a worker was running when their plan was attached,
    rewound,    \* those whose stage events had moved on since the request read them,
    undone      \* and those that had got their outcome since then

hist == <<overrun, rewound, undone>>
vars == <<job, worker, request, stream, delivered, hist>>

Jobs == 1 .. MaxJobs
NoJob == 0

Result == [events: Seq(Nat),
           stage: {"none", "working", "ready", "failed"},
           plan: BOOLEAN, mineru: BOOLEAN, outcome: {"none", "indexed", "error"}]

\* What a job is queued with: index options only, and they never change.
NoResult == [events |-> << >>, stage |-> "none", plan |-> FALSE,
             mineru |-> FALSE, outcome |-> "none"]

NoRow == [status |-> "none", attempts |-> 0, result |-> NoResult, repair |-> FALSE]

Idle == [job |-> NoJob, result |-> NoResult]
NoRequest == [phase |-> "none", source |-> NoJob, job |-> NoJob, result |-> NoResult]
NoStream == [phase |-> "none", job |-> NoJob, sent |-> 0]

Active(j) == job[j].status \in {"ready", "running"}

\* The document is gone and its jobs with it; another upload is another document.
Deleted == \E j \in Jobs : job[j].status = "deleted"

Init ==
    /\ job = [j \in Jobs |-> NoRow]
    /\ worker = Idle
    /\ request = [r \in Requests |-> NoRequest]
    /\ stream = [s \in Streams |-> NoStream]
    /\ delivered = [s \in Streams |-> << >>]
    /\ overrun = {} /\ rewound = {} /\ undone = {}

-----------------------------------------------------------------------------
(* The stage events of a job. *)

LastSequence(events) == IF events = << >> THEN 0 ELSE Last(events)

\* [*previous_events, event][-_MAX_STAGE_EVENTS:]
Capped(events) ==
    IF Len(events) > MaxStageEvents
    THEN SubSeq(events, Len(events) - MaxStageEvents + 1, Len(events))
    ELSE events

WithEvent(result, stage) ==
    [result EXCEPT !.events = Capped(Append(@, LastSequence(@) + 1)),
                   !.stage = stage]

-----------------------------------------------------------------------------
(* The worker. *)

\* A fresh index job, from an upload or a request to index again.
NewJob(repair) == [NoRow EXCEPT !.status = "ready", !.repair = repair]

CanQueue == \A j \in Jobs : ~Active(j)

FreeJob(j) == job[j] = NoRow /\ \A i \in 1 .. j - 1 : job[i] # NoRow

Enqueue(j) ==
    /\ FreeJob(j) /\ CanQueue /\ ~Deleted
    /\ job' = [job EXCEPT ![j] = NewJob(FALSE)]
    /\ UNCHANGED <<worker, request, stream, delivered, hist>>

\* Mutant: a claim starts with an empty result.
ClaimFresh(j) ==
    /\ worker = Idle
    /\ job[j].status = "ready"
    /\ job' = [job EXCEPT ![j].status = "running", ![j].attempts = @ + 1]
    /\ worker' = [job |-> j, result |-> NoResult]
    /\ UNCHANGED <<request, stream, delivered, hist>>

Claim(j) ==
    /\ worker = Idle
    /\ job[j].status = "ready"
    /\ job' = [job EXCEPT ![j].status = "running", ![j].attempts = @ + 1]
    /\ worker' = [job |-> j, result |-> job[j].result]
    /\ UNCHANGED <<request, stream, delivered, hist>>

\* A commit of the worker: the row gets the worker's whole copy.
WriteResult(result, status) ==
    /\ job' = [job EXCEPT ![worker.job].result = result, ![worker.job].status = status]
    /\ worker' = IF status = "running" THEN [worker EXCEPT !.result = result] ELSE Idle
    /\ UNCHANGED <<request, stream, delivered, hist>>

ReportStage ==
    /\ worker.job # NoJob
    /\ LastSequence(worker.result.events) < MaxSequence - 1
    /\ WriteResult(WithEvent(worker.result, "working"), "running")

OnMineruStatus ==
    /\ worker.job # NoJob
    /\ WriteResult([worker.result EXCEPT !.mineru = TRUE], "running")

Succeed ==
    /\ worker.job # NoJob
    /\ WriteResult([WithEvent(worker.result, "ready") EXCEPT !.outcome = "indexed"],
                   "succeeded")

\* Mutant: the stage stays the last one that was worked on.
FailJobUnstaged ==
    /\ worker.job # NoJob
    /\ WriteResult([worker.result EXCEPT !.outcome = "error"], "failed")

\* The failure is a stage but not an event.
FailJob ==
    /\ worker.job # NoJob
    /\ WriteResult([worker.result EXCEPT !.stage = "failed", !.outcome = "error"],
                   "failed")

Crash ==
    /\ worker # Idle
    /\ worker' = Idle
    /\ UNCHANGED <<job, request, stream, delivered, hist>>

\* recover_expired_jobs, once the lease of a lost worker has run out.
Recover(j) ==
    /\ job[j].status = "running"
    /\ worker.job # j
    /\ job' = [job EXCEPT ![j] =
                 IF @.attempts >= MaxAttempts
                 THEN [@ EXCEPT !.status = "failed", !.result.stage = "failed",
                                !.result.outcome = "error"]
                 ELSE [@ EXCEPT !.status = "ready"]]
    /\ UNCHANGED <<worker, request, stream, delivered, hist>>

-----------------------------------------------------------------------------
(* A repair request. *)

\* queue_repair_job up to the call of the model: job, options, chunks and plan.
\* The route answers 404 or 409 without a step when the job does not qualify.
ReadWarnings(r, j) ==
    /\ request[r].phase = "none"
    /\ job[j].status = "succeeded"
    /\ request' = [request EXCEPT ![r] = [NoRequest EXCEPT !.phase = "planning",
                                                           !.source = j]]
    /\ UNCHANGED <<job, worker, stream, delivered, hist>>

\* The suggestion may be skipped, fail or succeed; the request goes on.
Suggest(r) ==
    /\ request[r].phase = "planning"
    /\ request' = [request EXCEPT ![r].phase = "planned"]
    /\ UNCHANGED <<job, worker, stream, delivered, hist>>

\* create_index_job: under the advisory lock, refused while a job is active or
\* when the document is gone.  The job may be claimed from here on.
QueueRepair(r, j) ==
    /\ request[r].phase = "planned"
    /\ FreeJob(j)
    /\ IF CanQueue /\ ~Deleted
       THEN /\ job' = [job EXCEPT ![j] = NewJob(TRUE)]
            /\ request' = [request EXCEPT ![r].phase = "queued", ![r].job = j]
       ELSE /\ request' = [request EXCEPT ![r].phase = "refused"]
            /\ UNCHANGED job
    /\ UNCHANGED <<worker, stream, delivered, hist>>

\* session.refresh(job), in the transaction that the plan will be committed in.
RefreshQueued(r) ==
    /\ request[r].phase = "queued"
    /\ job[request[r].job].status # "deleted"
    /\ request' = [request EXCEPT ![r].phase = "read", ![r].result = job[request[r].job].result]
    /\ UNCHANGED <<job, worker, stream, delivered, hist>>

\* The second commit: the column as it was read, and the plan, whatever has been
\* written to it meanwhile.
AttachPlan(r) ==
    LET j == request[r].job
        copy == request[r].result
    IN /\ request[r].phase = "read"
       /\ job[j].status # "deleted"
       /\ request' = [request EXCEPT ![r].phase = "done"]
       /\ job' = [job EXCEPT ![j].result = [copy EXCEPT !.plan = TRUE]]
       /\ overrun' = IF worker.job = j THEN overrun \cup {j} ELSE overrun
       /\ rewound' = IF job[j].result.events # copy.events THEN rewound \cup {j} ELSE rewound
       /\ undone' = IF job[j].result.outcome # copy.outcome THEN undone \cup {j} ELSE undone
       /\ UNCHANGED <<worker, stream, delivered>>

\* The process dies, or a commit fails, somewhere in between, be it that the job
\* was deleted.
AbandonRepair(r) ==
    /\ request[r].phase \in {"planning", "planned", "queued", "read"}
    /\ request' = [request EXCEPT ![r].phase = "abandoned"]
    /\ UNCHANGED <<job, worker, stream, delivered, hist>>

\* delete_document: refused while a job is active; it takes the jobs along.
DeleteJobs ==
    /\ CanQueue
    /\ ~Deleted
    /\ \E j \in Jobs : job[j] # NoRow
    /\ job' = [j \in Jobs |-> IF job[j] = NoRow THEN NoRow
                              ELSE [NoRow EXCEPT !.status = "deleted"]]
    /\ UNCHANGED <<worker, request, stream, delivered, hist>>

-----------------------------------------------------------------------------
(* The event stream. *)

OpenStream(s, j) ==
    /\ stream[s].phase = "none"
    /\ job[j].status \notin {"none", "deleted"}
    /\ stream' = [stream EXCEPT ![s] = [phase |-> "open", job |-> j, sent |-> 0]]
    /\ UNCHANGED <<job, worker, request, delivered, hist>>

\* Mutant: a job that failed is not over.
TerminalIfSucceeded == {"succeeded"}

TerminalStatuses == {"succeeded", "failed"}

\* Mutant: one too many is skipped.
UnsentAfter(events, sent) == SubSeq(events, sent + 2, Len(events))

\* events[sent:]
Unsent(events, sent) == SubSeq(events, sent + 1, Len(events))

\* The events of the row as it is now, then sent = len(events). The stream ends
\* with the job's status once the job is terminal, with an error once it is gone.
PollStream(s) ==
    /\ stream[s].phase = "open"
    /\ LET row == job[stream[s].job]
           events == row.result.events
       IN IF row.status = "deleted"
          THEN /\ stream' = [stream EXCEPT ![s].phase = "error"]
               /\ UNCHANGED delivered
          ELSE /\ delivered' = [delivered EXCEPT ![s] = @ \o Unsent(events, stream[s].sent)]
               /\ stream' = [stream EXCEPT ![s].sent = Len(events),
                               ![s].phase = IF row.status \in TerminalStatuses
                                            THEN "ended" ELSE "open"]
    /\ UNCHANGED <<job, worker, request, hist>>

Disconnect(s) ==
    /\ stream[s].phase = "open"
    /\ stream' = [stream EXCEPT ![s].phase = "disconnected"]
    /\ UNCHANGED <<job, worker, request, delivered, hist>>

-----------------------------------------------------------------------------
\* Nobody is left to do anything: the one place where the model stops.
Quiet ==
    /\ worker = Idle
    /\ \A j \in Jobs : ~Active(j)
    /\ UNCHANGED vars

Work == ReportStage \/ OnMineruStatus \/ Succeed \/ FailJob \/ Crash
RepairSteps(r) ==
    \/ \E j \in Jobs : ReadWarnings(r, j) \/ QueueRepair(r, j)
    \/ Suggest(r) \/ RefreshQueued(r) \/ AttachPlan(r) \/ AbandonRepair(r)
StreamSteps(s) == (\E j \in Jobs : OpenStream(s, j)) \/ PollStream(s) \/ Disconnect(s)

Next ==
    \/ \E j \in Jobs : Enqueue(j) \/ Claim(j) \/ Recover(j)
    \/ Work
    \/ \E r \in Requests : RepairSteps(r)
    \/ DeleteJobs
    \/ \E s \in Streams : StreamSteps(s)
    \/ Quiet

Spec == Init /\ [][Next]_vars

\* Workers poll and recover, and a stream polls twice a second.  Nothing forces
\* stages, crashes, requests, clients or the end of a run.
FairSpec ==
    /\ Spec
    /\ \A j \in Jobs : SF_vars(Claim(j)) /\ WF_vars(Recover(j))
    /\ \A s \in Streams : WF_vars(PollStream(s))

-----------------------------------------------------------------------------
TypeOK ==
    /\ job \in [Jobs -> [status: {"none", "ready", "running", "succeeded", "failed", "deleted"},
                         attempts: 0 .. MaxAttempts, result: Result, repair: BOOLEAN]]
    /\ worker \in [job: Jobs \cup {NoJob}, result: Result]
    /\ request \in [Requests -> [phase: {"none", "planning", "planned", "queued", "read",
                                         "refused", "done", "abandoned"},
                                 source: Jobs \cup {NoJob}, job: Jobs \cup {NoJob},
                                 result: Result]]
    /\ stream \in [Streams -> [phase: {"none", "open", "ended", "error", "disconnected"},
                               job: Jobs \cup {NoJob}, sent: Nat]]
    /\ delivered \in [Streams -> Seq(Nat)]
    /\ overrun \subseteq Jobs /\ rewound \subseteq Jobs /\ undone \subseteq Jobs

\* job_events sends every event of a job once and in order, and has sent all of
\* them when it ends, as long as the capped list has lost none and no plan was
\* attached over events that the request had not read.
StreamSendsEveryEvent ==
    \A s \in Streams :
        LET j == stream[s].job
            last == LastSequence(job[j].result.events)
        IN /\ stream[s].phase \in {"open", "ended"} /\ ~Deleted
           /\ last <= MaxStageEvents /\ j \notin rewound
           => /\ delivered[s] = [i \in 1 .. stream[s].sent |-> i]
              /\ stream[s].phase = "ended" => stream[s].sent = last

\* What queue_repair_job answered with is in the job it named: no worker writes
\* over the plan, claim the job before it is attached or after, but the one that
\* was running the job at that moment.
RepairPlanStays ==
    \A r \in Requests :
        request[r].phase = "done" /\ ~Deleted =>
            job[request[r].job].result.plan \/ request[r].job \in overrun

\* A terminal job tells how it ended, and with what stage, for good: unless the
\* request that attaches its plan read the job before it had ended.
OutcomeIsKept ==
    \A j \in Jobs \ undone :
        /\ job[j].status = "succeeded" =>
              job[j].result.outcome = "indexed" /\ job[j].result.stage = "ready"
        /\ job[j].status = "failed" =>
              job[j].result.outcome = "error" /\ job[j].result.stage = "failed"

\* No run lasts for ever: the worker commits an outcome or dies.
RunsEnd == []<>(worker = Idle)

\* A client that stays connected is told the end of its job, unless a run of it
\* lasts for ever.
StreamsEnd ==
    RunsEnd => \A s \in Streams : stream[s].phase = "open" ~> stream[s].phase # "open"

=============================================================================
