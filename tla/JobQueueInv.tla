---------------------------- MODULE JobQueueInv -----------------------------
(***************************************************************************)
(* The inductive invariant behind the safety properties of JobQueue: what  *)
(* an open transaction has locked and drafted, and what the committed row  *)
(* still says underneath.                                                  *)
(***************************************************************************)
EXTENDS JobQueue

AtWork ==
    {"claimed", "leased", "preparing", "running", "writing", "resumed", "finished"}

\* Only a polling or a writing worker has a transaction open, and only a worker
\* past its poll has a job.
RunShape ==
    \A w \in Workers :
        /\ run[w].pc \in AtWork => run[w].job \in Rows
        /\ run[w].pc \notin {"polling", "writing"} =>
             DOMAIN jobWrites[w] = {} /\ DOMAIN docWrites[w] = {}
        /\ run[w].pc = "writing" => DOMAIN jobWrites[w] = {run[w].job}

\* A row is locked by one open transaction at a time, and so is a document.
LocksExclusive ==
    \A v, w \in Workers : v # w =>
        /\ DOMAIN jobWrites[v] \cap DOMAIN jobWrites[w] = {}
        /\ DOMAIN docWrites[v] \cap DOMAIN docWrites[w] = {}

\* Committed rows and drafts alike: what a row's status says of its other columns.
RowOK(row) ==
    /\ row.status = "ready" =>
         row.attempts < MaxAttempts /\ row.worker = NoWorker /\ row.lease = NoLease
    /\ row.status = "running" => row.worker \in Workers
    /\ row.by <= row.attempts

RowsOK ==
    /\ \A j \in Rows : RowOK(job[j])
    /\ \A w \in Workers : \A j \in DOMAIN jobWrites[w] : RowOK(jobWrites[w][j])

\* What a polling transaction locked is still there to recover or to claim, and
\* its draft moves the row by that much.
PollDraft(w, j) ==
    LET row == job[j]  draft == jobWrites[w][j]
    IN  /\ Recoverable(row) \/ Claimable(row)
        /\ draft.doc = row.doc
        /\ draft.by = row.by
        /\ \/ /\ draft.status = "running"
              /\ draft.worker = w
              /\ draft.attempts = row.attempts + 1
           \/ /\ draft.status = "ready"
              /\ Recoverable(row)
              /\ draft.attempts = row.attempts
           \/ /\ draft.status = "failed"
              /\ Recoverable(row)
              /\ row.attempts = MaxAttempts
              /\ draft.attempts = row.attempts

PollsOK ==
    \A w \in Workers : run[w].pc = "polling" =>
        /\ \A j \in DOMAIN jobWrites[w] : PollDraft(w, j)
        /\ \A i, j \in DOMAIN jobWrites[w] :
             jobWrites[w][i].status = "running" /\ jobWrites[w][j].status = "running" => i = j
        /\ \A d \in DOMAIN docWrites[w] :
             /\ docWrites[w][d] = "failed"
             /\ \E j \in DOMAIN jobWrites[w] : job[j].doc = d /\ jobWrites[w][j].status = "failed"

\* A writer owns the row underneath its draft.
WriteDraft(w) ==
    LET row == job[run[w].job]  draft == jobWrites[w][run[w].job]
    IN  /\ row.status = "running" /\ row.worker = w /\ row.attempts = run[w].gen
        /\ draft.doc = row.doc /\ draft.attempts = row.attempts /\ draft.worker = w
        /\ draft.recovery = row.recovery
        /\ draft.status # "ready"
        /\ draft.by = run[w].gen \/ (draft.status = "running" /\ draft.by = row.by)
        /\ \A d \in DOMAIN docWrites[w] :
             /\ d = row.doc
             /\ docWrites[w][d] = draft.status

WritersOK == \A w \in Workers : run[w].pc = "writing" => WriteDraft(w)

\* A worker whose id is in its job's row works in the attempt the row counts.
GenerationsOK ==
    \A w \in Workers : run[w].pc \in AtWork =>
        /\ run[w].gen <= job[run[w].job].attempts
        /\ job[run[w].job].status = "running" /\ job[run[w].job].worker = w
             => job[run[w].job].attempts = run[w].gen

\* A full run never works on a row that is to be resumed, and a worker with
\* only its lease left to clear has ended its job.
RunnersOK ==
    \A w \in Workers :
        /\ run[w].pc \in {"preparing", "running", "writing"}
           /\ job[run[w].job].status = "running" /\ job[run[w].job].worker = w
             => ~Resuming(w)
        /\ run[w].pc = "finished" => job[run[w].job].status \in Terminal

\* Under the timing assumption the second commit of a resumption comes in time.
ResumersOK ==
    CommitsPromptly => \A w \in Workers : run[w].pc = "resumed" => Holds(w)

LeaseInv ==
    /\ QueueTypeOK
    /\ RunShape
    /\ LocksExclusive
    /\ RowsOK
    /\ PollsOK
    /\ WritersOK
    /\ GenerationsOK
    /\ RunnersOK
    /\ ResumersOK
    /\ OneActiveJob
    /\ ActiveJobDocumentNotFailed

-----------------------------------------------------------------------------
(* What keeps a resumption from a job that was begun anew: a row that      *)
(* waits at a resumable stage waits for a resumption; an attempt that      *)
(* begins a full run found no such stage, neither in the row nor in the    *)
(* copy it may flush; and the stages it reports are those of the run       *)
(* begun last.                                                             *)

Mine(w)     == job[run[w].job].status = "running" /\ job[run[w].job].worker = w
Resumes(row) == row.recovery = "resume_graph_projection"
IsAt(row)    == row.stage \in ResumableStages

WaitingOK == \A j \in Rows : job[j].status = "ready" /\ IsAt(job[j]) => Resumes(job[j])

\* A poll keeps the stage and chooses to resume exactly from a resumable one.
PollStagesOK ==
    \A w \in Workers : run[w].pc = "polling" => \A j \in DOMAIN jobWrites[w] :
        LET row == job[j]  draft == jobWrites[w][j]
        IN  draft.status \in Active =>
              /\ draft.stage = row.stage
              /\ draft.status = "running" => draft.attempts # 0
              /\ Resumes(draft) => Resumes(row) \/ IsAt(row)
              /\ IsAt(draft) => Resumes(draft)

BeginnersOK ==
    \A w \in Workers : run[w].pc \in AtWork =>
        /\ run[w].gen # 0
        /\ run[w].pc \in {"claimed", "leased"} /\ Mine(w) /\ (IsAt(job[run[w].job]) \/ IsAt(run[w]))
             => Resuming(w)
        /\ run[w].pc = "preparing" => ~IsAt(run[w])

BegunOK ==
    \A w \in Workers :
        /\ run[w].pc \in {"preparing", "running"} /\ Mine(w) => began[run[w].job] = run[w].gen
        /\ run[w].pc = "writing" /\ jobWrites[w][run[w].job].status = "running" =>
             IF DOMAIN docWrites[w] = {}
             THEN began[run[w].job] = run[w].gen
             ELSE ~IsAt(jobWrites[w][run[w].job]) /\ ~IsAt(run[w])

ResumptionInv ==
    /\ HistoryTypeOK
    /\ WaitingOK
    /\ PollStagesOK
    /\ BeginnersOK
    /\ BegunOK
    /\ ResumeFromSearchReady

IInv == LeaseInv /\ ResumptionInv
=============================================================================
