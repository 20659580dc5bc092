--------------------------- MODULE JobQueueProofs ---------------------------
(***************************************************************************)
(* Theorems about JobQueue, for any number of workers, documents, jobs,    *)
(* attempts and ticks, and for either value of CommitsPromptly unless the  *)
(* statement says otherwise, in four parts: the types, the safety          *)
(* properties from the inductive invariant LeaseInv, resumptions, which    *)
(* need the rest of IInv, and the refinement of LeasedJobs.                *)
(***************************************************************************)
EXTENDS JobQueueInv, TLAPS

ConstantsOK ==
    /\ NoWorker \notin Workers
    /\ MaxAttempts \in Nat \ {0}
    /\ LeaseTicks \in Nat \ {0}
    /\ NumJobs \in Nat \ {0}
    /\ ReportedStages \subseteq IndexStage
    /\ CommitsPromptly \in BOOLEAN

LEMMA ConstantsAssumed == ConstantsOK
BY WorkersAssumption, MaxAttemptsAssumption, LeaseTicksAssumption, NumJobsAssumption,
   ReportedStagesAssumption, CommitsPromptlyAssumption DEF ConstantsOK

-----------------------------------------------------------------------------
(* The row operators keep a row a row.                                     *)

\* The column values the operators assign are in the columns' types.
LEMMA ColumnValues ==
    /\ Active \subseteq StageStatus /\ Terminal \subseteq StageStatus
    /\ NoWorker \in Workers \cup {NoWorker}
    /\ {NoLease, LeaseTicks} \subseteq NoLease .. LeaseTicks
    /\ {"none", "resume_graph_projection", "retry_full_index"} \subseteq RecoveryAction
    /\ {"none", "ready", "failed"} \subseteq IndexStage
    /\ 0 \in 0 .. MaxAttempts
BY ConstantsAssumed
   DEF ConstantsOK, Active, Terminal, StageStatus, NoLease, RecoveryAction, IndexStage

LEMMA FreshRowType ==
    ASSUME NEW d \in Docs
    PROVE  NewRow(d) \in JobRow
<1>1. "ready" \in StageStatus
  BY DEF StageStatus
<1> QED BY <1>1, ColumnValues DEF NewRow, JobRow

LEMMA QueueRowTypes ==
    ASSUME NEW row \in JobRow
    PROVE  /\ Recovered(row) \in JobRow
           /\ Claimable(row) => \A w \in Workers : Claimed(row, w) \in JobRow
           /\ Renewed(row) \in JobRow
           /\ Cleared(row) \in JobRow
           /\ Aged(row) \in JobRow
<1>1. {"ready", "running", "failed"} \subseteq StageStatus
  BY DEF StageStatus
<1>2. Recovered(row) \in JobRow
  BY <1>1, ColumnValues DEF Recovered, JobRow
<1>3. ASSUME Claimable(row), NEW w \in Workers PROVE Claimed(row, w) \in JobRow
  <2>1. row.attempts + 1 \in 0 .. MaxAttempts
    BY <1>3, ConstantsAssumed DEF Claimable, JobRow, ConstantsOK
  <2> QED BY <1>1, <2>1, ColumnValues DEF Claimed, JobRow
<1>4. Renewed(row) \in JobRow
  BY ColumnValues DEF Renewed, JobRow
<1>5. Cleared(row) \in JobRow
  BY ColumnValues DEF Cleared, JobRow
<1>6. Aged(row) \in JobRow
  <2>1. AgedLease(row.lease) \in NoLease .. LeaseTicks
    BY ConstantsAssumed DEF AgedLease, JobRow, NoLease, ConstantsOK
  <2> QED BY <2>1 DEF Aged, JobRow
<1> QED BY <1>2, <1>3, <1>4, <1>5, <1>6

LEMMA RunnerRowTypes ==
    ASSUME NEW row \in JobRow, NEW gen \in 0 .. MaxAttempts,
           NEW status \in Terminal, NEW stage \in IndexStage
    PROVE  /\ MarkedFailed(row, gen) \in JobRow
           /\ Finished(row, gen, status, stage) \in JobRow
           /\ Stamped(row, stage) \in JobRow
           /\ [Renewed(row) EXCEPT !.stage = stage, !.by = gen] \in JobRow
<1>1. "failed" \in StageStatus
  BY DEF StageStatus
<1>2. Renewed(row) \in JobRow
  BY ColumnValues DEF Renewed, JobRow
<1> QED BY <1>1, <1>2, ColumnValues DEF MarkedFailed, Finished, Stamped, JobRow

-----------------------------------------------------------------------------
(* Type correctness, with the shape of run and tx it rests on.             *)

Typed == QueueTypeOK /\ RunShape

\* What a worker past its poll works on.
LEMMA WorkerFacts ==
    ASSUME Typed, NEW w \in Workers
    PROVE  /\ run[w].pc \in Phases /\ run[w].gen \in 0 .. MaxAttempts
           /\ run[w].stage \in IndexStage
           /\ run[w].pc \in AtWork =>
                /\ run[w].job \in Rows
                /\ job[run[w].job] \in JobRow
                /\ job[run[w].job].doc \in Docs
BY DEF Typed, QueueTypeOK, RunType, RunShape, JobRow

LEMMA InitTyped == Init => Typed
<1> SUFFICES ASSUME Init PROVE Typed
  OBVIOUS
<1>1. queued \in 0 .. NumJobs
  BY ConstantsAssumed DEF Init, ConstantsOK
<1>2. job \in [Rows -> JobRow]
  BY DEF Init, NoWrites, Rows
<1>3. docs \in [Docs -> StageStatus]
  BY DEF Init, StageStatus
<1>4. run \in [Workers -> RunType]
  BY ConstantsAssumed, ColumnValues DEF Init, ConstantsOK, RunType, Idle, Phases
<1>5. RunShape
  BY DEF Init, RunShape, Idle, AtWork, NoWrites
<1> QED BY <1>1, <1>2, <1>3, <1>4, <1>5 DEF Init, Typed, QueueTypeOK, RunType, IsPartial, NoWrites

LEMMA EnqueueTyped ==
    ASSUME Typed, NEW d \in Docs, Enqueue(d)
    PROVE  Typed'
<1> USE DEF Typed, QueueTypeOK, RunType, Enqueue, tx
<1>1. queued' \in 0 .. NumJobs /\ Rows \subseteq Rows' /\ queued + 1 \in Rows'
  BY ConstantsAssumed DEF ConstantsOK, Rows
<1>2. job' \in [Rows' -> JobRow]
  <2>1. Rows' = 1 .. queued + 1
    BY DEF Rows
  <2> QED BY <2>1, FreshRowType
<1>3. docs' \in [Docs -> StageStatus]
  BY DEF StageStatus
<1>4. QueueTypeOK'
  BY <1>1, <1>2, <1>3 DEF IsPartial
<1>5. RunShape'
  BY <1>1 DEF RunShape
<1> QED BY <1>4, <1>5

\* The parts of a step that only replaces one worker's record in run.
LEMMA RunTyped ==
    ASSUME Typed, NEW w \in Workers,
           NEW r \in RunType,
           run' = [run EXCEPT ![w] = r], queued' = queued
    PROVE  run' \in [Workers -> [pc: Phases, job: Rows' \cup {NoJob}, gen: 0 .. MaxAttempts,
       stage: IndexStage]]
BY DEF Typed, QueueTypeOK, RunType, Rows

\* A worker's writes may be replaced by any partial function of the right type.
LEMMA WritesTyped ==
    ASSUME NEW W, NEW S, NEW T, NEW f, DOMAIN f = Workers,
           \A w \in Workers : IsPartial(f[w], S, T),
           NEW w \in Workers, NEW g, IsPartial(g, S, T),
           W = [f EXCEPT ![w] = g]
    PROVE  /\ DOMAIN W = Workers
           /\ \A v \in Workers : IsPartial(W[v], S, T)
           /\ W[w] = g
           /\ \A v \in Workers \ {w} : W[v] = f[v]
<1>1. DOMAIN W = Workers
  OBVIOUS
<1>2. W[w] = g /\ \A v \in Workers \ {w} : W[v] = f[v]
  OBVIOUS
<1>3. ASSUME NEW v \in Workers PROVE IsPartial(W[v], S, T)
  BY <1>2
<1> QED BY <1>1, <1>2, <1>3

LEMMA PollTyped ==
    ASSUME Typed, NEW w \in Workers, Poll(w)
    PROVE  Typed'
<1> USE DEF Typed
<1> DEFINE touched == LapsedJobs \cup NextClaims
           failed  == DocsGivenUp
           drafts  == [j \in touched |-> IF j \in NextClaims THEN Claimed(Seen(j), w) ELSE Seen(j)]
           docDrafts == [d \in failed |-> "failed"]
<1>1. touched \subseteq Rows /\ failed \subseteq Docs
  BY DEF DocsGivenUp, LapsedJobs, NextClaims, ClaimableJobs, QueueTypeOK, RunType, JobRow
<1>2. \A j \in Rows : Seen(j) \in JobRow
  BY QueueRowTypes DEF Seen, QueueTypeOK, RunType
<1>3. \A j \in touched : drafts[j] \in JobRow
  BY <1>1, <1>2, QueueRowTypes DEF NextClaims, ClaimableJobs
<1>4. IsPartial(drafts, Rows, JobRow) /\ IsPartial(docDrafts, Docs, StageStatus)
  <2> HIDE DEF touched, failed
  <2> QED BY <1>1, <1>3 DEF IsPartial, StageStatus
<1>5. /\ jobWrites' = [jobWrites EXCEPT ![w] = drafts]
      /\ docWrites' = [docWrites EXCEPT ![w] = docDrafts]
      /\ run' = [run EXCEPT ![w].pc = "polling"]
      /\ UNCHANGED <<queued, job, docs, Rows>>
  BY DEF Poll, Rows
<1> HIDE DEF drafts, docDrafts
<1>6. /\ DOMAIN jobWrites' = Workers
      /\ \A v \in Workers : IsPartial(jobWrites'[v], Rows, JobRow)
      /\ \A v \in Workers \ {w} : jobWrites'[v] = jobWrites[v]
  BY <1>4, <1>5, WritesTyped DEF QueueTypeOK, RunType
<1>7. /\ DOMAIN docWrites' = Workers
      /\ \A v \in Workers : IsPartial(docWrites'[v], Docs, StageStatus)
      /\ \A v \in Workers \ {w} : docWrites'[v] = docWrites[v]
  BY <1>4, <1>5, WritesTyped DEF QueueTypeOK, RunType
<1>8. run' \in [Workers -> RunType]
  BY <1>5 DEF QueueTypeOK, RunType, Phases
<1>9. QueueTypeOK'
  <2>1. job' \in [Rows' -> JobRow] /\ docs' \in [Docs -> StageStatus] /\ queued' \in 0 .. NumJobs
    BY <1>5 DEF QueueTypeOK, RunType
  <2> QED BY <2>1, <1>5, <1>6, <1>7, <1>8 DEF QueueTypeOK, RunType
<1>10. RunShape'
  BY <1>5, <1>6, <1>7 DEF QueueTypeOK, RunType, RunShape, AtWork
<1> QED BY <1>9, <1>10

\* A step that leaves queued alone: what is left to show for Typed'.
LEMMA TypedParts ==
    ASSUME Typed, UNCHANGED queued,
           job' \in [Rows -> JobRow], docs' \in [Docs -> StageStatus],
           DOMAIN jobWrites' = Workers, DOMAIN docWrites' = Workers,
           \A w \in Workers : IsPartial(jobWrites'[w], Rows, JobRow),
           \A w \in Workers : IsPartial(docWrites'[w], Docs, StageStatus),
           run' \in [Workers -> RunType]
    PROVE  QueueTypeOK'
<1>1. Rows' = Rows
  BY DEF Rows
<1> QED BY <1>1 DEF Typed, QueueTypeOK, RunType

\* A worker's transaction closes: it holds no writes, the others keep theirs.
LEMMA CloseTxTyped ==
    ASSUME Typed, NEW w \in Workers, CloseTx(w)
    PROVE  /\ DOMAIN jobWrites' = Workers /\ DOMAIN docWrites' = Workers
           /\ \A v \in Workers : IsPartial(jobWrites'[v], Rows, JobRow)
           /\ \A v \in Workers : IsPartial(docWrites'[v], Docs, StageStatus)
           /\ DOMAIN jobWrites'[w] = {} /\ DOMAIN docWrites'[w] = {}
           /\ \A v \in Workers \ {w} :
                jobWrites'[v] = jobWrites[v] /\ docWrites'[v] = docWrites[v]
<1>1. DOMAIN NoWrites = {}
  BY DEF NoWrites
<1>2. IsPartial(NoWrites, Rows, JobRow) /\ IsPartial(NoWrites, Docs, StageStatus)
  BY <1>1 DEF IsPartial
<1>3. /\ jobWrites' = [jobWrites EXCEPT ![w] = NoWrites]
      /\ docWrites' = [docWrites EXCEPT ![w] = NoWrites]
  BY DEF CloseTx
<1>4. /\ DOMAIN jobWrites' = Workers
      /\ \A v \in Workers : IsPartial(jobWrites'[v], Rows, JobRow)
      /\ jobWrites'[w] = NoWrites
      /\ \A v \in Workers \ {w} : jobWrites'[v] = jobWrites[v]
  BY <1>2, <1>3, WritesTyped DEF Typed, QueueTypeOK, RunType
<1>5. /\ DOMAIN docWrites' = Workers
      /\ \A v \in Workers : IsPartial(docWrites'[v], Docs, StageStatus)
      /\ docWrites'[w] = NoWrites
      /\ \A v \in Workers \ {w} : docWrites'[v] = docWrites[v]
  BY <1>2, <1>3, WritesTyped DEF Typed, QueueTypeOK, RunType
<1> QED BY <1>1, <1>4, <1>5

LEMMA PublishTyped ==
    ASSUME Typed, NEW w \in Workers, Publish(w)
    PROVE  job' \in [Rows -> JobRow] /\ docs' \in [Docs -> StageStatus]
<1>1. IsPartial(jobWrites[w], Rows, JobRow) /\ IsPartial(docWrites[w], Docs, StageStatus)
  BY DEF Typed, QueueTypeOK, RunType
<1> QED BY <1>1 DEF Typed, QueueTypeOK, RunType, Publish, IsPartial

\* A worker goes back to the poll with no transaction open.
LEMMA IdleShape ==
    ASSUME Typed, NEW w \in Workers, UNCHANGED queued,
           run' = [run EXCEPT ![w] = Idle],
           DOMAIN jobWrites'[w] = {} /\ DOMAIN docWrites'[w] = {},
           \A v \in Workers \ {w} :
             jobWrites'[v] = jobWrites[v] /\ docWrites'[v] = docWrites[v]
    PROVE  /\ run' \in [Workers -> RunType]
           /\ RunShape'
<1>1. Idle \in RunType
  BY ConstantsAssumed, ColumnValues DEF ConstantsOK, RunType, Idle, Phases
<1>2. Rows' = Rows
  BY DEF Rows
<1>3. Idle.pc \notin AtWork /\ Idle.pc \notin {"polling", "writing"}
  BY DEF Idle, AtWork
<1> QED BY <1>1, <1>2, <1>3 DEF Typed, QueueTypeOK, RunType, RunShape

LEMMA CommitPollTyped ==
    ASSUME Typed, NEW w \in Workers, CommitPoll(w)
    PROVE  Typed'
<1> DEFINE next == IF ClaimsOf(w) = {} THEN Idle
                   ELSE LET j == CHOOSE j \in ClaimsOf(w) : TRUE
                        IN  [pc |-> "claimed", job |-> j, gen |-> jobWrites[w][j].attempts,
                             stage |-> jobWrites[w][j].stage]
<1>1. run' = [run EXCEPT ![w] = next] /\ Publish(w) /\ CloseTx(w) /\ UNCHANGED queued
  BY DEF CommitPoll, Publish
<1>2. Rows' = Rows
  BY <1>1 DEF Rows
<1>3. CASE ClaimsOf(w) = {}
  BY <1>1, <1>3, CloseTxTyped, PublishTyped, IdleShape, TypedParts DEF Typed
<1>4. CASE ClaimsOf(w) # {}
  <2>1. PICK j \in ClaimsOf(w) :
            next = [pc |-> "claimed", job |-> j, gen |-> jobWrites[w][j].attempts,
                    stage |-> jobWrites[w][j].stage]
    BY <1>4
  <2>2. /\ j \in Rows /\ jobWrites[w][j].attempts \in 0 .. MaxAttempts
        /\ jobWrites[w][j].stage \in IndexStage
    BY DEF ClaimsOf, Typed, QueueTypeOK, RunType, IsPartial, JobRow
  <2>3. next \in RunType
    BY <2>1, <2>2 DEF RunType, Phases
  <2> HIDE DEF next
  <2>4. RunShape'
    BY <1>1, <1>2, <2>1, <2>2, CloseTxTyped DEF Typed, QueueTypeOK, RunType, RunShape, AtWork
  <2>5. run' \in [Workers -> RunType]
    BY <1>1, <2>3 DEF Typed, QueueTypeOK, RunType
  <2> QED BY <1>1, <2>4, <2>5, CloseTxTyped, PublishTyped, TypedParts DEF Typed
<1> QED BY <1>3, <1>4

\* The steps that write one committed row, and perhaps a document, and move w.
LEMMA RowStepTyped ==
    ASSUME Typed, NEW w \in Workers, run[w].pc \in AtWork \ {"writing"},
           UNCHANGED <<queued, tx>>,
           NEW row \in JobRow, job' = [job EXCEPT ![run[w].job] = row],
           docs' \in [Docs -> StageStatus],
           \/ run' = [run EXCEPT ![w] = Idle]
           \/ run' = run
           \/ run' = [run EXCEPT ![w].pc = "leased"]
           \/ run' = [run EXCEPT ![w].pc = "resumed"]
           \/ run' = [run EXCEPT ![w].pc = "running"]
    PROVE  Typed'
<1>1. Rows' = Rows /\ UNCHANGED <<jobWrites, docWrites>>
  BY DEF Rows, tx
<1>2. job' \in [Rows -> JobRow]
  BY DEF Typed, QueueTypeOK, RunType
<1>3. DOMAIN jobWrites[w] = {} /\ DOMAIN docWrites[w] = {}
  BY DEF Typed, RunShape, AtWork
<1>4. /\ run' \in [Workers -> RunType]
      /\ RunShape'
  <2>1. CASE run' = [run EXCEPT ![w] = Idle]
    BY <1>1, <1>3, <2>1, IdleShape
  <2>2. CASE run' = run
    BY <1>1, <2>2 DEF Typed, QueueTypeOK, RunType, RunShape
  <2>3. CASE run' = [run EXCEPT ![w].pc = "leased"]
    BY <1>1, <1>3, <2>3 DEF Typed, QueueTypeOK, RunType, RunShape, AtWork, Phases
  <2>4. CASE run' = [run EXCEPT ![w].pc = "resumed"]
    BY <1>1, <1>3, <2>4 DEF Typed, QueueTypeOK, RunType, RunShape, AtWork, Phases
  <2>5. CASE run' = [run EXCEPT ![w].pc = "running"]
    BY <1>1, <1>3, <2>5 DEF Typed, QueueTypeOK, RunType, RunShape, AtWork, Phases
  <2> QED BY <2>1, <2>2, <2>3, <2>4, <2>5
<1> QED BY <1>1, <1>2, <1>4, TypedParts DEF Typed, QueueTypeOK, RunType

LEMMA HeartbeatTyped ==
    ASSUME Typed, NEW w \in Workers, Heartbeat(w)
    PROVE  Typed'
<1>1. run[w].pc \in AtWork \ {"writing"}
  BY DEF Heartbeat, AtJob, Beating, AtWork
<1>2. job[run[w].job] \in JobRow
  BY <1>1, WorkerFacts
<1>3. Renewed(job[run[w].job]) \in JobRow
  BY <1>2, QueueRowTypes
<1>4. run' = run \/ run' = [run EXCEPT ![w].pc = "leased"]
  BY DEF Heartbeat, Typed, QueueTypeOK, RunType
<1>5. /\ job' = [job EXCEPT ![run[w].job] = Renewed(job[run[w].job])]
      /\ UNCHANGED <<queued, tx>> /\ docs' \in [Docs -> StageStatus]
  BY DEF Heartbeat, Typed, QueueTypeOK, RunType
<1> QED BY <1>1, <1>3, <1>4, <1>5, RowStepTyped

LEMMA StampResultTyped ==
    ASSUME Typed, NEW w \in Workers, StampResult(w)
    PROVE  Typed'
<1>1. run[w].pc \in AtWork \ {"writing"}
  BY DEF StampResult, AtJob, AtWork
<1>2. PICK row \in {Stamped(job[run[w].job], run[w].stage), job[run[w].job]} :
        job' = [job EXCEPT ![run[w].job] = row]
  BY DEF StampResult, Typed, QueueTypeOK
<1>3. row \in JobRow
  <2>1. "failed" \in Terminal
    BY DEF Terminal
  <2> QED BY <1>1, <2>1, WorkerFacts, RunnerRowTypes
<1>4. /\ run' = [run EXCEPT ![w].pc = "running"]
      /\ UNCHANGED <<queued, tx>> /\ docs' \in [Docs -> StageStatus]
  BY DEF StampResult, Typed, QueueTypeOK, RunType
<1> QED BY <1>1, <1>2, <1>3, <1>4, RowStepTyped

LEMMA ResumeRenewTyped ==
    ASSUME Typed, NEW w \in Workers, ResumeRenew(w)
    PROVE  Typed'
<1>1. run[w].pc \in AtWork \ {"writing"}
  BY DEF ResumeRenew, AtJob, AtWork
<1>2. Renewed(job[run[w].job]) \in JobRow
  BY <1>1, WorkerFacts, QueueRowTypes
<1>3. /\ job' = [job EXCEPT ![run[w].job] = Renewed(job[run[w].job])]
      /\ run' = [run EXCEPT ![w].pc = "resumed"]
      /\ UNCHANGED <<queued, tx>> /\ docs' \in [Docs -> StageStatus]
  BY DEF ResumeRenew, Typed, QueueTypeOK, RunType
<1> QED BY <1>1, <1>2, <1>3, RowStepTyped

LEMMA ClearTerminalLeaseTyped ==
    ASSUME Typed, NEW w \in Workers, ClearTerminalLease(w)
    PROVE  Typed'
<1>1. run[w].pc \in AtWork \ {"writing"}
  BY DEF ClearTerminalLease, AtJob, AtWork
<1>2. Cleared(job[run[w].job]) \in JobRow
  BY <1>1, WorkerFacts, QueueRowTypes
<1>3. /\ job' = [job EXCEPT ![run[w].job] = Cleared(job[run[w].job])]
      /\ run' = [run EXCEPT ![w] = Idle]
      /\ UNCHANGED <<queued, tx>> /\ docs' \in [Docs -> StageStatus]
  BY DEF ClearTerminalLease, Typed, QueueTypeOK, RunType
<1> QED BY <1>1, <1>2, <1>3, RowStepTyped

LEMMA ResumeFinishTyped ==
    ASSUME Typed, NEW w \in Workers, ResumeFinish(w)
    PROVE  Typed'
<1> DEFINE row == Cleared(Finished(job[run[w].job], run[w].gen, "succeeded", "ready"))
<1>1. run[w].pc \in AtWork \ {"writing"}
  BY DEF ResumeFinish, AtJob, AtWork
<1>2. "succeeded" \in Terminal /\ "succeeded" \in StageStatus
  BY DEF Terminal, StageStatus
<1>3. row \in JobRow
  BY <1>1, <1>2, WorkerFacts, ColumnValues, RunnerRowTypes, QueueRowTypes
<1>4. /\ job' = [job EXCEPT ![run[w].job] = row]
      /\ run' = [run EXCEPT ![w] = Idle]
      /\ UNCHANGED <<queued, tx>> /\ docs' \in [Docs -> StageStatus]
  BY <1>2 DEF ResumeFinish, Typed, QueueTypeOK, RunType
<1> HIDE DEF row
<1> QED BY <1>1, <1>3, <1>4, RowStepTyped

LEMMA MarkFailedTyped ==
    ASSUME Typed, NEW w \in Workers, MarkFailed(w)
    PROVE  Typed'
<1> DEFINE row == MarkedFailed(job[run[w].job], run[w].gen)
<1>1. run[w].pc \in AtWork \ {"writing"}
  BY DEF MarkFailed, AtJob, AtWork, Beating
<1>2. "failed" \in Terminal /\ "failed" \in StageStatus
  BY DEF Terminal, StageStatus
<1>3. row \in JobRow
  BY <1>1, <1>2, WorkerFacts, ColumnValues, RunnerRowTypes
<1>4. /\ job' = [job EXCEPT ![run[w].job] = row]
      /\ run' = [run EXCEPT ![w] = Idle]
      /\ UNCHANGED <<queued, tx>> /\ docs' \in [Docs -> StageStatus]
  BY <1>2 DEF MarkFailed, Typed, QueueTypeOK, RunType
<1> HIDE DEF row
<1> QED BY <1>1, <1>3, <1>4, RowStepTyped

LEMMA LeaseLostTyped ==
    ASSUME Typed, NEW w \in Workers, LeaseLost(w)
    PROVE  Typed'
<1>1. run[w].pc \in AtWork \ {"writing"}
  BY DEF LeaseLost, AtJob, AtWork, Beating
<1>2. job[run[w].job] \in JobRow /\ job = [job EXCEPT ![run[w].job] = job[run[w].job]]
  BY <1>1, WorkerFacts DEF Typed, QueueTypeOK, RunType
<1>3. /\ UNCHANGED <<job, queued, tx>> /\ run' = [run EXCEPT ![w] = Idle]
      /\ docs' \in [Docs -> StageStatus]
  BY DEF LeaseLost, Typed, QueueTypeOK, RunType
<1> QED BY <1>1, <1>2, <1>3, RowStepTyped

LEMMA PublishChunksTyped ==
    ASSUME Typed, NEW w \in Workers, PublishChunks(w)
    PROVE  Typed'
<1>1. run[w].pc \in AtWork \ {"writing"}
  BY DEF PublishChunks, AtWork
<1>2. job[run[w].job] \in JobRow /\ job = [job EXCEPT ![run[w].job] = job[run[w].job]]
  BY <1>1, WorkerFacts DEF Typed, QueueTypeOK, RunType
<1>3. UNCHANGED <<job, queued, tx, run>> /\ docs' \in [Docs -> StageStatus]
  BY DEF PublishChunks, Typed, QueueTypeOK, RunType, StageStatus
<1> QED BY <1>1, <1>2, <1>3, RowStepTyped

\* A transaction on the worker's own job opens, with or without its document.
LEMMA WriteJobTyped ==
    ASSUME Typed, NEW w \in Workers, run[w].pc \in AtWork \ {"writing"},
           NEW row \in JobRow, WriteJob(w, row),
           \/ UNCHANGED docWrites
           \/ \E status \in StageStatus : WriteDoc(w, status)
    PROVE  Typed'
<1> DEFINE draft == [j \in {run[w].job} |-> row]
<1>1. /\ jobWrites' = [jobWrites EXCEPT ![w] = draft]
      /\ run' = [run EXCEPT ![w].pc = "writing"]
      /\ UNCHANGED <<queued, job, docs>>
  BY DEF WriteJob
<1>2. DOMAIN draft = {run[w].job} /\ IsPartial(draft, Rows, JobRow)
  BY WorkerFacts DEF IsPartial
<1> HIDE DEF draft
<1>3. /\ DOMAIN jobWrites' = Workers
      /\ \A v \in Workers : IsPartial(jobWrites'[v], Rows, JobRow)
      /\ jobWrites'[w] = draft
      /\ \A v \in Workers \ {w} : jobWrites'[v] = jobWrites[v]
  BY <1>1, <1>2, WritesTyped DEF Typed, QueueTypeOK, RunType
<1>4. /\ DOMAIN docWrites' = Workers
      /\ \A v \in Workers : IsPartial(docWrites'[v], Docs, StageStatus)
      /\ \A v \in Workers \ {w} : docWrites'[v] = docWrites[v]
  <2>1. CASE UNCHANGED docWrites
    BY <2>1 DEF Typed, QueueTypeOK, RunType
  <2>2. CASE \E status \in StageStatus : WriteDoc(w, status)
    <3>1. PICK status \in StageStatus : WriteDoc(w, status)
      BY <2>2
    <3> DEFINE g == [d \in {job[run[w].job].doc} |-> status]
    <3>2. IsPartial(g, Docs, StageStatus)
      BY WorkerFacts DEF IsPartial
    <3>3. docWrites' = [docWrites EXCEPT ![w] = g]
      BY <3>1 DEF WriteDoc
    <3> HIDE DEF g
    <3> QED BY <3>2, <3>3, WritesTyped DEF Typed, QueueTypeOK, RunType
  <2> QED BY <2>1, <2>2
<1>5. /\ run' \in [Workers -> RunType]
      /\ run'[w].pc = "writing" /\ run'[w].job = run[w].job
      /\ \A v \in Workers \ {w} : run'[v] = run[v]
  BY <1>1 DEF Typed, QueueTypeOK, RunType, Phases
<1>6. RunShape'
  <2>1. Rows' = Rows
    BY <1>1 DEF Rows
  <2> QED BY <2>1, <1>2, <1>3, <1>4, <1>5, WorkerFacts DEF Typed, RunShape
<1>7. QueueTypeOK'
  BY <1>1, <1>3, <1>4, <1>5, TypedParts DEF Typed, QueueTypeOK, RunType
<1> QED BY <1>6, <1>7 DEF Typed

LEMMA BeginRunTyped ==
    ASSUME Typed, NEW w \in Workers, BeginRun(w)
    PROVE  Typed'
<1>1. run[w].pc \in AtWork \ {"writing"}
  BY DEF BeginRun, AtJob, AtWork
<1>2. Renewed(job[run[w].job]) \in JobRow /\ "running" \in StageStatus
  BY <1>1, WorkerFacts, QueueRowTypes DEF StageStatus
<1>3. WriteJob(w, Renewed(job[run[w].job])) /\ WriteDoc(w, "running")
  BY DEF BeginRun
<1> QED BY <1>1, <1>2, <1>3, WriteJobTyped

LEMMA BeginStageTyped ==
    ASSUME Typed, NEW w \in Workers, NEW s \in ReportedStages, BeginStage(w, s)
    PROVE  Typed'
<1> DEFINE row == [Renewed(job[run[w].job]) EXCEPT !.stage = s, !.by = run[w].gen]
<1>1. run[w].pc \in AtWork \ {"writing"}
  BY DEF BeginStage, AtJob, AtWork
<1>2. row \in JobRow
  <2>1. s \in IndexStage /\ "failed" \in Terminal
    BY ConstantsAssumed DEF ConstantsOK, Terminal
  <2> QED BY <1>1, <2>1, WorkerFacts, RunnerRowTypes
<1>3. WriteJob(w, row) /\ UNCHANGED docWrites
  BY DEF BeginStage
<1> HIDE DEF row
<1> QED BY <1>1, <1>2, <1>3, WriteJobTyped

LEMMA BeginFinishTyped ==
    ASSUME Typed, NEW w \in Workers, BeginSucceed(w) \/ BeginFail(w)
    PROVE  Typed'
<1>1. PICK status \in Terminal, stage \in IndexStage : BeginFinish(w, status, stage)
  <2>1. {"succeeded", "failed"} \subseteq Terminal
    BY DEF Terminal
  <2> QED BY <2>1, ColumnValues DEF BeginSucceed, BeginFail
<1> DEFINE row == Finished(job[run[w].job], run[w].gen, status, stage)
<1>2. run[w].pc \in AtWork \ {"writing"}
  BY <1>1 DEF BeginFinish, AtJob, AtWork
<1>3. row \in JobRow /\ status \in StageStatus
  BY <1>2, WorkerFacts, RunnerRowTypes, ColumnValues
<1>4. WriteJob(w, row) /\ WriteDoc(w, status)
  BY <1>1 DEF BeginFinish
<1> HIDE DEF row
<1> QED BY <1>2, <1>3, <1>4, WriteJobTyped

LEMMA CommitWriteTyped ==
    ASSUME Typed, NEW w \in Workers, CommitWrite(w)
    PROVE  Typed'
<1>1. run[w].pc = "writing" /\ run[w].pc \in AtWork
  BY DEF CommitWrite, AtWork
<1>2. Publish(w) /\ CloseTx(w) /\ UNCHANGED queued
  BY DEF CommitWrite, Publish
<1>3. PICK pc \in {"finished", "preparing", "running"} : run' = [run EXCEPT ![w].pc = pc]
  BY DEF CommitWrite, Typed, QueueTypeOK, RunType
<1>4. run' \in [Workers -> RunType]
  BY <1>3 DEF Typed, QueueTypeOK, RunType, Phases
<1>5. RunShape'
  <2>1. Rows' = Rows /\ run[w].job \in Rows
    BY <1>1, <1>2, WorkerFacts DEF Rows
  <2> QED BY <2>1, <1>2, <1>3, CloseTxTyped DEF Typed, QueueTypeOK, RunType, RunShape
<1> QED BY <1>2, <1>4, <1>5, CloseTxTyped, PublishTyped, TypedParts DEF Typed

LEMMA CrashTyped ==
    ASSUME Typed, NEW w \in Workers, Crash(w)
    PROVE  Typed'
<1>1. CloseTx(w) /\ UNCHANGED <<queued, job, docs>> /\ run' = [run EXCEPT ![w] = Idle]
  BY DEF Crash
<1> QED BY <1>1, CloseTxTyped, IdleShape, TypedParts DEF Typed, QueueTypeOK, RunType

LEMMA TickTyped ==
    ASSUME Typed, Tick
    PROVE  Typed'
<1>1. /\ job' = [j \in Rows |-> Aged(job[j])]
      /\ jobWrites' = [w \in Workers |-> [j \in DOMAIN jobWrites[w] |-> Aged(jobWrites[w][j])]]
      /\ UNCHANGED <<queued, docs, docWrites, run>>
  BY DEF Tick
<1>2. job' \in [Rows -> JobRow]
  BY <1>1, QueueRowTypes DEF Typed, QueueTypeOK, RunType
<1>3. \A w \in Workers : /\ DOMAIN jobWrites'[w] = DOMAIN jobWrites[w]
                         /\ IsPartial(jobWrites'[w], Rows, JobRow)
  BY <1>1, QueueRowTypes DEF Typed, QueueTypeOK, RunType, IsPartial
<1>4. RunShape'
  <2>1. Rows' = Rows
    BY <1>1 DEF Rows
  <2> QED BY <2>1, <1>1, <1>3 DEF Typed, RunShape
<1>5. QueueTypeOK'
  BY <1>1, <1>2, <1>3, TypedParts DEF Typed, QueueTypeOK, RunType
<1> QED BY <1>4, <1>5 DEF Typed

LEMMA StepTyped == Typed /\ [Next]_vars => Typed'
<1> SUFFICES ASSUME Typed, [Next]_vars PROVE Typed'
  OBVIOUS
<1>1. CASE UNCHANGED vars
  BY <1>1 DEF vars, tx, Typed, QueueTypeOK, RunType, RunShape, Rows
<1>2. ASSUME NEW d \in Docs, Enqueue(d) PROVE Typed'
  BY <1>2, EnqueueTyped
<1>3. ASSUME NEW w \in Workers, Work(w) PROVE Typed'
  BY <1>3, PollTyped, CommitPollTyped, HeartbeatTyped, LeaseLostTyped, BeginRunTyped,
     StampResultTyped, BeginStageTyped, BeginFinishTyped, CommitWriteTyped, ClearTerminalLeaseTyped,
     ResumeRenewTyped, ResumeFinishTyped, MarkFailedTyped, PublishChunksTyped
     DEF Work
<1>4. ASSUME NEW w \in Workers, Crash(w) PROVE Typed'
  BY <1>4, CrashTyped
<1>5. CASE Tick
  BY <1>5, TickTyped
<1> QED BY <1>1, <1>2, <1>3, <1>4, <1>5 DEF Next

-----------------------------------------------------------------------------
(* Safety: LeaseInv is an inductive invariant of JobQueue, and the safety  *)
(* properties of JobQueue follow from it.  Every lemma about a step takes  *)
(* Typed and Typed' from the first part.                                   *)

\* The parts of LeaseInv that speak of sessions, rows and runners, and the two
\* that relate rows to each other and to the documents.
Sessions == LocksExclusive /\ PollsOK /\ WritersOK
Runners  == GenerationsOK /\ RunnersOK /\ ResumersOK
Tables   == OneActiveJob /\ ActiveJobDocumentNotFailed

LEMMA LeaseInvParts == LeaseInv <=> Typed /\ Sessions /\ RowsOK /\ Runners /\ Tables
BY DEF LeaseInv, Typed, Sessions, Runners, Tables

LEMMA InitLease == Init => LeaseInv
<1> SUFFICES ASSUME Init PROVE LeaseInv
  OBVIOUS
<1>1. /\ Rows = {} /\ \A w \in Workers : run[w] = Idle
      /\ \A w \in Workers : DOMAIN jobWrites[w] = {} /\ DOMAIN docWrites[w] = {}
  BY DEF Init, Rows, NoWrites
<1>2. Idle.pc = "idle"
  BY DEF Idle
<1>3. Sessions
  BY <1>1, <1>2 DEF Sessions, LocksExclusive, PollsOK, WritersOK
<1>4. RowsOK
  BY <1>1 DEF RowsOK
<1>5. Runners
  BY <1>1, <1>2 DEF Runners, GenerationsOK, RunnersOK, ResumersOK, AtWork
<1>6. Tables
  BY <1>1 DEF Tables, OneActiveJob, ActiveJobDocumentNotFailed
<1> QED BY <1>3, <1>4, <1>5, <1>6, InitTyped, LeaseInvParts

-----------------------------------------------------------------------------
(* Steps that leave the rows alone.                                        *)

\* A worker drops what it was doing, or goes on, while the rows keep their
\* values and no document becomes FAILED or READY.
LEMMA QuitSafe ==
    ASSUME LeaseInv, Typed', NEW w \in Workers, UNCHANGED <<queued, job>>,
           \A v \in Workers \ {w} :
             jobWrites'[v] = jobWrites[v] /\ docWrites'[v] = docWrites[v],
           \/ jobWrites'[w] = jobWrites[w] /\ docWrites'[w] = docWrites[w]
           \/ DOMAIN jobWrites'[w] = {} /\ DOMAIN docWrites'[w] = {},
           run' = [run EXCEPT ![w] = Idle] \/ UNCHANGED <<run, tx>>,
           \A d \in Docs : docs'[d] = docs[d] \/ docs'[d] = "succeeded"
    PROVE  LeaseInv'
<1> USE LeaseInvParts
<1>1. Rows' = Rows /\ Idle.pc = "idle"
  BY DEF Rows, Idle
<1>2. /\ \A v \in Workers \ {w} : run'[v] = run[v]
      /\ run'[w] = Idle \/ UNCHANGED <<run, jobWrites, docWrites>>
  BY DEF Typed, QueueTypeOK, tx
<1>3. LocksExclusive'
  BY DEF Sessions, LocksExclusive
<1>4. PollsOK'
  BY <1>1, <1>2 DEF Sessions, PollsOK, PollDraft
<1>5. WritersOK'
  BY <1>1, <1>2 DEF Sessions, WritersOK, WriteDraft
<1>6. RowsOK'
  BY <1>1 DEF RowsOK
<1>7. GenerationsOK'
  BY <1>1, <1>2 DEF Runners, GenerationsOK, AtWork
<1>8. RunnersOK'
  BY <1>1, <1>2 DEF Runners, RunnersOK, Resuming
<1>9. ResumersOK'
  BY <1>1, <1>2 DEF Runners, ResumersOK, Holds
<1>10. OneActiveJob'
  BY <1>1 DEF Tables, OneActiveJob
<1>11. ActiveJobDocumentNotFailed'
  BY <1>1 DEF Tables, ActiveJobDocumentNotFailed, Typed, QueueTypeOK, JobRow
<1> QED BY <1>3, <1>4, <1>5, <1>6, <1>7, <1>8, <1>9, <1>10, <1>11
        DEF LeaseInv, Typed

LEMMA LeaseLostSafe ==
    ASSUME LeaseInv, Typed', NEW w \in Workers, LeaseLost(w)
    PROVE  LeaseInv'
<1>1. /\ UNCHANGED <<queued, job, docs, jobWrites, docWrites>>
      /\ run' = [run EXCEPT ![w] = Idle]
  BY DEF LeaseLost, tx
<1> QED BY <1>1, QuitSafe

LEMMA PublishChunksSafe ==
    ASSUME LeaseInv, Typed', NEW w \in Workers, PublishChunks(w)
    PROVE  LeaseInv'
<1>1. /\ UNCHANGED <<queued, job, jobWrites, docWrites, run, tx>>
      /\ \A d \in Docs : docs'[d] = docs[d] \/ docs'[d] = "succeeded"
  BY DEF PublishChunks, tx, LeaseInv, QueueTypeOK
<1> QED BY <1>1, QuitSafe

LEMMA CrashSafe ==
    ASSUME LeaseInv, Typed', NEW w \in Workers, Crash(w)
    PROVE  LeaseInv'
<1>1. UNCHANGED <<queued, job, docs>> /\ CloseTx(w) /\ run' = [run EXCEPT ![w] = Idle]
  BY DEF Crash
<1>2. /\ DOMAIN jobWrites'[w] = {} /\ DOMAIN docWrites'[w] = {}
      /\ \A v \in Workers \ {w} :
           jobWrites'[v] = jobWrites[v] /\ docWrites'[v] = docWrites[v]
  BY <1>1, CloseTxTyped, LeaseInvParts
<1> QED BY <1>1, <1>2, QuitSafe

-----------------------------------------------------------------------------
(* Steps in which a runner writes the committed row of its job.            *)

\* The lock discipline: a row that no transaction has locked may change
\* without touching what the open transactions have drafted.
LEMMA RowStepSessions ==
    ASSUME LeaseInv, Typed', NEW w \in Workers, run[w].pc \in AtWork \ {"writing"},
           ~JobLocked(run[w].job), UNCHANGED <<queued, jobWrites, docWrites>>,
           NEW row, job' = [job EXCEPT ![run[w].job] = row],
           \A v \in Workers \ {w} : run'[v] = run[v],
           run'[w].pc \notin {"polling", "writing"}
    PROVE  Sessions'
<1> USE LeaseInvParts
<1>1. Rows' = Rows
  BY DEF Rows
<1>2. \A v \in Workers : \A j \in DOMAIN jobWrites[v] : job'[j] = job[j] /\ j \in Rows
  BY DEF JobLocked, Typed, QueueTypeOK, IsPartial
<1>3. LocksExclusive'
  BY DEF Sessions, LocksExclusive
<1>4. PollsOK'
  BY <1>2 DEF Sessions, PollsOK, PollDraft
<1>5. WritersOK'
  <2> SUFFICES ASSUME NEW v \in Workers, run'[v].pc = "writing" PROVE WriteDraft(v)'
    BY DEF WritersOK
  <2>1. run'[v] = run[v] /\ run[v].job \in DOMAIN jobWrites[v]
    BY DEF Typed, RunShape
  <2> QED BY <2>1, <1>2 DEF Sessions, WritersOK, WriteDraft
<1> QED BY <1>3, <1>4, <1>5 DEF Sessions

\* What a runner may write to its job's committed row, from old to new.
RunnerWrite(old, new) ==
    /\ RowOK(new)
    /\ new.status # "ready"
    /\ new.doc = old.doc /\ new.attempts = old.attempts
    /\ new.status = "running" =>
         /\ old.status = "running" /\ new.worker = old.worker
         /\ new.recovery = old.recovery /\ new.lease > 0
    /\ old.status \in Terminal => new.status \in Terminal

LEMMA RowStepSafe ==
    ASSUME LeaseInv, Typed', NEW w \in Workers, run[w].pc \in AtWork \ {"writing"},
           ~JobLocked(run[w].job), UNCHANGED <<queued, tx>>,
           NEW row, job' = [job EXCEPT ![run[w].job] = row],
           RunnerWrite(job[run[w].job], row),
           Holds(w) \/ job[run[w].job].status \in Terminal \/ ~CommitsPromptly,
           \/ run' = [run EXCEPT ![w] = Idle]
           \/ /\ run' = run \/ \E pc \in {"leased", "resumed"} : run' = [run EXCEPT ![w].pc = pc]
              /\ row.status = "running" /\ Holds(w),
           \/ UNCHANGED docs
           \/ \E status \in Terminal :
                /\ docs' = [docs EXCEPT ![job[run[w].job].doc] = status]
                /\ status = "failed" => row.status = "failed" /\ Holds(w)
    PROVE  LeaseInv'
<1> USE LeaseInvParts
<1> DEFINE j == run[w].job
           old == job[j]
<1>1. Rows' = Rows /\ Idle.pc = "idle" /\ UNCHANGED <<jobWrites, docWrites>>
  BY DEF Rows, Idle, tx
<1>2. j \in Rows /\ old \in JobRow /\ old.doc \in Docs
  BY WorkerFacts
<1>3. /\ \A v \in Workers \ {w} : run'[v] = run[v]
      /\ run'[w] = Idle \/ /\ run'[w].job = run[w].job /\ run'[w].gen = run[w].gen
                           /\ run'[w].pc \in {run[w].pc, "leased", "resumed"}
                           /\ row.status = "running" /\ Holds(w)
  BY DEF Typed, QueueTypeOK, RunType
<1>4. /\ job'[j] = row /\ \A i \in Rows \ {j} : job'[i] = job[i]
  BY <1>2 DEF Typed, QueueTypeOK
<1> HIDE DEF j, old
<1>5. Sessions'
  <2>1. run'[w].pc \notin {"polling", "writing"}
    BY <1>1, <1>3 DEF AtWork
  <2> QED BY <1>1, <1>3, <2>1, RowStepSessions
<1>6. RowsOK'
  <2>1. \A i \in Rows : RowOK(job'[i])
    BY <1>4 DEF RowsOK, RunnerWrite
  <2> QED BY <2>1, <1>1 DEF RowsOK
<1>7. GenerationsOK'
  <2> SUFFICES ASSUME NEW v \in Workers, run'[v].pc \in AtWork
               PROVE  /\ run'[v].gen <= job'[run'[v].job].attempts
                      /\ job'[run'[v].job].status = "running" /\ job'[run'[v].job].worker = v
                           => job'[run'[v].job].attempts = run'[v].gen
    BY DEF GenerationsOK
  <2>1. run'[v].job = run[v].job /\ run'[v].gen = run[v].gen /\ run[v].pc \in AtWork
    BY <1>1, <1>3 DEF AtWork
  <2>2. run[v].job \in Rows
    BY <2>1, WorkerFacts
  <2> QED BY <2>1, <2>2, <1>4 DEF Runners, GenerationsOK, RunnerWrite, old
<1>8. RunnersOK'
  <2> SUFFICES ASSUME NEW v \in Workers
               PROVE  /\ run'[v].pc \in {"preparing", "running", "writing"}
                         /\ job'[run'[v].job].status = "running" /\ job'[run'[v].job].worker = v
                           => job'[run'[v].job].recovery # "resume_graph_projection"
                      /\ run'[v].pc = "finished" => job'[run'[v].job].status \in Terminal
    BY DEF RunnersOK, Resuming
  <2>1. CASE run'[v].pc \in {"preparing", "running", "writing", "finished"}
    <3>1. run'[v].job = run[v].job /\ run'[v].pc = run[v].pc
      BY <1>1, <1>3, <2>1
    <3>2. run[v].job \in Rows
      BY <3>1, <2>1, WorkerFacts DEF AtWork
    <3> QED BY <3>1, <3>2, <1>4 DEF Runners, RunnersOK, Resuming, RunnerWrite, old
  <2> QED BY <2>1
<1>9. ResumersOK'
  <2> SUFFICES ASSUME CommitsPromptly, NEW v \in Workers, run'[v].pc = "resumed"
               PROVE  HoldsLease(job'[run'[v].job], v)
    BY DEF ResumersOK, Holds
  <2>1. CASE v = w
    BY <2>1, <1>1, <1>3, <1>4 DEF RunnerWrite, Holds, HoldsLease, old, j
  <2>2. CASE v # w
    <3>1. run'[v] = run[v] /\ Holds(v) /\ run[v].job \in Rows
      BY <1>3, <2>2, WorkerFacts DEF Runners, ResumersOK, AtWork
    <3>2. run[v].job # j
      BY <3>1, <2>2 DEF Holds, HoldsLease, Terminal, j
    <3> QED BY <3>1, <3>2, <1>4 DEF Holds
  <2> QED BY <2>1, <2>2
<1>10. \A i \in Rows : /\ job'[i].doc = job[i].doc
                       /\ job'[i].status \in Active => job[i].status \in Active
  BY <1>4 DEF RunnerWrite, Active, old
<1>11. OneActiveJob'
  BY <1>1, <1>10 DEF Tables, OneActiveJob
<1>12. ActiveJobDocumentNotFailed'
  <2> SUFFICES ASSUME NEW i \in Rows, job'[i].status \in Active
               PROVE  docs'[job'[i].doc] \notin {"failed", "ready"}
    BY <1>1 DEF ActiveJobDocumentNotFailed
  <2>1. docs[job[i].doc] \notin {"failed", "ready"} /\ job[i].doc \in Docs
    BY <1>10 DEF Tables, ActiveJobDocumentNotFailed, Typed, QueueTypeOK, JobRow
  <2>2. CASE UNCHANGED docs
    BY <2>1, <2>2, <1>10
  <2>3. ASSUME NEW status \in Terminal,
               docs' = [docs EXCEPT ![job[run[w].job].doc] = status],
               status = "failed" => row.status = "failed" /\ Holds(w)
        PROVE  docs'[job'[i].doc] \notin {"failed", "ready"}
    <3>1. CASE status = "failed" /\ job[i].doc = old.doc
      <4>1. i # j
        BY <3>1, <2>3, <1>4 DEF Active
      <4>2. old.status \in Active
        BY <3>1, <2>3 DEF Holds, HoldsLease, Active, old, j
      <4> QED BY <4>1, <4>2, <3>1, <1>2, <1>10 DEF Tables, OneActiveJob, old
    <3>2. CASE status # "failed" \/ job[i].doc # old.doc
      BY <3>2, <2>1, <2>3, <1>10 DEF Typed, QueueTypeOK, Terminal, old, j
    <3> QED BY <3>1, <3>2
  <2> QED BY <2>2, <2>3
<1> QED BY <1>5, <1>6, <1>7, <1>8, <1>9, <1>11, <1>12 DEF LeaseInv, Typed, Sessions

LEMMA HeartbeatSafe ==
    ASSUME LeaseInv, Typed', NEW w \in Workers, Heartbeat(w)
    PROVE  LeaseInv'
<1> DEFINE old == job[run[w].job]
<1>1. run[w].pc \in AtWork \ {"writing"} /\ ~JobLocked(run[w].job) /\ Holds(w)
  BY DEF Heartbeat, AtJob, Beating, AtWork
<1>2. old \in JobRow /\ RowOK(old) /\ old.status = "running"
  BY <1>1, WorkerFacts, LeaseInvParts DEF RowsOK, Holds, HoldsLease
<1>3. /\ RunnerWrite(old, Renewed(old)) /\ Renewed(old).status = "running"
  BY <1>2, ConstantsAssumed
     DEF RunnerWrite, Renewed, RowOK, JobRow, ConstantsOK, Active, Terminal
<1>4. run' = run \/ run' = [run EXCEPT ![w].pc = "leased"]
  BY LeaseInvParts DEF Heartbeat, Typed, QueueTypeOK, RunType
<1>5. /\ job' = [job EXCEPT ![run[w].job] = Renewed(old)]
      /\ UNCHANGED <<queued, tx>> /\ UNCHANGED docs
  BY DEF Heartbeat
<1> QED BY <1>1, <1>3, <1>4, <1>5, RowStepSafe

\* The unchecked write of a late session touches the stage of whatever row it
\* finds, and no other column anybody relies on.
LEMMA StampResultSafe ==
    ASSUME LeaseInv, Typed', NEW w \in Workers, StampResult(w)
    PROVE  LeaseInv'
<1> USE LeaseInvParts
<1> DEFINE j == run[w].job
           old == job[j]
<1>0. PICK row \in {Stamped(old, run[w].stage), old} : job' = [job EXCEPT ![run[w].job] = row]
  BY DEF StampResult, Typed, QueueTypeOK
<1>1. /\ run[w].pc = "preparing" /\ ~JobLocked(run[w].job)
      /\ job' = [job EXCEPT ![run[w].job] = row]
      /\ run' = [run EXCEPT ![w].pc = "running"]
      /\ UNCHANGED <<queued, docs, jobWrites, docWrites>>
  BY <1>0 DEF StampResult, AtJob, tx
<1>2. j \in Rows /\ old \in JobRow /\ RowOK(old) /\ run[w].gen <= old.attempts
  BY <1>1, WorkerFacts DEF RowsOK, AtWork, Runners, GenerationsOK
<1>3. /\ row.doc = old.doc /\ row.status = old.status /\ row.worker = old.worker
      /\ row.lease = old.lease /\ row.attempts = old.attempts /\ row.recovery = old.recovery
      /\ RowOK(row)
  BY <1>2 DEF Stamped, RowOK, JobRow
<1>4. /\ Rows' = Rows /\ job'[j] = row /\ \A i \in Rows \ {j} : job'[i] = job[i]
  BY <1>1, <1>2 DEF Rows, Typed, QueueTypeOK
<1>5. /\ run'[w].pc = "running" /\ run'[w].job = run[w].job /\ run'[w].gen = run[w].gen
      /\ \A v \in Workers \ {w} : run'[v] = run[v]
  BY <1>1 DEF Typed, QueueTypeOK
<1>6. \A i \in Rows :
        /\ job'[i].doc = job[i].doc /\ job'[i].status = job[i].status
        /\ job'[i].worker = job[i].worker /\ job'[i].lease = job[i].lease
        /\ job'[i].attempts = job[i].attempts /\ job'[i].recovery = job[i].recovery
        /\ RowOK(job'[i])
  BY <1>3, <1>4 DEF RowsOK
<1>7. Sessions'
  <2>1. run[w].pc \in AtWork \ {"writing"}
    BY <1>1 DEF AtWork
  <2> QED BY <2>1, <1>1, <1>5, RowStepSessions
<1> HIDE DEF j, old
<1>8. RowsOK'
  BY <1>1, <1>4, <1>6 DEF RowsOK
<1>9. GenerationsOK'
  <2> SUFFICES ASSUME NEW v \in Workers, run'[v].pc \in AtWork
               PROVE  /\ run'[v].gen <= job'[run'[v].job].attempts
                      /\ job'[run'[v].job].status = "running" /\ job'[run'[v].job].worker = v
                           => job'[run'[v].job].attempts = run'[v].gen
    BY DEF GenerationsOK
  <2>1. run'[v].job = run[v].job /\ run'[v].gen = run[v].gen /\ run[v].pc \in AtWork
    BY <1>1, <1>5 DEF AtWork
  <2>2. run[v].job \in Rows
    BY <2>1, WorkerFacts
  <2> QED BY <2>1, <2>2, <1>6 DEF Runners, GenerationsOK
<1>10. RunnersOK'
  <2> SUFFICES ASSUME NEW v \in Workers,
                      run'[v].pc \in {"preparing", "running", "writing", "finished"}
               PROVE  /\ run'[v].pc \in {"preparing", "running", "writing"}
                         /\ job'[run'[v].job].status = "running" /\ job'[run'[v].job].worker = v
                           => job'[run'[v].job].recovery # "resume_graph_projection"
                      /\ run'[v].pc = "finished" => job'[run'[v].job].status \in Terminal
    BY DEF RunnersOK, Resuming
  <2>1. /\ run'[v].job = run[v].job
        /\ run[v].pc \in {"preparing", "running", "writing", "finished"}
        /\ run'[v].pc = "finished" => run[v].pc = "finished"
        /\ run'[v].pc # "finished" => run[v].pc # "finished"
    BY <1>1, <1>5
  <2>2. run[v].job \in Rows
    BY <2>1, WorkerFacts DEF AtWork
  <2> QED BY <2>1, <2>2, <1>6 DEF Runners, RunnersOK, Resuming
<1>11. ResumersOK'
  <2> SUFFICES ASSUME CommitsPromptly, NEW v \in Workers, run'[v].pc = "resumed"
               PROVE  HoldsLease(job'[run'[v].job], v)
    BY DEF ResumersOK, Holds
  <2>1. run'[v] = run[v] /\ Holds(v) /\ run[v].job \in Rows
    BY <1>5, WorkerFacts DEF Runners, ResumersOK, AtWork
  <2> QED BY <2>1, <1>6 DEF Holds, HoldsLease
<1>12. OneActiveJob' /\ ActiveJobDocumentNotFailed'
  BY <1>1, <1>4, <1>6 DEF Tables, OneActiveJob, ActiveJobDocumentNotFailed
<1> QED BY <1>7, <1>8, <1>9, <1>10, <1>11, <1>12 DEF LeaseInv, Typed, Sessions

LEMMA ResumeRenewSafe ==
    ASSUME LeaseInv, Typed', NEW w \in Workers, ResumeRenew(w)
    PROVE  LeaseInv'
<1> DEFINE old == job[run[w].job]
<1>1. run[w].pc \in AtWork \ {"writing"} /\ ~JobLocked(run[w].job) /\ Holds(w)
  BY DEF ResumeRenew, AtJob, AtWork
<1>2. old \in JobRow /\ RowOK(old) /\ old.status = "running"
  BY <1>1, WorkerFacts, LeaseInvParts DEF RowsOK, Holds, HoldsLease
<1>3. /\ RunnerWrite(old, Renewed(old)) /\ Renewed(old).status = "running"
  BY <1>2, ConstantsAssumed
     DEF RunnerWrite, Renewed, RowOK, JobRow, ConstantsOK, Active, Terminal
<1>4. /\ job' = [job EXCEPT ![run[w].job] = Renewed(old)]
      /\ run' = [run EXCEPT ![w].pc = "resumed"]
      /\ UNCHANGED <<queued, tx>> /\ UNCHANGED docs
  BY DEF ResumeRenew
<1> QED BY <1>1, <1>3, <1>4, RowStepSafe

LEMMA ClearTerminalLeaseSafe ==
    ASSUME LeaseInv, Typed', NEW w \in Workers, ClearTerminalLease(w)
    PROVE  LeaseInv'
<1> DEFINE old == job[run[w].job]
<1>1. run[w].pc = "finished" /\ ~JobLocked(run[w].job)
  BY DEF ClearTerminalLease, AtJob
<1>2. run[w].pc \in AtWork \ {"writing"} /\ old.status \in Terminal
  BY <1>1, LeaseInvParts DEF AtWork, Runners, RunnersOK
<1>3. old \in JobRow /\ RowOK(old)
  BY <1>2, WorkerFacts, LeaseInvParts DEF RowsOK
<1>4. RunnerWrite(old, Cleared(old))
  BY <1>2, <1>3 DEF RunnerWrite, Cleared, RowOK, JobRow, Active, Terminal
<1>5. /\ job' = [job EXCEPT ![run[w].job] = Cleared(old)]
      /\ run' = [run EXCEPT ![w] = Idle]
      /\ UNCHANGED <<queued, tx>> /\ UNCHANGED docs
  BY DEF ClearTerminalLease
<1> QED BY <1>1, <1>2, <1>4, <1>5, RowStepSafe

LEMMA ResumeFinishSafe ==
    ASSUME LeaseInv, Typed', NEW w \in Workers, ResumeFinish(w)
    PROVE  LeaseInv'
<1> DEFINE old == job[run[w].job]
           row == Cleared(Finished(old, run[w].gen, "succeeded", "ready"))
<1>1. run[w].pc = "resumed" /\ ~JobLocked(run[w].job)
  BY DEF ResumeFinish, AtJob
<1>2. run[w].pc \in AtWork \ {"writing"}
  BY <1>1 DEF AtWork
<1>3. old \in JobRow /\ RowOK(old) /\ run[w].gen <= old.attempts
  BY <1>2, WorkerFacts, LeaseInvParts DEF RowsOK, Runners, GenerationsOK
<1>4. RunnerWrite(old, row) /\ row.status = "succeeded"
  BY <1>3, ConstantsAssumed DEF RunnerWrite, Cleared, Finished, Renewed, RowOK, JobRow,
     Active, Terminal, ConstantsOK
<1>5. /\ job' = [job EXCEPT ![run[w].job] = row]
      /\ run' = [run EXCEPT ![w] = Idle]
      /\ docs' = [docs EXCEPT ![job[run[w].job].doc] = "succeeded"]
      /\ UNCHANGED <<queued, tx>>
  BY DEF ResumeFinish
<1>6. Holds(w) \/ ~CommitsPromptly
  BY <1>1, LeaseInvParts DEF Runners, ResumersOK
<1>7. "succeeded" \in Terminal
  BY DEF Terminal
<1> HIDE DEF row
<1> QED BY <1>1, <1>2, <1>4, <1>5, <1>6, <1>7, RowStepSafe

LEMMA MarkFailedSafe ==
    ASSUME LeaseInv, Typed', NEW w \in Workers, MarkFailed(w)
    PROVE  LeaseInv'
<1> DEFINE old == job[run[w].job]
           row == MarkedFailed(old, run[w].gen)
<1>1. run[w].pc \in AtWork \ {"writing"} /\ ~JobLocked(run[w].job) /\ Holds(w)
  BY DEF MarkFailed, AtJob, Beating, AtWork
<1>2. old \in JobRow /\ RowOK(old) /\ run[w].gen <= old.attempts
  BY <1>1, WorkerFacts, LeaseInvParts DEF RowsOK, Runners, GenerationsOK
<1>3. RunnerWrite(old, row) /\ row.status = "failed"
  BY <1>2 DEF RunnerWrite, MarkedFailed, RowOK, JobRow, Active, Terminal
<1>4. /\ job' = [job EXCEPT ![run[w].job] = row]
      /\ run' = [run EXCEPT ![w] = Idle]
      /\ docs' = [docs EXCEPT ![job[run[w].job].doc] = "failed"]
      /\ UNCHANGED <<queued, tx>>
  BY DEF MarkFailed
<1>5. "failed" \in Terminal
  BY DEF Terminal
<1> HIDE DEF row
<1> QED BY <1>1, <1>3, <1>4, <1>5, RowStepSafe

-----------------------------------------------------------------------------
(* Steps in which a runner opens a transaction on its own job.             *)

LEMMA WriteJobSafe ==
    ASSUME LeaseInv, Typed', NEW w \in Workers, run[w].pc \in AtWork \ {"writing"},
           ~JobLocked(run[w].job), Holds(w), ~Resuming(w),
           NEW row, WriteJob(w, row), RowOK(row), row.status # "ready",
           row.doc = job[run[w].job].doc, row.attempts = job[run[w].job].attempts,
           row.worker = w, row.recovery = job[run[w].job].recovery,
           row.by = run[w].gen \/ (row.status = "running" /\ row.by = job[run[w].job].by),
           \/ UNCHANGED docWrites
           \/ WriteDoc(w, row.status) /\ ~DocLocked(job[run[w].job].doc)
    PROVE  LeaseInv'
<1> USE LeaseInvParts
<1> DEFINE j == run[w].job
           old == job[j]
<1>1. Rows' = Rows /\ UNCHANGED <<queued, job, docs>>
  BY DEF Rows, WriteJob
<1>2. j \in Rows /\ old \in JobRow /\ old.status = "running" /\ old.worker = w
      /\ old.attempts = run[w].gen
  BY WorkerFacts DEF Holds, HoldsLease, Runners, GenerationsOK
<1>3. /\ run'[w].pc = "writing" /\ run'[w].job = j /\ run'[w].gen = run[w].gen
      /\ \A v \in Workers \ {w} : run'[v] = run[v]
  BY DEF WriteJob, Typed, QueueTypeOK
<1>4. /\ DOMAIN jobWrites'[w] = {j} /\ jobWrites'[w][j] = row
      /\ \A v \in Workers \ {w} : jobWrites'[v] = jobWrites[v]
  BY DEF WriteJob, Typed, QueueTypeOK
<1>5. /\ \A v \in Workers \ {w} : docWrites'[v] = docWrites[v]
      /\ DOMAIN docWrites'[w] \subseteq {old.doc}
      /\ \A d \in DOMAIN docWrites'[w] : docWrites'[w][d] = row.status /\ ~DocLocked(d)
  <2>1. CASE UNCHANGED docWrites
    BY <2>1 DEF Typed, RunShape, AtWork
  <2>2. CASE WriteDoc(w, row.status) /\ ~DocLocked(job[run[w].job].doc)
    BY <2>2 DEF WriteDoc, Typed, QueueTypeOK
  <2> QED BY <2>1, <2>2
<1> HIDE DEF j, old
<1>6. LocksExclusive'
  <2>1. \A v \in Workers : j \notin DOMAIN jobWrites[v]
    BY DEF JobLocked, j
  <2>2. \A v \in Workers : DOMAIN docWrites'[w] \cap DOMAIN docWrites[v] = {}
    BY <1>5 DEF DocLocked
  <2> QED BY <2>1, <2>2, <1>4, <1>5 DEF Sessions, LocksExclusive
<1>7. PollsOK'
  <2> SUFFICES ASSUME NEW v \in Workers, run'[v].pc = "polling"
               PROVE  /\ run[v].pc = "polling" /\ v # w
    BY <1>1, <1>4, <1>5 DEF Sessions, PollsOK, PollDraft
  <2> QED BY <1>3
<1>8. WritersOK'
  <2> SUFFICES ASSUME NEW v \in Workers, run'[v].pc = "writing" PROVE WriteDraft(v)'
    BY DEF WritersOK
  <2>1. CASE v = w
    BY <2>1, <1>1, <1>2, <1>3, <1>4, <1>5 DEF WriteDraft, old, j
  <2>2. CASE v # w
    BY <2>2, <1>1, <1>3, <1>4, <1>5 DEF WriteDraft, Sessions, WritersOK
  <2> QED BY <2>1, <2>2
<1>9. RowsOK'
  BY <1>1, <1>4 DEF RowsOK
<1>10. GenerationsOK'
  BY <1>1, <1>3 DEF Runners, GenerationsOK, AtWork, j
<1>11. RunnersOK'
  BY <1>1, <1>3 DEF Runners, RunnersOK, Resuming, j
<1>12. ResumersOK'
  BY <1>1, <1>3 DEF Runners, ResumersOK, Holds
<1>13. OneActiveJob' /\ ActiveJobDocumentNotFailed'
  BY <1>1 DEF Tables, OneActiveJob, ActiveJobDocumentNotFailed
<1> QED BY <1>6, <1>7, <1>8, <1>9, <1>10, <1>11, <1>12, <1>13 DEF LeaseInv, Typed

LEMMA BeginRunSafe ==
    ASSUME LeaseInv, Typed', NEW w \in Workers, BeginRun(w)
    PROVE  LeaseInv'
<1> DEFINE old == job[run[w].job]
           row == Renewed(old)
<1>1. /\ run[w].pc \in AtWork \ {"writing"} /\ ~JobLocked(run[w].job)
      /\ Holds(w) /\ ~Resuming(w)
  BY DEF BeginRun, AtJob, AtWork
<1>2. old \in JobRow /\ RowOK(old) /\ old.status = "running" /\ old.worker = w
  BY <1>1, WorkerFacts, LeaseInvParts DEF RowsOK, Holds, HoldsLease
<1>3. /\ RowOK(row) /\ row.status = "running" /\ row.doc = old.doc
      /\ row.attempts = old.attempts /\ row.worker = w /\ row.recovery = old.recovery
      /\ row.by = old.by
  BY <1>2 DEF Renewed, RowOK, JobRow, Active
<1>4. WriteJob(w, row) /\ WriteDoc(w, row.status) /\ ~DocLocked(job[run[w].job].doc)
  BY <1>3 DEF BeginRun
<1> HIDE DEF row
<1> QED BY <1>1, <1>3, <1>4, WriteJobSafe

LEMMA BeginStageSafe ==
    ASSUME LeaseInv, Typed', NEW w \in Workers, NEW s \in ReportedStages, BeginStage(w, s)
    PROVE  LeaseInv'
<1> DEFINE old == job[run[w].job]
           row == [Renewed(old) EXCEPT !.stage = s, !.by = run[w].gen]
<1>1. /\ run[w].pc \in AtWork \ {"writing"} /\ ~JobLocked(run[w].job) /\ Holds(w)
  BY DEF BeginStage, AtJob, AtWork
<1>2. ~Resuming(w)
  BY <1>1, LeaseInvParts DEF BeginStage, AtJob, Runners, RunnersOK, Holds, HoldsLease
<1>3. /\ old \in JobRow /\ RowOK(old) /\ old.status = "running" /\ old.worker = w
      /\ run[w].gen <= old.attempts
  BY <1>1, WorkerFacts, LeaseInvParts
     DEF RowsOK, Holds, HoldsLease, Runners, GenerationsOK
<1>4. /\ RowOK(row) /\ row.status = "running" /\ row.doc = old.doc
      /\ row.attempts = old.attempts /\ row.worker = w /\ row.recovery = old.recovery
      /\ row.by = run[w].gen
  BY <1>2, <1>3 DEF Renewed, RowOK, JobRow, Active, Resuming
<1>5. WriteJob(w, row) /\ UNCHANGED docWrites
  BY DEF BeginStage
<1> HIDE DEF row
<1> QED BY <1>1, <1>2, <1>4, <1>5, WriteJobSafe

LEMMA BeginFinishSafe ==
    ASSUME LeaseInv, Typed', NEW w \in Workers, BeginSucceed(w) \/ BeginFail(w)
    PROVE  LeaseInv'
<1>1. PICK status \in Terminal, stage \in IndexStage : BeginFinish(w, status, stage)
  <2>1. {"succeeded", "failed"} \subseteq Terminal
    BY DEF Terminal
  <2> QED BY <2>1, ColumnValues DEF BeginSucceed, BeginFail
<1> DEFINE old == job[run[w].job]
           row == Finished(old, run[w].gen, status, stage)
<1>2. /\ run[w].pc \in AtWork \ {"writing"} /\ ~JobLocked(run[w].job) /\ Holds(w)
  BY <1>1 DEF BeginFinish, AtJob, AtWork
<1>3. ~Resuming(w)
  BY <1>1, <1>2, LeaseInvParts DEF BeginFinish, AtJob, Runners, RunnersOK, Holds, HoldsLease
<1>4. /\ old \in JobRow /\ RowOK(old) /\ old.status = "running" /\ old.worker = w
      /\ run[w].gen <= old.attempts
  BY <1>2, WorkerFacts, LeaseInvParts
     DEF RowsOK, Holds, HoldsLease, Runners, GenerationsOK
<1>5. /\ RowOK(row) /\ row.status = status /\ status # "ready" /\ row.doc = old.doc
      /\ row.attempts = old.attempts /\ row.worker = w /\ row.recovery = old.recovery
      /\ row.by = run[w].gen
  BY <1>4 DEF Finished, Renewed, RowOK, JobRow, Active, Terminal
<1>6. WriteJob(w, row) /\ WriteDoc(w, row.status) /\ ~DocLocked(job[run[w].job].doc)
  BY <1>1, <1>5 DEF BeginFinish
<1> HIDE DEF row
<1> QED BY <1>2, <1>3, <1>5, <1>6, WriteJobSafe

-----------------------------------------------------------------------------
(* Commits.                                                                *)

\* What every draft says of the row underneath, in a poll and in a write alike:
\* the row is active, and nobody but the drafting worker can hold its lease.
LEMMA DraftFacts ==
    ASSUME LeaseInv, NEW w \in Workers, run[w].pc \in {"polling", "writing"},
           NEW j \in DOMAIN jobWrites[w]
    PROVE  /\ j \in Rows /\ job[j] \in JobRow /\ jobWrites[w][j] \in JobRow
           /\ RowOK(jobWrites[w][j])
           /\ jobWrites[w][j].doc = job[j].doc
           /\ jobWrites[w][j].attempts >= job[j].attempts
           /\ job[j].status \in Active
           /\ jobWrites[w][j].status = "running" => jobWrites[w][j].worker = w
           /\ \A v \in Workers \ {w} : ~HoldsLease(job[j], v)
<1> USE LeaseInvParts
<1>1. j \in Rows /\ job[j] \in JobRow /\ jobWrites[w][j] \in JobRow /\ RowOK(jobWrites[w][j])
  BY DEF Typed, QueueTypeOK, IsPartial, RowsOK
<1>2. CASE run[w].pc = "polling"
  <2>1. PollDraft(w, j)
    BY <1>2 DEF Sessions, PollsOK
  <2>2. job[j].status \in Active /\ \A v \in Workers : ~HoldsLease(job[j], v)
    BY <2>1 DEF PollDraft, Recoverable, Claimable, HoldsLease, Active, Lapsed, NoLease
  <2>3. jobWrites[w][j].attempts >= job[j].attempts
    BY <2>1, <1>1 DEF PollDraft, JobRow
  <2> QED BY <2>1, <2>2, <2>3, <1>1 DEF PollDraft
<1>3. CASE run[w].pc = "writing"
  <2>1. WriteDraft(w) /\ j = run[w].job
    BY <1>3 DEF Sessions, WritersOK, Typed, RunShape
  <2> QED BY <2>1, <1>1 DEF WriteDraft, HoldsLease, Active, JobRow
<1> QED BY <1>2, <1>3

\* A document that a commit marks FAILED is that of a job the commit closes.
LEMMA DocDraftFacts ==
    ASSUME LeaseInv, NEW w \in Workers, run[w].pc \in {"polling", "writing"},
           NEW d \in DOMAIN docWrites[w], docWrites[w][d] \in {"failed", "ready"}
    PROVE  \E j \in DOMAIN jobWrites[w] :
             job[j].doc = d /\ jobWrites[w][j].status \notin Active
<1> USE LeaseInvParts
<1>1. CASE run[w].pc = "polling"
  BY <1>1 DEF Sessions, PollsOK, Active
<1>2. CASE run[w].pc = "writing"
  BY <1>2 DEF Sessions, WritersOK, WriteDraft, Typed, RunShape, Active
<1> QED BY <1>1, <1>2

LEMMA PublishSafe ==
    ASSUME LeaseInv, Typed', NEW w \in Workers, run[w].pc \in {"polling", "writing"},
           Publish(w), run'[w].pc \notin {"polling", "writing", "resumed"},
           \A v \in Workers \ {w} : run'[v] = run[v],
           run'[w].pc \in AtWork =>
             /\ run'[w].gen <= job'[run'[w].job].attempts
             /\ job'[run'[w].job].status = "running" /\ job'[run'[w].job].worker = w
                  => job'[run'[w].job].attempts = run'[w].gen,
           run'[w].pc \in {"preparing", "running"} => job'[run'[w].job].recovery # "resume_graph_projection",
           run'[w].pc = "finished" => job'[run'[w].job].status \in Terminal
    PROVE  LeaseInv'
<1> USE LeaseInvParts
<1>1. Rows' = Rows /\ CloseTx(w)
  BY DEF Rows, Publish
<1>2. /\ \A j \in DOMAIN jobWrites[w] : job'[j] = jobWrites[w][j]
      /\ \A j \in Rows \ DOMAIN jobWrites[w] : job'[j] = job[j]
  BY DraftFacts DEF Publish
<1>3. /\ DOMAIN jobWrites'[w] = {} /\ DOMAIN docWrites'[w] = {}
      /\ \A v \in Workers \ {w} :
           jobWrites'[v] = jobWrites[v] /\ docWrites'[v] = docWrites[v]
  BY <1>1, CloseTxTyped
<1>4. \A v \in Workers \ {w} : \A j \in DOMAIN jobWrites[v] : job'[j] = job[j]
  BY <1>2 DEF Sessions, LocksExclusive, Typed, QueueTypeOK, IsPartial
<1>5. LocksExclusive'
  BY <1>3 DEF Sessions, LocksExclusive
<1>6. PollsOK'
  BY <1>3, <1>4 DEF Sessions, PollsOK, PollDraft
<1>7. WritersOK'
  <2> SUFFICES ASSUME NEW v \in Workers \ {w}, run[v].pc = "writing" PROVE WriteDraft(v)'
    BY DEF WritersOK
  <2>1. run'[v] = run[v] /\ run[v].job \in DOMAIN jobWrites[v]
    BY DEF Typed, RunShape
  <2> QED BY <2>1, <1>3, <1>4 DEF Sessions, WritersOK, WriteDraft
<1>8. RowsOK'
  <2>1. \A j \in Rows : RowOK(job'[j])
    BY <1>2, DraftFacts DEF RowsOK
  <2>2. \A v \in Workers : \A j \in DOMAIN jobWrites'[v] : RowOK(jobWrites'[v][j])
    BY <1>3 DEF RowsOK
  <2> QED BY <2>1, <2>2, <1>1 DEF RowsOK
<1>9. \A v \in Workers \ {w} : run[v].pc \in AtWork =>
        /\ run[v].job \in Rows
        /\ \/ job'[run[v].job] = job[run[v].job]
           \/ run[v].job \in DOMAIN jobWrites[w]
  BY <1>2, WorkerFacts
<1>10. GenerationsOK'
  <2> SUFFICES ASSUME NEW v \in Workers \ {w}, run[v].pc \in AtWork
               PROVE  /\ run[v].gen <= job'[run[v].job].attempts
                      /\ job'[run[v].job].status = "running" /\ job'[run[v].job].worker = v
                           => job'[run[v].job].attempts = run[v].gen
    BY DEF GenerationsOK
  <2>1. CASE job'[run[v].job] = job[run[v].job]
    BY <2>1 DEF Runners, GenerationsOK
  <2>2. CASE run[v].job \in DOMAIN jobWrites[w]
    <3>1. run[v].gen <= job[run[v].job].attempts /\ run[v].gen \in 0 .. MaxAttempts
      BY WorkerFacts DEF Runners, GenerationsOK
    <3>2. /\ job'[run[v].job] = jobWrites[w][run[v].job]
          /\ job'[run[v].job].attempts >= job[run[v].job].attempts
          /\ job'[run[v].job] \in JobRow /\ job[run[v].job] \in JobRow
          /\ job'[run[v].job].status = "running" => job'[run[v].job].worker = w
      BY <2>2, <1>2, DraftFacts
    <3> QED BY <3>1, <3>2, ConstantsAssumed DEF JobRow, ConstantsOK
  <2> QED BY <2>1, <2>2, <1>9
<1>11. RunnersOK'
  <2> SUFFICES ASSUME NEW v \in Workers \ {w}, run[v].pc \in {"preparing", "running", "writing", "finished"}
               PROVE  /\ run[v].pc \in {"preparing", "running", "writing"}
                         /\ job'[run[v].job].status = "running" /\ job'[run[v].job].worker = v
                           => job'[run[v].job].recovery # "resume_graph_projection"
                      /\ run[v].pc = "finished" => job'[run[v].job].status \in Terminal
    BY DEF RunnersOK, Resuming
  <2>1. CASE job'[run[v].job] = job[run[v].job]
    BY <2>1 DEF Runners, RunnersOK, Resuming
  <2>2. CASE run[v].job \in DOMAIN jobWrites[w]
    BY <2>2, <1>2, DraftFacts DEF Runners, RunnersOK, Active, Terminal
  <2> QED BY <2>1, <2>2, <1>9 DEF AtWork
<1>12. ResumersOK'
  <2> SUFFICES ASSUME CommitsPromptly, NEW v \in Workers \ {w}, run[v].pc = "resumed"
               PROVE  HoldsLease(job'[run[v].job], v)
    BY DEF ResumersOK, Holds
  <2>1. HoldsLease(job[run[v].job], v)
    BY DEF Runners, ResumersOK, Holds
  <2> QED BY <2>1, <1>9, DraftFacts DEF AtWork
<1>13. \A j \in Rows : /\ job'[j].doc = job[j].doc
                       /\ job'[j].status \in Active => job[j].status \in Active
  BY <1>2, DraftFacts
<1>14. OneActiveJob'
  BY <1>1, <1>13 DEF Tables, OneActiveJob
<1>15. ActiveJobDocumentNotFailed'
  <2> SUFFICES ASSUME NEW i \in Rows, job'[i].status \in Active
               PROVE  docs'[job'[i].doc] \notin {"failed", "ready"}
    BY <1>1 DEF ActiveJobDocumentNotFailed
  <2> DEFINE d == job[i].doc
  <2>1. job'[i].doc = d /\ job[i].status \in Active /\ d \in Docs
    BY <1>13 DEF Typed, QueueTypeOK, JobRow
  <2>2. docs[d] \notin {"failed", "ready"}
    BY <2>1 DEF Tables, ActiveJobDocumentNotFailed
  <2>3. docs'[d] = IF d \in DOMAIN docWrites[w] THEN docWrites[w][d] ELSE docs[d]
    BY <2>1 DEF Publish
  <2> HIDE DEF d
  <2>4. ASSUME d \in DOMAIN docWrites[w], docWrites[w][d] \in {"failed", "ready"}
        PROVE  FALSE
    <3>1. PICK j \in DOMAIN jobWrites[w] :
             job[j].doc = d /\ jobWrites[w][j].status \notin Active
      BY <2>4, DocDraftFacts
    <3>2. j \in Rows /\ job[j].status \in Active
      BY <3>1, DraftFacts
    <3>3. j = i
      BY <3>1, <3>2, <2>1 DEF Tables, OneActiveJob, d
    <3> QED BY <3>1, <3>3, <1>2
  <2> QED BY <2>1, <2>2, <2>3, <2>4
<1> QED BY <1>5, <1>6, <1>7, <1>8, <1>10, <1>11, <1>12, <1>14, <1>15 DEF LeaseInv, Typed

LEMMA CommitWriteSafe ==
    ASSUME LeaseInv, Typed', NEW w \in Workers, CommitWrite(w)
    PROVE  LeaseInv'
<1> USE LeaseInvParts
<1> DEFINE j == run[w].job
           draft == jobWrites[w][j]
<1>1. run[w].pc = "writing" /\ Publish(w)
  BY DEF CommitWrite
<1>2. WriteDraft(w) /\ j \in DOMAIN jobWrites[w] /\ j \in Rows
  BY <1>1, WorkerFacts DEF Sessions, WritersOK, Typed, RunShape, AtWork
<1>3. job'[j] = draft
  BY <1>1, <1>2 DEF Publish
<1>4. /\ run'[w].job = j /\ run'[w].gen = run[w].gen
      /\ run'[w].pc \in {"finished", "preparing", "running"}
      /\ run'[w].pc = "finished" => draft.status \in Terminal
      /\ \A v \in Workers \ {w} : run'[v] = run[v]
  BY DEF CommitWrite, Typed, QueueTypeOK
<1>5. draft.attempts = run[w].gen /\ run[w].gen \in 0 .. MaxAttempts
  BY <1>2, <1>1, WorkerFacts DEF WriteDraft
<1>6. draft.recovery # "resume_graph_projection"
  BY <1>1, <1>2 DEF WriteDraft, Runners, RunnersOK, Resuming
<1> HIDE DEF j, draft
<1>7. run'[w].gen <= job'[run'[w].job].attempts
  BY <1>3, <1>4, <1>5, ConstantsAssumed DEF ConstantsOK
<1> QED BY <1>1, <1>3, <1>4, <1>5, <1>6, <1>7, PublishSafe

LEMMA CommitPollSafe ==
    ASSUME LeaseInv, Typed', NEW w \in Workers, CommitPoll(w)
    PROVE  LeaseInv'
<1> USE LeaseInvParts
<1>1. run[w].pc = "polling" /\ Publish(w)
  BY DEF CommitPoll
<1>2. \A v \in Workers \ {w} : run'[v] = run[v]
  BY DEF CommitPoll, Typed, QueueTypeOK
<1>3. CASE ClaimsOf(w) = {}
  <2>1. run'[w] = Idle
    BY <1>3 DEF CommitPoll, Typed, QueueTypeOK
  <2> QED BY <2>1, <1>1, <1>2, PublishSafe DEF Idle, AtWork
<1>4. CASE ClaimsOf(w) # {}
  <2>1. PICK j \in ClaimsOf(w) :
            run'[w] = [pc |-> "claimed", job |-> j, gen |-> jobWrites[w][j].attempts,
                       stage |-> jobWrites[w][j].stage]
    BY <1>4 DEF CommitPoll, Typed, QueueTypeOK
  <2>2. j \in DOMAIN jobWrites[w] /\ j \in Rows
    BY <1>1, DraftFacts DEF ClaimsOf
  <2>3. job'[j] = jobWrites[w][j] /\ jobWrites[w][j] \in JobRow
    BY <1>1, <2>2, DraftFacts DEF Publish
  <2>4. /\ run'[w].pc = "claimed" /\ run'[w].job = j
        /\ run'[w].gen = job'[j].attempts /\ run'[w].gen <= job'[j].attempts
    BY <2>1, <2>3, ConstantsAssumed DEF JobRow, ConstantsOK
  <2> QED BY <2>4, <1>1, <1>2, PublishSafe
<1> QED BY <1>3, <1>4

-----------------------------------------------------------------------------
(* The poll, requests and time.                                            *)

\* The row a poll recovers or claims, before its commit.
LEMMA RecoveredFacts ==
    ASSUME NEW row \in JobRow, RowOK(row), Recoverable(row)
    PROVE  /\ RowOK(Recovered(row)) /\ Recovered(row).doc = row.doc
           /\ Recovered(row).by = row.by /\ Recovered(row).attempts = row.attempts
           /\ \/ Recovered(row).status = "ready"
              \/ Recovered(row).status = "failed" /\ row.attempts = MaxAttempts
<1>1. row.attempts \in 0 .. MaxAttempts /\ MaxAttempts \in Nat
  BY ConstantsAssumed DEF JobRow, ConstantsOK
<1>2. CASE row.attempts >= MaxAttempts
  BY <1>1, <1>2 DEF Recovered, RowOK, JobRow, Active
<1>3. CASE ~(row.attempts >= MaxAttempts)
  <2>1. row.by <= row.attempts /\ row.attempts < MaxAttempts
    BY <1>1, <1>3 DEF RowOK
  <2> QED BY <1>3, <2>1 DEF Recovered, RowOK, JobRow, Active
<1> QED BY <1>2, <1>3

LEMMA ClaimedFacts ==
    ASSUME NEW row \in JobRow, RowOK(row), Claimable(row), NEW w \in Workers
    PROVE  /\ RowOK(Claimed(row, w)) /\ Claimed(row, w).doc = row.doc
           /\ Claimed(row, w).by = row.by /\ Claimed(row, w).attempts = row.attempts + 1
           /\ Claimed(row, w).status = "running" /\ Claimed(row, w).worker = w
<1>1. row.attempts \in 0 .. MaxAttempts /\ row.by \in 0 .. MaxAttempts /\ MaxAttempts \in Nat
  BY ConstantsAssumed DEF JobRow, ConstantsOK
<1> QED BY <1>1 DEF Claimed, Claimable, RowOK, JobRow, Active

LEMMA PollSafe ==
    ASSUME LeaseInv, Typed', NEW w \in Workers, Poll(w)
    PROVE  LeaseInv'
<1> USE LeaseInvParts
<1> DEFINE touched == LapsedJobs \cup NextClaims
           failed  == DocsGivenUp
           draft(j) == IF j \in NextClaims THEN Claimed(Seen(j), w) ELSE Seen(j)
<1>1. /\ Rows' = Rows /\ UNCHANGED <<queued, job, docs>>
      /\ run[w].pc = "idle" /\ run'[w].pc = "polling" /\ run'[w].gen = run[w].gen
      /\ \A v \in Workers \ {w} : run'[v] = run[v]
      /\ \A d \in failed : ~DocLocked(d)
  BY DEF Poll, Rows, Typed, QueueTypeOK
<1>2. /\ DOMAIN jobWrites'[w] = touched /\ \A j \in touched : jobWrites'[w][j] = draft(j)
      /\ \A v \in Workers \ {w} : jobWrites'[v] = jobWrites[v]
  BY DEF Poll, Typed, QueueTypeOK
<1>3. /\ DOMAIN docWrites'[w] = failed /\ \A d \in failed : docWrites'[w][d] = "failed"
      /\ \A v \in Workers \ {w} : docWrites'[v] = docWrites[v]
  BY DEF Poll, Typed, QueueTypeOK
<1>4. \A j \in touched : j \in Rows /\ ~JobLocked(j) /\ job[j] \in JobRow /\ RowOK(job[j])
  BY DEF LapsedJobs, NextClaims, ClaimableJobs, Typed, QueueTypeOK, RowsOK
<1>5. \A j \in LapsedJobs : /\ Recoverable(job[j]) /\ Seen(j) = Recovered(job[j])
                            /\ Seen(j) \in JobRow
                            /\ RowOK(Seen(j)) /\ Seen(j).doc = job[j].doc
                            /\ Seen(j).by = job[j].by /\ Seen(j).attempts = job[j].attempts
                            /\ \/ Seen(j).status = "ready"
                               \/ Seen(j).status = "failed" /\ job[j].attempts = MaxAttempts
  <2> SUFFICES ASSUME NEW j \in LapsedJobs
               PROVE  /\ Recoverable(job[j]) /\ Seen(j) = Recovered(job[j])
                      /\ Seen(j) \in JobRow
                      /\ RowOK(Seen(j)) /\ Seen(j).doc = job[j].doc
                      /\ Seen(j).by = job[j].by /\ Seen(j).attempts = job[j].attempts
                      /\ \/ Seen(j).status = "ready"
                         \/ Seen(j).status = "failed" /\ job[j].attempts = MaxAttempts
    OBVIOUS
  <2>1. Recoverable(job[j]) /\ Seen(j) = Recovered(job[j])
    BY DEF LapsedJobs, Seen
  <2> QED BY <2>1, <1>4, RecoveredFacts, QueueRowTypes
<1>6. \A j \in NextClaims : /\ Claimable(Seen(j))
                            /\ Recoverable(job[j]) \/ Claimable(job[j])
                            /\ RowOK(draft(j)) /\ draft(j).doc = job[j].doc
                            /\ draft(j).by = job[j].by
                            /\ draft(j).attempts = job[j].attempts + 1
                            /\ draft(j).status = "running" /\ draft(j).worker = w
  <2> SUFFICES ASSUME NEW j \in NextClaims
               PROVE  /\ Claimable(Seen(j))
                      /\ Recoverable(job[j]) \/ Claimable(job[j])
                      /\ RowOK(draft(j)) /\ draft(j).doc = job[j].doc
                      /\ draft(j).by = job[j].by
                      /\ draft(j).attempts = job[j].attempts + 1
                      /\ draft(j).status = "running" /\ draft(j).worker = w
    OBVIOUS
  <2>1. Claimable(Seen(j)) /\ draft(j) = Claimed(Seen(j), w)
    BY DEF NextClaims, ClaimableJobs
  <2>2. j \in LapsedJobs \/ Seen(j) = job[j]
    BY DEF Seen
  <2>3. Seen(j) \in JobRow /\ RowOK(Seen(j)) /\ Seen(j).doc = job[j].doc
        /\ Seen(j).by = job[j].by /\ Seen(j).attempts = job[j].attempts
        /\ (Recoverable(job[j]) \/ Claimable(job[j]))
    BY <2>1, <2>2, <1>4, <1>5
  <2> HIDE DEF draft
  <2> QED BY <2>1, <2>3, ClaimedFacts
<1>7. \A i, j \in NextClaims : i = j
  <2> SUFFICES ASSUME NEW i \in NextClaims, NEW j \in NextClaims PROVE i = j
    OBVIOUS
  <2>1. i \in Int /\ j \in Int /\ i <= j /\ j <= i
    BY DEF NextClaims, ClaimableJobs, Rows
  <2> QED BY <2>1
<1>8. \A j \in touched \ NextClaims : j \in LapsedJobs /\ draft(j) = Seen(j)
  OBVIOUS
<1>9. \A d \in failed : \E j \in touched : job[j].doc = d /\ draft(j).status = "failed"
  <2> SUFFICES ASSUME NEW j \in LapsedJobs, Recovered(job[j]).status = "failed"
               PROVE  draft(j).status = "failed"
    BY DEF DocsGivenUp
  <2>1. Seen(j).status = "failed"
    BY <1>5
  <2>2. j \notin NextClaims
    BY <2>1, <1>6 DEF Claimable
  <2> QED BY <2>1, <2>2
<1> HIDE DEF touched, failed, draft
<1>10. LocksExclusive'
  <2>1. \A v \in Workers : touched \cap DOMAIN jobWrites[v] = {}
    BY <1>4 DEF JobLocked
  <2>2. \A v \in Workers : failed \cap DOMAIN docWrites[v] = {}
    BY <1>1 DEF DocLocked
  <2> QED BY <2>1, <2>2, <1>2, <1>3 DEF Sessions, LocksExclusive
<1>11. PollsOK'
  <2>1. \A j \in touched : PollDraft(w, j)'
    <3> SUFFICES ASSUME NEW j \in touched PROVE PollDraft(w, j)'
      OBVIOUS
    <3>1. job'[j] = job[j] /\ jobWrites'[w][j] = draft(j)
      BY <1>1, <1>2
    <3>2. CASE j \in NextClaims
      BY <3>1, <3>2, <1>6 DEF PollDraft
    <3>3. CASE j \notin NextClaims
      BY <3>1, <3>3, <1>5, <1>8 DEF PollDraft
    <3> QED BY <3>2, <3>3
  <2>2. \A j \in touched : draft(j).status = "running" => j \in NextClaims
    BY <1>5, <1>8
  <2>3. \A v \in Workers \ {w} : run'[v].pc = "polling" =>
          /\ \A j \in DOMAIN jobWrites'[v] : PollDraft(v, j)'
          /\ \A i, j \in DOMAIN jobWrites'[v] :
               jobWrites'[v][i].status = "running" /\ jobWrites'[v][j].status = "running" => i = j
          /\ \A d \in DOMAIN docWrites'[v] :
               /\ docWrites'[v][d] = "failed"
               /\ \E j \in DOMAIN jobWrites'[v] :
                    job'[j].doc = d /\ jobWrites'[v][j].status = "failed"
    BY <1>1, <1>2, <1>3 DEF Sessions, PollsOK, PollDraft
  <2>4. /\ \A j \in DOMAIN jobWrites'[w] : PollDraft(w, j)'
        /\ \A i, j \in DOMAIN jobWrites'[w] :
             jobWrites'[w][i].status = "running" /\ jobWrites'[w][j].status = "running" => i = j
        /\ \A d \in DOMAIN docWrites'[w] :
             /\ docWrites'[w][d] = "failed"
             /\ \E j \in DOMAIN jobWrites'[w] :
                  job'[j].doc = d /\ jobWrites'[w][j].status = "failed"
    BY <2>1, <2>2, <1>1, <1>2, <1>3, <1>7, <1>9
  <2> QED BY <2>3, <2>4 DEF PollsOK
<1>12. WritersOK'
  BY <1>1, <1>2, <1>3 DEF Sessions, WritersOK, WriteDraft
<1>13. RowsOK'
  <2>1. \A j \in touched : RowOK(draft(j))
    BY <1>5, <1>6, <1>8
  <2> QED BY <2>1, <1>1, <1>2 DEF RowsOK
<1>14. GenerationsOK' /\ RunnersOK' /\ ResumersOK'
  BY <1>1 DEF Runners, GenerationsOK, RunnersOK, ResumersOK, Resuming, Holds, AtWork
<1>15. OneActiveJob' /\ ActiveJobDocumentNotFailed'
  BY <1>1 DEF Tables, OneActiveJob, ActiveJobDocumentNotFailed
<1> QED BY <1>10, <1>11, <1>12, <1>13, <1>14, <1>15 DEF LeaseInv, Typed

LEMMA EnqueueSafe ==
    ASSUME LeaseInv, Typed', NEW d \in Docs, Enqueue(d)
    PROVE  LeaseInv'
<1> USE LeaseInvParts
<1> DEFINE new == queued + 1
<1>1. /\ Rows' = Rows \cup {new} /\ new \notin Rows
      /\ \A j \in Rows : job'[j] = job[j]
      /\ job'[new] = NewRow(d)
      /\ docs' = [docs EXCEPT ![d] = "running"]
      /\ UNCHANGED <<jobWrites, docWrites, run>>
  BY DEF Enqueue, Rows, tx, Typed, QueueTypeOK
<1>2. \A w \in Workers : DOMAIN jobWrites[w] \subseteq Rows
  BY DEF Typed, QueueTypeOK, IsPartial
<1>3. \A w \in Workers : run[w].pc \in AtWork => run[w].job \in Rows
  BY WorkerFacts
<1>4. /\ NewRow(d).doc = d /\ NewRow(d).status = "ready" /\ RowOK(NewRow(d))
  BY ConstantsAssumed DEF NewRow, RowOK, ConstantsOK, Active
<1>5. \A j \in Rows : job[j].doc = d => job[j].status \notin Active
  BY DEF Enqueue, HasActiveJob
<1> HIDE DEF new
<1>6. LocksExclusive'
  BY <1>1 DEF Sessions, LocksExclusive
<1>7. PollsOK'
  BY <1>1, <1>2 DEF Sessions, PollsOK, PollDraft
<1>8. WritersOK'
  BY <1>1, <1>3 DEF Sessions, WritersOK, WriteDraft, AtWork
<1>9. RowsOK'
  BY <1>1, <1>4 DEF RowsOK
<1>10. GenerationsOK'
  BY <1>1, <1>3 DEF Runners, GenerationsOK
<1>11. RunnersOK'
  BY <1>1, <1>3 DEF Runners, RunnersOK, Resuming, AtWork
<1>12. ResumersOK'
  BY <1>1, <1>3 DEF Runners, ResumersOK, Holds, AtWork
<1>13. OneActiveJob'
  BY <1>1, <1>4, <1>5 DEF Tables, OneActiveJob
<1>14. ActiveJobDocumentNotFailed'
  BY <1>1, <1>4 DEF Tables, ActiveJobDocumentNotFailed, Typed, QueueTypeOK, JobRow
<1> QED BY <1>6, <1>7, <1>8, <1>9, <1>10, <1>11, <1>12, <1>13, <1>14 DEF LeaseInv, Typed

\* A tick changes nothing but the lease, lets no held lease come back, and does
\* not lapse a lease that is missing.
LEMMA AgedFacts ==
    ASSUME NEW row \in JobRow
    PROVE  /\ Aged(row).doc = row.doc /\ Aged(row).status = row.status
           /\ Aged(row).worker = row.worker /\ Aged(row).attempts = row.attempts
           /\ Aged(row).recovery = row.recovery /\ Aged(row).stage = row.stage
           /\ Aged(row).by = row.by
           /\ RowOK(row) => RowOK(Aged(row))
           /\ Recoverable(row) => Recoverable(Aged(row))
           /\ Claimable(row) <=> Claimable(Aged(row))
           /\ \A w : HoldsLease(row, w) /\ row.lease # 1 => HoldsLease(Aged(row), w)
           /\ \A w : HoldsLease(Aged(row), w) => HoldsLease(row, w)
<1>1. row.lease \in Int /\ row.lease >= NoLease
  BY ConstantsAssumed DEF JobRow, ConstantsOK, NoLease
<1>2. Aged(row).lease = AgedLease(row.lease)
  BY DEF Aged, JobRow
<1>3. /\ Aged(row).doc = row.doc /\ Aged(row).status = row.status
      /\ Aged(row).worker = row.worker /\ Aged(row).attempts = row.attempts
      /\ Aged(row).recovery = row.recovery /\ Aged(row).stage = row.stage
      /\ Aged(row).by = row.by
  BY DEF Aged, JobRow
<1>4. RowOK(row) => RowOK(Aged(row))
  BY <1>1, <1>2, <1>3 DEF RowOK, AgedLease, NoLease
<1>5. Recoverable(row) => Recoverable(Aged(row))
  BY <1>1, <1>2, <1>3 DEF Recoverable, AgedLease, NoLease, Lapsed
<1>6. /\ \A w : HoldsLease(row, w) /\ row.lease # 1 => HoldsLease(Aged(row), w)
      /\ \A w : HoldsLease(Aged(row), w) => HoldsLease(row, w)
  BY <1>1, <1>2, <1>3 DEF HoldsLease, AgedLease
<1> QED BY <1>3, <1>4, <1>5, <1>6 DEF Claimable

LEMMA TickSafe ==
    ASSUME LeaseInv, Typed', Tick
    PROVE  LeaseInv'
<1> USE LeaseInvParts
<1>1. /\ Rows' = Rows /\ UNCHANGED <<queued, docs, docWrites, run>>
      /\ \A j \in Rows : job[j] \in JobRow /\ job'[j] = Aged(job[j])
  BY DEF Tick, Rows, Typed, QueueTypeOK
<1>2. \A w \in Workers :
        /\ DOMAIN jobWrites'[w] = DOMAIN jobWrites[w]
        /\ DOMAIN jobWrites[w] \subseteq Rows
        /\ \A j \in DOMAIN jobWrites[w] :
             jobWrites[w][j] \in JobRow /\ jobWrites'[w][j] = Aged(jobWrites[w][j])
  BY DEF Tick, Typed, QueueTypeOK, IsPartial
<1>3. \A w \in Workers : run[w].pc \in AtWork => run[w].job \in Rows
  BY WorkerFacts
<1>4. LocksExclusive'
  BY <1>1, <1>2 DEF Sessions, LocksExclusive
<1>5. PollsOK'
  <2> SUFFICES ASSUME NEW w \in Workers, run[w].pc = "polling"
               PROVE  /\ \A j \in DOMAIN jobWrites[w] : PollDraft(w, j)'
                      /\ \A i, j \in DOMAIN jobWrites[w] :
                           jobWrites'[w][i].status = "running" /\ jobWrites'[w][j].status = "running"
                             => i = j
                      /\ \A d \in DOMAIN docWrites[w] :
                           /\ docWrites[w][d] = "failed"
                           /\ \E j \in DOMAIN jobWrites[w] :
                                job'[j].doc = d /\ jobWrites'[w][j].status = "failed"
    BY <1>1, <1>2 DEF PollsOK
  <2>1. ASSUME NEW j \in DOMAIN jobWrites[w] PROVE PollDraft(w, j)'
    <3>1. PollDraft(w, j) /\ j \in Rows
      BY <1>2 DEF Sessions, PollsOK
    <3> QED BY <3>1, <1>1, <1>2, AgedFacts DEF PollDraft
  <2> QED BY <2>1, <1>1, <1>2, AgedFacts DEF Sessions, PollsOK
<1>6. WritersOK'
  <2> SUFFICES ASSUME NEW w \in Workers, run[w].pc = "writing" PROVE WriteDraft(w)'
    BY <1>1 DEF WritersOK
  <2>1. WriteDraft(w) /\ run[w].job \in Rows /\ run[w].job \in DOMAIN jobWrites[w]
    BY <1>3 DEF Sessions, WritersOK, AtWork, Typed, RunShape
  <2> QED BY <2>1, <1>1, <1>2, AgedFacts DEF WriteDraft
<1>7. RowsOK'
  <2>1. \A j \in Rows : RowOK(job'[j])
    BY <1>1, AgedFacts DEF RowsOK
  <2>2. \A w \in Workers : \A j \in DOMAIN jobWrites[w] : RowOK(jobWrites'[w][j])
    BY <1>2, AgedFacts DEF RowsOK
  <2> QED BY <2>1, <2>2, <1>1, <1>2 DEF RowsOK
<1>8. GenerationsOK'
  BY <1>1, <1>3, AgedFacts DEF Runners, GenerationsOK
<1>9. RunnersOK'
  BY <1>1, <1>3, AgedFacts DEF Runners, RunnersOK, Resuming, AtWork
<1>10. ResumersOK'
  <2> SUFFICES ASSUME CommitsPromptly, NEW w \in Workers, run[w].pc = "resumed"
               PROVE  HoldsLease(job'[run[w].job], w)
    BY <1>1 DEF ResumersOK, Holds
  <2>1. HoldsLease(job[run[w].job], w) /\ job[run[w].job].lease # 1 /\ run[w].job \in Rows
    BY <1>3 DEF Tick, Runners, ResumersOK, Holds, AtWork
  <2> QED BY <2>1, <1>1, AgedFacts
<1>11. OneActiveJob' /\ ActiveJobDocumentNotFailed'
  BY <1>1, AgedFacts DEF Tables, OneActiveJob, ActiveJobDocumentNotFailed
<1> QED BY <1>4, <1>5, <1>6, <1>7, <1>8, <1>9, <1>10, <1>11 DEF LeaseInv, Typed

-----------------------------------------------------------------------------
LEMMA StepLease == LeaseInv /\ [Next]_vars => LeaseInv'
<1> SUFFICES ASSUME LeaseInv, [Next]_vars PROVE LeaseInv'
  OBVIOUS
<1>1. Typed'
  BY LeaseInvParts, StepTyped
<1>2. CASE UNCHANGED vars
  <2>1. UNCHANGED <<queued, job, docs, jobWrites, docWrites, run>>
    BY <1>2 DEF vars, tx
  <2>2. Sessions' /\ RowsOK'
    BY <2>1, LeaseInvParts DEF Sessions, LocksExclusive, PollsOK, PollDraft, WritersOK,
       WriteDraft, RowsOK, Rows
  <2>3. Runners' /\ Tables'
    BY <2>1, LeaseInvParts DEF Runners, GenerationsOK, RunnersOK, ResumersOK, Resuming, Holds,
       Tables, OneActiveJob, ActiveJobDocumentNotFailed, Rows
  <2> QED BY <1>1, <2>2, <2>3 DEF LeaseInv, Typed, Sessions, Runners, Tables
<1>3. ASSUME NEW d \in Docs, Enqueue(d) PROVE LeaseInv'
  BY <1>1, <1>3, EnqueueSafe
<1>4. ASSUME NEW w \in Workers, Work(w) PROVE LeaseInv'
  BY <1>1, <1>4, PollSafe, CommitPollSafe, HeartbeatSafe, LeaseLostSafe, BeginRunSafe,
     StampResultSafe, BeginStageSafe, BeginFinishSafe, CommitWriteSafe, ClearTerminalLeaseSafe,
     ResumeRenewSafe, ResumeFinishSafe, MarkFailedSafe, PublishChunksSafe
     DEF Work
<1>5. ASSUME NEW w \in Workers, Crash(w) PROVE LeaseInv'
  BY <1>1, <1>5, CrashSafe
<1>6. CASE Tick
  BY <1>1, <1>6, TickSafe
<1> QED BY <1>2, <1>3, <1>4, <1>5, <1>6 DEF Next

\* What open transactions have locked and drafted always fits the committed rows.
LEMMA LeaseHolds == Spec => []LeaseInv
BY InitLease, StepLease, PTL DEF Spec

LEMMA LeaseInvImpliesWriterOwnsJob == LeaseInv => WriterOwnsJob
<1> SUFFICES ASSUME LeaseInv, NEW w \in Workers,
                    run[w].pc = "writing" \/ (CommitsPromptly /\ run[w].pc = "resumed")
             PROVE  /\ job[run[w].job].status = "running"
                    /\ job[run[w].job].worker = w
                    /\ job[run[w].job].attempts = run[w].gen
                    /\ \A v \in Workers \ {w} : run[w].job \notin DOMAIN jobWrites[v]
  BY DEF WriterOwnsJob
<1> USE LeaseInvParts
<1>1. CASE run[w].pc = "writing"
  <2>1. WriteDraft(w) /\ DOMAIN jobWrites[w] = {run[w].job}
    BY <1>1 DEF Sessions, WritersOK, Typed, RunShape
  <2> QED BY <2>1 DEF WriteDraft, Sessions, LocksExclusive
<1>2. CASE CommitsPromptly /\ run[w].pc = "resumed"
  <2>1. HoldsLease(job[run[w].job], w)
    BY <1>2 DEF Runners, ResumersOK, Holds
  <2>2. job[run[w].job].attempts = run[w].gen
    BY <2>1, <1>2 DEF Runners, GenerationsOK, HoldsLease, AtWork
  <2>3. ASSUME NEW v \in Workers \ {w} PROVE run[w].job \notin DOMAIN jobWrites[v]
    BY <2>1, DraftFacts DEF Typed, RunShape
  <2> QED BY <2>1, <2>2, <2>3 DEF HoldsLease
<1> QED BY <1>1, <1>2

\* Whoever stands between the lease check and the commit of a write owns the
\* job: _ensure_current_lease keeps the row lock until that commit.
THEOREM WritersOwnTheirJobs == Spec => []WriterOwnsJob
BY LeaseHolds, LeaseInvImpliesWriterOwnsJob, PTL

\* A document never has two jobs that are READY or RUNNING, through recovery,
\* claims, failures and new requests.
THEOREM AtMostOneActiveJob == Spec => []OneActiveJob
<1>1. LeaseInv => OneActiveJob
  BY DEF LeaseInv
<1> QED BY <1>1, LeaseHolds, PTL

\* A READY job can be claimed: recovery never leaves a job with no attempt left.
THEOREM ReadyJobsAreClaimable == Spec => []ReadyIsClaimable
<1>1. LeaseInv => ReadyIsClaimable
  BY DEF LeaseInv, RowsOK, RowOK, ReadyIsClaimable, Claimable
<1> QED BY <1>1, LeaseHolds, PTL

\* The document of an active job is never FAILED.
THEOREM ActiveJobsHaveLiveDocuments == Spec => []ActiveJobDocumentNotFailed
<1>1. LeaseInv => ActiveJobDocumentNotFailed
  BY DEF LeaseInv
<1> QED BY <1>1, LeaseHolds, PTL

-----------------------------------------------------------------------------
(* Resumptions: the rest of IInv, from LeaseInv.                           *)

\* What ResumptionInv reads of a row and of a draft.
Alike(r, s) ==
    r.status = s.status /\ r.worker = s.worker /\ r.stage = s.stage /\ r.recovery = s.recovery

\* The positions a worker may go to without any claim on the row's stage.
Onward(v) ==
    \/ run'[v].pc \notin AtWork \cup {"polling"}
    \/ /\ run'[v].job = run[v].job /\ run'[v].gen = run[v].gen /\ run'[v].stage = run[v].stage
       /\ \/ run'[v].pc = run[v].pc
          \/ run[v].pc = "claimed" /\ run'[v].pc = "leased"
          \/ run[v].pc = "leased" /\ run'[v].pc = "resumed"

\* What the runner of an attempt may rely on, and a poll of its drafts.
BeginnerOK(w) ==
    run[w].pc \in AtWork =>
        /\ run[w].gen # 0
        /\ run[w].pc \in {"claimed", "leased"} /\ Mine(w) /\ (IsAt(job[run[w].job]) \/ IsAt(run[w]))
             => Resuming(w)
        /\ run[w].pc = "preparing" => ~IsAt(run[w])

BegunBy(w) ==
    /\ run[w].pc \in {"preparing", "running"} /\ Mine(w) => began[run[w].job] = run[w].gen
    /\ run[w].pc = "writing" /\ jobWrites[w][run[w].job].status = "running" =>
         IF DOMAIN docWrites[w] = {}
         THEN began[run[w].job] = run[w].gen
         ELSE ~IsAt(jobWrites[w][run[w].job]) /\ ~IsAt(run[w])

StagesPolled(row, draft) ==
    draft.status \in Active =>
        /\ draft.stage = row.stage
        /\ draft.status = "running" => draft.attempts # 0
        /\ Resumes(draft) => Resumes(row) \/ IsAt(row)
        /\ IsAt(draft) => Resumes(draft)

PolledBy(w) ==
    run[w].pc = "polling" => \A j \in DOMAIN jobWrites[w] : StagesPolled(job[j], jobWrites[w][j])

IndexedRow(j) ==
    job[j].status \in Active /\ (Resumes(job[j]) \/ IsAt(job[j]))
        => began[j] # 0 /\ indexed[j] = began[j]

LEMMA ResumptionParts ==
    ResumptionInv <=> /\ HistoryTypeOK
                      /\ \A j \in Rows : job[j].status = "ready" /\ IsAt(job[j]) => Resumes(job[j])
                      /\ \A j \in Rows : IndexedRow(j)
                      /\ \A w \in Workers : PolledBy(w) /\ BeginnerOK(w) /\ BegunBy(w)
BY DEF ResumptionInv, WaitingOK, PollStagesOK, BeginnersOK, BegunOK, ResumeFromSearchReady,
   StagesPolled, PolledBy, BeginnerOK, BegunBy, IndexedRow, Resumes, IsAt

LEMMA ResumptionParts2 ==
    ResumptionInv' <=>
      /\ HistoryTypeOK'
      /\ \A j \in Rows' : job'[j].status = "ready" /\ IsAt(job'[j]) => Resumes(job'[j])
      /\ \A j \in Rows' : IndexedRow(j)'
      /\ \A w \in Workers : PolledBy(w)' /\ BeginnerOK(w)' /\ BegunBy(w)'
BY DEF ResumptionInv, WaitingOK, PollStagesOK, BeginnersOK, BegunOK, ResumeFromSearchReady,
   StagesPolled, PolledBy, BeginnerOK, BegunBy, IndexedRow, Resumes, IsAt

LEMMA InitResumption == Init => ResumptionInv
<1> SUFFICES ASSUME Init PROVE ResumptionInv
  OBVIOUS
<1>1. Rows = {} /\ \A w \in Workers : run[w].pc = "idle"
  BY DEF Init, Rows, Idle
<1>2. HistoryTypeOK
  BY ConstantsAssumed DEF Init, HistoryTypeOK, ConstantsOK
<1> QED BY <1>1, <1>2, ResumptionParts DEF PolledBy, BeginnerOK, BegunBy, AtWork

\* Steps that leave stage and recovery action of the active rows alone.
LEMMA QuietResumption ==
    ASSUME LeaseInv, LeaseInv', ResumptionInv, UNCHANGED <<queued, hist>>,
           \A j \in Rows : job'[j].status \notin Active \/ Alike(job'[j], job[j]),
           \A v \in Workers : Onward(v),
           \A v \in Workers : run'[v].pc \in {"polling", "writing"} =>
             /\ DOMAIN jobWrites'[v] = DOMAIN jobWrites[v] /\ docWrites'[v] = docWrites[v]
             /\ \A j \in DOMAIN jobWrites[v] :
                  Alike(jobWrites'[v][j], jobWrites[v][j])
                  /\ jobWrites'[v][j].attempts = jobWrites[v][j].attempts
    PROVE  ResumptionInv'
<1> USE ResumptionParts, LeaseInvParts
<1>1. Rows' = Rows /\ UNCHANGED <<began, indexed>> /\ HistoryTypeOK'
  BY DEF Rows, hist, HistoryTypeOK
<1>2. \A j \in Rows : /\ job'[j].status = "ready" /\ IsAt(job'[j]) => Resumes(job'[j])
                      /\ IndexedRow(j)'
  BY <1>1 DEF Alike, IndexedRow, IsAt, Resumes, Active
<1>3. ASSUME NEW v \in Workers, run'[v].pc = "polling", NEW j \in DOMAIN jobWrites'[v]
      PROVE  StagesPolled(job'[j], jobWrites'[v][j])
  <2>1. /\ run[v].pc = "polling" /\ j \in DOMAIN jobWrites[v] /\ j \in Rows
        /\ StagesPolled(job[j], jobWrites[v][j])
    BY <1>3, DraftFacts DEF Onward, PolledBy
  <2>2. job'[j].status \in Active
    BY <1>3 DEF LeaseInv, PollsOK, PollDraft, Recoverable, Claimable, Active
  <2> QED BY <1>3, <2>1, <2>2 DEF Alike, StagesPolled, IsAt, Resumes
<1>4. ASSUME NEW v \in Workers, run'[v].pc \in AtWork
      PROVE  BeginnerOK(v)' /\ BegunBy(v)'
  <2>1. /\ run'[v].job = run[v].job /\ run'[v].gen = run[v].gen /\ run'[v].stage = run[v].stage
        /\ \/ run'[v].pc = run[v].pc
           \/ run[v].pc = "claimed" /\ run'[v].pc = "leased"
           \/ run[v].pc = "leased" /\ run'[v].pc = "resumed"
        /\ run[v].pc \in AtWork /\ run[v].job \in Rows
    BY <1>4, WorkerFacts DEF Onward, AtWork
  <2>2. Mine(v)' => Mine(v) /\ Alike(job'[run[v].job], job[run[v].job])
    BY <2>1 DEF Mine, Alike, Active
  <2>3. BeginnerOK(v)'
    BY <2>1, <2>2 DEF BeginnerOK, Resuming, IsAt, Alike, AtWork
  <2>4. BegunBy(v)'
    <3>1. CASE run'[v].pc = "writing"
      <4>1. run[v].pc = "writing" /\ run[v].job \in DOMAIN jobWrites[v]
        BY <3>1, <2>1 DEF Typed, RunShape
      <4> QED BY <3>1, <4>1, <2>1, <1>1 DEF BegunBy, Alike, IsAt
    <3>2. CASE run'[v].pc # "writing"
      BY <3>2, <2>1, <2>2, <1>1 DEF BegunBy
    <3> QED BY <3>1, <3>2
  <2> QED BY <2>3, <2>4
<1>5. ASSUME NEW v \in Workers PROVE PolledBy(v)' /\ BeginnerOK(v)' /\ BegunBy(v)'
  BY <1>3, <1>4 DEF PolledBy, BeginnerOK, BegunBy, AtWork
<1> QED BY <1>1, <1>2, <1>5, ResumptionParts2

LEMMA QuietStepsResumption ==
    ASSUME LeaseInv, LeaseInv', ResumptionInv, NEW w \in Workers,
           \/ Heartbeat(w) \/ LeaseLost(w) \/ ClearTerminalLease(w) \/ ResumeRenew(w)
           \/ ResumeFinish(w) \/ MarkFailed(w) \/ PublishChunks(w) \/ Crash(w)
    PROVE  ResumptionInv'
<1> USE LeaseInvParts
<1>1. UNCHANGED <<queued, hist>>
  BY DEF Heartbeat, LeaseLost, ClearTerminalLease, ResumeRenew, ResumeFinish, MarkFailed,
     PublishChunks, Crash
<1>2. \/ run' = [run EXCEPT ![w] = Idle]
      \/ run' = run
      \/ run[w].pc = "claimed" /\ run' = [run EXCEPT ![w].pc = "leased"]
      \/ run[w].pc = "leased" /\ run' = [run EXCEPT ![w].pc = "resumed"]
  <2>1. CASE Heartbeat(w)
    BY <2>1 DEF Heartbeat, Typed, QueueTypeOK, RunType
  <2>2. CASE ResumeRenew(w)
    BY <2>2 DEF ResumeRenew, AtJob
  <2>3. CASE LeaseLost(w) \/ ClearTerminalLease(w) \/ ResumeFinish(w) \/ MarkFailed(w)
             \/ PublishChunks(w) \/ Crash(w)
    BY <2>3 DEF LeaseLost, ClearTerminalLease, ResumeFinish, MarkFailed, PublishChunks, Crash
  <2> QED BY <2>1, <2>2, <2>3
<1>3. \A v \in Workers : Onward(v)
  <2>1. \A v \in Workers : run[v] \in RunType
    BY DEF Typed, QueueTypeOK
  <2>2. ASSUME NEW v \in Workers
        PROVE  \/ run'[v] = Idle \/ run'[v] = run[v]
               \/ run[v].pc = "claimed" /\ run'[v] = [run[v] EXCEPT !.pc = "leased"]
               \/ run[v].pc = "leased" /\ run'[v] = [run[v] EXCEPT !.pc = "resumed"]
    <3>1. DOMAIN run = Workers
      BY DEF Typed, QueueTypeOK
    <3>2. CASE v # w
      BY <1>2, <3>1, <3>2
    <3>3. CASE v = w
      <4>1. CASE run' = [run EXCEPT ![w] = Idle] \/ run' = run
        BY <3>1, <3>3, <4>1
      <4>2. CASE run[w].pc = "claimed" /\ run' = [run EXCEPT ![w].pc = "leased"]
        BY <3>1, <3>3, <4>2
      <4>3. CASE run[w].pc = "leased" /\ run' = [run EXCEPT ![w].pc = "resumed"]
        BY <3>1, <3>3, <4>3
      <4> QED BY <1>2, <4>1, <4>2, <4>3
    <3> QED BY <3>2, <3>3
  <2>3. ASSUME NEW v \in Workers PROVE Onward(v)
    <3>1. CASE run'[v] = Idle \/ run'[v] = run[v]
      BY <3>1 DEF Onward, Idle, AtWork
    <3>2. CASE run[v].pc = "claimed" /\ run'[v] = [run[v] EXCEPT !.pc = "leased"]
      BY <2>1, <3>2 DEF Onward, RunType
    <3>3. CASE run[v].pc = "leased" /\ run'[v] = [run[v] EXCEPT !.pc = "resumed"]
      BY <2>1, <3>3 DEF Onward, RunType
    <3> QED BY <2>2, <3>1, <3>2, <3>3
  <2> QED BY <2>3
<1>4. \A v \in Workers : run'[v].pc \in {"polling", "writing"} =>
        jobWrites'[v] = jobWrites[v] /\ docWrites'[v] = docWrites[v]
  BY <1>2 DEF Heartbeat, LeaseLost, ClearTerminalLease, ResumeRenew, ResumeFinish, MarkFailed,
     PublishChunks, Crash, CloseTx, tx, Idle, Typed, QueueTypeOK
<1>5. \A j \in Rows : job'[j].status \notin Active \/ Alike(job'[j], job[j])
  <2>1. CASE LeaseLost(w) \/ PublishChunks(w) \/ Crash(w)
    BY <2>1 DEF LeaseLost, PublishChunks, Crash, Alike
  <2>2. CASE Heartbeat(w) \/ ClearTerminalLease(w) \/ ResumeRenew(w) \/ ResumeFinish(w)
             \/ MarkFailed(w)
    <3>1. run[w].job \in Rows /\ job[run[w].job] \in JobRow
      BY <2>2, WorkerFacts DEF Heartbeat, ClearTerminalLease, ResumeRenew, ResumeFinish,
         MarkFailed, AtJob, AtWork, Beating
    <3>2. \A j \in Rows \ {run[w].job} : job'[j] = job[j]
      BY <2>2, <3>1 DEF Heartbeat, ClearTerminalLease, ResumeRenew, ResumeFinish, MarkFailed,
         Typed, QueueTypeOK
    <3>3. job'[run[w].job].status \notin Active \/ Alike(job'[run[w].job], job[run[w].job])
      <4>1. CASE Heartbeat(w) \/ ResumeRenew(w)
        <5>1. job'[run[w].job] = Renewed(job[run[w].job])
          BY <4>1, <3>1 DEF Heartbeat, ResumeRenew, Typed, QueueTypeOK
        <5> QED BY <5>1, <3>1 DEF Renewed, Alike, JobRow
      <4>2. CASE ClearTerminalLease(w)
        <5>1. run[w].pc = "finished"
          BY <4>2 DEF ClearTerminalLease, AtJob
        <5>2. job[run[w].job].status \in Terminal
          BY <5>1 DEF Runners, RunnersOK
        <5>3. job'[run[w].job] = Cleared(job[run[w].job])
          BY <4>2, <3>1 DEF ClearTerminalLease, Typed, QueueTypeOK
        <5>4. Cleared(job[run[w].job]).status = job[run[w].job].status
          BY <3>1 DEF Cleared, JobRow
        <5> QED BY <5>2, <5>3, <5>4 DEF Active, Terminal
      <4>3. CASE ResumeFinish(w)
        <5>1. job'[run[w].job]
                = Cleared(Finished(job[run[w].job], run[w].gen, "succeeded", "ready"))
          BY <4>3, <3>1 DEF ResumeFinish, Typed, QueueTypeOK
        <5> QED BY <5>1, <3>1 DEF Cleared, Finished, Renewed, JobRow, Active
      <4>4. CASE MarkFailed(w)
        <5>1. job'[run[w].job] = MarkedFailed(job[run[w].job], run[w].gen)
          BY <4>4, <3>1 DEF MarkFailed, Typed, QueueTypeOK
        <5> QED BY <5>1, <3>1 DEF MarkedFailed, JobRow, Active
      <4> QED BY <2>2, <4>1, <4>2, <4>3, <4>4
    <3> QED BY <3>2, <3>3 DEF Alike
  <2> QED BY <2>1, <2>2
<1> QED BY <1>1, <1>3, <1>4, <1>5, QuietResumption DEF Alike

LEMMA TickResumption ==
    ASSUME LeaseInv, LeaseInv', ResumptionInv, Tick
    PROVE  ResumptionInv'
<1> USE LeaseInvParts
<1>1. UNCHANGED <<queued, hist>> /\ run' = run /\ docWrites' = docWrites
  BY DEF Tick
<1>2. \A j \in Rows : Alike(job'[j], job[j])
  BY AgedFacts DEF Tick, Typed, QueueTypeOK, Alike, Aged, JobRow
<1>3. \A v \in Workers : Onward(v)
  BY <1>1 DEF Onward
<1>4. ASSUME NEW v \in Workers
      PROVE  /\ DOMAIN jobWrites'[v] = DOMAIN jobWrites[v]
             /\ \A j \in DOMAIN jobWrites[v] :
                  Alike(jobWrites'[v][j], jobWrites[v][j])
                  /\ jobWrites'[v][j].attempts = jobWrites[v][j].attempts
  <2>1. \A j \in DOMAIN jobWrites[v] : jobWrites[v][j] \in JobRow
    BY DEF Typed, QueueTypeOK, IsPartial
  <2> QED BY <2>1 DEF Tick, Alike, Aged, JobRow
<1> QED BY <1>1, <1>2, <1>3, <1>4, QuietResumption

\* A stale flush may take a resumable stage away, and never brings one.
LEMMA StampResumption ==
    ASSUME LeaseInv, LeaseInv', ResumptionInv, NEW w \in Workers, StampResult(w)
    PROVE  ResumptionInv'
<1> USE ResumptionParts, LeaseInvParts
<1> DEFINE i == run[w].job
<1>1. /\ Rows' = Rows /\ UNCHANGED <<began, indexed, jobWrites, docWrites>> /\ HistoryTypeOK'
      /\ run[w].pc = "preparing" /\ ~JobLocked(i)
      /\ run' = [run EXCEPT ![w].pc = "running"]
  BY DEF StampResult, AtJob, Rows, hist, tx, HistoryTypeOK
<1>2. i \in Rows /\ job[i] \in JobRow /\ ~IsAt(run[w])
  BY <1>1, WorkerFacts DEF AtWork, BeginnerOK
<1>3. PICK row \in {Stamped(job[i], run[w].stage), job[i]} : job' = [job EXCEPT ![i] = row]
  BY DEF StampResult, Typed, QueueTypeOK
<1>4. /\ row.status = job[i].status /\ row.worker = job[i].worker
      /\ row.recovery = job[i].recovery /\ (IsAt(row) => IsAt(job[i]))
  BY <1>2 DEF Stamped, IsAt, JobRow
<1>5. job'[i] = row /\ \A j \in Rows \ {i} : job'[j] = job[j]
  BY <1>2, <1>3 DEF Typed, QueueTypeOK
<1>6. \A j \in Rows : /\ job'[j].status = job[j].status /\ job'[j].worker = job[j].worker
                      /\ job'[j].recovery = job[j].recovery /\ (IsAt(job'[j]) => IsAt(job[j]))
  BY <1>4, <1>5
<1>7. /\ run'[w].pc = "running" /\ run'[w].job = run[w].job /\ run'[w].gen = run[w].gen
      /\ \A v \in Workers \ {w} : run'[v] = run[v]
  BY <1>1 DEF Typed, QueueTypeOK
<1> HIDE DEF i
<1>8. \A j \in Rows : /\ job'[j].status = "ready" /\ IsAt(job'[j]) => Resumes(job'[j])
                      /\ IndexedRow(j)'
  BY <1>1, <1>6 DEF IndexedRow, Resumes
<1>9. ASSUME NEW v \in Workers PROVE PolledBy(v)'
  <2>1. \A j \in DOMAIN jobWrites[v] : j \in Rows /\ j # i
    BY <1>1 DEF JobLocked, Typed, QueueTypeOK, IsPartial
  <2>2. run'[v].pc = "polling" => run[v].pc = "polling"
    BY <1>7
  <2> QED BY <1>1, <1>5, <2>1, <2>2 DEF PolledBy
<1>10. ASSUME NEW v \in Workers PROVE BeginnerOK(v)' /\ BegunBy(v)'
  <2>1. /\ run[v].pc \in AtWork => run[v].job \in Rows
        /\ run'[v].job = run[v].job /\ run'[v].gen = run[v].gen
        /\ run'[v] = run[v] \/ (run[v].pc = "preparing" /\ run'[v].pc = "running")
    BY <1>1, <1>7, WorkerFacts
  <2>2. run[v].pc \in AtWork => (Mine(v)' <=> Mine(v))
    BY <1>6, <2>1 DEF Mine
  <2> QED BY <1>1, <1>6, <2>1, <2>2 DEF BeginnerOK, BegunBy, AtWork, Resuming
<1> QED BY <1>1, <1>8, <1>9, <1>10, ResumptionParts2

LEMMA EnqueueResumption ==
    ASSUME LeaseInv, LeaseInv', ResumptionInv, NEW d \in Docs, Enqueue(d)
    PROVE  ResumptionInv'
<1> USE ResumptionParts, LeaseInvParts
<1>1. /\ UNCHANGED <<began, indexed, jobWrites, docWrites, run>> /\ HistoryTypeOK'
      /\ Rows' = Rows \cup {queued + 1}
      /\ \A i \in Rows : i \in Rows' /\ job'[i] = job[i]
      /\ job'[queued + 1] = NewRow(d)
  BY DEF Enqueue, Rows, Typed, QueueTypeOK, hist, tx, HistoryTypeOK
<1>2. ~IsAt(NewRow(d)) /\ ~Resumes(NewRow(d))
  BY DEF NewRow, IsAt, Resumes, ResumableStages
<1>3. ASSUME NEW j \in Rows'
      PROVE  /\ job'[j].status = "ready" /\ IsAt(job'[j]) => Resumes(job'[j])
             /\ IndexedRow(j)'
  BY <1>1, <1>2, <1>3 DEF IndexedRow
<1>4. ASSUME NEW v \in Workers PROVE PolledBy(v)' /\ BeginnerOK(v)' /\ BegunBy(v)'
  <2>1. run[v].pc \in AtWork => run[v].job \in Rows
    BY WorkerFacts
  <2>2. \A j \in DOMAIN jobWrites[v] : j \in Rows
    BY DEF Typed, QueueTypeOK, IsPartial
  <2> QED BY <1>1, <2>1, <2>2 DEF PolledBy, BeginnerOK, BegunBy, Mine, Resuming, AtWork
<1> QED BY <1>1, <1>3, <1>4, ResumptionParts2

\* A poll chooses to resume exactly from a resumable stage.
LEMMA PollResumption ==
    ASSUME LeaseInv, LeaseInv', ResumptionInv, NEW w \in Workers, Poll(w)
    PROVE  ResumptionInv'
<1> USE ResumptionParts, LeaseInvParts
<1>1. /\ Rows' = Rows /\ UNCHANGED <<began, indexed, job>> /\ HistoryTypeOK'
      /\ run' = [run EXCEPT ![w].pc = "polling"]
      /\ \A v \in Workers \ {w} : jobWrites'[v] = jobWrites[v] /\ docWrites'[v] = docWrites[v]
  BY DEF Poll, Rows, hist, HistoryTypeOK, Typed, QueueTypeOK
<1>2. /\ run'[w].pc = "polling" /\ \A v \in Workers \ {w} : run'[v] = run[v]
  BY <1>1 DEF Typed, QueueTypeOK
<1>3. \A j \in Rows : /\ job'[j].status = "ready" /\ IsAt(job'[j]) => Resumes(job'[j])
                      /\ IndexedRow(j)'
  BY <1>1 DEF IndexedRow
<1>4. ASSUME NEW j \in DOMAIN jobWrites'[w] PROVE StagesPolled(job'[j], jobWrites'[w][j])
  <2>1. /\ j \in LapsedJobs \cup NextClaims
        /\ jobWrites'[w][j] = IF j \in NextClaims THEN Claimed(Seen(j), w) ELSE Seen(j)
    BY <1>4 DEF Poll, Typed, QueueTypeOK
  <2>2. j \in Rows /\ job[j] \in JobRow /\ job'[j] = job[j] /\ RowOK(job[j])
    BY <1>1, <2>1 DEF LapsedJobs, NextClaims, ClaimableJobs, Typed, QueueTypeOK, RowsOK
  <2>3. /\ Seen(j) \in JobRow
        /\ j \in LapsedJobs => Seen(j).status # "running"
        /\ Seen(j).status \in Active =>
             /\ Seen(j).stage = job[j].stage
             /\ Resumes(Seen(j)) => Resumes(job[j]) \/ IsAt(job[j])
             /\ j \in LapsedJobs \/ job[j].status = "ready" => (IsAt(Seen(j)) => Resumes(Seen(j)))
    <3>1. CASE j \in LapsedJobs
      <4>1. Seen(j) = Recovered(job[j]) /\ Recoverable(job[j])
        BY <3>1 DEF Seen, LapsedJobs
      <4>2. Seen(j) \in JobRow
        BY <4>1, <2>2, QueueRowTypes
      <4>3. CASE job[j].attempts >= MaxAttempts
        <5>1. Seen(j).status = "failed"
          BY <4>1, <4>3, <2>2 DEF Recovered, JobRow
        <5> QED BY <5>1, <4>2 DEF Active
      <4>4. CASE ~(job[j].attempts >= MaxAttempts)
        <5>1. /\ Seen(j).status = "ready" /\ Seen(j).stage = job[j].stage
              /\ Seen(j).recovery = IF IsAt(job[j]) THEN "resume_graph_projection"
                                    ELSE "retry_full_index"
          BY <4>1, <4>4, <2>2 DEF Recovered, JobRow, IsAt
        <5> QED BY <5>1, <4>2 DEF Resumes, IsAt
      <4> QED BY <4>3, <4>4
    <3>2. CASE j \notin LapsedJobs
      <4>1. Seen(j) = job[j]
        BY <3>2 DEF Seen
      <4> QED BY <4>1, <3>2, <2>2 DEF Resumes, IsAt
    <3> QED BY <3>1, <3>2
  <2>4. CASE j \in NextClaims
    <3>1. Claimable(Seen(j)) /\ jobWrites'[w][j] = Claimed(Seen(j), w)
      BY <2>1, <2>4 DEF NextClaims, ClaimableJobs
    <3>2. j \in LapsedJobs \/ job[j].status = "ready"
      BY <3>1 DEF Seen, Claimable
    <3>3. /\ jobWrites'[w][j].stage = Seen(j).stage
          /\ jobWrites'[w][j].recovery = Seen(j).recovery
          /\ jobWrites'[w][j].attempts # 0
      BY <3>1, <2>3, ConstantsAssumed DEF Claimed, JobRow, ConstantsOK
    <3> QED BY <3>1, <3>2, <3>3, <2>2, <2>3 DEF StagesPolled, Claimable, Active, Resumes, IsAt
  <2>5. CASE j \notin NextClaims
    BY <2>1, <2>2, <2>3, <2>5 DEF StagesPolled
  <2> QED BY <2>4, <2>5
<1>5. ASSUME NEW v \in Workers PROVE PolledBy(v)' /\ BeginnerOK(v)' /\ BegunBy(v)'
  <2>1. CASE v = w
    BY <1>2, <1>4, <2>1 DEF PolledBy, BeginnerOK, BegunBy, AtWork
  <2>2. CASE v # w
    BY <1>1, <1>2, <2>2 DEF PolledBy, BeginnerOK, BegunBy, Mine, Resuming
  <2> QED BY <2>1, <2>2
<1> QED BY <1>1, <1>3, <1>5, ResumptionParts2

LEMMA CommitPollResumption ==
    ASSUME LeaseInv, LeaseInv', ResumptionInv, NEW w \in Workers, CommitPoll(w)
    PROVE  ResumptionInv'
<1> USE ResumptionParts, LeaseInvParts
<1> DEFINE D == DOMAIN jobWrites[w]
<1>1. /\ Rows' = Rows /\ UNCHANGED <<began, indexed>> /\ HistoryTypeOK' /\ run[w].pc = "polling"
      /\ \A v \in Workers \ {w} : run'[v] = run[v] /\ jobWrites'[v] = jobWrites[v]
                                  /\ docWrites'[v] = docWrites[v]
      /\ \A j \in Rows : job'[j] = IF j \in D THEN jobWrites[w][j] ELSE job[j]
  BY DEF CommitPoll, Publish, CloseTx, Rows, hist, HistoryTypeOK, Typed, QueueTypeOK
<1>2. ASSUME NEW j \in D
      PROVE  /\ j \in Rows /\ job[j].status \in Active
             /\ StagesPolled(job[j], jobWrites[w][j])
             /\ jobWrites[w][j].status = "running" => jobWrites[w][j].worker = w
  BY <1>1, <1>2, DraftFacts DEF PolledBy, Sessions, PollsOK, PollDraft, Recoverable, Claimable,
     Active
<1>3. ASSUME NEW j \in Rows
      PROVE  /\ job'[j].status = "ready" /\ IsAt(job'[j]) => Resumes(job'[j])
             /\ IndexedRow(j)'
  <2>1. CASE j \in D
    BY <1>1, <1>2, <2>1 DEF StagesPolled, IndexedRow, IsAt, Active
  <2>2. CASE j \notin D
    BY <1>1, <2>2 DEF IndexedRow
  <2> QED BY <2>1, <2>2
<1>4. ASSUME NEW v \in Workers \ {w} PROVE PolledBy(v)' /\ BeginnerOK(v)' /\ BegunBy(v)'
  <2>1. \A j \in DOMAIN jobWrites[v] : j \in Rows /\ j \notin D
    BY DEF Sessions, LocksExclusive, Typed, QueueTypeOK, IsPartial
  <2>2. PolledBy(v)'
    BY <1>1, <2>1 DEF PolledBy
  <2>3. ASSUME run[v].pc \in AtWork, Mine(v)'
        PROVE  Mine(v) /\ job'[run[v].job] = job[run[v].job]
    <3>1. run[v].job \in Rows /\ run'[v] = run[v]
      BY <1>1, <2>3, WorkerFacts
    <3>2. run[v].job \notin D
      BY <3>1, <2>3, <1>1, <1>2 DEF Mine
    <3> QED BY <3>1, <3>2, <2>3, <1>1 DEF Mine
  <2> QED BY <1>1, <2>2, <2>3 DEF BeginnerOK, BegunBy, Resuming, AtWork
<1>5. PolledBy(w)' /\ BeginnerOK(w)' /\ BegunBy(w)'
  <2>1. CASE ClaimsOf(w) = {}
    <3>1. run'[w] = Idle
      BY <2>1 DEF CommitPoll, Typed, QueueTypeOK
    <3> QED BY <3>1 DEF PolledBy, BeginnerOK, BegunBy, Idle, AtWork
  <2>2. CASE ClaimsOf(w) # {}
    <3>1. PICK j \in ClaimsOf(w) :
            run'[w] = [pc |-> "claimed", job |-> j, gen |-> jobWrites[w][j].attempts,
                       stage |-> jobWrites[w][j].stage]
      BY <2>2 DEF CommitPoll, Typed, QueueTypeOK
    <3>2. /\ j \in D /\ j \in Rows /\ job'[j] = jobWrites[w][j]
          /\ jobWrites[w][j].status = "running"
      BY <1>1, <1>2 DEF ClaimsOf
    <3>3. StagesPolled(job[j], jobWrites[w][j])
      BY <1>2, <3>2
    <3> QED BY <3>1, <3>2, <3>3
            DEF PolledBy, BeginnerOK, BegunBy, StagesPolled, Resuming, Resumes, IsAt, Active
  <2> QED BY <2>1, <2>2
<1> QED BY <1>1, <1>3, <1>4, <1>5, ResumptionParts2

\* A full run begins only where no resumable stage is left; a stage is reported
\* by the run begun last.
LEMMA WriteResumption ==
    ASSUME LeaseInv, LeaseInv', ResumptionInv, NEW w \in Workers,
           \/ BeginRun(w) \/ BeginSucceed(w) \/ BeginFail(w)
           \/ \E s \in ReportedStages : BeginStage(w, s)
    PROVE  ResumptionInv'
<1> USE ResumptionParts, LeaseInvParts
<1>1. /\ Rows' = Rows /\ UNCHANGED <<began, indexed, job>> /\ HistoryTypeOK'
      /\ run' = [run EXCEPT ![w].pc = "writing"]
      /\ \A v \in Workers \ {w} : jobWrites'[v] = jobWrites[v] /\ docWrites'[v] = docWrites[v]
  BY DEF BeginRun, BeginSucceed, BeginFail, BeginFinish, BeginStage, WriteJob, WriteDoc, Rows,
     hist, HistoryTypeOK, Typed, QueueTypeOK
<1>2. /\ run'[w].pc = "writing" /\ run'[w].job = run[w].job /\ run'[w].gen = run[w].gen
      /\ run'[w].stage = run[w].stage
      /\ \A v \in Workers \ {w} : run'[v] = run[v]
  BY <1>1 DEF Typed, QueueTypeOK
<1>3. \A j \in Rows : /\ job'[j].status = "ready" /\ IsAt(job'[j]) => Resumes(job'[j])
                      /\ IndexedRow(j)'
  BY <1>1 DEF IndexedRow
<1>4. /\ Holds(w) /\ Mine(w) /\ run[w].job \in Rows /\ job[run[w].job] \in JobRow
      /\ run[w].pc \in {"leased", "preparing", "running"} /\ run[w].gen # 0
  BY WorkerFacts DEF BeginRun, BeginSucceed, BeginFail, BeginFinish, BeginStage, AtJob, AtWork,
     Holds, HoldsLease, Mine, BeginnerOK
<1>5. BegunBy(w)'
  <2>1. CASE BeginRun(w)
    <3>1. /\ jobWrites'[w][run[w].job] = Renewed(job[run[w].job])
          /\ docWrites'[w] = [d \in {job[run[w].job].doc} |-> "running"]
          /\ run[w].pc = "leased" /\ ~Resuming(w)
      BY <2>1 DEF BeginRun, WriteJob, WriteDoc, AtJob, Typed, QueueTypeOK
    <3>2. ~IsAt(job[run[w].job]) /\ ~IsAt(run[w])
      BY <3>1, <1>4 DEF BeginnerOK, AtWork
    <3>3. ~IsAt(Renewed(job[run[w].job])) /\ DOMAIN docWrites'[w] # {}
      BY <3>1, <3>2, <1>4 DEF Renewed, IsAt, JobRow
    <3>4. ~IsAt(run'[w])
      BY <1>2, <3>2 DEF IsAt
    <3> QED BY <1>2, <3>1, <3>3, <3>4 DEF BegunBy
  <2>2. CASE BeginSucceed(w) \/ BeginFail(w)
    <3>1. PICK s \in {"succeeded", "failed"} : \E g \in IndexStage :
            jobWrites'[w][run[w].job] = Finished(job[run[w].job], run[w].gen, s, g)
      BY <2>2 DEF BeginSucceed, BeginFail, BeginFinish, WriteJob, Typed, QueueTypeOK, IndexStage
    <3>2. jobWrites'[w][run[w].job].status = s
      BY <3>1, <1>4 DEF Finished, Renewed, JobRow
    <3> QED BY <1>2, <3>2 DEF BegunBy
  <2>3. CASE \E s \in ReportedStages : BeginStage(w, s)
    <3>1. docWrites'[w] = docWrites[w] /\ run[w].pc = "running"
      BY <2>3 DEF BeginStage, AtJob
    <3>2. DOMAIN docWrites[w] = {} /\ began[run[w].job] = run[w].gen
      BY <3>1, <1>4 DEF Typed, RunShape, BegunBy
    <3> QED BY <1>1, <1>2, <3>1, <3>2 DEF BegunBy
  <2> QED BY <2>1, <2>2, <2>3
<1>6. ASSUME NEW v \in Workers PROVE PolledBy(v)' /\ BeginnerOK(v)' /\ BegunBy(v)'
  <2>1. CASE v = w
    BY <1>2, <1>4, <1>5, <2>1 DEF PolledBy, BeginnerOK, AtWork
  <2>2. CASE v # w
    BY <1>1, <1>2, <2>2 DEF PolledBy, BeginnerOK, BegunBy, Mine, Resuming
  <2> QED BY <2>1, <2>2
<1> QED BY <1>1, <1>3, <1>6, ResumptionParts2

LEMMA CommitWriteResumption ==
    ASSUME LeaseInv, LeaseInv', ResumptionInv, NEW w \in Workers, CommitWrite(w)
    PROVE  ResumptionInv'
<1> USE ResumptionParts, LeaseInvParts
<1> DEFINE i     == run[w].job
           draft == jobWrites[w][i]
           next  == IF draft.status \in Terminal THEN "finished"
                    ELSE IF DOMAIN docWrites[w] = {} THEN "running" ELSE "preparing"
<1>1. /\ Rows' = Rows /\ run[w].pc = "writing" /\ run' = [run EXCEPT ![w].pc = next]
      /\ began' = [began EXCEPT ![i] = IF next = "preparing" THEN run[w].gen ELSE @]
      /\ indexed' = [indexed EXCEPT ![i] =
           IF next = "running" /\ draft.stage \in ResumableStages THEN run[w].gen ELSE @]
      /\ \A v \in Workers \ {w} : jobWrites'[v] = jobWrites[v] /\ docWrites'[v] = docWrites[v]
      /\ \A j \in Rows : job'[j] = IF j \in DOMAIN jobWrites[w] THEN jobWrites[w][j] ELSE job[j]
  BY DEF CommitWrite, Publish, CloseTx, Rows, Typed, QueueTypeOK
<1>2. /\ i \in Rows /\ DOMAIN jobWrites[w] = {i} /\ job[i] \in JobRow /\ draft \in JobRow
      /\ run[w].gen \in 0 .. MaxAttempts /\ i \in Jobs
  BY <1>1, WorkerFacts, DraftFacts, ConstantsAssumed DEF Typed, RunShape, AtWork, Rows, Jobs,
     QueueTypeOK, ConstantsOK
<1>3. /\ Mine(w) /\ draft.worker = w /\ draft.recovery = job[i].recovery /\ draft.status # "ready"
      /\ ~Resumes(draft)
  BY <1>1 DEF Sessions, WritersOK, WriteDraft, Mine, Runners, RunnersOK, Resuming, Resumes
<1>4. run[w].gen # 0 /\ BegunBy(w)
  BY <1>1 DEF BeginnerOK, AtWork
<1>5. /\ run'[w].pc = next /\ run'[w].job = i /\ run'[w].gen = run[w].gen
      /\ run'[w].stage = run[w].stage
      /\ \A v \in Workers \ {w} : run'[v] = run[v]
  BY <1>1 DEF Typed, QueueTypeOK
<1>6. /\ HistoryTypeOK'
      /\ \A j \in Rows \ {i} : /\ job'[j] = job[j] /\ began'[j] = began[j]
                               /\ indexed'[j] = indexed[j]
      /\ job'[i] = draft
      /\ began'[i] = IF next = "preparing" THEN run[w].gen ELSE began[i]
      /\ indexed'[i] = IF next = "running" /\ IsAt(draft) THEN run[w].gen ELSE indexed[i]
  <2>1. \A j \in Rows : j \in Jobs
    BY ConstantsAssumed DEF Rows, Jobs, Typed, QueueTypeOK, ConstantsOK
  <2> HIDE DEF next, i
  <2> QED BY <1>1, <1>2, <2>1 DEF HistoryTypeOK, IsAt
<1>7. next = IF draft.status # "running" THEN "finished"
             ELSE IF DOMAIN docWrites[w] = {} THEN "running" ELSE "preparing"
  BY <1>2, <1>3 DEF Terminal, JobRow, StageStatus
<1>8. /\ next = "preparing" => ~IsAt(draft) /\ ~IsAt(run[w])
      /\ next = "running" => began[i] = run[w].gen
  BY <1>1, <1>4, <1>7 DEF BegunBy
<1> HIDE DEF i, draft, next
<1>9. ASSUME NEW j \in Rows
      PROVE  /\ job'[j].status = "ready" /\ IsAt(job'[j]) => Resumes(job'[j])
             /\ IndexedRow(j)'
  <2>1. CASE j # i
    BY <1>6, <2>1 DEF IndexedRow
  <2>2. CASE j = i
    BY <1>3, <1>4, <1>6, <1>7, <1>8, <2>2 DEF IndexedRow, Active
  <2> QED BY <2>1, <2>2
<1>10. ASSUME NEW v \in Workers \ {w} PROVE PolledBy(v)' /\ BeginnerOK(v)' /\ BegunBy(v)'
  <2>1. \A j \in DOMAIN jobWrites[v] : j \in Rows /\ j # i
    BY <1>2 DEF Sessions, LocksExclusive, Typed, QueueTypeOK, IsPartial
  <2>2. PolledBy(v)'
    BY <1>1, <1>5, <1>6, <2>1 DEF PolledBy
  <2>3. ASSUME run[v].pc \in AtWork, Mine(v)'
        PROVE  Mine(v) /\ job'[run[v].job] = job[run[v].job]
               /\ began'[run[v].job] = began[run[v].job]
    <3>1. run[v].job \in Rows /\ run'[v] = run[v]
      BY <1>5, <2>3, WorkerFacts
    <3>2. run[v].job # i
      BY <3>1, <2>3, <1>3, <1>6 DEF Mine
    <3> QED BY <3>1, <3>2, <2>3, <1>6 DEF Mine
  <2>4. run[v].pc = "writing" => run[v].job # i /\ run[v].job \in Rows
    BY <2>1 DEF Typed, RunShape, AtWork
  <2>5. run[v].pc = "writing" => began'[run[v].job] = began[run[v].job]
    BY <2>4, <1>6
  <2> QED BY <1>1, <1>5, <2>2, <2>3, <2>5 DEF BeginnerOK, BegunBy, Resuming, AtWork
<1>11. PolledBy(w)' /\ BeginnerOK(w)' /\ BegunBy(w)'
  <2>1. next \in {"finished", "running", "preparing"} /\ run'[w].pc = next
    BY <1>5 DEF next
  <2>2. ~IsAt(run[w]) => ~IsAt(run'[w])
    BY <1>5 DEF IsAt
  <2> QED BY <1>4, <1>5, <1>6, <1>8, <2>1, <2>2 DEF PolledBy, BeginnerOK, BegunBy, i
<1> QED BY <1>1, <1>6, <1>9, <1>10, <1>11, ResumptionParts2

LEMMA StepResumption ==
    ASSUME LeaseInv, LeaseInv', ResumptionInv, [Next]_vars
    PROVE  ResumptionInv'
<1>1. CASE UNCHANGED vars
  BY <1>1 DEF vars, hist, tx, ResumptionInv, HistoryTypeOK, WaitingOK, PollStagesOK, BeginnersOK,
     BegunOK, ResumeFromSearchReady, Rows, Mine, Resuming
<1>2. ASSUME NEW d \in Docs, Enqueue(d) PROVE ResumptionInv'
  BY <1>2, EnqueueResumption
<1>3. ASSUME NEW w \in Workers, Work(w) PROVE ResumptionInv'
  BY <1>3, QuietStepsResumption, StampResumption, PollResumption, CommitPollResumption,
     WriteResumption, CommitWriteResumption DEF Work
<1>4. ASSUME NEW w \in Workers, Crash(w) PROVE ResumptionInv'
  BY <1>4, QuietStepsResumption
<1>5. CASE Tick
  BY <1>5, TickResumption
<1> QED BY <1>1, <1>2, <1>3, <1>4, <1>5 DEF Next

\* The inductive invariant of the queue holds throughout: sessions, rows and
\* runners, and what makes a resumption safe.
THEOREM InvariantHolds == Spec => []IInv
<1>1. Init => IInv
  BY InitLease, InitResumption DEF IInv
<1>2. IInv /\ [Next]_vars => IInv'
  BY StepLease, StepResumption DEF IInv
<1> QED BY <1>1, <1>2, PTL DEF Spec

\* The columns, the drafts of open transactions and the runners' positions keep
\* their types, whatever the workers, documents, attempts and leases.
THEOREM TypeCorrect == Spec => []TypeOK
<1>1. IInv => TypeOK
  BY DEF IInv, LeaseInv, ResumptionInv, TypeOK
<1> QED BY <1>1, InvariantHolds, PTL

\* A job is resumed only if its newest full run indexed it: neither the unchecked
\* flush of reindex_document nor recovery makes a resumption of a job begun anew.
THEOREM ResumptionsAreOfIndexedRuns == Spec => []ResumeFromSearchReady
<1>1. IInv => ResumeFromSearchReady
  BY DEF IInv, ResumptionInv
<1> QED BY <1>1, InvariantHolds, PTL

-----------------------------------------------------------------------------
(* What a step may never do.                                               *)

\* Every change of a row, and whose it is.
LEMMA RowChange ==
    ASSUME LeaseInv, Next, NEW j \in Rows
    PROVE  /\ j \in Rows'
           /\ \/ job'[j].status = job[j].status
              \/ \E w \in Workers :
                   /\ CommitPoll(w) \/ CommitWrite(w)
                   /\ j \in DOMAIN jobWrites[w]
                   /\ job'[j] = jobWrites[w][j]
              \/ \E w \in Workers : MarkFailed(w) /\ run[w].job = j
              \/ \E w \in Workers : ResumeFinish(w) /\ run[w].job = j
<1> USE LeaseInvParts
<1>1. ASSUME NEW d \in Docs, Enqueue(d) PROVE j \in Rows' /\ job'[j].status = job[j].status
  BY <1>1 DEF Enqueue, Rows, Typed, QueueTypeOK
<1>2. ASSUME NEW w \in Workers, CommitPoll(w) \/ CommitWrite(w)
      PROVE  /\ j \in Rows'
             /\ \/ job'[j].status = job[j].status
                \/ j \in DOMAIN jobWrites[w] /\ job'[j] = jobWrites[w][j]
  BY <1>2 DEF CommitPoll, CommitWrite, Publish, Rows
<1>3. ASSUME NEW w \in Workers,
             Heartbeat(w) \/ StampResult(w) \/ ResumeRenew(w) \/ ClearTerminalLease(w)
      PROVE  j \in Rows' /\ job'[j].status = job[j].status
  <2>1. run[w].job \in Rows /\ job[run[w].job] \in JobRow
    BY <1>3, WorkerFacts
       DEF Heartbeat, StampResult, ResumeRenew, ClearTerminalLease, AtJob, AtWork, Beating
  <2>2. \/ job' = job
        \/ \E row \in {Renewed(job[run[w].job]), Cleared(job[run[w].job]),
                       Stamped(job[run[w].job], run[w].stage)} :
             job' = [job EXCEPT ![run[w].job] = row]
    BY <1>3 DEF Heartbeat, StampResult, ResumeRenew, ClearTerminalLease
  <2>3. queued' = queued
    BY <1>3 DEF Heartbeat, StampResult, ResumeRenew, ClearTerminalLease
  <2>4. /\ Renewed(job[run[w].job]).status = job[run[w].job].status
        /\ Cleared(job[run[w].job]).status = job[run[w].job].status
        /\ Stamped(job[run[w].job], run[w].stage).status = job[run[w].job].status
    BY <2>1 DEF Renewed, Cleared, Stamped, JobRow
  <2> QED BY <2>2, <2>3, <2>4 DEF Rows, Typed, QueueTypeOK
<1>4. ASSUME NEW w \in Workers, MarkFailed(w) \/ ResumeFinish(w)
      PROVE  j \in Rows' /\ (job'[j].status = job[j].status \/ run[w].job = j)
  BY <1>4 DEF MarkFailed, ResumeFinish, Rows, Typed, QueueTypeOK
<1>5. ASSUME NEW w \in Workers,
             \/ Poll(w) \/ LeaseLost(w) \/ BeginRun(w) \/ PublishChunks(w) \/ Crash(w)
             \/ BeginSucceed(w) \/ BeginFail(w) \/ \E s \in ReportedStages : BeginStage(w, s)
      PROVE  j \in Rows' /\ job'[j] = job[j]
  BY <1>5 DEF Poll, LeaseLost, BeginRun, PublishChunks, Crash, BeginSucceed, BeginFail,
     BeginFinish, BeginStage, WriteJob, Rows
<1>6. CASE Tick
  BY <1>6, AgedFacts DEF Tick, Rows, Typed, QueueTypeOK
<1> QED BY <1>1, <1>2, <1>3, <1>4, <1>5, <1>6 DEF Next, Work

LEMMA StatusChange ==
    ASSUME LeaseInv, Next, NEW j \in Rows, job'[j].status # job[j].status,
           \A w \in Workers : ResumeFinish(w) => Holds(w)
    PROVE  /\ job[j].status \in Active
           /\ \A w \in Workers :
                HoldsLease(job[j], w) => run[w].job = j /\ run'[w] # run[w]
<1> USE LeaseInvParts
<1>1. ASSUME NEW w \in Workers, CommitPoll(w) \/ CommitWrite(w), j \in DOMAIN jobWrites[w]
      PROVE  /\ job[j].status \in Active
             /\ \A v \in Workers : HoldsLease(job[j], v) => run[v].job = j /\ run'[v] # run[v]
  <2>1. run[w].pc \in {"polling", "writing"}
    BY <1>1 DEF CommitPoll, CommitWrite
  <2>2. job[j].status \in Active /\ \A v \in Workers \ {w} : ~HoldsLease(job[j], v)
    BY <2>1, <1>1, DraftFacts
  <2>3. CASE CommitPoll(w)
    <3>1. Recoverable(job[j]) \/ Claimable(job[j])
      BY <2>3, <1>1 DEF CommitPoll, Sessions, PollsOK, PollDraft
    <3>2. ~HoldsLease(job[j], w)
      BY <3>1 DEF Recoverable, Claimable, HoldsLease, Lapsed, NoLease
    <3> QED BY <2>2, <3>2
  <2>4. CASE CommitWrite(w)
    <3>1. run[w].job = j /\ run[w].pc = "writing"
      BY <2>4, <1>1 DEF CommitWrite, Typed, RunShape
    <3>2. run'[w].pc \in {"finished", "preparing", "running"}
      BY <2>4 DEF CommitWrite, Typed, QueueTypeOK
    <3> QED BY <3>1, <3>2, <2>2
  <2> QED BY <1>1, <2>3, <2>4
<1>2. ASSUME NEW w \in Workers, MarkFailed(w) \/ ResumeFinish(w), run[w].job = j
      PROVE  /\ job[j].status \in Active
             /\ \A v \in Workers : HoldsLease(job[j], v) => run[v].job = j /\ run'[v] # run[v]
  <2>1. HoldsLease(job[j], w)
    BY <1>2 DEF MarkFailed, Holds
  <2>2. run[w].pc \in AtWork /\ run'[w] = Idle
    BY <1>2 DEF MarkFailed, ResumeFinish, AtJob, Beating, AtWork, Typed, QueueTypeOK
  <2>3. run'[w] # run[w]
    BY <2>2 DEF Idle, AtWork
  <2> QED BY <2>1, <2>3, <1>2 DEF HoldsLease, Active
<1> QED BY <1>1, <1>2, RowChange

\* Under the timing assumption the unchecked commit of a resumption is made by
\* the worker that holds the lease.
LEMMA PromptResumption ==
    ASSUME CommitsPromptly, LeaseInv, NEW w \in Workers, ResumeFinish(w)
    PROVE  Holds(w)
BY DEF LeaseInv, ResumersOK, ResumeFinish, AtJob

\* A job that has SUCCEEDED or FAILED keeps its outcome, if the second commit
\* of a resumption comes within the lease the first one renewed.
THEOREM OutcomesAreFinal == ASSUME CommitsPromptly PROVE Spec => TerminalIsFinal
<1> DEFINE Step == \A j \in Rows : job[j].status \in Terminal => job'[j].status = job[j].status
<1>1. LeaseInv /\ [Next]_vars => [Step]_vars
  <2> SUFFICES ASSUME LeaseInv, Next, NEW j \in Rows, job[j].status \in Terminal
               PROVE  job'[j].status = job[j].status
    OBVIOUS
  <2> QED BY StatusChange, PromptResumption DEF Terminal, Active
<1> QED BY <1>1, LeaseHolds, PTL DEF Spec, TerminalIsFinal

\* While a lease is held, only its holder changes the status of the job, if the
\* second commit of a resumption comes within the lease the first one renewed.
THEOREM LeasesAreRespected == ASSUME CommitsPromptly PROVE Spec => OnlyHolderEndsLease
<1> DEFINE Step == \A w \in Workers : \A j \in Rows :
                     HoldsLease(job[j], w) /\ job'[j].status # "running"
                       => run[w].job = j /\ run'[w] # run[w]
<1>1. LeaseInv /\ [Next]_vars => [Step]_vars
  <2> SUFFICES ASSUME LeaseInv, Next, NEW w \in Workers, NEW j \in Rows,
                      HoldsLease(job[j], w), job'[j].status # "running"
               PROVE  run[w].job = j /\ run'[w] # run[w]
    OBVIOUS
  <2>1. job'[j].status # job[j].status
    BY DEF HoldsLease
  <2> QED BY <2>1, StatusChange, PromptResumption
<1> QED BY <1>1, LeaseHolds, PTL DEF Spec, OnlyHolderEndsLease

-----------------------------------------------------------------------------
(* Refinement: JobQueue implements LeasedJobs under the timing assumption: *)
(* each job's row moves as its abstract item may.                          *)

ItemMoves(j) ==
    \/ Leased!Submit(j) \/ Leased!Grant(j) \/ Leased!Revoke(j) \/ Leased!Regrant(j)
    \/ Leased!Write(j) \/ Leased!End(j) \/ Leased!Keep(j)

\* What an abstract item shows of a row.
RowItem(row) ==
    [phase  |-> AbstractPhase[row.status],
     holder |-> IF row.status = "running" THEN row.worker ELSE NoWorker,
     grants |-> row.attempts,
     wrote  |-> row.by]

LEMMA PhaseValues ==
    /\ AbstractPhase["ready"] = "waiting" /\ AbstractPhase["running"] = "held"
    /\ AbstractPhase["succeeded"] = "succeeded" /\ AbstractPhase["failed"] = "failed"
BY DEF AbstractPhase

LEMMA InitItems == Init => Leased!Init
<1> SUFFICES ASSUME Init PROVE Leased!Init
  OBVIOUS
<1>1. Rows = {}
  BY DEF Init, Rows
<1>2. \A j \in Jobs : AbstractItem(j) = Leased!Fresh
  BY <1>1 DEF AbstractItem, Leased!Fresh, Leased!Item
<1>3. Leased!Jobs = Jobs
  BY DEF Leased!Jobs, Jobs
<1> QED BY <1>2, <1>3 DEF Leased!Init

\* A job that has a row moves as its row does.
LEMMA ItemOfRow ==
    ASSUME NEW j \in Rows, j \in Rows'
    PROVE  AbstractItem(j) = RowItem(job[j]) /\ AbstractItem(j)' = RowItem(job'[j])
BY DEF AbstractItem, RowItem

\* Unless its row changes, a job keeps its item.
LEMMA SameRow ==
    ASSUME NEW j \in Jobs, j \in Rows, j \in Rows',
           RowItem(job'[j]) = RowItem(job[j])
    PROVE  ItemMoves(j)
BY ItemOfRow DEF ItemMoves, Leased!Keep

\* The abstract moves, in terms of the item before and the item after.
LEMMA MovesOfItem ==
    ASSUME NEW j \in Jobs, NEW i, i = AbstractItem(j), NEW n, n = AbstractItem(j)'
    PROVE  /\ i.phase = "waiting" /\ i.grants < MaxAttempts
              /\ (\E w \in Workers : n = Leased!Granted(i, w)) => ItemMoves(j)
           /\ i.phase = "held" /\ i.grants < MaxAttempts
              /\ (\E w \in Workers : n = Leased!Granted(Leased!Revoked(i), w)) => ItemMoves(j)
           /\ i.phase = "held" /\ n = Leased!Revoked(i) => ItemMoves(j)
           /\ i.phase = "held" /\ n = Leased!Written(i) => ItemMoves(j)
           /\ i.phase = "held"
              /\ (\E outcome \in {"succeeded", "failed"} : n = Leased!Ended(i, outcome))
                => ItemMoves(j)
           /\ n = i => ItemMoves(j)
<1> DEFINE items == [k \in Jobs |-> AbstractItem(k)]
<1>1. items[j] = i /\ items'[j] = n
  OBVIOUS
<1>2. /\ Leased!Grant(j) <=> /\ items[j].phase = "waiting" /\ items[j].grants < MaxAttempts
                             /\ \E w \in Workers : items'[j] = Leased!Granted(items[j], w)
      /\ Leased!Regrant(j) <=>
           /\ items[j].phase = "held" /\ items[j].grants < MaxAttempts
           /\ \E w \in Workers : items'[j] = Leased!Granted(Leased!Revoked(items[j]), w)
      /\ Leased!Revoke(j) <=> items[j].phase = "held" /\ items'[j] = Leased!Revoked(items[j])
      /\ Leased!Write(j) <=> items[j].phase = "held" /\ items'[j] = Leased!Written(items[j])
      /\ Leased!End(j) <=> /\ items[j].phase = "held"
                           /\ \E outcome \in {"succeeded", "failed"} :
                                items'[j] = Leased!Ended(items[j], outcome)
      /\ Leased!Keep(j) <=> items'[j] = items[j]
  BY DEF Leased!Grant, Leased!Regrant, Leased!Revoke, Leased!Write, Leased!End, Leased!Keep
<1> HIDE DEF items
<1> QED BY <1>1, <1>2 DEF ItemMoves

\* Renewing, clearing and aging a row do not show.
LEMMA QuietRows ==
    ASSUME NEW row \in JobRow
    PROVE  /\ RowItem(Renewed(row)) = RowItem(row)
           /\ row.status # "running" => RowItem(Cleared(row)) = RowItem(row)
           /\ RowItem(Aged(row)) = RowItem(row)
BY DEF RowItem, Renewed, Cleared, Aged, JobRow

-----------------------------------------------------------------------------
(* One lemma for each way a row moves.                                     *)

LEMMA EnqueueMoves ==
    ASSUME LeaseInv, NEW d \in Docs, Enqueue(d), NEW j \in Jobs
    PROVE  ItemMoves(j)
<1>1. /\ Rows' = Rows \cup {queued + 1} /\ queued + 1 \notin Rows
      /\ \A i \in Rows : job'[i] = job[i]
      /\ job'[queued + 1] = NewRow(d)
  BY DEF Enqueue, Rows, LeaseInv, QueueTypeOK
<1>2. CASE j \in Rows
  BY <1>1, <1>2, SameRow
<1>3. CASE j \notin Rows' /\ j \notin Rows
  BY <1>3 DEF ItemMoves, Leased!Keep, AbstractItem
<1>4. CASE j = queued + 1
  <2>1. AbstractItem(j) = [phase |-> "none", holder |-> NoWorker, grants |-> 0, wrote |-> 0]
    BY <1>1, <1>4 DEF AbstractItem
  <2>2. AbstractItem(j)' = [phase |-> "waiting", holder |-> NoWorker, grants |-> 0, wrote |-> 0]
    BY <1>1, <1>4, PhaseValues DEF AbstractItem, NewRow
  <2>3. Leased!Submit(j)
    BY <2>1, <2>2 DEF Leased!Item, Leased!Submit, Leased!Submitted
  <2> QED BY <2>3 DEF ItemMoves
<1> QED BY <1>1, <1>2, <1>3, <1>4

\* A poll's commit takes lapsed jobs back, grants a waiting one, or both.
LEMMA PollDraftMoves ==
    ASSUME LeaseInv, NEW w \in Workers, run[w].pc = "polling",
           NEW j \in DOMAIN jobWrites[w], j \in Jobs, j \in Rows', job'[j] = jobWrites[w][j]
    PROVE  ItemMoves(j)
<1> DEFINE row == job[j]
           draft == jobWrites[w][j]
<1>1. PollDraft(w, j)
  BY LeaseInvParts DEF Sessions, PollsOK
<1>2. /\ j \in Rows /\ row \in JobRow /\ draft \in JobRow /\ RowOK(draft)
      /\ row.status \in {"ready", "running"}
  BY DraftFacts DEF Active
<1>3. AbstractItem(j) = RowItem(row) /\ AbstractItem(j)' = RowItem(draft)
  BY <1>2, ItemOfRow
<1>4. row.attempts \in Nat /\ draft.attempts <= MaxAttempts /\ MaxAttempts \in Nat
  BY <1>2, ConstantsAssumed DEF JobRow, ConstantsOK
<1> HIDE DEF row, draft
<1>5. CASE draft.status = "running"
  <2>1. /\ draft.worker = w /\ draft.attempts = row.attempts + 1 /\ draft.by = row.by
        /\ row.attempts < MaxAttempts
    BY <1>1, <1>4, <1>5 DEF PollDraft, row, draft
  <2>2. RowItem(draft) = [phase |-> "held", holder |-> w, grants |-> row.attempts + 1,
                          wrote |-> row.by]
    BY <1>5, <2>1, PhaseValues DEF RowItem
  <2>3. CASE row.status = "ready"
    <3>1. RowItem(row) = [phase |-> "waiting", holder |-> NoWorker, grants |-> row.attempts,
                          wrote |-> row.by]
      BY <2>3, PhaseValues DEF RowItem
    <3>2. RowItem(draft) = Leased!Granted(RowItem(row), w)
      BY <3>1, <2>2 DEF Leased!Item, Leased!Granted
    <3>3. RowItem(row).phase = "waiting" /\ RowItem(row).grants < MaxAttempts
      BY <3>1, <2>1
    <3> QED BY <3>2, <3>3, <1>3, MovesOfItem
  <2>4. CASE row.status = "running"
    <3>1. RowItem(row) = [phase |-> "held", holder |-> row.worker, grants |-> row.attempts,
                          wrote |-> row.by]
      BY <2>4, PhaseValues DEF RowItem
    <3>2. RowItem(draft) = Leased!Granted(Leased!Revoked(RowItem(row)), w)
      BY <3>1, <2>1, <2>2 DEF Leased!Item, Leased!Granted, Leased!Revoked
    <3>3. RowItem(row).phase = "held" /\ RowItem(row).grants < MaxAttempts
      BY <3>1, <2>1
    <3> QED BY <3>2, <3>3, <1>3, MovesOfItem
  <2> QED BY <2>3, <2>4, <1>2
<1>6. CASE draft.status # "running"
  <2>1. /\ row.status = "running" /\ draft.by = row.by /\ draft.attempts = row.attempts
        /\ \/ draft.status = "ready" /\ row.attempts < MaxAttempts
           \/ draft.status = "failed" /\ row.attempts = MaxAttempts
    BY <1>1, <1>2, <1>6 DEF PollDraft, Recoverable, RowOK, row, draft
  <2>2. RowItem(row) = [phase |-> "held", holder |-> row.worker, grants |-> row.attempts,
                        wrote |-> row.by]
    BY <2>1, PhaseValues DEF RowItem
  <2>3. RowItem(draft) = [phase |-> IF row.attempts < MaxAttempts THEN "waiting" ELSE "failed",
                          holder |-> NoWorker, grants |-> row.attempts, wrote |-> row.by]
    BY <2>1, <1>4, PhaseValues DEF RowItem
  <2>4. RowItem(draft) = Leased!Revoked(RowItem(row)) /\ RowItem(row).phase = "held"
    BY <2>2, <2>3 DEF Leased!Item, Leased!Revoked
  <2> QED BY <2>4, <1>3, MovesOfItem
<1> QED BY <1>5, <1>6

\* A runner's commit writes under its grant, or ends the job.
LEMMA WriteDraftMoves ==
    ASSUME LeaseInv, NEW w \in Workers, run[w].pc = "writing",
           NEW j \in DOMAIN jobWrites[w], j \in Jobs, j \in Rows', job'[j] = jobWrites[w][j]
    PROVE  ItemMoves(j)
<1> DEFINE row == job[j]
           draft == jobWrites[w][j]
<1>1. WriteDraft(w) /\ j = run[w].job
  BY LeaseInvParts DEF Sessions, WritersOK, Typed, RunShape
<1>2. /\ row.status = "running" /\ row.attempts = run[w].gen
      /\ draft.attempts = row.attempts /\ draft.worker = row.worker
      /\ draft.status # "ready"
      /\ draft.by = row.attempts \/ (draft.status = "running" /\ draft.by = row.by)
  BY <1>1 DEF WriteDraft
<1>3. /\ j \in Rows /\ row \in JobRow /\ draft \in JobRow
      /\ draft.status \in {"running", "succeeded", "failed"}
  BY <1>2, DraftFacts DEF JobRow, StageStatus
<1>4. AbstractItem(j) = RowItem(row) /\ AbstractItem(j)' = RowItem(draft)
  BY <1>3, ItemOfRow
<1> HIDE DEF row, draft
<1>5. RowItem(row) = [phase |-> "held", holder |-> row.worker, grants |-> row.attempts,
                      wrote |-> row.by]
  BY <1>2, PhaseValues DEF RowItem
<1>6. CASE draft.status = "running"
  <2>1. RowItem(draft) = [phase |-> "held", holder |-> row.worker, grants |-> row.attempts,
                          wrote |-> draft.by]
    BY <1>2, <1>6, PhaseValues DEF RowItem
  <2>2. RowItem(draft) = Leased!Written(RowItem(row)) \/ RowItem(draft) = RowItem(row)
    BY <2>1, <1>2, <1>5 DEF Leased!Item, Leased!Written
  <2>3. RowItem(row).phase = "held"
    BY <1>5
  <2> QED BY <2>2, <2>3, <1>4, MovesOfItem
<1>7. CASE draft.status \in {"succeeded", "failed"}
  <2>1. RowItem(draft) = [phase |-> draft.status, holder |-> NoWorker,
                          grants |-> row.attempts, wrote |-> row.attempts]
    BY <1>2, <1>7, PhaseValues DEF RowItem
  <2>2. RowItem(draft) = Leased!Ended(RowItem(row), draft.status)
        /\ RowItem(row).phase = "held"
    BY <2>1, <1>5 DEF Leased!Item, Leased!Ended
  <2> QED BY <2>2, <1>4, <1>7, MovesOfItem
<1> QED BY <1>3, <1>6, <1>7

\* A terminal write that is one statement, under a lease the worker holds.
LEMMA EndingMoves ==
    ASSUME LeaseInv, NEW w \in Workers, Holds(w), MarkFailed(w) \/ ResumeFinish(w)
    PROVE  \A j \in Jobs : j \in Rows => j \in Rows' /\ ItemMoves(j)
<1> DEFINE i == run[w].job
           row == job[i]
<1>1. /\ run[w].pc \in AtWork /\ i \in Rows /\ row \in JobRow
      /\ row.status = "running" /\ row.attempts = run[w].gen
  BY WorkerFacts, LeaseInvParts DEF MarkFailed, ResumeFinish, AtJob, Beating, AtWork, Holds,
     HoldsLease, Runners, GenerationsOK
<1>2. Rows' = Rows /\ \A j \in Rows \ {i} : job'[j] = job[j]
  BY DEF MarkFailed, ResumeFinish, Rows, LeaseInv, QueueTypeOK
<1>3. PICK outcome \in {"succeeded", "failed"} :
        /\ job'[i].status = outcome /\ job'[i].attempts = row.attempts
        /\ job'[i].by = row.attempts
  <2>1. CASE MarkFailed(w)
    <3>1. job'[i] = MarkedFailed(row, run[w].gen)
      BY <2>1, <1>1 DEF MarkFailed, LeaseInv, QueueTypeOK
    <3> QED BY <3>1, <1>1 DEF MarkedFailed, JobRow
  <2>2. CASE ResumeFinish(w)
    <3>1. job'[i] = Cleared(Finished(row, run[w].gen, "succeeded", "ready"))
      BY <2>2, <1>1 DEF ResumeFinish, LeaseInv, QueueTypeOK
    <3> QED BY <3>1, <1>1 DEF Cleared, Finished, Renewed, JobRow
  <2> QED BY <2>1, <2>2
<1> HIDE DEF i, row
<1>4. RowItem(row) = [phase |-> "held", holder |-> row.worker, grants |-> row.attempts,
                      wrote |-> row.by]
  BY <1>1, PhaseValues DEF RowItem
<1>5. RowItem(job'[i]) = [phase |-> outcome, holder |-> NoWorker, grants |-> row.attempts,
                          wrote |-> row.attempts]
  BY <1>3, PhaseValues DEF RowItem
<1>6. ASSUME NEW j \in Jobs, j = i PROVE ItemMoves(j)
  <2>1. AbstractItem(j) = RowItem(row) /\ AbstractItem(j)' = RowItem(job'[j])
    BY <1>1, <1>2, <1>6, ItemOfRow DEF row
  <2>2. RowItem(job'[j]) = Leased!Ended(RowItem(row), outcome) /\ RowItem(row).phase = "held"
    BY <1>4, <1>5, <1>6 DEF Leased!Item, Leased!Ended
  <2> QED BY <2>1, <2>2, MovesOfItem
<1>7. ASSUME NEW j \in Jobs, j \in Rows, j # i PROVE ItemMoves(j)
  BY <1>2, <1>7, SameRow
<1> QED BY <1>2, <1>6, <1>7

\* Steps that leave what an item shows of every row.
LEMMA QuietSteps ==
    ASSUME LeaseInv, NEW w \in Workers,
           \/ Heartbeat(w) \/ StampResult(w) \/ ResumeRenew(w) \/ ClearTerminalLease(w)
           \/ Poll(w) \/ LeaseLost(w) \/ BeginRun(w) \/ PublishChunks(w) \/ Crash(w)
           \/ BeginSucceed(w) \/ BeginFail(w) \/ \E s \in ReportedStages : BeginStage(w, s)
    PROVE  Rows' = Rows /\ \A j \in Rows : RowItem(job'[j]) = RowItem(job[j])
<1>1. CASE Heartbeat(w) \/ ResumeRenew(w) \/ ClearTerminalLease(w)
  <2>1. run[w].pc \in AtWork /\ queued' = queued
    BY <1>1 DEF Heartbeat, ResumeRenew, ClearTerminalLease, AtJob, AtWork, Beating
  <2>2. run[w].job \in Rows /\ job[run[w].job] \in JobRow
    BY <2>1, WorkerFacts, LeaseInvParts
  <2>3. PICK row : /\ job' = [job EXCEPT ![run[w].job] = row]
                   /\ RowItem(row) = RowItem(job[run[w].job])
    <3>1. CASE Heartbeat(w) \/ ResumeRenew(w)
      BY <3>1, <2>2, QuietRows DEF Heartbeat, ResumeRenew
    <3>2. CASE ClearTerminalLease(w)
      <4>1. job[run[w].job].status # "running"
        BY <3>2, LeaseInvParts DEF ClearTerminalLease, AtJob, Runners, RunnersOK, Terminal
      <4> QED BY <4>1, <3>2, <2>2, QuietRows DEF ClearTerminalLease
    <3> QED BY <1>1, <3>1, <3>2
  <2> QED BY <2>1, <2>2, <2>3 DEF Rows, LeaseInv, QueueTypeOK
<1>2. CASE \/ Poll(w) \/ LeaseLost(w) \/ BeginRun(w) \/ PublishChunks(w) \/ Crash(w)
           \/ BeginSucceed(w) \/ BeginFail(w) \/ \E s \in ReportedStages : BeginStage(w, s)
  BY <1>2 DEF Poll, LeaseLost, BeginRun, PublishChunks, Crash, BeginSucceed, BeginFail,
     BeginFinish, BeginStage, WriteJob, Rows
<1>3. CASE StampResult(w)
  <2>1. run[w].job \in Rows /\ queued' = queued
    BY <1>3, WorkerFacts, LeaseInvParts DEF StampResult, AtJob, AtWork
  <2>2. PICK row \in {Stamped(job[run[w].job], run[w].stage), job[run[w].job]} :
          job' = [job EXCEPT ![run[w].job] = row]
    BY <1>3 DEF StampResult, LeaseInv, QueueTypeOK
  <2>3. job[run[w].job] \in JobRow
    BY <2>1 DEF LeaseInv, QueueTypeOK
  <2>4. RowItem(row) = RowItem(job[run[w].job])
    BY <2>3, <2>2 DEF Stamped, RowItem, JobRow
  <2> QED BY <2>1, <2>2, <2>4 DEF Rows, LeaseInv, QueueTypeOK
<1> QED BY <1>1, <1>2, <1>3

-----------------------------------------------------------------------------
LEMMA StepItems ==
    ASSUME CommitsPromptly, LeaseInv, [Next]_vars, NEW j \in Jobs
    PROVE  ItemMoves(j)
<1> USE LeaseInvParts
\* A job without a row only gets one from a request.
<1>1. ASSUME UNCHANGED queued, j \notin Rows PROVE ItemMoves(j)
  BY <1>1 DEF Rows, ItemMoves, Leased!Keep, AbstractItem
<1>2. ASSUME UNCHANGED queued, j \in Rows, RowItem(job'[j]) = RowItem(job[j])
      PROVE  ItemMoves(j)
  BY <1>2, SameRow DEF Rows
<1>3. CASE UNCHANGED vars
  BY <1>1, <1>2, <1>3 DEF vars
<1>4. ASSUME NEW d \in Docs, Enqueue(d) PROVE ItemMoves(j)
  BY <1>4, EnqueueMoves
<1>5. ASSUME NEW w \in Workers, CommitPoll(w) \/ CommitWrite(w) PROVE ItemMoves(j)
  <2>1. /\ run[w].pc \in {"polling", "writing"} /\ UNCHANGED queued /\ Rows' = Rows
        /\ j \in Rows => job'[j] = IF j \in DOMAIN jobWrites[w] THEN jobWrites[w][j] ELSE job[j]
    BY <1>5 DEF CommitPoll, CommitWrite, Publish, Rows
  <2>2. CASE j \in DOMAIN jobWrites[w]
    BY <2>1, <2>2, DraftFacts, PollDraftMoves, WriteDraftMoves
  <2>3. CASE j \notin DOMAIN jobWrites[w]
    BY <2>1, <2>3, <1>1, <1>2
  <2> QED BY <2>2, <2>3
<1>6. ASSUME NEW w \in Workers, MarkFailed(w) \/ ResumeFinish(w) PROVE ItemMoves(j)
  <2>1. Holds(w)
    BY <1>6, PromptResumption DEF MarkFailed
  <2>2. UNCHANGED queued
    BY <1>6 DEF MarkFailed, ResumeFinish
  <2> QED BY <2>1, <2>2, <1>1, <1>6, EndingMoves
<1>7. ASSUME NEW w \in Workers,
             \/ Heartbeat(w) \/ StampResult(w) \/ ResumeRenew(w) \/ ClearTerminalLease(w)
             \/ Poll(w) \/ LeaseLost(w) \/ BeginRun(w) \/ PublishChunks(w) \/ Crash(w)
             \/ BeginSucceed(w) \/ BeginFail(w) \/ \E s \in ReportedStages : BeginStage(w, s)
      PROVE  ItemMoves(j)
  <2>1. UNCHANGED queued
    BY <1>7 DEF Heartbeat, StampResult, ResumeRenew, ClearTerminalLease, Poll, LeaseLost, BeginRun,
       PublishChunks, Crash, BeginSucceed, BeginFail, BeginFinish, BeginStage, WriteJob
  <2> QED BY <2>1, <1>1, <1>2, <1>7, QuietSteps
<1>8. CASE Tick
  BY <1>1, <1>2, <1>8, QuietRows DEF Tick, Typed, QueueTypeOK
<1> QED BY <1>3, <1>4, <1>5, <1>6, <1>7, <1>8 DEF Next, Work

\* The queue keeps its promise, as long as no session stalls for a whole lease
\* between the two commits of a resumption: a job is granted to one worker at a
\* time and a bounded number of times, is written to under its current grant
\* only, and keeps its outcome.
THEOREM QueueImplementsLeasedJobs ==
    ASSUME CommitsPromptly PROVE Spec => ImplementsLeasedJobs
<1>1. LeaseInv /\ [Next]_vars => Leased!Next
  <2> SUFFICES ASSUME LeaseInv, [Next]_vars PROVE Leased!Next
    OBVIOUS
  <2>1. \A j \in Jobs : ItemMoves(j)
    BY StepItems
  <2>2. Leased!Jobs = Jobs
    BY DEF Leased!Jobs, Jobs
  <2> QED BY <2>1, <2>2 DEF Leased!Next, ItemMoves
<1> QED BY <1>1, InitItems, LeaseHolds, PTL DEF Spec, ImplementsLeasedJobs, Leased!Spec
=============================================================================
