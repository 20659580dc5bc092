-------------------------- MODULE JobResultsProofs --------------------------
(***************************************************************************)
(* Theorems about JobResults for any number of jobs, attempts, events,     *)
(* repair requests and streams: what the column job.result says at the end *)
(* of a job is true and stays, the plan of a repair request stays in it,   *)
(* and a stream sends every event that the capped list has not lost; each  *)
(* but for the jobs whose plan was attached too late for it.               *)
(***************************************************************************)
EXTENDS JobResults, SequenceTheorems, TLAPS

InOrder(events) == events = [i \in 1 .. Len(events) |-> i]

\* The list holds all events of the job, unless the job has had more than fit or
\* a plan was attached over some.
EventsOK ==
    \A j \in Jobs \ rewound : LastSequence(job[j].result.events) <= MaxStageEvents
                                  => InOrder(job[j].result.events)

\* A job that may be claimed has an attempt left, and a job that is not over has
\* no outcome.
RowsOK ==
    \A j \in Jobs :
        /\ job[j].status = "ready" => job[j].attempts < MaxAttempts
        /\ job[j].status \in {"none", "ready", "running"} => job[j].result.outcome = "none"

\* The worker's copy is what the row says, but for a plan that was attached
\* meanwhile.
WorkerOK ==
    worker.job # NoJob =>
        /\ job[worker.job].status = "running"
        /\ worker.result.outcome = "none"
        /\ worker.job \notin overrun => worker.result.plan = job[worker.job].result.plan
        /\ worker.job \notin rewound => worker.result.events = job[worker.job].result.events

\* A request that has queued a job is the only one for that job.
Named == {"queued", "read", "done"}
QueuedOK ==
    \A r \in Requests : request[r].phase \in Named =>
        /\ request[r].job \in Jobs
        /\ job[request[r].job].status # "none"
        /\ \A s \in Requests : request[s].phase \in Named /\ request[s].job = request[r].job
                                   => r = s

\* An outcome that a request has read is final, and so is its stage.
CopyOK ==
    \A r \in Requests :
        LET row == job[request[r].job]
            copy == request[r].result
        IN request[r].phase = "read" /\ row.status # "deleted" /\ copy.outcome # "none" =>
              row.status \in {"succeeded", "failed"} /\ copy.stage = row.result.stage

\* A request that is done has left its plan, unless a worker ran the job.
DoneOK ==
    \A r \in Requests : request[r].phase = "done" =>
        \/ job[request[r].job].status = "deleted"
        \/ job[request[r].job].result.plan
        \/ request[r].job \in overrun

\* What a stream has sent of a job that is still there.
StreamOK(s) ==
    LET row == job[stream[s].job]
        events == row.result.events
    IN /\ stream[s].job \in Jobs
       /\ row.status # "none"
       /\ /\ row.status # "deleted" /\ stream[s].job \notin rewound
          /\ LastSequence(events) <= MaxStageEvents
          => /\ stream[s].sent \in 0 .. Len(events)
             /\ delivered[s] = [i \in 1 .. stream[s].sent |-> i]
             /\ stream[s].phase = "ended" => stream[s].sent = Len(events)
       /\ stream[s].phase = "ended" => row.status \in {"succeeded", "failed", "deleted"}

StreamsOK ==
    \A s \in Streams : /\ stream[s].phase = "none" => delivered[s] = << >>
                       /\ stream[s].phase \in {"open", "ended"} => StreamOK(s)

ResultsInv ==
    /\ TypeOK /\ EventsOK /\ RowsOK /\ WorkerOK /\ QueuedOK /\ CopyOK /\ DoneOK
    /\ OutcomeIsKept /\ StreamsOK

-----------------------------------------------------------------------------
(* The list of events *)

\* What a job is queued with is a result.
LEMMA NoResultType == NoResult \in Result
BY DEF NoResult, Result

\* An empty list has no last sequence number.
LEMMA NoEvents ==
    /\ NoResult.events = << >> /\ InOrder(<< >>) /\ LastSequence(<< >>) = 0
    /\ NoResult.outcome = "none"
BY DEF NoResult, InOrder, LastSequence

\* A longer list has the places of a shorter one.
LEMMA LongerRange == \A k, m \in Nat : k <= m => 0 .. k \subseteq 0 .. m
OBVIOUS

\* In a list that is in order the last sequence number is the length.
LEMMA InOrderLast ==
    ASSUME NEW events \in Seq(Nat), InOrder(events)
    PROVE  LastSequence(events) = Len(events)
BY DEF InOrder, LastSequence, Last

\* The last sequence number is a number.
LEMMA LastType == \A events \in Seq(Nat) : LastSequence(events) \in Nat
BY EmptySeq DEF LastSequence, Last

\* A part of a list of numbers: its length and its elements.
LEMMA PartOfList ==
    ASSUME NEW events \in Seq(Nat), NEW m \in Nat \ {0}, NEW n \in 0 .. Len(events)
    PROVE  /\ SubSeq(events, m, n) \in Seq(Nat)
           /\ Len(SubSeq(events, m, n)) = IF m <= n THEN n - m + 1 ELSE 0
           /\ \A i \in 1 .. n - m + 1 : SubSeq(events, m, n)[i] = events[m + i - 1]
<1>1. \A i \in m .. n : events[i] \in Nat
  OBVIOUS
<1> QED BY <1>1, SubSeqProperties

\* A reported stage raises the last sequence number by one, and a list that is
\* short enough stays whole.
LEMMA WithEventProperties ==
    ASSUME NEW result \in Result, NEW stage \in {"none", "working", "ready", "failed"}
    PROVE  LET new == WithEvent(result, stage)
           IN /\ new \in Result
              /\ new.plan = result.plan /\ new.outcome = result.outcome /\ new.stage = stage
              /\ LastSequence(new.events) = LastSequence(result.events) + 1
              /\ /\ LastSequence(new.events) <= MaxStageEvents
                 /\ LastSequence(result.events) <= MaxStageEvents => InOrder(result.events)
                 => /\ InOrder(new.events)
                    /\ Len(new.events) = Len(result.events) + 1
<1> DEFINE events == result.events
           last == LastSequence(events)
           all == Append(events, last + 1)
           new == Capped(all)
<1>1. events \in Seq(Nat) /\ last \in Nat
  BY LastType DEF Result
<1>2. all \in Seq(Nat) /\ Len(all) = Len(events) + 1 /\ all[Len(all)] = last + 1
  BY <1>1
<1> HIDE DEF all
<1>3. new \in Seq(Nat) /\ new # << >> /\ new[Len(new)] = last + 1
  <2>1. CASE Len(all) > MaxStageEvents
    <3>1. new = SubSeq(all, Len(all) - MaxStageEvents + 1, Len(all))
      BY <2>1 DEF Capped
    <3>2. Len(all) \in Nat /\ Len(all) - MaxStageEvents + 1 \in 1 .. Len(all)
      BY <1>2, <2>1, ResultsAssumption
    <3> DEFINE m == Len(all) - MaxStageEvents + 1
               n == Len(all)
    <3>3. /\ m \in Nat \ {0} /\ n \in 0 .. Len(all) /\ m <= n
          /\ n - m + 1 = MaxStageEvents /\ m + MaxStageEvents - 1 = n
      BY <3>2, ResultsAssumption
    <3> HIDE DEF m, n
    <3>4. /\ SubSeq(all, m, n) \in Seq(Nat)
          /\ Len(SubSeq(all, m, n)) = n - m + 1
          /\ \A i \in 1 .. n - m + 1 : SubSeq(all, m, n)[i] = all[m + i - 1]
      BY <1>2, <3>3, PartOfList
    <3>5. new = SubSeq(all, m, n) /\ n = Len(all)
      BY <3>1 DEF m, n
    <3> HIDE DEF new
    <3>6. Len(new) = MaxStageEvents /\ new \in Seq(Nat) /\ new[MaxStageEvents] = all[Len(all)]
      BY <3>3, <3>4, <3>5, ResultsAssumption
    <3> QED BY <1>2, <3>6, ResultsAssumption
  <2>2. CASE ~(Len(all) > MaxStageEvents)
    BY <1>1, <1>2, <2>2 DEF Capped
  <2> QED BY <2>1, <2>2
<1>4. LastSequence(new) = last + 1
  BY <1>3 DEF LastSequence, Last
<1>5. ASSUME last + 1 <= MaxStageEvents, last <= MaxStageEvents => InOrder(events)
      PROVE  InOrder(new) /\ Len(new) = Len(events) + 1
  <2>1. InOrder(events) /\ Len(events) = last
    BY <1>1, <1>5, InOrderLast, ResultsAssumption
  <2>2. new = all
    BY <1>2, <1>5, <2>1, ResultsAssumption DEF Capped
  <2>3. all = [i \in 1 .. Len(events) + 1 |-> i]
    BY <1>1, <2>1 DEF InOrder, all
  <2> QED BY <1>2, <2>1, <2>2, <2>3 DEF InOrder
<1>6. WithEvent(result, stage) = [result EXCEPT !.events = new, !.stage = stage]
  BY DEF WithEvent, all
<1> QED BY <1>3, <1>4, <1>5, <1>6 DEF Result

-----------------------------------------------------------------------------
\* No job, no request and no stream: the invariant holds.
LEMMA InitInvariant == Init => ResultsInv
<1> SUFFICES ASSUME Init PROVE ResultsInv
  OBVIOUS
<1>1. TypeOK
  BY NoResultType, ResultsAssumption
  DEF Init, TypeOK, NoRow, Idle, NoRequest, NoStream, Jobs
<1>2. EventsOK
  BY NoEvents DEF Init, EventsOK, NoRow
<1>3. /\ RowsOK /\ WorkerOK /\ QueuedOK /\ CopyOK /\ DoneOK /\ OutcomeIsKept
      /\ StreamsOK
  BY DEF Init, RowsOK, WorkerOK, QueuedOK, Named, CopyOK, DoneOK, OutcomeIsKept, StreamsOK,
         NoRow, NoResult, Idle, NoRequest, NoStream
<1> QED BY <1>1, <1>2, <1>3 DEF ResultsInv

\* What requests know stays true when rows that exist go on existing, an ended
\* job keeps its result until it is deleted, and plans stay where no plan was
\* attached beside a worker.
LEMMA RequestsKept ==
    ASSUME QueuedOK, CopyOK, DoneOK, UNCHANGED <<request, overrun>>,
           \A i \in Jobs : job[i].status # "none" =>
               /\ job'[i].status # "none"
               /\ job[i].status \in {"succeeded", "failed"} =>
                     job'[i] = job[i] \/ job'[i].status = "deleted"
               /\ job[i].status = "deleted" => job'[i].status = "deleted"
               /\ \/ job'[i].status = "deleted" \/ i \in overrun
                  \/ job'[i].result.plan = job[i].result.plan
    PROVE  QueuedOK' /\ CopyOK' /\ DoneOK'
<1>1. \A r \in Requests : request[r].phase \in Named =>
          request[r].job \in Jobs /\ job[request[r].job].status # "none"
  BY DEF QueuedOK
<1>2. QueuedOK'
  BY <1>1 DEF QueuedOK
<1>3. CopyOK'
  <2> SUFFICES ASSUME NEW r \in Requests, request[r].phase = "read",
                      job'[request[r].job].status # "deleted",
                      request[r].result.outcome # "none"
               PROVE  /\ job'[request[r].job].status \in {"succeeded", "failed"}
                      /\ request[r].result.stage = job'[request[r].job].result.stage
    BY DEF CopyOK
  <2>1. request[r].job \in Jobs /\ job[request[r].job].status # "none"
    BY <1>1 DEF Named
  <2>2. /\ job[request[r].job].status \in {"succeeded", "failed"}
        /\ request[r].result.stage = job[request[r].job].result.stage
    BY <2>1 DEF CopyOK
  <2> QED BY <2>1, <2>2
<1>4. DoneOK'
  BY <1>1 DEF DoneOK, Named
<1> QED BY <1>2, <1>3, <1>4

\* A worker that writes its copy with its own additions keeps the invariant.
LEMMA WriteStep ==
    ASSUME ResultsInv, worker.job # NoJob, NEW result \in Result,
           NEW status \in {"running", "succeeded", "failed"}, WriteResult(result, status),
           result.plan = worker.result.plan,
           LastSequence(worker.result.events) <= LastSequence(result.events),
           worker.job \notin rewound /\ LastSequence(result.events) <= MaxStageEvents =>
               InOrder(result.events) /\ Len(worker.result.events) <= Len(result.events),
           status = "running" => result.outcome = "none",
           status = "succeeded" => result.outcome = "indexed" /\ result.stage = "ready",
           status = "failed" => result.outcome = "error" /\ result.stage = "failed"
    PROVE  ResultsInv'
<1> DEFINE j == worker.job
<1>0. /\ TypeOK /\ EventsOK /\ RowsOK /\ WorkerOK /\ QueuedOK /\ CopyOK /\ DoneOK
      /\ OutcomeIsKept /\ StreamsOK
  BY DEF ResultsInv
<1>1. /\ j \in Jobs /\ job[j].status = "running" /\ worker.result.outcome = "none"
      /\ j \notin overrun => worker.result.plan = job[j].result.plan
      /\ j \notin rewound => worker.result.events = job[j].result.events
      /\ UNCHANGED <<request, stream, delivered, overrun, rewound, undone>>
  BY <1>0 DEF TypeOK, WorkerOK, WriteResult, hist
<1>2. /\ job'[j].result = result /\ job'[j].status = status
      /\ job'[j].attempts = job[j].attempts /\ job'[j].repair = job[j].repair
      /\ \A i \in Jobs : i # j => job'[i] = job[i]
  BY <1>0, <1>1 DEF TypeOK, WriteResult
<1>3. TypeOK'
  BY <1>0, <1>1, <1>2, NoResultType DEF TypeOK, Idle, WriteResult
<1>4. EventsOK'
  BY <1>0, <1>1, <1>2 DEF EventsOK
<1>5. RowsOK'
  BY <1>0, <1>1, <1>2 DEF RowsOK
<1>6. WorkerOK'
  BY <1>0, <1>1, <1>2 DEF WorkerOK, TypeOK, Idle, NoJob, WriteResult
<1>7. QueuedOK' /\ CopyOK' /\ DoneOK'
  BY <1>0, <1>1, <1>2, RequestsKept
<1>9. OutcomeIsKept'
  BY <1>0, <1>1, <1>2 DEF OutcomeIsKept
<1>10. StreamsOK'
  <2> SUFFICES ASSUME NEW s \in Streams, stream[s].phase \in {"open", "ended"}
               PROVE  StreamOK(s)'
    BY <1>0, <1>1 DEF StreamsOK
  <2>1. StreamOK(s)
    BY <1>0 DEF StreamsOK
  <2>2. CASE stream[s].job # j
    BY <1>1, <1>2, <2>1, <2>2 DEF StreamOK
  <2>3. CASE stream[s].job = j
    <3>1. LastSequence(job[j].result.events) \in Nat /\ LastSequence(result.events) \in Nat
          /\ Len(job[j].result.events) \in Nat /\ Len(result.events) \in Nat
      BY <1>0, <1>1, LastType DEF TypeOK, Result
    <3>2. /\ stream'[s] = stream[s] /\ delivered' = delivered /\ rewound' = rewound
          /\ job'[stream'[s].job].result = result /\ job'[stream'[s].job].status = status
      BY <1>1, <1>2, <2>3
    <3>3. /\ stream[s].job \in Jobs /\ stream[s].phase # "ended"
      BY <1>1, <2>1, <2>3 DEF StreamOK
    <3>4. ASSUME stream[s].job \notin rewound, LastSequence(result.events) <= MaxStageEvents
          PROVE  /\ stream[s].sent \in 0 .. Len(result.events)
                 /\ delivered[s] = [i \in 1 .. stream[s].sent |-> i]
      <4>1. /\ worker.result.events = job[j].result.events
            /\ LastSequence(job[j].result.events) <= LastSequence(result.events)
            /\ Len(job[j].result.events) <= Len(result.events)
        BY <1>1, <2>3, <3>4
      <4>2. LastSequence(job[j].result.events) <= MaxStageEvents
        BY <3>1, <3>4, <4>1, ResultsAssumption
      <4>3. /\ stream[s].sent \in 0 .. Len(job[j].result.events)
            /\ delivered[s] = [i \in 1 .. stream[s].sent |-> i]
        BY <1>1, <2>1, <2>3, <3>4, <4>2 DEF StreamOK
      <4>4. 0 .. Len(job[j].result.events) \subseteq 0 .. Len(result.events)
        BY <3>1, <4>1, LongerRange
      <4> QED BY <4>3, <4>4, Zenon
    <3> QED BY <3>2, <3>3, <3>4 DEF StreamOK
  <2> QED BY <2>2, <2>3
<1> QED BY <1>3, <1>4, <1>5, <1>6, <1>7, <1>9, <1>10 DEF ResultsInv

\* The type of a row.
Row == [status: {"none", "ready", "running", "succeeded", "failed", "deleted"},
        attempts: 0 .. MaxAttempts, result: Result, repair: BOOLEAN]

\* What replacing one row does to the rows.
LEMMA RowsType ==
    ASSUME TypeOK, NEW j \in Jobs, NEW row \in Row, job' = [job EXCEPT ![j] = row]
    PROVE  job' \in [Jobs -> Row] /\ job'[j] = row /\ \A i \in Jobs : i # j => job'[i] = job[i]
BY DEF TypeOK, Row

\* What the worker adds to its copy.
LEMMA WorkStep == ResultsInv /\ Work => ResultsInv'
<1> SUFFICES ASSUME ResultsInv, Work PROVE ResultsInv'
  OBVIOUS
<1>1. ASSUME worker.job # NoJob
      PROVE  /\ worker.result \in Result /\ worker.result.outcome = "none"
             /\ LastSequence(worker.result.events) \in Nat
             /\ worker.job \notin rewound =>
                   (LastSequence(worker.result.events) <= MaxStageEvents
                        => InOrder(worker.result.events))
             /\ Len(worker.result.events) \in Nat
  <2>1. worker.job \in Jobs /\ worker.result \in Result
    BY <1>1 DEF ResultsInv, TypeOK
  <2>2. /\ worker.result.outcome = "none"
        /\ worker.job \notin rewound => worker.result.events = job[worker.job].result.events
    BY <1>1 DEF ResultsInv, WorkerOK
  <2>3. worker.result.events \in Seq(Nat)
    BY <2>1 DEF Result
  <2> QED BY <2>1, <2>2, <2>3, LastType DEF ResultsInv, EventsOK
<1>2. CASE ReportStage
  <2> DEFINE with == WithEvent(worker.result, "working")
  <2>1. worker.job # NoJob /\ WriteResult(with, "running")
    BY <1>2 DEF ReportStage
  <2>2. /\ with \in Result /\ with.plan = worker.result.plan
        /\ with.outcome = worker.result.outcome
        /\ LastSequence(with.events) = LastSequence(worker.result.events) + 1
        /\ worker.job \notin rewound /\ LastSequence(with.events) <= MaxStageEvents =>
              InOrder(with.events) /\ Len(with.events) = Len(worker.result.events) + 1
    BY <1>1, <2>1, WithEventProperties
  <2> HIDE DEF with
  <2> QED BY <1>1, <2>1, <2>2, WriteStep
<1>3. CASE OnMineruStatus
  <2> DEFINE result == [worker.result EXCEPT !.mineru = TRUE]
  <2>1. /\ result \in Result /\ result.plan = worker.result.plan
        /\ result.events = worker.result.events /\ result.outcome = worker.result.outcome
    BY <1>1, <1>3 DEF OnMineruStatus, Result
  <2>2. worker.job # NoJob /\ WriteResult(result, "running")
    BY <1>3 DEF OnMineruStatus
  <2> HIDE DEF result
  <2> QED BY <1>1, <2>1, <2>2, WriteStep
<1>4. CASE Succeed
  <2> DEFINE with == WithEvent(worker.result, "ready")
             result == [with EXCEPT !.outcome = "indexed"]
  <2>1. worker.job # NoJob /\ WriteResult(result, "succeeded")
    BY <1>4 DEF Succeed
  <2>2. /\ with \in Result /\ with.plan = worker.result.plan /\ with.stage = "ready"
        /\ LastSequence(with.events) = LastSequence(worker.result.events) + 1
        /\ worker.job \notin rewound /\ LastSequence(with.events) <= MaxStageEvents =>
              InOrder(with.events) /\ Len(with.events) = Len(worker.result.events) + 1
    BY <1>1, <2>1, WithEventProperties
  <2> HIDE DEF with
  <2>3. /\ result \in Result /\ result.plan = with.plan /\ result.events = with.events
        /\ result.stage = "ready" /\ result.outcome = "indexed"
    BY <2>2 DEF Result
  <2> HIDE DEF result
  <2> QED BY <1>1, <2>1, <2>2, <2>3, WriteStep
<1>5. CASE FailJob
  <2> DEFINE result == [worker.result EXCEPT !.stage = "failed", !.outcome = "error"]
  <2>1. worker.job # NoJob /\ WriteResult(result, "failed")
    BY <1>5 DEF FailJob
  <2>2. /\ result \in Result /\ result.plan = worker.result.plan
        /\ result.events = worker.result.events
        /\ result.stage = "failed" /\ result.outcome = "error"
    BY <1>1, <2>1 DEF Result
  <2> HIDE DEF result
  <2> QED BY <1>1, <2>1, <2>2, WriteStep
<1>6. CASE Crash
  BY <1>6, NoResultType
  DEF Crash, Idle, hist, ResultsInv, TypeOK, EventsOK, RowsOK, WorkerOK, QueuedOK, Named, CopyOK, DoneOK,
      OutcomeIsKept, StreamsOK, StreamOK
<1> QED BY <1>2, <1>3, <1>4, <1>5, <1>6 DEF Work

-----------------------------------------------------------------------------
(* The rows *)

\* The row of a job that does not exist yet.
LEMMA NoRowType ==
    /\ NoRow \in Row /\ NoRow.status = "none" /\ NoRow.attempts = 0
    /\ NoRow.result = NoResult
BY NoResultType, ResultsAssumption DEF NoRow, Row

\* A new job has nothing in its result and an attempt before it.
LEMMA NewJobRow ==
    ASSUME NEW repair \in BOOLEAN
    PROVE  /\ NewJob(repair).status = "ready" /\ NewJob(repair).attempts < MaxAttempts
           /\ NewJob(repair).result = NoResult /\ NewJob(repair) \in Row
<1>1. NewJob(repair) \in Row /\ NewJob(repair).status = "ready"
      /\ NewJob(repair).attempts = NoRow.attempts /\ NewJob(repair).result = NoRow.result
  BY NoRowType DEF NewJob, Row
<1> QED BY <1>1, NoRowType, ResultsAssumption

\* A fresh job: nobody looks at its row yet.
LEMMA EnqueueStep ==
    ASSUME ResultsInv, NEW j \in Jobs, Enqueue(j) PROVE ResultsInv'
<1>0. /\ TypeOK /\ EventsOK /\ RowsOK /\ WorkerOK /\ QueuedOK /\ CopyOK /\ DoneOK
      /\ OutcomeIsKept /\ StreamsOK
  BY DEF ResultsInv
<1>1. /\ job[j].status = "none" /\ job'[j] = NewJob(FALSE)
      /\ \A i \in Jobs : i # j => job'[i] = job[i]
      /\ UNCHANGED <<worker, request, stream, delivered, overrun, rewound, undone>>
  BY <1>0 DEF TypeOK, Enqueue, FreeJob, NoRow, hist
<1>2. /\ NewJob(FALSE).status = "ready" /\ NewJob(FALSE).attempts < MaxAttempts
      /\ NewJob(FALSE).result = NoResult /\ NewJob(FALSE) \in Row
  BY NewJobRow
<1>3. TypeOK'
  <2>1. job' \in [Jobs -> Row]
    BY <1>0, <1>2, RowsType DEF Enqueue
  <2> QED BY <1>0, <1>1, <2>1 DEF TypeOK, Row
<1>4. EventsOK'
  BY <1>0, <1>1, <1>2, NoEvents DEF EventsOK
<1>8. RowsOK'
  BY <1>0, <1>1, <1>2, NoEvents DEF RowsOK
<1>5. WorkerOK'
  BY <1>0, <1>1 DEF WorkerOK, TypeOK
<1>6. QueuedOK' /\ CopyOK' /\ DoneOK'
  BY <1>0, <1>1, RequestsKept
<1>10. OutcomeIsKept'
  BY <1>0, <1>1, <1>2 DEF OutcomeIsKept
<1>7. StreamsOK'
  BY <1>0, <1>1 DEF StreamsOK, StreamOK
<1> QED BY <1>3, <1>4, <1>5, <1>6, <1>7, <1>8, <1>10 DEF ResultsInv

\* The worker takes a copy of the row, whatever a request is about to write.
LEMMA ClaimStep ==
    ASSUME ResultsInv, NEW j \in Jobs, Claim(j) PROVE ResultsInv'
<1>0. /\ TypeOK /\ EventsOK /\ RowsOK /\ WorkerOK /\ QueuedOK /\ CopyOK /\ DoneOK
      /\ OutcomeIsKept /\ StreamsOK
  BY DEF ResultsInv
<1>1. /\ job[j].status = "ready"
      /\ job'[j].status = "running" /\ job'[j].result = job[j].result
      /\ job'[j].attempts = job[j].attempts + 1 /\ job'[j].repair = job[j].repair
      /\ \A i \in Jobs : i # j => job'[i] = job[i]
      /\ worker' = [job |-> j, result |-> job[j].result]
      /\ UNCHANGED <<request, stream, delivered, overrun, rewound, undone>>
  BY <1>0 DEF TypeOK, Claim, hist
<1>2. TypeOK'
  <2>1. job[j] \in Row
    BY <1>0 DEF TypeOK, Row
  <2>2. job[j].attempts < MaxAttempts
    BY <1>0, <1>1 DEF RowsOK
  <2>3. job[j].attempts + 1 \in 0 .. MaxAttempts
    BY <2>1, <2>2, ResultsAssumption DEF Row
  <2>4. [job[j] EXCEPT !.status = "running", !.attempts = @ + 1] \in Row
    BY <2>1, <2>3 DEF Row
  <2>5. job' \in [Jobs -> Row]
    BY <1>0, <2>4, RowsType DEF Claim
  <2>6. worker' \in [job: Jobs \cup {NoJob}, result: Result]
    BY <1>1, <2>1 DEF Row
  <2> QED BY <1>0, <1>1, <2>5, <2>6 DEF TypeOK, Row
<1>7. EventsOK'
  BY <1>0, <1>1 DEF EventsOK
<1>8. RowsOK'
  BY <1>0, <1>1 DEF RowsOK
<1>9. WorkerOK'
  BY <1>0, <1>1 DEF WorkerOK, RowsOK
<1>4. QueuedOK' /\ CopyOK' /\ DoneOK'
  BY <1>0, <1>1, RequestsKept
<1>6. OutcomeIsKept'
  BY <1>0, <1>1 DEF OutcomeIsKept
<1>5. StreamsOK'
  BY <1>0, <1>1 DEF StreamsOK, StreamOK
<1> QED BY <1>2, <1>4, <1>5, <1>6, <1>7, <1>8, <1>9 DEF ResultsInv

\* A lost job is queued again or failed, with its events and its plan.
LEMMA RecoverStep ==
    ASSUME ResultsInv, NEW j \in Jobs, Recover(j) PROVE ResultsInv'
<1>0. /\ TypeOK /\ EventsOK /\ RowsOK /\ WorkerOK /\ QueuedOK /\ CopyOK /\ DoneOK
      /\ OutcomeIsKept /\ StreamsOK
  BY DEF ResultsInv
<1>1. /\ job[j].status = "running" /\ worker.job # j
      /\ \A i \in Jobs : i # j => job'[i] = job[i]
      /\ UNCHANGED <<worker, request, stream, delivered, overrun, rewound, undone>>
  BY <1>0 DEF TypeOK, Recover, hist
<1> DEFINE spent == [job[j] EXCEPT !.status = "failed", !.result.stage = "failed",
                                   !.result.outcome = "error"]
           again == [job[j] EXCEPT !.status = "ready"]
           row == IF job[j].attempts >= MaxAttempts THEN spent ELSE again
<1>8. job[j] \in Row /\ job[j].result \in Result
  BY <1>0 DEF TypeOK, Row
<1>9. /\ row \in Row /\ row.result.events = job[j].result.events
      /\ row.result.plan = job[j].result.plan
      /\ \/ row.status = "failed" /\ row.result.stage = "failed" /\ row.result.outcome = "error"
         \/ /\ row.status = "ready" /\ row.attempts < MaxAttempts
            /\ row.result.outcome = job[j].result.outcome
  <2>1. /\ spent \in Row /\ spent.result.events = job[j].result.events
        /\ spent.result.plan = job[j].result.plan
        /\ spent.status = "failed" /\ spent.result.stage = "failed"
        /\ spent.result.outcome = "error"
    BY <1>8 DEF Row, Result
  <2>2. /\ again \in Row /\ again.result = job[j].result /\ again.attempts = job[j].attempts
        /\ again.status = "ready"
    BY <1>8 DEF Row
  <2>3. job[j].attempts >= MaxAttempts \/ job[j].attempts < MaxAttempts
    BY <1>8, ResultsAssumption DEF Row
  <2> HIDE DEF spent, again
  <2> QED BY <2>1, <2>2, <2>3
<1>10. job' = [job EXCEPT ![j] = row]
  BY DEF Recover
<1> HIDE DEF row
<1>2. job' \in [Jobs -> Row] /\ job'[j] = row
  BY <1>0, <1>9, <1>10, RowsType
<1>3. TypeOK'
  BY <1>0, <1>1, <1>2 DEF TypeOK, Row
<1>4. EventsOK' /\ RowsOK'
  BY <1>0, <1>1, <1>2, <1>9 DEF EventsOK, RowsOK
<1>5. WorkerOK'
  BY <1>0, <1>1 DEF WorkerOK, TypeOK
<1>6. QueuedOK' /\ CopyOK' /\ DoneOK'
  BY <1>0, <1>1, <1>2, <1>9, RequestsKept
<1>11. OutcomeIsKept'
  BY <1>0, <1>1, <1>2, <1>9 DEF OutcomeIsKept
<1>7. StreamsOK'
  BY <1>0, <1>1, <1>2, <1>9 DEF StreamsOK, StreamOK
<1> QED BY <1>3, <1>4, <1>5, <1>6, <1>7, <1>11 DEF ResultsInv

\* The document takes its jobs along: none of them was active.
LEMMA DeleteStep ==
    ASSUME ResultsInv, DeleteJobs PROVE ResultsInv'
<1>0. /\ TypeOK /\ EventsOK /\ RowsOK /\ WorkerOK /\ QueuedOK /\ CopyOK /\ DoneOK
      /\ OutcomeIsKept /\ StreamsOK
  BY DEF ResultsInv
<1> DEFINE gone == [NoRow EXCEPT !.status = "deleted"]
<1>1. gone \in Row /\ gone.status = "deleted" /\ gone.result = NoResult
  BY NoRowType DEF Row
<1> HIDE DEF gone
<1>2. /\ \A j \in Jobs : job[j].status \notin {"ready", "running"}
      /\ \A j \in Jobs : job'[j] = IF job[j] = NoRow THEN NoRow ELSE gone
      /\ UNCHANGED <<worker, request, stream, delivered, overrun, rewound, undone>>
  BY DEF DeleteJobs, CanQueue, Active, gone, hist
<1>3. NoRow \in Row /\ NoRow.status = "none" /\ NoRow.result = NoResult
  BY NoRowType
<1>4. TypeOK'
  <2>1. job' \in [Jobs -> Row]
    BY <1>1, <1>3 DEF DeleteJobs, gone
  <2> QED BY <1>0, <1>2, <2>1 DEF TypeOK, Row
<1>5. EventsOK'
  BY <1>1, <1>2, <1>3, NoEvents DEF EventsOK
<1>6. RowsOK' /\ OutcomeIsKept'
  BY <1>1, <1>2, <1>3 DEF RowsOK, OutcomeIsKept, NoResult
<1>7. WorkerOK'
  BY <1>0, <1>2 DEF WorkerOK, TypeOK
<1>8. \A j \in Jobs : job[j].status # "none" => job'[j].status = "deleted"
  BY <1>1, <1>2, <1>3
<1>9. QueuedOK' /\ CopyOK' /\ DoneOK'
  BY <1>0, <1>2, <1>8, RequestsKept
<1>10. StreamsOK'
  BY <1>0, <1>2, <1>8 DEF StreamsOK, StreamOK
<1> QED BY <1>4, <1>5, <1>6, <1>7, <1>9, <1>10 DEF ResultsInv

-----------------------------------------------------------------------------
(* Requests and streams *)

\* The type of a request.
Request == [phase: {"none", "planning", "planned", "queued", "read", "refused", "done",
                    "abandoned"},
            source: Jobs \cup {NoJob}, job: Jobs \cup {NoJob}, result: Result]

\* What replacing one request does to the requests.
LEMMA RequestsType ==
    ASSUME TypeOK, NEW r \in Requests, NEW new \in Request,
           request' = [request EXCEPT ![r] = new]
    PROVE  /\ request' \in [Requests -> Request] /\ request'[r] = new
           /\ \A s \in Requests : s # r => request'[s] = request[s]
BY DEF TypeOK, Request

\* Reading the warnings or the queued job, the suggestion and giving up touch the
\* request alone.
LEMMA RequestOnlyStep ==
    ASSUME ResultsInv, NEW r \in Requests,
           (\E j \in Jobs : ReadWarnings(r, j)) \/ Suggest(r) \/ RefreshQueued(r) \/ AbandonRepair(r)
    PROVE  ResultsInv'
<1>0. /\ TypeOK /\ EventsOK /\ RowsOK /\ WorkerOK /\ QueuedOK /\ CopyOK /\ DoneOK
      /\ OutcomeIsKept /\ StreamsOK
  BY DEF ResultsInv
<1>5. request[r] \in Request
  BY <1>0 DEF TypeOK, Request
<1>6. PICK new \in Request :
          /\ request' = [request EXCEPT ![r] = new]
          /\ \/ new.phase \notin Named
             \/ /\ new.phase = "read" /\ request[r].phase = "queued"
                /\ new.job = request[r].job /\ new.result = job[request[r].job].result
  <2>1. CASE \E j \in Jobs : ReadWarnings(r, j)
    <3> PICK j \in Jobs : ReadWarnings(r, j)
      BY <2>1
    <3> DEFINE new == [NoRequest EXCEPT !.phase = "planning", !.source = j]
    <3>1. NoRequest \in Request
      BY NoResultType DEF NoRequest, Request
    <3>2. new \in Request /\ new.phase = "planning"
      BY <3>1 DEF Request
    <3> QED BY <3>2 DEF ReadWarnings, Named
  <2>2. CASE Suggest(r)
    <3> DEFINE new == [request[r] EXCEPT !.phase = "planned"]
    <3>1. new \in Request /\ new.phase = "planned"
      BY <1>5 DEF Request
    <3>2. request' = [request EXCEPT ![r] = new]
      BY <2>2 DEF Suggest
    <3> QED BY <3>1, <3>2 DEF Named
  <2>4. CASE RefreshQueued(r)
    <3>1. /\ request[r].phase = "queued" /\ request[r].job \in Jobs
          /\ job[request[r].job].result \in Result
      BY <1>0, <2>4 DEF RefreshQueued, QueuedOK, Named, TypeOK
    <3> DEFINE new == [request[r] EXCEPT !.phase = "read", !.result = job[request[r].job].result]
    <3>2. /\ new \in Request /\ new.phase = "read" /\ new.job = request[r].job
          /\ new.result = job[request[r].job].result
      BY <1>5, <3>1 DEF Request
    <3>3. request' = [request EXCEPT ![r] = new]
      BY <2>4 DEF RefreshQueued
    <3> HIDE DEF new
    <3> QED BY <3>1, <3>2, <3>3
  <2>3. CASE AbandonRepair(r)
    <3> DEFINE new == [request[r] EXCEPT !.phase = "abandoned"]
    <3>1. new \in Request /\ new.phase = "abandoned"
      BY <1>5 DEF Request
    <3>2. request' = [request EXCEPT ![r] = new]
      BY <2>3 DEF AbandonRepair
    <3> QED BY <3>1, <3>2 DEF Named
  <2> QED BY <2>1, <2>2, <2>3, <2>4
<1>7. UNCHANGED <<job, worker, stream, delivered, overrun, rewound, undone>>
  BY DEF ReadWarnings, Suggest, RefreshQueued, AbandonRepair, hist
<1>1. /\ request'[r] = new
      /\ request' \in [Requests -> Request]
      /\ \A s \in Requests : s # r => request'[s] = request[s]
  BY <1>0, <1>6, RequestsType
<1>2. TypeOK'
  BY <1>0, <1>1, <1>7 DEF TypeOK, Request
<1>3. EventsOK' /\ RowsOK' /\ WorkerOK' /\ OutcomeIsKept' /\ StreamsOK'
  BY <1>0, <1>7 DEF EventsOK, RowsOK, WorkerOK, OutcomeIsKept, StreamsOK, StreamOK
<1>4. QueuedOK'
  BY <1>0, <1>1, <1>6, <1>7 DEF QueuedOK, Named
<1>8. DoneOK'
  BY <1>0, <1>1, <1>6, <1>7 DEF DoneOK, Named
<1>9. CopyOK'
  <2> SUFFICES ASSUME new.phase = "read", job[new.job].status # "deleted",
                      new.result.outcome # "none"
               PROVE  /\ job[new.job].status \in {"succeeded", "failed"}
                      /\ new.result.stage = job[new.job].result.stage
    BY <1>0, <1>1, <1>7 DEF CopyOK
  <2>1. /\ new.job \in Jobs /\ job[new.job].status # "none"
        /\ new.result = job[new.job].result
    BY <1>0, <1>6 DEF QueuedOK, Named
  <2>2. job[new.job].status \notin {"none", "ready", "running"}
    BY <1>0, <2>1 DEF RowsOK
  <2>3. job[new.job].status \in {"none", "ready", "running", "succeeded", "failed", "deleted"}
    BY <1>0, <2>1 DEF TypeOK
  <2> QED BY <2>1, <2>2, <2>3
<1> QED BY <1>2, <1>3, <1>4, <1>8, <1>9 DEF ResultsInv

\* A repair is queued as a job of its own: no other request names it.
LEMMA QueueRepairStep ==
    ASSUME ResultsInv, NEW r \in Requests, NEW j \in Jobs, QueueRepair(r, j)
    PROVE  ResultsInv'
<1>0. /\ TypeOK /\ EventsOK /\ RowsOK /\ WorkerOK /\ QueuedOK /\ CopyOK /\ DoneOK
      /\ OutcomeIsKept /\ StreamsOK
  BY DEF ResultsInv
<1>5. request[r] \in Request
  BY <1>0 DEF TypeOK, Request
<1>1. CASE ~(CanQueue /\ ~Deleted)
  <2> DEFINE new == [request[r] EXCEPT !.phase = "refused"]
  <2>5. new \in Request /\ new.phase = "refused"
    BY <1>5 DEF Request
  <2>6. request' = [request EXCEPT ![r] = new] /\ UNCHANGED <<job, worker, stream, delivered, overrun, rewound,
                                                  undone>>
    BY <1>1 DEF QueueRepair, hist
  <2> HIDE DEF new
  <2>1. /\ UNCHANGED <<job, worker, stream, delivered, overrun, rewound, undone>>
        /\ request'[r].phase = "refused" /\ request' \in [Requests -> Request]
        /\ \A s \in Requests : s # r => request'[s] = request[s]
    BY <1>0, <2>5, <2>6, RequestsType
  <2>2. TypeOK'
    BY <1>0, <2>1 DEF TypeOK, Request
  <2>3. EventsOK' /\ RowsOK' /\ WorkerOK' /\ OutcomeIsKept' /\ StreamsOK'
    BY <1>0, <2>1 DEF EventsOK, RowsOK, WorkerOK, OutcomeIsKept, StreamsOK, StreamOK
  <2>4. QueuedOK' /\ CopyOK' /\ DoneOK'
    BY <1>0, <2>1 DEF QueuedOK, CopyOK, DoneOK, Named
  <2> QED BY <2>2, <2>3, <2>4 DEF ResultsInv
<1>2. CASE CanQueue /\ ~Deleted
  <2> DEFINE row == NewJob(TRUE)
             new == [request[r] EXCEPT !.phase = "queued", !.job = j]
  <2>12. /\ job[j] = NoRow /\ job' = [job EXCEPT ![j] = row]
         /\ request' = [request EXCEPT ![r] = new]
         /\ UNCHANGED <<worker, stream, delivered, overrun, rewound, undone>>
    BY <1>2 DEF QueueRepair, FreeJob, hist
  <2>13. /\ new \in Request /\ new.phase = "queued" /\ new.job = j
    BY <1>5 DEF Request
  <2> HIDE DEF row, new
  <2>14. row \in Row /\ job[j].status = "none"
    BY <2>12, NewJobRow, NoRowType DEF row
  <2>1. /\ job[j].status = "none" /\ job'[j] = NewJob(TRUE)
        /\ \A i \in Jobs : i # j => job'[i] = job[i]
        /\ \A i \in Jobs : job[i].status \notin {"ready", "running"}
        /\ UNCHANGED <<worker, stream, delivered, overrun, rewound, undone>> /\ job' \in [Jobs -> Row]
    <3>1. \A i \in Jobs : job[i].status \notin {"ready", "running"}
      BY <1>2 DEF CanQueue, Active
    <3>2. /\ job' \in [Jobs -> Row] /\ job'[j] = row
          /\ \A i \in Jobs : i # j => job'[i] = job[i]
      BY <1>0, <2>12, <2>14, RowsType
    <3> QED BY <2>12, <2>14, <3>1, <3>2 DEF row
  <2>2. /\ NewJob(TRUE).status = "ready" /\ NewJob(TRUE).attempts < MaxAttempts
        /\ NewJob(TRUE).result = NoResult /\ NewJob(TRUE) \in Row
    BY NewJobRow
  <2>3. /\ request'[r].phase = "queued" /\ request'[r].job = j
        /\ \A s \in Requests : s # r => request'[s] = request[s]
        /\ request' \in [Requests -> Request]
    BY <1>0, <2>12, <2>13, RequestsType
  <2>4. TypeOK'
    BY <1>0, <2>1, <2>3 DEF TypeOK, Row, Request
  <2>5. EventsOK'
    BY <1>0, <2>1, <2>2, NoEvents DEF EventsOK
  <2>6. RowsOK'
    BY <1>0, <2>1, <2>2, NoEvents DEF RowsOK
  <2>7. WorkerOK'
    BY <1>0, <2>1 DEF WorkerOK, TypeOK
  <2>16. \A s \in Requests : s # r /\ request[s].phase \in Named =>
            request[s].job \in Jobs /\ request[s].job # j
    BY <1>0, <2>1 DEF QueuedOK
  <2>17. job'[j].status # "none"
    BY <2>1, <2>2
  <2>8. QueuedOK'
    <3> SUFFICES ASSUME NEW q \in Requests, request'[q].phase \in Named
                 PROVE  /\ request'[q].job \in Jobs /\ job'[request'[q].job].status # "none"
                        /\ \A s \in Requests :
                              request'[s].phase \in Named /\ request'[s].job = request'[q].job
                                  => q = s
      BY DEF QueuedOK
    <3>1. CASE q = r
      BY <2>3, <2>16, <2>17, <3>1
    <3>2. CASE q # r
      BY <1>0, <2>1, <2>3, <2>16, <3>2 DEF QueuedOK
    <3> QED BY <3>1, <3>2
  <2>15. \A s \in Requests : s # r /\ request[s].phase \in Named =>
            request[s].job \in Jobs /\ job'[request[s].job] = job[request[s].job]
    BY <1>0, <2>1 DEF QueuedOK
  <2>9. DoneOK' /\ CopyOK'
    BY <1>0, <2>1, <2>3, <2>15 DEF DoneOK, CopyOK, Named
  <2>10. OutcomeIsKept'
    BY <1>0, <2>1, <2>2 DEF OutcomeIsKept
  <2>11. StreamsOK'
    BY <1>0, <2>1 DEF StreamsOK, StreamOK
  <2> QED BY <2>4, <2>5, <2>6, <2>7, <2>8, <2>9, <2>10, <2>11 DEF ResultsInv
<1> QED BY <1>1, <1>2

\* The plan goes into the row with all that the request had read of it.
LEMMA AttachStep ==
    ASSUME ResultsInv, NEW r \in Requests, AttachPlan(r) PROVE ResultsInv'
<1>0. /\ TypeOK /\ EventsOK /\ RowsOK /\ WorkerOK /\ QueuedOK /\ CopyOK /\ DoneOK
      /\ OutcomeIsKept /\ StreamsOK
  BY DEF ResultsInv
<1> DEFINE j == request[r].job
           copy == request[r].result
           planned == [copy EXCEPT !.plan = TRUE]
           row == [job[j] EXCEPT !.result = planned]
<1>1. /\ request[r].phase = "read" /\ j \in Jobs /\ job[j] \in Row /\ copy \in Result
      /\ job[j].status \notin {"none", "deleted"}
      /\ copy.outcome # "none" => /\ job[j].status \in {"succeeded", "failed"}
                                  /\ copy.stage = job[j].result.stage
  BY <1>0 DEF AttachPlan, QueuedOK, Named, CopyOK, TypeOK, Row
<1>2. /\ planned \in Result /\ planned.plan /\ planned.events = copy.events
      /\ planned.outcome = copy.outcome /\ planned.stage = copy.stage
  BY <1>1 DEF Result
<1>4. /\ row \in Row /\ row.status = job[j].status /\ row.attempts = job[j].attempts
      /\ row.result = planned
  BY <1>1, <1>2 DEF Row
<1>5. job' = [job EXCEPT ![j] = row] /\ UNCHANGED <<worker, stream, delivered>>
  BY DEF AttachPlan
<1>16. /\ overrun' = IF worker.job = j THEN overrun \cup {j} ELSE overrun
       /\ rewound' = IF job[j].result.events # copy.events THEN rewound \cup {j} ELSE rewound
       /\ undone' = IF job[j].result.outcome # copy.outcome THEN undone \cup {j} ELSE undone
  BY DEF AttachPlan
<1>6. /\ request'[r].phase = "done" /\ request'[r].job = j
      /\ \A s \in Requests : s # r => request'[s] = request[s]
      /\ request' \in [Requests -> Request]
  <2> DEFINE new == [request[r] EXCEPT !.phase = "done"]
  <2>1. request[r] \in Request
    BY <1>0 DEF TypeOK, Request
  <2>2. new \in Request /\ new.phase = "done" /\ new.job = j
    BY <2>1 DEF Request
  <2>3. request' = [request EXCEPT ![r] = new]
    BY DEF AttachPlan
  <2> HIDE DEF new
  <2> QED BY <1>0, <2>2, <2>3, RequestsType
<1> HIDE DEF row, planned
<1>7. job' \in [Jobs -> Row] /\ job'[j] = row /\ \A i \in Jobs : i # j => job'[i] = job[i]
  BY <1>0, <1>1, <1>4, <1>5, RowsType
<1>17. \A s \in Requests : s # r /\ request[s].phase \in Named =>
           request[s].job \in Jobs /\ request[s].job # j
  BY <1>0, <1>1 DEF QueuedOK, Named
<1>18. /\ overrun \subseteq overrun' /\ rewound \subseteq rewound' /\ undone \subseteq undone'
       /\ overrun' \subseteq Jobs /\ rewound' \subseteq Jobs /\ undone' \subseteq Jobs
  BY <1>0, <1>1, <1>16 DEF TypeOK
<1> HIDE DEF j, copy
<1>8. TypeOK'
  BY <1>0, <1>5, <1>6, <1>7, <1>18 DEF TypeOK, Row, Request
<1>9. EventsOK'
  BY <1>0, <1>1, <1>2, <1>4, <1>7, <1>16 DEF EventsOK
<1>10. RowsOK'
  BY <1>0, <1>1, <1>2, <1>4, <1>7 DEF RowsOK
<1>11. WorkerOK'
  BY <1>0, <1>1, <1>2, <1>4, <1>5, <1>7, <1>16 DEF WorkerOK, TypeOK
<1>12. QueuedOK'
  BY <1>0, <1>1, <1>4, <1>6, <1>7, <1>17 DEF QueuedOK, Named, j
<1>19. CopyOK'
  BY <1>0, <1>6, <1>7, <1>17 DEF CopyOK, Named
<1>13. DoneOK'
  BY <1>0, <1>1, <1>2, <1>4, <1>6, <1>7, <1>17, <1>18 DEF DoneOK, Named
<1>14. OutcomeIsKept'
  <2>1. \A i \in Jobs \ undone' : i # j => job'[i] = job[i] /\ i \in Jobs \ undone
    BY <1>7, <1>18
  <2>2. j \notin undone' => /\ copy.outcome = job[j].result.outcome /\ j \notin undone
                            /\ copy.outcome # "none" => copy.stage = job[j].result.stage
    BY <1>1, <1>16, <1>18
  <2> QED BY <1>0, <1>1, <1>2, <1>4, <1>7, <2>1, <2>2 DEF OutcomeIsKept
<1>15. StreamsOK'
  <2> SUFFICES ASSUME NEW s \in Streams, stream[s].phase \in {"open", "ended"}
               PROVE  StreamOK(s)'
    BY <1>0, <1>5 DEF StreamsOK
  <2>1. StreamOK(s)
    BY <1>0 DEF StreamsOK
  <2>2. CASE stream[s].job # j
    BY <1>5, <1>7, <1>18, <2>1, <2>2 DEF StreamOK
  <2>3. CASE stream[s].job = j
    BY <1>1, <1>2, <1>4, <1>5, <1>7, <1>16, <2>1, <2>3 DEF StreamOK
  <2> QED BY <2>2, <2>3
<1> QED BY <1>8, <1>9, <1>10, <1>11, <1>12, <1>13, <1>14, <1>15, <1>19 DEF ResultsInv

\* What a poll sends is a list, and of a list that is in order it is the rest.
LEMMA UnsentType ==
    ASSUME NEW events \in Seq(Nat), NEW sent \in Nat
    PROVE  Unsent(events, sent) \in Seq(Nat)
<1>1. Len(events) \in Nat /\ Len(events) \in 0 .. Len(events) /\ sent + 1 \in Nat \ {0}
  OBVIOUS
<1> QED BY <1>1, PartOfList DEF Unsent

\* A stream that has sent the first events of the list and sends the rest has sent
\* the list.
LEMMA SendRest ==
    ASSUME NEW events \in Seq(Nat), InOrder(events), NEW sent \in 0 .. Len(events),
           NEW had \in Seq(Nat), had = [i \in 1 .. sent |-> i]
    PROVE  had \o Unsent(events, sent) = [i \in 1 .. Len(events) |-> i]
<1> DEFINE n == Len(events)
           rest == Unsent(events, sent)
           all == had \o rest
           want == [i \in 1 .. n |-> i]
<1>1. n \in Nat /\ sent \in Nat /\ sent <= n /\ Len(had) = sent
  OBVIOUS
<1>2. /\ rest \in Seq(Nat) /\ Len(rest) = n - sent
      /\ \A i \in 1 .. n - sent : rest[i] = events[sent + i]
  <2>1. /\ sent + 1 \in Nat \ {0} /\ n \in 0 .. Len(events) /\ n - (sent + 1) + 1 = n - sent
        /\ sent + 1 <= n \/ n - sent = 0
    BY <1>1
  <2> DEFINE m == sent + 1
  <2>2. /\ SubSeq(events, m, n) \in Seq(Nat)
        /\ Len(SubSeq(events, m, n)) = IF m <= n THEN n - m + 1 ELSE 0
        /\ \A i \in 1 .. n - m + 1 : SubSeq(events, m, n)[i] = events[m + i - 1]
    <3>1. m \in Nat \ {0}
      BY <2>1
    <3> HIDE DEF m
    <3> QED BY <2>1, <3>1, PartOfList
  <2>3. rest = SubSeq(events, m, n)
    BY DEF Unsent
  <2> HIDE DEF rest
  <2>4. rest \in Seq(Nat) /\ Len(rest) = n - sent
    BY <1>1, <2>1, <2>2, <2>3
  <2>5. ASSUME NEW i \in 1 .. n - sent PROVE rest[i] = events[sent + i]
    <3>1. i \in 1 .. n - m + 1 /\ m + i - 1 = sent + i
      BY <1>1
    <3> HIDE DEF m
    <3> QED BY <2>2, <2>3, <3>1
  <2> QED BY <2>4, <2>5
<1> HIDE DEF rest
<1>3. /\ all \in Seq(Nat) /\ Len(all) = n
      /\ \A i \in 1 .. n : all[i] = IF i <= sent THEN had[i] ELSE rest[i - sent]
  BY <1>1, <1>2, ConcatProperties
<1> HIDE DEF all
<1>4. \A i \in 1 .. n : all[i] = i
  <2> SUFFICES ASSUME NEW i \in 1 .. n PROVE all[i] = i
    OBVIOUS
  <2>1. CASE i <= sent
    BY <1>1, <1>3, <2>1
  <2>2. CASE ~(i <= sent)
    <3>1. i - sent \in 1 .. n - sent /\ sent + (i - sent) = i
      BY <1>1, <2>2
    <3>2. all[i] = events[i]
      BY <1>2, <1>3, <2>2, <3>1
    <3> QED BY <3>2 DEF InOrder
  <2> QED BY <2>1, <2>2
<1>5. all = want
  <2>1. all = [i \in 1 .. n |-> all[i]]
    BY <1>3
  <2> QED BY <1>4, <2>1
<1> QED BY <1>5 DEF all, rest

\* A stream is opened, polls or is left: its record and what it has sent agree.
LEMMA StreamStep ==
    ASSUME ResultsInv, NEW s \in Streams, StreamSteps(s) PROVE ResultsInv'
<1>0. /\ TypeOK /\ EventsOK /\ RowsOK /\ WorkerOK /\ QueuedOK /\ CopyOK /\ DoneOK
      /\ OutcomeIsKept /\ StreamsOK
  BY DEF ResultsInv
<1>1. /\ UNCHANGED <<job, worker, request, overrun, rewound, undone>>
      /\ \A t \in Streams : t # s => stream'[t] = stream[t] /\ delivered'[t] = delivered[t]
  BY <1>0 DEF TypeOK, StreamSteps, OpenStream, PollStream, Disconnect, hist
<1>2. EventsOK' /\ RowsOK' /\ WorkerOK' /\ QueuedOK' /\ CopyOK' /\ DoneOK' /\ OutcomeIsKept'
  BY <1>0, <1>1 DEF EventsOK, RowsOK, WorkerOK, QueuedOK, Named, CopyOK, DoneOK, OutcomeIsKept
<1>3. ASSUME TypeOK', stream'[s].phase # "none",
             stream'[s].phase \in {"open", "ended"} => StreamOK(s)'
      PROVE  ResultsInv'
  <2>1. ASSUME NEW t \in Streams, t # s
        PROVE  /\ stream'[t].phase = "none" => delivered'[t] = << >>
               /\ stream'[t].phase \in {"open", "ended"} => StreamOK(t)'
    <3>1. stream'[t] = stream[t] /\ delivered'[t] = delivered[t] /\ UNCHANGED <<job, rewound>>
      BY <1>1, <2>1
    <3>2. /\ stream[t].phase = "none" => delivered[t] = << >>
          /\ stream[t].phase \in {"open", "ended"} => StreamOK(t)
      BY <1>0 DEF StreamsOK
    <3> QED BY <3>1, <3>2 DEF StreamOK
  <2>2. StreamsOK'
    BY <1>3, <2>1 DEF StreamsOK
  <2> QED BY <1>2, <1>3, <2>2 DEF ResultsInv
<1>4. CASE \E j \in Jobs : OpenStream(s, j)
  <2> PICK j \in Jobs : OpenStream(s, j)
    BY <1>4
  <2>1. TypeOK'
    BY <1>0, <1>1 DEF TypeOK, OpenStream
  <2>2. /\ stream[s].phase = "none" /\ stream'[s] = [phase |-> "open", job |-> j, sent |-> 0]
        /\ job[j].status \notin {"none", "deleted"} /\ UNCHANGED <<job, delivered>>
    BY <1>0 DEF OpenStream, TypeOK
  <2>3. delivered'[s] = [i \in 1 .. 0 |-> i]
    <3>1. delivered[s] = << >>
      BY <1>0, <2>2 DEF StreamsOK
    <3> QED BY <2>2, <3>1
  <2>4. Len(job[j].result.events) \in Nat
    BY <1>0 DEF TypeOK, Result
  <2>5. StreamOK(s)'
    BY <2>2, <2>3, <2>4 DEF StreamOK
  <2> QED BY <1>3, <2>1, <2>2, <2>5
<1>5. CASE Disconnect(s)
  <2>1. TypeOK' /\ stream'[s].phase = "disconnected"
    BY <1>0, <1>1, <1>5 DEF TypeOK, Disconnect
  <2> QED BY <1>3, <2>1
<1>6. CASE PollStream(s)
  <2> DEFINE row == job[stream[s].job]
             events == row.result.events
             polled == IF row.status \in TerminalStatuses THEN "ended" ELSE "open"
  <2>1. StreamOK(s) /\ stream[s].job \in Jobs /\ stream[s].sent \in Nat
        /\ delivered[s] \in Seq(Nat)
    <3>1. stream[s].phase \in {"open", "ended"}
      BY <1>6 DEF PollStream
    <3>2. StreamOK(s)
      BY <1>0, <3>1 DEF StreamsOK
    <3>3. stream[s].sent \in Nat /\ delivered[s] \in Seq(Nat)
      BY <1>0 DEF TypeOK
    <3> QED BY <3>2, <3>3 DEF StreamOK
  <2>2. events \in Seq(Nat) /\ Len(events) \in Nat
    BY <1>0, <2>1 DEF TypeOK, Result
  <2>3. CASE row.status = "deleted"
    <3>1. /\ stream' = [stream EXCEPT ![s].phase = "error"] /\ UNCHANGED <<job, delivered>>
          /\ UNCHANGED <<worker, request, overrun, rewound, undone>>
      BY <1>6, <2>3 DEF PollStream, hist
    <3>2. TypeOK' /\ stream'[s].phase = "error"
      BY <1>0, <3>1 DEF TypeOK
    <3> QED BY <1>3, <3>2
  <2>4. CASE row.status # "deleted"
    <3>1. /\ delivered' = [delivered EXCEPT ![s] = @ \o Unsent(events, stream[s].sent)]
          /\ stream' = [stream EXCEPT ![s].sent = Len(events), ![s].phase = polled]
          /\ UNCHANGED <<job, worker, request, overrun, rewound, undone>>
      BY <1>6, <2>4 DEF PollStream, hist
    <3>2. polled \in {"open", "ended"}
          /\ (polled = "ended" => row.status \in {"succeeded", "failed"})
      BY DEF TerminalStatuses
    <3>3. delivered[s] \o Unsent(events, stream[s].sent) \in Seq(Nat)
      BY <2>1, <2>2, UnsentType, ConcatProperties
    <3> HIDE DEF polled
    <3>4. /\ stream'[s].sent = Len(events) /\ stream'[s].phase = polled
          /\ stream'[s].job = stream[s].job
          /\ delivered'[s] = delivered[s] \o Unsent(events, stream[s].sent)
      BY <1>0, <3>1 DEF TypeOK
    <3>8. delivered' \in [Streams -> Seq(Nat)]
      BY <1>0, <3>1, <3>3 DEF TypeOK
    <3>9. stream' \in [Streams -> [phase: {"none", "open", "ended", "error", "disconnected"},
                                  job: Jobs \cup {NoJob}, sent: Nat]]
      <4> DEFINE Client == [phase: {"none", "open", "ended", "error", "disconnected"},
                          job: Jobs \cup {NoJob}, sent: Nat]
                 new == [stream[s] EXCEPT !.sent = Len(events), !.phase = polled]
      <4>1. stream \in [Streams -> Client] /\ stream[s] \in Client
        BY <1>0 DEF TypeOK
      <4>2. new \in Client
        BY <2>2, <3>2, <4>1
      <4>3. stream' = [stream EXCEPT ![s] = new]
        BY <3>1
      <4> HIDE DEF new, Client
      <4>4. stream' \in [Streams -> Client]
        BY <4>1, <4>2, <4>3
      <4> QED BY <4>4 DEF Client
    <3>5. TypeOK'
      BY <1>0, <3>1, <3>8, <3>9 DEF TypeOK
    <3>6. stream[s].job \notin rewound /\ LastSequence(events) <= MaxStageEvents
              => delivered'[s] = [i \in 1 .. Len(events) |-> i]
      <4> SUFFICES ASSUME stream[s].job \notin rewound,
                          LastSequence(events) <= MaxStageEvents
                   PROVE  delivered'[s] = [i \in 1 .. Len(events) |-> i]
        OBVIOUS
      <4>1. InOrder(events)
        BY <1>0, <2>1 DEF EventsOK
      <4>2. /\ stream[s].sent \in 0 .. Len(events)
            /\ delivered[s] = [i \in 1 .. stream[s].sent |-> i]
        BY <2>1, <2>4 DEF StreamOK
      <4> QED BY <2>1, <2>2, <3>4, <4>1, <4>2, SendRest
    <3>7. StreamOK(s)'
      <4>1. UNCHANGED <<job, rewound>> /\ stream'[s].job = stream[s].job
            /\ stream'[s].job \in Jobs /\ job'[stream'[s].job] = row
        BY <2>1, <3>1, <3>4
      <4>2. row.status # "none"
        BY <2>1 DEF StreamOK
      <4>3. Len(events) \in 0 .. Len(events)
        BY <2>2
      <4> HIDE DEF row
      <4> QED BY <3>2, <3>4, <3>6, <4>1, <4>2, <4>3 DEF StreamOK
    <3> QED BY <1>3, <3>2, <3>4, <3>5, <3>7
  <2> QED BY <2>3, <2>4
<1> QED BY <1>4, <1>5, <1>6 DEF StreamSteps

-----------------------------------------------------------------------------
\* Every step keeps the invariant.
LEMMA StepInvariant ==
    ASSUME ResultsInv, [Next]_vars PROVE ResultsInv'
<1>1. ASSUME NEW j \in Jobs, Enqueue(j) \/ Claim(j) \/ Recover(j) PROVE ResultsInv'
  BY <1>1, EnqueueStep, ClaimStep, RecoverStep
<1>2. CASE Work
  BY <1>2, WorkStep
<1>3. ASSUME NEW r \in Requests, RepairSteps(r) PROVE ResultsInv'
  <2>1. CASE \E j \in Jobs : QueueRepair(r, j)
    BY <2>1, QueueRepairStep
  <2>2. CASE AttachPlan(r)
    BY <2>2, AttachStep
  <2>3. CASE (\E j \in Jobs : ReadWarnings(r, j)) \/ Suggest(r) \/ RefreshQueued(r)
             \/ AbandonRepair(r)
    BY <2>3, RequestOnlyStep
  <2> QED BY <1>3, <2>1, <2>2, <2>3 DEF RepairSteps
<1>4. CASE DeleteJobs
  BY <1>4, DeleteStep
<1>5. ASSUME NEW s \in Streams, StreamSteps(s) PROVE ResultsInv'
  BY <1>5, StreamStep
<1>6. CASE UNCHANGED vars
  BY <1>6 DEF vars, hist, ResultsInv, TypeOK, EventsOK, RowsOK, WorkerOK, QueuedOK, Named,
              CopyOK, DoneOK, OutcomeIsKept, StreamsOK, StreamOK
<1> QED BY <1>1, <1>2, <1>3, <1>4, <1>5, <1>6 DEF Next, Quiet

\* The inductive invariant holds in every state of a behaviour.
LEMMA ResultsInvariant == Spec => []ResultsInv
<1>1. ResultsInv /\ [Next]_vars => ResultsInv'
  BY StepInvariant
<1> QED BY InitInvariant, <1>1, PTL DEF Spec

-----------------------------------------------------------------------------
\* The types of the variables, for any number of jobs, requests and streams.
THEOREM JobResultsType == Spec => []TypeOK
<1>1. ResultsInv => TypeOK
  BY DEF ResultsInv
<1> QED BY <1>1, ResultsInvariant, PTL

\* run_index_job and recover_expired_jobs: a job that is over says how, and no
\* stage event, status or plan of another session takes that away again, unless a
\* plan is attached by a request that read the job before it was over.
THEOREM OutcomeKept == Spec => []OutcomeIsKept
<1>1. ResultsInv => OutcomeIsKept
  BY DEF ResultsInv
<1> QED BY <1>1, ResultsInvariant, PTL

\* queue_repair_job: the plan it answered with stays in the job it named while
\* the document is there, whatever the workers write into the same column, unless
\* one of them was running the job when the plan was attached.
THEOREM PlanStays == Spec => []RepairPlanStays
<1>1. ResultsInv => RepairPlanStays
  BY DEF ResultsInv, DoneOK, QueuedOK, Named, RepairPlanStays, Deleted
<1> QED BY <1>1, ResultsInvariant, PTL

\* job_events: every event once and in order, and all of them by the end of the
\* stream, as long as the capped list has lost none and no plan was attached over
\* events that its request had not read.
THEOREM StreamComplete == Spec => []StreamSendsEveryEvent
<1>1. ResultsInv => StreamSendsEveryEvent
  <2> SUFFICES ASSUME ResultsInv, NEW s \in Streams, ~Deleted,
                      stream[s].phase \in {"open", "ended"},
                      LastSequence(job[stream[s].job].result.events) <= MaxStageEvents,
                      stream[s].job \notin rewound
               PROVE  /\ delivered[s] = [i \in 1 .. stream[s].sent |-> i]
                      /\ stream[s].phase = "ended" =>
                            stream[s].sent = LastSequence(job[stream[s].job].result.events)
    BY DEF StreamSendsEveryEvent
  <2> DEFINE events == job[stream[s].job].result.events
  <2>1. StreamOK(s)
    BY DEF ResultsInv, StreamsOK
  <2>2. stream[s].job \in Jobs /\ job[stream[s].job].status # "deleted"
    BY <2>1 DEF StreamOK, Deleted
  <2>3. events \in Seq(Nat) /\ InOrder(events)
    BY <2>2 DEF ResultsInv, TypeOK, Result, EventsOK
  <2>4. LastSequence(events) = Len(events)
    BY <2>3, InOrderLast
  <2> QED BY <2>1, <2>2, <2>4 DEF StreamOK
<1> QED BY <1>1, ResultsInvariant, PTL
=============================================================================
