---------------------------- MODULE ParsingProofs ----------------------------
(***************************************************************************)
(* Theorems about the two halves of parsing, each for any documents and    *)
(* contracts.  SourceParse, with any archives and any number of attempts   *)
(* and retries: the chunks of an attempt are of the parse it asked for and *)
(* of the file it chose, they cover the document, and no attempt asks for  *)
(* two parses.  DocumentChunks, with any content list, recoveries, bounds  *)
(* and chunks of the parser: every trusted token ends in one chunk and no  *)
(* other does, no warning is lost, and a unit reads together.              *)
(***************************************************************************)
EXTENDS SourceParse, DocumentChunks, SequenceTheorems, FiniteSetTheorems, TLAPS

-----------------------------------------------------------------------------
(* The attempts of a parse *)

\* The files MinerU may be given.
Files == {input.original, input.ocr}

Parses == [status: {"pending", "ready", "failed"}, file: Files, by: Nat,
           artifact: Artifacts]

\* What preprocessing may record, and why an attempt may end.
Records == {"none", "preflight_passed", "sample_cleanup_running",
            "cleanup_failed_continue_original", "sample_cleanup_failed",
            "full_cleanup_failed", "cleaned"}
Reasons == {"none", "died", "cleanup_error", "cleanup_unavailable", "contract_failed",
            "sample_contract_failed", "health", "submit", "poll", "parse", "timeout",
            "download", "unsafe", "extraction"}
Attempt == [phase: Phases, tries: Nat, record: Records, active: {"original", "cleaned"},
            job: Nat, late: BOOLEAN, seen: {"none", "pending", "ready", "failed"},
            why: Reasons, chunks: Nat]

\* What is needed of the types. The contents of cleaned files do not matter here.
Shapes ==
    /\ attempt \in Attempt
    /\ disk \in [sample: {disk.sample}, cleaned: {disk.cleaned}, part: File, zip: File,
                 extracted: File]
    /\ remote \in Seq(Parses)
    /\ used \in Nat

\* The phases before the attempt has a parse, and those with one.
Early == {"preflight", "cleaning_sample", "cleaning", "health", "submitting"}
Fetching == {"downloading", "receiving", "extracting", "unpacking", "normalizing", "done"}
Late == {"polling"} \cup Fetching

\* The parses asked for so far, each by another attempt, and by none to come.
AskedOK ==
    /\ \A i, j \in DOMAIN remote : remote[i].by = remote[j].by => i = j
    /\ \A j \in DOMAIN remote : remote[j].by <= used
    /\ attempt.phase \in Early => \A j \in DOMAIN remote : remote[j].by # used

\* The outcome of preprocessing stands for a file that is there.
ChosenOK ==
    /\ attempt.record = "cleaned" => disk.cleaned = input.ocr
    /\ At("preflight") => attempt.record = "none"
    /\ At("cleaning_sample") \/ At("cleaning") => attempt.record = "sample_cleanup_running"

\* The parse of the attempt, and what of it has arrived.
OwnOK ==
    /\ attempt.phase \in Late =>
          /\ attempt.job \in DOMAIN remote
          /\ remote[attempt.job].by = used
          /\ remote[attempt.job].file = FileToParse
    /\ attempt.phase \in Fetching => remote[attempt.job].status = "ready"
    /\ At("receiving") => disk.part.job = attempt.job
    /\ attempt.phase \in {"extracting", "unpacking", "normalizing", "done"} =>
          disk.zip.job = attempt.job
    /\ attempt.phase \in {"normalizing", "done"} =>
          disk.extracted = [job |-> attempt.job, complete |-> TRUE]
    /\ At("done") => attempt.chunks = attempt.job

ParseInv == Shapes /\ AskedOK /\ ChosenOK /\ OwnOK

-----------------------------------------------------------------------------
(* Attempts *)

\* A failed attempt, whatever it was.
LEMMA FailingProperties ==
    ASSUME attempt \in Attempt, NEW why \in Reasons
    PROVE  /\ Failing(why) \in Attempt /\ Failing(why).phase = "failed"
           /\ Failing(why).record = attempt.record
BY DEF Failing, Attempt, Phases

\* An attempt that goes on keeps what it has.
LEMMA GoToProperties ==
    ASSUME attempt \in Attempt, NEW next \in Phases
    PROVE  /\ GoTo(next) \in Attempt /\ GoTo(next).phase = next
           /\ GoTo(next).record = attempt.record /\ GoTo(next).job = attempt.job
           /\ GoTo(next).chunks = attempt.chunks
BY DEF GoTo, Attempt

LEMMA ParseType ==
    ASSUME remote \in Seq(Parses), NEW j \in DOMAIN remote PROVE remote[j] \in Parses
<1>1. j \in 1 .. Len(remote)
  BY LenProperties
<1> QED BY <1>1, ElementOfSeq

\* A retry stays where it is, or is the failure.
LEMMA RetriedProperties ==
    ASSUME attempt \in Attempt, NEW why \in Reasons
    PROVE  /\ Retried(why) \in Attempt /\ Retried(why).record = attempt.record
           /\ \/ Retried(why).phase = "failed"
              \/ Retried(why).phase = attempt.phase /\ Retried(why).job = attempt.job
<1>1. attempt.tries + 1 \in Nat
  BY DEF Attempt
<1>2. CASE attempt.tries + 1 < Retries
  BY <1>1, <1>2 DEF Retried, Attempt
<1>3. CASE ~(attempt.tries + 1 < Retries)
  BY <1>3, FailingProperties DEF Retried
<1> QED BY <1>2, <1>3

\* A step that changes nothing but the attempt. One that fails is of no interest to
\* the invariant, one that goes on keeps its parse.
LEMMA AttemptStep ==
    ASSUME ParseInv, UNCHANGED <<input, disk, remote, used>>, attempt' \in Attempt,
           attempt'.record = attempt.record,
           \/ attempt'.phase = "failed"
           \/ /\ attempt.phase \in Early \ {"preflight", "cleaning_sample", "cleaning"}
              /\ attempt'.phase \in Early \ {"preflight", "cleaning_sample", "cleaning"}
           \/ /\ attempt.phase \in Late /\ attempt'.job = attempt.job
              /\ \/ attempt'.phase = attempt.phase /\ ~At("done")
                 \/ At("polling") /\ attempt'.phase = "downloading"
                                  /\ remote[attempt.job].status = "ready"
                 \/ At("receiving") /\ attempt'.phase = "downloading"
                 \/ At("normalizing") /\ attempt'.phase = "done"
                        /\ attempt'.chunks = attempt.job
    PROVE  ParseInv'
<1>0. Shapes /\ AskedOK /\ ChosenOK /\ OwnOK
  BY DEF ParseInv
<1>1. Shapes'
  BY <1>0 DEF Shapes, Parses, Files
<1>2. AskedOK'
  BY <1>0 DEF AskedOK, Early
<1>3. ChosenOK'
  BY <1>0 DEF ChosenOK, At, Early, Late, Fetching
<1>4. OwnOK'
  BY <1>0 DEF OwnOK, At, Early, Late, Fetching, FileToParse
<1> QED BY <1>1, <1>2, <1>3, <1>4 DEF ParseInv

LEMMA DieStep ==
    ASSUME ParseInv, Die \/ CleanupFails PROVE ParseInv'
<1>1. attempt \in Attempt
  BY DEF ParseInv, Shapes
<1>2. /\ attempt' \in {Failing("died"), Failing("cleanup_error")}
      /\ UNCHANGED <<input, disk, remote, used>>
  BY DEF Die, CleanupFails
<1> QED BY <1>1, <1>2, FailingProperties, AttemptStep DEF Reasons

LEMMA HealthStep ==
    ASSUME ParseInv, Health PROVE ParseInv'
<1>1. attempt \in Attempt
  BY DEF ParseInv, Shapes
<1>2. At("health") /\ UNCHANGED <<input, disk, remote, used>>
  BY DEF Health
<1>3. CASE attempt' = Failing("health")
  BY <1>1, <1>2, <1>3, FailingProperties, AttemptStep DEF Reasons
<1>4. CASE attempt' = GoTo("submitting")
  BY <1>1, <1>2, <1>4, GoToProperties, AttemptStep DEF At, Early, Phases
<1> QED BY <1>3, <1>4 DEF Health

LEMMA PollErrorStep ==
    ASSUME ParseInv, PollError PROVE ParseInv'
<1>1. attempt \in Attempt
  BY DEF ParseInv, Shapes
<1>2. At("polling") /\ UNCHANGED <<input, disk, remote, used>>
  BY DEF PollError
<1>3. CASE attempt' = Failing("poll")
  BY <1>1, <1>2, <1>3, FailingProperties, AttemptStep DEF Reasons
<1>4. CASE attempt' = Retried("poll")
  BY <1>1, <1>2, <1>4, RetriedProperties, AttemptStep DEF At, Late, Reasons
<1> QED BY <1>3, <1>4 DEF PollError

LEMMA DeadlinePassesStep ==
    ASSUME ParseInv, DeadlinePasses PROVE ParseInv'
<1>1. attempt \in Attempt
  BY DEF ParseInv, Shapes
<1>2. /\ At("polling") /\ UNCHANGED <<input, disk, remote, used>>
      /\ attempt' = [attempt EXCEPT !.late = TRUE]
  BY DEF DeadlinePasses
<1>3. /\ attempt' \in Attempt /\ attempt'.phase = attempt.phase /\ attempt'.job = attempt.job
      /\ attempt'.record = attempt.record
  BY <1>1, <1>2 DEF Attempt
<1> QED BY <1>2, <1>3, AttemptStep DEF At, Late

LEMMA PollStep ==
    ASSUME ParseInv, Poll PROVE ParseInv'
<1>0. Shapes /\ OwnOK
  BY DEF ParseInv
<1>1. attempt \in Attempt
  BY <1>0 DEF Shapes
<1>2. At("polling") /\ UNCHANGED <<input, disk, remote, used>>
  BY DEF Poll
<1>3. attempt.job \in DOMAIN remote /\ remote \in Seq(Parses)
  BY <1>0, <1>2 DEF OwnOK, Shapes, At, Late
<1>4. PICK status \in {"pending", "ready", "failed"} :
          status = remote[attempt.job].status
  BY <1>3, ParseType DEF Parses
<1>5. PICK next \in Attempt :
          /\ attempt' = [next EXCEPT !.seen = status]
          /\ next.record = attempt.record
          /\ \/ next.phase = "failed"
             \/ /\ next.job = attempt.job
                /\ next.phase = "polling" \/ (next.phase = "downloading" /\ status = "ready")
  <2>1. attempt' = [AfterStatus(status) EXCEPT !.seen = status]
    BY <1>4 DEF Poll
  <2>2. CASE status = "ready"
    <3>1. AfterStatus(status) = GoTo("downloading")
      BY <2>2 DEF AfterStatus
    <3> QED BY <1>1, <2>1, <2>2, <3>1, GoToProperties DEF Phases
  <2>3. CASE status = "failed"
    <3>1. AfterStatus(status) = Failing("parse")
      BY <2>3 DEF AfterStatus
    <3> QED BY <1>1, <2>1, <3>1, FailingProperties DEF Reasons
  <2>4. CASE status = "pending"
    <3>1. AfterStatus(status) \in {Failing("timeout"), GoTo("polling")}
      BY <2>4 DEF AfterStatus
    <3> QED BY <1>1, <2>1, <3>1, FailingProperties, GoToProperties DEF Phases, Reasons
  <2> QED BY <2>2, <2>3, <2>4
<1>6. /\ attempt' \in Attempt /\ attempt'.phase = next.phase /\ attempt'.job = next.job
      /\ attempt'.record = next.record
  BY <1>5 DEF Attempt
<1> QED BY <1>2, <1>4, <1>5, <1>6, AttemptStep DEF At, Late

LEMMA DownloadErrorStep ==
    ASSUME ParseInv, DownloadError PROVE ParseInv'
<1>1. attempt \in Attempt
  BY DEF ParseInv, Shapes
<1>2. /\ At("downloading") \/ At("receiving")
      /\ UNCHANGED <<input, disk, remote, used>>
  BY DEF DownloadError
<1>3. CASE attempt' = Failing("download")
  BY <1>1, <1>2, <1>3, FailingProperties, AttemptStep DEF Reasons
<1>4. CASE attempt' # Failing("download")
  <2> DEFINE again == Retried("download")
             next == [again EXCEPT !.phase = IF @ = "receiving" THEN "downloading" ELSE @]
  <2>1. attempt' = next
    BY <1>4 DEF DownloadError
  <2>2. /\ again \in Attempt /\ again.record = attempt.record
        /\ \/ again.phase = "failed"
           \/ again.phase = attempt.phase /\ again.job = attempt.job
    BY <1>1, RetriedProperties DEF Reasons
  <2> HIDE DEF again
  <2>3. /\ next \in Attempt /\ next.record = again.record /\ next.job = again.job
        /\ next.phase = IF again.phase = "receiving" THEN "downloading" ELSE again.phase
    BY <2>2 DEF Attempt, Phases
  <2> HIDE DEF next
  <2> QED BY <1>2, <2>1, <2>2, <2>3, AttemptStep DEF At, Late, Fetching
<1> QED BY <1>3, <1>4

LEMMA NormalizeStep ==
    ASSUME ParseInv, Normalize PROVE ParseInv'
<1>0. Shapes /\ OwnOK
  BY DEF ParseInv
<1>1. attempt \in Attempt
  BY <1>0 DEF Shapes
<1>2. At("normalizing") /\ UNCHANGED <<input, disk, remote, used>>
  BY DEF Normalize
<1>3. disk.extracted.job = attempt.job
  BY <1>0, <1>2 DEF OwnOK, At
<1>4. CASE Accepted(remote[disk.extracted.job].artifact)
  <2> DEFINE done == GoTo("done")
             next == [done EXCEPT !.chunks = disk.extracted.job]
  <2>1. attempt' = next
    BY <1>4 DEF Normalize
  <2>2. /\ done \in Attempt /\ done.phase = "done" /\ done.record = attempt.record
        /\ done.job = attempt.job
    BY <1>1, GoToProperties DEF Phases
  <2>3. attempt.job \in Nat
    BY <1>1 DEF Attempt
  <2> HIDE DEF done
  <2>4. /\ next \in Attempt /\ next.phase = "done" /\ next.record = attempt.record
        /\ next.job = attempt.job /\ next.chunks = attempt.job
    BY <1>3, <2>2, <2>3 DEF Attempt
  <2> HIDE DEF next
  <2> QED BY <1>2, <1>3, <1>4, <2>1, <2>4, AttemptStep DEF At, Late, Fetching
<1>5. CASE ~Accepted(remote[disk.extracted.job].artifact)
  <2>1. attempt' = Failing("extraction")
    BY <1>5 DEF Normalize
  <2> QED BY <1>1, <1>2, <2>1, FailingProperties, AttemptStep DEF Reasons
<1> QED BY <1>4, <1>5

-----------------------------------------------------------------------------
(* Preprocessing *)

LEMMA BeginStep ==
    ASSUME ParseInv, Begin PROVE ParseInv'
<1>0. Shapes /\ AskedOK /\ ChosenOK /\ OwnOK
  BY DEF ParseInv
<1>1. /\ attempt' = [NoAttempt EXCEPT !.phase = "preflight"] /\ used' = used + 1
      /\ UNCHANGED <<input, disk, remote>>
  BY DEF Begin
<1>2. /\ attempt' \in Attempt /\ attempt'.phase = "preflight" /\ attempt'.record = "none"
  BY <1>1 DEF NoAttempt, NoJob, Attempt, Phases, Records, Reasons
<1>3. Shapes'
  BY <1>0, <1>1, <1>2 DEF Shapes, Parses, Files
<1>4. \A j \in DOMAIN remote : remote[j].by \in Nat
  BY <1>0, ParseType DEF Shapes, Parses
<1>5. AskedOK'
  BY <1>0, <1>1, <1>4 DEF AskedOK, Shapes
<1>6. ChosenOK' /\ OwnOK'
  BY <1>2 DEF ChosenOK, OwnOK, At, Late, Fetching
<1> QED BY <1>3, <1>5, <1>6 DEF ParseInv

\* Preprocessing goes on, ends or fails. The cleaned file is written before it counts.
LEMMA PreparingStep ==
    ASSUME ParseInv, UNCHANGED <<input, remote, used>>,
           At("preflight") \/ At("cleaning_sample") \/ At("cleaning"),
           attempt' \in Attempt,
           disk' \in [sample: {disk'.sample}, cleaned: {disk'.cleaned}, part: File,
                      zip: File, extracted: File],
           attempt'.phase \in {"cleaning_sample", "cleaning", "health", "failed"},
           attempt'.record = "cleaned" => disk'.cleaned = input.ocr,
           attempt'.phase \in {"cleaning_sample", "cleaning"} =>
               attempt'.record = "sample_cleanup_running"
    PROVE  ParseInv'
<1>0. Shapes /\ AskedOK /\ ChosenOK /\ OwnOK
  BY DEF ParseInv
<1>1. Shapes'
  BY <1>0 DEF Shapes, Parses, Files
<1>2. AskedOK'
  BY <1>0 DEF AskedOK, At, Early
<1>3. ChosenOK' /\ OwnOK'
  BY DEF ChosenOK, OwnOK, At, Late, Fetching
<1> QED BY <1>1, <1>2, <1>3 DEF ParseInv

\* What Continue leaves, whether it fails or not.
LEMMA ContinueProperties ==
    ASSUME attempt \in Attempt, NEW record \in Records,
           NEW active \in {"original", "cleaned"}, NEW why \in Reasons,
           Continue(record, active, why) \/ UseOriginal(record, active)
    PROVE  /\ attempt' \in Attempt /\ attempt'.record = record
           /\ attempt'.phase \in {"health", "failed"}
<1> DEFINE gone == GoTo("health")
           failed == Failing(why)
<1>1. gone \in Attempt /\ gone.phase = "health"
  BY GoToProperties DEF Phases
<1>2. failed \in Attempt /\ failed.phase = "failed"
  BY FailingProperties
<1>3. \/ attempt' = [gone EXCEPT !.record = record, !.active = active]
      \/ attempt' = [failed EXCEPT !.record = record, !.active = active]
  BY DEF Continue, UseOriginal
<1> HIDE DEF gone, failed
<1> QED BY <1>1, <1>2, <1>3 DEF Attempt

LEMMA PreflightStep ==
    ASSUME ParseInv, Preflight PROVE ParseInv'
<1>0. attempt \in Attempt /\ Shapes
  BY DEF ParseInv, Shapes
<1>1. At("preflight") /\ UNCHANGED <<input, remote, used>>
  BY DEF Preflight
<1>2. CASE \/ UseOriginal("none", "original") /\ UNCHANGED disk
           \/ UseOriginal("preflight_passed", "original") /\ UNCHANGED disk
           \/ /\ Continue("cleanup_failed_continue_original", "original",
                           "cleanup_unavailable")
              /\ UNCHANGED disk
  <2>1. /\ attempt' \in Attempt /\ attempt'.record # "cleaned"
        /\ attempt'.phase \in {"health", "failed"}
    BY <1>0, <1>2, ContinueProperties DEF Records, Reasons
  <2> QED BY <1>0, <1>1, <1>2, <2>1, PreparingStep DEF Shapes
<1>3. CASE /\ attempt' = [GoTo("cleaning_sample") EXCEPT
                             !.record = "sample_cleanup_running"]
           /\ disk' = [disk EXCEPT !.sample = NoPdf, !.cleaned = NoPdf]
  <2> DEFINE gone == GoTo("cleaning_sample")
  <2>1. gone \in Attempt /\ gone.phase = "cleaning_sample"
    BY <1>0, GoToProperties DEF Phases
  <2>2. attempt' = [gone EXCEPT !.record = "sample_cleanup_running"]
    BY <1>3
  <2> HIDE DEF gone
  <2>3. /\ attempt' \in Attempt /\ attempt'.phase = "cleaning_sample"
        /\ attempt'.record = "sample_cleanup_running"
    BY <2>1, <2>2 DEF Attempt, Records
  <2>4. disk' \in [sample: {disk'.sample}, cleaned: {disk'.cleaned}, part: File,
                   zip: File, extracted: File]
    BY <1>0, <1>3 DEF Shapes
  <2> QED BY <1>1, <2>3, <2>4, PreparingStep
<1> QED BY <1>2, <1>3 DEF Preflight

LEMMA CleanSampleStep ==
    ASSUME ParseInv, CleanSample PROVE ParseInv'
<1>0. attempt \in Attempt /\ Shapes /\ ChosenOK
  BY DEF ParseInv, Shapes
<1>1. /\ At("cleaning_sample") /\ UNCHANGED <<input, remote, used>>
      /\ disk' = [disk EXCEPT !.sample = CleanedSample]
  BY DEF CleanSample
<1>2. disk' \in [sample: {disk'.sample}, cleaned: {disk'.cleaned}, part: File,
                 zip: File, extracted: File]
  BY <1>0, <1>1 DEF Shapes
<1>3. CASE attempt' = GoTo("cleaning")
  <2>1. /\ attempt' \in Attempt /\ attempt'.phase = "cleaning"
        /\ attempt'.record = "sample_cleanup_running"
    BY <1>0, <1>1, <1>3, GoToProperties DEF Phases, ChosenOK, At
  <2> QED BY <1>1, <1>2, <2>1, PreparingStep
<1>4. CASE Continue("sample_cleanup_failed", "original", "sample_contract_failed")
  <2>1. /\ attempt' \in Attempt /\ attempt'.record = "sample_cleanup_failed"
        /\ attempt'.phase \in {"health", "failed"}
    BY <1>0, <1>4, ContinueProperties DEF Records, Reasons
  <2> QED BY <1>1, <1>2, <2>1, PreparingStep
<1> QED BY <1>3, <1>4 DEF CleanSample

LEMMA CleanStep ==
    ASSUME ParseInv, Clean PROVE ParseInv'
<1>0. attempt \in Attempt /\ Shapes
  BY DEF ParseInv, Shapes
<1>1. /\ At("cleaning") /\ UNCHANGED <<input, remote, used>>
      /\ disk' = [disk EXCEPT !.cleaned = input.ocr]
  BY DEF Clean
<1>2. /\ disk' \in [sample: {disk'.sample}, cleaned: {disk'.cleaned}, part: File,
                    zip: File, extracted: File]
      /\ disk'.cleaned = input.ocr
  BY <1>0, <1>1 DEF Shapes
<1>3. CASE attempt' = [GoTo("health") EXCEPT !.record = "cleaned", !.active = "cleaned"]
  <2> DEFINE gone == GoTo("health")
  <2>1. gone \in Attempt /\ gone.phase = "health"
    BY <1>0, GoToProperties DEF Phases
  <2>2. attempt' = [gone EXCEPT !.record = "cleaned", !.active = "cleaned"]
    BY <1>3
  <2> HIDE DEF gone
  <2>3. attempt' \in Attempt /\ attempt'.phase = "health"
    BY <2>1, <2>2 DEF Attempt, Records
  <2> QED BY <1>1, <1>2, <2>3, PreparingStep
<1>4. CASE Continue("full_cleanup_failed", "cleaned", "contract_failed")
  <2>1. /\ attempt' \in Attempt /\ attempt'.record = "full_cleanup_failed"
        /\ attempt'.phase \in {"health", "failed"}
    BY <1>0, <1>4, ContinueProperties DEF Records, Reasons
  <2> QED BY <1>1, <1>2, <2>1, PreparingStep
<1> QED BY <1>3, <1>4 DEF Clean

-----------------------------------------------------------------------------
(* The remote parse and its archive *)

\* What is submitted is the first parse of this attempt.
LEMMA AppendParse ==
    ASSUME ParseInv, At("submitting"), UNCHANGED <<input, disk, used>>,
           remote' = Append(remote, NewParse),
           attempt' \in Attempt, attempt'.record = attempt.record,
           \/ attempt'.phase = "failed"
           \/ attempt'.phase = "polling" /\ attempt'.job = Len(remote) + 1
    PROVE  ParseInv'
<1>0. Shapes /\ AskedOK /\ ChosenOK
  BY DEF ParseInv
<1>1. NewParse \in Parses /\ NewParse.by = used /\ NewParse.file = FileToParse
  <2>1. (CHOOSE a \in Artifacts : TRUE) \in Artifacts
    BY ArtifactsAssumption
  <2>2. FileToParse \in Files
    BY <1>0 DEF FileToParse, Files, ChosenOK
  <2> QED BY <1>0, <2>1, <2>2 DEF NewParse, Parses, Shapes
<1>2. /\ remote' \in Seq(Parses) /\ Len(remote) \in Nat
      /\ DOMAIN remote = 1 .. Len(remote)
      /\ DOMAIN remote' = 1 .. (Len(remote) + 1)
      /\ \A j \in DOMAIN remote : remote'[j] = remote[j]
      /\ remote'[Len(remote) + 1] = NewParse
  <2>1. remote \in Seq(Parses)
    BY <1>0 DEF Shapes
  <2>2. /\ remote' \in Seq(Parses) /\ Len(remote') = Len(remote) + 1
        /\ \A j \in 1 .. Len(remote) : remote'[j] = remote[j]
        /\ remote'[Len(remote) + 1] = NewParse
    BY <1>1, <2>1, AppendProperties
  <2> QED BY <2>1, <2>2, LenProperties
<1>3. Shapes'
  <2>1. (remote \in Seq(Parses))'
    BY <1>2 DEF Parses, Files
  <2> QED BY <1>0, <2>1 DEF Shapes
<1>4. AskedOK'
  <2>1. \A j \in DOMAIN remote : remote[j].by # used /\ remote[j].by <= used
    BY <1>0 DEF AskedOK, At, Early
  <2>2. attempt'.phase \notin Early
    BY DEF Early
  <2> QED BY <1>0, <1>1, <1>2, <2>1, <2>2 DEF AskedOK, Shapes
<1>5. ChosenOK'
  BY <1>0 DEF ChosenOK, At
<1>6. OwnOK'
  <2>1. FileToParse' = FileToParse
    BY DEF FileToParse
  <2> QED BY <1>1, <1>2, <2>1 DEF OwnOK, At, Late, Fetching
<1> QED BY <1>3, <1>4, <1>5, <1>6 DEF ParseInv

LEMMA SubmitStep ==
    ASSUME ParseInv, Submit PROVE ParseInv'
<1>0. attempt \in Attempt /\ Len(remote) \in Nat
  BY LenProperties DEF ParseInv, Shapes
<1>1. At("submitting") /\ UNCHANGED <<input, disk, used>>
  BY DEF Submit
<1>2. CASE attempt' = Failing("submit")
  <2>1. /\ attempt' \in Attempt /\ attempt'.phase = "failed"
        /\ attempt'.record = attempt.record
    BY <1>0, <1>2, FailingProperties DEF Reasons
  <2>2. CASE UNCHANGED remote
    BY <1>1, <2>1, <2>2, AttemptStep
  <2>3. CASE remote' = Append(remote, NewParse)
    BY <1>1, <2>1, <2>3, AppendParse
  <2> QED BY <2>2, <2>3 DEF Submit
<1>3. CASE attempt' # Failing("submit")
  <2> DEFINE gone == GoTo("polling")
  <2>1. gone \in Attempt /\ gone.phase = "polling" /\ gone.record = attempt.record
    BY <1>0, GoToProperties DEF Phases
  <2>2. /\ remote' = Append(remote, NewParse)
        /\ attempt' = [gone EXCEPT !.job = Len(remote) + 1]
    BY <1>3 DEF Submit
  <2> HIDE DEF gone
  <2>3. /\ attempt' \in Attempt /\ attempt'.phase = "polling"
        /\ attempt'.record = attempt.record /\ attempt'.job = Len(remote) + 1
    BY <1>0, <2>1, <2>2 DEF Attempt
  <2> QED BY <1>1, <2>2, <2>3, AppendParse
<1> QED BY <1>2, <1>3

\* A parse ends once: what an attempt fetches does not change any more.
LEMMA FinishParseStep ==
    ASSUME ParseInv, NEW j \in DOMAIN remote, FinishParse(j) PROVE ParseInv'
<1>0. Shapes /\ AskedOK /\ ChosenOK /\ OwnOK
  BY DEF ParseInv
<1>1. PICK status \in {"ready", "failed"}, a \in Artifacts :
          remote' = [remote EXCEPT ![j].status = status, ![j].artifact = a]
  BY DEF FinishParse
<1>2. UNCHANGED <<input, attempt, disk, used>> /\ remote[j].status = "pending"
  BY DEF FinishParse
<1>3. PICK parse \in Parses :
          /\ remote' = [remote EXCEPT ![j] = parse]
          /\ parse.by = remote[j].by /\ parse.file = remote[j].file
  <2>1. remote[j] \in Parses
    BY <1>0, ParseType DEF Shapes
  <2> DEFINE parse == [remote[j] EXCEPT !.status = status, !.artifact = a]
  <2>2. parse \in Parses /\ parse.by = remote[j].by /\ parse.file = remote[j].file
    BY <2>1 DEF Parses
  <2>3. remote' = [remote EXCEPT ![j] = parse]
    BY <1>1
  <2> HIDE DEF parse
  <2> QED BY <2>2, <2>3
<1>4. /\ remote' \in Seq(Parses) /\ DOMAIN remote' = DOMAIN remote
      /\ \A i \in DOMAIN remote : /\ i # j => remote'[i] = remote[i]
                                /\ remote'[i].by = remote[i].by
                                /\ remote'[i].file = remote[i].file
  <2>1. remote \in Seq(Parses)
    BY <1>0 DEF Shapes
  <2>2. DOMAIN remote = 1 .. Len(remote)
    BY <2>1, LenProperties
  <2>3. remote' \in Seq(Parses)
    BY <1>3, <2>1, <2>2, ExceptSeq
  <2> QED BY <1>3, <2>1, <2>2, <2>3
<1>5. Shapes'
  <2>1. (remote \in Seq(Parses))'
    BY <1>2, <1>4 DEF Parses, Files
  <2> QED BY <1>0, <1>2, <2>1 DEF Shapes
<1>6. AskedOK'
  BY <1>0, <1>2, <1>4 DEF AskedOK
<1>7. ChosenOK'
  BY <1>0, <1>2 DEF ChosenOK, At
<1>8. OwnOK'
  <2>1. attempt.phase \in Fetching => remote'[attempt.job] = remote[attempt.job]
    BY <1>0, <1>2, <1>4 DEF OwnOK, Late
  <2>2. FileToParse' = FileToParse
    BY <1>2 DEF FileToParse
  <2> QED BY <1>0, <1>2, <1>4, <2>1, <2>2 DEF OwnOK, At, Late, Fetching
<1> QED BY <1>5, <1>6, <1>7, <1>8 DEF ParseInv

\* A step that handles the archive and keeps the parse. Each phase has the file that
\* the one before it wrote.
LEMMA ArchiveStep ==
    ASSUME ParseInv, UNCHANGED <<input, remote, used>>,
           attempt' \in Attempt, attempt'.record = attempt.record,
           disk' \in [sample: {disk'.sample}, cleaned: {disk.cleaned}, part: File,
                      zip: File, extracted: File],
           \/ attempt'.phase = "failed"
           \/ /\ attempt.phase \in Fetching \ {"normalizing", "done"}
              /\ attempt'.job = attempt.job
              /\ \/ attempt'.phase = "receiving" /\ disk'.part.job = attempt.job
                 \/ /\ attempt'.phase \in {"extracting", "unpacking"}
                    /\ disk'.zip.job = attempt.job
                 \/ /\ attempt'.phase = "normalizing" /\ disk'.zip.job = attempt.job
                    /\ disk'.extracted = [job |-> attempt.job, complete |-> TRUE]
    PROVE  ParseInv'
<1>0. Shapes /\ AskedOK /\ ChosenOK /\ OwnOK
  BY DEF ParseInv
<1>1. Shapes'
  BY <1>0 DEF Shapes, Parses, Files
<1>2. AskedOK'
  BY <1>0 DEF AskedOK, Early
<1>3. disk'.cleaned = disk.cleaned
  OBVIOUS
<1>4. ChosenOK'
  BY <1>0, <1>3 DEF ChosenOK, At
<1>5. FileToParse' = FileToParse
  BY <1>3 DEF FileToParse
<1>6. OwnOK'
  BY <1>0, <1>5 DEF OwnOK, At, Late, Fetching
<1> QED BY <1>1, <1>2, <1>4, <1>6 DEF ParseInv

LEMMA OpenPartStep ==
    ASSUME ParseInv, OpenPart PROVE ParseInv'
<1>0. attempt \in Attempt /\ Shapes
  BY DEF ParseInv, Shapes
<1>1. /\ At("downloading") /\ UNCHANGED <<input, remote, used>>
      /\ disk' = [disk EXCEPT !.part = [job |-> attempt.job, complete |-> FALSE]]
      /\ attempt' = [attempt EXCEPT !.phase = "receiving"]
  BY DEF OpenPart
<1>2. /\ attempt' \in Attempt /\ attempt'.record = attempt.record
      /\ attempt'.phase = "receiving" /\ attempt'.job = attempt.job
  BY <1>0, <1>1 DEF Attempt, Phases
<1>3. /\ disk' \in [sample: {disk'.sample}, cleaned: {disk.cleaned}, part: File,
                    zip: File, extracted: File]
      /\ disk'.part.job = attempt.job
  BY <1>0, <1>1 DEF Shapes, Attempt, File
<1> QED BY <1>1, <1>2, <1>3, ArchiveStep DEF At, Fetching

LEMMA ReplaceZipStep ==
    ASSUME ParseInv, ReplaceZip PROVE ParseInv'
<1>0. attempt \in Attempt /\ Shapes /\ OwnOK
  BY DEF ParseInv, Shapes
<1>1. /\ At("receiving") /\ UNCHANGED <<input, remote, used>>
      /\ disk' = [disk EXCEPT !.zip = [job |-> disk.part.job, complete |-> TRUE],
                              !.part = NoFile]
      /\ attempt' = GoTo("extracting")
  BY DEF ReplaceZip
<1>2. /\ attempt' \in Attempt /\ attempt'.record = attempt.record
      /\ attempt'.phase = "extracting" /\ attempt'.job = attempt.job
  BY <1>0, <1>1, GoToProperties DEF Phases
<1>3. disk.part.job = attempt.job /\ disk.part.job \in Nat
  BY <1>0, <1>1 DEF OwnOK, At, Shapes, File
<1>4. /\ disk' \in [sample: {disk'.sample}, cleaned: {disk.cleaned}, part: File,
                    zip: File, extracted: File]
      /\ disk'.zip.job = attempt.job
  BY <1>0, <1>1, <1>3 DEF Shapes, File, NoFile, NoJob
<1> QED BY <1>1, <1>2, <1>4, ArchiveStep DEF At, Fetching

LEMMA ClearExtractedStep ==
    ASSUME ParseInv, ClearExtracted PROVE ParseInv'
<1>0. attempt \in Attempt /\ Shapes /\ OwnOK
  BY DEF ParseInv, Shapes
<1>1. At("extracting") /\ UNCHANGED <<input, remote, used>>
  BY DEF ClearExtracted
<1>2. CASE attempt' = Failing("unsafe") /\ UNCHANGED disk
  BY <1>0, <1>1, <1>2, FailingProperties, AttemptStep DEF Reasons
<1>3. CASE /\ disk' = [disk EXCEPT !.extracted = NoFile]
           /\ attempt' = GoTo("unpacking")
  <2>1. /\ attempt' \in Attempt /\ attempt'.record = attempt.record
        /\ attempt'.phase = "unpacking" /\ attempt'.job = attempt.job
    BY <1>0, <1>3, GoToProperties DEF Phases
  <2>2. disk.zip.job = attempt.job
    BY <1>0, <1>1 DEF OwnOK, At
  <2>3. /\ disk' \in [sample: {disk'.sample}, cleaned: {disk.cleaned}, part: File,
                      zip: File, extracted: File]
        /\ disk'.zip.job = attempt.job
    BY <1>0, <1>3, <2>2 DEF Shapes, File, NoFile, NoJob
  <2> QED BY <1>1, <2>1, <2>3, ArchiveStep DEF At, Fetching
<1> QED BY <1>2, <1>3 DEF ClearExtracted

LEMMA UnpackStep ==
    ASSUME ParseInv, Unpack PROVE ParseInv'
<1>0. attempt \in Attempt /\ Shapes /\ OwnOK
  BY DEF ParseInv, Shapes
<1>1. At("unpacking") /\ UNCHANGED <<input, remote, used>>
  BY DEF Unpack
<1>2. PICK complete \in BOOLEAN :
          /\ disk' = [disk EXCEPT !.extracted = [job |-> disk.zip.job,
                                                 complete |-> complete]]
          /\ attempt' = IF complete THEN GoTo("normalizing") ELSE Failing("died")
  BY DEF Unpack
<1>3. disk.zip.job = attempt.job /\ disk.zip.job \in Nat
  BY <1>0, <1>1 DEF OwnOK, At, Shapes, File
<1>4. /\ disk' \in [sample: {disk'.sample}, cleaned: {disk.cleaned}, part: File,
                    zip: File, extracted: File]
      /\ disk'.zip.job = attempt.job
      /\ disk'.extracted = [job |-> attempt.job, complete |-> complete]
  BY <1>0, <1>2, <1>3 DEF Shapes, File
<1>5. CASE complete
  <2>1. /\ attempt' \in Attempt /\ attempt'.record = attempt.record
        /\ attempt'.phase = "normalizing" /\ attempt'.job = attempt.job
    BY <1>0, <1>2, <1>5, GoToProperties DEF Phases
  <2>2. complete = TRUE
    BY <1>5
  <2> QED BY <1>1, <1>4, <2>1, <2>2, ArchiveStep DEF At, Fetching
<1>6. CASE ~complete
  <2>1. /\ attempt' \in Attempt /\ attempt'.record = attempt.record
        /\ attempt'.phase = "failed"
    BY <1>0, <1>2, <1>6, FailingProperties DEF Reasons
  <2> QED BY <1>1, <1>4, <2>1, ArchiveStep
<1> QED BY <1>5, <1>6

-----------------------------------------------------------------------------
(* The theorems *)

LEMMA InitInvariant == Init => ParseInv
<1> SUFFICES ASSUME Init PROVE ParseInv
  OBVIOUS
<1>1. /\ attempt.phase = "idle" /\ attempt.record = "none" /\ attempt \in Attempt
      /\ remote = << >> /\ used = 0 /\ disk = EmptyDisk
  BY DEF Init, NoAttempt, NoJob, Attempt, Phases, Records, Reasons
<1>2. Shapes
  BY <1>1 DEF Shapes, EmptyDisk, NoFile, NoJob, File
<1>3. AskedOK /\ ChosenOK /\ OwnOK
  BY <1>1 DEF AskedOK, ChosenOK, OwnOK, At, Early, Late, Fetching
<1> QED BY <1>2, <1>3 DEF ParseInv

LEMMA NextInvariant == ParseInv /\ [Next]_vars => ParseInv'
<1> SUFFICES ASSUME ParseInv, [Next]_vars PROVE ParseInv'
  OBVIOUS
<1>1. CASE Begin
  BY <1>1, BeginStep
<1>2. CASE Step
  <2>1. CASE Preflight \/ CleanSample \/ Clean \/ CleanupFails
    BY <2>1, PreflightStep, CleanSampleStep, CleanStep, DieStep
  <2>2. CASE Health \/ Submit \/ Poll \/ PollError
    BY <2>2, HealthStep, SubmitStep, PollStep, PollErrorStep
  <2>3. CASE OpenPart \/ ReplaceZip \/ DownloadError
    BY <2>3, OpenPartStep, ReplaceZipStep, DownloadErrorStep
  <2>4. CASE ClearExtracted \/ Unpack \/ Normalize
    BY <2>4, ClearExtractedStep, UnpackStep, NormalizeStep
  <2> QED BY <1>2, <2>1, <2>2, <2>3, <2>4 DEF Step
<1>3. CASE Die
  BY <1>3, DieStep
<1>4. CASE DeadlinePasses
  BY <1>4, DeadlinePassesStep
<1>5. CASE \E j \in DOMAIN remote : FinishParse(j)
  BY <1>5, FinishParseStep
<1>6. CASE Over \/ UNCHANGED vars
  <2>1. UNCHANGED <<input, attempt, disk, remote, used>>
    BY <1>6 DEF Over, vars
  <2> QED BY <2>1 DEF ParseInv, Shapes, Parses, Files, AskedOK, ChosenOK, OwnOK, At,
                      FileToParse
<1> QED BY <1>1, <1>2, <1>3, <1>4, <1>5, <1>6 DEF Next

LEMMA ParseInvariant == Spec => []ParseInv
BY InitInvariant, NextInvariant, PTL DEF Spec

\* parse_document and normalize_artifact_zip: the chunks of an attempt come whole from
\* the parse this attempt submitted and MinerU finished, and that parse read the file
\* which _prepare_pdf_preprocessing chose, whatever earlier attempts left on disk.
THEOREM OwnChunks == Spec => []ChunksAreOwn
<1>1. ParseInv => ChunksAreOwn
  BY DEF ParseInv, OwnOK, ChunksAreOwn, At, Late, Fetching
<1> QED BY <1>1, ParseInvariant, PTL

\* submit_parse: no retry of the client and no later attempt has MinerU do the same work twice: a
\* parse belongs to one attempt.
THEOREM ParsesAskedOnce == Spec => []OneParsePerAttempt
<1>1. ParseInv => OneParsePerAttempt
  BY DEF ParseInv, AskedOK, OneParsePerAttempt
<1> QED BY <1>1, ParseInvariant, PTL

-----------------------------------------------------------------------------
(* Positions in order *)

\* How many positions lie before one tells them apart and in order.
LEMMA RankProperties ==
    ASSUME NEW S \in SUBSET Nat, IsFiniteSet(S)
    PROVE  /\ Cardinality(S) \in Nat
           /\ \A p \in S : Cardinality(Before(S, p)) \in 0 .. Cardinality(S) - 1
           /\ \A p, q \in S : p < q => Cardinality(Before(S, p)) < Cardinality(Before(S, q))
<1>1. Cardinality(S) \in Nat
  BY FS_CardinalityType
<1>2. ASSUME NEW p \in S PROVE Cardinality(Before(S, p)) \in 0 .. Cardinality(S) - 1
  <2>1. Before(S, p) \in SUBSET S /\ p \notin Before(S, p)
    BY DEF Before
  <2>2. /\ IsFiniteSet(Before(S, p)) /\ Cardinality(Before(S, p)) <= Cardinality(S)
        /\ Cardinality(S) = Cardinality(Before(S, p)) => S = Before(S, p)
    BY <2>1, FS_Subset
  <2>3. Cardinality(Before(S, p)) \in Nat
    BY <2>2, FS_CardinalityType
  <2>4. Cardinality(S) # Cardinality(Before(S, p))
    BY <2>1, <2>2
  <2> QED BY <1>1, <2>2, <2>3, <2>4
<1>3. ASSUME NEW p \in S, NEW q \in S, p < q
      PROVE  Cardinality(Before(S, p)) < Cardinality(Before(S, q))
  <2>1. Before(S, q) \in SUBSET S /\ p \in Before(S, q)
    BY <1>3 DEF Before
  <2>2. Before(S, p) \in SUBSET Before(S, q) /\ p \notin Before(S, p)
    <3>1. p \in Nat /\ q \in Nat /\ \A x \in S : x \in Nat
      OBVIOUS
    <3>2. \A x \in S : x < p => x < q
      BY <1>3, <3>1
    <3>3. ~(p < p)
      BY <3>1
    <3> QED BY <3>2, <3>3 DEF Before
  <2>3. IsFiniteSet(Before(S, q))
    BY <2>1, FS_Subset
  <2>4. /\ IsFiniteSet(Before(S, p))
        /\ Cardinality(Before(S, p)) <= Cardinality(Before(S, q))
        /\ Cardinality(Before(S, q)) = Cardinality(Before(S, p)) => Before(S, q) = Before(S, p)
    BY <2>2, <2>3, FS_Subset
  <2>5. Cardinality(Before(S, p)) \in Nat /\ Cardinality(Before(S, q)) \in Nat
    BY <2>3, <2>4, FS_CardinalityType
  <2>6. Cardinality(Before(S, q)) # Cardinality(Before(S, p))
    BY <2>1, <2>2, <2>4
  <2> QED BY <2>4, <2>5, <2>6
<1> QED BY <1>1, <1>2, <1>3

\* Nth names the positions of a set one by one, in order.
LEMMA NthProperties ==
    ASSUME NEW S \in SUBSET Nat, IsFiniteSet(S)
    PROVE  /\ \A k \in 1 .. Cardinality(S) :
                Nth(S, k) \in S /\ Cardinality(Before(S, Nth(S, k))) = k - 1
           /\ \A j, k \in 1 .. Cardinality(S) : j < k => Nth(S, j) < Nth(S, k)
           /\ \A p \in S : \E k \in 1 .. Cardinality(S) : p = Nth(S, k)
<1> DEFINE n == Cardinality(S)
           rank == [p \in S |-> Cardinality(Before(S, p))]
<1>1. /\ n \in Nat
      /\ \A p \in S : rank[p] \in 0 .. n - 1
      /\ \A p, q \in S : p < q => rank[p] < rank[q]
  BY RankProperties
<1>2. rank \in [S -> 0 .. n - 1]
  BY <1>1
<1>3. \A p, q \in S : rank[p] = rank[q] => p = q
  <2> SUFFICES ASSUME NEW p \in S, NEW q \in S, rank[p] = rank[q], p # q PROVE FALSE
    OBVIOUS
  <2>1. p < q \/ q < p
    OBVIOUS
  <2>2. rank[p] \in Nat /\ rank[q] \in Nat
    BY <1>1
  <2> QED BY <1>1, <2>1, <2>2
<1>4. rank \in Injection(S, 0 .. n - 1)
  BY <1>2, <1>3 DEF Injection, IsInjective
<1>5. IsFiniteSet(0 .. n - 1) /\ Cardinality(0 .. n - 1) = n
  BY <1>1, FS_Interval
<1>6. rank \in Surjection(S, 0 .. n - 1)
  BY <1>4, <1>5, FS_Injection
<1>7. \A j \in 0 .. n - 1 : \E p \in S : rank[p] = j
  BY <1>6 DEF Surjection
<1>8. ASSUME NEW k \in 1 .. n PROVE Nth(S, k) \in S /\ rank[Nth(S, k)] = k - 1
  <2>1. k - 1 \in 0 .. n - 1
    BY <1>1
  <2>2. \E p \in S : Cardinality(Before(S, p)) = k - 1
    BY <1>7, <2>1
  <2>3. Nth(S, k) \in S /\ Cardinality(Before(S, Nth(S, k))) = k - 1
    BY <2>2 DEF Nth
  <2> QED BY <2>3
<1>9. ASSUME NEW j \in 1 .. n, NEW k \in 1 .. n, j < k PROVE Nth(S, j) < Nth(S, k)
  <2>1. /\ Nth(S, j) \in S /\ rank[Nth(S, j)] = j - 1
        /\ Nth(S, k) \in S /\ rank[Nth(S, k)] = k - 1
    BY <1>8
  <2>2. j \in Nat /\ k \in Nat /\ j - 1 < k - 1
    BY <1>1, <1>9
  <2>3. ~(Nth(S, k) < Nth(S, j)) /\ Nth(S, k) # Nth(S, j)
    <3> DEFINE x == Nth(S, j)
               y == Nth(S, k)
    <3>1. x \in S /\ y \in S /\ rank[x] = j - 1 /\ rank[y] = k - 1
      BY <2>1
    <3> HIDE DEF n, rank, x, y
    <3>2. ~(y < x)
      BY <1>1, <2>2, <3>1
    <3>3. y # x
      BY <2>2, <3>1
    <3> QED BY <3>2, <3>3 DEF x, y
  <2>4. Nth(S, j) \in Nat /\ Nth(S, k) \in Nat
    BY <2>1
  <2> QED BY <2>3, <2>4
<1>10. ASSUME NEW p \in S PROVE \E k \in 1 .. n : p = Nth(S, k)
  <2>1. rank[p] + 1 \in 1 .. n
    BY <1>1
  <2>2. Nth(S, rank[p] + 1) \in S /\ rank[Nth(S, rank[p] + 1)] = rank[p]
    BY <1>1, <1>8, <2>1
  <2>3. Nth(S, rank[p] + 1) = p
    BY <1>3, <2>2
  <2> QED BY <2>1, <2>3
<1> QED BY <1>8, <1>9, <1>10

-----------------------------------------------------------------------------
(* Texts, and sequences of blocks or chunks *)

\* No token is in a text twice.
Distinct(text) == \A j, k \in DOMAIN text : text[j] = text[k] => j = k

\* The tokens and the warnings of what a sequence has from a place on, and that
\* no token is there twice.
TokensOf(seq, lo) == UNION {Range(seq[b].text) : b \in lo .. Len(seq)}
WarnsOf(seq, lo) == UNION {seq[b].warns : b \in lo .. Len(seq)}
Once(seq, lo) ==
    \A b, c \in lo .. Len(seq) : \A j \in DOMAIN seq[b].text : \A k \in DOMAIN seq[c].text :
        seq[b].text[j] = seq[c].text[k] => b = c /\ j = k

HasTexts(R) == \A r \in R : r.text \in Seq(Tokens)

LEMMA Within ==
    ASSUME NEW seq, NEW lo, NEW X, \A b \in lo .. Len(seq) : Range(seq[b].text) \subseteq X
    PROVE  TokensOf(seq, lo) \subseteq X
BY DEF TokensOf

LEMMA WarnsWithin ==
    ASSUME NEW seq, NEW lo, NEW X, \A b \in lo .. Len(seq) : seq[b].warns \subseteq X
    PROVE  WarnsOf(seq, lo) \subseteq X
BY DEF WarnsOf

LEMMA Among ==
    ASSUME NEW seq, NEW lo, NEW b \in lo .. Len(seq)
    PROVE  Range(seq[b].text) \subseteq TokensOf(seq, lo) /\ seq[b].warns \subseteq WarnsOf(seq, lo)
BY DEF TokensOf, WarnsOf

LEMMA OnceMeans ==
    ASSUME NEW seq, NEW lo, Once(seq, lo), NEW b \in lo .. Len(seq), NEW c \in lo .. Len(seq),
           NEW j \in DOMAIN seq[b].text, NEW k \in DOMAIN seq[c].text,
           seq[b].text[j] = seq[c].text[k]
    PROVE  b = c /\ j = k
BY DEF Once

\* A text put before another.
LEMMA ConcatTexts ==
    ASSUME NEW T, NEW s \in Seq(T), NEW t \in Seq(T)
    PROVE  /\ s \o t \in Seq(T)
           /\ Range(s \o t) = Range(s) \cup Range(t)
           /\ Distinct(s) /\ Distinct(t) /\ Range(s) \cap Range(t) = {} => Distinct(s \o t)
<1> DEFINE u == s \o t
           m == Len(s)
           n == Len(t)
<1>1. /\ u \in Seq(T) /\ Len(u) = m + n
      /\ \A i \in 1 .. m + n : u[i] = IF i <= m THEN s[i] ELSE t[i - m]
  BY ConcatProperties
<1>2. m \in Nat /\ n \in Nat /\ DOMAIN s = 1 .. m /\ DOMAIN t = 1 .. n /\ DOMAIN u = 1 .. m + n
  BY <1>1, LenProperties
<1>3. \A i \in 1 .. m : i \in 1 .. m + n /\ u[i] = s[i]
  BY <1>1, <1>2
<1>4. \A i \in 1 .. n : m + i \in 1 .. m + n /\ u[m + i] = t[i]
  <2> SUFFICES ASSUME NEW i \in 1 .. n PROVE m + i \in 1 .. m + n /\ u[m + i] = t[i]
    OBVIOUS
  <2>1. m + i \in 1 .. m + n /\ ~(m + i <= m) /\ (m + i) - m = i
    BY <1>2
  <2> QED BY <1>1, <2>1
<1>5. \A i \in 1 .. m + n : i \in 1 .. m \/ (i - m \in 1 .. n /\ u[i] = t[i - m])
  BY <1>1, <1>2
<1> HIDE DEF u, m, n
<1>6. Range(u) = Range(s) \cup Range(t)
  <2>1. ASSUME NEW i \in DOMAIN u PROVE u[i] \in Range(s) \cup Range(t)
    BY <1>2, <1>3, <1>5, <2>1 DEF Range
  <2>2. ASSUME NEW i \in DOMAIN s PROVE s[i] \in Range(u)
    BY <1>2, <1>3, <2>2 DEF Range
  <2>3. ASSUME NEW i \in DOMAIN t PROVE t[i] \in Range(u)
    BY <1>2, <1>4, <2>3 DEF Range
  <2> QED BY <2>1, <2>2, <2>3 DEF Range
<1>7. ASSUME Distinct(s), Distinct(t), Range(s) \cap Range(t) = {} PROVE Distinct(u)
  <2> SUFFICES ASSUME NEW i \in 1 .. m + n, NEW j \in 1 .. m + n, u[i] = u[j] PROVE i = j
    BY <1>2 DEF Distinct
  <2>1. CASE i \in 1 .. m /\ j \in 1 .. m
    BY <1>2, <1>3, <1>7, <2>1 DEF Distinct
  <2>2. CASE i \in 1 .. m /\ j \notin 1 .. m
    <3>1. s[i] = t[j - m] /\ i \in DOMAIN s /\ j - m \in DOMAIN t
      BY <1>2, <1>3, <1>5, <2>2
    <3> QED BY <1>7, <3>1 DEF Range
  <2>3. CASE i \notin 1 .. m /\ j \in 1 .. m
    <3>1. s[j] = t[i - m] /\ j \in DOMAIN s /\ i - m \in DOMAIN t
      BY <1>2, <1>3, <1>5, <2>3
    <3> QED BY <1>7, <3>1 DEF Range
  <2>4. CASE i \notin 1 .. m /\ j \notin 1 .. m
    <3>1. t[i - m] = t[j - m] /\ i - m \in DOMAIN t /\ j - m \in DOMAIN t
      BY <1>2, <1>5, <2>4
    <3>2. i - m = j - m
      BY <1>7, <3>1 DEF Distinct
    <3> QED BY <1>2, <3>2
  <2> QED BY <2>1, <2>2, <2>3, <2>4
<1> QED BY <1>1, <1>6, <1>7 DEF u

\* What a sequence has is what it has first and what it has after that.
LEMMA TailTokens ==
    ASSUME NEW R, HasTexts(R), NEW seq \in Seq(R), NEW lo \in 1 .. Len(seq)
    PROVE  /\ seq[lo] \in R
           /\ TokensOf(seq, lo) = Range(seq[lo].text) \cup TokensOf(seq, lo + 1)
           /\ WarnsOf(seq, lo) = seq[lo].warns \cup WarnsOf(seq, lo + 1)
           /\ Once(seq, lo) =>
                /\ Distinct(seq[lo].text) /\ Once(seq, lo + 1)
                /\ Range(seq[lo].text) \cap TokensOf(seq, lo + 1) = {}
<1>1. Len(seq) \in Nat /\ lo \in Nat /\ lo <= Len(seq)
  OBVIOUS
<1>2. lo .. Len(seq) = {lo} \cup (lo + 1 .. Len(seq)) /\ lo \notin lo + 1 .. Len(seq)
  BY <1>1
<1>3. TokensOf(seq, lo) = Range(seq[lo].text) \cup TokensOf(seq, lo + 1)
  BY <1>2 DEF TokensOf
<1>4. WarnsOf(seq, lo) = seq[lo].warns \cup WarnsOf(seq, lo + 1)
  BY <1>2 DEF WarnsOf
<1>5. ASSUME Once(seq, lo)
      PROVE  /\ Distinct(seq[lo].text) /\ Once(seq, lo + 1)
             /\ Range(seq[lo].text) \cap TokensOf(seq, lo + 1) = {}
  <2>1. Distinct(seq[lo].text) /\ Once(seq, lo + 1)
    BY <1>2, <1>5 DEF Once, Distinct
  <2>2. ASSUME NEW b \in lo + 1 .. Len(seq), NEW j \in DOMAIN seq[b].text,
               NEW k \in DOMAIN seq[lo].text
        PROVE  seq[b].text[j] # seq[lo].text[k]
    BY <1>2, <1>5 DEF Once
  <2> QED BY <2>1, <2>2 DEF TokensOf, Range
<1> QED BY <1>3, <1>4, <1>5

\* Nothing is in the empty sequence, or after the end of one.
LEMMA NoTokens ==
    ASSUME NEW R, NEW seq \in Seq(R), NEW lo \in Nat, lo > Len(seq)
    PROVE  TokensOf(seq, lo) = {} /\ WarnsOf(seq, lo) = {} /\ Once(seq, lo)
<1>1. lo .. Len(seq) = {}
  OBVIOUS
<1> QED BY <1>1 DEF TokensOf, WarnsOf, Once

LEMMA EmptyTokens ==
    TokensOf(<<>>, 1) = {} /\ WarnsOf(<<>>, 1) = {} /\ Once(<<>>, 1)
<1>1. 1 .. Len(<<>>) = {}
  OBVIOUS
<1> QED BY <1>1 DEF TokensOf, WarnsOf, Once

\* What is once in a whole sequence is once in the rest of it.
LEMMA OnceAfter ==
    ASSUME NEW R, NEW seq \in Seq(R), Once(seq, 1), NEW lo \in Nat \ {0}
    PROVE  Once(seq, lo) /\ TokensOf(seq, lo) \subseteq TokensOf(seq, 1)
<1>1. lo .. Len(seq) \subseteq 1 .. Len(seq)
  OBVIOUS
<1> QED BY <1>1 DEF Once, TokensOf

\* A sequence of one.
LEMMA SingleTokens ==
    ASSUME NEW R, HasTexts(R), NEW r \in R
    PROVE  /\ <<r>> \in Seq(R) /\ Len(<<r>>) = 1
           /\ TokensOf(<<r>>, 1) = Range(r.text) /\ WarnsOf(<<r>>, 1) = r.warns
           /\ Distinct(r.text) => Once(<<r>>, 1)
<1>1. <<r>> \in Seq(R) /\ Len(<<r>>) = 1 /\ <<r>>[1] = r /\ 1 .. Len(<<r>>) = {1}
  OBVIOUS
<1> DEFINE s == <<r>>
<1> HIDE DEF s
<1>2. TokensOf(s, 1) = Range(r.text) /\ WarnsOf(s, 1) = r.warns
  BY <1>1 DEF TokensOf, WarnsOf, s
<1>3. Distinct(r.text) => Once(s, 1)
  <2>1. 1 .. Len(s) = {1} /\ s[1] = r
    BY <1>1 DEF s
  <2> QED BY <2>1 DEF Distinct, Once
<1> QED BY <1>1, <1>2, <1>3 DEF s

\* A sequence put before another.
LEMMA ConcatTokens ==
    ASSUME NEW R, HasTexts(R), NEW s \in Seq(R), NEW t \in Seq(R)
    PROVE  /\ s \o t \in Seq(R)
           /\ TokensOf(s \o t, 1) = TokensOf(s, 1) \cup TokensOf(t, 1)
           /\ WarnsOf(s \o t, 1) = WarnsOf(s, 1) \cup WarnsOf(t, 1)
           /\ Once(s, 1) /\ Once(t, 1) /\ TokensOf(s, 1) \cap TokensOf(t, 1) = {}
                => Once(s \o t, 1)
<1> DEFINE u == s \o t
           m == Len(s)
           n == Len(t)
<1>1. /\ u \in Seq(R) /\ Len(u) = m + n
      /\ \A i \in 1 .. m + n : u[i] = IF i <= m THEN s[i] ELSE t[i - m]
  BY ConcatProperties
<1>2. m \in Nat /\ n \in Nat
  BY <1>1, LenProperties
<1>3. \A i \in 1 .. m : i \in 1 .. m + n /\ u[i] = s[i]
  BY <1>1, <1>2
<1>4. \A i \in 1 .. n : m + i \in 1 .. m + n /\ u[m + i] = t[i]
  <2> SUFFICES ASSUME NEW i \in 1 .. n PROVE m + i \in 1 .. m + n /\ u[m + i] = t[i]
    OBVIOUS
  <2>1. m + i \in 1 .. m + n /\ ~(m + i <= m) /\ (m + i) - m = i
    BY <1>2
  <2> QED BY <1>1, <2>1
<1>5. \A i \in 1 .. m + n : i \in 1 .. m \/ (i - m \in 1 .. n /\ u[i] = t[i - m])
  BY <1>1, <1>2
<1>6. Len(u) = m + n
  BY <1>1
<1> HIDE DEF u
<1>7. TokensOf(u, 1) = TokensOf(s, 1) \cup TokensOf(t, 1)
  <2>1. ASSUME NEW i \in 1 .. m + n
        PROVE  Range(u[i].text) \subseteq TokensOf(s, 1) \cup TokensOf(t, 1)
    BY <1>3, <1>5 DEF TokensOf
  <2>2. ASSUME NEW i \in 1 .. m PROVE Range(s[i].text) \subseteq TokensOf(u, 1)
    <3>1. i \in 1 .. Len(u) /\ u[i] = s[i]
      BY <1>3, <1>6
    <3> QED BY <3>1 DEF TokensOf
  <2>3. ASSUME NEW i \in 1 .. n PROVE Range(t[i].text) \subseteq TokensOf(u, 1)
    <3>1. m + i \in 1 .. Len(u) /\ u[m + i] = t[i]
      BY <1>4, <1>6
    <3> QED BY <3>1 DEF TokensOf
  <2>4. TokensOf(u, 1) \subseteq TokensOf(s, 1) \cup TokensOf(t, 1)
    BY <1>6, <2>1 DEF TokensOf
  <2>5. TokensOf(s, 1) \subseteq TokensOf(u, 1) /\ TokensOf(t, 1) \subseteq TokensOf(u, 1)
    BY <2>2, <2>3 DEF TokensOf
  <2> QED BY <2>4, <2>5
<1>8. WarnsOf(u, 1) = WarnsOf(s, 1) \cup WarnsOf(t, 1)
  <2>1. ASSUME NEW i \in 1 .. m + n PROVE u[i].warns \subseteq WarnsOf(s, 1) \cup WarnsOf(t, 1)
    BY <1>3, <1>5 DEF WarnsOf
  <2>2. ASSUME NEW i \in 1 .. m PROVE s[i].warns \subseteq WarnsOf(u, 1)
    <3>1. i \in 1 .. Len(u) /\ u[i] = s[i]
      BY <1>3, <1>6
    <3> QED BY <3>1 DEF WarnsOf
  <2>3. ASSUME NEW i \in 1 .. n PROVE t[i].warns \subseteq WarnsOf(u, 1)
    <3>1. m + i \in 1 .. Len(u) /\ u[m + i] = t[i]
      BY <1>4, <1>6
    <3> QED BY <3>1 DEF WarnsOf
  <2>4. WarnsOf(u, 1) \subseteq WarnsOf(s, 1) \cup WarnsOf(t, 1)
    BY <1>6, <2>1 DEF WarnsOf
  <2>5. WarnsOf(s, 1) \subseteq WarnsOf(u, 1) /\ WarnsOf(t, 1) \subseteq WarnsOf(u, 1)
    BY <2>2, <2>3 DEF WarnsOf
  <2> QED BY <2>4, <2>5
<1>9. ASSUME Once(s, 1), Once(t, 1), TokensOf(s, 1) \cap TokensOf(t, 1) = {} PROVE Once(u, 1)
  <2> SUFFICES ASSUME NEW b \in 1 .. m + n, NEW c \in 1 .. m + n, NEW j \in DOMAIN u[b].text,
                      NEW k \in DOMAIN u[c].text, u[b].text[j] = u[c].text[k]
               PROVE  b = c /\ j = k
    BY <1>6 DEF Once
  <2>1. CASE b \in 1 .. m /\ c \in 1 .. m
    BY <1>3, <1>9, <2>1 DEF Once
  <2>2. CASE b \in 1 .. m /\ c \notin 1 .. m
    <3>1. /\ u[b] = s[b] /\ c - m \in 1 .. n /\ u[c] = t[c - m]
      BY <1>3, <1>5, <2>2
    <3>2. u[b].text[j] \in TokensOf(s, 1) /\ u[c].text[k] \in TokensOf(t, 1)
      BY <2>2, <3>1 DEF TokensOf, Range
    <3> QED BY <1>9, <3>2
  <2>3. CASE b \notin 1 .. m /\ c \in 1 .. m
    <3>1. /\ u[c] = s[c] /\ b - m \in 1 .. n /\ u[b] = t[b - m]
      BY <1>3, <1>5, <2>3
    <3>2. u[c].text[k] \in TokensOf(s, 1) /\ u[b].text[j] \in TokensOf(t, 1)
      BY <2>3, <3>1 DEF TokensOf, Range
    <3> QED BY <1>9, <3>2
  <2>4. CASE b \notin 1 .. m /\ c \notin 1 .. m
    <3>1. /\ b - m \in 1 .. n /\ u[b] = t[b - m] /\ c - m \in 1 .. n /\ u[c] = t[c - m]
      BY <1>5, <2>4
    <3>2. b - m = c - m /\ j = k
      BY <1>9, <3>1 DEF Once
    <3> QED BY <1>2, <3>2
  <2> QED BY <2>1, <2>2, <2>3, <2>4
<1> QED BY <1>1, <1>7, <1>8, <1>9 DEF u

\* A sequence with one more at its end.
LEMMA AppendTokens ==
    ASSUME NEW R, HasTexts(R), NEW seq \in Seq(R), NEW r \in R
    PROVE  /\ Append(seq, r) \in Seq(R)
           /\ TokensOf(Append(seq, r), 1) = TokensOf(seq, 1) \cup Range(r.text)
           /\ WarnsOf(Append(seq, r), 1) = WarnsOf(seq, 1) \cup r.warns
           /\ Once(seq, 1) /\ Distinct(r.text) /\ TokensOf(seq, 1) \cap Range(r.text) = {}
                => Once(Append(seq, r), 1)
<1>1. Append(seq, r) = seq \o <<r>>
  BY AppendIsConcat
<1>2. /\ <<r>> \in Seq(R)
      /\ TokensOf(<<r>>, 1) = Range(r.text) /\ WarnsOf(<<r>>, 1) = r.warns
      /\ Distinct(r.text) => Once(<<r>>, 1)
  BY SingleTokens
<1>3. /\ seq \o <<r>> \in Seq(R)
      /\ TokensOf(seq \o <<r>>, 1) = TokensOf(seq, 1) \cup TokensOf(<<r>>, 1)
      /\ WarnsOf(seq \o <<r>>, 1) = WarnsOf(seq, 1) \cup WarnsOf(<<r>>, 1)
      /\ Once(seq, 1) /\ Once(<<r>>, 1) /\ TokensOf(seq, 1) \cap TokensOf(<<r>>, 1) = {}
            => Once(seq \o <<r>>, 1)
  BY <1>2, ConcatTokens
<1> QED BY <1>1, <1>2, <1>3

\* The last of a sequence with more text at its end.
LEMMA GrowLast ==
    ASSUME NEW R, HasTexts(R), NEW seq \in Seq(R), seq # <<>>, NEW r \in R,
           NEW x \in Seq(Tokens), r.text = seq[Len(seq)].text \o x,
           r.warns = seq[Len(seq)].warns
    PROVE  /\ [seq EXCEPT ![Len(seq)] = r] \in Seq(R)
           /\ TokensOf([seq EXCEPT ![Len(seq)] = r], 1) = TokensOf(seq, 1) \cup Range(x)
           /\ WarnsOf([seq EXCEPT ![Len(seq)] = r], 1) = WarnsOf(seq, 1)
           /\ Once(seq, 1) /\ Distinct(x) /\ TokensOf(seq, 1) \cap Range(x) = {}
                => Once([seq EXCEPT ![Len(seq)] = r], 1)
<1> DEFINE n == Len(seq)
           grown == [seq EXCEPT ![n] = r]
           old == seq[n].text
<1>1. n \in Nat \ {0} /\ n \in 1 .. n /\ \A b \in 1 .. n : seq[b] \in R
  BY EmptySeq, LenProperties
<1>2. /\ grown \in Seq(R) /\ Len(grown) = n
      /\ \A b \in 1 .. n : grown[b] = IF b = n THEN r ELSE seq[b]
  BY <1>1, ExceptSeq
<1>3. old \in Seq(Tokens)
  BY <1>1 DEF HasTexts
<1>4. /\ Range(r.text) = Range(old) \cup Range(x)
      /\ Distinct(old) /\ Distinct(x) /\ Range(old) \cap Range(x) = {} => Distinct(r.text)
  BY <1>3, ConcatTexts
<1>5. Range(old) \subseteq TokensOf(seq, 1)
  BY <1>1 DEF TokensOf
<1> HIDE DEF grown
<1>6. TokensOf(grown, 1) = TokensOf(seq, 1) \cup Range(x)
  <2>1. ASSUME NEW b \in 1 .. n PROVE Range(grown[b].text) \subseteq TokensOf(seq, 1) \cup Range(x)
    BY <1>1, <1>2, <1>4, <1>5 DEF TokensOf
  <2>2. ASSUME NEW b \in 1 .. n PROVE Range(seq[b].text) \subseteq TokensOf(grown, 1)
    <3>1. Range(seq[b].text) \subseteq Range(grown[b].text)
      BY <1>2, <1>4
    <3> QED BY <1>2, <3>1 DEF TokensOf
  <2>3. Range(x) \subseteq TokensOf(grown, 1)
    <3>1. Range(x) \subseteq Range(grown[n].text)
      BY <1>1, <1>2, <1>4
    <3> QED BY <1>1, <1>2, <3>1 DEF TokensOf
  <2>4. TokensOf(grown, 1) \subseteq TokensOf(seq, 1) \cup Range(x)
    BY <1>2, <2>1 DEF TokensOf
  <2>5. TokensOf(seq, 1) \subseteq TokensOf(grown, 1)
    BY <2>2 DEF TokensOf
  <2> QED BY <2>3, <2>4, <2>5
<1>7. WarnsOf(grown, 1) = WarnsOf(seq, 1)
  <2>1. \A b \in 1 .. n : grown[b].warns = seq[b].warns
    BY <1>2
  <2> QED BY <1>2, <2>1 DEF WarnsOf
<1>8. ASSUME Once(seq, 1), Distinct(x), TokensOf(seq, 1) \cap Range(x) = {} PROVE Once(grown, 1)
  <2>1. Distinct(r.text)
    <3>1. Distinct(old)
      BY <1>1, <1>8 DEF Once, Distinct
    <3> QED BY <1>4, <1>5, <1>8, <3>1
  <2>2. ASSUME NEW b \in 1 .. n, b # n, NEW j \in DOMAIN seq[b].text, NEW k \in DOMAIN r.text
        PROVE  seq[b].text[j] # r.text[k]
    <3>1. seq[b].text[j] \in TokensOf(seq, 1)
      <4>1. seq[b].text[j] \in Range(seq[b].text)
        BY <2>2 DEF Range
      <4> QED BY <2>2, <4>1 DEF TokensOf
    <3>2. \A m \in DOMAIN old : seq[b].text[j] # old[m]
      BY <1>1, <1>8, <2>2 DEF Once
    <3>3. r.text[k] \in Range(old) \cup Range(x)
      BY <1>4 DEF Range
    <3> QED BY <1>8, <3>1, <3>2, <3>3 DEF Range
  <2> SUFFICES ASSUME NEW b \in 1 .. n, NEW c \in 1 .. n, NEW j \in DOMAIN grown[b].text,
                      NEW k \in DOMAIN grown[c].text, grown[b].text[j] = grown[c].text[k]
               PROVE  b = c /\ j = k
    BY <1>2 DEF Once
  <2>3. CASE b = n /\ c = n
    BY <1>2, <2>1, <2>3 DEF Distinct
  <2>4. CASE b # n /\ c # n
    BY <1>2, <1>8, <2>4 DEF Once
  <2>5. CASE b # n /\ c = n
    <3>1. grown[b] = seq[b] /\ grown[c] = r
      BY <1>2, <2>5
    <3>2. seq[b].text[j] # r.text[k]
      BY <2>2, <2>5, <3>1
    <3> QED BY <3>1, <3>2
  <2>6. CASE b = n /\ c # n
    <3>1. grown[c] = seq[c] /\ grown[b] = r
      BY <1>2, <2>6
    <3>2. seq[c].text[k] # r.text[j]
      BY <2>2, <2>6, <3>1
    <3> QED BY <3>1, <3>2
  <2> QED BY <2>3, <2>4, <2>5, <2>6
<1> QED BY <1>2, <1>6, <1>7, <1>8 DEF grown

\* A sequence in another order.
LEMMA OrderTokens ==
    ASSUME NEW seq \in Seq(Blocks), NEW ordered \in Seq(Blocks), NEW order,
           Len(ordered) = Len(seq),
           \A k \in 1 .. Len(seq) : order[k] \in 1 .. Len(seq) /\ ordered[k] = seq[order[k]],
           \A j, k \in 1 .. Len(seq) : order[j] = order[k] => j = k,
           \A k \in 1 .. Len(seq) : \E j \in 1 .. Len(seq) : order[j] = k
    PROVE  /\ TokensOf(ordered, 1) = TokensOf(seq, 1)
           /\ WarnsOf(ordered, 1) = WarnsOf(seq, 1)
           /\ Once(seq, 1) => Once(ordered, 1)
<1> DEFINE n == Len(seq)
<1>1. n \in Nat /\ Len(ordered) = n
  BY LenProperties
<1>4. \A k \in 1 .. n : order[k] \in 1 .. n /\ ordered[k] = seq[order[k]]
  OBVIOUS
<1>5. ASSUME NEW k \in 1 .. n PROVE \E j \in 1 .. n : ordered[j] = seq[k]
  <2>1. PICK j \in 1 .. n : order[j] = k
    OBVIOUS
  <2> QED BY <1>4, <2>1
<1>6. ASSUME NEW k \in 1 .. n
      PROVE  /\ Range(ordered[k].text) \subseteq TokensOf(seq, 1)
             /\ ordered[k].warns \subseteq WarnsOf(seq, 1)
  <2>1. order[k] \in 1 .. n /\ ordered[k] = seq[order[k]]
    BY <1>4
  <2> QED BY <2>1, Among
<1>7. ASSUME NEW k \in 1 .. n
      PROVE  /\ Range(seq[k].text) \subseteq TokensOf(ordered, 1)
             /\ seq[k].warns \subseteq WarnsOf(ordered, 1)
  <2>1. PICK j \in 1 .. n : ordered[j] = seq[k]
    BY <1>5
  <2> QED BY ONLY <1>1, <2>1, Among
<1>8. TokensOf(ordered, 1) = TokensOf(seq, 1)
  <2>1. TokensOf(ordered, 1) \subseteq TokensOf(seq, 1)
    BY <1>1, <1>6, Within
  <2>2. TokensOf(seq, 1) \subseteq TokensOf(ordered, 1)
    BY <1>7, Within
  <2> QED BY <2>1, <2>2
<1>9. WarnsOf(ordered, 1) = WarnsOf(seq, 1)
  <2>1. WarnsOf(ordered, 1) \subseteq WarnsOf(seq, 1)
    BY <1>1, <1>6, WarnsWithin
  <2>2. WarnsOf(seq, 1) \subseteq WarnsOf(ordered, 1)
    BY <1>7, WarnsWithin
  <2> QED BY <2>1, <2>2
<1>10. ASSUME Once(seq, 1) PROVE Once(ordered, 1)
  <2>1. ASSUME NEW b \in 1 .. n, NEW c \in 1 .. n, NEW j \in DOMAIN ordered[b].text,
               NEW k \in DOMAIN ordered[c].text, ordered[b].text[j] = ordered[c].text[k]
        PROVE  b = c /\ j = k
    <3> DEFINE x == order[b]
               y == order[c]
    <3>1. x \in 1 .. n /\ ordered[b] = seq[x] /\ y \in 1 .. n /\ ordered[c] = seq[y]
      BY <1>4
    <3> HIDE DEF x, y
    <3>2. /\ x \in 1 .. Len(seq) /\ y \in 1 .. Len(seq)
          /\ j \in DOMAIN seq[x].text /\ k \in DOMAIN seq[y].text
          /\ seq[x].text[j] = seq[y].text[k]
      BY <2>1, <3>1
    <3>3. x = y /\ j = k
      BY ONLY <1>10, <3>2 DEF Once
    <3> QED BY <3>3 DEF x, y
  <2> QED BY ONLY <1>1, <2>1 DEF Once
<1> QED BY <1>8, <1>9, <1>10

-----------------------------------------------------------------------------
(* Cuts *)

\* Where the pieces of CutAt begin and end.
From(S, k) == IF k = 1 THEN 1 ELSE Nth(S, k)
To(S, k, len) == IF k = Cardinality(S) THEN len ELSE Nth(S, k + 1) - 1

\* The positions a text of this length may be cut at.
Cuts(S, len) ==
    /\ S \in SUBSET Nat /\ IsFiniteSet(S) /\ S # {}
    /\ \A p \in S : p >= 1 /\ (p <= len \/ p = 1)

\* The pieces lie side by side, and each has one of the positions.
LEMMA SpanProperties ==
    ASSUME NEW len \in Nat, NEW S, Cuts(S, len)
    PROVE  /\ Cardinality(S) \in Nat \ {0}
           /\ \A k \in 1 .. Cardinality(S) :
                From(S, k) \in 1 .. len + 1 /\ To(S, k, len) \in 0 .. len
           /\ \A i \in 1 .. len : \E k \in 1 .. Cardinality(S) :
                From(S, k) <= i /\ i <= To(S, k, len)
           /\ \A j, k \in 1 .. Cardinality(S) : j < k => To(S, j, len) < From(S, k)
           /\ \A k \in 1 .. Cardinality(S) : \A p \in S :
                From(S, k) <= p /\ p <= To(S, k, len) => p = Nth(S, k)
<1> DEFINE n == Cardinality(S)
<1>1. /\ S \in SUBSET Nat /\ IsFiniteSet(S) /\ S # {}
      /\ \A p \in S : p \in Nat /\ p >= 1 /\ (p <= len \/ p = 1)
  BY DEF Cuts
<1>2. n \in Nat \ {0}
  BY <1>1, FS_CardinalityType, FS_EmptySet
<1>3. /\ \A k \in 1 .. n : Nth(S, k) \in S
      /\ \A j, k \in 1 .. n : j < k => Nth(S, j) < Nth(S, k)
      /\ \A p \in S : \E k \in 1 .. n : p = Nth(S, k)
  BY <1>1, NthProperties
<1>4. \A k \in 1 .. n : Nth(S, k) \in Nat /\ Nth(S, k) >= 1 /\ (Nth(S, k) <= len \/ Nth(S, k) = 1)
  BY <1>1, <1>3
<1>5. \A k \in 1 .. n : k > 1 => Nth(S, k) <= len /\ Nth(S, k) > 1
  <2> SUFFICES ASSUME NEW k \in 1 .. n, k > 1 PROVE Nth(S, k) <= len /\ Nth(S, k) > 1
    OBVIOUS
  <2>1. 1 \in 1 .. n
    BY <1>2
  <2>2. Nth(S, 1) < Nth(S, k) /\ Nth(S, 1) >= 1 /\ Nth(S, 1) \in Nat /\ Nth(S, k) \in Nat
    BY <1>3, <1>4, <2>1
  <2> QED BY <1>4, <2>2
<1>6. ASSUME NEW k \in 1 .. n
      PROVE  From(S, k) \in 1 .. len + 1 /\ To(S, k, len) \in 0 .. len
  <2>1. From(S, k) \in 1 .. len + 1
    <3>1. CASE k = 1
      BY <3>1 DEF From
    <3>2. CASE k # 1
      <4>1. k > 1
        BY <3>2
      <4> QED BY <1>4, <1>5, <3>2, <4>1 DEF From
    <3> QED BY <3>1, <3>2
  <2>2. To(S, k, len) \in 0 .. len
    <3>1. CASE k = n
      BY <3>1 DEF To
    <3>2. CASE k # n
      <4>1. k + 1 \in 1 .. n /\ k + 1 > 1
        BY <1>2, <3>2
      <4>2. Nth(S, k + 1) \in Nat /\ Nth(S, k + 1) <= len /\ Nth(S, k + 1) > 1
        BY <1>4, <1>5, <4>1
      <4> QED BY <3>2, <4>2 DEF To
    <3> QED BY <3>1, <3>2
  <2> QED BY <2>1, <2>2
<1>7. ASSUME NEW j \in 1 .. n, NEW k \in 1 .. n, j < k PROVE To(S, j, len) < From(S, k)
  <2>1. j + 1 \in 1 .. n /\ j # n /\ k # 1 /\ (j + 1 = k \/ j + 1 < k)
    BY <1>2, <1>7
  <2>2. Nth(S, j + 1) <= Nth(S, k) /\ Nth(S, j + 1) \in Nat /\ Nth(S, k) \in Nat
    BY <1>3, <1>4, <2>1
  <2>3. To(S, j, len) = Nth(S, j + 1) - 1 /\ From(S, k) = Nth(S, k)
    BY <2>1 DEF To, From
  <2> QED BY <2>2, <2>3
<1>8. ASSUME NEW k \in 1 .. n, NEW p \in S, From(S, k) <= p, p <= To(S, k, len) PROVE p = Nth(S, k)
  <2>1. PICK m \in 1 .. n : p = Nth(S, m)
    BY <1>3
  <2>2. ~(m < k)
    <3> SUFFICES ASSUME m < k PROVE FALSE
      OBVIOUS
    <3>1. k # 1 /\ Nth(S, m) < Nth(S, k)
      BY <1>3
    <3>2. From(S, k) = Nth(S, k) /\ Nth(S, m) \in Nat /\ Nth(S, k) \in Nat
      BY <1>4, <3>1 DEF From
    <3> QED BY <1>8, <2>1, <3>1, <3>2
  <2>3. ~(k < m)
    <3> SUFFICES ASSUME k < m PROVE FALSE
      OBVIOUS
    <3>1. k + 1 \in 1 .. n /\ k # n /\ (k + 1 = m \/ k + 1 < m)
      BY <1>2
    <3>2. Nth(S, k + 1) <= Nth(S, m) /\ Nth(S, k + 1) \in Nat /\ Nth(S, m) \in Nat
      BY <1>3, <1>4, <3>1
    <3>3. To(S, k, len) = Nth(S, k + 1) - 1
      BY <3>1 DEF To
    <3> QED BY <1>8, <2>1, <3>2, <3>3
  <2> QED BY <2>1, <2>2, <2>3
<1>9. ASSUME NEW i \in 1 .. len
      PROVE  \E k \in 1 .. n : From(S, k) <= i /\ i <= To(S, k, len)
  <2> DEFINE below == Before(S, i + 1)
             c == Cardinality(below)
  <2>1. below \subseteq S /\ \A p \in S : p \in below <=> p <= i
    <3>1. \A p \in S : p < i + 1 <=> p <= i
      BY <1>1
    <3> QED BY <3>1 DEF Before
  <2>2. IsFiniteSet(below) /\ c <= n
    BY <1>1, <2>1, FS_Subset
  <2>3. c \in Nat
    BY <2>2, FS_CardinalityType
  <2>4. ASSUME NEW p \in S, p <= i PROVE Cardinality(Before(S, p)) < c
    <3>1. p \in below /\ p \notin Before(S, p) /\ Before(S, p) \subseteq below
      <4>1. \A x \in S : x < p => x <= i
        BY <1>1, <2>4
      <4>2. ~(p < p)
        BY <1>1
      <4> QED BY <2>1, <2>4, <4>1, <4>2 DEF Before
    <3>2. /\ IsFiniteSet(Before(S, p)) /\ Cardinality(Before(S, p)) <= c
          /\ c = Cardinality(Before(S, p)) => below = Before(S, p)
      BY <2>2, <3>1, FS_Subset
    <3>3. Cardinality(Before(S, p)) \in Nat
      BY <3>2, FS_CardinalityType
    <3> QED BY <2>3, <3>1, <3>2, <3>3
  <2>5. ASSUME NEW p \in S, ~(p <= i) PROVE c <= Cardinality(Before(S, p))
    <3>1. below \subseteq Before(S, p)
      <4>1. \A x \in S : x <= i => x < p
        BY <1>1, <2>5
      <4> QED BY <2>1, <4>1 DEF Before
    <3>2. IsFiniteSet(Before(S, p))
      <4>1. Before(S, p) \subseteq S
        BY DEF Before
      <4> QED BY <1>1, <4>1, FS_Subset
    <3> QED BY <3>1, <3>2, FS_Subset
  <2>6. \A k \in 1 .. n : Cardinality(Before(S, Nth(S, k))) = k - 1
    BY <1>1, NthProperties
  <2> HIDE DEF below, c, n
  <2>7. ASSUME NEW k \in 1 .. n, k <= c PROVE Nth(S, k) <= i
    <3> SUFFICES ASSUME ~(Nth(S, k) <= i) PROVE FALSE
      OBVIOUS
    <3>1. c <= k - 1
      BY <1>3, <2>5, <2>6
    <3> QED BY <2>3, <2>7, <3>1
  <2>8. ASSUME NEW k \in 1 .. n, k > c PROVE Nth(S, k) > i
    <3> SUFFICES ASSUME Nth(S, k) <= i PROVE FALSE
      BY <1>4
    <3>1. k - 1 < c
      BY <1>3, <2>4, <2>6
    <3> QED BY <2>3, <2>8, <3>1
  <2> DEFINE k == IF c = 0 THEN 1 ELSE c
  <2>9. k \in 1 .. n
    BY <1>2, <2>2, <2>3
  <2>10. From(S, k) <= i
    <3>1. CASE k = 1
      BY <3>1 DEF From
    <3>2. CASE k # 1
      <4>1. k <= c
        BY <2>3, <3>2
      <4> QED BY <2>7, <2>9, <3>2, <4>1 DEF From
    <3> QED BY <3>1, <3>2
  <2>11. i <= To(S, k, len)
    <3>1. CASE k = n
      BY <3>1 DEF To, n
    <3>2. CASE k # n
      <4>1. k + 1 \in 1 .. n /\ k + 1 > c
        BY <1>2, <2>3, <2>9, <3>2
      <4>2. Nth(S, k + 1) > i /\ Nth(S, k + 1) \in Nat
        BY <1>4, <2>8, <4>1
      <4> HIDE DEF k
      <4>3. To(S, k, len) = Nth(S, k + 1) - 1
        BY <3>2 DEF To, n
      <4> QED BY <4>2, <4>3
    <3> QED BY <3>1, <3>2
  <2> HIDE DEF k
  <2> QED BY <2>9, <2>10, <2>11
<1> QED BY <1>2, <1>6, <1>7, <1>8, <1>9

\* A piece is the text between two places.
LEMMA PieceProperties ==
    ASSUME NEW text \in Seq(Tokens), NEW S, Cuts(S, Len(text)), NEW k \in 1 .. Cardinality(S)
    PROVE  /\ CutAt(text, S)[k] \in Seq(Tokens)
           /\ \A i \in DOMAIN CutAt(text, S)[k] :
                /\ From(S, k) + i - 1 \in DOMAIN text
                /\ From(S, k) + i - 1 >= From(S, k) /\ From(S, k) + i - 1 <= To(S, k, Len(text))
                /\ CutAt(text, S)[k][i] = text[From(S, k) + i - 1]
           /\ \A i \in DOMAIN text :
                From(S, k) <= i /\ i <= To(S, k, Len(text)) =>
                    /\ i - From(S, k) + 1 \in DOMAIN CutAt(text, S)[k]
                    /\ CutAt(text, S)[k][i - From(S, k) + 1] = text[i]
<1> DEFINE len == Len(text)
           a == From(S, k)
           b == To(S, k, len)
           piece == SubSeq(text, a, b)
<1>1. len \in Nat /\ DOMAIN text = 1 .. len /\ \A i \in 1 .. len : text[i] \in Tokens
  BY LenProperties
<1>2. a \in 1 .. len + 1 /\ b \in 0 .. len
  BY <1>1, SpanProperties
<1>3. CutAt(text, S)[k] = piece
  BY DEF CutAt, From, To
<1> HIDE DEF a, b, len
<1>4. a \in Int /\ b \in Int /\ a >= 1 /\ b <= len /\ a <= len + 1
  BY <1>1, <1>2
<1>5. \A i \in a .. b : text[i] \in Tokens
  BY <1>1, <1>4
<1>6. /\ piece \in Seq(Tokens) /\ Len(piece) = IF a <= b THEN b - a + 1 ELSE 0
      /\ \A i \in 1 .. b - a + 1 : piece[i] = text[a + i - 1]
  BY <1>4, <1>5, SubSeqProperties
<1>7. DOMAIN piece = 1 .. Len(piece)
  BY <1>6, LenProperties
<1> HIDE DEF piece
<1>8. ASSUME NEW i \in DOMAIN piece
      PROVE  /\ a + i - 1 \in 1 .. len /\ a + i - 1 >= a /\ a + i - 1 <= b
             /\ piece[i] = text[a + i - 1]
  <2>1. i \in 1 .. b - a + 1
    BY <1>4, <1>6, <1>7
  <2> QED BY <1>1, <1>4, <1>6, <2>1
<1>9. ASSUME NEW i \in 1 .. len, a <= i, i <= b
      PROVE  i - a + 1 \in DOMAIN piece /\ piece[i - a + 1] = text[i]
  <2>1. i - a + 1 \in 1 .. b - a + 1 /\ a <= b /\ a + (i - a + 1) - 1 = i
    BY <1>1, <1>4, <1>9
  <2>2. i - a + 1 \in DOMAIN piece
    BY <1>6, <1>7, <2>1
  <2>3. piece[i - a + 1] = text[a + (i - a + 1) - 1]
    BY <1>6, <2>1
  <2> QED BY <2>1, <2>2, <2>3
<1>10. DOMAIN text = 1 .. len /\ len = Len(text)
  BY <1>1 DEF len
<1> QED BY <1>3, <1>6, <1>8, <1>9, <1>10 DEF a, b

\* The pieces of a text have what it has, and each token of it once.
LEMMA CutTokens ==
    ASSUME NEW R, HasTexts(R), NEW text \in Seq(Tokens), NEW S, Cuts(S, Len(text)),
           NEW seq \in Seq(R), Len(seq) = Cardinality(S),
           \A k \in 1 .. Len(seq) : seq[k].text = CutAt(text, S)[k]
    PROVE  /\ TokensOf(seq, 1) = Range(text)
           /\ Distinct(text) => Once(seq, 1)
<1> DEFINE len == Len(text)
           n == Cardinality(S)
<1>1. len \in Nat /\ DOMAIN text = 1 .. len
  BY LenProperties
<1>2. /\ n \in Nat \ {0}
      /\ \A k \in 1 .. n : From(S, k) \in 1 .. len + 1 /\ To(S, k, len) \in 0 .. len
      /\ \A i \in 1 .. len : \E k \in 1 .. n : From(S, k) <= i /\ i <= To(S, k, len)
      /\ \A j, k \in 1 .. n : j < k => To(S, j, len) < From(S, k)
  BY <1>1, SpanProperties
<1>3. ASSUME NEW k \in 1 .. n, NEW i \in DOMAIN seq[k].text
      PROVE  /\ From(S, k) + i - 1 \in DOMAIN text
             /\ From(S, k) + i - 1 >= From(S, k) /\ From(S, k) + i - 1 <= To(S, k, len)
             /\ seq[k].text[i] = text[From(S, k) + i - 1]
             /\ i \in Nat
  <2>1. seq[k].text = CutAt(text, S)[k] /\ CutAt(text, S)[k] \in Seq(Tokens)
    BY PieceProperties
  <2>2. i \in Nat
    BY <2>1
  <2> QED BY <2>1, <2>2, PieceProperties
<1>4. ASSUME NEW k \in 1 .. n PROVE Range(seq[k].text) \subseteq Range(text)
  BY <1>3 DEF Range
<1>5. TokensOf(seq, 1) \subseteq Range(text)
  BY <1>4, Within
<1>6. ASSUME NEW i \in DOMAIN text PROVE text[i] \in TokensOf(seq, 1)
  <2>1. PICK k \in 1 .. n : From(S, k) <= i /\ i <= To(S, k, len)
    BY <1>1, <1>2
  <2>2. /\ i - From(S, k) + 1 \in DOMAIN CutAt(text, S)[k]
        /\ CutAt(text, S)[k][i - From(S, k) + 1] = text[i]
    BY <2>1, PieceProperties
  <2>3. text[i] \in Range(seq[k].text)
    BY <2>2 DEF Range
  <2>4. Range(seq[k].text) \subseteq TokensOf(seq, 1)
    BY Among
  <2> QED BY <2>3, <2>4
<1>7. ASSUME Distinct(text) PROVE Once(seq, 1)
  <2> SUFFICES ASSUME NEW b \in 1 .. n, NEW c \in 1 .. n, NEW j \in DOMAIN seq[b].text,
                      NEW k \in DOMAIN seq[c].text, seq[b].text[j] = seq[c].text[k]
               PROVE  b = c /\ j = k
    BY DEF Once
  <2> DEFINE x == From(S, b) + j - 1
             y == From(S, c) + k - 1
  <2>1. /\ x \in DOMAIN text /\ x >= From(S, b) /\ x <= To(S, b, len)
        /\ seq[b].text[j] = text[x] /\ j \in Nat
    BY <1>3
  <2>2. /\ y \in DOMAIN text /\ y >= From(S, c) /\ y <= To(S, c, len)
        /\ seq[c].text[k] = text[y] /\ k \in Nat
    BY <1>3
  <2>3. x = y
    <3> HIDE DEF x, y
    <3> QED BY ONLY <1>7, <2>1, <2>2, seq[b].text[j] = seq[c].text[k] DEF Distinct
  <2>4. /\ From(S, b) \in Int /\ From(S, c) \in Int /\ To(S, b, len) \in Int
        /\ To(S, c, len) \in Int /\ x \in Int
    BY <1>1, <1>2, <2>1
  <2>5. b = c
    <3>1. ~(b < c)
      <4> HIDE DEF x, y, len, n
      <4> QED BY <1>2, <2>1, <2>2, <2>3, <2>4
    <3>2. ~(c < b)
      <4> HIDE DEF x, y, len, n
      <4> QED BY <1>2, <2>1, <2>2, <2>3, <2>4
    <3> QED BY <1>2, <3>1, <3>2
  <2>6. j = k
    BY <2>1, <2>2, <2>3, <2>4, <2>5
  <2> QED BY <2>5, <2>6
<1>8. Range(text) \subseteq TokensOf(seq, 1)
  BY <1>6 DEF Range
<1> QED BY <1>5, <1>7, <1>8

LEMMA Extremes ==
    ASSUME NEW S \in SUBSET Nat, IsFiniteSet(S), S # {}
    PROVE  Max(S) \in S /\ Min(S) \in S
<1> DEFINE n == Cardinality(S)
<1>1. n \in Nat \ {0}
  BY FS_CardinalityType, FS_EmptySet
<1>2. /\ \A k \in 1 .. n : Nth(S, k) \in S
      /\ \A j, k \in 1 .. n : j < k => Nth(S, j) < Nth(S, k)
      /\ \A p \in S : \E k \in 1 .. n : p = Nth(S, k)
  BY NthProperties
<1>3. 1 \in 1 .. n /\ n \in 1 .. n
  BY <1>1
<1>4. ASSUME NEW p \in S PROVE p <= Nth(S, n) /\ Nth(S, 1) <= p
  <2>1. PICK k \in 1 .. n : p = Nth(S, k)
    BY <1>2
  <2>2. (k = n \/ k < n) /\ (k = 1 \/ 1 < k)
    BY <1>1
  <2>3. p \in Nat /\ Nth(S, 1) \in Nat /\ Nth(S, n) \in Nat
    BY <1>2, <1>3
  <2> HIDE DEF n
  <2> QED BY <1>2, <1>3, <2>1, <2>2, <2>3
<1>5. Nth(S, 1) \in S /\ Nth(S, n) \in S
  BY <1>2, <1>3
<1>6. \E x \in S : \A y \in S : x >= y
  BY <1>4, <1>5
<1>7. \E x \in S : \A y \in S : x =< y
  BY <1>4, <1>5
<1>8. Max(S) \in S
  BY <1>6 DEF Max
<1>9. Min(S) \in S
  BY <1>7 DEF Min
<1> QED BY <1>8, <1>9

LEMMA PartOfText ==
    ASSUME NEW text \in Seq(Tokens), NEW m \in Nat \ {0}, NEW n \in Int, n <= Len(text)
    PROVE  SubSeq(text, m, n) \in Seq(Tokens) /\ Range(SubSeq(text, m, n)) \subseteq Range(text)
<1>1. /\ Len(text) \in Nat /\ DOMAIN text = 1 .. Len(text)
      /\ \A i \in 1 .. Len(text) : text[i] \in Tokens
  BY LenProperties
<1>2. \A i \in m .. n : i \in 1 .. Len(text) /\ text[i] \in Tokens
  BY <1>1
<1>3. /\ SubSeq(text, m, n) \in Seq(Tokens)
      /\ Len(SubSeq(text, m, n)) = IF m <= n THEN n - m + 1 ELSE 0
      /\ \A i \in 1 .. n - m + 1 : SubSeq(text, m, n)[i] = text[m + i - 1]
  BY <1>2, SubSeqProperties
<1> DEFINE part == SubSeq(text, m, n)
<1> HIDE DEF part
<1>4. ASSUME NEW i \in DOMAIN part PROVE part[i] \in Range(text)
  <2>1. part \in Seq(Tokens) /\ Len(part) = IF m <= n THEN n - m + 1 ELSE 0
    BY <1>3 DEF part
  <2>2. i \in 1 .. n - m + 1
    BY <2>1, LenProperties
  <2>3. part[i] = text[m + i - 1]
    BY <1>3, <2>2 DEF part
  <2>4. m + i - 1 \in DOMAIN text
    BY <1>1, <2>2
  <2> QED BY <2>3, <2>4 DEF Range
<1>5. Range(part) \subseteq Range(text)
  BY <1>4 DEF Range
<1> QED BY <1>3, <1>5 DEF part

LEMMA PositionsProperties ==
    ASSUME NEW text \in Seq(Tokens), NEW marks
    PROVE  /\ Positions(text, marks) \in SUBSET (1 .. Len(text))
           /\ Positions(text, marks) \in SUBSET Nat
           /\ IsFiniteSet(Positions(text, marks))
           /\ Cardinality(Positions(text, marks)) \in Nat
           /\ Positions(text, marks) # {} => Cuts(Positions(text, marks), Len(text))
<1> DEFINE S == Positions(text, marks)
<1>1. Len(text) \in Nat /\ DOMAIN text = 1 .. Len(text)
  BY LenProperties
<1>2. S \in SUBSET (1 .. Len(text))
  BY <1>1 DEF Positions
<1>3. IsFiniteSet(1 .. Len(text))
  BY <1>1, FS_Interval
<1>4. IsFiniteSet(S)
  BY <1>2, <1>3, FS_Subset
<1>5. Cardinality(S) \in Nat
  BY <1>4, FS_CardinalityType
<1> HIDE DEF S
<1>6. S \in SUBSET Nat /\ \A p \in S : p >= 1 /\ p <= Len(text)
  BY <1>1, <1>2
<1>7. S # {} => Cuts(S, Len(text))
  BY <1>4, <1>6 DEF Cuts
<1> QED BY <1>2, <1>4, <1>5, <1>6, <1>7 DEF S

\* A contextual piece has text of its block only.
LEMMA ContextualPieceWithin ==
    ASSUME NEW text \in Seq(Tokens), NEW anchor \in Positions(text, {"anchor"})
    PROVE  /\ ContextualPiece(text, anchor) \in Seq(Tokens)
           /\ Range(ContextualPiece(text, anchor)) \subseteq Range(text)
<1> DEFINE len == Len(text)
           contexts == Positions(text, {"context"})
           anchors == Positions(text, {"anchor"})
           ends == After(contexts \cup anchors, anchor)
           unit == SubSeq(text, anchor, IF ends = {} THEN Len(text) ELSE Min(ends) - 1)
           nearest == Max(Before(contexts, anchor))
           prefix == ContextPrefix(text, anchor)
           first == SubSeq(text, 1, anchor - 1)
<1>1. /\ contexts \in SUBSET (1 .. len) /\ anchors \in SUBSET (1 .. len)
      /\ IsFiniteSet(contexts) /\ IsFiniteSet(anchors)
  BY PositionsProperties
<1>2. /\ len \in Nat /\ DOMAIN text = 1 .. len /\ anchor \in 1 .. len
      /\ \A i \in 1 .. len : text[i] \in Tokens
  BY <1>1, LenProperties
<1>3. unit \in Seq(Tokens) /\ Range(unit) \subseteq Range(text)
  <2>1. CASE ends = {}
    BY <1>2, <2>1, PartOfText
  <2>2. CASE ends # {}
    <3>1. ends \subseteq contexts \cup anchors
      BY DEF After
    <3>2. IsFiniteSet(ends) /\ ends \in SUBSET Nat /\ ends \in SUBSET (1 .. len)
      <4>1. IsFiniteSet(contexts \cup anchors) /\ contexts \cup anchors \in SUBSET (1 .. len)
        BY <1>1, FS_Union
      <4> HIDE DEF ends, contexts, anchors
      <4> QED BY <3>1, <4>1, FS_Subset
    <3>3. Min(ends) \in 1 .. len
      BY <2>2, <3>2, Extremes
    <3>4. Min(ends) - 1 \in Int /\ Min(ends) - 1 <= Len(text)
      BY <1>2, <3>3
    <3>5. anchor \in Nat \ {0}
      BY <1>2
    <3> HIDE DEF ends
    <3>6. unit = SubSeq(text, anchor, Min(ends) - 1)
      BY <2>2
    <3> HIDE DEF unit
    <3> QED BY <3>4, <3>5, <3>6, PartOfText
  <2> QED BY <2>1, <2>2
<1>4. first \in Seq(Tokens) /\ Range(first) \subseteq Range(text)
  BY <1>2, PartOfText
<1>5. prefix \in Seq(Tokens) /\ Range(prefix) \subseteq Range(text)
  <2> DEFINE before == Before(contexts, anchor)
  <2>1. CASE before = {}
    <3>1. prefix = <<>>
      BY <2>1 DEF ContextPrefix
    <3> QED BY <3>1 DEF Range
  <2>2. CASE before # {}
    <3>1. before \subseteq contexts
      BY DEF Before
    <3>2. IsFiniteSet(before) /\ before \in SUBSET Nat /\ before \in SUBSET (1 .. len)
      BY <1>1, <3>1, FS_Subset
    <3>3. nearest \in 1 .. len
      BY <2>2, <3>2, Extremes
    <3>4. SubSeq(text, nearest, anchor - 1) \in Seq(Tokens)
          /\ Range(SubSeq(text, nearest, anchor - 1)) \subseteq Range(text)
      BY <1>2, <3>3, PartOfText
    <3>5. <<text[nearest]>> \in Seq(Tokens) /\ Range(<<text[nearest]>>) \subseteq Range(text)
      BY <1>2, <3>3 DEF Range
    <3>6. prefix = <<text[nearest]>> \/ prefix = SubSeq(text, nearest, anchor - 1)
      BY <2>2 DEF ContextPrefix
    <3> QED BY <3>4, <3>5, <3>6
  <2> QED BY <2>1, <2>2
<1>6. \/ ContextualPiece(text, anchor) = first \o unit
      \/ ContextualPiece(text, anchor) = prefix \o unit
  BY DEF ContextualPiece
<1> HIDE DEF first, unit, prefix
<1>7. /\ first \o unit \in Seq(Tokens) /\ Range(first \o unit) \subseteq Range(text)
      /\ prefix \o unit \in Seq(Tokens) /\ Range(prefix \o unit) \subseteq Range(text)
  BY <1>3, <1>4, <1>5, ConcatTexts
<1> QED BY <1>6, <1>7

LEMMA BlockShape ==
    ASSUME NEW block \in Blocks
    PROVE  block.text \in Seq(Tokens) /\ block.warns \in SUBSET Nat /\ block.page \in Nat
           /\ block.last \in Nat /\ block.type \in BlockTypes
BY DEF Blocks

LEMMA TextsOfBlocks == HasTexts(Blocks)
BY BlockShape DEF HasTexts

LEMMA TextsOfChunks == HasTexts(Chunks)
BY DEF HasTexts, Chunks

LEMMA WithText ==
    ASSUME NEW block \in Blocks, NEW text \in Seq(Tokens)
    PROVE  /\ [block EXCEPT !.text = text] \in Blocks
           /\ [block EXCEPT !.text = text].text = text
           /\ [block EXCEPT !.text = text].warns = block.warns
BY DEF Blocks

\* The blocks a block is cut into: nothing new, and nothing lost but where the
\* cuts are contextual; with primary references one anchor in each at most.
LEMMA ExpandProperties ==
    ASSUME NEW block \in Blocks
    PROVE  /\ Expand(block) \in Seq(Blocks)
           /\ TokensOf(Expand(block), 1) \subseteq Range(block.text)
           /\ WarnsOf(Expand(block), 1) = block.warns
           /\ contract.canonical # "contextual" =>
                /\ TokensOf(Expand(block), 1) = Range(block.text)
                /\ Distinct(block.text) => Once(Expand(block), 1)
<1> DEFINE text == block.text
           pieces == Pieces(text)
           n == Len(pieces)
           cut == [k \in DOMAIN pieces |-> [block EXCEPT !.text = pieces[k]]]
           S == Positions(text, IF contract.inline = "starts_unit"
                                THEN {"anchor", "inline"} ELSE {"anchor"})
           anchors == Positions(text, {"anchor"})
<1>1. text \in Seq(Tokens)
  BY BlockShape
<1>2. CASE Expand(block) = <<block>>
  BY <1>2, TextsOfBlocks, SingleTokens
<1>3. CASE Expand(block) # <<block>>
  <2>1. Expand(block) = cut /\ ~(n <= 1)
    BY <1>3 DEF Expand
  <2> DEFINE Cutting ==
                /\ n \in Nat \ {0} /\ DOMAIN pieces = 1 .. n
                /\ \A k \in 1 .. n : pieces[k] \in Seq(Tokens)
                                     /\ Range(pieces[k]) \subseteq Range(text)
  <2>2. /\ Cutting
        /\ contract.canonical # "contextual" =>
              pieces = CutAt(text, S) /\ Cuts(S, Len(text)) /\ n = Cardinality(S)
    <3>1. CASE contract.canonical = "contextual"
      <4>1. pieces = ContextualPieces(text)
        BY <3>1 DEF Pieces
      <4>2. pieces # <<>>
        BY <2>1
      <4>3. pieces = [k \in 1 .. Cardinality(anchors) |-> ContextualPiece(text, Nth(anchors, k))]
        BY <4>1, <4>2 DEF ContextualPieces
      <4>4. Cardinality(anchors) \in Nat /\ IsFiniteSet(anchors) /\ anchors \in SUBSET Nat
        BY <1>1, PositionsProperties
      <4>5. DOMAIN pieces = 1 .. Cardinality(anchors) /\ n = Cardinality(anchors)
        BY <4>3, <4>4
      <4>6. ASSUME NEW k \in 1 .. n
            PROVE  pieces[k] \in Seq(Tokens) /\ Range(pieces[k]) \subseteq Range(text)
        <5>1. pieces[k] = ContextualPiece(text, Nth(anchors, k)) /\ k \in 1 .. Cardinality(anchors)
          BY <4>3, <4>5
        <5>2. Nth(anchors, k) \in anchors
          BY <4>4, <5>1, NthProperties
        <5> QED BY <1>1, <5>1, <5>2, ContextualPieceWithin
      <4>7. n # 0
        BY <2>1, <4>4, <4>5
      <4> QED BY <3>1, <4>4, <4>5, <4>6, <4>7
    <3>2. CASE contract.canonical # "contextual"
      <4>1. pieces = CutAt(text, S)
        BY <3>2 DEF Pieces, PrimaryPieces
      <4>2. Cardinality(S) \in Nat /\ (S # {} => Cuts(S, Len(text)))
        BY <1>1, PositionsProperties
      <4>3. DOMAIN pieces = 1 .. Cardinality(S) /\ n = Cardinality(S)
        BY <4>1, <4>2 DEF CutAt
      <4>4. n # 0
        BY <2>1, <4>2, <4>3
      <4>5. S # {}
        BY <4>3, <4>4, FS_EmptySet
      <4>6. ASSUME NEW k \in 1 .. n
            PROVE  pieces[k] \in Seq(Tokens) /\ Range(pieces[k]) \subseteq Range(text)
        <5>1. k \in 1 .. Cardinality(S) /\ Cuts(S, Len(text))
          BY <4>2, <4>3, <4>5
        <5> HIDE DEF S, text, pieces
        <5> QED BY <1>1, <4>1, <5>1, PieceProperties DEF Range
      <4> QED BY <4>1, <4>2, <4>3, <4>4, <4>5, <4>6
    <3> QED BY <3>1, <3>2
  <2>3. cut \in Seq(Blocks) /\ Len(cut) = n
        /\ \A k \in 1 .. n : cut[k].text = pieces[k] /\ cut[k].warns = block.warns
    <3>1. \A k \in 1 .. n : pieces[k] \in Seq(Tokens)
      BY <2>2
    <3>2. n \in Nat /\ DOMAIN pieces = 1 .. n
      BY <2>2
    <3> HIDE DEF pieces, n
    <3>3. cut \in [1 .. n -> Blocks]
      BY <3>1, <3>2, WithText
    <3>4. \A k \in 1 .. n : cut[k].text = pieces[k] /\ cut[k].warns = block.warns
      BY <3>1, <3>2, WithText
    <3> QED BY <3>2, <3>3, <3>4
  <2>4. n \in Nat \ {0} /\ \A k \in 1 .. n : Range(pieces[k]) \subseteq Range(text)
    BY <2>2
  <2> HIDE DEF cut, pieces, n, text
  <2>5. TokensOf(cut, 1) \subseteq Range(text)
    <3>1. \A k \in 1 .. Len(cut) : Range(cut[k].text) \subseteq Range(text)
      BY <2>3, <2>4
    <3> QED BY <3>1, Within
  <2>6. WarnsOf(cut, 1) = block.warns
    <3>1. 1 \in 1 .. Len(cut)
      BY <2>3, <2>4
    <3> QED BY <2>3, <3>1 DEF WarnsOf
  <2>7. ASSUME contract.canonical # "contextual"
        PROVE  TokensOf(cut, 1) = Range(text) /\ (Distinct(text) => Once(cut, 1))
    <3>1. Cuts(S, Len(text)) /\ Len(cut) = Cardinality(S)
          /\ \A k \in 1 .. Len(cut) : cut[k].text = CutAt(text, S)[k]
      BY <2>2, <2>3, <2>7
    <3> HIDE DEF S
    <3> QED BY <1>1, <2>3, <3>1, TextsOfBlocks, CutTokens
  <2> QED BY <2>1, <2>3, <2>5, <2>6, <2>7 DEF text
<1> QED BY <1>2, <1>3

-----------------------------------------------------------------------------
(* The text of an item *)

\* Tokens of this item only, and none twice.
OfItem(text, i) ==
    text \in Seq(Tokens) /\ Distinct(text) /\ \A k \in DOMAIN text : text[k].item = i

LEMMA TextOfItem ==
    ASSUME NEW marks \in Seq(Marks), NEW i \in Nat, NEW source \in {"own", "recovered"}
    PROVE  OfItem(TextOf(marks, i, source), i)
<1> DEFINE text == TextOf(marks, i, source)
<1>1. /\ Len(marks) \in Nat /\ DOMAIN marks = 1 .. Len(marks)
      /\ \A k \in DOMAIN marks : marks[k] \in Marks
  BY LenProperties
<1>2. \A k \in DOMAIN marks : Token(marks[k], i, k, source) \in Tokens
  BY <1>1 DEF Token, Tokens
<1>3. DOMAIN text = DOMAIN marks /\ \A k \in DOMAIN marks : text[k] = Token(marks[k], i, k, source)
  BY DEF TextOf
<1>4. text \in [1 .. Len(marks) -> Tokens]
  BY <1>1, <1>2 DEF TextOf
<1>5. text \in Seq(Tokens)
  BY <1>1, <1>4
<1>6. \A k \in DOMAIN marks : text[k].item = i /\ text[k].at = k
  BY <1>3 DEF Token
<1> HIDE DEF text
<1>7. Distinct(text)
  BY <1>3, <1>6 DEF Distinct
<1> QED BY <1>3, <1>5, <1>6, <1>7 DEF OfItem, text

LEMMA NothingOfItem == \A i : OfItem(<<>>, i)
<1>1. <<>> \in Seq(Tokens) /\ DOMAIN <<>> = {}
  OBVIOUS
<1> QED BY <1>1 DEF OfItem, Distinct

\* What is kept of an item, given what was recovered for it.
Kept(i, recovery) ==
    LET own == TextOf(items[i].marks, i, "own")
    IN  IF Allowed(items[i].type) THEN own ELSE TrustedText(own, recovery)

Warned(i, recovery) ==
    /\ ~Allowed(items[i].type)
    /\ items[i].type = "equation" \/ items[i].marks # <<>> \/ recovery # <<>>

LEMMA KeptOfItem ==
    ASSUME items \in Seq(Item), NEW i \in DOMAIN items, NEW recovery, OfItem(recovery, i)
    PROVE  OfItem(Kept(i, recovery), i)
<1>1. i \in Nat /\ items[i] \in Item
  BY LenProperties
<1>2. items[i].marks \in Seq(Marks)
  BY <1>1 DEF Item
<1>3. OfItem(TextOf(items[i].marks, i, "own"), i)
  BY <1>1, <1>2, TextOfItem
<1> DEFINE own == TextOf(items[i].marks, i, "own")
<1> HIDE DEF own
<1>4. OfItem(own, i)
  BY <1>3 DEF own
<1>5. Kept(i, recovery) \in {own, recovery, <<>>}
  BY DEF Kept, TrustedText, own
<1> QED BY <1>4, <1>5, NothingOfItem

\* An item becomes a block with what is kept of it, and its warning, or nothing
\* if nothing is kept and nothing is to be told.
LEMMA NormalizedProperties ==
    ASSUME items \in Seq(Item), NEW i \in DOMAIN items, NEW recovery, OfItem(recovery, i)
    PROVE  /\ NormalizedAs(i, recovery) \in Seq(Blocks)
           /\ TokensOf(NormalizedAs(i, recovery), 1) = Range(Kept(i, recovery))
           /\ Once(NormalizedAs(i, recovery), 1)
           /\ Warned(i, recovery) => i \in WarnsOf(NormalizedAs(i, recovery), 1)
<1> DEFINE item == items[i]
           own == TextOf(item.marks, i, "own")
           kept == Kept(i, recovery)
           warned == Block(item.type, item.page, TrustedText(own, recovery), {i})
           plain == Block(item.type, item.page, own, {})
           normal == NormalizedAs(i, recovery)
<1>1. i \in Nat /\ item \in Item
  BY LenProperties
<1>2. item.marks \in Seq(Marks) /\ item.type \in BlockTypes /\ item.page \in Nat
  BY <1>1 DEF Item
<1>3. OfItem(own, i) /\ OfItem(kept, i)
  BY <1>1, <1>2, TextOfItem, KeptOfItem
<1>4. own \in Seq(Tokens) /\ kept \in Seq(Tokens) /\ Distinct(own) /\ Distinct(kept)
  BY <1>3 DEF OfItem
<1>5. own = <<>> <=> item.marks = <<>>
  BY <1>2 DEF TextOf
<1>6. Range(<<>>) = {} /\ <<>> \in Seq(Blocks)
  BY DEF Range
<1>7. CASE Allowed(item.type)
  <2>1. kept = own /\ ~Warned(i, recovery)
    BY <1>7 DEF Kept, Warned
  <2>2. normal = IF own = <<>> THEN <<>> ELSE <<plain>>
    BY <1>7 DEF NormalizedAs
  <2>3. plain \in Blocks /\ plain.text = own
    BY <1>2, <1>4 DEF Block, Blocks
  <2>4. CASE own = <<>>
    BY <1>6, <2>1, <2>2, <2>4, EmptyTokens
  <2>5. CASE own # <<>>
    <3>1. normal = <<plain>>
      BY <2>2, <2>5
    <3> HIDE DEF plain, normal, kept, own
    <3> QED BY <1>4, <2>1, <2>3, <3>1, TextsOfBlocks, SingleTokens DEF normal, kept
  <2> QED BY <2>4, <2>5
<1>8. CASE ~Allowed(item.type)
  <2>1. kept = TrustedText(own, recovery)
    BY <1>8 DEF Kept
  <2>2. \/ normal = <<warned>>
        \/ normal = <<>> /\ own = <<>> /\ recovery = <<>> /\ item.type # "equation"
    BY <1>8 DEF NormalizedAs
  <2>3. warned \in Blocks /\ warned.text = kept /\ warned.warns = {i}
    BY <1>1, <1>2, <1>4, <2>1 DEF Block, Blocks
  <2>4. CASE normal = <<warned>>
    <3> HIDE DEF warned, normal, kept
    <3> QED BY <1>4, <2>3, <2>4, TextsOfBlocks, SingleTokens DEF normal, kept
  <2>5. CASE normal = <<>> /\ own = <<>> /\ recovery = <<>> /\ item.type # "equation"
    <3>1. kept = <<>>
      BY <2>1, <2>5 DEF TrustedText
    <3>2. ~Warned(i, recovery)
      BY <1>5, <2>5 DEF Warned
    <3> QED BY <1>6, <2>5, <3>1, <3>2, EmptyTokens
  <2> QED BY <2>2, <2>4, <2>5
<1> QED BY <1>7, <1>8

\* A recovery is text of the item, or none.
LEMMA RecoveryOfItem ==
    ASSUME items \in Seq(Item), NEW i \in DOMAIN items, visionCalls \in Seq(Nat),
           NEW recovery \in Recoveries(i)
    PROVE  OfItem(recovery.text, i) /\ recovery.calls \in Seq(Nat)
<1>1. i \in Nat /\ items[i] \in Item
  BY LenProperties
<1>2. items[i].page \in Nat
  BY <1>1 DEF Item
<1>3. Append(visionCalls, items[i].page) \in Seq(Nat)
  BY <1>2, AppendProperties
<1>4. \A marks \in RecoveredMarks : OfItem(TextOf(marks, i, "recovered"), i)
  BY <1>1, TextOfItem, ChunksAssumption
<1> DEFINE found == {TextOf(marks, i, "recovered") : marks \in RecoveredMarks}
<1>5. \A text \in found \cup {<<>>} : OfItem(text, i)
  BY <1>4, NothingOfItem
<1> HIDE DEF found
<1>6. /\ recovery.text \in found \cup {<<>>}
      /\ recovery.calls \in {visionCalls, Append(visionCalls, items[i].page)}
  BY DEF Recoveries, NoRecovery, found
<1> QED BY <1>3, <1>5, <1>6

-----------------------------------------------------------------------------
(* The invariant *)

\* What each phase has, and has not.
StageOK ==
    /\ phase \notin {"normalize", "stitch", "cut"} => made = <<>>
    /\ phase = "normalize" => blocks = <<>> /\ pos <= Len(items) + 1
    /\ phase = "next" /\ ~handled => blocks = <<>> /\ pos = 1 /\ left = ParserChunks
    /\ phase = "order" => pos = 1
    /\ phase \in {"order", "cut", "assemble"} => Canonical
    /\ phase = "group" => ~Canonical /\ pending = NoBlocks
    /\ phase = "assemble" /\ current.open => pending = NoBlocks
    /\ phase \in {"assemble", "group"} => pos <= Len(blocks) + 1
    /\ phase \notin {"assemble", "group"} => current = NoBlocks /\ pending = NoBlocks
    /\ phase \notin {"assemble", "group"} /\ ~handled => chunks = <<>>
    /\ ~current.open => current = NoBlocks
    /\ ~pending.open => pending = NoBlocks
    /\ handled => phase \in {"next", "done"} /\ pos = Len(blocks) + 1
    /\ phase = "done" => handled

\* The items that have been normalized, and the text that is kept of them.
Taken == IF ~handled /\ phase \in {"next", "normalize"} THEN 1 .. pos - 1 ELSE DOMAIN items
Due == UNION {Range(Expected(i)) : i \in Taken}

\* The places text and warnings can be.
InMade == TokensOf(made, 1)
InBlocks == TokensOf(blocks, pos)
InCurrent == Range(current.text)
InPending == Range(pending.text)
InChunks == TokensOf(chunks, 1)
Held == InMade \cup InBlocks \cup InCurrent \cup InPending \cup InChunks
Warnings ==
    WarnsOf(made, 1) \cup WarnsOf(blocks, pos) \cup current.warns \cup pending.warns
        \cup WarnsOf(chunks, 1)

\* No token is twice at one place, or at two of them.
Apart ==
    /\ Once(made, 1) /\ Once(blocks, 1) /\ Once(chunks, 1)
    /\ Distinct(current.text) /\ Distinct(pending.text)
    /\ InMade \cap InBlocks = {}
    /\ InBlocks \cap InCurrent = {} /\ InBlocks \cap InPending = {} /\ InBlocks \cap InChunks = {}
    /\ InCurrent \cap InPending = {} /\ InCurrent \cap InChunks = {}
    /\ InPending \cap InChunks = {}

RecoveredOK == \A i \in DOMAIN items : OfItem(recovered[i], i)

TextOK ==
    /\ Held \subseteq Due
    /\ contract.canonical # "contextual" => Due \subseteq Held /\ Apart

WarnOK == \A i \in Taken : MustWarn(i) => i \in Warnings

\* The text has one anchor of the blocks from one on up to here, the only anchor
\* of them, and nothing of any other block.
Filed(text, hi) ==
    \E lo, a \in 1 .. hi : lo <= a /\ \E j \in DOMAIN blocks[a].text :
        /\ blocks[a].text[j].mark = "anchor" /\ blocks[a].text[j] \in Range(text)
        /\ \A b \in lo .. hi : \A k \in DOMAIN blocks[b].text :
                blocks[b].text[k].mark = "anchor" => b = a /\ k = j
        /\ \A t \in Range(text) : \E b \in lo .. hi : t \in Range(blocks[b].text)

\* The text is of the blocks from one on up to here, which have no anchor.
Waits(text, hi) ==
    \E lo \in 1 .. hi + 1 :
        /\ \A b \in lo .. hi : \A k \in DOMAIN blocks[b].text : blocks[b].text[k].mark # "anchor"
        /\ \A t \in Range(text) : \E b \in lo .. hi : t \in Range(blocks[b].text)

\* The chunks that may answer are filed, under blocks up to here.
Answers(seq, hi) ==
    \A c \in DOMAIN seq : seq[c].kind = "unit" => \E h \in 1 .. hi : Filed(seq[c].text, h)

OneAnchor(block) ==
    \A j, k \in DOMAIN block.text :
        block.text[j].mark = "anchor" /\ block.text[k].mark = "anchor" => j = k

UnitOK ==
    contract.canonical = "primary" =>
        /\ phase = "cut" => \A b \in DOMAIN made : OneAnchor(made[b])
        /\ phase \in {"assemble", "next", "done"} => \A b \in DOMAIN blocks : OneAnchor(blocks[b])
        /\ phase = "assemble" =>
              (current.open => Filed(current.text, pos - 1)) /\ Waits(pending.text, pos - 1)
        /\ Answers(chunks, pos - 1)

SplitInv == SplitTypeOK /\ StageOK /\ RecoveredOK /\ TextOK /\ WarnOK /\ UnitOK

\* A step that moves text and warnings from place to place, and loses none.
Moves ==
    /\ Held' \subseteq Held
    /\ Warnings \subseteq Warnings'
    /\ contract.canonical # "contextual" => Held \subseteq Held' /\ (Apart => Apart')

LEMMA NoBlocksProperties ==
    /\ NoBlocks \in Units /\ ~NoBlocks.open /\ NoBlocks.text = <<>> /\ NoBlocks.warns = {}
    /\ NoBlocks.last = 0 /\ NoBlocks.body = FALSE
    /\ Range(NoBlocks.text) = {} /\ Distinct(NoBlocks.text)
<1>1. <<>> \in Seq(Tokens) /\ DOMAIN <<>> = {}
  OBVIOUS
<1> QED BY <1>1 DEF NoBlocks, Units, Range, Distinct

LEMMA ItemsType == SplitTypeOK => items \in Seq(Item)
BY ChunksAssumption DEF SplitTypeOK

\* What moves and is not lost goes on as the invariant says.
LEMMA MovesKeep ==
    ASSUME RecoveredOK, TextOK, WarnOK, Moves, UNCHANGED <<contract, items, recovered>>,
           Taken' = Taken
    PROVE  (RecoveredOK /\ TextOK /\ WarnOK)'
<1>1. contract' = contract /\ items' = items /\ recovered' = recovered
  OBVIOUS
<1>2. \A i : Expected(i)' = Expected(i) /\ (MustWarn(i)' <=> MustWarn(i))
  BY <1>1 DEF Expected, MustWarn, Allowed, TrustedText
<1>3. Due' = Due
  BY <1>2 DEF Due
<1>4. RecoveredOK'
  BY <1>1 DEF RecoveredOK
<1>5. TextOK'
  <2>1. Held' \subseteq Due'
    BY <1>3 DEF TextOK, Moves
  <2>2. contract'.canonical # "contextual" => Due' \subseteq Held' /\ Apart'
    BY <1>1, <1>3 DEF TextOK, Moves
  <2> QED BY <2>1, <2>2 DEF TextOK
<1>6. WarnOK'
  BY <1>2 DEF WarnOK, Moves
<1> QED BY <1>4, <1>5, <1>6

\* Nothing moves.
LEMMA StaysPut ==
    ASSUME UNCHANGED <<made, blocks, pos, current, pending, chunks>>
    PROVE  Moves
<1>1. /\ InMade' = InMade /\ InBlocks' = InBlocks /\ InCurrent' = InCurrent
      /\ InPending' = InPending /\ InChunks' = InChunks
  BY DEF InMade, InBlocks, InCurrent, InPending, InChunks
<1>2. Warnings' = Warnings
  BY DEF Warnings
<1>3. Apart => Apart'
  BY <1>1 DEF Apart
<1> QED BY <1>1, <1>2, <1>3 DEF Moves, Held

\* A loop goes on to its next block.
LEMMA NextBlock ==
    ASSUME blocks \in Seq(Blocks), pos \in 1 .. Len(blocks), blocks' = blocks, pos' = pos + 1
    PROVE  /\ blocks[pos] \in Blocks
           /\ InBlocks = Range(blocks[pos].text) \cup InBlocks'
           /\ WarnsOf(blocks, pos) = blocks[pos].warns \cup WarnsOf(blocks, pos)'
           /\ Once(blocks, 1) =>
                Distinct(blocks[pos].text) /\ Range(blocks[pos].text) \cap InBlocks' = {}
<1>1. TokensOf(blocks, pos + 1) = InBlocks' /\ WarnsOf(blocks, pos + 1) = WarnsOf(blocks, pos)'
  BY DEF InBlocks
<1>2. pos \in Nat \ {0}
  BY LenProperties
<1>3. Once(blocks, 1) => Once(blocks, pos)
  BY <1>2, OnceAfter
<1>4. /\ blocks[pos] \in Blocks
      /\ TokensOf(blocks, pos) = Range(blocks[pos].text) \cup TokensOf(blocks, pos + 1)
      /\ WarnsOf(blocks, pos) = blocks[pos].warns \cup WarnsOf(blocks, pos + 1)
      /\ Once(blocks, pos) =>
            /\ Distinct(blocks[pos].text)
            /\ Range(blocks[pos].text) \cap TokensOf(blocks, pos + 1) = {}
  BY TextsOfBlocks, TailTokens
<1> QED BY <1>1, <1>3, <1>4 DEF InBlocks

-----------------------------------------------------------------------------
(* The loops before the assembly *)

LEMMA ParserChunkStep ==
    ASSUME SplitInv, SkipParserChunk \/ TakeParserChunk \/ Finish
    PROVE  (SplitTypeOK /\ StageOK)' /\ Moves /\ Taken' = Taken
<1>1. /\ UNCHANGED <<made, blocks, pos, current, pending, chunks>>
      /\ UNCHANGED <<contract, items, recovered, visionCalls, handled>>
      /\ left \in Nat /\ phase = "next"
  BY DEF SkipParserChunk, TakeParserChunk, Finish, inputVars, normalVars, unitVars,
         SplitInv, SplitTypeOK
<1>2. Moves
  BY <1>1, StaysPut
<1>3. SplitTypeOK'
  BY <1>1 DEF SkipParserChunk, TakeParserChunk, Finish, SplitInv, SplitTypeOK
<1>4. ParserChunks # 0
  BY ChunksAssumption
<1>5. StageOK'
  <2>1. CASE SkipParserChunk
    BY <1>1, <2>1 DEF SkipParserChunk, SplitInv, StageOK, Canonical
  <2>2. CASE TakeParserChunk
    <3>1. pos <= Len(items) + 1
      <4>1. Len(items) \in Nat
        BY ItemsType, LenProperties DEF SplitInv
      <4> QED BY <1>1, <2>2, <4>1 DEF TakeParserChunk, SplitInv, StageOK
    <3> QED BY <1>1, <2>2, <3>1 DEF TakeParserChunk, SplitInv, StageOK, Canonical
  <2>3. CASE Finish
    BY <1>1, <1>4, <2>3 DEF Finish, SplitInv, StageOK, Canonical
  <2> QED BY <2>1, <2>2, <2>3
<1>6. Taken' = Taken
  BY <1>1, <1>4 DEF SkipParserChunk, TakeParserChunk, Finish, Taken, SplitInv, StageOK
<1> QED BY <1>2, <1>3, <1>5, <1>6

LEMMA LoopEndsStep ==
    ASSUME SplitInv, LoopEnds
    PROVE  (SplitTypeOK /\ StageOK)' /\ Moves /\ Taken' = Taken
<1>1. /\ SplitTypeOK /\ StageOK /\ blocks \in Seq(Blocks) /\ made \in Seq(Blocks)
      /\ pos \in Nat \ {0} /\ phase \in {"normalize", "stitch", "cut"}
      /\ items \in Seq(Item)
  BY ItemsType DEF SplitInv, SplitTypeOK, LoopEnds
<1>2. /\ blocks' = made /\ made' = <<>> /\ pos' = 1
      /\ UNCHANGED <<contract, items, left, handled, recovered, visionCalls, current, pending,
                     chunks>>
      /\ phase' = CASE phase = "normalize" -> "stitch"
                     [] phase = "stitch" -> IF Canonical THEN "order" ELSE "group"
                     [] phase = "cut" -> "assemble"
  BY DEF LoopEnds, inputVars, normalVars, unitVars
<1>3. /\ phase = "normalize" => phase' = "stitch"
      /\ phase = "stitch" => phase' = IF Canonical THEN "order" ELSE "group"
      /\ phase = "cut" => phase' = "assemble"
  BY <1>2
<1>4. pos > Len(blocks)
  <2>1. CASE phase = "normalize"
    BY <1>1, <2>1 DEF StageOK
  <2>2. CASE phase # "normalize"
    BY <2>2 DEF LoopEnds
  <2> QED BY <2>1, <2>2
<1>5. InBlocks = {} /\ WarnsOf(blocks, pos) = {}
  BY <1>1, <1>4, NoTokens DEF InBlocks
<1>6. InMade' = {} /\ WarnsOf(made', 1) = {} /\ Once(made', 1)
  BY <1>2, EmptyTokens DEF InMade
<1>7. InBlocks' = InMade /\ WarnsOf(blocks', pos') = WarnsOf(made, 1)
  BY <1>2 DEF InBlocks, InMade
<1>8. ~handled /\ current = NoBlocks /\ pending = NoBlocks /\ chunks = <<>>
  BY <1>1 DEF StageOK
<1>9. InCurrent' = InCurrent /\ InPending' = InPending /\ InChunks' = InChunks
  BY <1>2 DEF InCurrent, InPending, InChunks
<1>10. Moves
  <2>1. Held' = Held
    BY <1>5, <1>6, <1>7, <1>9 DEF Held
  <2>2. Warnings' = Warnings
    BY <1>2, <1>5, <1>6, <1>7 DEF Warnings
  <2>3. ASSUME Apart PROVE Apart'
    <3>1. Once(made', 1) /\ Once(blocks', 1) /\ Once(chunks', 1)
      BY <1>2, <1>6, <2>3 DEF Apart
    <3>2. Distinct(current'.text) /\ Distinct(pending'.text)
      BY <1>2, <2>3 DEF Apart
    <3>3. InCurrent' = {} /\ InPending' = {} /\ InChunks' = {}
      BY <1>8, <1>9, EmptyTokens, NoBlocksProperties DEF InCurrent, InPending, InChunks
    <3> QED BY <1>6, <3>1, <3>2, <3>3 DEF Apart
  <2> QED BY <2>1, <2>2, <2>3 DEF Moves
<1>11. SplitTypeOK'
  BY <1>1, <1>2, <1>3 DEF SplitTypeOK
<1>12. StageOK'
  <2>1. Len(made) \in Nat
    BY <1>1, LenProperties
  <2>2. Canonical' <=> Canonical
    BY <1>2 DEF Canonical
  <2> QED BY <1>1, <1>2, <1>3, <1>8, <2>1, <2>2 DEF StageOK
<1>13. Taken' = Taken
  <2>1. CASE phase = "normalize"
    <3>1. Taken = 1 .. pos - 1 /\ Taken' = DOMAIN items
      BY <1>2, <1>3, <1>8, <2>1 DEF Taken
    <3>2. pos = Len(items) + 1
      <4>1. Len(items) \in Nat
        BY <1>1, LenProperties
      <4>2. pos > Len(items) /\ pos <= Len(items) + 1
        BY <1>1, <2>1 DEF LoopEnds, StageOK
      <4> QED BY <1>1, <4>1, <4>2
    <3>3. DOMAIN items = 1 .. Len(items) /\ pos - 1 = Len(items)
      BY <1>1, <3>2, LenProperties
    <3> QED BY <3>1, <3>3
  <2>2. CASE phase # "normalize"
    BY <1>1, <1>2, <1>3, <2>2 DEF Taken
  <2> QED BY <2>1, <2>2
<1> QED BY <1>10, <1>11, <1>12, <1>13

\* One turn of a loop that makes more blocks, of the block it takes.
LEMMA MadeOfBlock ==
    ASSUME SplitInv, phase \in {"stitch", "cut"}, pos <= Len(blocks), pos' = pos + 1,
           made' \in Seq(Blocks),
           UNCHANGED <<contract, items, phase, left, handled, blocks, recovered, visionCalls,
                       current, pending, chunks>>,
           InMade' \subseteq InMade \cup Range(blocks[pos].text),
           WarnsOf(made', 1) = WarnsOf(made, 1) \cup blocks[pos].warns,
           contract.canonical # "contextual" =>
               /\ InMade' = InMade \cup Range(blocks[pos].text)
               /\ Once(made, 1) /\ Distinct(blocks[pos].text)
                  /\ InMade \cap Range(blocks[pos].text) = {} => Once(made', 1)
    PROVE  (SplitTypeOK /\ StageOK)' /\ Moves /\ Taken' = Taken
<1> DEFINE block == blocks[pos]
<1>1. /\ SplitTypeOK /\ StageOK /\ blocks \in Seq(Blocks) /\ pos \in Nat \ {0}
      /\ pos \in 1 .. Len(blocks)
  BY LenProperties DEF SplitInv, SplitTypeOK
<1>2. /\ InBlocks = Range(block.text) \cup InBlocks'
      /\ WarnsOf(blocks, pos) = block.warns \cup WarnsOf(blocks, pos)'
      /\ Once(blocks, 1) => Distinct(block.text) /\ Range(block.text) \cap InBlocks' = {}
  BY <1>1, NextBlock
<1>3. current = NoBlocks /\ pending = NoBlocks /\ chunks = <<>> /\ ~handled
  BY <1>1 DEF StageOK
<1>4. /\ InCurrent = {} /\ InPending = {} /\ InChunks = {}
      /\ InCurrent' = {} /\ InPending' = {} /\ InChunks' = {}
  BY <1>3, EmptyTokens, NoBlocksProperties DEF InCurrent, InPending, InChunks
<1>5. Moves
  <2>1. Held' \subseteq Held
    BY <1>2, <1>4 DEF Held
  <2>2. Warnings \subseteq Warnings'
    BY <1>2 DEF Warnings
  <2>3. ASSUME contract.canonical # "contextual" PROVE Held \subseteq Held' /\ (Apart => Apart')
    <3>1. InMade' = InMade \cup Range(block.text)
      BY <2>3
    <3>2. Held \subseteq Held'
      BY <1>2, <1>4, <3>1 DEF Held
    <3>3. ASSUME Apart PROVE Apart'
      <4>1. Once(made, 1) /\ Once(blocks, 1) /\ InMade \cap InBlocks = {}
        BY <3>3 DEF Apart
      <4>2. InMade' \cap InBlocks' = {} /\ InMade \cap Range(block.text) = {}
        BY <1>2, <3>1, <4>1
      <4>3. Once(made', 1)
        BY <1>2, <2>3, <4>1, <4>2
      <4>4. /\ Once(blocks', 1) /\ Once(chunks', 1)
            /\ Distinct(current'.text) /\ Distinct(pending'.text)
        BY <3>3 DEF Apart
      <4> QED BY <1>4, <4>2, <4>3, <4>4 DEF Apart
    <3> QED BY <3>2, <3>3
  <2> QED BY <2>1, <2>2, <2>3 DEF Moves
<1>6. SplitTypeOK'
  BY <1>1 DEF SplitTypeOK
<1>7. StageOK'
  <2>1. Canonical' <=> Canonical
    BY DEF Canonical
  <2> QED BY <1>1, <1>3, <2>1 DEF StageOK
<1>8. Taken' = Taken
  BY DEF Taken
<1> QED BY <1>5, <1>6, <1>7, <1>8

LEMMA StitchStep ==
    ASSUME SplitInv, Stitch
    PROVE  (SplitTypeOK /\ StageOK)' /\ Moves /\ Taken' = Taken
<1> DEFINE block == blocks[pos]
<1>1. /\ blocks \in Seq(Blocks) /\ made \in Seq(Blocks) /\ pos \in 1 .. Len(blocks)
  BY LenProperties DEF SplitInv, SplitTypeOK, Stitch
<1>2. block \in Blocks
  BY <1>1, ElementOfSeq
<1>3. block.text \in Seq(Tokens)
  BY <1>2, BlockShape
<1>4. /\ phase = "stitch" /\ pos <= Len(blocks) /\ pos' = pos + 1
      /\ UNCHANGED <<contract, items, phase, left, handled, blocks, recovered, visionCalls,
                     current, pending, chunks>>
  BY DEF Stitch, inputVars, normalVars, unitVars
<1>5. /\ made' \in Seq(Blocks)
      /\ InMade' = InMade \cup Range(block.text)
      /\ WarnsOf(made', 1) = WarnsOf(made, 1) \cup block.warns
      /\ Once(made, 1) /\ Distinct(block.text) /\ InMade \cap Range(block.text) = {}
            => Once(made', 1)
  <2>1. CASE made' = Append(made, block)
    BY <1>1, <1>2, <2>1, TextsOfBlocks, AppendTokens DEF InMade
  <2>2. CASE /\ made # <<>> /\ Stitches(Last(made), block)
             /\ made' = [made EXCEPT ![Len(made)] = Stitched(@, block)]
    <3> DEFINE last == made[Len(made)]
               grown == Stitched(last, block)
    <3>1. Len(made) \in 1 .. Len(made)
      BY <1>1, <2>2, EmptySeq
    <3>2. last \in Blocks
      BY <1>1, <3>1, ElementOfSeq
    <3>3. last.text \in Seq(Tokens)
      BY <3>2, BlockShape
    <3>4. last.text \o block.text \in Seq(Tokens)
      BY <1>3, <3>3, ConcatProperties
    <3>5. grown \in Blocks /\ grown.text = last.text \o block.text /\ grown.warns = last.warns
      BY <1>2, <3>2, <3>4 DEF Stitched, Blocks
    <3>6. block.warns = {}
      BY <2>2 DEF Stitches
    <3>7. made' = [made EXCEPT ![Len(made)] = grown]
      BY <2>2
    <3> HIDE DEF last, grown, block
    <3>8. grown.text = made[Len(made)].text \o block.text /\ grown.warns = made[Len(made)].warns
      BY <3>5 DEF last
    <3> DEFINE longer == [made EXCEPT ![Len(made)] = grown]
    <3>9. /\ longer \in Seq(Blocks)
          /\ TokensOf(longer, 1) = TokensOf(made, 1) \cup Range(block.text)
          /\ WarnsOf(longer, 1) = WarnsOf(made, 1)
          /\ Once(made, 1) /\ Distinct(block.text) /\ TokensOf(made, 1) \cap Range(block.text) = {}
                => Once(longer, 1)
      BY <1>1, <1>3, <2>2, <3>5, <3>8, TextsOfBlocks, GrowLast
    <3> HIDE DEF longer
    <3>10. made' = longer
      BY <3>7 DEF longer
    <3> QED BY <3>6, <3>9, <3>10 DEF InMade, block
  <2> QED BY <2>1, <2>2 DEF Stitch
<1> QED BY <1>4, <1>5, MadeOfBlock

LEMMA CutStep ==
    ASSUME SplitInv, Cut
    PROVE  (SplitTypeOK /\ StageOK)' /\ Moves /\ Taken' = Taken
<1> DEFINE block == blocks[pos]
<1>1. /\ blocks \in Seq(Blocks) /\ made \in Seq(Blocks) /\ pos \in 1 .. Len(blocks)
  BY LenProperties DEF SplitInv, SplitTypeOK, Cut
<1>2. block \in Blocks
  BY <1>1, ElementOfSeq
<1>3. /\ phase = "cut" /\ pos <= Len(blocks) /\ pos' = pos + 1 /\ made' = made \o Expand(block)
      /\ UNCHANGED <<contract, items, phase, left, handled, blocks, recovered, visionCalls,
                     current, pending, chunks>>
  BY DEF Cut, inputVars, normalVars, unitVars
<1>4. /\ Expand(block) \in Seq(Blocks)
      /\ TokensOf(Expand(block), 1) \subseteq Range(block.text)
      /\ WarnsOf(Expand(block), 1) = block.warns
      /\ contract.canonical # "contextual" =>
            /\ TokensOf(Expand(block), 1) = Range(block.text)
            /\ Distinct(block.text) => Once(Expand(block), 1)
  BY <1>2, ExpandProperties
<1>5. /\ made' \in Seq(Blocks)
      /\ InMade' = InMade \cup TokensOf(Expand(block), 1)
      /\ WarnsOf(made', 1) = WarnsOf(made, 1) \cup WarnsOf(Expand(block), 1)
      /\ Once(made, 1) /\ Once(Expand(block), 1) /\ InMade \cap TokensOf(Expand(block), 1) = {}
            => Once(made', 1)
  BY <1>1, <1>3, <1>4, TextsOfBlocks, ConcatTokens DEF InMade
<1> HIDE DEF block
<1>6. /\ InMade' \subseteq InMade \cup Range(block.text)
      /\ WarnsOf(made', 1) = WarnsOf(made, 1) \cup block.warns
      /\ contract.canonical # "contextual" =>
            /\ InMade' = InMade \cup Range(block.text)
            /\ Once(made, 1) /\ Distinct(block.text) /\ InMade \cap Range(block.text) = {}
                => Once(made', 1)
  BY <1>4, <1>5
<1> QED BY <1>3, <1>5, <1>6, MadeOfBlock DEF block

LEMMA OrderStep ==
    ASSUME SplitInv, Order
    PROVE  (SplitTypeOK /\ StageOK)' /\ Moves /\ Taken' = Taken
<1>1. /\ SplitTypeOK /\ StageOK /\ blocks \in Seq(Blocks) /\ phase = "order" /\ pos = 1
      /\ DOMAIN blocks = 1 .. Len(blocks)
  BY LenProperties DEF SplitInv, SplitTypeOK, StageOK, Order
<1>2. /\ phase' = "cut"
      /\ UNCHANGED <<contract, items, left, handled, pos, made, recovered, visionCalls,
                     current, pending, chunks>>
  BY DEF Order, inputVars, normalVars, unitVars
<1>3. PICK order \in ReadingOrders : blocks' = [k \in DOMAIN blocks |-> blocks[order[k]]]
  BY DEF Order
<1>4. /\ order \in [DOMAIN blocks -> DOMAIN blocks]
      /\ \A j, k \in DOMAIN blocks : order[j] = order[k] => j = k
      /\ \A k \in DOMAIN blocks : \E j \in DOMAIN blocks : order[j] = k
  <2>1. CASE order = [k \in DOMAIN blocks |-> k]
    BY <2>1
  <2>2. CASE order \in Bijection(DOMAIN blocks, DOMAIN blocks)
    BY <2>2 DEF Bijection, Injection, Surjection, IsInjective
  <2> QED BY <2>1, <2>2 DEF ReadingOrders
<1>5. /\ blocks' \in Seq(Blocks) /\ Len(blocks') = Len(blocks)
      /\ TokensOf(blocks', 1) = TokensOf(blocks, 1) /\ WarnsOf(blocks', 1) = WarnsOf(blocks, 1)
      /\ Once(blocks, 1) => Once(blocks', 1)
  <2> DEFINE ordered == [k \in DOMAIN blocks |-> blocks[order[k]]]
  <2>1. /\ ordered \in Seq(Blocks) /\ Len(ordered) = Len(blocks)
        /\ TokensOf(ordered, 1) = TokensOf(blocks, 1) /\ WarnsOf(ordered, 1) = WarnsOf(blocks, 1)
        /\ Once(blocks, 1) => Once(ordered, 1)
    <3>1. ordered \in [1 .. Len(blocks) -> Blocks]
      BY <1>1, <1>4, TextsOfBlocks
    <3>2. ordered \in Seq(Blocks) /\ Len(ordered) = Len(blocks)
      BY <1>1, <3>1, LenProperties
    <3>3. /\ \A k \in 1 .. Len(blocks) :
                order[k] \in 1 .. Len(blocks) /\ ordered[k] = blocks[order[k]]
          /\ \A j, k \in 1 .. Len(blocks) : order[j] = order[k] => j = k
          /\ \A k \in 1 .. Len(blocks) : \E j \in 1 .. Len(blocks) : order[j] = k
      BY <1>1, <1>4
    <3> HIDE DEF ordered
    <3>4. blocks \in Seq(Blocks)
      BY <1>1
    <3> QED BY ONLY <3>2, <3>3, <3>4, OrderTokens
  <2>2. blocks' = ordered
    BY <1>3
  <2> HIDE DEF ordered
  <2> QED BY <2>1, <2>2
<1>6. /\ InMade' = InMade /\ InBlocks' = InBlocks /\ InCurrent' = InCurrent
      /\ InPending' = InPending /\ InChunks' = InChunks
  BY <1>1, <1>2, <1>5 DEF InMade, InBlocks, InCurrent, InPending, InChunks
<1>7. Warnings' = Warnings
  BY <1>1, <1>2, <1>5 DEF Warnings
<1>8. Apart => Apart'
  BY <1>2, <1>5, <1>6 DEF Apart
<1>9. Moves
  BY <1>6, <1>7, <1>8 DEF Moves, Held
<1>10. SplitTypeOK'
  BY <1>1, <1>2, <1>5 DEF SplitTypeOK
<1>11. StageOK'
  <2>1. Canonical' <=> Canonical
    BY <1>2 DEF Canonical
  <2> QED BY <1>1, <1>2, <2>1 DEF StageOK
<1>12. Taken' = Taken
  BY <1>1, <1>2 DEF Taken
<1> QED BY <1>9, <1>10, <1>11, <1>12

\* The text of an item, its own or recovered, is not text of the items before.
LEMMA NormalizeItemStep ==
    ASSUME SplitInv, NormalizeItem
    PROVE  (SplitTypeOK /\ StageOK /\ RecoveredOK /\ TextOK /\ WarnOK)'
<1>1. /\ SplitTypeOK /\ StageOK /\ RecoveredOK /\ TextOK /\ WarnOK
      /\ items \in Seq(Item) /\ Len(items) \in Nat /\ DOMAIN items = 1 .. Len(items)
      /\ made \in Seq(Blocks) /\ visionCalls \in Seq(Nat) /\ phase = "normalize"
      /\ pos \in Nat \ {0} /\ pos \in DOMAIN items
      /\ recovered \in [DOMAIN items -> Seq(Tokens)]
  <2>1. /\ SplitTypeOK /\ StageOK /\ RecoveredOK /\ TextOK /\ WarnOK /\ phase = "normalize"
        /\ items \in Seq(Item) /\ pos <= Len(items)
    BY ItemsType DEF SplitInv, NormalizeItem
  <2>2. Len(items) \in Nat /\ DOMAIN items = 1 .. Len(items)
    BY <2>1, LenProperties
  <2>3. /\ made \in Seq(Blocks) /\ visionCalls \in Seq(Nat) /\ pos \in Nat \ {0}
        /\ recovered \in [DOMAIN items -> Seq(Tokens)]
    BY <2>1 DEF SplitTypeOK
  <2> QED BY <2>1, <2>2, <2>3
<1>2. PICK recovery \in Recoveries(pos) :
        /\ recovered' = [recovered EXCEPT ![pos] = recovery.text]
        /\ visionCalls' = recovery.calls
        /\ made' = made \o NormalizedAs(pos, recovery.text)
  BY DEF NormalizeItem
<1>3. /\ pos' = pos + 1
      /\ UNCHANGED <<contract, items, phase, left, handled, blocks, current, pending, chunks>>
  BY DEF NormalizeItem, inputVars, unitVars
<1> DEFINE text == recovery.text
           normal == NormalizedAs(pos, text)
<1>4. OfItem(text, pos) /\ recovery.calls \in Seq(Nat)
  BY <1>1, RecoveryOfItem
<1> HIDE DEF text
<1>5. /\ normal \in Seq(Blocks)
      /\ TokensOf(normal, 1) = Range(Kept(pos, text)) /\ Once(normal, 1)
      /\ Warned(pos, text) => pos \in WarnsOf(normal, 1)
  BY <1>1, <1>4, NormalizedProperties
<1> HIDE DEF normal
<1>6. /\ made' \in Seq(Blocks)
      /\ InMade' = InMade \cup Range(Kept(pos, text))
      /\ WarnsOf(made', 1) = WarnsOf(made, 1) \cup WarnsOf(normal, 1)
      /\ Once(made, 1) /\ InMade \cap Range(Kept(pos, text)) = {} => Once(made', 1)
  BY <1>1, <1>2, <1>5, TextsOfBlocks, ConcatTokens DEF InMade, normal, text
<1>7. /\ recovered' \in [DOMAIN items -> Seq(Tokens)] /\ recovered'[pos] = text
      /\ \A i \in DOMAIN items : i # pos => recovered'[i] = recovered[i]
  BY <1>1, <1>2, <1>4 DEF OfItem, text
<1>8. /\ blocks = <<>> /\ current = NoBlocks /\ pending = NoBlocks /\ chunks = <<>>
      /\ ~handled /\ pos <= Len(items)
  BY <1>1 DEF StageOK
<1>9. SplitTypeOK'
  BY <1>1, <1>2, <1>3, <1>4, <1>6, <1>7 DEF SplitTypeOK
<1>10. StageOK'
  <2>1. Canonical' <=> Canonical
    BY <1>3 DEF Canonical
  <2> QED BY <1>1, <1>3, <1>8, <2>1 DEF StageOK
<1>11. RecoveredOK'
  BY <1>1, <1>3, <1>4, <1>7 DEF RecoveredOK
<1>12. Taken = 1 .. pos - 1 /\ Taken' = 1 .. pos
  BY <1>1, <1>3, <1>8 DEF Taken
<1>13. Taken' = Taken \cup {pos} /\ pos \notin Taken /\ Taken \subseteq DOMAIN items
  BY <1>1, <1>12
<1>14. /\ \A i \in Taken : Expected(i)' = Expected(i) /\ (MustWarn(i)' <=> MustWarn(i))
       /\ \A i \in {pos} :
            Expected(i)' = Kept(pos, text) /\ (MustWarn(i)' <=> Warned(pos, text))
  <2>1. \A i \in Taken : i # pos /\ recovered'[i] = recovered[i]
    BY <1>7, <1>13
  <2>2. \A i \in Taken : Expected(i)' = Expected(i) /\ (MustWarn(i)' <=> MustWarn(i))
    BY <1>3, <2>1 DEF Expected, MustWarn, Allowed, TrustedText
  <2>3. \A i \in {pos} :
            Expected(i)' = Kept(pos, text) /\ (MustWarn(i)' <=> Warned(pos, text))
    BY <1>3, <1>7 DEF Expected, MustWarn, Allowed, TrustedText, Kept, Warned
  <2> QED BY <2>2, <2>3
<1>15. Due' = Due \cup Range(Kept(pos, text))
  BY <1>13, <1>14 DEF Due
<1>16. Due \cap Range(Kept(pos, text)) = {}
  <2>1. OfItem(Kept(pos, text), pos)
    BY <1>1, <1>4, KeptOfItem
  <2>2. ASSUME NEW i \in Taken PROVE OfItem(Expected(i), i)
    <3>1. i \in DOMAIN items /\ OfItem(recovered[i], i)
      BY <1>1, <1>13 DEF RecoveredOK
    <3>2. Expected(i) = Kept(i, recovered[i])
      BY DEF Expected, Kept
    <3> QED BY <1>1, <3>1, <3>2, KeptOfItem
  <2>3. \A i \in Taken : \A t \in Range(Expected(i)) : t.item = i
    BY <2>2 DEF OfItem, Range
  <2>4. \A t \in Range(Kept(pos, text)) : t.item = pos
    BY <2>1 DEF OfItem, Range
  <2> QED BY <1>13, <2>3, <2>4 DEF Due
<1>17. /\ InBlocks = {} /\ InCurrent = {} /\ InPending = {} /\ InChunks = {}
       /\ InBlocks' = {} /\ InCurrent' = {} /\ InPending' = {} /\ InChunks' = {}
       /\ WarnsOf(blocks, pos) = {} /\ WarnsOf(blocks', pos') = {}
  <2>1. /\ <<>> \in Seq(Blocks) /\ Len(<<>>) = 0 /\ pos \in Nat /\ pos > 0
        /\ pos + 1 \in Nat /\ pos + 1 > 0
    BY <1>1
  <2>2. /\ TokensOf(<<>>, pos) = {} /\ WarnsOf(<<>>, pos) = {}
        /\ TokensOf(<<>>, pos + 1) = {} /\ WarnsOf(<<>>, pos + 1) = {}
    BY <2>1, NoTokens
  <2>3. InBlocks = {} /\ InBlocks' = {} /\ WarnsOf(blocks, pos) = {} /\ WarnsOf(blocks', pos') = {}
    BY <1>3, <1>8, <2>2 DEF InBlocks
  <2> QED BY <1>3, <1>8, <2>3, EmptyTokens, NoBlocksProperties DEF InCurrent, InPending, InChunks
<1>18. TextOK'
  <2>1. Held' = Held \cup Range(Kept(pos, text))
    BY <1>6, <1>17 DEF Held
  <2>2. Held \subseteq Due /\ (contract.canonical # "contextual" => Due \subseteq Held /\ Apart)
    BY <1>1 DEF TextOK
  <2>3. ASSUME Apart PROVE Apart'
    <3>1. Once(made, 1) /\ Once(blocks, 1) /\ Once(chunks, 1)
          /\ Distinct(current.text) /\ Distinct(pending.text)
      BY <2>3 DEF Apart
    <3>2. Once(made', 1)
      BY <1>6, <1>16, <2>2, <3>1 DEF Held
    <3> QED BY <1>3, <1>17, <3>1, <3>2 DEF Apart
  <2> QED BY <1>3, <1>15, <2>1, <2>2, <2>3 DEF TextOK
<1>19. WarnOK'
  <2>1. Warnings' = Warnings \cup WarnsOf(normal, 1)
    BY <1>3, <1>6, <1>17 DEF Warnings
  <2> SUFFICES ASSUME NEW i \in Taken', MustWarn(i)' PROVE i \in Warnings'
    BY DEF WarnOK
  <2>2. CASE i \in Taken
    BY <1>1, <1>14, <2>1, <2>2 DEF WarnOK
  <2>3. CASE i = pos
    BY <1>5, <1>14, <2>1, <2>3
  <2> QED BY <1>13, <2>2, <2>3
<1> QED BY <1>9, <1>10, <1>11, <1>18, <1>19

-----------------------------------------------------------------------------
(* Units and groups *)

\* These chunks have what the unit had, and each token of it once.
Out(f, unit) ==
    /\ f \in Seq(Chunks)
    /\ TokensOf(f, 1) = Range(unit.text) /\ WarnsOf(f, 1) = unit.warns
    /\ Distinct(unit.text) => Once(f, 1)

LEMMA UnitShape ==
    ASSUME NEW unit \in Units
    PROVE  /\ unit.text \in Seq(Tokens) /\ unit.warns \in SUBSET Nat /\ unit.last \in Nat
           /\ unit.open \in BOOLEAN /\ unit.body \in BOOLEAN
BY DEF Units

LEMMA ChunkProperties ==
    ASSUME NEW unit, unit.text \in Seq(Tokens), unit.warns \in SUBSET Nat,
           NEW kind \in {"unit", "provenance", "part", "quarantined"}
    PROVE  /\ Chunk(kind, unit) \in Chunks /\ Chunk(kind, unit).text = unit.text
           /\ Chunk(kind, unit).warns = unit.warns /\ Chunk(kind, unit).kind = kind
           /\ Out(<<Chunk(kind, unit)>>, unit)
<1> DEFINE chunk == Chunk(kind, unit)
<1>1. chunk \in Chunks /\ chunk.text = unit.text /\ chunk.warns = unit.warns /\ chunk.kind = kind
  BY DEF Chunk, Chunks
<1> HIDE DEF chunk
<1>2. Out(<<chunk>>, unit)
  BY <1>1, TextsOfChunks, SingleTokens DEF Out
<1> QED BY <1>1, <1>2 DEF chunk

\* What a unit ends as, answering or not, open or not.
LEMMA FinishedProperties ==
    ASSUME NEW unit \in Units, ~unit.open => unit = NoBlocks
    PROVE  Out(Finished(unit), unit) /\ Out(Provenance(unit), unit)
<1>1. unit.text \in Seq(Tokens) /\ unit.warns \in SUBSET Nat
  BY UnitShape
<1>2. CASE unit.open
  <2>1. \/ Finished(unit) = <<Chunk("unit", unit)>>
        \/ Finished(unit) = <<Chunk("provenance", unit)>>
    BY <1>2 DEF Finished
  <2>2. Provenance(unit) = <<Chunk("provenance", unit)>>
    BY <1>2 DEF Provenance
  <2> QED BY <1>1, <2>1, <2>2, ChunkProperties
<1>3. CASE ~unit.open
  <2>1. Finished(unit) = <<>> /\ Provenance(unit) = <<>> /\ unit = NoBlocks
    BY <1>3 DEF Finished, Provenance
  <2>2. <<>> \in Seq(Chunks)
    OBVIOUS
  <2> QED BY <2>1, <2>2, EmptyTokens, NoBlocksProperties DEF Out
<1> QED BY <1>2, <1>3

LEMMA FollowedProperties ==
    ASSUME NEW unit \in Units, NEW block \in Blocks
    PROVE  /\ Followed(unit, block) \in Units /\ Followed(unit, block).open
           /\ Followed(unit, block).text = unit.text \o block.text
           /\ Followed(unit, block).warns = unit.warns \cup block.warns
           /\ Range(Followed(unit, block).text) = Range(unit.text) \cup Range(block.text)
           /\ Distinct(unit.text) /\ Distinct(block.text)
              /\ Range(unit.text) \cap Range(block.text) = {}
                  => Distinct(Followed(unit, block).text)
<1>1. unit.text \in Seq(Tokens) /\ unit.warns \in SUBSET Nat /\ unit.body \in BOOLEAN
  BY UnitShape
<1>2. block.text \in Seq(Tokens) /\ block.warns \in SUBSET Nat /\ block.page \in Nat
  BY BlockShape
<1> DEFINE text == unit.text \o block.text
<1>3. /\ text \in Seq(Tokens) /\ Range(text) = Range(unit.text) \cup Range(block.text)
      /\ Distinct(unit.text) /\ Distinct(block.text) /\ Range(unit.text) \cap Range(block.text) = {}
            => Distinct(text)
  BY <1>1, <1>2, ConcatTexts
<1>4. /\ Followed(unit, block).text = text /\ Followed(unit, block).open
      /\ Followed(unit, block).warns = unit.warns \cup block.warns
  BY DEF Followed
<1> HIDE DEF text
<1>5. Followed(unit, block) \in Units
  <2>1. Followed(unit, block) =
          [open |-> TRUE, text |-> text, warns |-> unit.warns \cup block.warns,
           last |-> block.page, body |-> unit.body \/ block.text # <<>>]
    BY DEF Followed, text
  <2>2. (unit.body \/ block.text # <<>>) \in BOOLEAN
    OBVIOUS
  <2> QED BY <1>1, <1>2, <1>3, <2>1, <2>2 DEF Units
<1> QED BY <1>3, <1>4, <1>5 DEF text

LEMMA AloneProperties ==
    ASSUME NEW block \in Blocks
    PROVE  /\ Alone(block) \in Units /\ Alone(block).open
           /\ Alone(block).text = block.text /\ Alone(block).warns = block.warns
<1>1. block.text \in Seq(Tokens)
  BY BlockShape
<1>2. <<>> \o block.text = block.text
  BY <1>1, ConcatEmptySeq
<1>3. /\ Alone(block) \in Units /\ Alone(block).open
      /\ Alone(block).text = NoBlocks.text \o block.text
      /\ Alone(block).warns = NoBlocks.warns \cup block.warns
  BY NoBlocksProperties, FollowedProperties DEF Alone
<1> QED BY <1>2, <1>3, NoBlocksProperties

\* The unit a reference opens has the text of its block before what waited.
LEMMA OpenedProperties ==
    ASSUME NEW block \in Blocks, pending \in Units
    PROVE  /\ Opened(block) \in Units /\ Opened(block).open
           /\ Opened(block).text =
                IF Attached(block) THEN block.text \o pending.text ELSE block.text
           /\ Opened(block).warns =
                IF Attached(block) THEN block.warns \cup pending.warns ELSE block.warns
<1> DEFINE own == [Alone(block) EXCEPT !.body = ~IsHeader(block)]
           joined == [pending EXCEPT !.text = own.text \o @, !.warns = own.warns \cup @,
                                     !.body = TRUE]
<1>1. block.text \in Seq(Tokens) /\ block.warns \in SUBSET Nat
  BY BlockShape
<1>2. /\ Alone(block) \in Units /\ Alone(block).open
      /\ Alone(block).text = block.text /\ Alone(block).warns = block.warns
  BY AloneProperties
<1>3. own \in Units /\ own.open /\ own.text = block.text /\ own.warns = block.warns
  <2>1. (~IsHeader(block)) \in BOOLEAN
    OBVIOUS
  <2> QED BY <1>2, <2>1 DEF Units
<1> HIDE DEF own
<1>4. CASE ~Attached(block)
  <2>1. Opened(block) = own
    BY <1>4 DEF Opened, own
  <2> QED BY <1>3, <1>4, <2>1
<1>5. CASE Attached(block)
  <2>1. Opened(block) = joined
    BY <1>5 DEF Opened, own
  <2>2. pending.text \in Seq(Tokens) /\ pending.warns \in SUBSET Nat /\ pending.open
    BY <1>5, UnitShape DEF Attached
  <2>3. own.text \o pending.text \in Seq(Tokens)
    BY <1>1, <1>3, <2>2, ConcatProperties
  <2>4. joined \in Units /\ joined.open /\ joined.text = own.text \o pending.text
        /\ joined.warns = own.warns \cup pending.warns
    BY <1>1, <1>3, <2>2, <2>3 DEF Units
  <2> QED BY <1>3, <1>5, <2>1, <2>4
<1> QED BY <1>4, <1>5

Parted(A, B, C) == A \cap B = {} /\ A \cap C = {} /\ B \cap C = {}

\* A step that takes this text and these warnings from the blocks, and passes
\* them, the open unit and what waits on to chunks, unit and waiting blocks.
LEMMA PassedOn ==
    ASSUME SplitInv, phase \in {"assemble", "group"},
           UNCHANGED <<contract, blocks, made>>, current' \in Units, pending' \in Units,
           NEW text, NEW warns,
           InBlocks = Range(text) \cup InBlocks',
           WarnsOf(blocks, pos) = warns \cup WarnsOf(blocks, pos)',
           Once(blocks, 1) => Distinct(text) /\ Range(text) \cap InBlocks' = {},
           NEW out \in Seq(Chunks), chunks' = chunks \o out,
           TokensOf(out, 1) \cup InCurrent' \cup InPending'
                = InCurrent \cup InPending \cup Range(text),
           current.warns \cup pending.warns \cup warns
                \subseteq WarnsOf(out, 1) \cup current'.warns \cup pending'.warns,
           Distinct(current.text) /\ Distinct(pending.text) /\ Distinct(text)
           /\ Parted(InCurrent, InPending, Range(text)) =>
                /\ Once(out, 1) /\ Distinct(current'.text) /\ Distinct(pending'.text)
                /\ Parted(TokensOf(out, 1), InCurrent', InPending')
    PROVE  chunks' \in Seq(Chunks) /\ Moves
<1>1. chunks \in Seq(Chunks) /\ made = <<>>
  BY DEF SplitInv, SplitTypeOK, StageOK
<1>2. /\ chunks' \in Seq(Chunks)
      /\ InChunks' = InChunks \cup TokensOf(out, 1)
      /\ WarnsOf(chunks', 1) = WarnsOf(chunks, 1) \cup WarnsOf(out, 1)
      /\ Once(chunks, 1) /\ Once(out, 1) /\ InChunks \cap TokensOf(out, 1) = {} => Once(chunks', 1)
  BY <1>1, TextsOfChunks, ConcatTokens DEF InChunks
<1>3. InMade = {} /\ InMade' = {} /\ Once(made', 1) /\ WarnsOf(made, 1) = WarnsOf(made', 1)
  BY <1>1, EmptyTokens DEF InMade
<1>4. Held' = Held
  BY <1>2, <1>3 DEF Held
<1>5. Warnings \subseteq Warnings'
  BY <1>2, <1>3 DEF Warnings
<1>6. ASSUME Apart PROVE Apart'
  <2>1. /\ Once(blocks, 1) /\ Once(chunks, 1) /\ Distinct(current.text) /\ Distinct(pending.text)
        /\ InBlocks \cap InCurrent = {} /\ InBlocks \cap InPending = {}
        /\ InBlocks \cap InChunks = {} /\ InCurrent \cap InPending = {}
        /\ InCurrent \cap InChunks = {} /\ InPending \cap InChunks = {}
    BY <1>6 DEF Apart
  <2>2. Distinct(text) /\ Range(text) \cap InBlocks' = {}
    BY <2>1
  <2>3. Parted(InCurrent, InPending, Range(text))
    BY <2>1 DEF Parted
  <2>4. /\ Once(out, 1) /\ Distinct(current'.text) /\ Distinct(pending'.text)
        /\ Parted(TokensOf(out, 1), InCurrent', InPending')
    BY <2>1, <2>2, <2>3
  <2>5. TokensOf(out, 1) \subseteq InCurrent \cup InPending \cup Range(text)
        /\ InCurrent' \subseteq InCurrent \cup InPending \cup Range(text)
        /\ InPending' \subseteq InCurrent \cup InPending \cup Range(text)
    OBVIOUS
  <2>6. InChunks \cap TokensOf(out, 1) = {} /\ InBlocks' \cap TokensOf(out, 1) = {}
        /\ InBlocks' \cap InCurrent' = {} /\ InBlocks' \cap InPending' = {}
        /\ InChunks \cap InCurrent' = {} /\ InChunks \cap InPending' = {}
        /\ InBlocks' \cap InChunks = {}
    BY <2>1, <2>2, <2>5
  <2>7. Once(chunks', 1) /\ Once(blocks', 1)
    BY <1>2, <2>1, <2>4, <2>6
  <2>8. /\ InBlocks' \cap InChunks' = {} /\ InCurrent' \cap InChunks' = {}
        /\ InPending' \cap InChunks' = {} /\ InCurrent' \cap InPending' = {}
    BY <1>2, <2>4, <2>6 DEF Parted
  <2> QED BY <1>3, <2>4, <2>6, <2>7, <2>8 DEF Apart
<1> QED BY <1>2, <1>4, <1>5, <1>6 DEF Moves

\* What a step of the assembly has to do with.
LEMMA AssemblingProperties ==
    ASSUME SplitInv, NEW block, Assembling(block)
    PROVE  /\ phase = "assemble" /\ pos \in 1 .. Len(blocks) /\ pos \in Nat /\ pos' = pos + 1
           /\ block = blocks[pos] /\ block \in Blocks /\ block.text \in Seq(Tokens)
           /\ UNCHANGED <<contract, items, phase, left, handled, blocks, made, recovered,
                          visionCalls>>
           /\ current \in Units /\ pending \in Units /\ chunks \in Seq(Chunks)
           /\ (~current.open => current = NoBlocks) /\ (~pending.open => pending = NoBlocks)
           /\ (current.open => pending = NoBlocks)
           /\ InBlocks = Range(block.text) \cup InBlocks'
           /\ WarnsOf(blocks, pos) = block.warns \cup WarnsOf(blocks, pos)'
           /\ Once(blocks, 1) => Distinct(block.text) /\ Range(block.text) \cap InBlocks' = {}
<1>1. /\ phase = "assemble" /\ pos <= Len(blocks) /\ block = blocks[pos] /\ pos' = pos + 1
      /\ UNCHANGED <<contract, items, phase, left, handled, blocks, made, recovered, visionCalls>>
  BY DEF Assembling, inputVars, normalVars
<1>2. /\ blocks \in Seq(Blocks) /\ pos \in Nat \ {0}
      /\ current \in Units /\ pending \in Units /\ chunks \in Seq(Chunks)
      /\ (~current.open => current = NoBlocks) /\ (~pending.open => pending = NoBlocks)
      /\ (current.open => pending = NoBlocks)
  BY <1>1 DEF SplitInv, SplitTypeOK, StageOK
<1>3. pos \in 1 .. Len(blocks)
  BY <1>1, <1>2, LenProperties
<1>4. /\ block \in Blocks
      /\ InBlocks = Range(block.text) \cup InBlocks'
      /\ WarnsOf(blocks, pos) = block.warns \cup WarnsOf(blocks, pos)'
      /\ Once(blocks, 1) => Distinct(block.text) /\ Range(block.text) \cap InBlocks' = {}
  BY <1>1, <1>2, <1>3, NextBlock
<1>5. block.text \in Seq(Tokens)
  BY <1>4, BlockShape
<1> QED BY <1>1, <1>2, <1>3, <1>4, <1>5

LEMMA AssembledStage ==
    ASSUME SplitInv, NEW block, Assembling(block), current' \in Units, pending' \in Units,
           chunks' \in Seq(Chunks), ~current'.open => current' = NoBlocks,
           ~pending'.open => pending' = NoBlocks, current'.open => pending' = NoBlocks
    PROVE  (SplitTypeOK /\ StageOK)' /\ Taken' = Taken
<1>1. /\ phase = "assemble" /\ pos \in 1 .. Len(blocks) /\ pos \in Nat /\ pos' = pos + 1
      /\ UNCHANGED <<contract, items, phase, left, handled, blocks, made, recovered, visionCalls>>
      /\ SplitTypeOK /\ StageOK
  BY AssemblingProperties DEF SplitInv
<1>2. SplitTypeOK'
  BY <1>1 DEF SplitTypeOK
<1>3. StageOK'
  <2>1. Canonical' <=> Canonical
    BY <1>1 DEF Canonical
  <2>2. pos' <= Len(blocks') + 1
    <3>1. blocks \in Seq(Blocks)
      BY <1>1 DEF SplitTypeOK
    <3>2. Len(blocks) \in Nat
      BY <3>1, LenProperties
    <3> QED BY <1>1, <3>2
  <2> QED BY <1>1, <2>1, <2>2 DEF StageOK
<1>4. Taken' = Taken
  BY <1>1 DEF Taken
<1> QED BY <1>2, <1>3, <1>4

\* Two outputs, one after the other.
LEMMA OutBoth ==
    ASSUME NEW f \in Seq(Chunks), NEW g \in Seq(Chunks)
    PROVE  /\ f \o g \in Seq(Chunks)
           /\ TokensOf(f \o g, 1) = TokensOf(f, 1) \cup TokensOf(g, 1)
           /\ WarnsOf(f \o g, 1) = WarnsOf(f, 1) \cup WarnsOf(g, 1)
           /\ Once(f, 1) /\ Once(g, 1) /\ TokensOf(f, 1) \cap TokensOf(g, 1) = {} => Once(f \o g, 1)
           /\ \A all \in Seq(Chunks) : (all \o f) \o g = all \o (f \o g)
<1>1. \A all \in Seq(Chunks) : (all \o f) \o g = all \o (f \o g)
  BY ConcatAssociative
<1> QED BY <1>1, TextsOfChunks, ConcatTokens

LEMMA OutNothing ==
    /\ <<>> \in Seq(Chunks) /\ TokensOf(<<>>, 1) = {} /\ WarnsOf(<<>>, 1) = {} /\ Once(<<>>, 1)
    /\ \A all \in Seq(Chunks) : all \o <<>> = all
<1>1. <<>> \in Seq(Chunks)
  OBVIOUS
<1> QED BY <1>1, EmptyTokens, ConcatEmptySeq

LEMMA StartUnitStep ==
    ASSUME SplitInv, NEW block, StartUnit(block)
    PROVE  (SplitTypeOK /\ StageOK)' /\ Moves /\ Taken' = Taken
<1>1. Assembling(block)
  BY DEF StartUnit
<1>2. /\ phase = "assemble" /\ block \in Blocks /\ block.text \in Seq(Tokens)
      /\ UNCHANGED <<contract, blocks, made>>
      /\ current \in Units /\ pending \in Units /\ chunks \in Seq(Chunks)
      /\ (~current.open => current = NoBlocks) /\ (~pending.open => pending = NoBlocks)
      /\ InBlocks = Range(block.text) \cup InBlocks'
      /\ WarnsOf(blocks, pos) = block.warns \cup WarnsOf(blocks, pos)'
      /\ Once(blocks, 1) => Distinct(block.text) /\ Range(block.text) \cap InBlocks' = {}
  BY <1>1, AssemblingProperties
<1> DEFINE f == Finished(current)
           g == IF Attached(block) THEN <<>> ELSE Provenance(pending)
           out == f \o g
<1>3. current' = Opened(block) /\ pending' = NoBlocks /\ chunks' = (chunks \o f) \o g
  BY DEF StartUnit
<1>4. Out(f, current) /\ Out(Provenance(pending), pending)
  BY <1>2, FinishedProperties
<1>5. /\ Opened(block) \in Units /\ Opened(block).open
      /\ Opened(block).text = IF Attached(block) THEN block.text \o pending.text ELSE block.text
      /\ Opened(block).warns =
          IF Attached(block) THEN block.warns \cup pending.warns ELSE block.warns
  BY <1>2, OpenedProperties
<1>6. /\ g \in Seq(Chunks)
      /\ TokensOf(g, 1) = IF Attached(block) THEN {} ELSE InPending
      /\ WarnsOf(g, 1) = IF Attached(block) THEN {} ELSE pending.warns
      /\ Distinct(pending.text) => Once(g, 1)
  <2>1. CASE Attached(block)
    BY <2>1, OutNothing
  <2>2. CASE ~Attached(block)
    BY <1>4, <2>2 DEF Out, InPending
  <2> QED BY <2>1, <2>2
<1> HIDE DEF f, g
<1>7. /\ f \in Seq(Chunks) /\ TokensOf(f, 1) = InCurrent /\ WarnsOf(f, 1) = current.warns
      /\ Distinct(current.text) => Once(f, 1)
  BY <1>4 DEF Out, InCurrent
<1>8. /\ out \in Seq(Chunks) /\ TokensOf(out, 1) = TokensOf(f, 1) \cup TokensOf(g, 1)
      /\ WarnsOf(out, 1) = WarnsOf(f, 1) \cup WarnsOf(g, 1)
      /\ Once(f, 1) /\ Once(g, 1) /\ TokensOf(f, 1) \cap TokensOf(g, 1) = {} => Once(out, 1)
      /\ chunks' = chunks \o out
  BY <1>2, <1>3, <1>6, <1>7, OutBoth
<1>9. /\ Range(pending.text) = InPending /\ pending.text \in Seq(Tokens)
  BY <1>2, UnitShape DEF InPending
<1>10. /\ InCurrent' =
          IF Attached(block) THEN Range(block.text) \cup InPending ELSE Range(block.text)
       /\ Distinct(block.text) /\ Distinct(pending.text) /\ Range(block.text) \cap InPending = {}
            => Distinct(current'.text)
  <2>1. CASE Attached(block)
    <3>1. current'.text = block.text \o pending.text
      BY <1>3, <1>5, <2>1
    <3>2. InCurrent' = Range(current'.text)
      BY DEF InCurrent
    <3> QED BY <1>2, <1>9, <2>1, <3>1, <3>2, ConcatTexts
  <2>2. CASE ~Attached(block)
    BY <1>3, <1>5, <2>2 DEF InCurrent
  <2> QED BY <2>1, <2>2
<1>11. InPending' = {} /\ pending'.warns = {} /\ Distinct(pending'.text)
  BY <1>3, NoBlocksProperties DEF InPending
<1> HIDE DEF out
<1>12. chunks' \in Seq(Chunks) /\ Moves
  <2>1. current' \in Units /\ pending' \in Units
    BY <1>3, <1>5, NoBlocksProperties
  <2>2. TokensOf(out, 1) \cup InCurrent' \cup InPending'
           = InCurrent \cup InPending \cup Range(block.text)
    BY <1>6, <1>7, <1>8, <1>10, <1>11
  <2>3. current.warns \cup pending.warns \cup block.warns
            \subseteq WarnsOf(out, 1) \cup current'.warns \cup pending'.warns
    BY <1>3, <1>5, <1>6, <1>7, <1>8
  <2>4. ASSUME Distinct(current.text), Distinct(pending.text), Distinct(block.text),
               Parted(InCurrent, InPending, Range(block.text))
        PROVE  /\ Once(out, 1) /\ Distinct(current'.text) /\ Distinct(pending'.text)
               /\ Parted(TokensOf(out, 1), InCurrent', InPending')
    <3>1. InCurrent \cap InPending = {} /\ InCurrent \cap Range(block.text) = {}
          /\ InPending \cap Range(block.text) = {}
      BY <2>4 DEF Parted
    <3>2. Once(out, 1)
      BY <1>6, <1>7, <1>8, <2>4, <3>1
    <3>3. Distinct(current'.text)
      BY <1>10, <2>4, <3>1
    <3>4. TokensOf(out, 1) \cap InCurrent' = {}
      BY <1>6, <1>7, <1>8, <1>10, <3>1
    <3> QED BY <1>11, <3>2, <3>3, <3>4 DEF Parted
  <2> QED BY <1>2, <1>8, <2>1, <2>2, <2>3, <2>4, PassedOn
<1>13. (SplitTypeOK /\ StageOK)' /\ Taken' = Taken
  BY <1>1, <1>3, <1>5, <1>12, NoBlocksProperties, AssembledStage
<1> QED BY <1>12, <1>13

LEMMA HoldBackStep ==
    ASSUME SplitInv, NEW block, HoldBack(block)
    PROVE  (SplitTypeOK /\ StageOK)' /\ Moves /\ Taken' = Taken
<1>1. Assembling(block) /\ ~current.open /\ pending' = Followed(pending, block)
      /\ current' = current /\ chunks' = chunks
  BY DEF HoldBack
<1>2. /\ phase = "assemble" /\ block \in Blocks /\ block.text \in Seq(Tokens)
      /\ UNCHANGED <<contract, blocks, made>>
      /\ current \in Units /\ pending \in Units /\ chunks \in Seq(Chunks)
      /\ (~current.open => current = NoBlocks) /\ (~pending.open => pending = NoBlocks)
      /\ InBlocks = Range(block.text) \cup InBlocks'
      /\ WarnsOf(blocks, pos) = block.warns \cup WarnsOf(blocks, pos)'
      /\ Once(blocks, 1) => Distinct(block.text) /\ Range(block.text) \cap InBlocks' = {}
  BY <1>1, AssemblingProperties
<1>3. /\ pending' \in Units /\ pending'.open
      /\ pending'.warns = pending.warns \cup block.warns
      /\ InPending' = InPending \cup Range(block.text)
      /\ Distinct(pending.text) /\ Distinct(block.text) /\ InPending \cap Range(block.text) = {}
            => Distinct(pending'.text)
  BY <1>1, <1>2, FollowedProperties DEF InPending
<1>4. InCurrent' = InCurrent
  BY <1>1 DEF InCurrent
<1>5. chunks' = chunks \o <<>> /\ <<>> \in Seq(Chunks) /\ TokensOf(<<>>, 1) = {}
      /\ WarnsOf(<<>>, 1) = {} /\ Once(<<>>, 1)
  BY <1>1, <1>2, OutNothing
<1>6. chunks' \in Seq(Chunks) /\ Moves
  <2>1. TokensOf(<<>>, 1) \cup InCurrent' \cup InPending'
           = InCurrent \cup InPending \cup Range(block.text)
    BY <1>3, <1>4, <1>5
  <2>2. current.warns \cup pending.warns \cup block.warns
            \subseteq WarnsOf(<<>>, 1) \cup current'.warns \cup pending'.warns
    BY <1>1, <1>3
  <2>3. ASSUME Distinct(current.text), Distinct(pending.text), Distinct(block.text),
               Parted(InCurrent, InPending, Range(block.text))
        PROVE  /\ Once(<<>>, 1) /\ Distinct(current'.text) /\ Distinct(pending'.text)
               /\ Parted(TokensOf(<<>>, 1), InCurrent', InPending')
    BY <1>1, <1>3, <1>4, <1>5, <2>3 DEF Parted
  <2> QED BY <1>1, <1>2, <1>3, <1>5, <2>1, <2>2, <2>3, PassedOn
<1>7. (SplitTypeOK /\ StageOK)' /\ Taken' = Taken
  BY <1>1, <1>2, <1>3, <1>6, AssembledStage
<1> QED BY <1>6, <1>7

LEMMA UnassignedStep ==
    ASSUME SplitInv, NEW block, Unassigned(block)
    PROVE  (SplitTypeOK /\ StageOK)' /\ Moves /\ Taken' = Taken
<1>1. /\ Assembling(block) /\ ~current.open /\ current' = current
      /\ IF Emitted(block)
           THEN /\ chunks' = chunks \o Provenance(pending) \o Provenance(Alone(block))
                /\ pending' = NoBlocks
           ELSE UNCHANGED <<chunks, pending>>
  BY DEF Unassigned
<1>2. /\ phase = "assemble" /\ block \in Blocks /\ block.text \in Seq(Tokens)
      /\ UNCHANGED <<contract, blocks, made>>
      /\ current \in Units /\ pending \in Units /\ chunks \in Seq(Chunks)
      /\ (~current.open => current = NoBlocks) /\ (~pending.open => pending = NoBlocks)
      /\ InBlocks = Range(block.text) \cup InBlocks'
      /\ WarnsOf(blocks, pos) = block.warns \cup WarnsOf(blocks, pos)'
      /\ Once(blocks, 1) => Distinct(block.text) /\ Range(block.text) \cap InBlocks' = {}
  BY <1>1, AssemblingProperties
<1> DEFINE f == Provenance(pending)
           g == Provenance(Alone(block))
           out == f \o g
<1>3. InCurrent' = InCurrent /\ InCurrent = {} /\ current.warns = {} /\ Distinct(current.text)
  BY <1>1, <1>2, NoBlocksProperties DEF InCurrent
<1>4. CASE Emitted(block)
  <2>1. chunks' = (chunks \o f) \o g /\ pending' = NoBlocks
    BY <1>1, <1>4
  <2>2. /\ Alone(block) \in Units /\ Alone(block).open
        /\ Alone(block).text = block.text /\ Alone(block).warns = block.warns
    BY <1>2, AloneProperties
  <2>3. Out(f, pending) /\ Out(g, Alone(block))
    BY <1>2, <2>2, FinishedProperties
  <2> HIDE DEF f, g
  <2>4. /\ f \in Seq(Chunks) /\ TokensOf(f, 1) = InPending /\ WarnsOf(f, 1) = pending.warns
        /\ Distinct(pending.text) => Once(f, 1)
    BY <2>3 DEF Out, InPending
  <2>5. /\ g \in Seq(Chunks) /\ TokensOf(g, 1) = Range(block.text) /\ WarnsOf(g, 1) = block.warns
        /\ Distinct(block.text) => Once(g, 1)
    BY <2>2, <2>3 DEF Out
  <2>6. /\ out \in Seq(Chunks) /\ TokensOf(out, 1) = TokensOf(f, 1) \cup TokensOf(g, 1)
        /\ WarnsOf(out, 1) = WarnsOf(f, 1) \cup WarnsOf(g, 1)
        /\ Once(f, 1) /\ Once(g, 1) /\ TokensOf(f, 1) \cap TokensOf(g, 1) = {} => Once(out, 1)
        /\ chunks' = chunks \o out
    BY <1>2, <2>1, <2>4, <2>5, OutBoth
  <2>7. InPending' = {} /\ Distinct(pending'.text) /\ pending' \in Units
    BY <2>1, NoBlocksProperties DEF InPending
  <2> HIDE DEF out
  <2>8. chunks' \in Seq(Chunks) /\ Moves
    <3>1. TokensOf(out, 1) \cup InCurrent' \cup InPending'
              = InCurrent \cup InPending \cup Range(block.text)
      BY <1>3, <2>4, <2>5, <2>6, <2>7
    <3>2. current.warns \cup pending.warns \cup block.warns
              \subseteq WarnsOf(out, 1) \cup current'.warns \cup pending'.warns
      BY <1>3, <2>4, <2>5, <2>6
    <3>3. ASSUME Distinct(current.text), Distinct(pending.text), Distinct(block.text),
                 Parted(InCurrent, InPending, Range(block.text))
          PROVE  /\ Once(out, 1) /\ Distinct(current'.text) /\ Distinct(pending'.text)
                 /\ Parted(TokensOf(out, 1), InCurrent', InPending')
      BY <1>1, <1>3, <2>4, <2>5, <2>6, <2>7, <3>3 DEF Parted
    <3> QED BY <1>1, <1>2, <2>6, <2>7, <3>1, <3>2, <3>3, PassedOn
  <2> QED BY <1>1, <1>2, <2>1, <2>8, NoBlocksProperties, AssembledStage
<1>5. CASE ~Emitted(block)
  <2>1. chunks' = chunks /\ pending' = pending /\ InPending' = InPending
    BY <1>1, <1>5 DEF InPending
  <2>2. block.text = <<>> /\ block.warns = {} /\ Range(block.text) = {}
    BY <1>5 DEF Emitted, Range
  <2>3. chunks' = chunks \o <<>> /\ <<>> \in Seq(Chunks) /\ TokensOf(<<>>, 1) = {}
        /\ WarnsOf(<<>>, 1) = {} /\ Once(<<>>, 1)
    BY <1>2, <2>1, OutNothing
  <2>4. chunks' \in Seq(Chunks) /\ Moves
    <3>1. TokensOf(<<>>, 1) \cup InCurrent' \cup InPending'
              = InCurrent \cup InPending \cup Range(block.text)
      BY <1>3, <2>1, <2>2, <2>3
    <3>2. current.warns \cup pending.warns \cup block.warns
              \subseteq WarnsOf(<<>>, 1) \cup current'.warns \cup pending'.warns
      BY <1>1, <2>1, <2>2
    <3>3. ASSUME Distinct(current.text), Distinct(pending.text), Distinct(block.text),
                 Parted(InCurrent, InPending, Range(block.text))
          PROVE  /\ Once(<<>>, 1) /\ Distinct(current'.text) /\ Distinct(pending'.text)
                 /\ Parted(TokensOf(<<>>, 1), InCurrent', InPending')
      BY <1>1, <1>3, <2>1, <2>3, <3>3 DEF Parted
    <3> QED BY <1>1, <1>2, <2>1, <2>3, <3>1, <3>2, <3>3, PassedOn
  <2> QED BY <1>1, <1>2, <2>1, <2>4, AssembledStage
<1> QED BY <1>4, <1>5

LEMMA DetachStep ==
    ASSUME SplitInv, NEW block, Detach(block)
    PROVE  (SplitTypeOK /\ StageOK)' /\ Moves /\ Taken' = Taken
<1>1. /\ Assembling(block) /\ current.open /\ current' = NoBlocks /\ pending' = pending
      /\ chunks' = chunks \o Finished(current)
                          \o (IF Emitted(block) THEN Provenance(Alone(block)) ELSE <<>>)
  BY DEF Detach
<1>2. /\ phase = "assemble" /\ block \in Blocks /\ block.text \in Seq(Tokens)
      /\ UNCHANGED <<contract, blocks, made>>
      /\ current \in Units /\ pending \in Units /\ chunks \in Seq(Chunks)
      /\ (~current.open => current = NoBlocks) /\ pending = NoBlocks
      /\ InBlocks = Range(block.text) \cup InBlocks'
      /\ WarnsOf(blocks, pos) = block.warns \cup WarnsOf(blocks, pos)'
      /\ Once(blocks, 1) => Distinct(block.text) /\ Range(block.text) \cap InBlocks' = {}
  BY <1>1, AssemblingProperties
<1> DEFINE f == Finished(current)
           g == IF Emitted(block) THEN Provenance(Alone(block)) ELSE <<>>
           out == f \o g
<1>3. InPending' = {} /\ InPending = {} /\ pending.warns = {} /\ Distinct(pending'.text)
  BY <1>1, <1>2, NoBlocksProperties DEF InPending
<1>4. Out(f, current)
  BY <1>2, FinishedProperties
<1>5. /\ g \in Seq(Chunks) /\ TokensOf(g, 1) = Range(block.text) /\ WarnsOf(g, 1) = block.warns
      /\ Distinct(block.text) => Once(g, 1)
  <2>1. CASE Emitted(block)
    <3>1. /\ Alone(block) \in Units /\ Alone(block).open
          /\ Alone(block).text = block.text /\ Alone(block).warns = block.warns
      BY <1>2, AloneProperties
    <3>2. Out(Provenance(Alone(block)), Alone(block))
      BY <3>1, FinishedProperties
    <3> QED BY <2>1, <3>1, <3>2 DEF Out
  <2>2. CASE ~Emitted(block)
    <3>1. block.text = <<>> /\ block.warns = {} /\ Range(block.text) = {}
      BY <2>2 DEF Emitted, Range
    <3> QED BY <2>2, <3>1, OutNothing
  <2> QED BY <2>1, <2>2
<1>6. chunks' = (chunks \o f) \o g
  BY <1>1
<1> HIDE DEF f, g
<1>7. /\ f \in Seq(Chunks) /\ TokensOf(f, 1) = InCurrent /\ WarnsOf(f, 1) = current.warns
      /\ Distinct(current.text) => Once(f, 1)
  BY <1>4 DEF Out, InCurrent
<1>8. /\ out \in Seq(Chunks) /\ TokensOf(out, 1) = TokensOf(f, 1) \cup TokensOf(g, 1)
      /\ WarnsOf(out, 1) = WarnsOf(f, 1) \cup WarnsOf(g, 1)
      /\ Once(f, 1) /\ Once(g, 1) /\ TokensOf(f, 1) \cap TokensOf(g, 1) = {} => Once(out, 1)
      /\ chunks' = chunks \o out
  BY <1>2, <1>5, <1>6, <1>7, OutBoth
<1>9. InCurrent' = {} /\ Distinct(current'.text) /\ current' \in Units
  BY <1>1, NoBlocksProperties DEF InCurrent
<1> HIDE DEF out
<1>10. chunks' \in Seq(Chunks) /\ Moves
  <2>1. TokensOf(out, 1) \cup InCurrent' \cup InPending'
           = InCurrent \cup InPending \cup Range(block.text)
    BY <1>3, <1>5, <1>7, <1>8, <1>9
  <2>2. current.warns \cup pending.warns \cup block.warns
            \subseteq WarnsOf(out, 1) \cup current'.warns \cup pending'.warns
    BY <1>3, <1>5, <1>7, <1>8
  <2>3. ASSUME Distinct(current.text), Distinct(pending.text), Distinct(block.text),
               Parted(InCurrent, InPending, Range(block.text))
        PROVE  /\ Once(out, 1) /\ Distinct(current'.text) /\ Distinct(pending'.text)
               /\ Parted(TokensOf(out, 1), InCurrent', InPending')
    BY <1>3, <1>5, <1>7, <1>8, <1>9, <2>3 DEF Parted
  <2>4. current' \in Units /\ pending' \in Units
    BY <1>1, <1>2, <1>9
  <2> QED BY <1>2, <1>8, <2>1, <2>2, <2>3, <2>4, PassedOn
<1> QED BY <1>1, <1>2, <1>9, <1>10, NoBlocksProperties, AssembledStage

LEMMA ContinueUnitStep ==
    ASSUME SplitInv, NEW block, ContinueUnit(block)
    PROVE  (SplitTypeOK /\ StageOK)' /\ Moves /\ Taken' = Taken
<1>1. /\ Assembling(block) /\ current.open /\ pending' = pending /\ chunks' = chunks
      /\ current' = IF Emitted(block) THEN Followed(current, block) ELSE current
  BY DEF ContinueUnit
<1>2. /\ phase = "assemble" /\ block \in Blocks /\ block.text \in Seq(Tokens)
      /\ UNCHANGED <<contract, blocks, made>>
      /\ current \in Units /\ pending \in Units /\ chunks \in Seq(Chunks) /\ pending = NoBlocks
      /\ InBlocks = Range(block.text) \cup InBlocks'
      /\ WarnsOf(blocks, pos) = block.warns \cup WarnsOf(blocks, pos)'
      /\ Once(blocks, 1) => Distinct(block.text) /\ Range(block.text) \cap InBlocks' = {}
  BY <1>1, AssemblingProperties
<1>3. /\ current' \in Units /\ current'.open
      /\ current'.warns = current.warns \cup block.warns
      /\ InCurrent' = InCurrent \cup Range(block.text)
      /\ Distinct(current.text) /\ Distinct(block.text) /\ InCurrent \cap Range(block.text) = {}
            => Distinct(current'.text)
  <2>1. CASE Emitted(block)
    BY <1>1, <1>2, <2>1, FollowedProperties DEF InCurrent
  <2>2. CASE ~Emitted(block)
    <3>1. block.text = <<>> /\ block.warns = {} /\ Range(block.text) = {}
      BY <2>2 DEF Emitted, Range
    <3> QED BY <1>1, <1>2, <2>2, <3>1 DEF InCurrent
  <2> QED BY <2>1, <2>2
<1>4. InPending' = InPending
  BY <1>1 DEF InPending
<1>5. chunks' = chunks \o <<>> /\ <<>> \in Seq(Chunks) /\ TokensOf(<<>>, 1) = {}
      /\ WarnsOf(<<>>, 1) = {} /\ Once(<<>>, 1)
  BY <1>1, <1>2, OutNothing
<1>6. chunks' \in Seq(Chunks) /\ Moves
  <2>1. TokensOf(<<>>, 1) \cup InCurrent' \cup InPending'
           = InCurrent \cup InPending \cup Range(block.text)
    BY <1>3, <1>4, <1>5
  <2>2. current.warns \cup pending.warns \cup block.warns
            \subseteq WarnsOf(<<>>, 1) \cup current'.warns \cup pending'.warns
    BY <1>1, <1>3
  <2>3. ASSUME Distinct(current.text), Distinct(pending.text), Distinct(block.text),
               Parted(InCurrent, InPending, Range(block.text))
        PROVE  /\ Once(<<>>, 1) /\ Distinct(current'.text) /\ Distinct(pending'.text)
               /\ Parted(TokensOf(<<>>, 1), InCurrent', InPending')
    BY <1>1, <1>3, <1>4, <1>5, <2>3 DEF Parted
  <2>4. current' \in Units /\ pending' \in Units
    BY <1>1, <1>2, <1>3
  <2> QED BY <1>2, <1>5, <2>1, <2>2, <2>3, <2>4, PassedOn
<1> QED BY <1>1, <1>2, <1>3, <1>6, AssembledStage

\* After the last block nothing is left in them.
LEMMA PastBlocks ==
    ASSUME blocks \in Seq(Blocks), pos \in Nat, pos > Len(blocks), blocks' = blocks, pos' = pos
    PROVE  /\ InBlocks = Range(<<>>) \cup InBlocks'
           /\ WarnsOf(blocks, pos) = {} \cup WarnsOf(blocks, pos)'
           /\ Distinct(<<>>) /\ Range(<<>>) = {} /\ Range(<<>>) \cap InBlocks' = {}
<1>1. Range(<<>>) = {} /\ Distinct(<<>>)
  BY DEF Range, Distinct
<1>2. InBlocks' = InBlocks /\ WarnsOf(blocks, pos)' = WarnsOf(blocks, pos)
  BY DEF InBlocks
<1> QED BY <1>1, <1>2

\* The split has handled the content list.
LEMMA HandledStage ==
    ASSUME SplitInv, phase \in {"assemble", "group"}, pos > Len(blocks),
           handled' = TRUE, phase' = "next", current' = NoBlocks, pending' = NoBlocks,
           UNCHANGED <<contract, items, left, blocks, pos, made, recovered, visionCalls>>,
           chunks' \in Seq(Chunks)
    PROVE  (SplitTypeOK /\ StageOK)' /\ Taken' = Taken
<1>1. /\ SplitTypeOK /\ StageOK /\ blocks \in Seq(Blocks) /\ pos \in Nat
  BY DEF SplitInv, SplitTypeOK
<1>2. Len(blocks) \in Nat
  BY <1>1, LenProperties
<1>3. pos = Len(blocks) + 1
  BY <1>1, <1>2 DEF StageOK
<1>4. SplitTypeOK'
  BY <1>1, NoBlocksProperties DEF SplitTypeOK
<1>5. StageOK'
  BY <1>1, <1>3 DEF StageOK
<1>6. Taken' = Taken
  BY DEF Taken
<1> QED BY <1>4, <1>5, <1>6

LEMMA EndUnitsStep ==
    ASSUME SplitInv, EndUnits
    PROVE  (SplitTypeOK /\ StageOK)' /\ Moves /\ Taken' = Taken
<1>1. /\ phase = "assemble" /\ pos > Len(blocks)
      /\ chunks' = chunks \o Provenance(pending) \o Finished(current)
      /\ current' = NoBlocks /\ pending' = NoBlocks /\ handled' = TRUE /\ phase' = "next"
      /\ UNCHANGED <<contract, items, left, blocks, pos, made, recovered, visionCalls>>
  BY DEF EndUnits, inputVars, normalVars
<1>2. /\ blocks \in Seq(Blocks) /\ pos \in Nat
      /\ current \in Units /\ pending \in Units /\ chunks \in Seq(Chunks)
      /\ (~current.open => current = NoBlocks) /\ (~pending.open => pending = NoBlocks)
  BY DEF SplitInv, SplitTypeOK, StageOK
<1> DEFINE f == Provenance(pending)
           g == Finished(current)
           out == f \o g
<1>3. Out(f, pending) /\ Out(g, current)
  BY <1>2, FinishedProperties
<1>4. chunks' = (chunks \o f) \o g
  BY <1>1
<1> HIDE DEF f, g
<1>5. /\ f \in Seq(Chunks) /\ TokensOf(f, 1) = InPending /\ WarnsOf(f, 1) = pending.warns
      /\ Distinct(pending.text) => Once(f, 1)
  BY <1>3 DEF Out, InPending
<1>6. /\ g \in Seq(Chunks) /\ TokensOf(g, 1) = InCurrent /\ WarnsOf(g, 1) = current.warns
      /\ Distinct(current.text) => Once(g, 1)
  BY <1>3 DEF Out, InCurrent
<1>7. /\ out \in Seq(Chunks) /\ TokensOf(out, 1) = TokensOf(f, 1) \cup TokensOf(g, 1)
      /\ WarnsOf(out, 1) = WarnsOf(f, 1) \cup WarnsOf(g, 1)
      /\ Once(f, 1) /\ Once(g, 1) /\ TokensOf(f, 1) \cap TokensOf(g, 1) = {} => Once(out, 1)
      /\ chunks' = chunks \o out
  BY <1>2, <1>4, <1>5, <1>6, OutBoth
<1>8. /\ InCurrent' = {} /\ InPending' = {} /\ Distinct(current'.text) /\ Distinct(pending'.text)
      /\ current' \in Units /\ pending' \in Units
  BY <1>1, NoBlocksProperties DEF InCurrent, InPending
<1>9. /\ InBlocks = Range(<<>>) \cup InBlocks'
      /\ WarnsOf(blocks, pos) = {} \cup WarnsOf(blocks, pos)'
      /\ Distinct(<<>>) /\ Range(<<>>) = {} /\ Range(<<>>) \cap InBlocks' = {}
  BY <1>1, <1>2, PastBlocks
<1> HIDE DEF out
<1>10. chunks' \in Seq(Chunks) /\ Moves
  <2>1. TokensOf(out, 1) \cup InCurrent' \cup InPending' = InCurrent \cup InPending \cup Range(<<>>)
    BY <1>5, <1>6, <1>7, <1>8, <1>9
  <2>2. current.warns \cup pending.warns \cup {}
            \subseteq WarnsOf(out, 1) \cup current'.warns \cup pending'.warns
    BY <1>5, <1>6, <1>7
  <2>3. ASSUME Distinct(current.text), Distinct(pending.text), Distinct(<<>>),
               Parted(InCurrent, InPending, Range(<<>>))
        PROVE  /\ Once(out, 1) /\ Distinct(current'.text) /\ Distinct(pending'.text)
               /\ Parted(TokensOf(out, 1), InCurrent', InPending')
    BY <1>5, <1>6, <1>7, <1>8, <2>3 DEF Parted
  <2>4. phase \in {"assemble", "group"} /\ UNCHANGED <<contract, blocks, made>>
    BY <1>1
  <2> QED BY <1>7, <1>8, <1>9, <2>1, <2>2, <2>3, <2>4, PassedOn
<1> QED BY <1>1, <1>10, HandledStage

\* The parts of a group have its text, and each its warnings.
LEMMA PartsProperties ==
    ASSUME NEW group \in Units, NEW cuts \in Splits(group.text)
    PROVE  Out(PartsOf(group, cuts), group)
<1> DEFINE text == group.text
           parts == CutAt(text, cuts)
           n == Cardinality(cuts)
           out == PartsOf(group, cuts)
<1>1. text \in Seq(Tokens) /\ Len(text) \in Nat /\ DOMAIN text = 1 .. Len(text)
  BY UnitShape, LenProperties
<1>2. Cuts(cuts, Len(text))
  <2>1. CASE cuts = {1}
    <3>1. IsFiniteSet({1})
      BY FS_Singleton
    <3>2. {1} \in SUBSET Nat /\ {1} # {}
      OBVIOUS
    <3>3. \A p \in {1} : p = 1
      OBVIOUS
    <3> QED BY <1>1, <2>1, <3>1, <3>2, <3>3 DEF Cuts
  <2>2. CASE cuts \in SUBSET DOMAIN text /\ 1 \in cuts
    <3>1. IsFiniteSet(1 .. Len(text))
      BY <1>1, FS_Interval
    <3>2. IsFiniteSet(cuts)
      BY <1>1, <2>2, <3>1, FS_Subset
    <3>3. cuts \in SUBSET Nat /\ \A p \in cuts : p >= 1 /\ p <= Len(text)
      BY <1>1, <2>2
    <3> QED BY <2>2, <3>2, <3>3 DEF Cuts
  <2> QED BY <2>1, <2>2 DEF Splits
<1>3. n \in Nat \ {0}
  BY <1>1, <1>2, SpanProperties
<1>4. DOMAIN parts = 1 .. n
  BY DEF CutAt
<1>5. \A k \in 1 .. n : parts[k] \in Seq(Tokens)
  BY <1>1, <1>2, PieceProperties
<1>6. group.warns \in SUBSET Nat
  BY UnitShape
<1> HIDE DEF parts, n, text
<1>7. ASSUME NEW k \in 1 .. n
      PROVE  /\ out[k] \in Chunks /\ out[k].text = parts[k] /\ out[k].warns = group.warns
  <2>1. out[k] = [Chunk("part", group) EXCEPT !.text = parts[k]]
    BY <1>4 DEF PartsOf, parts, text
  <2> QED BY <1>5, <1>6, <2>1 DEF Chunk, Chunks
<1>8. DOMAIN out = 1 .. n /\ out = [k \in 1 .. n |-> out[k]]
  BY <1>4 DEF PartsOf, parts, text
<1> HIDE DEF out
<1>9. out \in [1 .. n -> Chunks]
  BY <1>7, <1>8
<1>10. out \in Seq(Chunks) /\ Len(out) = n
  BY <1>3, <1>9
<1>11. TokensOf(out, 1) = Range(text) /\ (Distinct(text) => Once(out, 1))
  <2>1. \A k \in 1 .. Len(out) : out[k].text = CutAt(text, cuts)[k]
    BY <1>7, <1>10 DEF parts
  <2>2. Len(out) = Cardinality(cuts)
    BY <1>10 DEF n
  <2> QED BY <1>1, <1>2, <1>10, <2>1, <2>2, TextsOfChunks, CutTokens
<1>12. WarnsOf(out, 1) = group.warns
  <2>1. 1 \in 1 .. Len(out)
    BY <1>3, <1>10
  <2> QED BY <1>7, <1>10, <2>1 DEF WarnsOf
<1> QED BY <1>10, <1>11, <1>12 DEF Out, out, text

LEMMA FlushProperties ==
    ASSUME current \in Units, ~current.open => current = NoBlocks, chunks \in Seq(Chunks),
           NEW rest \in Seq(Chunks), FlushInto(rest)
    PROVE  \E out \in Seq(Chunks) :
                /\ chunks' = chunks \o out
                /\ TokensOf(out, 1) = InCurrent \cup TokensOf(rest, 1)
                /\ WarnsOf(out, 1) = current.warns \cup WarnsOf(rest, 1)
                /\ Distinct(current.text) /\ Once(rest, 1) /\ InCurrent \cap TokensOf(rest, 1) = {}
                    => Once(out, 1)
<1>1. CASE ~current.open
  <2>1. chunks' = chunks \o rest /\ InCurrent = {} /\ current.warns = {}
    BY <1>1, NoBlocksProperties DEF FlushInto, InCurrent
  <2> QED BY <2>1
<1>2. CASE current.open
  <2>1. PICK cuts \in Splits(current.text) : chunks' = chunks \o PartsOf(current, cuts) \o rest
    BY <1>2 DEF FlushInto
  <2> DEFINE f == PartsOf(current, cuts)
             out == f \o rest
  <2>2. Out(f, current)
    BY PartsProperties
  <2>3. chunks' = (chunks \o f) \o rest
    BY <2>1
  <2> HIDE DEF f
  <2>4. /\ f \in Seq(Chunks) /\ TokensOf(f, 1) = InCurrent /\ WarnsOf(f, 1) = current.warns
        /\ Distinct(current.text) => Once(f, 1)
    BY <2>2 DEF Out, InCurrent
  <2>5. /\ out \in Seq(Chunks) /\ TokensOf(out, 1) = TokensOf(f, 1) \cup TokensOf(rest, 1)
        /\ WarnsOf(out, 1) = WarnsOf(f, 1) \cup WarnsOf(rest, 1)
        /\ Once(f, 1) /\ Once(rest, 1) /\ TokensOf(f, 1) \cap TokensOf(rest, 1) = {} => Once(out, 1)
        /\ chunks' = chunks \o out
    BY <2>3, <2>4, OutBoth
  <2> HIDE DEF out
  <2> QED BY <2>4, <2>5
<1> QED BY <1>1, <1>2

LEMMA GroupStep ==
    ASSUME SplitInv, NEW block, Group(block)
    PROVE  (SplitTypeOK /\ StageOK)' /\ Moves /\ Taken' = Taken
<1>1. /\ phase = "group" /\ pos <= Len(blocks) /\ block = blocks[pos] /\ pos' = pos + 1
      /\ UNCHANGED <<contract, items, phase, left, handled, blocks, made, recovered, visionCalls,
                     pending>>
  BY DEF Group, inputVars, normalVars
<1>2. /\ blocks \in Seq(Blocks) /\ pos \in Nat \ {0} /\ Len(blocks) \in Nat
      /\ current \in Units /\ chunks \in Seq(Chunks) /\ pending = NoBlocks
      /\ (~current.open => current = NoBlocks) /\ SplitTypeOK /\ StageOK
  BY <1>1, LenProperties DEF SplitInv, SplitTypeOK, StageOK
<1>3. pos \in 1 .. Len(blocks)
  BY <1>1, <1>2
<1>4. /\ block \in Blocks
      /\ InBlocks = Range(block.text) \cup InBlocks'
      /\ WarnsOf(blocks, pos) = block.warns \cup WarnsOf(blocks, pos)'
      /\ Once(blocks, 1) => Distinct(block.text) /\ Range(block.text) \cap InBlocks' = {}
  BY <1>1, <1>2, <1>3, NextBlock
<1>5. block.text \in Seq(Tokens) /\ block.warns \in SUBSET Nat
  BY <1>4, BlockShape
<1>6. /\ InPending = {} /\ InPending' = {} /\ pending.warns = {} /\ Distinct(pending'.text)
      /\ pending' \in Units
  BY <1>1, <1>2, NoBlocksProperties DEF InPending
<1>7. \E out \in Seq(Chunks) :
        /\ chunks' = chunks \o out
        /\ current' \in Units /\ (~current'.open => current' = NoBlocks)
        /\ TokensOf(out, 1) \cup InCurrent' = InCurrent \cup Range(block.text)
        /\ current.warns \cup block.warns \subseteq WarnsOf(out, 1) \cup current'.warns
        /\ Distinct(current.text) /\ Distinct(block.text) /\ InCurrent \cap Range(block.text) = {}
            => Once(out, 1) /\ Distinct(current'.text) /\ TokensOf(out, 1) \cap InCurrent' = {}
  <2>1. CASE block.text = <<>>
    <3> DEFINE rest == <<Chunk("quarantined", block)>>
    <3>1. FlushInto(rest) /\ current' = NoBlocks
      BY <2>1 DEF Group
    <3>2. Out(rest, block)
      BY <1>5, ChunkProperties
    <3> HIDE DEF rest
    <3>3. rest \in Seq(Chunks) /\ TokensOf(rest, 1) = Range(block.text)
          /\ WarnsOf(rest, 1) = block.warns /\ (Distinct(block.text) => Once(rest, 1))
      BY <3>2 DEF Out
    <3>4. PICK out \in Seq(Chunks) :
            /\ chunks' = chunks \o out
            /\ TokensOf(out, 1) = InCurrent \cup TokensOf(rest, 1)
            /\ WarnsOf(out, 1) = current.warns \cup WarnsOf(rest, 1)
            /\ Distinct(current.text) /\ Once(rest, 1) /\ InCurrent \cap TokensOf(rest, 1) = {}
                => Once(out, 1)
      BY <1>2, <3>1, <3>3, FlushProperties
    <3>5. InCurrent' = {} /\ Distinct(current'.text) /\ current' \in Units
      BY <3>1, NoBlocksProperties DEF InCurrent
    <3> QED BY <3>1, <3>3, <3>4, <3>5
  <2>2. CASE block.text # <<>> /\ StartsSection(block)
    <3>1. FlushInto(<<>>) /\ current' = Alone(block)
      BY <2>2 DEF Group
    <3>2. PICK out \in Seq(Chunks) :
            /\ chunks' = chunks \o out
            /\ TokensOf(out, 1) = InCurrent \cup TokensOf(<<>>, 1)
            /\ WarnsOf(out, 1) = current.warns \cup WarnsOf(<<>>, 1)
            /\ Distinct(current.text) /\ Once(<<>>, 1) /\ InCurrent \cap TokensOf(<<>>, 1) = {}
                => Once(out, 1)
      BY <1>2, <3>1, OutNothing, FlushProperties
    <3>3. /\ current' \in Units /\ current'.open /\ InCurrent' = Range(block.text)
          /\ current'.warns = block.warns /\ current'.text = block.text
      BY <1>4, <3>1, AloneProperties DEF InCurrent
    <3> QED BY <3>2, <3>3, OutNothing
  <2>3. CASE block.text # <<>> /\ ~StartsSection(block)
    <3>1. current' = Followed(current, block) /\ chunks' = chunks
      BY <2>3 DEF Group
    <3>2. /\ current' \in Units /\ current'.open
          /\ current'.warns = current.warns \cup block.warns
          /\ InCurrent' = InCurrent \cup Range(block.text)
          /\ Distinct(current.text) /\ Distinct(block.text) /\ InCurrent \cap Range(block.text) = {}
                => Distinct(current'.text)
      BY <1>2, <1>4, <3>1, FollowedProperties DEF InCurrent
    <3>3. chunks' = chunks \o <<>>
      BY <1>2, <3>1, OutNothing
    <3> QED BY <3>2, <3>3, OutNothing
  <2> QED BY <2>1, <2>2, <2>3
<1>8. PICK out \in Seq(Chunks) :
        /\ chunks' = chunks \o out
        /\ current' \in Units /\ (~current'.open => current' = NoBlocks)
        /\ TokensOf(out, 1) \cup InCurrent' = InCurrent \cup Range(block.text)
        /\ current.warns \cup block.warns \subseteq WarnsOf(out, 1) \cup current'.warns
        /\ Distinct(current.text) /\ Distinct(block.text) /\ InCurrent \cap Range(block.text) = {}
            => Once(out, 1) /\ Distinct(current'.text) /\ TokensOf(out, 1) \cap InCurrent' = {}
  BY <1>7
<1>9. chunks' \in Seq(Chunks) /\ Moves
  <2>1. TokensOf(out, 1) \cup InCurrent' \cup InPending'
           = InCurrent \cup InPending \cup Range(block.text)
    BY <1>6, <1>8
  <2>2. current.warns \cup pending.warns \cup block.warns
            \subseteq WarnsOf(out, 1) \cup current'.warns \cup pending'.warns
    BY <1>6, <1>8
  <2>3. ASSUME Distinct(current.text), Distinct(pending.text), Distinct(block.text),
               Parted(InCurrent, InPending, Range(block.text))
        PROVE  /\ Once(out, 1) /\ Distinct(current'.text) /\ Distinct(pending'.text)
               /\ Parted(TokensOf(out, 1), InCurrent', InPending')
    BY <1>6, <1>8, <2>3 DEF Parted
  <2>4. phase \in {"assemble", "group"} /\ UNCHANGED <<contract, blocks, made>>
    BY <1>1
  <2> QED BY <1>4, <1>6, <1>8, <2>1, <2>2, <2>3, <2>4, PassedOn
<1>10. SplitTypeOK'
  BY <1>1, <1>2, <1>6, <1>8, <1>9 DEF SplitTypeOK
<1>11. StageOK'
  <2>1. Canonical' <=> Canonical
    BY <1>1 DEF Canonical
  <2>2. pos' <= Len(blocks') + 1
    BY <1>1, <1>2
  <2> QED BY <1>1, <1>2, <1>8, <2>1, <2>2, NoBlocksProperties DEF StageOK
<1>12. Taken' = Taken
  BY <1>1 DEF Taken
<1> QED BY <1>9, <1>10, <1>11, <1>12

LEMMA EndGroupsStep ==
    ASSUME SplitInv, EndGroups
    PROVE  (SplitTypeOK /\ StageOK)' /\ Moves /\ Taken' = Taken
<1>1. /\ phase = "group" /\ pos > Len(blocks) /\ FlushInto(<<>>)
      /\ current' = NoBlocks /\ handled' = TRUE /\ phase' = "next"
      /\ UNCHANGED <<contract, items, left, blocks, pos, made, recovered, visionCalls, pending>>
  BY DEF EndGroups, inputVars, normalVars
<1>2. /\ blocks \in Seq(Blocks) /\ pos \in Nat /\ pending = NoBlocks
      /\ current \in Units /\ chunks \in Seq(Chunks) /\ (~current.open => current = NoBlocks)
  BY <1>1 DEF SplitInv, SplitTypeOK, StageOK
<1>3. PICK out \in Seq(Chunks) :
        /\ chunks' = chunks \o out
        /\ TokensOf(out, 1) = InCurrent \cup TokensOf(<<>>, 1)
        /\ WarnsOf(out, 1) = current.warns \cup WarnsOf(<<>>, 1)
        /\ Distinct(current.text) /\ Once(<<>>, 1) /\ InCurrent \cap TokensOf(<<>>, 1) = {}
            => Once(out, 1)
  BY <1>1, <1>2, OutNothing, FlushProperties
<1>4. /\ InPending = {} /\ InPending' = {} /\ InCurrent' = {} /\ pending.warns = {}
      /\ Distinct(current'.text) /\ Distinct(pending'.text)
      /\ current' \in Units /\ pending' \in Units /\ pending' = NoBlocks
  BY <1>1, <1>2, NoBlocksProperties DEF InCurrent, InPending
<1>5. /\ InBlocks = Range(<<>>) \cup InBlocks'
      /\ WarnsOf(blocks, pos) = {} \cup WarnsOf(blocks, pos)'
      /\ Distinct(<<>>) /\ Range(<<>>) = {} /\ Range(<<>>) \cap InBlocks' = {}
  BY <1>1, <1>2, PastBlocks
<1>6. chunks' \in Seq(Chunks) /\ Moves
  <2>1. TokensOf(out, 1) \cup InCurrent' \cup InPending' = InCurrent \cup InPending \cup Range(<<>>)
    BY <1>3, <1>4, <1>5, OutNothing
  <2>2. current.warns \cup pending.warns \cup {}
            \subseteq WarnsOf(out, 1) \cup current'.warns \cup pending'.warns
    BY <1>3, <1>4
  <2>3. ASSUME Distinct(current.text), Distinct(pending.text), Distinct(<<>>),
               Parted(InCurrent, InPending, Range(<<>>))
        PROVE  /\ Once(out, 1) /\ Distinct(current'.text) /\ Distinct(pending'.text)
               /\ Parted(TokensOf(out, 1), InCurrent', InPending')
    BY <1>3, <1>4, <2>3, OutNothing DEF Parted
  <2>4. phase \in {"assemble", "group"} /\ UNCHANGED <<contract, blocks, made>>
    BY <1>1
  <2> QED BY <1>3, <1>4, <1>5, <2>1, <2>2, <2>3, <2>4, PassedOn
<1> QED BY <1>1, <1>4, <1>6, HandledStage

-----------------------------------------------------------------------------
(* Units that read together *)

\* Nothing waits when a loop begins, or a unit is open.
LEMMA NothingWaits ==
    ASSUME NEW hi \in Nat
    PROVE  Waits(<<>>, hi)
<1>1. hi + 1 \in 1 .. hi + 1 /\ hi + 1 .. hi = {}
  OBVIOUS
<1>2. Range(<<>>) = {}
  BY DEF Range
<1> QED BY <1>1, <1>2 DEF Waits

\* A block with no anchor waits with those that do.
LEMMA WaitsOn ==
    ASSUME NEW hi \in Nat, NEW text, NEW more, Waits(text, hi),
           \A k \in DOMAIN blocks[hi + 1].text : blocks[hi + 1].text[k].mark # "anchor",
           Range(more) \subseteq Range(text) \cup Range(blocks[hi + 1].text)
    PROVE  Waits(more, hi + 1)
<1>1. PICK lo \in 1 .. hi + 1 :
        /\ \A b \in lo .. hi : \A k \in DOMAIN blocks[b].text : blocks[b].text[k].mark # "anchor"
        /\ \A t \in Range(text) : \E b \in lo .. hi : t \in Range(blocks[b].text)
  BY DEF Waits
<1>2. /\ lo \in 1 .. (hi + 1) + 1
      /\ \A b \in lo .. hi + 1 : b \in lo .. hi \/ b = hi + 1
      /\ \A b \in lo .. hi : b \in lo .. hi + 1
      /\ hi + 1 \in lo .. hi + 1
  OBVIOUS
<1>3. \A b \in lo .. hi + 1 : \A k \in DOMAIN blocks[b].text : blocks[b].text[k].mark # "anchor"
  BY <1>1, <1>2
<1>4. \A t \in Range(more) : \E b \in lo .. hi + 1 : t \in Range(blocks[b].text)
  BY <1>1, <1>2
<1> QED BY <1>2, <1>3, <1>4 DEF Waits

\* A block with no anchor that follows, goes to the unit that is filed.
LEMMA FiledOn ==
    ASSUME NEW hi \in Nat, NEW text, NEW more, Filed(text, hi),
           \A k \in DOMAIN blocks[hi + 1].text : blocks[hi + 1].text[k].mark # "anchor",
           Range(text) \subseteq Range(more),
           Range(more) \subseteq Range(text) \cup Range(blocks[hi + 1].text)
    PROVE  Filed(more, hi + 1)
<1>1. PICK lo \in 1 .. hi, a \in 1 .. hi : lo <= a /\ \E j \in DOMAIN blocks[a].text :
        /\ blocks[a].text[j].mark = "anchor" /\ blocks[a].text[j] \in Range(text)
        /\ \A b \in lo .. hi : \A k \in DOMAIN blocks[b].text :
                blocks[b].text[k].mark = "anchor" => b = a /\ k = j
        /\ \A t \in Range(text) : \E b \in lo .. hi : t \in Range(blocks[b].text)
  BY DEF Filed
<1>2. PICK j \in DOMAIN blocks[a].text :
        /\ blocks[a].text[j].mark = "anchor" /\ blocks[a].text[j] \in Range(text)
        /\ \A b \in lo .. hi : \A k \in DOMAIN blocks[b].text :
                blocks[b].text[k].mark = "anchor" => b = a /\ k = j
        /\ \A t \in Range(text) : \E b \in lo .. hi : t \in Range(blocks[b].text)
  BY <1>1
<1>3. /\ lo \in 1 .. hi + 1 /\ a \in 1 .. hi + 1
      /\ \A b \in lo .. hi + 1 : b \in lo .. hi \/ b = hi + 1
      /\ \A b \in lo .. hi : b \in lo .. hi + 1
      /\ hi + 1 \in lo .. hi + 1
  OBVIOUS
<1>4. \A b \in lo .. hi + 1 : \A k \in DOMAIN blocks[b].text :
        blocks[b].text[k].mark = "anchor" => b = a /\ k = j
  BY <1>2, <1>3
<1>5. \A t \in Range(more) : \E b \in lo .. hi + 1 : t \in Range(blocks[b].text)
  BY <1>2, <1>3
<1> QED BY <1>1, <1>2, <1>3, <1>4, <1>5 DEF Filed

\* A block with one anchor opens a unit, which takes what has waited for it.
LEMMA FiledFirst ==
    ASSUME NEW hi \in Nat, NEW text, NEW waiting, Waits(waiting, hi),
           OneAnchor(blocks[hi + 1]), NEW j \in DOMAIN blocks[hi + 1].text,
           blocks[hi + 1].text[j].mark = "anchor",
           Range(text) = Range(blocks[hi + 1].text) \cup Range(waiting)
    PROVE  Filed(text, hi + 1)
<1> DEFINE a == hi + 1
<1>1. PICK lo \in 1 .. hi + 1 :
        /\ \A b \in lo .. hi : \A k \in DOMAIN blocks[b].text : blocks[b].text[k].mark # "anchor"
        /\ \A t \in Range(waiting) : \E b \in lo .. hi : t \in Range(blocks[b].text)
  BY DEF Waits
<1>2. /\ a \in 1 .. a /\ lo \in 1 .. a /\ lo <= a /\ a \in lo .. a
      /\ \A b \in lo .. a : b \in lo .. hi \/ b = a
      /\ \A b \in lo .. hi : b \in lo .. a
  OBVIOUS
<1>3. /\ \A k \in DOMAIN blocks[a].text : blocks[a].text[k].mark = "anchor" => k = j
      /\ blocks[a].text[j].mark = "anchor" /\ j \in DOMAIN blocks[a].text
  BY DEF OneAnchor
<1>4. blocks[a].text[j] \in Range(text) /\ Range(text) = Range(blocks[a].text) \cup Range(waiting)
  BY DEF Range
<1> HIDE DEF a
<1>5. \A b \in lo .. a : \A k \in DOMAIN blocks[b].text :
        blocks[b].text[k].mark = "anchor" => b = a /\ k = j
  BY <1>1, <1>2, <1>3
<1>6. \A t \in Range(text) : \E b \in lo .. a : t \in Range(blocks[b].text)
  BY <1>1, <1>2, <1>4
<1>7. Filed(text, a)
  BY <1>2, <1>3, <1>4, <1>5, <1>6 DEF Filed
<1> QED BY <1>7 DEF a

LEMMA AnswersNothing ==
    ASSUME NEW hi
    PROVE  Answers(<<>>, hi)
BY DEF Answers

LEMMA AnswersBoth ==
    ASSUME NEW f \in Seq(Chunks), NEW g \in Seq(Chunks), NEW hi, Answers(f, hi), Answers(g, hi)
    PROVE  Answers(f \o g, hi)
<1> DEFINE m == Len(f)
           n == Len(g)
<1>1. m \in Nat /\ n \in Nat /\ DOMAIN f = 1 .. m /\ DOMAIN g = 1 .. n
  BY LenProperties
<1>2. /\ DOMAIN (f \o g) = 1 .. m + n
      /\ \A c \in 1 .. m + n : (f \o g)[c] = IF c <= m THEN f[c] ELSE g[c - m]
  BY <1>1
<1> HIDE DEF m, n
<1>3. ASSUME NEW c \in DOMAIN (f \o g), (f \o g)[c].kind = "unit"
      PROVE  \E h \in 1 .. hi : Filed((f \o g)[c].text, h)
  <2>1. CASE c <= m
    <3>1. c \in DOMAIN f /\ (f \o g)[c] = f[c]
      BY <1>1, <1>2, <2>1
    <3> QED BY <1>3, <3>1 DEF Answers
  <2>2. CASE ~(c <= m)
    <3>1. c - m \in DOMAIN g /\ (f \o g)[c] = g[c - m]
      BY <1>1, <1>2, <2>2
    <3> QED BY <1>3, <3>1 DEF Answers
  <2> QED BY <2>1, <2>2
<1> QED BY <1>3 DEF Answers

LEMMA AnswersOn ==
    ASSUME NEW f, NEW hi \in Int, Answers(f, hi)
    PROVE  Answers(f, hi + 1)
<1>1. \A h \in 1 .. hi : h \in 1 .. hi + 1
  OBVIOUS
<1> QED BY <1>1 DEF Answers

\* What ends as provenance does not answer, and what ends as a unit is filed.
LEMMA AnswersUnit ==
    ASSUME NEW unit \in Units, NEW hi \in Int
    PROVE  /\ Answers(Provenance(unit), hi)
           /\ (unit.open => hi >= 1 /\ Filed(unit.text, hi)) => Answers(Finished(unit), hi)
<1>1. CASE unit.open
  <2> DEFINE closed == Chunk("provenance", unit)
             answer == Chunk("unit", unit)
  <2>1. /\ Provenance(unit) = <<closed>>
        /\ Finished(unit) = <<closed>> \/ Finished(unit) = <<answer>>
    BY <1>1 DEF Provenance, Finished
  <2>2. closed.kind = "provenance" /\ answer.kind = "unit" /\ answer.text = unit.text
    BY DEF Chunk
  <2> HIDE DEF closed, answer
  <2>3. Answers(<<closed>>, hi)
    BY <2>2 DEF Answers
  <2>4. ASSUME hi >= 1, Filed(unit.text, hi) PROVE Answers(<<answer>>, hi)
    <3>1. hi \in 1 .. hi
      BY <2>4
    <3>2. DOMAIN <<answer>> = {1} /\ <<answer>>[1] = answer
      OBVIOUS
    <3> QED BY <2>2, <2>4, <3>1, <3>2 DEF Answers
  <2> QED BY <1>1, <2>1, <2>3, <2>4
<1>2. CASE ~unit.open
  <2>1. Provenance(unit) = <<>> /\ Finished(unit) = <<>>
    BY <1>2 DEF Provenance, Finished
  <2> QED BY <2>1, AnswersNothing
<1> QED BY <1>1, <1>2

\* What a step of the assembly has to show for its chunks, its unit and what waits.
LEMMA AssembledUnits ==
    ASSUME SplitInv, NEW block, Assembling(block), contract.canonical = "primary",
           NEW out \in Seq(Chunks), chunks' = chunks \o out, Answers(out, pos),
           current'.open => Filed(current'.text, pos), Waits(pending'.text, pos)
    PROVE  UnitOK'
<1>1. /\ phase = "assemble" /\ phase' = phase /\ pos \in Nat /\ pos' = pos + 1
      /\ contract' = contract /\ blocks' = blocks /\ chunks \in Seq(Chunks)
  BY AssemblingProperties
<1>2. (\A b \in DOMAIN blocks : OneAnchor(blocks[b])) /\ Answers(chunks, pos - 1)
  BY <1>1 DEF SplitInv, UnitOK
<1>3. pos - 1 \in Int /\ (pos - 1) + 1 = pos /\ pos' - 1 = pos
  BY <1>1
<1>4. Answers(chunks, pos)
  <2>1. Answers(chunks, (pos - 1) + 1)
    BY <1>2, <1>3, AnswersOn
  <2> QED BY <1>3, <2>1
<1>5. Answers(chunks \o out, pos)
  BY <1>1, <1>4, AnswersBoth
<1>6. Answers(chunks', pos' - 1)
  BY <1>3, <1>5
<1>7. \A text, hi : Filed(text, hi)' <=> Filed(text, hi)
  BY <1>1 DEF Filed
<1>8. Answers(chunks, pos - 1)'
  BY <1>6, <1>7 DEF Answers
<1>9. (current.open => Filed(current.text, pos - 1))' /\ Waits(pending.text, pos - 1)'
  BY <1>1, <1>3 DEF Filed, Waits
<1>10. (\A b \in DOMAIN blocks : OneAnchor(blocks[b]))'
  BY <1>1, <1>2 DEF OneAnchor
<1> QED BY <1>1, <1>8, <1>9, <1>10 DEF UnitOK

\* What a step of the assembly may take for granted.
LEMMA AssemblingUnits ==
    ASSUME SplitInv, NEW block, Assembling(block), contract.canonical = "primary"
    PROVE  /\ pos \in Nat \ {0} /\ pos - 1 \in Nat /\ (pos - 1) + 1 = pos
           /\ block = blocks[pos] /\ block \in Blocks
           /\ current \in Units /\ pending \in Units /\ chunks \in Seq(Chunks)
           /\ OneAnchor(blocks[pos]) /\ Waits(pending.text, pos - 1) /\ Waits(<<>>, pos - 1)
           /\ (current.open => Filed(current.text, pos - 1) /\ pending = NoBlocks)
           /\ (~current.open => current = NoBlocks)
           /\ Answers(Finished(current), pos) /\ Answers(Provenance(pending), pos)
           /\ Answers(Provenance(Alone(block)), pos)
           /\ Finished(current) \in Seq(Chunks) /\ Provenance(pending) \in Seq(Chunks)
           /\ Provenance(Alone(block)) \in Seq(Chunks)
<1>1. /\ phase = "assemble" /\ pos \in 1 .. Len(blocks) /\ pos \in Nat
      /\ block = blocks[pos] /\ block \in Blocks
      /\ current \in Units /\ pending \in Units /\ chunks \in Seq(Chunks)
      /\ (~current.open => current = NoBlocks) /\ (~pending.open => pending = NoBlocks)
      /\ (current.open => pending = NoBlocks)
  BY AssemblingProperties
<1>2. blocks \in Seq(Blocks)
  BY DEF SplitInv, SplitTypeOK
<1>3. pos \in DOMAIN blocks /\ pos \in Nat \ {0} /\ pos - 1 \in Nat /\ (pos - 1) + 1 = pos
  BY <1>1, <1>2, LenProperties
<1>4. /\ OneAnchor(blocks[pos]) /\ Waits(pending.text, pos - 1)
      /\ (current.open => Filed(current.text, pos - 1))
  BY <1>1, <1>3 DEF SplitInv, UnitOK
<1>5. Waits(<<>>, pos - 1)
  BY <1>3, NothingWaits
<1>6. current.open => pos - 1 >= 1
  BY <1>3, <1>4 DEF Filed
<1>7. Answers(Finished(current), pos - 1)
  BY <1>1, <1>3, <1>4, <1>6, AnswersUnit
<1>8. Answers(Finished(current), pos)
  <2>1. Answers(Finished(current), (pos - 1) + 1)
    BY <1>3, <1>7, AnswersOn
  <2> QED BY <1>3, <2>1
<1>9. Alone(block) \in Units /\ Alone(block).open
  BY <1>1, AloneProperties
<1>10. Answers(Provenance(pending), pos) /\ Answers(Provenance(Alone(block)), pos)
  BY <1>1, <1>3, <1>9, AnswersUnit
<1>11. /\ Finished(current) \in Seq(Chunks) /\ Provenance(pending) \in Seq(Chunks)
       /\ Provenance(Alone(block)) \in Seq(Chunks)
  BY <1>1, <1>9, FinishedProperties DEF Out
<1> QED BY <1>1, <1>3, <1>4, <1>5, <1>8, <1>10, <1>11

\* In a document of primary anchors, only an anchor is a reference.
LEMMA NoReference ==
    ASSUME NEW block, contract.canonical = "primary"
    PROVE  /\ ~HasReference(block) =>
                \A k \in DOMAIN block.text : block.text[k].mark # "anchor"
           /\ HasReference(block) =>
                \E k \in DOMAIN block.text : block.text[k].mark = "anchor"
BY DEF HasReference, Positions

LEMMA StartUnitUnits ==
    ASSUME SplitInv, NEW block, StartUnit(block), contract.canonical = "primary"
    PROVE  UnitOK'
<1> DEFINE f == Finished(current)
           g == IF Attached(block) THEN <<>> ELSE Provenance(pending)
           waiting == IF Attached(block) THEN pending.text ELSE <<>>
<1>1. Assembling(block) /\ HasReference(block) /\ chunks' = chunks \o f \o g
      /\ current' = Opened(block) /\ pending' = NoBlocks
  BY DEF StartUnit
<1>2. /\ pos \in Nat \ {0} /\ pos - 1 \in Nat /\ (pos - 1) + 1 = pos
      /\ block = blocks[pos] /\ block \in Blocks
      /\ pending \in Units /\ chunks \in Seq(Chunks)
      /\ OneAnchor(blocks[pos]) /\ Waits(pending.text, pos - 1) /\ Waits(<<>>, pos - 1)
      /\ Answers(f, pos) /\ Answers(Provenance(pending), pos)
      /\ f \in Seq(Chunks) /\ Provenance(pending) \in Seq(Chunks)
  BY <1>1, AssemblingUnits
<1>3. g \in Seq(Chunks) /\ Answers(g, pos)
  BY <1>2, OutNothing, AnswersNothing
<1>4. Waits(waiting, pos - 1)
  BY <1>2
<1>5. Range(current'.text) = Range(blocks[pos].text) \cup Range(waiting)
  <2>1. block.text \in Seq(Tokens) /\ pending.text \in Seq(Tokens)
    BY <1>2, BlockShape, UnitShape
  <2>2. Range(<<>>) = {}
    BY DEF Range
  <2>3. Range(block.text \o pending.text) = Range(block.text) \cup Range(pending.text)
    BY <2>1, ConcatTexts
  <2>4. current'.text = IF Attached(block) THEN block.text \o pending.text ELSE block.text
    BY <1>1, <1>2, OpenedProperties
  <2> QED BY <1>2, <2>2, <2>3, <2>4
<1> HIDE DEF f, g, waiting
<1>6. PICK j \in DOMAIN blocks[pos].text : blocks[pos].text[j].mark = "anchor"
  BY <1>1, <1>2, NoReference
<1>7. Filed(current'.text, pos)
  <2>1. Filed(current'.text, (pos - 1) + 1)
    BY <1>2, <1>4, <1>5, <1>6, FiledFirst
  <2> QED BY <1>2, <2>1
<1>8. Waits(pending'.text, pos)
  BY <1>1, <1>2, NothingWaits, NoBlocksProperties
<1>9. /\ f \o g \in Seq(Chunks) /\ Answers(f \o g, pos)
      /\ chunks' = chunks \o (f \o g)
  BY <1>1, <1>2, <1>3, AnswersBoth, OutBoth
<1> QED BY <1>1, <1>7, <1>8, <1>9, AssembledUnits

LEMMA HoldBackUnits ==
    ASSUME SplitInv, NEW block, HoldBack(block), contract.canonical = "primary"
    PROVE  UnitOK'
<1>1. /\ Assembling(block) /\ ~HasReference(block) /\ pending' = Followed(pending, block)
      /\ current' = current /\ chunks' = chunks /\ ~current.open
  BY DEF HoldBack
<1>2. /\ pos - 1 \in Nat /\ (pos - 1) + 1 = pos
      /\ block = blocks[pos] /\ block \in Blocks
      /\ pending \in Units /\ chunks \in Seq(Chunks) /\ Waits(pending.text, pos - 1)
  BY <1>1, AssemblingUnits
<1>3. Range(pending'.text) = Range(pending.text) \cup Range(blocks[pos].text)
  BY <1>1, <1>2, FollowedProperties
<1>4. \A k \in DOMAIN blocks[pos].text : blocks[pos].text[k].mark # "anchor"
  BY <1>1, <1>2, NoReference
<1>5. Waits(pending'.text, pos)
  <2>1. Waits(pending'.text, (pos - 1) + 1)
    BY <1>2, <1>3, <1>4, WaitsOn
  <2> QED BY <1>2, <2>1
<1>6. <<>> \in Seq(Chunks) /\ Answers(<<>>, pos) /\ chunks' = chunks \o <<>>
  BY <1>1, <1>2, OutNothing, AnswersNothing
<1> QED BY <1>1, <1>5, <1>6, AssembledUnits

LEMMA UnassignedUnits ==
    ASSUME SplitInv, NEW block, Unassigned(block), contract.canonical = "primary"
    PROVE  UnitOK'
<1> DEFINE f == Provenance(pending)
           g == Provenance(Alone(block))
<1>1. /\ Assembling(block) /\ ~HasReference(block) /\ current' = current /\ ~current.open
      /\ IF Emitted(block)
           THEN chunks' = chunks \o f \o g /\ pending' = NoBlocks
           ELSE chunks' = chunks /\ pending' = pending
  BY DEF Unassigned
<1>2. /\ pos \in Nat \ {0} /\ pos - 1 \in Nat /\ (pos - 1) + 1 = pos
      /\ block = blocks[pos] /\ block \in Blocks
      /\ pending \in Units /\ chunks \in Seq(Chunks) /\ Waits(pending.text, pos - 1)
      /\ Answers(f, pos) /\ Answers(g, pos) /\ f \in Seq(Chunks) /\ g \in Seq(Chunks)
  BY <1>1, AssemblingUnits
<1> HIDE DEF f, g
<1>3. CASE Emitted(block)
  <2>1. /\ f \o g \in Seq(Chunks) /\ Answers(f \o g, pos)
        /\ chunks' = chunks \o (f \o g)
    BY <1>1, <1>2, <1>3, AnswersBoth, OutBoth
  <2>2. Waits(pending'.text, pos)
    BY <1>1, <1>2, <1>3, NothingWaits, NoBlocksProperties
  <2> QED BY <1>1, <2>1, <2>2, AssembledUnits
<1>4. CASE ~Emitted(block)
  <2>1. <<>> \in Seq(Chunks) /\ Answers(<<>>, pos) /\ chunks' = chunks \o <<>>
    BY <1>1, <1>2, <1>4, OutNothing, AnswersNothing
  <2>2. \A k \in DOMAIN blocks[pos].text : blocks[pos].text[k].mark # "anchor"
    BY <1>1, <1>2, NoReference
  <2>3. Waits(pending'.text, pos)
    <3>1. Waits(pending.text, (pos - 1) + 1)
      BY <1>2, <2>2, WaitsOn
    <3> QED BY <1>1, <1>2, <1>4, <3>1
  <2> QED BY <1>1, <2>1, <2>3, AssembledUnits
<1> QED BY <1>3, <1>4

LEMMA DetachUnits ==
    ASSUME SplitInv, NEW block, Detach(block), contract.canonical = "primary"
    PROVE  UnitOK'
<1> DEFINE f == Finished(current)
           g == IF Emitted(block) THEN Provenance(Alone(block)) ELSE <<>>
<1>1. /\ Assembling(block) /\ current.open /\ chunks' = chunks \o f \o g
      /\ current' = NoBlocks /\ pending' = pending
  BY DEF Detach
<1>2. /\ pos \in Nat \ {0} /\ chunks \in Seq(Chunks) /\ pending = NoBlocks
      /\ Answers(f, pos) /\ Answers(Provenance(Alone(block)), pos)
      /\ f \in Seq(Chunks) /\ Provenance(Alone(block)) \in Seq(Chunks)
  BY <1>1, AssemblingUnits
<1>3. g \in Seq(Chunks) /\ Answers(g, pos)
  BY <1>2, OutNothing, AnswersNothing
<1> HIDE DEF f, g
<1>4. /\ f \o g \in Seq(Chunks) /\ Answers(f \o g, pos)
      /\ chunks' = chunks \o (f \o g)
  BY <1>1, <1>2, <1>3, AnswersBoth, OutBoth
<1>5. ~current'.open
  BY <1>1, NoBlocksProperties
<1>6. Waits(pending'.text, pos)
  BY <1>1, <1>2, NothingWaits, NoBlocksProperties
<1> QED BY <1>1, <1>4, <1>5, <1>6, AssembledUnits

LEMMA ContinueUnitUnits ==
    ASSUME SplitInv, NEW block, ContinueUnit(block), contract.canonical = "primary"
    PROVE  UnitOK'
<1>1. /\ Assembling(block) /\ ~HasReference(block) /\ current.open
      /\ current' = IF Emitted(block) THEN Followed(current, block) ELSE current
      /\ pending' = pending /\ chunks' = chunks
  BY DEF ContinueUnit
<1>2. /\ pos \in Nat \ {0} /\ pos - 1 \in Nat /\ (pos - 1) + 1 = pos
      /\ block = blocks[pos] /\ block \in Blocks
      /\ current \in Units /\ chunks \in Seq(Chunks) /\ pending = NoBlocks
      /\ Filed(current.text, pos - 1)
  BY <1>1, AssemblingUnits
<1>3. \A k \in DOMAIN blocks[pos].text : blocks[pos].text[k].mark # "anchor"
  BY <1>1, <1>2, NoReference
<1>4. /\ Range(current.text) \subseteq Range(current'.text)
      /\ Range(current'.text) \subseteq Range(current.text) \cup Range(blocks[pos].text)
  <2>1. Range(Followed(current, block).text) = Range(current.text) \cup Range(block.text)
    BY <1>2, FollowedProperties
  <2> QED BY <1>1, <1>2, <2>1
<1>5. Filed(current'.text, pos)
  <2>1. Filed(current'.text, (pos - 1) + 1)
    BY <1>2, <1>3, <1>4, FiledOn
  <2> QED BY <1>2, <2>1
<1>6. Waits(pending'.text, pos)
  BY <1>1, <1>2, NothingWaits, NoBlocksProperties
<1>7. <<>> \in Seq(Chunks) /\ Answers(<<>>, pos) /\ chunks' = chunks \o <<>>
  BY <1>1, <1>2, OutNothing, AnswersNothing
<1> QED BY <1>1, <1>5, <1>6, <1>7, AssembledUnits

LEMMA EndUnitsUnits ==
    ASSUME SplitInv, EndUnits, contract.canonical = "primary"
    PROVE  UnitOK'
<1> DEFINE f == Provenance(pending)
           g == Finished(current)
<1>1. /\ phase = "assemble" /\ phase' = "next" /\ chunks' = chunks \o f \o g
      /\ contract' = contract /\ blocks' = blocks /\ pos' = pos
  BY DEF EndUnits, inputVars
<1>2. /\ pos \in Nat \ {0} /\ current \in Units /\ pending \in Units /\ chunks \in Seq(Chunks)
      /\ (~current.open => current = NoBlocks) /\ (~pending.open => pending = NoBlocks)
  BY DEF SplitInv, SplitTypeOK, StageOK
<1>3. /\ (current.open => Filed(current.text, pos - 1)) /\ Answers(chunks, pos - 1)
      /\ \A b \in DOMAIN blocks : OneAnchor(blocks[b])
  BY <1>1 DEF SplitInv, UnitOK
<1>4. current.open => pos - 1 >= 1
  BY <1>2, <1>3 DEF Filed
<1>5. pos - 1 \in Int
  BY <1>2
<1>6. Answers(f, pos - 1) /\ Answers(g, pos - 1)
  BY <1>2, <1>3, <1>4, <1>5, AnswersUnit
<1>7. f \in Seq(Chunks) /\ g \in Seq(Chunks)
  BY <1>2, FinishedProperties DEF Out
<1> HIDE DEF f, g
<1>8. Answers(chunks \o f, pos - 1) /\ chunks \o f \in Seq(Chunks)
  BY <1>2, <1>3, <1>6, <1>7, AnswersBoth, OutBoth
<1>9. Answers(chunks', pos - 1)
  BY <1>1, <1>6, <1>7, <1>8, AnswersBoth
<1>10. \A text, hi : Filed(text, hi)' <=> Filed(text, hi)
  BY <1>1 DEF Filed
<1>11. Answers(chunks, pos - 1)'
  BY <1>1, <1>9, <1>10 DEF Answers
<1>12. (\A b \in DOMAIN blocks : OneAnchor(blocks[b]))'
  BY <1>1, <1>3 DEF OneAnchor
<1> QED BY <1>1, <1>11, <1>12 DEF UnitOK

\* With primary references every block that is cut has one anchor at most.
LEMMA ExpandAnchors ==
    ASSUME NEW block \in Blocks, contract.canonical = "primary"
    PROVE  \A b \in DOMAIN Expand(block) : OneAnchor(Expand(block)[b])
<1> DEFINE text == block.text
           pieces == Pieces(text)
           S == Positions(text, IF contract.inline = "starts_unit"
                                THEN {"anchor", "inline"} ELSE {"anchor"})
           n == Cardinality(S)
<1>1. text \in Seq(Tokens) /\ Len(text) \in Nat /\ DOMAIN text = 1 .. Len(text)
  BY BlockShape, LenProperties
<1>2. pieces = CutAt(text, S) /\ DOMAIN pieces = 1 .. n
  BY DEF Pieces, PrimaryPieces, CutAt
<1>3. n \in Nat /\ (S # {} => Cuts(S, Len(text)))
  BY <1>1, PositionsProperties
<1>4. Len(pieces) = n
  BY <1>2, <1>3
<1>5. \A j \in DOMAIN text : text[j].mark = "anchor" => j \in S
  BY DEF Positions
<1>6. CASE Len(pieces) <= 1
  <2>1. Expand(block) = <<block>>
    BY <1>6 DEF Expand
  <2>2. ASSUME NEW j \in DOMAIN text, NEW k \in DOMAIN text,
               text[j].mark = "anchor", text[k].mark = "anchor"
        PROVE  j = k
    <3>1. j \in S /\ k \in S
      BY <1>5, <2>2
    <3> HIDE DEF pieces, S
    <3>2. Cuts(S, Len(text))
      BY <1>3, <3>1
    <3>3. n \in Nat \ {0}
      BY <1>1, <3>2, SpanProperties
    <3>4. n = 1
      BY <1>4, <1>6, <3>3
    <3>5. From(S, 1) = 1 /\ To(S, 1, Len(text)) = Len(text)
      BY <3>4 DEF From, To
    <3>6. j \in 1 .. Len(text) /\ k \in 1 .. Len(text)
      BY <1>1
    <3> HIDE DEF text
    <3>7. j = Nth(S, 1) /\ k = Nth(S, 1)
      BY <1>1, <3>1, <3>2, <3>4, <3>5, <3>6, SpanProperties
    <3> QED BY <3>7
  <2>3. OneAnchor(block)
    BY <2>2 DEF OneAnchor
  <2> QED BY <2>1, <2>3
<1>7. CASE ~(Len(pieces) <= 1)
  <2>1. Expand(block) = [k \in DOMAIN pieces |-> [block EXCEPT !.text = pieces[k]]]
    BY <1>7 DEF Expand
  <2>2. n # 0
    BY <1>3, <1>4, <1>7
  <2>3. Cuts(S, Len(text))
    <3>1. S # {}
      BY <2>2, FS_EmptySet
    <3> QED BY <1>3, <3>1
  <2>4. ASSUME NEW b \in 1 .. n
        PROVE  OneAnchor([block EXCEPT !.text = pieces[b]])
    <3> DEFINE piece == CutAt(text, S)[b]
    <3>1. \A i \in DOMAIN piece :
            /\ From(S, b) + i - 1 \in DOMAIN text
            /\ From(S, b) + i - 1 >= From(S, b) /\ From(S, b) + i - 1 <= To(S, b, Len(text))
            /\ piece[i] = text[From(S, b) + i - 1]
      BY <1>1, <2>3, PieceProperties
    <3>2. piece \in Seq(Tokens)
      BY <1>1, <2>3, PieceProperties
    <3>3. pieces[b] = piece
      BY <1>2
    <3>4. From(S, b) \in Int
      BY <1>1, <2>3, SpanProperties
    <3> HIDE DEF piece, pieces, S
    <3>5. [block EXCEPT !.text = pieces[b]].text = piece
      BY <3>2, <3>3, WithText
    <3>6. ASSUME NEW j \in DOMAIN piece, NEW k \in DOMAIN piece,
                 piece[j].mark = "anchor", piece[k].mark = "anchor"
          PROVE  j = k
      <4>1. From(S, b) + j - 1 \in S /\ From(S, b) + k - 1 \in S
        BY <1>5, <3>1, <3>6
      <4>2. From(S, b) + j - 1 = Nth(S, b) /\ From(S, b) + k - 1 = Nth(S, b)
        BY <1>1, <2>3, <3>1, <4>1, SpanProperties
      <4>3. j \in Int /\ k \in Int
        BY <3>2, LenProperties
      <4> QED BY <3>4, <4>2, <4>3
    <3> HIDE DEF n, text
    <3> QED BY <3>5, <3>6 DEF OneAnchor
  <2> HIDE DEF pieces, n
  <2> QED BY <1>2, <2>1, <2>4
<1> QED BY <1>6, <1>7

\* Before the assembly there are no chunks to answer.
LEMMA LoopUnits ==
    ASSUME SplitInv, NormalizeItem \/ Stitch \/ Order \/ Cut \/ LoopEnds
    PROVE  UnitOK'
<1> SUFFICES ASSUME contract'.canonical = "primary" PROVE UnitOK'
  BY DEF UnitOK
<1>1. /\ phase \in {"normalize", "stitch", "order", "cut"}
      /\ contract' = contract /\ chunks' = chunks /\ current' = current /\ pending' = pending
      /\ handled' = handled
  BY DEF NormalizeItem, Stitch, Order, Cut, LoopEnds, inputVars, normalVars, unitVars
<1>2. chunks = <<>> /\ current = NoBlocks /\ pending = NoBlocks
  BY <1>1 DEF SplitInv, StageOK
<1>3. Answers(chunks, pos - 1)'
  BY <1>1, <1>2 DEF Answers
<1>4. CASE NormalizeItem \/ Stitch
  <2>1. phase' \in {"normalize", "stitch"}
    BY <1>4 DEF NormalizeItem, Stitch
  <2> QED BY <1>3, <2>1 DEF UnitOK
<1>5. CASE Order
  <2>1. phase' = "cut" /\ made' = made /\ made = <<>>
    BY <1>5 DEF Order, SplitInv, StageOK
  <2> QED BY <1>3, <2>1 DEF UnitOK
<1>6. CASE Cut
  <2> DEFINE more == Expand(blocks[pos])
  <2>1. phase = "cut" /\ phase' = "cut" /\ made' = made \o more
        /\ blocks \in Seq(Blocks) /\ made \in Seq(Blocks) /\ pos \in 1 .. Len(blocks)
    BY <1>6, LenProperties DEF SplitInv, SplitTypeOK, Cut
  <2>2. blocks[pos] \in Blocks
    BY <2>1, ElementOfSeq
  <2>3. more \in Seq(Blocks) /\ \A b \in DOMAIN more : OneAnchor(more[b])
    BY <1>1, <2>2, ExpandProperties, ExpandAnchors
  <2>4. \A b \in DOMAIN made : OneAnchor(made[b])
    BY <1>1, <2>1 DEF SplitInv, UnitOK
  <2> HIDE DEF more
  <2> DEFINE k == Len(made)
             m == Len(more)
  <2>5. k \in Nat /\ m \in Nat /\ DOMAIN made = 1 .. k /\ DOMAIN more = 1 .. m
    BY <2>1, <2>3, LenProperties
  <2>6. /\ DOMAIN (made \o more) = 1 .. k + m
        /\ \A b \in 1 .. k + m : (made \o more)[b] = IF b <= k THEN made[b] ELSE more[b - k]
    BY <2>1, <2>3, <2>5
  <2> HIDE DEF k, m
  <2>7. \A b \in 1 .. k + m : b \in 1 .. k \/ (~(b <= k) /\ b - k \in 1 .. m)
    BY <2>5
  <2>8. \A b \in DOMAIN made' : OneAnchor(made'[b])
    <3> SUFFICES ASSUME NEW b \in 1 .. k + m PROVE OneAnchor((made \o more)[b])
      BY <2>1, <2>6
    <3>1. CASE b \in 1 .. k
      BY <2>4, <2>5, <2>6, <3>1
    <3>2. CASE ~(b <= k) /\ b - k \in 1 .. m
      BY <2>3, <2>5, <2>6, <3>2
    <3> QED BY <2>7, <3>1, <3>2
  <2>9. (\A b \in DOMAIN made : OneAnchor(made[b]))'
    BY <2>8 DEF OneAnchor
  <2> QED BY <1>3, <2>1, <2>9 DEF UnitOK
<1>7. CASE LoopEnds
  <2>1. /\ pos' = 1 /\ blocks' = made
        /\ phase' = CASE phase = "normalize" -> "stitch"
                      [] phase = "stitch" -> IF Canonical THEN "order" ELSE "group"
                      [] phase = "cut" -> "assemble"
    BY <1>7 DEF LoopEnds
  <2>2. CASE phase \in {"normalize", "stitch"}
    <3>1. phase' \in {"stitch", "order", "group"}
      BY <2>1, <2>2
    <3> QED BY <1>3, <3>1 DEF UnitOK
  <2>3. CASE phase = "cut"
    <3>1. phase' = "assemble"
      BY <2>1, <2>3
    <3>2. (\A b \in DOMAIN blocks : OneAnchor(blocks[b]))'
      BY <1>1, <2>1, <2>3 DEF SplitInv, UnitOK, OneAnchor
    <3>3. ~current'.open /\ pending'.text = <<>> /\ pos' - 1 = 0
      BY <1>1, <1>2, <2>1, NoBlocksProperties
    <3>4. Waits(pending.text, pos - 1)'
      <4>1. pos' \in 1 .. (pos' - 1) + 1 /\ pos' .. pos' - 1 = {}
        BY <2>1
      <4>2. Range(pending'.text) = {}
        BY <3>3 DEF Range
      <4> QED BY <4>1, <4>2 DEF Waits
    <3> QED BY <1>3, <3>1, <3>2, <3>3, <3>4 DEF UnitOK
  <2>4. CASE phase = "order"
    BY <1>7, <2>4 DEF LoopEnds
  <2> QED BY <1>1, <2>2, <2>3, <2>4
<1> QED BY <1>4, <1>5, <1>6, <1>7

\* Taking and leaving chunks of the parser changes nothing that units are made of.
LEMMA ParserChunkUnits ==
    ASSUME SplitInv, SkipParserChunk \/ TakeParserChunk \/ Finish
    PROVE  UnitOK'
<1>1. /\ phase = "next" /\ phase' \in {"next", "normalize", "done"}
      /\ UNCHANGED <<contract, blocks, pos, made, chunks>>
  BY DEF SkipParserChunk, TakeParserChunk, Finish, inputVars
<1>2. \A text, hi : Filed(text, hi)' <=> Filed(text, hi)
  BY <1>1 DEF Filed
<1>3. Answers(chunks, pos - 1) => Answers(chunks, pos - 1)'
  BY <1>1, <1>2 DEF Answers
<1>4. (\A b \in DOMAIN blocks : OneAnchor(blocks[b]))
        => (\A b \in DOMAIN blocks : OneAnchor(blocks[b]))'
  BY <1>1 DEF OneAnchor
<1> QED BY <1>1, <1>3, <1>4 DEF SplitInv, UnitOK

-----------------------------------------------------------------------------
(* The invariant holds *)

LEMMA SplitInitInv == SplitInit => SplitInv
<1> SUFFICES ASSUME SplitInit PROVE SplitInv
  OBVIOUS
<1>1. /\ contract \in Contracts /\ items \in Documents[contract]
      /\ phase = "next" /\ left = ParserChunks /\ handled = FALSE
      /\ blocks = <<>> /\ pos = 1 /\ made = <<>>
      /\ recovered = [i \in DOMAIN items |-> <<>>] /\ visionCalls = <<>>
      /\ current = NoBlocks /\ pending = NoBlocks /\ chunks = <<>>
  BY DEF SplitInit
<1>2. /\ <<>> \in Seq(Blocks) /\ <<>> \in Seq(Tokens) /\ <<>> \in Seq(Nat) /\ <<>> \in Seq(Chunks)
      /\ DOMAIN <<>> = {}
  OBVIOUS
<1>3. SplitTypeOK
  <2>1. ParserChunks \in Nat
    BY ChunksAssumption
  <2>2. recovered \in [DOMAIN items -> Seq(Tokens)]
    BY <1>1, <1>2
  <2>3. current \in Units /\ pending \in Units
    BY <1>1, NoBlocksProperties
  <2>4. left \in Nat /\ pos \in Nat \ {0}
    BY <1>1, <2>1
  <2>5. handled \in BOOLEAN
    BY <1>1
  <2> QED BY <1>1, <1>2, <2>2, <2>3, <2>4, <2>5 DEF SplitTypeOK
<1>4. StageOK
  <2>1. Len(items) \in Nat
    BY <1>3, ItemsType, LenProperties
  <2> QED BY <1>1, <2>1, NoBlocksProperties DEF StageOK
<1>5. RecoveredOK
  BY <1>1, NothingOfItem DEF RecoveredOK
<1>6. Taken = {}
  BY <1>1 DEF Taken
<1>7. /\ InMade = {} /\ InBlocks = {} /\ InCurrent = {} /\ InPending = {} /\ InChunks = {}
      /\ Once(made, 1) /\ Once(blocks, 1) /\ Once(chunks, 1)
      /\ Distinct(current.text) /\ Distinct(pending.text)
  BY <1>1, EmptyTokens, NoBlocksProperties DEF InMade, InBlocks, InCurrent, InPending, InChunks
<1>8. Apart /\ Held = {} /\ Due = {}
  BY <1>6, <1>7 DEF Apart, Held, Due
<1>9. TextOK /\ WarnOK
  BY <1>6, <1>8 DEF TextOK, WarnOK
<1>10. UnitOK
  BY <1>1, <1>2 DEF UnitOK, Answers
<1> QED BY <1>3, <1>4, <1>5, <1>9, <1>10 DEF SplitInv

LEMMA SplitNextInv == SplitInv /\ [SplitNext]_splitVars => SplitInv'
<1> SUFFICES ASSUME SplitInv, [SplitNext]_splitVars PROVE SplitInv'
  OBVIOUS
<1>1. RecoveredOK /\ TextOK /\ WarnOK
  BY DEF SplitInv
<1>2. CASE NormalizeItem
  BY <1>2, NormalizeItemStep, LoopUnits DEF SplitInv
<1>3. ASSUME (SplitTypeOK /\ StageOK)', Moves, Taken' = Taken, UnitOK',
             UNCHANGED <<contract, items, recovered>>
      PROVE  SplitInv'
  BY <1>1, <1>3, MovesKeep DEF SplitInv
<1>4. CASE SkipParserChunk \/ TakeParserChunk \/ Finish
  <2>1. UNCHANGED <<contract, items, recovered>>
    BY <1>4 DEF SkipParserChunk, TakeParserChunk, Finish, inputVars, normalVars
  <2> QED BY <1>3, <1>4, <2>1, ParserChunkStep, ParserChunkUnits
<1>5. CASE LoopEnds \/ Stitch \/ Order \/ Cut
  <2>1. UNCHANGED <<contract, items, recovered>>
    BY <1>5 DEF LoopEnds, Stitch, Order, Cut, inputVars, normalVars
  <2>2. (SplitTypeOK /\ StageOK)' /\ Moves /\ Taken' = Taken
    BY <1>5, LoopEndsStep, StitchStep, OrderStep, CutStep
  <2>3. UnitOK'
    BY <1>5, LoopUnits
  <2> QED BY <1>3, <2>1, <2>2, <2>3
<1>6. ASSUME NEW block, StartUnit(block) \/ HoldBack(block) \/ Unassigned(block)
                        \/ Detach(block) \/ ContinueUnit(block)
      PROVE  SplitInv'
  <2>1. Assembling(block)
    BY <1>6 DEF StartUnit, HoldBack, Unassigned, Detach, ContinueUnit
  <2>2. UNCHANGED <<contract, items, recovered>>
    BY <2>1, AssemblingProperties
  <2>3. (SplitTypeOK /\ StageOK)' /\ Moves /\ Taken' = Taken
    BY <1>6, StartUnitStep, HoldBackStep, UnassignedStep, DetachStep, ContinueUnitStep
  <2>4. contract.canonical = "primary" => UnitOK'
    BY <1>6, StartUnitUnits, HoldBackUnits, UnassignedUnits, DetachUnits, ContinueUnitUnits
  <2>5. contract.canonical # "primary" => UnitOK'
    BY <2>2 DEF UnitOK
  <2> QED BY <1>3, <2>2, <2>3, <2>4, <2>5
<1>7. CASE EndUnits
  <2>1. UNCHANGED <<contract, items, recovered>>
    BY <1>7 DEF EndUnits, inputVars, normalVars
  <2>2. contract.canonical # "primary" => UnitOK'
    BY <2>1 DEF UnitOK
  <2> QED BY <1>3, <1>7, <2>1, <2>2, EndUnitsStep, EndUnitsUnits
<1>8. ASSUME NEW block, Group(block) \/ EndGroups
      PROVE  SplitInv'
  <2>1. UNCHANGED <<contract, items, recovered>> /\ phase = "group"
    BY <1>8 DEF Group, EndGroups, inputVars, normalVars
  <2>2. contract.canonical # "primary"
    BY <2>1 DEF SplitInv, StageOK, Canonical
  <2>3. UnitOK'
    BY <2>1, <2>2 DEF UnitOK
  <2>4. (SplitTypeOK /\ StageOK)' /\ Moves /\ Taken' = Taken
    BY <1>8, GroupStep, EndGroupsStep
  <2> QED BY <1>3, <2>1, <2>3, <2>4
<1>9. CASE UNCHANGED splitVars
  <2>1. /\ UNCHANGED <<contract, items, phase, left, handled, blocks, pos, made, recovered>>
        /\ UNCHANGED <<visionCalls, current, pending, chunks>>
    BY <1>9 DEF splitVars
  <2>2. Moves
    BY <2>1, StaysPut
  <2>3. SplitTypeOK' /\ StageOK' /\ Taken' = Taken
    BY <2>1 DEF SplitInv, SplitTypeOK, StageOK, Canonical, Taken
  <2>4. UnitOK'
    <3>1. UnitOK
      BY DEF SplitInv
    <3> QED BY <2>1, <3>1 DEF UnitOK, Answers, Filed, Waits, OneAnchor
  <2> QED BY <1>3, <2>1, <2>2, <2>3, <2>4
<1>10. CASE SplitNext
  BY <1>2, <1>4, <1>5, <1>6, <1>7, <1>8, <1>9, <1>10 DEF SplitNext, Split, Assemble, Done
<1> QED BY <1>9, <1>10

\* The invariant of a split.
LEMMA SplitInvariant == SplitSpec => []SplitInv
<1> QED BY SplitInitInv, SplitNextInv, PTL DEF SplitSpec

-----------------------------------------------------------------------------
(* The theorems *)

\* When the split is done everything kept of the items is in a chunk, and nowhere else.
LEMMA DoneHolds ==
    ASSUME SplitInv, phase = "done"
    PROVE  /\ InChunks \subseteq Due
           /\ Due = UNION {Range(Expected(i)) : i \in DOMAIN items}
           /\ contract.canonical # "contextual" => Due \subseteq InChunks /\ Once(chunks, 1)
           /\ WarnOK /\ Taken = DOMAIN items /\ Warnings = WarnsOf(chunks, 1)
<1>1. /\ handled /\ made = <<>> /\ pos = Len(blocks) + 1 /\ blocks \in Seq(Blocks)
      /\ current = NoBlocks /\ pending = NoBlocks
  BY DEF SplitInv, SplitTypeOK, StageOK
<1>2. Taken = DOMAIN items
  BY <1>1 DEF Taken
<1>3. InMade = {} /\ WarnsOf(made, 1) = {}
  BY <1>1, EmptyTokens DEF InMade
<1>4. InBlocks = {} /\ WarnsOf(blocks, pos) = {}
  <2>1. Len(blocks) \in Nat
    BY <1>1, LenProperties
  <2>2. pos .. Len(blocks) = {}
    BY <1>1, <2>1
  <2> QED BY <2>2 DEF InBlocks, TokensOf, WarnsOf
<1>5. /\ InCurrent = {} /\ InPending = {} /\ current.warns = {} /\ pending.warns = {}
  BY <1>1, NoBlocksProperties DEF InCurrent, InPending
<1>6. Held = InChunks
  BY <1>3, <1>4, <1>5 DEF Held
<1>7. Warnings = WarnsOf(chunks, 1)
  BY <1>3, <1>4, <1>5 DEF Warnings
<1> QED BY <1>2, <1>6, <1>7 DEF SplitInv, TextOK, Apart, Due

LEMMA KeptOnce == SplitInv => TextIsKeptOnce
<1> SUFFICES ASSUME SplitInv, phase = "done" PROVE TextIsKeptOnce
  BY DEF TextIsKeptOnce
<1>1. /\ InChunks \subseteq Due
      /\ Due = UNION {Range(Expected(i)) : i \in DOMAIN items}
      /\ contract.canonical # "contextual" => Due \subseteq InChunks /\ Once(chunks, 1)
  BY DoneHolds
<1>2. chunks \in Seq(Chunks) /\ DOMAIN chunks = 1 .. Len(chunks)
  BY LenProperties DEF SplitInv, SplitTypeOK
<1>3. ASSUME NEW c \in DOMAIN chunks, NEW k \in DOMAIN chunks[c].text
      PROVE  \E i \in DOMAIN items : chunks[c].text[k] \in Range(Expected(i))
  <2>1. chunks[c].text[k] \in InChunks
    BY <1>2 DEF InChunks, TokensOf, Range
  <2> QED BY <1>1, <2>1
<1>4. ASSUME contract.canonical # "contextual", NEW i \in DOMAIN items,
             NEW token \in Range(Expected(i))
      PROVE  Cardinality(Occurrences(token)) = 1
  <2>1. token \in InChunks /\ Once(chunks, 1)
    BY <1>1, <1>4
  <2>2. PICK c \in 1 .. Len(chunks) : token \in Range(chunks[c].text)
    BY <2>1 DEF InChunks, TokensOf
  <2>3. PICK k \in DOMAIN chunks[c].text : chunks[c].text[k] = token
    BY <2>2 DEF Range
  <2>4. <<c, k>> \in Occurrences(token)
    <3>1. <<c, k>> \in UNION {{d} \X DOMAIN chunks[d].text : d \in DOMAIN chunks}
      BY <1>2
    <3> QED BY <2>3, <3>1 DEF Occurrences
  <2>5. ASSUME NEW p \in Occurrences(token) PROVE p = <<c, k>>
    <3>1. PICK d \in DOMAIN chunks : p \in {d} \X DOMAIN chunks[d].text
      BY DEF Occurrences
    <3>2. PICK j \in DOMAIN chunks[d].text : p = <<d, j>>
      BY <3>1
    <3>3. chunks[d].text[j] = token
      BY <3>2 DEF Occurrences
    <3>4. d = c /\ j = k
      BY <1>2, <2>1, <2>3, <3>3, OnceMeans
    <3> QED BY <3>2, <3>4
  <2>6. Occurrences(token) = {<<c, k>>}
    BY <2>4, <2>5
  <2> QED BY <2>6, FS_Singleton
<1> QED BY <1>3, <1>4 DEF TextIsKeptOnce

LEMMA WarningsKept == SplitInv => WarningsAreKept
<1> SUFFICES ASSUME SplitInv, phase = "done", NEW i \in DOMAIN items, MustWarn(i)
             PROVE  \E c \in DOMAIN chunks : i \in chunks[c].warns
  BY DEF WarningsAreKept
<1>1. WarnOK /\ Taken = DOMAIN items /\ Warnings = WarnsOf(chunks, 1)
  BY DoneHolds
<1>2. i \in WarnsOf(chunks, 1)
  BY <1>1 DEF WarnOK
<1>3. chunks \in Seq(Chunks) /\ DOMAIN chunks = 1 .. Len(chunks)
  BY LenProperties DEF SplitInv, SplitTypeOK
<1> QED BY <1>2, <1>3 DEF WarnsOf

\* A token that was read is at one place.
LEMMA OnePlace ==
    ASSUME blocks \in Seq(Blocks), Once(blocks, 1), pos \in Nat, pos <= Len(blocks) + 1,
           NEW b \in 1 .. pos - 1, NEW k \in DOMAIN blocks[b].text
    PROVE  PlaceOf(blocks[b].text[k]) = <<b, k>>
<1> DEFINE token == blocks[b].text[k]
           p == PlaceOf(token)
<1>1. <<b, k>> \in Read /\ TokenAt(<<b, k>>) = token
  BY DEF Read, TokenAt
<1>2. p \in Read /\ TokenAt(p) = token
  BY <1>1 DEF PlaceOf
<1> HIDE DEF p
<1>3. PICK d \in 1 .. pos - 1 : p \in {d} \X DOMAIN blocks[d].text
  BY <1>2 DEF Read
<1>4. PICK j \in DOMAIN blocks[d].text : p = <<d, j>>
  BY <1>3
<1>5. blocks[d].text[j] = token
  BY <1>2, <1>4 DEF TokenAt
<1>6. b \in 1 .. Len(blocks) /\ d \in 1 .. Len(blocks)
  BY LenProperties
<1>7. d = b /\ j = k
  BY <1>5, <1>6, OnceMeans
<1> QED BY <1>4, <1>7 DEF p

LEMMA ReadTogether == SplitInv => UnitsReadTogether
<1> SUFFICES ASSUME SplitInv, phase \in {"assemble", "next", "done"},
                    contract.canonical = "primary",
                    NEW c \in DOMAIN chunks, chunks[c].kind = "unit"
             PROVE  /\ Cardinality(Positions(chunks[c].text, {"anchor"})) = 1
                    /\ \A x \in Positions(chunks[c].text, {"anchor"}) :
                        \A k \in DOMAIN chunks[c].text : \A other \in Read :
                            TokenAt(other).mark = "anchor" =>
                                /\ ~Between(PlaceOf(chunks[c].text[x]), other,
                                            PlaceOf(chunks[c].text[k]))
                                /\ ~Between(PlaceOf(chunks[c].text[k]), other,
                                            PlaceOf(chunks[c].text[x]))
  BY DEF UnitsReadTogether
<1> DEFINE text == chunks[c].text
<1>1. /\ blocks \in Seq(Blocks) /\ chunks \in Seq(Chunks) /\ pos \in Nat \ {0}
      /\ Once(blocks, 1) /\ Once(chunks, 1)
  BY DEF SplitInv, SplitTypeOK, TextOK, Apart
<1>2. Len(blocks) \in Nat /\ DOMAIN chunks = 1 .. Len(chunks)
  BY <1>1, LenProperties
<1>3. pos <= Len(blocks) + 1
  <2>1. CASE phase = "assemble" \/ handled
    BY <1>1, <1>2, <2>1 DEF SplitInv, StageOK
  <2>2. CASE phase # "assemble" /\ ~handled
    <3>1. chunks = <<>>
      BY <2>2 DEF SplitInv, StageOK
    <3> QED BY <3>1
  <2> QED BY <2>1, <2>2
<1>4. PICK h \in 1 .. pos - 1 : Filed(text, h)
  BY DEF SplitInv, UnitOK, Answers
<1>5. PICK lo \in 1 .. h, a \in 1 .. h : lo <= a /\ \E j \in DOMAIN blocks[a].text :
        /\ blocks[a].text[j].mark = "anchor" /\ blocks[a].text[j] \in Range(text)
        /\ \A b \in lo .. h : \A k \in DOMAIN blocks[b].text :
                blocks[b].text[k].mark = "anchor" => b = a /\ k = j
        /\ \A t \in Range(text) : \E b \in lo .. h : t \in Range(blocks[b].text)
  BY <1>4 DEF Filed
<1>6. PICK j \in DOMAIN blocks[a].text :
        /\ blocks[a].text[j].mark = "anchor" /\ blocks[a].text[j] \in Range(text)
        /\ \A b \in lo .. h : \A k \in DOMAIN blocks[b].text :
                blocks[b].text[k].mark = "anchor" => b = a /\ k = j
        /\ \A t \in Range(text) : \E b \in lo .. h : t \in Range(blocks[b].text)
  BY <1>5
<1> HIDE DEF text
<1>7. ASSUME NEW k \in DOMAIN text
      PROVE  \E b \in lo .. h : \E m \in DOMAIN blocks[b].text :
                text[k] = blocks[b].text[m] /\ PlaceOf(text[k]) = <<b, m>>
  <2>1. PICK b \in lo .. h : text[k] \in Range(blocks[b].text)
    BY <1>6, <1>7 DEF Range
  <2>2. PICK m \in DOMAIN blocks[b].text : text[k] = blocks[b].text[m]
    BY <2>1 DEF Range
  <2>3. b \in 1 .. pos - 1 /\ pos \in Nat
    BY <1>1
  <2>4. PlaceOf(blocks[b].text[m]) = <<b, m>>
    BY <1>1, <1>3, <2>3, OnePlace
  <2> QED BY <2>2, <2>4
<1>8. \A x, y \in DOMAIN text : text[x] = text[y] => x = y
  BY <1>1, <1>2, OnceMeans DEF text
<1>9. ASSUME NEW x \in Positions(text, {"anchor"})
      PROVE  x \in DOMAIN text /\ text[x] = blocks[a].text[j] /\ PlaceOf(text[x]) = <<a, j>>
  <2>1. x \in DOMAIN text /\ text[x].mark = "anchor"
    BY DEF Positions
  <2>2. PICK b \in lo .. h : \E m \in DOMAIN blocks[b].text :
            text[x] = blocks[b].text[m] /\ PlaceOf(text[x]) = <<b, m>>
    BY <1>7, <2>1
  <2>3. PICK m \in DOMAIN blocks[b].text :
            text[x] = blocks[b].text[m] /\ PlaceOf(text[x]) = <<b, m>>
    BY <2>2
  <2>4. b = a /\ m = j
    BY <1>6, <2>1, <2>3
  <2> QED BY <2>1, <2>3, <2>4
<1>10. PICK x \in DOMAIN text : text[x] = blocks[a].text[j]
  BY <1>6 DEF Range
<1>11. Positions(text, {"anchor"}) = {x}
  <2>1. x \in Positions(text, {"anchor"})
    BY <1>6, <1>10 DEF Positions
  <2>2. \A y \in Positions(text, {"anchor"}) : y = x
    BY <1>8, <1>9, <1>10
  <2> QED BY <2>1, <2>2
<1>12. Cardinality(Positions(text, {"anchor"})) = 1
  BY <1>11, FS_Singleton
<1>13. ASSUME NEW k \in DOMAIN text, NEW other \in Read, TokenAt(other).mark = "anchor"
       PROVE  /\ ~Between(<<a, j>>, other, PlaceOf(text[k]))
              /\ ~Between(PlaceOf(text[k]), other, <<a, j>>)
  <2>1. PICK d \in 1 .. pos - 1 : other \in {d} \X DOMAIN blocks[d].text
    BY DEF Read
  <2>2. PICK n \in DOMAIN blocks[d].text : other = <<d, n>>
    BY <2>1
  <2>3. blocks[d].text[n].mark = "anchor"
    BY <1>13, <2>2 DEF TokenAt
  <2>4. PICK b \in lo .. h : \E m \in DOMAIN blocks[b].text :
            text[k] = blocks[b].text[m] /\ PlaceOf(text[k]) = <<b, m>>
    BY <1>7
  <2>5. PICK m \in DOMAIN blocks[b].text :
            text[k] = blocks[b].text[m] /\ PlaceOf(text[k]) = <<b, m>>
    BY <2>4
  <2>6. \A e \in 1 .. pos - 1 : \A i \in DOMAIN blocks[e].text : i \in Nat
    <3> SUFFICES ASSUME NEW e \in 1 .. pos - 1, NEW i \in DOMAIN blocks[e].text PROVE i \in Nat
      OBVIOUS
    <3>1. e \in 1 .. Len(blocks)
      BY <1>1, <1>2, <1>3
    <3>2. blocks[e] \in Blocks
      BY <1>1, <3>1, ElementOfSeq
    <3> QED BY <3>2, BlockShape, LenProperties
  <2>7. a \in 1 .. pos - 1 /\ b \in 1 .. pos - 1
    BY <1>1
  <2>8. j \in Nat /\ m \in Nat /\ n \in Nat
    BY <2>6, <2>7
  <2>9. d \in lo .. h => d = a /\ n = j
    BY <1>6, <2>3
  <2>10. a \in lo .. h /\ b \in lo .. h /\ lo \in Int /\ h \in Int /\ d \in Int
    BY <1>1, <1>5
  <2> HIDE DEF text
  <2>11. ~Between(<<a, j>>, <<d, n>>, <<b, m>>)
    BY ONLY <2>8, <2>9, <2>10 DEF Between, Precedes
  <2>12. ~Between(<<b, m>>, <<d, n>>, <<a, j>>)
    BY ONLY <2>8, <2>9, <2>10 DEF Between, Precedes
  <2> QED BY <2>2, <2>5, <2>11, <2>12
<1>14. ASSUME NEW y \in Positions(text, {"anchor"}), NEW k \in DOMAIN text, NEW other \in Read,
              TokenAt(other).mark = "anchor"
       PROVE  /\ ~Between(PlaceOf(text[y]), other, PlaceOf(text[k]))
              /\ ~Between(PlaceOf(text[k]), other, PlaceOf(text[y]))
  BY <1>9, <1>13, <1>14
<1> QED BY <1>12, <1>14 DEF text

\* The split keeps its state in shape: no loop leaves the block it is at, and what
\* _split_async, the normalization and the assembler hold has its types.
THEOREM SplitTypes == SplitSpec => []SplitTypeOK
<1>1. SplitInv => SplitTypeOK
  BY DEF SplitInv
<1> QED BY SplitInvariant, <1>1, PTL

\* No text that the normalization quarantined is in any chunk, and unless the contract
\* cuts by context every trusted token of the content list is in exactly one: through
\* page stitching, reading order, cuts, units, waiting and detached blocks, groups and
\* several chunks of the parser.  (_split_contextual_unit_units repeats a context and may drop
\* text; of its cuts only the first half is claimed.)
THEOREM TextKeptOnce == SplitSpec => []TextIsKeptOnce
BY SplitInvariant, KeptOnce, PTL

\* Every item that was quarantined or recovered leaves its warning on a chunk, whatever
\* loops, units and groups it goes through.
THEOREM WarningsStay == SplitSpec => []WarningsAreKept
BY SplitInvariant, WarningsKept, PTL

\* A unit that may answer has one anchor, and no other anchor lies between it and any of
\* the unit's text: the assembler never files text under the reference before last.
THEOREM UnitsTogether == SplitSpec => []UnitsReadTogether
BY SplitInvariant, ReadTogether, PTL
=============================================================================
