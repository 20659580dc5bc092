---------------------------- MODULE SourceParse ----------------------------
(***************************************************************************)
(* From the uploaded file of a document to the chunks MinerU makes of it,  *)
(* in successive attempts of one index job: preflight and OCR cleanup of   *)
(* the PDF (document_service, pdf_preflight_service,                       *)
(* pdf_ocr_cleanup_service), the remote parse (mineru_client, http_retry,  *)
(* document_parser_service) and the check of what it returns               *)
(* (mineru_extraction_validator).                                          *)
(*                                                                         *)
(* All attempts use the same files: preprocessed/<id>/sample.cleaned.pdf   *)
(* and cleaned.pdf, mineru-artifacts/<id>/artifacts.zip.part,              *)
(* artifacts.zip and extracted/. An attempt may die at any step and leave  *)
(* them behind. One attempt runs at a time: see README.                    *)
(*                                                                         *)
(* A page holds at most one reference unit. A ratio is given in halves.    *)
(***************************************************************************)
EXTENDS Naturals, Sequences, SequencesExt, FiniteSets, FiniteSetsExt

CONSTANTS
    Inputs,        \* the cases looked at: see Input
    Artifacts,     \* what a remote parse may produce: see Artifact
    MaxAttempts,   \* bound: attempts of the job
    Retries        \* attempts=3 of retry_async_http

ASSUME ParseAssumption ==
    /\ MaxAttempts \in Nat \ {0}
    /\ Retries \in Nat \ {0}

VARIABLES
    input,     \* the document, what OCR makes of it, contract and settings
    attempt,   \* the running attempt
    disk,      \* the files all attempts share
    remote,    \* the parse jobs at MinerU, in the order they were submitted
    used       \* attempts begun

vars == <<input, attempt, disk, remote, used>>

\* A page: with a reference unit that has its scripts, with one that lacks a
\* script, with text but no unit, without text.
PageKind == {"good", "noscript", "noref", "empty"}
Pdf == Seq(PageKind)

Contract == [strict: BOOLEAN, references: BOOLEAN, scripts: BOOLEAN,
             minRatio: 0 .. 2, sample: SUBSET Nat, reject: BOOLEAN]
Settings == [preflight: BOOLEAN, cleanup: BOOLEAN, reject: BOOLEAN]
Input == [original: Pdf, ocr: Pdf, contract: Contract, settings: Settings]

\* An archive: the text files its manifest names, text files and characters in it,
\* and what else may be wrong.
Artifact == [listed: Nat, texts: Nat, chars: Nat, rawPdf: BOOLEAN, safe: BOOLEAN]
MinTextChars == 50

ASSUME ArtifactsAssumption == Artifacts \subseteq Artifact /\ Artifacts # {}

NoJob == 0
NoFile == [job |-> NoJob, complete |-> FALSE]
NoPdf == << >>
EmptyDisk == [sample |-> NoPdf, cleaned |-> NoPdf, part |-> NoFile, zip |-> NoFile,
              extracted |-> NoFile]
NoAttempt == [phase |-> "idle", tries |-> 0, record |-> "none", active |-> "original",
              job |-> NoJob, late |-> FALSE, seen |-> "none", why |-> "none",
              chunks |-> NoJob]

Init ==
    /\ input \in Inputs
    /\ attempt = NoAttempt
    /\ disk = EmptyDisk
    /\ remote = << >>
    /\ used = 0

-----------------------------------------------------------------------------
(* Preflight: which pages are looked at and what blocks. *)

\* Up to 20 pages: the pages of the contract that exist, else first, middle, last.
PagesToInspect(pdf, contract) ==
    LET n == Len(pdf)
        asked == {p \in contract.sample : p \in 1 .. n}
    IN IF asked # {} THEN asked
       ELSE {p \in {1, (n + 1) \div 2, n} : p \in 1 .. n}

TextPages(pdf, pages) == {p \in pages : pdf[p] # "empty"}

\* Where the verified anchors of the reference contract match.
UnitPages(pdf, pages, contract) ==
    {p \in TextPages(pdf, pages) : contract.references /\ pdf[p] # "noref"}

LackingScript(pdf, units, contract) ==
    {p \in units : contract.scripts /\ pdf[p] = "noscript"}

\* The ratio counts only when there are units to take it of.
RatioReached(units, lacking, minRatio) ==
    units # {} => 2 * Cardinality(units \ lacking) >= minRatio * Cardinality(units)

\* PdfPreflightService.inspect of the given pages.
PassesInspection(pdf, pages, contract) ==
    LET text == TextPages(pdf, pages)
        units == UnitPages(pdf, pages, contract)
    IN contract.strict =>
          /\ text = pages
          /\ contract.references /\ units = {} => text = {}
          /\ RatioReached(units, LackingScript(pdf, units, contract), contract.minRatio)

ShouldPreflight == input.settings.preflight /\ input.contract.strict

\* The contract's flag is never absent, so it can only switch the setting off.
RejectIfCleanupFails == input.contract.reject /\ input.settings.reject

\* Without pages in the contract: as many as were inspected, from the first on.
PagesToClean ==
    IF input.contract.sample # {} THEN input.contract.sample
    ELSE 1 .. Cardinality(PagesToInspect(input.original, input.contract))

PagesThatExist == {p \in PagesToClean : p \in 1 .. Len(input.original)}

CleanedSample == [i \in 1 .. Cardinality(PagesThatExist) |->
                     input.ocr[SetToSortSeq(PagesThatExist, <)[i]]]

-----------------------------------------------------------------------------
(* Steps of an attempt. *)

At(phase) == attempt.phase = phase

GoTo(phase) == [attempt EXCEPT !.phase = phase, !.tries = 0]

Failing(why) == [attempt EXCEPT !.phase = "failed", !.why = why]

Begin ==
    /\ attempt.phase \in {"idle", "failed"}
    /\ used < MaxAttempts
    /\ used' = used + 1
    /\ attempt' = [NoAttempt EXCEPT !.phase = "preflight"]
    /\ UNCHANGED <<input, disk, remote>>

\* The worker dies, loses its lease or fails to commit; the job is claimed again.
Die ==
    /\ attempt.phase \notin {"idle", "failed", "done"}
    /\ attempt' = Failing("died")
    /\ UNCHANGED <<input, disk, remote, used>>

\* Preprocessing ends with the original file in use, or with the job's failure.
UseOriginal(record, active) ==
    attempt' = [GoTo("health") EXCEPT !.record = record, !.active = active]

Continue(record, active, why) ==
    IF RejectIfCleanupFails
    THEN attempt' = [Failing(why) EXCEPT !.record = record, !.active = active]
    ELSE UseOriginal(record, active)

Preflight ==
    /\ At("preflight")
    /\ UNCHANGED <<input, remote, used>>
    /\ LET pages == PagesToInspect(input.original, input.contract)
       IN IF ~ShouldPreflight
          THEN UseOriginal("none", "original") /\ UNCHANGED disk
          ELSE IF PassesInspection(input.original, pages, input.contract)
          THEN UseOriginal("preflight_passed", "original") /\ UNCHANGED disk
          ELSE IF ~input.settings.cleanup
          THEN /\ Continue("cleanup_failed_continue_original", "original",
                           "cleanup_unavailable")
               /\ UNCHANGED disk
          ELSE /\ attempt' = [GoTo("cleaning_sample") EXCEPT
                                !.record = "sample_cleanup_running"]
               /\ disk' = [disk EXCEPT !.sample = NoPdf, !.cleaned = NoPdf]

\* OCR is unavailable, times out, fails or writes no file: the attempt fails whatever
\* the contract says about rejection.
CleanupFails ==
    /\ At("cleaning_sample") \/ At("cleaning")
    /\ attempt' = Failing("cleanup_error")
    /\ UNCHANGED <<input, disk, remote, used>>

CleanSample ==
    /\ At("cleaning_sample")
    /\ PagesThatExist # {}
    /\ disk' = [disk EXCEPT !.sample = CleanedSample]
    /\ IF PassesInspection(CleanedSample, DOMAIN CleanedSample, input.contract)
       THEN attempt' = GoTo("cleaning")
       ELSE Continue("sample_cleanup_failed", "original", "sample_contract_failed")
    /\ UNCHANGED <<input, remote, used>>

Clean ==
    /\ At("cleaning")
    /\ disk' = [disk EXCEPT !.cleaned = input.ocr]
    /\ IF PassesInspection(input.ocr, DOMAIN input.ocr, input.contract)
       THEN attempt' = [GoTo("health") EXCEPT !.record = "cleaned", !.active = "cleaned"]
       ELSE Continue("full_cleanup_failed", "cleaned", "contract_failed")
    /\ UNCHANGED <<input, remote, used>>

\* What _prepare_pdf_preprocessing returned.
FileToParse == IF attempt.record = "cleaned" THEN disk.cleaned ELSE input.original

-----------------------------------------------------------------------------
(* The remote parse. *)

\* MinerU is disabled, not ready or not the coordinator that is required.
Health ==
    /\ At("health")
    /\ attempt' \in {GoTo("submitting"), Failing("health")}
    /\ UNCHANGED <<input, disk, remote, used>>

NewParse == [status |-> "pending", file |-> FileToParse, by |-> used,
             artifact |-> CHOOSE a \in Artifacts : TRUE]

\* Mutant: a lost answer is answered by submitting again.
SubmitRetried ==
    /\ At("submitting")
    /\ \/ /\ remote' = Append(remote, NewParse)
          /\ attempt' \in {[GoTo("polling") EXCEPT !.job = Len(remote) + 1],
                           IF attempt.tries + 1 < Retries
                           THEN [attempt EXCEPT !.tries = @ + 1] ELSE Failing("submit")}
       \/ /\ attempt' = Failing("submit")
          /\ UNCHANGED remote
    /\ UNCHANGED <<input, disk, used>>

\* The one call that is never retried: when its answer is lost, the parse goes on
\* at MinerU and nobody will ask for it.
Submit ==
    /\ At("submitting")
    /\ \/ /\ remote' = Append(remote, NewParse)
          /\ attempt' \in {[GoTo("polling") EXCEPT !.job = Len(remote) + 1],
                           Failing("submit")}
       \/ /\ attempt' = Failing("submit")
          /\ UNCHANGED remote
    /\ UNCHANGED <<input, disk, used>>

\* Mutant: without a limit.
RetriedForever(why) == attempt

\* retry_async_http: a transient error is retried, any other ends the attempt.
Retried(why) ==
    IF attempt.tries + 1 < Retries
    THEN [attempt EXCEPT !.tries = @ + 1]
    ELSE Failing(why)

PollError ==
    /\ At("polling")
    /\ attempt' \in {Retried("poll"), Failing("poll")}
    /\ UNCHANGED <<input, disk, remote, used>>

\* poll_until_ready looks at the answer first and at the deadline then.
AfterStatus(status) ==
    CASE status = "ready"   -> GoTo("downloading")
      [] status = "failed"  -> Failing("parse")
      [] status = "pending" -> IF attempt.late THEN Failing("timeout") ELSE GoTo("polling")

Poll ==
    /\ At("polling")
    /\ LET status == remote[attempt.job].status
       IN attempt' = [AfterStatus(status) EXCEPT !.seen = status]
    /\ UNCHANGED <<input, disk, remote, used>>

DeadlinePasses ==
    /\ At("polling") /\ ~attempt.late
    /\ attempt' = [attempt EXCEPT !.late = TRUE]
    /\ UNCHANGED <<input, disk, remote, used>>

\* MinerU itself.
FinishParse(j) ==
    /\ remote[j].status = "pending"
    /\ \E status \in {"ready", "failed"}, a \in Artifacts :
          remote' = [remote EXCEPT ![j].status = status, ![j].artifact = a]
    /\ UNCHANGED <<input, attempt, disk, used>>

\* Mutant: an archive that is there already is not fetched again.
OpenPartIfMissing ==
    /\ At("downloading")
    /\ IF disk.zip # NoFile
       THEN attempt' = GoTo("extracting") /\ UNCHANGED disk
       ELSE /\ disk' = [disk EXCEPT !.part = [job |-> attempt.job, complete |-> FALSE]]
            /\ attempt' = [attempt EXCEPT !.phase = "receiving"]
    /\ UNCHANGED <<input, remote, used>>

\* A .part of an earlier try or attempt goes first.
OpenPart ==
    /\ At("downloading")
    /\ disk' = [disk EXCEPT !.part = [job |-> attempt.job, complete |-> FALSE]]
    /\ attempt' = [attempt EXCEPT !.phase = "receiving"]
    /\ UNCHANGED <<input, remote, used>>

DownloadError ==
    /\ At("downloading") \/ At("receiving")
    /\ attempt' \in {[Retried("download") EXCEPT
                        !.phase = IF @ = "receiving" THEN "downloading" ELSE @],
                     Failing("download")}
    /\ UNCHANGED <<input, disk, remote, used>>

ReplaceZip ==
    /\ At("receiving")
    /\ disk' = [disk EXCEPT !.zip = [job |-> disk.part.job, complete |-> TRUE],
                            !.part = NoFile]
    /\ attempt' = GoTo("extracting")
    /\ UNCHANGED <<input, remote, used>>

\* The directory of an earlier attempt is removed, once all members are known to
\* stay inside it.
ClearExtracted ==
    /\ At("extracting")
    /\ IF remote[disk.zip.job].artifact.safe
       THEN /\ disk' = [disk EXCEPT !.extracted = NoFile]
            /\ attempt' = GoTo("unpacking")
       ELSE /\ attempt' = Failing("unsafe")
            /\ UNCHANGED disk
    /\ UNCHANGED <<input, remote, used>>

Unpack ==
    /\ At("unpacking")
    /\ \E complete \in BOOLEAN :
          /\ disk' = [disk EXCEPT !.extracted = [job |-> disk.zip.job, complete |-> complete]]
          /\ attempt' = IF complete THEN GoTo("normalizing") ELSE Failing("died")
    /\ UNCHANGED <<input, remote, used>>

\* The text files the manifest names, or every markdown file when it names none.
ChunkTexts(artifact) == IF artifact.listed > 0 THEN artifact.listed ELSE artifact.texts

\* MinerUExtractionValidator.validate.  Its test of the page coverage needs a page
\* total in parser_metadata, where normalize_artifact_zip puts none: it is never made.
Accepted(artifact) ==
    /\ ChunkTexts(artifact) > 0
    /\ artifact.chars >= MinTextChars
    /\ ~artifact.rawPdf

Normalize ==
    /\ At("normalizing")
    /\ attempt' = IF Accepted(remote[disk.extracted.job].artifact)
                  THEN [GoTo("done") EXCEPT !.chunks = disk.extracted.job]
                  ELSE Failing("extraction")
    /\ UNCHANGED <<input, disk, remote, used>>

-----------------------------------------------------------------------------
\* The job has an outcome, or no attempt left.
Over ==
    /\ At("done") \/ (attempt.phase \in {"idle", "failed"} /\ used = MaxAttempts)
    /\ UNCHANGED vars

Step ==
    \/ Preflight \/ CleanSample \/ Clean \/ CleanupFails
    \/ Health \/ Submit \/ Poll \/ PollError
    \/ OpenPart \/ ReplaceZip \/ DownloadError
    \/ ClearExtracted \/ Unpack \/ Normalize

Next ==
    \/ Begin \/ Step \/ Die \/ DeadlinePasses
    \/ \E j \in DOMAIN remote : FinishParse(j)
    \/ Over

Spec == Init /\ [][Next]_vars

\* An attempt goes on and time passes; MinerU may never answer.
FairSpec == Spec /\ WF_vars(Step) /\ WF_vars(DeadlinePasses)

-----------------------------------------------------------------------------
Phases == {"idle", "preflight", "cleaning_sample", "cleaning", "health", "submitting",
           "polling", "downloading", "receiving", "extracting", "unpacking",
           "normalizing", "done", "failed"}
File == [job: Nat, complete: BOOLEAN]

TypeOK ==
    /\ input \in Inputs
    /\ attempt \in [phase: Phases, tries: 0 .. Retries - 1,
                    record: {"none", "preflight_passed", "sample_cleanup_running",
                             "cleanup_failed_continue_original", "sample_cleanup_failed",
                             "full_cleanup_failed", "cleaned"},
                    active: {"original", "cleaned"}, job: 0 .. Len(remote),
                    late: BOOLEAN, seen: {"none", "pending", "ready", "failed"},
                    why: STRING, chunks: 0 .. Len(remote)]
    /\ disk \in [sample: Pdf, cleaned: Pdf, part: File, zip: File, extracted: File]
    /\ \A j \in DOMAIN remote :
          remote[j] \in [status: {"pending", "ready", "failed"}, file: Pdf,
                         by: 1 .. used, artifact: Artifacts]
    /\ used \in 0 .. MaxAttempts

\* The chunks of an attempt come whole from the parse that this attempt submitted
\* and MinerU finished, whatever part, archive or directory an earlier attempt or
\* try left behind, and that parse read the file which this attempt's preprocessing
\* chose.
ChunksAreOwn ==
    At("done") =>
        /\ attempt.chunks = attempt.job
        /\ remote[attempt.chunks].by = used
        /\ remote[attempt.chunks].status = "ready"
        /\ remote[attempt.chunks].file = FileToParse
        /\ disk.extracted = [job |-> attempt.job, complete |-> TRUE]

\* Every parse at MinerU was asked for by an attempt of its own: no retry of the
\* client has MinerU do the same work twice.
OneParsePerAttempt == \A i, j \in DOMAIN remote : remote[i].by = remote[j].by => i = j

\* An attempt ends although MinerU may stay silent for ever.
AttemptsEnd ==
    attempt.phase = "preflight" ~> attempt.phase \in {"done", "failed"}

=============================================================================
