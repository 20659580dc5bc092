--------------------------- MODULE ReferenceContract ---------------------------
(***************************************************************************)
(* From what a vision model says of a document to the anchors its chunks   *)
(* are cut by: DomainMetadataAiSuggester.suggest turns the model's answer, *)
(* and a saved profile under it, into a metadata record whose contract has *)
(* been run on sampled pages of the file; the documents page shows it and  *)
(* sends it back with the file; the upload compiles the record once more,  *)
(* checks it and leaves it to an index job, whose options both the chunks  *)
(* and the stored contract of the document are made from.                  *)
(*                                                                         *)
(* Of custom_json the parts matter that decide whether references may cut  *)
(* chunks.  A regex is a model value with the groups it names and, with    *)
(* the file it is run on, the units it finds there.  "None" stands for     *)
(* what is not there.                                                      *)
(***************************************************************************)
EXTENDS Integers, FiniteSets, Sequences, SequencesExt

CONSTANTS
    None,
    Files,        \* contents a user may pick
    Key,          \* file -> name, size and date, which files may share
    Types,        \* schema types, "unknown" among them
    Fields,       \* fields of a reference
    Groups,       \* regex -> the fields its groups name
    Safe,         \* the regexes that validate_custom_json admits
    Units,        \* file -> extractor -> units it finds on the sampled pages
    Proposals,    \* metadata records a model may answer with
    Profiles,     \* metadata records of saved domain profiles
    Watched,      \* the file whose document the model follows
    MaxRequests   \* bound: analyses in flight

ASSUME ContractAssumption ==
    /\ Watched \in Files /\ MaxRequests \in Nat
    /\ "unknown" \in Types
    /\ Safe \subseteq DOMAIN Groups
    /\ \A file \in Files : \A e \in DOMAIN Units[file] : Units[file][e] \in Nat
    /\ None \notin Files \cup DOMAIN Groups \cup Types \cup {"verified", "unverified"}

VARIABLES
    selected,     \* the file the page has selected, or None
    suggestion,   \* the analysis it holds: [file, proposal], or None
    requests,     \* analyses in flight: [file, current], current while the
                  \* File object of the request is the one selected
    contract,     \* index_contract: the extractor it compiled, or None
    chunks,       \* the options the chunks of the document were cut with, or None
    job,          \* [state, options] of the latest index job
    status,       \* the document's status, "absent" before it is uploaded
    overtaken     \* a request has replaced index_contract while the job ran

vars == <<selected, suggestion, requests, contract, chunks, job, status, overtaken>>
pageVars == <<selected, suggestion, requests>>
documentVars == <<contract, chunks, job, status, overtaken>>

-----------------------------------------------------------------------------
(* Metadata records: schema [type, fields], anchors [primary, context, unit]
   of [regex, verified], units ("absent", "off" or "on": reference_resolution),
   chunkUnit (a chunking.unit), contracts (reference_contract_candidates, by
   their positions, of [type, fields, extractors, min]), execution (its status)
   and validation [status, extractor].  An extractor is <<regex>> or
   <<context regex, unit regex>>. *)

AnchorKinds == {"primary", "context", "unit"}
NoAnchor == [regex |-> None, verified |-> FALSE]
NoSchema == [type |-> None, fields |-> {}]
NoValidation == [status |-> None, extractor |-> <<>>]

Blank == [schema |-> NoSchema, anchors |-> [k \in AnchorKinds |-> NoAnchor],
          units |-> "absent", chunkUnit |-> FALSE, contracts |-> <<>>,
          execution |-> None, validation |-> NoValidation]

Extractors == {<<r>> : r \in DOMAIN Groups} \cup {<<r, u>> : r, u \in DOMAIN Groups}
Statuses == {None, "verified", "unverified"}
Schemas == [type : Types \cup {None}, fields : SUBSET Fields]
Contracts == [type : Types, fields : SUBSET Fields, extractors : Seq(Extractors),
              min : Nat \ {0}]
Anchors == [regex : DOMAIN Groups \cup {None}, verified : BOOLEAN]
Anchorings == [AnchorKinds -> Anchors]

\* What a model may answer and a profile hold.
Metadata ==
    [schema : Schemas, anchors : Anchorings, units : {"absent", "off", "on"},
     chunkUnit : BOOLEAN, contracts : Seq(Contracts), execution : Statuses,
     validation : [status : Statuses, extractor : Extractors \cup {<<>>}]]

ASSUME InputsAssumption ==
    Proposals \subseteq Metadata /\ Profiles \subseteq Metadata /\ None \notin Extractors

\* The first of the best: sorted(..., reverse=True)[0] over positions.
FirstBest(value) ==
    CHOOSE i \in DOMAIN value : \A j \in DOMAIN value :
        value[i] > value[j] \/ (value[i] = value[j] /\ i <= j)

GroupsOf(extractor) == UNION {Groups[r] : r \in Range(extractor)}
Found(file, extractor) ==
    IF extractor \in DOMAIN Units[file] THEN Units[file][extractor] ELSE 0

\* The anchors an extractor is written to.
Anchoring(extractor) == IF Len(extractor) = 1 THEN <<"primary">> ELSE <<"context", "unit">>
Stands(anchors, extractor) ==
    \A i \in DOMAIN extractor : anchors[Anchoring(extractor)[i]].regex = extractor[i]
Run(regex) == [regex |-> regex, verified |-> TRUE]
Written(anchors, extractor) ==
    IF Len(extractor) = 1 THEN [anchors EXCEPT !["primary"] = Run(extractor[1])]
    ELSE [anchors EXCEPT !["context"] = Run(extractor[1]), !["unit"] = Run(extractor[2])]

Structured(m) == \E k \in AnchorKinds : m.anchors[k].regex # None

\* _declares_reference_contract, _has_reference_signal
Declares(m) ==
    \/ m.schema.type # None \/ Structured(m) \/ DOMAIN m.contracts # {}
    \/ m.execution # None \/ m.validation.status # None

\* _reference_contract_verified
StatusVerified(m) ==
    \/ m.validation.status = "verified"
    \/ m.validation.status = None /\ m.execution = "verified"

\* ExecutableReferenceContract.verified: a primary anchor, or a context and a
\* unit anchor together, verified and naming every required group.
PrimaryVerified(m) ==
    /\ m.anchors["primary"].verified
    /\ m.schema.fields \subseteq GroupsOf(<<m.anchors["primary"].regex>>)
ContextVerified(m) ==
    /\ m.anchors["context"].verified /\ m.anchors["unit"].verified
    /\ m.schema.fields \subseteq
            GroupsOf(<<m.anchors["context"].regex, m.anchors["unit"].regex>>)

-----------------------------------------------------------------------------
(* domain_metadata_contract_compiler.py *)

Demoted(anchors) == [k \in AnchorKinds |-> [anchors[k] EXCEPT !.verified = FALSE]]

\* _demote_reference_contract switches canonical units off only where they are
\* mentioned.
DemotedContract(m) ==
    [m EXCEPT !.anchors = Demoted(@), !.units = IF @ = "absent" THEN @ ELSE "off"]

\* Mutant: the anchors that stand where the selected ones stood are verified.
ReverifiedInPlace(m) ==
    CASE m.validation.status = "unverified" -> DemotedContract(m)
      [] m.validation.status = "verified" /\ Structured(m) ->
            [m EXCEPT !.anchors =
                [k \in AnchorKinds |->
                    [regex |-> m.anchors[k].regex,
                     verified |-> k \in Range(Anchoring(m.validation.extractor))]]]
      [] OTHER -> m

\* _apply_reference_contract_validation: of a verified contract those anchors
\* are verified again that still are the selected ones.
Reverified(m) ==
    CASE m.validation.status = "unverified" -> DemotedContract(m)
      [] m.validation.status = "verified" /\ Structured(m) ->
            [m EXCEPT !.anchors = IF Stands(@, m.validation.extractor)
                                  THEN Written(Demoted(@), m.validation.extractor)
                                  ELSE Demoted(@)]
      [] OTHER -> m

\* _has_declared_executable_reference_contract
Executable(m) ==
    /\ m.schema.type # None /\ m.schema.fields # {}
    /\ \/ m.anchors["primary"].regex # None
       \/ m.anchors["context"].regex # None /\ m.anchors["unit"].regex # None

\* compile_domain_metadata
Compiled(m) ==
    LET demoted == IF m.execution = "unverified" THEN DemotedContract(m) ELSE m
        applied == Reverified(demoted)
    IN CASE Declares(applied) /\ ~StatusVerified(applied) -> DemotedContract(applied)
         [] StatusVerified(applied) /\ Executable(applied) ->
                [applied EXCEPT !.units = IF @ = "absent" THEN "on" ELSE @]
         [] OTHER -> applied

\* validate_custom_json, as far as regexes go
AnchorsAdmitted(m) == \A k \in AnchorKinds : m.anchors[k].regex \in Safe \cup {None}
ContractAdmitted(g) == \A e \in Range(g.extractors) : Range(e) \subseteq Safe
WellFormed(m) == AnchorsAdmitted(m) /\ \A g \in Range(m.contracts) : ContractAdmitted(g)

\* validate_executable_reference_contract
Indexable(m) ==
    \/ m.units # "on" /\ ~(m.schema.type # None /\ m.chunkUnit)
    \/ /\ m.schema.fields # {} /\ m.units = "on" /\ StatusVerified(m)
       /\ PrimaryVerified(m) \/ ContextVerified(m)

-----------------------------------------------------------------------------
(* What the model's answer and the profile make: domain_metadata_ai_suggester.py *)

Usable(g) == g.fields # {} /\ g.extractors # <<>> /\ ContractAdmitted(g)

\* _normalize_custom_json keeps no claim to have been run or validated.
Normalized(m) ==
    [m EXCEPT
        !.anchors = [k \in AnchorKinds |->
                        IF @[k].regex \in Safe THEN @[k] ELSE NoAnchor],
        !.contracts = [i \in {j \in DOMAIN @ : Usable(@[j])} |-> @[i]],
        !.execution = None,
        !.validation = NoValidation]

\* merge_with_baseline: what the profile says stands; the fields of the two
\* schemas are merged by name.
Merged(base, m) ==
    LET b == Normalized(base)
        a == Normalized(m)
    IN [a EXCEPT
        !.schema = [type |-> IF b.schema.type = None THEN @.type ELSE b.schema.type,
                    fields |-> @.fields \cup b.schema.fields],
        !.anchors = [k \in AnchorKinds |->
                        IF b.anchors[k].regex = None THEN @[k] ELSE b.anchors[k]],
        !.units = IF b.units = "absent" THEN @ ELSE b.units,
        !.chunkUnit = @ \/ b.chunkUnit,
        !.contracts = IF DOMAIN b.contracts = {} THEN @ ELSE b.contracts]

\* _is_generic_baseline
Generic(base) == [base EXCEPT !.chunkUnit = FALSE] = Blank

\* _reference_contract_candidates, of a record as it came
Candidates(m) ==
    LET type == IF m.schema.type = None THEN "unknown" ELSE m.schema.type
        of(e) == [type |-> type, fields |-> m.schema.fields, extractor |-> e]
    IN (IF m.anchors["primary"].regex = None THEN <<>>
        ELSE <<of(<<m.anchors["primary"].regex>>)>>)
       \o (IF m.anchors["context"].regex = None \/ m.anchors["unit"].regex = None THEN <<>>
           ELSE <<of(<<m.anchors["context"].regex, m.anchors["unit"].regex>>)>>)

\* ReferenceContractValidator._select_candidate over _validate_candidate
Eligible(file, candidates) ==
    {i \in DOMAIN candidates :
        /\ Range(candidates[i].extractor) \subseteq Safe
        /\ candidates[i].fields \subseteq GroupsOf(candidates[i].extractor)
        /\ Found(file, candidates[i].extractor) > 0}

\* _apply_reference_contract_validation of the suggester
Validated(file, m, candidates) ==
    LET eligible == Eligible(file, candidates)
        best == candidates[FirstBest([i \in eligible |-> Found(file, candidates[i].extractor)])]
    IN IF eligible = {}
       THEN [m EXCEPT !.validation = [status |-> "unverified", extractor |-> <<>>],
                      !.anchors = Demoted(@)]
       ELSE [m EXCEPT !.validation = [status |-> "verified", extractor |-> best.extractor],
                      !.schema.type = best.type,
                      !.anchors = Written(Demoted(@), best.extractor)]

\* execute_reference_contract: the extractors of a contract that name its
\* identity fields and find enough.
Passing(file, g) ==
    {i \in DOMAIN g.extractors :
        g.fields \subseteq GroupsOf(g.extractors[i]) /\ Found(file, g.extractors[i]) >= g.min}
BestExtractor(file, g) ==
    FirstBest([i \in Passing(file, g) |-> Found(file, g.extractors[i])])

\* _selected_execution_extractor finds the contract of a report by its schema
\* type and template alone.
ReportedExtractor(contracts, g, index) ==
    LET alike == {i \in DOMAIN contracts :
                    /\ contracts[i].type = g.type /\ contracts[i].fields = g.fields
                    /\ index <= Len(contracts[i].extractors)}
    IN contracts[CHOOSE i \in alike : \A j \in alike : i <= j].extractors[index]

\* _apply_generated_contract_execution: the validation names the first
\* extractor of the contract, the anchors are those that matched.
Executed(file, m) ==
    LET verified == {i \in DOMAIN m.contracts : Passing(file, m.contracts[i]) # {}}
        units == [i \in verified |->
                    Found(file, m.contracts[i].extractors[BestExtractor(file, m.contracts[i])])]
        best == m.contracts[FirstBest(units)]
    IN IF verified = {}
       THEN [m EXCEPT !.execution = "unverified",
                      !.validation = [status |-> "unverified", extractor |-> <<>>],
                      !.anchors = Demoted(@)]
       ELSE [m EXCEPT !.execution = "verified",
                      !.validation = [status |-> "verified",
                                      extractor |-> ReportedExtractor(m.contracts, best, 1)],
                      !.schema = [type |-> best.type, fields |-> best.fields],
                      !.units = "on",
                      !.anchors = Written(Demoted(@),
                          ReportedExtractor(m.contracts, best, BestExtractor(file, best)))]

\* derive_contract_state
ContractState(m) ==
    IF StatusVerified(m) /\ m.units = "on" /\ m.schema.fields # {} THEN "verified"
    ELSE IF Declares(m) THEN "metadata_only" ELSE "generic"

\* Mutant: canonical units are switched off, but references still cut chunks.
UploadReadyKeepingUnit(m) ==
    IF ContractState(m) # "verified" /\ Declares(m) THEN [m EXCEPT !.units = "off"] ELSE m

\* normalize_upload_ready_domain_metadata
UploadReady(m) ==
    IF ContractState(m) # "verified" /\ Declares(m)
    THEN [m EXCEPT !.chunkUnit = FALSE, !.units = "off"]
    ELSE m

\* DomainMetadataAiSuggester.suggest
Suggested(file, proposal, base) ==
    LET candidates == Candidates(proposal) \o (IF base = None THEN <<>> ELSE Candidates(base))
        merged == IF base # None /\ ~Generic(base) THEN Merged(base, proposal)
                  ELSE Normalized(proposal)
        first == Compiled(merged)
        executed == IF DOMAIN first.contracts = {} THEN first ELSE Executed(file, first)
    IN UploadReady(
        IF executed.execution = "verified" \/ (executed.execution # None /\ candidates = <<>>)
        THEN Compiled(executed)
        ELSE IF candidates # <<>> THEN Compiled(Validated(file, executed, candidates))
        ELSE executed)

-----------------------------------------------------------------------------
(* What the options make of the document *)

\* ReferenceSemantics.from_metadata: the anchors chunks are cut by.
Cut(m) ==
    IF ~(StatusVerified(m) /\ m.units = "on") THEN None
    ELSE CASE PrimaryVerified(m) -> <<m.anchors["primary"].regex>>
           [] ~PrimaryVerified(m) /\ ContextVerified(m) ->
                <<m.anchors["context"].regex, m.anchors["unit"].regex>>
           [] OTHER -> None

\* build_document_index_contract: the reference contract it says is compiled.
Stored(m) ==
    LET e == m.validation.extractor
        agrees == /\ m.validation.status = "verified" /\ Stands(m.anchors, e)
                  /\ \A k \in Range(Anchoring(e)) : m.anchors[k].verified
                  /\ m.schema.fields \subseteq GroupsOf(e)
    IN IF /\ m.schema.type # None /\ m.units = "on" /\ agrees
          /\ PrimaryVerified(m) \/ ContextVerified(m)
       THEN e ELSE None

\* What compile_index_options and _validate_index_options let through.
Accepted(m) == WellFormed(Compiled(m)) /\ Indexable(Compiled(m))

\* The suggester knows which extractor matched: no two generated contracts
\* have one type and template, and none has two extractors.
ToldApart(m) ==
    \A i \in DOMAIN m.contracts :
        /\ Len(m.contracts[i].extractors) = 1
        /\ \A j \in DOMAIN m.contracts \ {i} :
            \/ m.contracts[i].type # m.contracts[j].type
            \/ m.contracts[i].fields # m.contracts[j].fields

\* Options as a job keeps them: what they compile to decides how chunks are cut
\* and what contract is stored.  For the properties: whether an analysis of the
\* document's own content came with them, and one that can be told apart.
Options(m, file) ==
    [cut |-> Cut(Compiled(m)), stored |-> Stored(Compiled(m)),
     own |-> file = Watched, toldApart |-> ToldApart(m)]
NoOptions == Options(Blank, None)

Active == job.state \in {"queued", "running"}

\* DocumentService.upload of the document's content, and _enqueue_index_job
Enqueue(options) ==
    /\ contract' = options.stored
    /\ job' = [state |-> "queued", options |-> options]
    /\ status' = "running"
    /\ overtaken' = FALSE
    /\ UNCHANGED chunks

\* _ensure_queued_index_job: beside an active job only the contract changes.
Receive(options) ==
    IF Active
    THEN /\ contract' = options.stored
         /\ overtaken' = (overtaken \/ job.state = "running")
         /\ UNCHANGED <<chunks, job, status>>
    ELSE Enqueue(options)

-----------------------------------------------------------------------------
(* The documents page *)

Init ==
    /\ selected = None /\ suggestion = None /\ requests = {}
    /\ contract = None /\ chunks = None /\ status = "absent" /\ overtaken = FALSE
    /\ job = [state |-> "none", options |-> NoOptions]

Outdated(rs) == {[r EXCEPT !.current = FALSE] : r \in rs}

\* handleFileChange
SelectFile(file) ==
    /\ selected' = file
    /\ suggestion' = None
    /\ requests' = Outdated(requests)
    /\ UNCHANGED documentVars

\* analyzeSelectedFile sends the file to /domain-profiles/suggest.
Analyze ==
    /\ selected # None /\ Cardinality(requests) < MaxRequests
    /\ suggestion' = None
    /\ requests' = requests \cup {[file |-> selected, current |-> TRUE]}
    /\ UNCHANGED <<selected, documentVars>>

\* Mutant: the answer is taken if the selected file looks like its file.
AnalysisReturnsByKey(r, proposal) ==
    /\ requests' = requests \ {r}
    /\ suggestion' = IF selected # None /\ Key[selected] = Key[r.file]
                     THEN [file |-> r.file, proposal |-> proposal] ELSE suggestion
    /\ UNCHANGED <<selected, documentVars>>

\* The answer, bound to the content it was made from, is kept only for the
\* very File object that was sent.
AnalysisReturns(r, proposal) ==
    /\ requests' = requests \ {r}
    /\ suggestion' = IF r.current THEN [file |-> r.file, proposal |-> proposal] ELSE suggestion
    /\ UNCHANGED <<selected, documentVars>>

AnalysisFails(r) ==
    /\ requests' = requests \ {r}
    /\ UNCHANGED <<selected, suggestion, documentVars>>

\* currentVisionSuggestion
Offered ==
    IF selected # None /\ suggestion # None /\ Key[suggestion.file] = Key[selected]
    THEN suggestion ELSE None

\* The page sends the file with the suggestion it offers; the binding of the
\* suggestion must be that of the content.  A success clears the page.
Upload ==
    /\ Offered # None
    /\ LET m == Suggested(Offered.file, Offered.proposal, None)
       IN IF Accepted(m) /\ Offered.file = selected
          THEN /\ selected' = None /\ suggestion' = None /\ requests' = Outdated(requests)
               /\ IF selected = Watched THEN Receive(Options(m, Watched))
                  ELSE UNCHANGED documentVars
          ELSE UNCHANGED vars

-----------------------------------------------------------------------------
(* Other clients of the API *)

\* A client may change what was suggested before it sends it.
Edited(m) ==
    {m, [m EXCEPT !.units = "on"]}
    \cup {[m EXCEPT !.anchors["primary"].regex = r] : r \in Safe}

\* The metadata records clients send that are let through, by the file whose
\* analysis they came from.
Sent == [file \in Files |->
    {m \in UNION {Edited(Suggested(file, p, b)) : p \in Proposals, b \in Profiles \cup {None}} :
        Accepted(m)}]

\* What has been compiled for an index job compiles to itself: a reindex with
\* the options of an earlier job is a repetition.
Recompiles ==
    \A file \in Files : \A m \in Sent[file] :
        Accepted(Compiled(m)) /\ Options(Compiled(m), file) = Options(m, file)

Packages == UNION {{Options(m, file) : m \in Sent[file]} : file \in Files}

\* An upload of the document's content: the binding of the analysis that comes
\* with it, if one does, must be that of the content.
ClientUpload(package) ==
    /\ Receive(package) \/ Receive([package EXCEPT !.own = FALSE])
    /\ UNCHANGED pageVars

\* An upload without options leaves an existing document alone, but for one
\* that has neither chunks nor an active job.
PlainUpload ==
    /\ ~Active /\ chunks = None
    /\ job' = [state |-> "queued", options |-> NoOptions]
    /\ status' = "running"
    /\ overtaken' = FALSE
    /\ contract' = IF status = "absent" THEN None ELSE contract
    /\ UNCHANGED <<chunks, pageVars>>

\* POST /documents/{id}/reindex compares no binding.
ClientReindex(package) ==
    /\ status # "absent" /\ ~Active
    /\ Enqueue(package)
    /\ UNCHANGED pageVars

\* The page offers the options it finds in the chunks, which hold no binding,
\* or else those of the latest job.
LatestOptions == IF chunks = None THEN job.options ELSE [chunks EXCEPT !.own = FALSE]

ReindexOffered ==
    /\ status # "absent" /\ ~Active
    /\ Enqueue(LatestOptions)
    /\ UNCHANGED pageVars

DeleteDocument ==
    /\ status # "absent" /\ ~Active
    /\ contract' = None /\ chunks' = None /\ status' = "absent" /\ overtaken' = FALSE
    /\ job' = [state |-> "none", options |-> NoOptions]
    /\ UNCHANGED pageVars

-----------------------------------------------------------------------------
(* The index job *)

\* Mutant: the contract is left as the latest request has made it.
StartJobAsIs ==
    /\ job.state = "queued"
    /\ job' = [job EXCEPT !.state = "running"]
    /\ UNCHANGED <<contract, chunks, status, overtaken, pageVars>>

\* run_index_job, up to _prepare_pdf_preprocessing: the contract is made from
\* the job's options again.
StartJob ==
    /\ job.state = "queued"
    /\ job' = [job EXCEPT !.state = "running"]
    /\ contract' = job.options.stored
    /\ UNCHANGED <<chunks, status, overtaken, pageVars>>

FinishJob ==
    /\ job.state = "running"
    /\ chunks' = job.options
    /\ job' = [job EXCEPT !.state = "ended"]
    /\ status' = "succeeded"
    /\ UNCHANGED <<contract, overtaken, pageVars>>

\* A failure before the new chunks are stored leaves the old ones, a later
\* one takes them away.
FailJob ==
    /\ job.state = "running"
    /\ job' = [job EXCEPT !.state = "ended"]
    /\ chunks' \in {chunks, None}
    /\ status' = "failed"
    /\ UNCHANGED <<contract, overtaken, pageVars>>

Page ==
    \/ \E file \in Files : SelectFile(file)
    \/ Analyze
    \/ \E r \in requests : AnalysisFails(r) \/ \E p \in Proposals : AnalysisReturns(r, p)
    \/ Upload
    \/ ReindexOffered

Client ==
    \/ \E package \in Packages : ClientUpload(package) \/ ClientReindex(package)
    \/ PlainUpload
    \/ DeleteDocument

Worker == StartJob \/ FinishJob \/ FailJob

Next == Page \/ Client \/ Worker

Spec == Init /\ [][Next]_vars

-----------------------------------------------------------------------------
(* Properties *)

\* Anchors that cut the chunks of a document have found units on sampled pages
\* of that very content, whoever sent the options and whatever was edited in
\* them on the way, if the analysis was bound to the content and its extractors
\* can be told apart.
CutsWereExecuted ==
    chunks # None /\ chunks.own /\ chunks.toldApart /\ chunks.cut # None =>
        Found(Watched, chunks.cut) > 0

\* The page's badge tells what uploading does: a suggestion that is only
\* metadata is accepted and cuts no chunks; a verified one is accepted, and
\* the chunks are cut by anchors that the stored contract names.  The verified
\* half needs that no fallback was validated after generated contracts failed,
\* that extractors can be told apart, and that a profile names the same
\* identity, or no field of its own and no anchors; without these it fails, see
\* the README.
SameIdentity(proposal, base) ==
    \/ base = None
    \/ base.schema.fields = proposal.schema.fields
    \/ base.schema.fields \subseteq proposal.schema.fields /\ Candidates(base) = <<>>

StateTellsUpload ==
    suggestion # None => \A base \in Profiles \cup {None} :
        LET m == Suggested(suggestion.file, suggestion.proposal, base)
        IN CASE ContractState(m) = "metadata_only" ->
                    Accepted(m) /\ Cut(Compiled(m)) = None
             [] ContractState(m) = "verified"
                    /\ m.execution # "unverified" /\ ToldApart(m)
                    /\ SameIdentity(suggestion.proposal, base) ->
                    /\ Accepted(m) /\ Cut(Compiled(m)) # None
                    /\ Stored(Compiled(m)) = Cut(Compiled(m))
             [] OTHER -> TRUE

\* While the document is indexed and no request has changed its contract under
\* a running job, the contract it stores is the one its chunks were cut by,
\* through uploads beside waiting jobs, failed jobs and reindexing.
ContractMatchesChunks ==
    status = "succeeded" /\ ~overtaken => contract = chunks.cut

\* The page never offers the analysis of another content than the one it has
\* selected, in whatever order the answers come and however alike files look:
\* the server would refuse the upload.
PageOffersOwnAnalysis == Offered # None => Offered.file = selected

\* The plan of the upload contract: "Make Analyze with Vision produce the exact
\* upload-ready contract package that upload/reindex use, so verified contracts
\* enable canonical units": a verified suggestion that is sent as it came is
\* accepted, and its anchors cut the chunks.
VerifiedSuggestionsUpload ==
    suggestion # None =>
        LET m == Suggested(suggestion.file, suggestion.proposal, None)
        IN ContractState(m) = "verified" => Accepted(m) /\ Cut(Compiled(m)) # None
=============================================================================
