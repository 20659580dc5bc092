--------------------------- MODULE ReferenceQuality ---------------------------
(***************************************************************************)
(* From the chunks of a document to those the native runtime indexes, as   *)
(* IndexLifecycleService.reindex_document goes: the quality gate validates *)
(* the chunks against the scripts the contract requires of every reference *)
(* (and repairs a text from its own provenance), targeted vision recovery  *)
(* asks a model for the scripts that lack, and if it found any the gate    *)
(* validates again, over the marks the first pass has left in the chunks.  *)
(*                                                                         *)
(* Of a text only the scripts matter that it has letters of.               *)
(***************************************************************************)
EXTENDS Integers, FiniteSets, FiniteSetsExt, SequencesExt

CONSTANTS
    Scripts,        \* the scripts a contract can ask for, "arabic" among them
    Contracts,      \* the contracts of documents
    Documents,      \* the documents, as they leave the splitter
    MaxVisionCalls, \* max_total_blocks
    MaxPageCalls    \* max_blocks_per_page

ASSUME QualityAssumption ==
    "arabic" \in Scripts /\ MaxVisionCalls \in Nat /\ MaxPageCalls \in Nat

\* What the gate and the recovery read of a contract.
ContractRecord ==
    [required : SUBSET Scripts, optional : SUBSET Scripts,
     optionalAction : {"no_warning", "info", "warn", "block"},
     missing : {"warn", "block"}, allow : BOOLEAN, parallel : BOOLEAN,
     resolved : BOOLEAN, vision : BOOLEAN,
     blocks : SUBSET {"quarantined", "missing"}]

\* A chunk: the scripts of each of its references' text, those its provenance
\* could add, the kind of noise it was quarantined for, and the pages whose
\* blocks vision can be shown.
ChunkRecord ==
    [kind : {"unit", "pair", "plain", "quarantined", "provenance"},
     scripts : Seq(SUBSET Scripts), preview : SUBSET Scripts,
     noise : {"none", "layout", "text"}, evidence : Seq(Nat)]

ASSUME InputsAssumption ==
    Contracts \subseteq ContractRecord /\ Documents \subseteq Seq(ChunkRecord)

VARIABLES
    contract,   \* the contract of the document
    document,   \* its chunks as they leave the splitter
    phase,      \* where reindex_document is
    texts,      \* chunk -> the scripts of each reference's part of its text
    warnings,   \* chunk -> its parser warnings
    records,    \* chunk -> quality.by_reference
    vector,     \* chunk -> quality_action_policy.index_vector
    requests,   \* chunk -> reference -> status of its vision request
    queue,      \* requests recover() has not handled: <<chunk, reference>>
    candidates, \* pages of the evidence it has not tried for the head of queue
    attempts,   \* calls of the vision model, in order: the page of each
    report,     \* index_quality_report
    indexed     \* the chunks of _runtime_materializable_chunks

vars == <<contract, document, phase, texts, warnings, records, vector, requests, queue,
          candidates, attempts, report, indexed>>

inputVars == <<contract, document>>
gateVars == <<texts, warnings, records, vector, requests, report>>

-----------------------------------------------------------------------------
(* Chunks *)

ChunkIds == DOMAIN document
Kind(c) == document[c].kind

\* _reference_text_units: a canonical unit, or a text cut at its two anchors;
\* nothing for text without a reference, for a quarantine notice and for
\* provenance.
References(c) == IF Kind(c) \in {"unit", "pair"} THEN DOMAIN document[c].scripts ELSE {}

\* _chunk_requires_reference_unit
MustResolve(c) == Kind(c) = "quarantined" \/ (Kind(c) = "plain" /\ contract.resolved)

AllScripts(text) == UNION {text[r] : r \in DOMAIN text}
Extend(text, scripts) == [text EXCEPT ![Len(text)] = @ \cup scripts]

\* _requires_reference_quality
GateReferences ==
    contract.required # {} \/ (contract.optional # {} /\ contract.optionalAction # "no_warning")

Warning(code, reference, script, severity) ==
    [code |-> code, reference |-> reference, script |-> script, severity |-> severity,
     action |-> "unset", suppressed |-> severity = "info", visionRequired |-> FALSE]

\* is_counted_parser_warning
Counted(w) == ~w.suppressed /\ w.severity # "info"

-----------------------------------------------------------------------------
(* What the splitter leaves, and the splitter's and the gate's warnings *)

\* ParserQualityIntelligentGate.classify_warning: a layout policy of the
\* contract names the warnings that block; the others keep what they have.
Classified(w) ==
    IF w.code \in contract.blocks
    THEN [w EXCEPT !.severity = "block", !.action = "block", !.suppressed = FALSE]
    ELSE [w EXCEPT !.action = IF @ = "unset" THEN "review_warning" ELSE @]

\* _optional_script_action
MissingOptional(present) ==
    IF contract.optionalAction = "no_warning" THEN {} ELSE contract.optional \ present

\* ChunkQualityGate: of a text with a reference the splitter warns as a whole,
\* naming no reference.
SplitterWarnings(c) ==
    LET present == AllScripts(document[c].scripts)
    IN  IF References(c) = {} THEN {}
        ELSE {Warning("missing", 0, script, "warn") : script \in contract.required \ present}
             \cup {Warning("optional", 0, script, contract.optionalAction) :
                        script \in MissingOptional(present)}
QuarantineWarnings(c) ==
    IF document[c].noise = "none" THEN {} ELSE {Warning("quarantined", 0, "none", "warn")}

Init ==
    /\ contract \in Contracts
    /\ document \in Documents
    /\ phase = "validate"
    /\ texts = [c \in ChunkIds |-> document[c].scripts]
    /\ warnings = [c \in ChunkIds |->
            QuarantineWarnings(c) \cup {Classified(w) : w \in SplitterWarnings(c)}]
    /\ records = [c \in ChunkIds |-> {}]
    /\ vector = [c \in ChunkIds |-> Kind(c) # "provenance"]
    /\ requests = [c \in ChunkIds |-> [r \in DOMAIN document[c].scripts |-> "none"]]
    /\ queue = <<>> /\ candidates = <<>> /\ attempts = <<>> /\ report = {} /\ indexed = {}

-----------------------------------------------------------------------------
(* The gate: what validate_adapter_chunks does to one chunk *)

\* _downgrade_pure_layout_noise
Downgraded(c, w) ==
    IF w.code = "quarantined" /\ document[c].noise = "layout"
    THEN [w EXCEPT !.severity = "info", !.action = "layout_noise", !.suppressed = TRUE]
    ELSE w

\* _repair_missing_script_from_provenance: blocks of the chunk's own
\* provenance that have a script the text lacks are appended to it.
LocallyRepaired(c) ==
    LET lacking == contract.required \ AllScripts(texts[c])
    IN  IF document[c].preview \cap lacking = {} THEN texts[c]
        ELSE Extend(texts[c], document[c].preview)

\* _missing_script_action
MissingBlocks ==
    ~contract.allow /\ (contract.missing = "block" \/ contract.parallel)

\* _reference_record and _unresolved_reference_record
Record(reference, missing, status, allowed) ==
    [reference |-> reference, missing |-> missing, status |-> status, vector |-> allowed]

RecordOf(r, present) ==
    LET missing == contract.required \ present
    IN  CASE missing # {} -> Record(r, missing, "missing", ~MissingBlocks)
          [] missing = {} /\ MissingOptional(present) # {} ->
                Record(r, {}, "optional", contract.optionalAction # "block")
          [] OTHER -> Record(r, {}, "passed", TRUE)

\* Mutant: only the references that are there are judged.
RecordsOfReferences(c, text) == {RecordOf(r, text[r]) : r \in References(c)}

RecordsOf(c, text) ==
    {RecordOf(r, text[r]) : r \in References(c)} \cup
    (IF MustResolve(c) THEN {Record(0, {}, "unresolved", FALSE)} ELSE {})

\* _parser_warnings_from_reference_records, with what apply_post_quality_repairs
\* adds to the missing-script warnings at once.
MissingWarning(reference, script) ==
    [Warning("missing", reference, script, "warn") EXCEPT !.visionRequired = TRUE]

MissingWarnings(recs) ==
    UNION {{MissingWarning(rec.reference, script) : script \in rec.missing} : rec \in recs}
OptionalWarnings(recs, text) ==
    UNION {{Warning("optional", rec.reference, script, contract.optionalAction) :
                script \in MissingOptional(text[rec.reference])} :
                rec \in {x \in recs : x.status = "optional"}}
UnresolvedWarnings(recs) ==
    {Warning("unresolved", 0, "none", "warn") : rec \in {x \in recs : x.status = "unresolved"}}

WarningsOf(recs, text) ==
    MissingWarnings(recs) \cup OptionalWarnings(recs, text) \cup UnresolvedWarnings(recs)

\* _annotate_existing_missing_script_warnings
Annotated(w, recs) ==
    IF w.code = "missing"
       /\ \E rec \in recs : w.reference \in {0, rec.reference} /\ w.script \in rec.missing
    THEN [w EXCEPT !.visionRequired = TRUE] ELSE w

\* _parser_warning_blocks_materialization, and _apply_parser_quality_action_policy,
\* which keeps a chunk with such a warning out of the indexes.
Blocking(w) == w.action = "block"
PassesParserQuality(found) == ~\E w \in found : Blocking(w)

\* Mutant: warnings are the same if they are about the same thing.
MergedByKey(kept, new) ==
    kept \cup {w \in new : \A k \in kept : k.code = w.code /\ k.reference = w.reference =>
                                            k.script # w.script}

\* merge_parser_warnings: a warning is new unless an equal one, marks and all, is there.
Merged(kept, new) == kept \cup new

\* Mutant: a chunk that was blocked stays so.
AllowsIfNeverBlocked(c, found) ==
    vector[c] /\ \A rec \in found : rec.vector

\* _quality_action_policy: a chunk with records is judged anew by them, one
\* without keeps the policy it has.
Allows(c, found) ==
    /\ Kind(c) # "provenance"
    /\ IF found # {} THEN \A rec \in found : rec.vector ELSE vector[c]

\* apply_post_quality_repairs asks vision for every reference that lacks scripts.
Asked(found) == {rec.reference : rec \in {x \in found : x.missing # {}}}

Gated(c) ==
    LET text == LocallyRepaired(c)
        found == IF GateReferences /\ Kind(c) # "provenance" THEN RecordsOf(c, text) ELSE {}
        kept == {Annotated(Downgraded(c, Classified(w)), found) : w \in warnings[c]}
        all == Merged(kept, WarningsOf(found, text))
        asked == Asked(found)
    IN  [text |-> text,
         records |-> found,
         warnings |-> all,
         vector |-> Allows(c, found) /\ PassesParserQuality(all),
         requests |-> IF asked = {} THEN requests[c]
                      ELSE [r \in DOMAIN requests[c] |-> IF r \in asked THEN "open" ELSE "none"],
         asked |-> asked]

\* _requires_document_arabic: a document that must have Arabic has none, not
\* even after the local repairs.
LacksArabic ==
    /\ "arabic" \in contract.required
    /\ \A c \in ChunkIds : "arabic" \notin AllScripts(LocallyRepaired(c))

\* index_quality_report
ReportOf(gated) ==
    UNION {{<<c, rec.reference, rec.status>> : rec \in gated[c].records} : c \in ChunkIds}

Validated(gated) ==
    /\ texts' = [c \in ChunkIds |-> gated[c].text]
    /\ warnings' = [c \in ChunkIds |-> gated[c].warnings]
    /\ records' = [c \in ChunkIds |-> gated[c].records]
    /\ vector' = [c \in ChunkIds |-> gated[c].vector]
    /\ requests' = [c \in ChunkIds |-> gated[c].requests]
    /\ report' = ReportOf(gated)

\* The first validation raises, or its vision requests are handed to recover()
\* in the order of the chunks and their references.
Validate ==
    /\ phase = "validate"
    /\ IF LacksArabic THEN phase' = "rejected" /\ UNCHANGED <<gateVars, queue>>
       ELSE LET gated == [c \in ChunkIds |-> Gated(c)]
                ofChunk(c) == [k \in 1 .. Cardinality(gated[c].asked) |->
                                <<c, SetToSortSeq(gated[c].asked, <)[k]>>]
            IN  /\ Validated(gated)
                /\ queue' = FlattenSeq([c \in ChunkIds |-> ofChunk(c)])
                /\ phase' = IF queue' = <<>> THEN "materialize" ELSE "recover"
    /\ UNCHANGED <<inputVars, candidates, attempts, indexed>>

\* Mutant: what was recovered is not validated again.
RevalidateNever ==
    /\ phase = "recover" /\ queue = <<>>
    /\ phase' = "materialize"
    /\ UNCHANGED <<inputVars, gateVars, queue, candidates, attempts, indexed>>

\* reindex_document validates again only if a recovery has succeeded.
Revalidate ==
    /\ phase = "recover" /\ queue = <<>>
    /\ IF \E c \in ChunkIds : "succeeded" \in Range(requests[c])
         THEN Validated([c \in ChunkIds |-> Gated(c)])
         ELSE UNCHANGED gateVars
    /\ phase' = "materialize"
    /\ UNCHANGED <<inputVars, queue, candidates, attempts, indexed>>

-----------------------------------------------------------------------------
(* Targeted vision recovery *)

\* The warnings of the request's reference, or of none, and missing scripts.
Matches(w, c, r) ==
    /\ w.code = "missing" /\ w.reference \in {0, r}
    /\ \E rec \in records[c] : rec.reference = r /\ w.script \in rec.missing

Recovered(w) == [w EXCEPT !.severity = "info", !.suppressed = TRUE, !.visionRequired = FALSE,
                          !.action = "accepted_recovery"]

\* _mark_request and _mark_matching_warnings
Mark(c, r, status) ==
    /\ requests' = [requests EXCEPT ![c][r] = status]
    /\ warnings' = [warnings EXCEPT ![c] =
            {IF Matches(w, c, r)
             THEN IF status = "succeeded" THEN Recovered(w)
                  ELSE [w EXCEPT !.visionRequired = TRUE]
             ELSE w : w \in @}]

Recovering(c, r) == phase = "recover" /\ queue # <<>> /\ Head(queue) = <<c, r>>

EndRequest(c, r, status) ==
    /\ Mark(c, r, status)
    /\ queue' = Tail(queue) /\ candidates' = <<>>
    /\ UNCHANGED <<inputVars, phase, records, vector, report, indexed>>

\* No model, or its budget is spent, or no block of the pages to show it.
RefuseRequest(c, r) ==
    /\ Recovering(c, r) /\ requests[c][r] = "open" /\ candidates = <<>>
    /\ \/ ~contract.vision /\ EndRequest(c, r, "not_configured")
       \/ contract.vision /\ Len(attempts) >= MaxVisionCalls /\ EndRequest(c, r, "failed")
       \/ /\ contract.vision /\ Len(attempts) < MaxVisionCalls
          /\ document[c].evidence = <<>> /\ EndRequest(c, r, "no_evidence")
    /\ UNCHANGED <<texts, attempts>>

\* The total budget is looked at once for a request, not for each candidate.
BeginRequest(c, r) ==
    /\ Recovering(c, r) /\ requests[c][r] = "open" /\ candidates = <<>>
    /\ contract.vision /\ Len(attempts) < MaxVisionCalls /\ document[c].evidence # <<>>
    /\ candidates' = document[c].evidence
    /\ requests' = [requests EXCEPT ![c][r] = "trying"]
    /\ UNCHANGED <<inputVars, phase, texts, warnings, records, vector, queue, attempts, report,
                   indexed>>

PageSpent(page) ==
    Cardinality({k \in DOMAIN attempts : attempts[k] = page}) >= MaxPageCalls

\* A candidate whose page is spent, or that has no image, is passed over.
PassOver(c, r) ==
    /\ Recovering(c, r) /\ candidates # <<>>
    /\ candidates' = Tail(candidates)
    /\ UNCHANGED <<inputVars, phase, gateVars, queue, attempts, indexed>>

\* The model is called; it may fail, or answer with some scripts.  The answer
\* counts only if it has every script the request lacks; it goes at the end of
\* the text, whichever reference of the chunk asked for it.
MissingOf(c, r) == UNION {rec.missing : rec \in {x \in records[c] : x.reference = r}}

CallModel(c, r) ==
    /\ Recovering(c, r) /\ candidates # <<>> /\ ~PageSpent(Head(candidates))
    /\ attempts' = Append(attempts, Head(candidates))
    /\ \E found \in SUBSET Scripts :
        IF MissingOf(c, r) \subseteq found
        THEN /\ texts' = [texts EXCEPT ![c] = Extend(@, found)]
             /\ EndRequest(c, r, "succeeded")
        ELSE /\ candidates' = Tail(candidates)
             /\ UNCHANGED <<inputVars, phase, gateVars, queue, indexed>>

GiveUp(c, r) ==
    /\ Recovering(c, r) /\ requests[c][r] = "trying" /\ candidates = <<>>
    /\ EndRequest(c, r, "failed")
    /\ UNCHANGED <<texts, attempts>>

-----------------------------------------------------------------------------
Materialize ==
    /\ phase = "materialize"
    /\ indexed' = {c \in ChunkIds : vector[c]}
    /\ phase' = "done"
    /\ UNCHANGED <<inputVars, gateVars, queue, candidates, attempts>>

Recover ==
    \E c \in ChunkIds : \E r \in DOMAIN requests[c] :
        \/ RefuseRequest(c, r) \/ BeginRequest(c, r) \/ PassOver(c, r)
        \/ CallModel(c, r) \/ GiveUp(c, r)

Step == Validate \/ Recover \/ Revalidate \/ Materialize
Done == phase \in {"done", "rejected"} /\ UNCHANGED vars
Next == Step \/ Done

Spec == Init /\ [][Next]_vars /\ WF_vars(Step)

-----------------------------------------------------------------------------
Requests == {"none", "open", "trying", "not_configured", "no_evidence", "failed", "succeeded"}

TypeOK ==
    /\ contract \in ContractRecord
    /\ phase \in {"validate", "recover", "materialize", "done", "rejected"}
    /\ \A c \in ChunkIds :
        /\ texts[c] \in Seq(SUBSET Scripts) /\ Len(texts[c]) = Len(document[c].scripts)
        /\ \A r \in DOMAIN requests[c] : requests[c][r] \in Requests
        /\ vector[c] \in BOOLEAN
    /\ indexed \subseteq ChunkIds

FinalMissing(c, r) == contract.required \ texts[c][r]

\* What a reader of the final texts would let into the vector index, with no
\* memory of the passes: no provenance, no text without the reference the
\* contract asks for, no reference that lacks a script under a contract that
\* blocks it, no quarantine that a layout policy blocks.
Sound(c) ==
    /\ Kind(c) # "provenance"
    /\ GateReferences => ~MustResolve(c)
    /\ GateReferences => \A r \in References(c) :
        /\ MissingBlocks => FinalMissing(c, r) = {}
        /\ FinalMissing(c, r) = {} /\ contract.optionalAction = "block" =>
                contract.optional \subseteq texts[c][r]
    /\ ~("quarantined" \in contract.blocks /\ document[c].noise = "text")

\* A chunk that is not sound is never handed to the runtime's index, whichever
\* repairs and recoveries have gone on in it and in the others.
OnlySoundChunksAreIndexed == \A c \in indexed : Sound(c)

\* A chunk that is sound, because its text always was or because a repair made
\* it so, is indexed: no block of the first pass outlives its reason.  (Where
\* a layout policy blocks missing-script warnings too, see the README.)
SoundChunksAreIndexed ==
    phase = "done" /\ "missing" \notin contract.blocks =>
        \A c \in ChunkIds : Sound(c) => c \in indexed

\* The report stored with the index says of every reference what the indexed
\* text says, also where the text was extended after the report was first made.
ReportMatchesTexts ==
    phase = "done" /\ GateReferences =>
        \A c \in ChunkIds : \A r \in References(c) : \A status \in {"missing", "passed"} :
            <<c, r, status>> \in report =>
                (status = "missing" <=> FinalMissing(c, r) # {})

\* "Do not silently lower expected-script requirements to make warnings
\* disappear": a reference that still lacks a required script at the end has a
\* counted warning for it, also when another reference of its chunk was
\* recovered, or its own recovery went to the other one's text.
MissingScriptsAreReported ==
    phase = "done" /\ GateReferences =>
        \A c \in ChunkIds : \A r \in References(c) : \A script \in FinalMissing(c, r) :
            \E w \in warnings[c] : w.code = "missing" /\ w.reference = r /\ w.script = script
                                   /\ Counted(w)
=============================================================================
