----------------------- MODULE ReferenceQualityProofs -----------------------
(***************************************************************************)
(* Theorems about ReferenceQuality, for any documents, contracts, scripts  *)
(* and budgets of vision calls.                                            *)
(***************************************************************************)
EXTENDS ReferenceQuality, SequenceTheorems, TLAPS

-----------------------------------------------------------------------------
(* The inductive invariant                                                 *)

Codes == {"quarantined", "missing", "optional", "unresolved"}

Actions ==
    {"unset", "block", "review_warning", "layout_noise", "accepted_recovery"}

WarningRecord ==
    [code : Codes, reference : Nat, script : Scripts \cup {"none"},
     severity : {"no_warning", "info", "warn", "block"}, action : Actions,
     suppressed : BOOLEAN, visionRequired : BOOLEAN]

\* A chunk keeps its number of references, and its warnings are warnings.
ChunkOK(c) ==
    /\ texts[c] \in Seq(SUBSET Scripts) /\ Len(texts[c]) = Len(document[c].scripts)
    /\ warnings[c] \subseteq WarningRecord
    /\ requests[c] \in [DOMAIN document[c].scripts -> Requests]
    /\ vector[c] \in BOOLEAN

Shapes ==
    /\ contract \in ContractRecord
    /\ document \in Seq(ChunkRecord)
    /\ phase \in {"validate", "recover", "materialize", "done", "rejected"}
    /\ DOMAIN texts = ChunkIds /\ DOMAIN warnings = ChunkIds /\ DOMAIN records = ChunkIds
    /\ DOMAIN vector = ChunkIds /\ DOMAIN requests = ChunkIds
    /\ \A c \in ChunkIds : ChunkOK(c)
    /\ indexed \subseteq ChunkIds

\* The layout policy is the only reason to block a warning, and the quarantine
\* warnings are those of the splitter.
WarningsOK(c) ==
    /\ \A w \in warnings[c] : w.action = "block" => w.code \in contract.blocks
    /\ document[c].noise # "none" => \E w \in warnings[c] : w.code = "quarantined"
    /\ \A w \in warnings[c] : w.code = "quarantined" => document[c].noise # "none"

\* The gate keeps no record of such a chunk, and then asks what the chunk's
\* policy was.
Unrecorded(c) == ~GateReferences \/ (References(c) = {} /\ ~MustResolve(c))

VectorOK(c) ==
    "missing" \notin contract.blocks /\ Unrecorded(c) /\ Sound(c) => vector[c]

GatedRecords(c) ==
    IF GateReferences /\ Kind(c) # "provenance" THEN RecordsOf(c, texts[c]) ELSE {}

\* What a pass of the gate establishes of a chunk, as long as its text is the
\* one the pass has seen.
Checked(c) ==
    /\ vector[c] => Sound(c)
    /\ "missing" \notin contract.blocks /\ Sound(c) => vector[c]
    /\ records[c] = GatedRecords(c)
    /\ GateReferences =>
        \A r \in References(c) : \A script \in FinalMissing(c, r) :
            \E w \in warnings[c] : /\ w.code = "missing" /\ w.reference = r
                                   /\ w.script = script /\ Counted(w)

Reported == report = ReportOf([c \in ChunkIds |-> [records |-> records[c]]])

AllChecked == Reported /\ \A c \in ChunkIds : Checked(c)

\* Some text may have been extended since the gate has seen it.
Recovery == \E c \in ChunkIds : \E r \in DOMAIN requests[c] : requests[c][r] = "succeeded"

Passed ==
    /\ phase = "recover" /\ ~Recovery => AllChecked
    /\ phase \in {"materialize", "done"} => AllChecked
    /\ phase = "done" => indexed = {c \in ChunkIds : vector[c]}
    /\ phase # "done" => indexed = {}

IInv ==
    /\ Shapes
    /\ \A c \in ChunkIds : WarningsOK(c) /\ VectorOK(c)
    /\ Passed

-----------------------------------------------------------------------------
(* The warnings of a chunk                                                 *)

\* w becomes v: the gate and the recovery change what is done about a warning,
\* never what it is about.
SameSubject(v, w) == v.code = w.code /\ v.reference = w.reference /\ v.script = w.script

LEMMA ClassifiedWarning ==
    ASSUME NEW w \in WarningRecord
    PROVE  /\ Classified(w) \in WarningRecord
           /\ SameSubject(Classified(w), w)
           /\ w.code \in contract.blocks => Classified(w).action = "block"
           /\ Classified(w).action = "block" =>
                w.action = "block" \/ w.code \in contract.blocks
BY DEF Classified, WarningRecord, Codes, Actions, SameSubject

LEMMA DowngradedWarning ==
    ASSUME NEW c, NEW w \in WarningRecord
    PROVE  /\ Downgraded(c, w) \in WarningRecord
           /\ SameSubject(Downgraded(c, w), w)
           /\ document[c].noise # "layout" => Downgraded(c, w) = w
           /\ Downgraded(c, w).action = "block" =>
                /\ w.action = "block"
                /\ ~(w.code = "quarantined" /\ document[c].noise = "layout")
BY DEF Downgraded, WarningRecord, Codes, Actions, SameSubject

LEMMA AnnotatedWarning ==
    ASSUME NEW recs, NEW w \in WarningRecord
    PROVE  /\ Annotated(w, recs) \in WarningRecord
           /\ SameSubject(Annotated(w, recs), w)
           /\ Annotated(w, recs).action = w.action
BY DEF Annotated, WarningRecord, Codes, Actions, SameSubject

\* What one pass of the gate makes of a warning the chunk already had.
Kept(c, w, recs) == Annotated(Downgraded(c, Classified(w)), recs)

LEMMA KeptWarning ==
    ASSUME NEW c, NEW recs, NEW w \in WarningRecord
    PROVE  /\ Kept(c, w, recs) \in WarningRecord
           /\ SameSubject(Kept(c, w, recs), w)
           /\ w.code \in contract.blocks /\ document[c].noise # "layout" =>
                Kept(c, w, recs).action = "block"
           /\ Kept(c, w, recs).action = "block" =>
                /\ w.action = "block" \/ w.code \in contract.blocks
                /\ ~(w.code = "quarantined" /\ document[c].noise = "layout")
<1>1. PICK u \in WarningRecord :
        /\ u = Classified(w) /\ SameSubject(u, w)
        /\ w.code \in contract.blocks => u.action = "block"
        /\ u.action = "block" => w.action = "block" \/ w.code \in contract.blocks
  BY ClassifiedWarning
<1>2. PICK v \in WarningRecord :
        /\ v = Downgraded(c, u) /\ SameSubject(v, u)
        /\ document[c].noise # "layout" => v = u
        /\ v.action = "block" =>
            u.action = "block" /\ ~(u.code = "quarantined" /\ document[c].noise = "layout")
  BY DowngradedWarning
<1>3. PICK x \in WarningRecord :
        x = Annotated(v, recs) /\ SameSubject(x, v) /\ x.action = v.action
  BY AnnotatedWarning
<1>4. x = Kept(c, w, recs)
  BY <1>1, <1>2, <1>3 DEF Kept
<1> QED
  BY <1>1, <1>2, <1>3, <1>4 DEF SameSubject

LEMMA NewWarning ==
    ASSUME NEW code \in Codes, NEW r \in Nat, NEW script \in Scripts \cup {"none"},
           NEW severity \in {"no_warning", "info", "warn", "block"}
    PROVE  /\ Warning(code, r, script, severity) \in WarningRecord
           /\ Warning(code, r, script, severity).code = code
           /\ Warning(code, r, script, severity).action = "unset"
BY DEF Warning, WarningRecord, Actions

LEMMA NewMissingWarning ==
    ASSUME NEW r \in Nat, NEW script \in Scripts
    PROVE  /\ MissingWarning(r, script) \in WarningRecord
           /\ MissingWarning(r, script).code = "missing"
           /\ MissingWarning(r, script).reference = r
           /\ MissingWarning(r, script).script = script
           /\ MissingWarning(r, script).action = "unset"
           /\ Counted(MissingWarning(r, script))
BY DEF MissingWarning, Warning, WarningRecord, Actions, Codes, Counted

-----------------------------------------------------------------------------
(* The records of a chunk                                                  *)

\* What a record says of the text it was made from.
LEMMA RecordOfText ==
    ASSUME NEW r, NEW present
    PROVE  LET rec == RecordOf(r, present)
               lacking == contract.required \ present
           IN  /\ rec.reference = r /\ rec.missing = lacking
               /\ rec.status \in {"missing", "optional", "passed"}
               /\ rec.status = "missing" <=> lacking # {}
               /\ rec.vector <=>
                    /\ MissingBlocks => lacking = {}
                    /\ lacking = {} /\ contract.optionalAction = "block" =>
                            contract.optional \subseteq present
<1>1. CASE contract.required \ present # {}
  BY <1>1 DEF RecordOf, Record
<1>2. CASE contract.required \ present = {} /\ MissingOptional(present) # {}
  BY <1>2 DEF RecordOf, Record, MissingOptional
<1>3. CASE contract.required \ present = {} /\ MissingOptional(present) = {}
  BY <1>3 DEF RecordOf, Record, MissingOptional
<1> QED
  BY <1>1, <1>2, <1>3

LEMMA RecordsOfChunk ==
    ASSUME NEW c, NEW text
    PROVE  /\ \A rec \in RecordsOf(c, text) :
                \/ \E r \in References(c) : rec = RecordOf(r, text[r])
                \/ MustResolve(c) /\ rec = Record(0, {}, "unresolved", FALSE)
           /\ \A r \in References(c) : RecordOf(r, text[r]) \in RecordsOf(c, text)
           /\ MustResolve(c) => Record(0, {}, "unresolved", FALSE) \in RecordsOf(c, text)
BY DEF RecordsOf

\* Sound(c), were its text the one given.
SoundWith(c, text) ==
    /\ Kind(c) # "provenance"
    /\ GateReferences => ~MustResolve(c)
    /\ GateReferences => \A r \in References(c) :
        /\ MissingBlocks => contract.required \ text[r] = {}
        /\ contract.required \ text[r] = {} /\ contract.optionalAction = "block" =>
                contract.optional \subseteq text[r]
    /\ ~("quarantined" \in contract.blocks /\ document[c].noise = "text")

\* The records the gate makes of a text.
RecordsWith(c, text) ==
    IF GateReferences /\ Kind(c) # "provenance" THEN RecordsOf(c, text) ELSE {}

LEMMA SoundIsSoundWith ==
    ASSUME NEW c
    PROVE  Sound(c) <=> SoundWith(c, texts[c])
BY DEF Sound, SoundWith, FinalMissing

LEMMA UnrecordedIsSoundWhatever ==
    ASSUME NEW c, NEW text, NEW other, Unrecorded(c)
    PROVE  SoundWith(c, text) <=> SoundWith(c, other)
BY DEF SoundWith, Unrecorded

\* There are no records exactly where nothing depends on the text.
LEMMA NoRecords ==
    ASSUME NEW c, NEW text, Kind(c) # "provenance"
    PROVE  RecordsWith(c, text) = {} <=> Unrecorded(c)
BY DEF RecordsWith, RecordsOf, Unrecorded

\* The records let a chunk into the index if its text is sound.
LEMMA RecordsAllowSound ==
    ASSUME NEW c, NEW text, GateReferences, Kind(c) # "provenance"
    PROVE  (\A rec \in RecordsWith(c, text) : rec.vector) <=>
           /\ ~MustResolve(c)
           /\ \A r \in References(c) :
                /\ MissingBlocks => contract.required \ text[r] = {}
                /\ contract.required \ text[r] = {} /\ contract.optionalAction = "block" =>
                        contract.optional \subseteq text[r]
<1> DEFINE Good(r) ==
        /\ MissingBlocks => contract.required \ text[r] = {}
        /\ contract.required \ text[r] = {} /\ contract.optionalAction = "block" =>
                contract.optional \subseteq text[r]
<1>1. RecordsWith(c, text) = RecordsOf(c, text)
  BY DEF RecordsWith
<1>2. \A r \in References(c) : RecordOf(r, text[r]).vector <=> Good(r)
  BY RecordOfText
<1>3. ~Record(0, {}, "unresolved", FALSE).vector
  BY DEF Record
<1> HIDE DEF Good
<1>4. (\A rec \in RecordsOf(c, text) : rec.vector) <=>
      ~MustResolve(c) /\ \A r \in References(c) : Good(r)
  BY <1>2, <1>3, RecordsOfChunk
<1> QED
  BY <1>1, <1>4 DEF Good

-----------------------------------------------------------------------------
(* The texts of a chunk                                                    *)

LEMMA ExtendedText ==
    ASSUME NEW text \in Seq(SUBSET Scripts), NEW scripts \in SUBSET Scripts
    PROVE  /\ Extend(text, scripts) \in Seq(SUBSET Scripts)
           /\ Len(Extend(text, scripts)) = Len(text)
<1>1. CASE text = <<>>
  <2>1. Len(text) \notin DOMAIN text
    BY <1>1
  <2>2. Extend(text, scripts) = text
    BY <2>1 DEF Extend
  <2> QED
    BY <2>2
<1>2. CASE text # <<>>
  <2>1. Len(text) \in 1 .. Len(text)
    BY <1>2, EmptySeq, LenProperties
  <2>2. text[Len(text)] \cup scripts \in SUBSET Scripts
    BY <2>1, ElementOfSeq
  <2> QED
    BY <2>1, <2>2, ExceptSeq DEF Extend
<1> QED
  BY <1>1, <1>2

LEMMA RepairedText ==
    ASSUME Shapes, NEW c \in ChunkIds
    PROVE  /\ LocallyRepaired(c) \in Seq(SUBSET Scripts)
           /\ Len(LocallyRepaired(c)) = Len(document[c].scripts)
<1>1. document[c] \in ChunkRecord
  BY ElementOfSeq, LenProperties DEF Shapes, ChunkIds
<1>2. document[c].preview \in SUBSET Scripts
  BY <1>1 DEF ChunkRecord
<1>3. texts[c] \in Seq(SUBSET Scripts) /\ Len(texts[c]) = Len(document[c].scripts)
  BY DEF Shapes, ChunkOK
<1> QED
  BY <1>2, <1>3, ExtendedText DEF LocallyRepaired

LEMMA ReferencesAreNumbers ==
    ASSUME NEW c \in ChunkIds, document \in Seq(ChunkRecord)
    PROVE  /\ document[c] \in ChunkRecord
           /\ DOMAIN document[c].scripts = 1 .. Len(document[c].scripts)
           /\ References(c) \subseteq Nat
           /\ References(c) \subseteq DOMAIN document[c].scripts
<1>1. document[c] \in ChunkRecord
  BY ElementOfSeq, LenProperties DEF ChunkIds
<1>2. document[c].scripts \in Seq(SUBSET Scripts)
  BY <1>1 DEF ChunkRecord
<1> QED
  BY <1>1, <1>2, LenProperties DEF References

-----------------------------------------------------------------------------
(* A pass of the gate over one chunk                                       *)

\* The warnings the records of a text give rise to.
LEMMA WarningsOfRecords ==
    ASSUME Shapes, NEW c \in ChunkIds, NEW text,
           NEW w \in WarningsOf(RecordsWith(c, text), text)
    PROVE  /\ w \in WarningRecord
           /\ w.action = "unset"
           /\ w.code # "quarantined"
<1>1. contract.required \in SUBSET Scripts /\ contract.optional \in SUBSET Scripts
      /\ contract.optionalAction \in {"no_warning", "info", "warn", "block"}
  BY DEF Shapes, ContractRecord
<1>2. \A rec \in RecordsWith(c, text) :
        /\ rec.reference \in Nat
        /\ rec.missing \subseteq Scripts
  <2>1. SUFFICES ASSUME NEW rec \in RecordsOf(c, text)
                 PROVE  rec.reference \in Nat /\ rec.missing \subseteq Scripts
    BY <2>1 DEF RecordsWith
  <2>2. CASE \E r \in References(c) : rec = RecordOf(r, text[r])
    BY <2>2, <1>1, RecordOfText, ReferencesAreNumbers DEF Shapes
  <2>3. CASE rec = Record(0, {}, "unresolved", FALSE)
    BY <2>3 DEF Record
  <2> QED
    BY <2>2, <2>3, RecordsOfChunk
<1>3. \/ \E rec \in RecordsWith(c, text) : \E script \in rec.missing :
            w = MissingWarning(rec.reference, script)
      \/ \E rec \in RecordsWith(c, text) : \E script \in MissingOptional(text[rec.reference]) :
            w = Warning("optional", rec.reference, script, contract.optionalAction)
      \/ w = Warning("unresolved", 0, "none", "warn")
  <2> DEFINE recs == RecordsWith(c, text)
  <2> HIDE DEF recs
  <2>1. w \in WarningsOf(recs, text)
    BY DEF recs
  <2>2. w \in MissingWarnings(recs) \/ w \in OptionalWarnings(recs, text)
        \/ w \in UnresolvedWarnings(recs)
    BY <2>1 DEF WarningsOf
  <2>3. CASE w \in MissingWarnings(recs)
    BY <2>3 DEF MissingWarnings, recs
  <2>4. CASE w \in OptionalWarnings(recs, text)
    BY <2>4 DEF OptionalWarnings, recs
  <2>5. CASE w \in UnresolvedWarnings(recs)
    BY <2>5 DEF UnresolvedWarnings
  <2> QED
    BY <2>2, <2>3, <2>4, <2>5
<1>4. CASE \E rec \in RecordsWith(c, text) : \E script \in rec.missing :
            w = MissingWarning(rec.reference, script)
  BY <1>4, <1>2, NewMissingWarning
<1>5. CASE \E rec \in RecordsWith(c, text) : \E script \in MissingOptional(text[rec.reference]) :
            w = Warning("optional", rec.reference, script, contract.optionalAction)
  BY <1>5, <1>1, <1>2, NewWarning DEF MissingOptional, Codes
<1>6. CASE w = Warning("unresolved", 0, "none", "warn")
  BY <1>6, NewWarning DEF Codes
<1> QED
  BY <1>3, <1>4, <1>5, <1>6

\* The warnings a pass leaves on a chunk of that text.
GatedWarnings(c, text) ==
    {Kept(c, w, RecordsWith(c, text)) : w \in warnings[c]} \cup
    WarningsOf(RecordsWith(c, text), text)

GatedRequests(c, text) ==
    IF Asked(RecordsWith(c, text)) = {} THEN requests[c]
    ELSE [r \in DOMAIN requests[c] |->
            IF r \in Asked(RecordsWith(c, text)) THEN "open" ELSE "none"]

LEMMA GatedFields ==
    ASSUME NEW c
    PROVE  LET text == LocallyRepaired(c) IN
           /\ Gated(c).text = text
           /\ Gated(c).records = RecordsWith(c, text)
           /\ Gated(c).warnings = GatedWarnings(c, text)
           /\ Gated(c).requests = GatedRequests(c, text)
           /\ Gated(c).vector <=>
                Allows(c, RecordsWith(c, text)) /\ PassesParserQuality(GatedWarnings(c, text))
           /\ Gated(c).vector \in BOOLEAN
<1> DEFINE text == LocallyRepaired(c)
           found == RecordsWith(c, text)
<1>1. found = IF GateReferences /\ Kind(c) # "provenance" THEN RecordsOf(c, text) ELSE {}
  BY DEF RecordsWith
<1>2. Merged({Kept(c, w, found) : w \in warnings[c]}, WarningsOf(found, text)) =
      GatedWarnings(c, text)
  BY DEF Merged, GatedWarnings
<1>3. GatedRequests(c, text) =
        IF Asked(found) = {} THEN requests[c]
        ELSE [r \in DOMAIN requests[c] |-> IF r \in Asked(found) THEN "open" ELSE "none"]
  BY DEF GatedRequests
<1> DEFINE allowed == Allows(c, found) /\ PassesParserQuality(GatedWarnings(c, text))
<1>4. Gated(c) =
        [text |-> text, records |-> found, warnings |-> GatedWarnings(c, text),
         vector |-> allowed, requests |-> GatedRequests(c, text), asked |-> Asked(found)]
  BY <1>1, <1>2, <1>3 DEF Gated, Kept
<1>5. allowed \in BOOLEAN
  OBVIOUS
<1> HIDE DEF found, allowed, text
<1>6. /\ Gated(c).text = text /\ Gated(c).records = found
      /\ Gated(c).warnings = GatedWarnings(c, text)
      /\ Gated(c).requests = GatedRequests(c, text)
      /\ Gated(c).vector = allowed
  BY <1>4
<1> QED
  BY <1>5, <1>6 DEF found, allowed, text

\* What is said of the warnings of a chunk, of a set of warnings.
WarningsOKIn(c, ws) ==
    /\ \A w \in ws : w.action = "block" => w.code \in contract.blocks
    /\ document[c].noise # "none" => \E w \in ws : w.code = "quarantined"
    /\ \A w \in ws : w.code = "quarantined" => document[c].noise # "none"

LEMMA GatedWarningsOK ==
    ASSUME Shapes, NEW c \in ChunkIds, WarningsOK(c), NEW text
    PROVE  /\ GatedWarnings(c, text) \subseteq WarningRecord
           /\ WarningsOKIn(c, GatedWarnings(c, text))
           /\ (\E w \in GatedWarnings(c, text) : Blocking(w)) =>
                \/ "missing" \in contract.blocks
                \/ "quarantined" \in contract.blocks /\ document[c].noise = "text"
           /\ "quarantined" \in contract.blocks /\ document[c].noise = "text" =>
                \E w \in GatedWarnings(c, text) : Blocking(w)
<1> DEFINE recs == RecordsWith(c, text)
           kept == {Kept(c, w, recs) : w \in warnings[c]}
           new == WarningsOf(recs, text)
<1>1. warnings[c] \subseteq WarningRecord
  BY DEF Shapes, ChunkOK
<1>2. \A v \in new : v \in WarningRecord /\ v.action = "unset" /\ v.code # "quarantined"
  BY WarningsOfRecords
<1>3. GatedWarnings(c, text) = kept \cup new
  BY DEF GatedWarnings
<1>4. \A v \in kept : \E w \in warnings[c] : v = Kept(c, w, recs)
  OBVIOUS
<1>5. \A w \in warnings[c] : Kept(c, w, recs) \in kept
  OBVIOUS
<1>6. \A w \in warnings[c] :
        /\ Kept(c, w, recs) \in WarningRecord
        /\ Kept(c, w, recs).code = w.code
        /\ w.code \in contract.blocks /\ document[c].noise # "layout" =>
                Kept(c, w, recs).action = "block"
        /\ Kept(c, w, recs).action = "block" =>
            /\ w.action = "block" \/ w.code \in contract.blocks
            /\ ~(w.code = "quarantined" /\ document[c].noise = "layout")
  BY <1>1, KeptWarning DEF SameSubject
<1> HIDE DEF recs, kept, new
<1>7. GatedWarnings(c, text) \subseteq WarningRecord
  BY <1>2, <1>3, <1>4, <1>6
<1>8. \A v \in GatedWarnings(c, text) : v.action = "block" =>
        /\ v.code \in contract.blocks
        /\ v.code = "quarantined" => document[c].noise \notin {"layout", "none"}
  BY <1>2, <1>3, <1>4, <1>6 DEF WarningsOK
<1>9. \A v \in GatedWarnings(c, text) : v.code = "quarantined" => document[c].noise # "none"
  BY <1>2, <1>3, <1>4, <1>6 DEF WarningsOK
<1>10. document[c].noise # "none" =>
        \E v \in GatedWarnings(c, text) :
            /\ v.code = "quarantined"
            /\ "quarantined" \in contract.blocks /\ document[c].noise # "layout" =>
                    v.action = "block"
  BY <1>3, <1>5, <1>6 DEF WarningsOK
<1>11. contract.blocks \subseteq {"quarantined", "missing"}
       /\ document[c].noise \in {"none", "layout", "text"}
  BY ReferencesAreNumbers DEF Shapes, ContractRecord, ChunkRecord
<1> QED
  BY <1>7, <1>8, <1>9, <1>10, <1>11 DEF WarningsOKIn, Blocking

\* A pass lets a chunk into the index if the text it leaves is sound, and only
\* then unless a layout policy blocks the missing-script warnings too.
LEMMA GatedVector ==
    ASSUME Shapes, NEW c \in ChunkIds, WarningsOK(c), VectorOK(c)
    PROVE  LET text == LocallyRepaired(c) IN
           /\ Gated(c).vector => SoundWith(c, text)
           /\ "missing" \notin contract.blocks /\ SoundWith(c, text) => Gated(c).vector
<1> DEFINE text == LocallyRepaired(c)
           recs == RecordsWith(c, text)
           ws == GatedWarnings(c, text)
           blocked == "quarantined" \in contract.blocks /\ document[c].noise = "text"
<1>1. Gated(c).vector <=> Allows(c, recs) /\ PassesParserQuality(ws)
  BY GatedFields
<1>2. /\ PassesParserQuality(ws) => ~blocked
      /\ "missing" \notin contract.blocks /\ ~blocked => PassesParserQuality(ws)
  BY GatedWarningsOK DEF PassesParserQuality
<1>3. SUFFICES ASSUME Kind(c) # "provenance"
               PROVE  /\ Allows(c, recs) /\ ~blocked => SoundWith(c, text)
                      /\ "missing" \notin contract.blocks /\ SoundWith(c, text) =>
                            Allows(c, recs) /\ ~blocked
  BY <1>1, <1>2 DEF Allows, SoundWith
<1>4. CASE recs = {}
  <2>1. Unrecorded(c)
    BY <1>3, <1>4, NoRecords
  <2>2. Allows(c, recs) <=> vector[c]
    BY <1>3, <1>4 DEF Allows
  <2>3. ~blocked => SoundWith(c, text)
    BY <1>3, <2>1 DEF Unrecorded, SoundWith
  <2>4. SoundWith(c, text) => SoundWith(c, texts[c]) /\ ~blocked
    BY <2>1, UnrecordedIsSoundWhatever DEF SoundWith
  <2> QED
    BY <2>1, <2>2, <2>3, <2>4, SoundIsSoundWith DEF VectorOK
<1>5. CASE recs # {}
  <2>1. GateReferences
    BY <1>5 DEF RecordsWith
  <2>2. Allows(c, recs) <=> \A rec \in recs : rec.vector
    BY <1>3, <1>5 DEF Allows
  <2> HIDE DEF text, recs
  <2>3. (\A rec \in recs : rec.vector) <=>
        /\ ~MustResolve(c)
        /\ \A r \in References(c) :
            /\ MissingBlocks => contract.required \ text[r] = {}
            /\ contract.required \ text[r] = {} /\ contract.optionalAction = "block" =>
                    contract.optional \subseteq text[r]
    BY <1>3, <2>1, RecordsAllowSound DEF recs
  <2> QED
    BY <1>3, <2>1, <2>2, <2>3 DEF SoundWith
<1> QED
  BY <1>4, <1>5

\* A pass warns of every script the text it leaves lacks.
LEMMA GatedReports ==
    ASSUME Shapes, NEW c \in ChunkIds, GateReferences, NEW text,
           NEW r \in References(c), NEW script \in contract.required \ text[r]
    PROVE  \E w \in GatedWarnings(c, text) :
                /\ w.code = "missing" /\ w.reference = r /\ w.script = script
                /\ Counted(w)
<1> DEFINE recs == RecordsWith(c, text)
<1>1. Kind(c) # "provenance"
  BY DEF References
<1>2. RecordOf(r, text[r]) \in recs
  BY <1>1, RecordsOfChunk DEF RecordsWith
<1>3. /\ RecordOf(r, text[r]).reference = r
      /\ script \in RecordOf(r, text[r]).missing
  BY RecordOfText
<1> HIDE DEF recs
<1>4. MissingWarning(r, script) \in MissingWarnings(recs)
  BY <1>2, <1>3 DEF MissingWarnings
<1>5. MissingWarning(r, script) \in GatedWarnings(c, text)
  BY <1>4 DEF GatedWarnings, WarningsOf, recs
<1>6. r \in Nat /\ script \in Scripts
  BY ReferencesAreNumbers DEF Shapes, ContractRecord
<1> QED
  BY <1>5, <1>6, NewMissingWarning

-----------------------------------------------------------------------------
(* A pass of the gate                                                      *)

\* What is sound, recorded and asked for after a step that leaves the contract
\* and the document alone.
LEMMA SoundNext ==
    ASSUME UNCHANGED inputVars, NEW c, NEW text, texts'[c] = text
    PROVE  /\ Sound(c)' <=> SoundWith(c, text)
           /\ GatedRecords(c)' = RecordsWith(c, text)
           /\ References(c)' = References(c) /\ GateReferences' = GateReferences
           /\ Unrecorded(c)' = Unrecorded(c)
           /\ \A r : FinalMissing(c, r)' = contract.required \ text[r]
<1>1. contract' = contract /\ document' = document
  BY DEF inputVars
<1>2. /\ Kind(c)' = Kind(c) /\ References(c)' = References(c)
      /\ MustResolve(c)' = MustResolve(c) /\ GateReferences' = GateReferences
      /\ MissingBlocks' = MissingBlocks
  BY <1>1 DEF Kind, References, MustResolve, GateReferences, MissingBlocks
<1>3. \A r : FinalMissing(c, r)' = contract.required \ text[r]
  BY <1>1 DEF FinalMissing
<1>4. Sound(c)' <=> SoundWith(c, text)
  BY <1>1, <1>2, <1>3 DEF Sound, SoundWith
<1>5. RecordsOf(c, texts[c])' = RecordsOf(c, text)
  BY <1>1, <1>2 DEF RecordsOf, RecordOf, MissingOptional, MissingBlocks
<1>6. GatedRecords(c)' = RecordsWith(c, text)
  BY <1>2, <1>5 DEF GatedRecords, RecordsWith
<1>7. Unrecorded(c)' = Unrecorded(c)
  BY <1>2 DEF Unrecorded
<1> QED
  BY <1>2, <1>3, <1>4, <1>6, <1>7

LEMMA GatedShape ==
    ASSUME Shapes, NEW c \in ChunkIds
    PROVE  GatedRequests(c, LocallyRepaired(c)) \in [DOMAIN document[c].scripts -> Requests]
<1>1. requests[c] \in [DOMAIN document[c].scripts -> Requests]
  BY DEF Shapes, ChunkOK
<1> QED
  BY <1>1 DEF GatedRequests, Requests

LEMMA ValidatedPass ==
    ASSUME Shapes, \A c \in ChunkIds : WarningsOK(c) /\ VectorOK(c),
           UNCHANGED inputVars, Validated([c \in ChunkIds |-> Gated(c)])
    PROVE  /\ ChunkIds' = ChunkIds
           /\ DOMAIN texts' = ChunkIds /\ DOMAIN warnings' = ChunkIds
           /\ DOMAIN records' = ChunkIds /\ DOMAIN vector' = ChunkIds
           /\ DOMAIN requests' = ChunkIds
           /\ \A c \in ChunkIds : ChunkOK(c)' /\ WarningsOK(c)' /\ VectorOK(c)' /\ Checked(c)'
           /\ Reported'
<1>1. contract' = contract /\ document' = document /\ ChunkIds' = ChunkIds
  BY DEF inputVars, ChunkIds
<1>2. /\ texts' = [c \in ChunkIds |-> Gated(c).text]
      /\ warnings' = [c \in ChunkIds |-> Gated(c).warnings]
      /\ records' = [c \in ChunkIds |-> Gated(c).records]
      /\ vector' = [c \in ChunkIds |-> Gated(c).vector]
      /\ requests' = [c \in ChunkIds |-> Gated(c).requests]
      /\ report' = ReportOf([c \in ChunkIds |-> Gated(c)])
  BY DEF Validated
<1>3. Reported'
  BY <1>1, <1>2 DEF Reported, ReportOf
<1>4. ASSUME NEW c \in ChunkIds
      PROVE  ChunkOK(c)' /\ WarningsOK(c)' /\ VectorOK(c)' /\ Checked(c)'
  <2>1. PICK text : text = LocallyRepaired(c)
    OBVIOUS
  <2>2. /\ texts'[c] = text
        /\ warnings'[c] = GatedWarnings(c, text)
        /\ records'[c] = RecordsWith(c, text)
        /\ requests'[c] = GatedRequests(c, text)
        /\ vector'[c] \in BOOLEAN
        /\ vector'[c] => SoundWith(c, text)
        /\ "missing" \notin contract.blocks /\ SoundWith(c, text) => vector'[c]
    BY <1>2, <2>1, GatedFields, GatedVector
  <2>3. /\ Sound(c)' <=> SoundWith(c, text)
        /\ GatedRecords(c)' = RecordsWith(c, text)
        /\ References(c)' = References(c) /\ GateReferences' = GateReferences
        /\ \A r : FinalMissing(c, r)' = contract.required \ text[r]
    BY <2>2, SoundNext
  <2>4. GatedWarnings(c, text) \subseteq WarningRecord /\ WarningsOKIn(c, GatedWarnings(c, text))
    BY GatedWarningsOK
  <2>5. ChunkOK(c)'
    BY <1>1, <2>1, <2>2, <2>4, RepairedText, GatedShape DEF ChunkOK
  <2>6. WarningsOK(c)'
    BY <1>1, <2>2, <2>4 DEF WarningsOK, WarningsOKIn
  <2>7. VectorOK(c)'
    BY <1>1, <2>2, <2>3 DEF VectorOK
  <2>8. Checked(c)'
    <3>1. GateReferences' =>
            \A r \in References(c)' : \A script \in FinalMissing(c, r)' :
                \E w \in warnings'[c] :
                    /\ w.code = "missing" /\ w.reference = r /\ w.script = script
                    /\ Counted(w)
      BY <2>2, <2>3, GatedReports
    <3> QED
      BY <1>1, <2>2, <2>3, <3>1 DEF Checked, Counted
  <2> QED
    BY <2>5, <2>6, <2>7, <2>8
<1> QED
  BY <1>1, <1>2, <1>3, <1>4

-----------------------------------------------------------------------------
(* The initial states                                                      *)

LEMMA InitInvariant ==
    ASSUME Init
    PROVE  IInv
<1> USE DEF Init
<1>1. contract \in ContractRecord /\ document \in Seq(ChunkRecord)
  BY InputsAssumption
<1>2. ASSUME NEW c \in ChunkIds
      PROVE  ChunkOK(c) /\ WarningsOK(c) /\ VectorOK(c)
  <2>1. document[c] \in ChunkRecord /\ document[c].scripts \in Seq(SUBSET Scripts)
    BY <1>1, ReferencesAreNumbers DEF ChunkRecord
  <2>2. \A w \in QuarantineWarnings(c) :
            w \in WarningRecord /\ w.code = "quarantined" /\ w.action = "unset"
    BY NewWarning DEF Codes, QuarantineWarnings
  <2>3. QuarantineWarnings(c) = {} <=> document[c].noise = "none"
    BY DEF QuarantineWarnings
  <2>4. ASSUME NEW w \in SplitterWarnings(c)
        PROVE  /\ Classified(w) \in WarningRecord /\ Classified(w).code # "quarantined"
               /\ Classified(w).action = "block" => Classified(w).code \in contract.blocks
    <3>1. /\ contract.required \subseteq Scripts /\ contract.optional \subseteq Scripts
          /\ contract.optionalAction \in {"no_warning", "info", "warn", "block"}
      BY <1>1 DEF ContractRecord
    <3>2. \/ \E script \in Scripts : w = Warning("missing", 0, script, "warn")
          \/ \E script \in Scripts : w = Warning("optional", 0, script, contract.optionalAction)
      BY <2>4, <3>1 DEF SplitterWarnings, MissingOptional
    <3>3. w \in WarningRecord /\ w.code \in {"missing", "optional"} /\ w.action = "unset"
      BY <3>1, <3>2, NewWarning DEF Codes
    <3> QED
      BY <3>3, ClassifiedWarning DEF SameSubject
  <2>5. warnings[c] = QuarantineWarnings(c) \cup {Classified(w) : w \in SplitterWarnings(c)}
    OBVIOUS
  <2>6. ChunkOK(c)
    BY <2>1, <2>2, <2>4, <2>5 DEF ChunkOK, Requests
  <2>7. WarningsOK(c)
    BY <2>2, <2>3, <2>4, <2>5 DEF WarningsOK
  <2>8. VectorOK(c)
    BY DEF VectorOK, Sound
  <2> QED
    BY <2>6, <2>7, <2>8
<1>3. Shapes
  BY <1>1, <1>2 DEF Shapes
<1>4. Passed
  BY DEF Passed
<1> QED
  BY <1>2, <1>3, <1>4 DEF IInv

-----------------------------------------------------------------------------
(* Targeted vision recovery                                                *)

LEMMA RecoveredWarning ==
    ASSUME NEW w \in WarningRecord
    PROVE  /\ Recovered(w) \in WarningRecord
           /\ SameSubject(Recovered(w), w)
           /\ Recovered(w).action # "block"
BY DEF Recovered, WarningRecord, Codes, Actions, SameSubject

LEMMA AskedWarning ==
    ASSUME NEW w \in WarningRecord
    PROVE  LET v == [w EXCEPT !.visionRequired = TRUE]
           IN  /\ v \in WarningRecord /\ SameSubject(v, w)
               /\ v.action = w.action
               /\ Counted(v) <=> Counted(w)
BY DEF WarningRecord, Codes, Actions, SameSubject, Counted

\* w becomes v when a request ends: only a success takes a warning out of the
\* counts, and nothing blocks one.
MarkedAs(v, w, status) ==
    /\ v \in WarningRecord /\ SameSubject(v, w)
    /\ v.action = "block" => w.action = "block"
    /\ status # "succeeded" => (Counted(v) <=> Counted(w))

LEMMA MarkedWarnings ==
    ASSUME Shapes, NEW c \in ChunkIds, NEW r, NEW status, Mark(c, r, status)
    PROVE  /\ DOMAIN warnings' = ChunkIds
           /\ \A d \in ChunkIds :
                /\ \A v \in warnings'[d] : \E w \in warnings[d] : MarkedAs(v, w, status)
                /\ \A w \in warnings[d] : \E v \in warnings'[d] : MarkedAs(v, w, status)
<1> DEFINE Marked(w) ==
        IF Matches(w, c, r)
          THEN IF status = "succeeded" THEN Recovered(w) ELSE [w EXCEPT !.visionRequired = TRUE]
          ELSE w
<1>1. DOMAIN warnings = ChunkIds /\ \A d \in ChunkIds : warnings[d] \subseteq WarningRecord
  BY DEF Shapes, ChunkOK
<1>2. warnings' = [warnings EXCEPT ![c] = {Marked(w) : w \in warnings[c]}]
  BY DEF Mark
<1>3. \A w \in WarningRecord : MarkedAs(Marked(w), w, status)
  BY RecoveredWarning, AskedWarning DEF MarkedAs, SameSubject
<1>4. \A w \in WarningRecord : MarkedAs(w, w, status)
  BY DEF MarkedAs, SameSubject
<1> HIDE DEF Marked
<1>5. \A v \in warnings'[c] : \E w \in warnings[c] : v = Marked(w)
  BY <1>1, <1>2
<1>6. \A w \in warnings[c] : Marked(w) \in warnings'[c]
  BY <1>1, <1>2
<1>7. \A d \in ChunkIds : d # c => warnings'[d] = warnings[d]
  BY <1>1, <1>2
<1>8. DOMAIN warnings' = ChunkIds
  BY <1>1, <1>2
<1> QED
  BY <1>1, <1>3, <1>4, <1>5, <1>6, <1>7, <1>8

\* Marking keeps what is known of the warnings of every chunk.
LEMMA MarkKeepsWarnings ==
    ASSUME Shapes, \A d \in ChunkIds : WarningsOK(d), UNCHANGED inputVars,
           NEW c \in ChunkIds, NEW r, NEW status, Mark(c, r, status)
    PROVE  \A d \in ChunkIds : warnings'[d] \subseteq WarningRecord /\ WarningsOK(d)'
<1>1. contract' = contract /\ document' = document
  BY DEF inputVars
<1> SUFFICES ASSUME NEW d \in ChunkIds
             PROVE  warnings'[d] \subseteq WarningRecord /\ WarningsOK(d)'
  OBVIOUS
<1>2. /\ \A v \in warnings'[d] : \E w \in warnings[d] : MarkedAs(v, w, status)
      /\ \A w \in warnings[d] : \E v \in warnings'[d] : MarkedAs(v, w, status)
  BY MarkedWarnings
<1> QED
  BY <1>1, <1>2 DEF WarningsOK, MarkedAs, SameSubject

\* A request that has not found the scripts leaves every chunk as checked as
\* it was.
LEMMA MarkKeepsChecked ==
    ASSUME Shapes, UNCHANGED <<inputVars, texts, records, vector>>,
           NEW c \in ChunkIds, NEW r, NEW status, status # "succeeded", Mark(c, r, status),
           NEW d \in ChunkIds, Checked(d)
    PROVE  Checked(d)'
<1>1. contract' = contract /\ document' = document
  BY DEF inputVars
<1>2. PICK text : texts[d] = text /\ texts'[d] = text
  OBVIOUS
<1>3. /\ Sound(d)' <=> SoundWith(d, text)
      /\ GatedRecords(d)' = RecordsWith(d, text)
      /\ References(d)' = References(d) /\ GateReferences' = GateReferences
      /\ \A x : FinalMissing(d, x)' = contract.required \ text[x]
  BY <1>2, SoundNext
<1>4. /\ Sound(d) <=> SoundWith(d, text)
      /\ GatedRecords(d) = RecordsWith(d, text)
      /\ \A x : FinalMissing(d, x) = contract.required \ text[x]
  BY <1>2, SoundIsSoundWith DEF GatedRecords, RecordsWith, FinalMissing
<1>5. \A w \in warnings[d] : \E v \in warnings'[d] :
        v.code = w.code /\ v.reference = w.reference /\ v.script = w.script
        /\ (Counted(v) <=> Counted(w))
  BY MarkedWarnings DEF MarkedAs, SameSubject
<1>6. ASSUME NEW x \in References(d), GateReferences, NEW script \in contract.required \ text[x]
      PROVE  \E v \in warnings'[d] :
                v.code = "missing" /\ v.reference = x /\ v.script = script /\ Counted(v)
  <2>1. PICK w \in warnings[d] :
            w.code = "missing" /\ w.reference = x /\ w.script = script /\ Counted(w)
    BY <1>4, <1>6 DEF Checked
  <2> QED
    BY <2>1, <1>5
<1>7. GateReferences' =>
        \A x \in References(d)' : \A script \in FinalMissing(d, x)' :
            \E v \in warnings'[d] :
                v.code = "missing" /\ v.reference = x /\ v.script = script /\ Counted(v)
  BY <1>3, <1>6
<1> QED
  BY <1>1, <1>3, <1>4, <1>7 DEF Checked, Counted

LEMMA VectorOKStays ==
    ASSUME UNCHANGED <<inputVars, vector>>, NEW d, VectorOK(d)
    PROVE  VectorOK(d)'
<1>1. contract' = contract
  BY DEF inputVars
<1>2. PICK text : texts'[d] = text
  OBVIOUS
<1>3. (Sound(d)' <=> SoundWith(d, text)) /\ Unrecorded(d)' = Unrecorded(d)
  BY <1>2, SoundNext
<1>4. Unrecorded(d) => (SoundWith(d, text) <=> Sound(d))
  BY SoundIsSoundWith, UnrecordedIsSoundWhatever
<1> QED
  BY <1>1, <1>3, <1>4 DEF VectorOK

LEMMA CheckedStays ==
    ASSUME UNCHANGED <<inputVars, texts, warnings, records, vector>>, NEW d, Checked(d)
    PROVE  Checked(d)'
<1>1. contract' = contract
  BY DEF inputVars
<1>2. PICK text : texts[d] = text /\ texts'[d] = text
  OBVIOUS
<1>3. /\ Sound(d)' <=> SoundWith(d, text)
      /\ GatedRecords(d)' = RecordsWith(d, text)
      /\ References(d)' = References(d) /\ GateReferences' = GateReferences
      /\ \A x : FinalMissing(d, x)' = contract.required \ text[x]
  BY <1>2, SoundNext
<1>4. /\ Sound(d) <=> SoundWith(d, text)
      /\ GatedRecords(d) = RecordsWith(d, text)
      /\ \A x : FinalMissing(d, x) = contract.required \ text[x]
  BY <1>2, SoundIsSoundWith DEF GatedRecords, RecordsWith, FinalMissing
<1> QED
  BY <1>1, <1>3, <1>4 DEF Checked, Counted

\* The fate of a request is written down; a success stays one.
LEMMA MarkedRequests ==
    ASSUME Shapes, NEW c \in ChunkIds, NEW r \in DOMAIN requests[c],
           NEW status \in Requests,
           requests' = [requests EXCEPT ![c][r] = status]
    PROVE  /\ DOMAIN requests' = ChunkIds
           /\ \A d \in ChunkIds : requests'[d] \in [DOMAIN document[d].scripts -> Requests]
           /\ requests'[c][r] = status
           /\ \A d \in ChunkIds : \A x \in DOMAIN requests[d] :
                /\ x \in DOMAIN requests'[d]
                /\ <<d, x>> # <<c, r>> => requests'[d][x] = requests[d][x]
<1>1. DOMAIN requests = ChunkIds
      /\ \A d \in ChunkIds : requests[d] \in [DOMAIN document[d].scripts -> Requests]
  BY DEF Shapes, ChunkOK
<1>2. requests' = [requests EXCEPT ![c] = [requests[c] EXCEPT ![r] = status]]
  BY <1>1
<1>3. requests'[c] = [requests[c] EXCEPT ![r] = status]
  BY <1>1, <1>2
<1>4. \A d \in ChunkIds : d # c => requests'[d] = requests[d]
  BY <1>1, <1>2
<1> QED
  BY <1>1, <1>2, <1>3, <1>4

\* The report repeats the records.
LEMMA ReportedStays ==
    ASSUME UNCHANGED <<inputVars, records, report>>, Reported
    PROVE  Reported'
BY DEF Reported, ReportOf, ChunkIds, inputVars

\* A request that ends, or is begun, without the scripts it lacks.
LEMMA UnansweredStep ==
    ASSUME IInv, phase = "recover",
           UNCHANGED <<inputVars, phase, texts, records, vector, report, indexed>>,
           NEW c \in ChunkIds, NEW r \in DOMAIN requests[c], requests[c][r] # "succeeded",
           NEW status \in Requests \ {"succeeded"},
           requests' = [requests EXCEPT ![c][r] = status],
           Mark(c, r, status) \/ UNCHANGED warnings
    PROVE  IInv'
<1>1. Shapes /\ \A d \in ChunkIds : WarningsOK(d) /\ VectorOK(d)
  BY DEF IInv
<1>2. contract' = contract /\ document' = document /\ ChunkIds' = ChunkIds
  BY DEF inputVars, ChunkIds
<1>3. /\ DOMAIN requests' = ChunkIds
      /\ \A d \in ChunkIds : requests'[d] \in [DOMAIN document[d].scripts -> Requests]
      /\ Recovery => Recovery'
  <2>1. /\ DOMAIN requests' = ChunkIds
        /\ \A d \in ChunkIds : requests'[d] \in [DOMAIN document[d].scripts -> Requests]
        /\ \A d \in ChunkIds : \A x \in DOMAIN requests[d] :
            /\ x \in DOMAIN requests'[d]
            /\ <<d, x>> # <<c, r>> => requests'[d][x] = requests[d][x]
    BY <1>1, MarkedRequests
  <2>2. ASSUME Recovery PROVE Recovery'
    <3>1. PICK d \in ChunkIds : \E x \in DOMAIN requests[d] : requests[d][x] = "succeeded"
      BY <2>2 DEF Recovery
    <3>2. PICK x \in DOMAIN requests[d] : requests[d][x] = "succeeded"
      BY <3>1
    <3>3. <<d, x>> # <<c, r>>
      BY <3>2
    <3>4. d \in ChunkIds' /\ x \in DOMAIN requests'[d] /\ requests'[d][x] = "succeeded"
      BY <1>2, <2>1, <3>2, <3>3
    <3> QED
      BY <3>4 DEF Recovery
  <2> QED
    BY <2>1, <2>2
<1>4. /\ DOMAIN warnings' = ChunkIds
      /\ \A d \in ChunkIds : warnings'[d] \subseteq WarningRecord /\ WarningsOK(d)'
  <2>1. CASE Mark(c, r, status)
    BY <1>1, <2>1, MarkedWarnings, MarkKeepsWarnings
  <2>2. CASE UNCHANGED warnings
    BY <1>1, <1>2, <2>2 DEF Shapes, ChunkOK, WarningsOK
  <2> QED
    BY <2>1, <2>2
<1>5. \A d \in ChunkIds : VectorOK(d)'
  BY <1>1, VectorOKStays
<1>6. Shapes'
  <2>1. \A d \in ChunkIds : ChunkOK(d)'
    BY <1>1, <1>2, <1>3, <1>4 DEF Shapes, ChunkOK
  <2> QED
    BY <1>1, <1>2, <1>3, <1>4, <2>1 DEF Shapes
<1>7. ASSUME ~Recovery' PROVE AllChecked'
  <2>1. Reported /\ \A d \in ChunkIds : Checked(d)
    BY <1>3, <1>7 DEF IInv, Passed, AllChecked
  <2>2. \A d \in ChunkIds : Checked(d)'
    <3>1. CASE Mark(c, r, status)
      BY <1>1, <2>1, <3>1, MarkKeepsChecked
    <3>2. CASE UNCHANGED warnings
      BY <2>1, <3>2, CheckedStays
    <3> QED
      BY <3>1, <3>2
  <2> QED
    BY <1>2, <2>1, <2>2, ReportedStays DEF AllChecked
<1>8. Passed'
  BY <1>7 DEF IInv, Passed
<1> QED
  BY <1>2, <1>4, <1>5, <1>6, <1>8 DEF IInv

\* A request whose answer has every script it lacks.
LEMMA AnsweredStep ==
    ASSUME IInv, phase = "recover",
           NEW c \in ChunkIds, NEW r \in DOMAIN requests[c], NEW found \in SUBSET Scripts,
           texts' = [texts EXCEPT ![c] = Extend(@, found)],
           EndRequest(c, r, "succeeded")
    PROVE  IInv'
<1>1. Shapes /\ \A d \in ChunkIds : WarningsOK(d) /\ VectorOK(d)
  BY DEF IInv
<1>2. /\ contract' = contract /\ document' = document /\ ChunkIds' = ChunkIds
      /\ UNCHANGED <<inputVars, phase, records, vector, indexed>>
      /\ Mark(c, r, "succeeded")
  BY DEF EndRequest, inputVars, ChunkIds
<1>3. /\ DOMAIN requests' = ChunkIds
      /\ \A d \in ChunkIds : requests'[d] \in [DOMAIN document[d].scripts -> Requests]
      /\ r \in DOMAIN requests'[c] /\ requests'[c][r] = "succeeded"
  BY <1>1, <1>2, MarkedRequests DEF Mark, Requests
<1>4. /\ DOMAIN warnings' = ChunkIds
      /\ \A d \in ChunkIds : warnings'[d] \subseteq WarningRecord /\ WarningsOK(d)'
  BY <1>1, <1>2, MarkedWarnings, MarkKeepsWarnings
<1>5. \A d \in ChunkIds : VectorOK(d)'
  BY <1>1, <1>2, VectorOKStays
<1>6. Shapes'
  <2>1. DOMAIN texts' = ChunkIds
    BY <1>1 DEF Shapes
  <2>2. ASSUME NEW d \in ChunkIds
        PROVE  /\ texts'[d] \in Seq(SUBSET Scripts)
               /\ Len(texts'[d]) = Len(document[d].scripts)
    <3>1. texts[d] \in Seq(SUBSET Scripts) /\ Len(texts[d]) = Len(document[d].scripts)
      BY <1>1 DEF Shapes, ChunkOK
    <3>2. texts'[d] = IF d = c THEN Extend(texts[d], found) ELSE texts[d]
      BY <1>1 DEF Shapes
    <3> QED
      BY <3>1, <3>2, ExtendedText
  <2>3. \A d \in ChunkIds : ChunkOK(d)'
    BY <1>1, <1>2, <1>3, <1>4, <2>2 DEF Shapes, ChunkOK
  <2> QED
    BY <1>1, <1>2, <1>3, <1>4, <2>1, <2>3 DEF Shapes
<1>7. Recovery'
  BY <1>2, <1>3 DEF Recovery
<1>8. Passed'
  BY <1>2, <1>7 DEF IInv, Passed
<1> QED
  BY <1>2, <1>4, <1>5, <1>6, <1>8 DEF IInv

\* What the invariant says depends on neither the queue nor the budgets.
LEMMA IdleStep ==
    ASSUME IInv, UNCHANGED <<inputVars, gateVars, phase, indexed>>
    PROVE  IInv'
<1>1. contract' = contract /\ document' = document /\ ChunkIds' = ChunkIds
  BY DEF inputVars, ChunkIds
<1>2. UNCHANGED <<texts, warnings, records, vector, requests, report>>
  BY DEF gateVars
<1>3. Shapes'
  BY <1>1, <1>2 DEF IInv, Shapes, ChunkOK
<1>4. \A d \in ChunkIds : WarningsOK(d)' /\ VectorOK(d)'
  BY <1>1, <1>2, VectorOKStays DEF IInv, WarningsOK
<1>5. Recovery' = Recovery
  BY <1>1, <1>2 DEF Recovery
<1>6. AllChecked => AllChecked'
  BY <1>1, <1>2, CheckedStays, ReportedStays DEF AllChecked
<1>7. Passed'
  BY <1>1, <1>2, <1>5, <1>6 DEF IInv, Passed
<1> QED
  BY <1>1, <1>3, <1>4, <1>7 DEF IInv

-----------------------------------------------------------------------------
(* The steps                                                               *)

LEMMA ValidateStep ==
    ASSUME IInv, Validate
    PROVE  IInv'
<1>1. Shapes /\ \A d \in ChunkIds : WarningsOK(d) /\ VectorOK(d)
  BY DEF IInv
<1>2. phase = "validate" /\ UNCHANGED <<inputVars, indexed>> /\ indexed = {}
  BY DEF Validate, IInv, Passed
<1>3. contract' = contract /\ document' = document /\ ChunkIds' = ChunkIds
  BY <1>2 DEF inputVars, ChunkIds
<1>4. CASE LacksArabic
  <2>1. phase' = "rejected" /\ UNCHANGED gateVars
    BY <1>4 DEF Validate
  <2>2. UNCHANGED <<texts, warnings, records, vector, requests, report>>
    BY <2>1 DEF gateVars
  <2>3. Shapes'
    BY <1>1, <1>2, <1>3, <2>1, <2>2 DEF Shapes, ChunkOK
  <2>4. \A d \in ChunkIds : WarningsOK(d)' /\ VectorOK(d)'
    BY <1>1, <1>2, <1>3, <2>2, VectorOKStays DEF WarningsOK
  <2>5. Passed'
    BY <1>2, <2>1 DEF Passed
  <2> QED
    BY <1>3, <2>3, <2>4, <2>5 DEF IInv
<1>5. CASE ~LacksArabic
  <2>1. Validated([c \in ChunkIds |-> Gated(c)]) /\ phase' \in {"materialize", "recover"}
    BY <1>5 DEF Validate
  <2>2. /\ DOMAIN texts' = ChunkIds /\ DOMAIN warnings' = ChunkIds
        /\ DOMAIN records' = ChunkIds /\ DOMAIN vector' = ChunkIds
        /\ DOMAIN requests' = ChunkIds
        /\ \A c \in ChunkIds : ChunkOK(c)' /\ WarningsOK(c)' /\ VectorOK(c)' /\ Checked(c)'
        /\ Reported'
    BY <1>1, <1>2, <2>1, ValidatedPass
  <2>3. Shapes'
    BY <1>1, <1>2, <1>3, <2>1, <2>2 DEF Shapes
  <2>4. Passed'
    BY <1>2, <1>3, <2>1, <2>2 DEF Passed, AllChecked
  <2> QED
    BY <1>3, <2>2, <2>3, <2>4 DEF IInv
<1> QED
  BY <1>4, <1>5

LEMMA RevalidateStep ==
    ASSUME IInv, Revalidate
    PROVE  IInv'
<1>1. Shapes /\ \A d \in ChunkIds : WarningsOK(d) /\ VectorOK(d)
  BY DEF IInv
<1>2. /\ phase = "recover" /\ phase' = "materialize"
      /\ UNCHANGED <<inputVars, indexed>> /\ indexed = {}
  BY DEF Revalidate, IInv, Passed
<1>3. contract' = contract /\ document' = document /\ ChunkIds' = ChunkIds
  BY <1>2 DEF inputVars, ChunkIds
<1>4. (\E c \in ChunkIds : "succeeded" \in Range(requests[c])) <=> Recovery
  BY DEF Range, Recovery
<1>5. CASE Recovery
  <2>1. Validated([c \in ChunkIds |-> Gated(c)])
    BY <1>4, <1>5 DEF Revalidate
  <2>2. /\ DOMAIN texts' = ChunkIds /\ DOMAIN warnings' = ChunkIds
        /\ DOMAIN records' = ChunkIds /\ DOMAIN vector' = ChunkIds
        /\ DOMAIN requests' = ChunkIds
        /\ \A c \in ChunkIds : ChunkOK(c)' /\ WarningsOK(c)' /\ VectorOK(c)' /\ Checked(c)'
        /\ Reported'
    BY <1>1, <1>2, <2>1, ValidatedPass
  <2>3. Shapes'
    BY <1>1, <1>2, <1>3, <2>2 DEF Shapes
  <2>4. Passed'
    BY <1>2, <1>3, <2>2 DEF Passed, AllChecked
  <2> QED
    BY <1>3, <2>2, <2>3, <2>4 DEF IInv
<1>6. CASE ~Recovery
  <2>1. UNCHANGED <<texts, warnings, records, vector, requests, report>>
    BY <1>4, <1>6 DEF Revalidate, gateVars
  <2>2. AllChecked
    BY <1>2, <1>6 DEF IInv, Passed
  <2>3. Shapes'
    BY <1>1, <1>2, <1>3, <2>1 DEF Shapes, ChunkOK
  <2>4. \A d \in ChunkIds : WarningsOK(d)' /\ VectorOK(d)'
    BY <1>1, <1>2, <1>3, <2>1, VectorOKStays DEF WarningsOK
  <2>5. AllChecked'
    BY <1>2, <1>3, <2>1, <2>2, CheckedStays, ReportedStays DEF AllChecked
  <2>6. Passed'
    BY <1>2, <2>5 DEF Passed
  <2> QED
    BY <1>3, <2>3, <2>4, <2>6 DEF IInv
<1> QED
  BY <1>5, <1>6

LEMMA MaterializeStep ==
    ASSUME IInv, Materialize
    PROVE  IInv'
<1>1. /\ phase = "materialize" /\ phase' = "done"
      /\ UNCHANGED <<inputVars, gateVars>> /\ indexed' = {c \in ChunkIds : vector[c]}
  BY DEF Materialize
<1>2. contract' = contract /\ document' = document /\ ChunkIds' = ChunkIds
      /\ UNCHANGED <<texts, warnings, records, vector, requests, report>>
  BY <1>1 DEF inputVars, gateVars, ChunkIds
<1>3. Shapes'
  BY <1>1, <1>2 DEF IInv, Shapes, ChunkOK
<1>4. \A d \in ChunkIds : WarningsOK(d)' /\ VectorOK(d)'
  BY <1>1, <1>2, VectorOKStays DEF IInv, WarningsOK
<1>5. AllChecked'
  BY <1>1, <1>2, CheckedStays, ReportedStays DEF IInv, Passed, AllChecked
<1>6. Passed'
  BY <1>1, <1>2, <1>5 DEF Passed
<1> QED
  BY <1>2, <1>3, <1>4, <1>6 DEF IInv

LEMMA RecoverStep ==
    ASSUME IInv, NEW c \in ChunkIds, NEW r \in DOMAIN requests[c],
           \/ RefuseRequest(c, r) \/ BeginRequest(c, r) \/ PassOver(c, r)
           \/ CallModel(c, r) \/ GiveUp(c, r)
    PROVE  IInv'
<1>1. CASE RefuseRequest(c, r)
  <2>1. PICK status \in {"not_configured", "failed", "no_evidence"} :
            EndRequest(c, r, status)
    BY <1>1 DEF RefuseRequest
  <2>2. phase = "recover" /\ requests[c][r] # "succeeded" /\ UNCHANGED texts
    BY <1>1 DEF RefuseRequest, Recovering
  <2>3. status \in Requests \ {"succeeded"}
    BY DEF Requests
  <2> QED
    BY <2>1, <2>2, <2>3, UnansweredStep DEF EndRequest, Mark
<1>2. CASE BeginRequest(c, r)
  <2>1. phase = "recover" /\ requests[c][r] # "succeeded"
        /\ "trying" \in Requests \ {"succeeded"}
    BY <1>2 DEF BeginRequest, Recovering, Requests
  <2> QED
    BY <1>2, <2>1, UnansweredStep DEF BeginRequest
<1>3. CASE PassOver(c, r)
  BY <1>3, IdleStep DEF PassOver
<1>4. CASE CallModel(c, r)
  <2>1. PICK found \in SUBSET Scripts :
            \/ /\ texts' = [texts EXCEPT ![c] = Extend(@, found)]
               /\ EndRequest(c, r, "succeeded")
            \/ UNCHANGED <<inputVars, phase, gateVars, queue, indexed>>
    BY <1>4 DEF CallModel
  <2>2. phase = "recover"
    BY <1>4 DEF CallModel, Recovering
  <2> QED
    BY <2>1, <2>2, AnsweredStep, IdleStep
<1>5. CASE GiveUp(c, r)
  <2>1. phase = "recover" /\ requests[c][r] # "succeeded" /\ UNCHANGED texts
        /\ EndRequest(c, r, "failed") /\ "failed" \in Requests \ {"succeeded"}
    BY <1>5 DEF GiveUp, Recovering, Requests
  <2> QED
    BY <2>1, UnansweredStep DEF EndRequest, Mark
<1> QED
  BY <1>1, <1>2, <1>3, <1>4, <1>5

\* The inductive invariant: what a pass of the gate has established of every
\* chunk holds until an answer of the vision model extends a text, and then
\* again after the pass that answer makes certain.
LEMMA GateInvariant == Spec => []IInv
<1>1. ASSUME IInv, [Next]_vars PROVE IInv'
  <2>1. CASE Validate
    BY <1>1, <2>1, ValidateStep
  <2>2. CASE Recover
    BY <1>1, <2>2, RecoverStep DEF Recover
  <2>3. CASE Revalidate
    BY <1>1, <2>3, RevalidateStep
  <2>4. CASE Materialize
    BY <1>1, <2>4, MaterializeStep
  <2>5. CASE UNCHANGED vars
    BY <1>1, <2>5, IdleStep DEF vars, inputVars, gateVars
  <2> QED
    BY <1>1, <2>1, <2>2, <2>3, <2>4, <2>5 DEF Next, Step, Done
<1> QED
  BY <1>1, InitInvariant, PTL DEF Spec

-----------------------------------------------------------------------------
(* The theorems                                                            *)

\* No pass, request or answer makes a text that is not one, loses a reference
\* of a chunk, or indexes what is not a chunk of the document.
THEOREM TypeInvariant == Spec => []TypeOK
<1>1. IInv => TypeOK
  BY DEF IInv, Shapes, ChunkOK, TypeOK
<1> QED
  BY <1>1, GateInvariant, PTL

\* _runtime_materializable_chunks hands over no chunk that the contract keeps
\* out of the index as its text finally is, whatever the local repairs and the
\* recoveries of the other requests did before.
THEOREM IndexedMeansSound == Spec => []OnlySoundChunksAreIndexed
<1>1. IInv => OnlySoundChunksAreIndexed
  BY DEF IInv, Shapes, Passed, AllChecked, Checked, OnlySoundChunksAreIndexed
<1> QED
  BY <1>1, GateInvariant, PTL

\* _quality_action_policy judges a repaired chunk anew: under a contract whose
\* layout policy does not block missing-script warnings, no block of the first
\* validation outlives its reason.  (Under one that does, a warning that was
\* recovered from is classified as a block again.)
THEOREM SoundMeansIndexed == Spec => []SoundChunksAreIndexed
<1>1. IInv => SoundChunksAreIndexed
  BY DEF IInv, Passed, AllChecked, Checked, SoundChunksAreIndexed
<1> QED
  BY <1>1, GateInvariant, PTL

\* index_quality_report speaks of the texts that are indexed: reindex_document
\* makes it again after every recovery that could belie it.
THEOREM ReportIsCurrent == Spec => []ReportMatchesTexts
<1>1. ASSUME IInv, phase = "done", GateReferences, NEW c \in ChunkIds,
             NEW r \in References(c), NEW status \in {"missing", "passed"},
             <<c, r, status>> \in report
      PROVE  status = "missing" <=> FinalMissing(c, r) # {}
  <2>1. records[c] = RecordsOf(c, texts[c])
    BY <1>1 DEF IInv, Passed, AllChecked, Checked, GatedRecords, References
  <2>2. PICK rec \in records[c] : rec.reference = r /\ rec.status = status
    BY <1>1 DEF IInv, Passed, AllChecked, Reported, ReportOf
  <2>3. PICK text : text = texts[c]
    OBVIOUS
  <2>4. \/ \E x \in References(c) : rec = RecordOf(x, text[x])
        \/ rec = Record(0, {}, "unresolved", FALSE)
    <3>1. rec \in RecordsOf(c, text)
      BY <2>1, <2>3
    <3> QED
      BY ONLY <3>1, RecordsOfChunk
  <2>5. CASE \E x \in References(c) : rec = RecordOf(x, text[x])
    BY <1>1, <2>2, <2>3, <2>5, RecordOfText DEF FinalMissing
  <2>6. CASE rec = Record(0, {}, "unresolved", FALSE)
    BY <1>1, <2>2, <2>6 DEF Record
  <2> QED
    BY <2>4, <2>5, <2>6
<1>2. IInv => ReportMatchesTexts
  BY <1>1 DEF ReportMatchesTexts
<1> QED
  BY <1>2, GateInvariant, PTL

\* _parser_warnings_from_reference_records and _mark_matching_warnings: a
\* script that is still lacking at the end is warned of and counted, also where
\* a recovery has suppressed the warnings of another reference.
THEOREM MissingMeansWarned == Spec => []MissingScriptsAreReported
<1>1. IInv => MissingScriptsAreReported
  BY DEF IInv, Passed, AllChecked, Checked, MissingScriptsAreReported
<1> QED
  BY <1>1, GateInvariant, PTL
=============================================================================
