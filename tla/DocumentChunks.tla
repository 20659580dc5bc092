---------------------------- MODULE DocumentChunks ----------------------------
(***************************************************************************)
(* From the content list of a parsed document to its chunks.  Several      *)
(* chunks of the parser name the same content list; ChunkSplitter turns it *)
(* into chunks once.  ParserNormalization keeps, recovers or quarantines   *)
(* the text of every block and joins paragraphs across a page boundary;    *)
(* then the blocks are either grouped under their headings, or, where the  *)
(* document's contract declares canonical reference units, put in reading  *)
(* order, cut at their anchors and assembled into one unit per reference   *)
(* (ReferenceUnitAssembler).                                               *)
(*                                                                         *)
(* A text is a sequence of tokens.  A token is a stretch of words, or the  *)
(* match of one of the contract's patterns: an "anchor" opens a unit, an   *)
(* "inline" reference names one, a "context" is the book or chapter an     *)
(* anchor belongs to, a "heading" is the mark of a heading.                *)
(***************************************************************************)
EXTENDS Integers, FiniteSets, FiniteSetsExt, SequencesExt

CONSTANTS
    Contracts,      \* the contracts of the documents
    Documents,      \* contract -> its content lists
    RecoveredMarks, \* the texts a recovery may find, as sequences of marks
    MaxVisionCalls, \* max_total_blocks
    MaxPageCalls,   \* max_blocks_per_page
    HardMax,        \* hard_max_words, in tokens
    ParserChunks    \* chunks of the parser that name the content list

VisualTypes == {"equation", "image"}
BlockTypes == {"text", "header"} \cup VisualTypes
Marks == {"words", "anchor", "inline", "context", "heading"}
NoLimit == 0        \* max_page_gap is None

SplitContract ==
    [canonical : {"none", "primary", "contextual"}, allowed : SUBSET VisualTypes,
     prose : BOOLEAN, inline : {"starts_unit", "cross_reference_only"},
     carry : BOOLEAN, gap : Nat, headerOnly : {"answerable", "provenance_only"},
     vision : BOOLEAN]
Item == [type : BlockTypes, marks : Seq(Marks), page : Nat]

ASSUME ChunksAssumption ==
    /\ MaxVisionCalls \in Nat /\ MaxPageCalls \in Nat
    /\ HardMax \in Nat \ {0} /\ ParserChunks \in Nat \ {0}
    /\ Contracts \subseteq SplitContract /\ RecoveredMarks \subseteq Seq(Marks)
    /\ \A c \in Contracts : Documents[c] \subseteq Seq(Item)

VARIABLES
    contract,   \* the contract of the document
    items,      \* its content list
    phase,      \* where _split_async is
    left,       \* parser chunks that _split_async has not taken
    handled,    \* the content list is in processed_content_lists
    blocks,     \* the blocks the loop that runs goes over
    pos,        \* the next of them, or the next item
    made,       \* the blocks it has made so far, for the next loop
    recovered,  \* item -> the text recovered for it, <<>> for none
    visionCalls,\* calls of the vision model, in order: the page of each
    current,    \* the open unit or group
    pending,    \* the blocks that wait for the first reference
    chunks      \* the pieces, in order

splitVars == <<contract, items, phase, left, handled, blocks, pos, made, recovered, visionCalls,
          current, pending, chunks>>

inputVars == <<contract, items>>
normalVars == <<recovered, visionCalls>>
unitVars == <<current, pending>>

-----------------------------------------------------------------------------
(* Texts, blocks and what is assembled from them *)

Token(mark, item, at, source) == [mark |-> mark, item |-> item, at |-> at, source |-> source]
TextOf(marks, item, source) == [k \in DOMAIN marks |-> Token(marks[k], item, k, source)]

\* last: the last page it reaches.  warns: the items whose warning it carries.
Block(type, page, text, warns) ==
    [type |-> type, page |-> page, last |-> page, text |-> text, warns |-> warns]

\* An open unit, a group or a list of waiting blocks, by what is made of it:
\* the text and the warnings of its blocks, the page of the last of them, and
\* whether a unit has body_blocks with text.
NoBlocks == [open |-> FALSE, text |-> <<>>, warns |-> {}, last |-> 0, body |-> FALSE]
Followed(unit, block) ==
    [open |-> TRUE, text |-> unit.text \o block.text, warns |-> unit.warns \cup block.warns,
     last |-> block.page, body |-> unit.body \/ block.text # <<>>]
Alone(block) == Followed(NoBlocks, block)

Positions(text, marks) == {k \in DOMAIN text : text[k].mark \in marks}
Before(positions, k) == {j \in positions : j < k}
After(positions, k) == {j \in positions : j > k}
Nth(positions, k) == CHOOSE p \in positions : Cardinality(Before(positions, p)) = k - 1

Canonical == contract.canonical # "none"
Allowed(type) == type \in {"text", "header"} \cup contract.allowed
EmittedWithText(block) == block.text # <<>>   \* mutant: warnings alone are no reason
Emitted(block) == block.text # <<>> \/ block.warns # {}

-----------------------------------------------------------------------------
SplitInit ==
    /\ contract \in Contracts
    /\ items \in Documents[contract]
    /\ phase = "next" /\ left = ParserChunks /\ handled = FALSE
    /\ blocks = <<>> /\ pos = 1 /\ made = <<>>
    /\ recovered = [i \in DOMAIN items |-> <<>>] /\ visionCalls = <<>>
    /\ current = NoBlocks /\ pending = NoBlocks /\ chunks = <<>>

\* The loop of _split_async: a content list that was processed is skipped.
SkipParserChunk ==
    /\ phase = "next" /\ left > 0 /\ handled
    /\ left' = left - 1
    /\ UNCHANGED <<inputVars, phase, handled, blocks, pos, made, normalVars, unitVars, chunks>>

TakeParserChunk ==
    /\ phase = "next" /\ left > 0 /\ ~handled
    /\ left' = left - 1 /\ phase' = "normalize"
    /\ UNCHANGED <<inputVars, handled, blocks, pos, made, normalVars, unitVars, chunks>>

Finish ==
    /\ phase = "next" /\ left = 0
    /\ phase' = "done"
    /\ UNCHANGED <<inputVars, left, handled, blocks, pos, made, normalVars, unitVars, chunks>>

\* A loop over blocks is done: what it has made is what the next one goes over.
LoopEnds ==
    /\ phase \in {"normalize", "stitch", "cut"}
    /\ pos > Len(IF phase = "normalize" THEN items ELSE blocks)
    /\ blocks' = made /\ made' = <<>> /\ pos' = 1
    /\ phase' = CASE phase = "normalize" -> "stitch"
                   [] phase = "stitch" -> IF Canonical THEN "order" ELSE "group"
                   [] phase = "cut" -> "assemble"
    /\ UNCHANGED <<inputVars, left, handled, normalVars, unitVars, chunks>>

-----------------------------------------------------------------------------
(* Normalization *)

\* _VisionRecoveryState.reserve: a call counts whether or not it recovers.
MayCallVision(page) ==
    /\ Len(visionCalls) < MaxVisionCalls
    /\ Cardinality({k \in DOMAIN visionCalls : visionCalls[k] = page}) < MaxPageCalls

NoRecovery == [text |-> <<>>, calls |-> visionCalls]

\* _extract_recovery: text the parser supplied is taken at once; otherwise the
\* text layer of the PDF and the vision model, whose text goes before.
Recoveries(i) ==
    LET found == {TextOf(marks, i, "recovered") : marks \in RecoveredMarks}
        called == Append(visionCalls, items[i].page)
        visual == items[i].type \in VisualTypes
    IN  {NoRecovery}
        \cup [text : found, calls : {visionCalls}]
        \cup (IF visual /\ contract.vision /\ MayCallVision(items[i].page)
              THEN [text : found \cup {<<>>}, calls : {called}] ELSE {})

\* What becomes of the item: the prose the contract allows for, the recovered
\* text, or nothing but the warning that it was quarantined.
TrustedText(own, recovery) ==
    IF recovery # <<>> THEN recovery
    ELSE IF contract.prose THEN own ELSE <<>>

NormalizedAs(i, recovery) ==
    LET item == items[i]
        own == TextOf(item.marks, i, "own")
        warned == Block(item.type, item.page, TrustedText(own, recovery), {i})
    IN  CASE Allowed(item.type) ->
                IF own = <<>> THEN <<>> ELSE <<Block(item.type, item.page, own, {})>>
          [] ~Allowed(item.type) /\ item.type = "equation" -> <<warned>>
          [] OTHER -> IF own = <<>> /\ recovery = <<>> THEN <<>> ELSE <<warned>>

NormalizeItem ==
    /\ phase = "normalize" /\ pos <= Len(items)
    /\ \E recovery \in Recoveries(pos) :
        /\ recovered' = [recovered EXCEPT ![pos] = recovery.text]
        /\ visionCalls' = recovery.calls
        /\ made' = made \o NormalizedAs(pos, recovery.text)
    /\ pos' = pos + 1
    /\ UNCHANGED <<inputVars, phase, left, handled, blocks, unitVars, chunks>>

\* _page_stitch_decision, but for how the texts read.
Stitches(previous, block) ==
    /\ block.page = previous.last + 1
    /\ previous.warns = {} /\ block.warns = {}
    /\ previous.type = "text" /\ block.type = "text"

\* The joined block keeps the first page as its page; only source_item knows
\* the last one, which decides whether a third block is joined to it.
Stitched(previous, block) ==
    [previous EXCEPT !.text = @ \o block.text, !.last = block.page]

\* One block of _stitch_page_boundary_paragraphs: it is joined to the one before
\* if its text reads as the continuation of it, which may be or not.
Stitch ==
    /\ phase = "stitch" /\ pos <= Len(blocks)
    /\ \/ made' = Append(made, blocks[pos])
       \/ /\ made # <<>> /\ Stitches(Last(made), blocks[pos])
          /\ made' = [made EXCEPT ![Len(made)] = Stitched(@, blocks[pos])]
    /\ pos' = pos + 1
    /\ UNCHANGED <<inputVars, phase, left, handled, blocks, normalVars, unitVars, chunks>>

-----------------------------------------------------------------------------
(* Reading order and cuts *)

\* _canonical_block_order: with layout boxes the pages ascend, and a page is
\* read column by column, in an order that only its boxes tell.
ReadingOrders ==
    {[k \in DOMAIN blocks |-> k]} \cup
    {order \in Bijection(DOMAIN blocks, DOMAIN blocks) :
        \A j, k \in DOMAIN blocks : j < k => blocks[order[j]].page <= blocks[order[k]].page}

Order ==
    /\ phase = "order"
    /\ \E order \in ReadingOrders : blocks' = [k \in DOMAIN blocks |-> blocks[order[k]]]
    /\ phase' = "cut"
    /\ UNCHANGED <<inputVars, left, handled, pos, made, normalVars, unitVars, chunks>>

\* Mutant: what precedes the first position is dropped.
CutAtWithoutLead(text, positions) ==
    LET last == Cardinality(positions)
    IN  [k \in 1 .. last |->
            SubSeq(text, Nth(positions, k),
                   IF k = last THEN Len(text) ELSE Nth(positions, k + 1) - 1)]

\* Cut a text before each of these positions; what precedes the first stays
\* with the first piece.
CutAt(text, positions) ==
    LET last == Cardinality(positions)
    IN  [k \in 1 .. last |->
            SubSeq(text, IF k = 1 THEN 1 ELSE Nth(positions, k),
                   IF k = last THEN Len(text) ELSE Nth(positions, k + 1) - 1)]

\* split_primary_anchor_units, and split_reference_units when an inline
\* reference starts a unit too.
PrimaryPieces(text) ==
    CutAt(text, Positions(text, IF contract.inline = "starts_unit"
                                THEN {"anchor", "inline"} ELSE {"anchor"}))

\* _context_prefix_for_unit: the nearest context before the anchor; only its
\* own words when another anchor lies between.
ContextPrefix(text, anchor) ==
    LET contexts == Before(Positions(text, {"context"}), anchor)
        anchors == Before(Positions(text, {"anchor"}), anchor)
        nearest == Max(contexts)
    IN  IF contexts = {} THEN <<>>
        ELSE IF anchors # {} /\ nearest < Max(anchors) THEN <<text[nearest]>>
        ELSE SubSeq(text, nearest, anchor - 1)

\* _split_contextual_unit_units: a piece per anchor, up to the next anchor or
\* context, with the context the anchor belongs to put before it.
ContextualPiece(text, anchor) ==
    LET contexts == Positions(text, {"context"})
        anchors == Positions(text, {"anchor"})
        ends == After(contexts \cup anchors, anchor)
        unit == SubSeq(text, anchor, IF ends = {} THEN Len(text) ELSE Min(ends) - 1)
    IN  IF anchor = Min(anchors) /\ Before(contexts, anchor) # {}
        THEN SubSeq(text, 1, anchor - 1) \o unit
        ELSE ContextPrefix(text, anchor) \o unit

ContextualPieces(text) ==
    IF Positions(text, {"context"}) = {} THEN <<>>
    ELSE LET anchors == Positions(text, {"anchor"})
         IN  [k \in 1 .. Cardinality(anchors) |-> ContextualPiece(text, Nth(anchors, k))]

Pieces(text) ==
    IF contract.canonical = "contextual" THEN ContextualPieces(text) ELSE PrimaryPieces(text)

\* _expand_multi_reference_blocks
Expand(block) ==
    LET pieces == Pieces(block.text)
    IN  IF Len(pieces) <= 1 THEN <<block>>
        ELSE [k \in DOMAIN pieces |-> [block EXCEPT !.text = pieces[k]]]

\* One block of _expand_multi_reference_blocks.
Cut ==
    /\ phase = "cut" /\ pos <= Len(blocks)
    /\ made' = made \o Expand(blocks[pos])
    /\ pos' = pos + 1
    /\ UNCHANGED <<inputVars, phase, left, handled, blocks, normalVars, unitVars, chunks>>

-----------------------------------------------------------------------------
(* Assembly of canonical units *)

\* extract_primary_anchor_references: an anchor, and the context before it
\* where the anchor alone does not name a unit.
HasReference(block) ==
    \E k \in Positions(block.text, {"anchor"}) :
        contract.canonical = "contextual" => Before(Positions(block.text, {"context"}), k) # {}

\* _is_header_only_reference looks at the text, the caller at the type too.
IsHeader(block) ==
    \/ block.type = "header"
    \/ contract.canonical = "primary" /\ Len(block.text) = 1

Chunk(kind, unit) == [kind |-> kind, text |-> unit.text, warns |-> unit.warns]

\* _finish_unit and _provenance_unit
Finished(unit) ==
    IF ~unit.open THEN <<>>
    ELSE <<Chunk(IF unit.body \/ contract.headerOnly = "answerable" THEN "unit" ELSE "provenance",
                 unit)>>
Provenance(unit) == IF unit.open THEN <<Chunk("provenance", unit)>> ELSE <<>>

WithinPageGap(unit, block) ==
    contract.gap = NoLimit \/ block.page - unit.last <= contract.gap

Assembling(block) ==
    /\ phase = "assemble" /\ pos <= Len(blocks) /\ block = blocks[pos]
    /\ pos' = pos + 1
    /\ UNCHANGED <<inputVars, phase, left, handled, blocks, made, normalVars>>

\* _pending_blocks_for_reference
Attached(block) == pending.open /\ contract.carry /\ WithinPageGap(pending, block)

\* The unit a reference opens, with the blocks that waited for it after its own.
Opened(block) ==
    LET own == [Alone(block) EXCEPT !.body = ~IsHeader(block)]
    IN  IF ~Attached(block) THEN own
        ELSE [pending EXCEPT !.text = own.text \o @, !.warns = own.warns \cup @, !.body = TRUE]

\* Mutant: the blocks that waited go on waiting, for the reference after this one too.
StartUnitKeepingPending(block) ==
    /\ Assembling(block) /\ HasReference(block)
    /\ chunks' = chunks \o Finished(current)
                        \o (IF Attached(block) THEN <<>> ELSE Provenance(pending))
    /\ current' = Opened(block)
    /\ pending' = IF Attached(block) THEN pending ELSE NoBlocks

\* A reference: the open unit is finished and a new one opened.
StartUnit(block) ==
    /\ Assembling(block) /\ HasReference(block)
    /\ chunks' = chunks \o Finished(current)
                        \o (IF Attached(block) THEN <<>> ELSE Provenance(pending))
    /\ current' = Opened(block)
    /\ pending' = NoBlocks

\* Text with no unit open waits for the next reference.
HoldBack(block) ==
    /\ Assembling(block) /\ ~HasReference(block) /\ ~current.open
    /\ contract.carry /\ block.text # <<>>
    /\ pending' = Followed(pending, block)
    /\ UNCHANGED <<current, chunks>>

\* What cannot wait is kept as provenance, after what has waited so far.
Unassigned(block) ==
    /\ Assembling(block) /\ ~HasReference(block) /\ ~current.open
    /\ ~(contract.carry /\ block.text # <<>>)
    /\ IF Emitted(block)
         THEN /\ chunks' = chunks \o Provenance(pending) \o Provenance(Alone(block))
              /\ pending' = NoBlocks
         ELSE UNCHANGED <<chunks, pending>>
    /\ UNCHANGED current

\* Without carry-forward, or too many pages on, the open unit ends here.
Detach(block) ==
    /\ Assembling(block) /\ ~HasReference(block) /\ current.open
    /\ \/ ~contract.carry /\ Emitted(block)
       \/ contract.carry /\ ~WithinPageGap(current, block)
    /\ chunks' = chunks \o Finished(current)
                        \o (IF Emitted(block) THEN Provenance(Alone(block)) ELSE <<>>)
    /\ current' = NoBlocks
    /\ UNCHANGED pending

\* The block continues the open unit, or only hands it its warning.
ContinueUnit(block) ==
    /\ Assembling(block) /\ ~HasReference(block) /\ current.open
    /\ IF contract.carry THEN WithinPageGap(current, block) ELSE ~Emitted(block)
    /\ current' = IF Emitted(block) THEN Followed(current, block) ELSE current
    /\ UNCHANGED <<pending, chunks>>

EndUnits ==
    /\ phase = "assemble" /\ pos > Len(blocks)
    /\ chunks' = chunks \o Provenance(pending) \o Finished(current)
    /\ current' = NoBlocks /\ pending' = NoBlocks
    /\ handled' = TRUE /\ phase' = "next"
    /\ UNCHANGED <<inputVars, left, blocks, pos, made, normalVars>>

-----------------------------------------------------------------------------
(* Groups under headings, for a document without canonical units *)

\* _hard_split_text: consecutive parts, none longer than hard_max_words.
Splits(text) ==
    IF Len(text) <= HardMax THEN {{1}}
    ELSE {cuts \in SUBSET DOMAIN text :
            /\ 1 \in cuts
            /\ \A k \in cuts : Min(After(cuts, k) \cup {Len(text) + 1}) - k <= HardMax}

\* The parts of a group all carry the group's warnings.
PartsOf(group, cuts) ==
    LET parts == CutAt(group.text, cuts)
    IN  [k \in DOMAIN parts |-> [Chunk("part", group) EXCEPT !.text = parts[k]]]

FlushInto(rest) ==
    IF ~current.open THEN chunks' = chunks \o rest
    ELSE \E cuts \in Splits(current.text) :
            chunks' = chunks \o PartsOf(current, cuts) \o rest

StartsSection(block) == block.text # <<>> /\ Head(block.text).mark = "heading"

Group(block) ==
    /\ phase = "group" /\ pos <= Len(blocks) /\ block = blocks[pos]
    /\ IF block.text = <<>>
         THEN FlushInto(<<Chunk("quarantined", block)>>) /\ current' = NoBlocks
         ELSE IF StartsSection(block)
         THEN FlushInto(<<>>) /\ current' = Alone(block)
         ELSE current' = Followed(current, block) /\ UNCHANGED chunks
    /\ pos' = pos + 1
    /\ UNCHANGED <<inputVars, phase, left, handled, blocks, made, normalVars, pending>>

EndGroups ==
    /\ phase = "group" /\ pos > Len(blocks)
    /\ FlushInto(<<>>)
    /\ current' = NoBlocks
    /\ handled' = TRUE /\ phase' = "next"
    /\ UNCHANGED <<inputVars, left, blocks, pos, made, normalVars, pending>>

-----------------------------------------------------------------------------
Assemble ==
    \E block \in Range(blocks) :
        \/ StartUnit(block) \/ HoldBack(block) \/ Unassigned(block)
        \/ Detach(block) \/ ContinueUnit(block)

Split ==
    \/ SkipParserChunk \/ TakeParserChunk \/ Finish
    \/ LoopEnds \/ NormalizeItem \/ Stitch \/ Order \/ Cut
    \/ Assemble \/ EndUnits
    \/ \E block \in Range(blocks) : Group(block)
    \/ EndGroups

Done == phase = "done" /\ UNCHANGED splitVars

SplitNext == Split \/ Done

SplitSpec == SplitInit /\ [][SplitNext]_splitVars /\ WF_splitVars(Split)

-----------------------------------------------------------------------------
Tokens == [mark : Marks, item : Nat, at : Nat, source : {"own", "recovered"}]
Blocks == [type : BlockTypes, page : Nat, last : Nat, text : Seq(Tokens), warns : SUBSET Nat]
Units == [open : BOOLEAN, text : Seq(Tokens), warns : SUBSET Nat, last : Nat, body : BOOLEAN]
Chunks == [kind : {"unit", "provenance", "part", "quarantined"}, text : Seq(Tokens),
           warns : SUBSET Nat]

SplitTypeOK ==
    /\ contract \in Contracts /\ items \in Documents[contract]
    /\ phase \in {"next", "normalize", "stitch", "order", "cut", "assemble", "group", "done"}
    /\ left \in Nat /\ handled \in BOOLEAN
    /\ blocks \in Seq(Blocks) /\ pos \in Nat \ {0} /\ made \in Seq(Blocks)
    /\ recovered \in [DOMAIN items -> Seq(Tokens)] /\ visionCalls \in Seq(Nat)
    /\ current \in Units /\ pending \in Units /\ chunks \in Seq(Chunks)

\* The text of an item that a reader may trust: its own where the contract
\* allows its type, else what was recovered, else prose if the contract says so.
Expected(i) ==
    LET own == TextOf(items[i].marks, i, "own")
    IN  IF Allowed(items[i].type) THEN own ELSE TrustedText(own, recovered[i])

Occurrences(token) ==
    {p \in UNION {{c} \X DOMAIN chunks[c].text : c \in DOMAIN chunks} :
        chunks[p[1]].text[p[2]] = token}

\* When the split is done every trusted token of the document is in exactly
\* one chunk, and no chunk has text that was quarantined, through stitching,
\* reordering, cuts, carried and detached blocks, and several parser chunks
\* that name one content list.  (Contextual cuts repeat a context and may drop
\* text, see the README; they are held to the second half.)
TextIsKeptOnce ==
    phase = "done" =>
        /\ \A c \in DOMAIN chunks : \A k \in DOMAIN chunks[c].text :
                \E i \in DOMAIN items : chunks[c].text[k] \in Range(Expected(i))
        /\ contract.canonical # "contextual" =>
                \A i \in DOMAIN items : \A token \in Range(Expected(i)) :
                    Cardinality(Occurrences(token)) = 1

\* When the split is done every item that was quarantined or recovered has its
\* warning on a chunk, also where it gave no text to hang the warning on: the
\* quality gate sees no other trace of it.
MustWarn(i) ==
    /\ ~Allowed(items[i].type)
    /\ items[i].type = "equation" \/ items[i].marks # <<>> \/ recovered[i] # <<>>

WarningsAreKept ==
    phase = "done" =>
        \A i \in DOMAIN items : MustWarn(i) => \E c \in DOMAIN chunks : i \in chunks[c].warns

\* The places of the blocks that were assembled, in reading order.
Read == UNION {{b} \X DOMAIN blocks[b].text : b \in 1 .. pos - 1}
TokenAt(p) == blocks[p[1]].text[p[2]]
PlaceOf(token) == CHOOSE p \in Read : TokenAt(p) = token
Precedes(p, q) == p[1] < q[1] \/ (p[1] = q[1] /\ p[2] < q[2])
Between(p, q, r) == Precedes(p, q) /\ Precedes(q, r)

\* A unit that may answer has the anchor of one reference, and between that
\* anchor and any text of the unit no other anchor lies in the reading order:
\* text is never filed under the reference before last.
UnitsReadTogether ==
    phase \in {"assemble", "next", "done"} /\ contract.canonical = "primary" =>
        \A c \in DOMAIN chunks : chunks[c].kind = "unit" =>
            LET text == chunks[c].text
                anchors == Positions(text, {"anchor"})
            IN  /\ Cardinality(anchors) = 1
                /\ \A a \in anchors : \A k \in DOMAIN text : \A other \in Read :
                    TokenAt(other).mark = "anchor" =>
                        /\ ~Between(PlaceOf(text[a]), other, PlaceOf(text[k]))
                        /\ ~Between(PlaceOf(text[k]), other, PlaceOf(text[a]))
=============================================================================
