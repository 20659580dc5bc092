----------------------------- MODULE MCQueryRun -----------------------------
(***************************************************************************)
(* Two documents.  Of the first: two chunks matched by a reference, one of *)
(* them withheld, and one that says what the other and a native row say;   *)
(* of the second: a chunk of the hypothesis, longer than the context.      *)
(***************************************************************************)
EXTENDS QueryRun, TLC

CONSTANTS byReference, withheld, repeated, byHypothesis, row, d1, d2

MCChunks == {byReference, withheld, repeated, byHypothesis}
MCRows == {row}
MCDocOf == [c \in MCChunks \cup MCRows |-> IF c = byHypothesis THEN d2 ELSE d1]
MCExactness ==
    byReference :> "reference" @@ withheld :> "reference" @@ repeated :> "none"
    @@ byHypothesis :> "hypothesis"
MCTokens == [c \in MCChunks \cup MCRows |-> IF c = byHypothesis THEN 3 ELSE 1]
MCSimilar == {<<row, repeated>>, <<repeated, row>>,
              <<byReference, repeated>>, <<repeated, byReference>>}
MCNotProjected == {withheld}
MCWithheld == {withheld}
MCScopes == {{}, {d1}}
=============================================================================
