--------------------------- MODULE MCSourceParse ---------------------------
(* SourceParse on short PDFs and a few archives for the runs of TLC. *)
EXTENDS SourceParse

MCContracts ==
    {[strict |-> TRUE, references |-> TRUE, scripts |-> TRUE, minRatio |-> ratio,
      sample |-> sample, reject |-> reject] :
        ratio \in {1, 2}, sample \in {{}, {2}, {9}}, reject \in BOOLEAN}

MCSettings == {[preflight |-> TRUE, cleanup |-> cleanup, reject |-> TRUE] : cleanup \in BOOLEAN}

Pair(original, ocr) == [original |-> original, ocr |-> ocr]
MCPdfs ==
    {Pair(<<"good", "good", "good", "noscript">>, <<"good", "good", "good", "good">>),
     Pair(<<"good", "empty", "noref", "good">>, <<"good", "good", "empty", "good">>),
     Pair(<<"empty">>, <<"noref">>),
     Pair(<<"good", "noscript">>, <<"good", "noscript">>)}

MCInputs == {[original |-> p.original, ocr |-> p.ocr, contract |-> c, settings |-> s] :
                p \in MCPdfs, c \in MCContracts, s \in MCSettings}

Short == [listed |-> 2, texts |-> 2, chars |-> 900, rawPdf |-> FALSE, safe |-> TRUE]
MCArtifacts == {Short, [Short EXCEPT !.chars = 20], [Short EXCEPT !.safe = FALSE],
                [Short EXCEPT !.listed = 0, !.texts = 0]}
=============================================================================
