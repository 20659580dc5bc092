-------------------------- MODULE MCDocumentChunks --------------------------
\* DocumentChunks for TLC: documents of three blocks over a few shapes of text
\* and a few ways to lie on pages, for seven contracts.
EXTENDS DocumentChunks

ContractOf(canonical, allowed, prose, inline, carry, gap, headerOnly, vision) ==
    [canonical |-> canonical, allowed |-> allowed, prose |-> prose, inline |-> inline,
     carry |-> carry, gap |-> gap, headerOnly |-> headerOnly, vision |-> vision]

MCContracts ==
    {ContractOf("none", {}, FALSE, "starts_unit", FALSE, NoLimit, "answerable", TRUE),
     ContractOf("none", {"equation"}, TRUE, "starts_unit", FALSE, NoLimit, "answerable", FALSE),
     ContractOf("primary", {}, FALSE, "cross_reference_only", TRUE, 1, "provenance_only", TRUE),
     ContractOf("primary", {"image"}, TRUE, "starts_unit", TRUE, NoLimit, "answerable", FALSE),
     ContractOf("primary", {}, TRUE, "starts_unit", FALSE, NoLimit, "provenance_only", FALSE),
     ContractOf("contextual", {}, FALSE, "cross_reference_only", TRUE, 1, "answerable", FALSE),
     ContractOf("contextual", {}, TRUE, "cross_reference_only", FALSE, NoLimit, "provenance_only",
              FALSE)}

Shape(type, marks) == [type |-> type, marks |-> marks]

Shapes(contract_) ==
    {Shape("text", <<"words">>), Shape("equation", <<>>)} \cup
    CASE contract_.canonical = "none" ->
            {Shape("text", <<"heading", "words", "words">>), Shape("image", <<"words">>)}
      [] contract_.canonical = "primary" ->
            {Shape("text", <<"anchor">>), Shape("header", <<"anchor", "words">>),
             Shape("text", <<"words", "anchor", "inline", "words", "anchor", "words">>),
             Shape("image", <<"words">>)}
      [] contract_.canonical = "contextual" ->
            {Shape("text", <<"context">>), Shape("text", <<"anchor", "words">>),
             Shape("text", <<"context", "anchor", "words", "anchor", "words", "context">>)}

Layouts == {<<1, 1, 1>>, <<1, 1, 2>>, <<1, 2, 3>>, <<1, 3, 3>>}

MCDocuments == [contract_ \in MCContracts |->
    {[k \in 1 .. 3 |-> [type |-> shapes[k].type, marks |-> shapes[k].marks, page |-> pages[k]]] :
        shapes \in [1 .. 3 -> Shapes(contract_)], pages \in Layouts}]

MCRecoveredMarks == {<<"words">>}
=============================================================================
