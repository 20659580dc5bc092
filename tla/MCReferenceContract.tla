------------------------ MODULE MCReferenceContract ------------------------
\* ReferenceContract for TLC: two files that look alike, references of a book
\* and a verse, and answers of a model that take every path of the suggester.
EXTENDS ReferenceContract, TLC

MCKey == [file \in {"sahih", "muslim"} |-> "hadith.pdf:1:1"]

MCGroups == [bookVerse |-> {"book", "verse"}, book |-> {"book"}, verse |-> {"verse"},
             other |-> {"book", "verse"}, unsafe |-> {"book", "verse"}]

MCUnits == [sahih |-> (<<"bookVerse">> :> 3 @@ <<"book", "verse">> :> 2 @@ <<"book">> :> 1),
            muslim |-> (<<"other">> :> 2 @@ <<"book", "verse">> :> 1 @@ <<"book">> :> 1)]

Verse == [type |-> "verse", fields |-> {"book", "verse"}]
Primary(r) == [Blank.anchors EXCEPT !["primary"] = [regex |-> r, verified |-> TRUE]]
Pair == [Blank.anchors EXCEPT !["context"] = [regex |-> "book", verified |-> TRUE],
                              !["unit"] = [regex |-> "verse", verified |-> FALSE]]
Generated(extractors, min) == Verse @@ [extractors |-> extractors, min |-> min]

Declared(schema, anchors) ==
    [Blank EXCEPT !.schema = schema, !.anchors = anchors, !.chunkUnit = TRUE]

MCProposals ==
    {Declared(Verse, Primary("bookVerse")),
     Declared(Verse, Pair),
     [Declared(Verse, Primary("other")) EXCEPT !.units = "on"],
     Declared(NoSchema, Primary("unsafe")),
     Declared([type |-> "note", fields |-> {}], Primary("bookVerse")),
     [Blank EXCEPT !.units = "on"],
     [Declared(NoSchema, Blank.anchors) EXCEPT
        !.contracts = <<Generated(<< <<"book", "verse">> >>, 2)>>],
     [Declared(Verse, Primary("bookVerse")) EXCEPT
        !.contracts = <<Generated(<< <<"other">> >>, 1)>>],
     [Declared(Verse, Blank.anchors) EXCEPT
        !.contracts = <<Generated(<< <<"other">>, <<"bookVerse">> >>, 1)>>],
     [Declared(Verse, Blank.anchors) EXCEPT
        !.contracts = <<Generated(<< <<"other">> >>, 1), Generated(<< <<"bookVerse">> >>, 1)>>]}

MCProfiles ==
    {[Blank EXCEPT !.chunkUnit = TRUE],
     [Declared([type |-> "chapter", fields |-> {"book"}], Primary("book")) EXCEPT !.units = "on"],
     Declared([type |-> "note", fields |-> {}], Primary("book"))}
=============================================================================
