------------------------- MODULE MCReferenceQuality -------------------------
\* ReferenceQuality for TLC: documents of three chunks out of nine kinds, under
\* contracts that differ in what they require and what they block.
EXTENDS ReferenceQuality

Contract(required, optional, optionalAction, missing, allow, parallel, resolved, vision, blocks) ==
    [required |-> required, optional |-> optional, optionalAction |-> optionalAction,
     missing |-> missing, allow |-> allow, parallel |-> parallel, resolved |-> resolved,
     vision |-> vision, blocks |-> blocks]

Both == {"arabic", "latin"}

MCContracts ==
    {Contract(Both, {}, "no_warning", "block", FALSE, FALSE, TRUE, TRUE, {}),
     Contract({"arabic"}, {"latin"}, "block", "warn", FALSE, TRUE, TRUE, TRUE, {"quarantined"}),
     Contract({"arabic"}, {"latin"}, "info", "warn", FALSE, FALSE, FALSE, TRUE, {"missing"}),
     Contract({"latin"}, {}, "no_warning", "block", TRUE, TRUE, TRUE, TRUE, {"quarantined"}),
     Contract({}, {"latin"}, "warn", "warn", FALSE, FALSE, TRUE, FALSE, {}),
     Contract(Both, {}, "no_warning", "block", FALSE, FALSE, FALSE, FALSE, {}),
     Contract({}, {}, "no_warning", "warn", FALSE, FALSE, FALSE, FALSE, {"quarantined"})}

Chunk(kind, scripts, preview, noise, evidence) ==
    [kind |-> kind, scripts |-> scripts, preview |-> preview, noise |-> noise,
     evidence |-> evidence]

MCChunks ==
    {Chunk("unit", <<Both>>, {}, "text", <<>>),
     Chunk("unit", <<{"latin"}>>, {}, "layout", <<1, 2>>),
     Chunk("unit", <<{"latin"}>>, {"arabic"}, "none", <<1>>),
     Chunk("unit", <<{}>>, {}, "none", <<1, 1, 2>>),
     Chunk("pair", <<{"latin"}, {"arabic"}>>, {}, "none", <<2, 1>>),
     Chunk("pair", <<{"arabic"}, {}>>, {"latin"}, "text", <<2>>),
     Chunk("plain", <<{"arabic"}>>, {}, "none", <<>>),
     Chunk("quarantined", <<{}>>, {}, "text", <<>>),
     Chunk("provenance", <<{"latin"}>>, {"arabic"}, "layout", <<>>)}

MCDocuments == [1 .. 3 -> MCChunks]
=============================================================================
