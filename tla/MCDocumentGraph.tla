--------------------------- MODULE MCDocumentGraph ---------------------------
(* Instances of DocumentGraph for TLC. *)
EXTENDS DocumentGraph, TLC

CONSTANTS r1, r2, t1, t2

MCRequests == {r1, r2}
MCTargets  == {t1, t2}

\* Requests are alike, and so are targets.
Symmetry == Permutations(MCRequests) \cup Permutations(MCTargets)
=============================================================================
