--------------------------- MODULE MCIndexPipeline ---------------------------
(* Instances of IndexPipeline for TLC. *)
EXTENDS IndexPipeline, TLC

CONSTANTS w1, w2, d1

MCWorkers == {w1, w2}
MCDocs    == {d1}

Symmetry == Permutations(MCWorkers)
=============================================================================
