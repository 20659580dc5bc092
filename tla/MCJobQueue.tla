----------------------------- MODULE MCJobQueue -----------------------------
(* Instances of JobQueue for TLC. *)
EXTENDS JobQueueInv, TLC

CONSTANTS w1, w2, d1, d2

MCWorkers == {w1, w2}
OneDoc    == {d1}
TwoDocs   == {d1, d2}

\* Workers are interchangeable, and so are documents; jobs are ordered.
Symmetry == Permutations(MCWorkers) \cup Permutations(TwoDocs)

\* A stage that resumes; and one from which a job starts anew, although it was
\* indexed, which before its first stage any job does.
Resumable == {"search_ready"}
AnyStage  == {"search_ready", "runtime_enriching"}
=============================================================================
