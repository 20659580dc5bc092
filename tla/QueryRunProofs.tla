---------------------------- MODULE QueryRunProofs ----------------------------
(***************************************************************************)
(* Theorems about QueryRun for any finite sets of chunks and rows, any     *)
(* number of variants and any limits: sources stay inside the scope of the *)
(* request, only what a run cannot do without fails it, direct evidence    *)
(* gives way to nothing worse, and every run is stored as it ended; and    *)
(* about NativeStorage, which its native lane queries: an operation runs   *)
(* under its own settings, the environment of the process is put back, and *)
(* answers are of the selected documents.                                  *)
(***************************************************************************)
EXTENDS QueryRun, NativeStorage, FiniteSetTheorems, TLAPS

\* From the start of the lanes to the selection of the evidence.
Searching == {"retrieve", "layout", "context", "graph", "hydrate", "assemble"}

\* Whatever the lanes and the run hold is of the selected documents; what Neo4j
\* names need not be, before it is hydrated. The mode is one of the two.
ScopeOK ==
    /\ request.mode \in {"fast", "full"}
    /\ \A c \in native.found \cup metadata.found \cup related \cup fused : InScope(c)
    /\ \A c \in run.sources : InScope(c)
    /\ ScopePreserved

\* A metadata lane that failed is on record as a critical failure.
FailureOK ==
    phase = "retrieve" /\ metadata.state = "failed" => failures \cap Critical # {}

\* The run is complete before it is committed.
EndedOK == phase \in {"commit", "recover"} => run.status \in {"succeeded", "failed"}

QueryInv ==
    /\ TypeOK /\ ScopeOK /\ FailureOK /\ EndedOK
    /\ OnlyCriticalFailuresFail /\ DirectEvidenceSurvives /\ RunsAreStored

\* A run with its result, and rows of the selected documents.
Ended == {r \in Results : r.status \in {"succeeded", "failed"}}
InScopeRows == {r \in Rows : InScope(r)}

-----------------------------------------------------------------------------
(* Selection *)

\* What is cut to a limit is not cut to nothing.
LEMMA CutIsNotEmpty ==
    ASSUME NEW S, IsFiniteSet(S), S # {}, NEW n \in Nat \ {0},
           NEW T, Cardinality(T) = Smaller(n, Cardinality(S))
    PROVE  T # {}
<1>1. Cardinality(S) \in Nat /\ Cardinality(S) # 0
  BY FS_CardinalityType, FS_EmptySet
<1>2. Smaller(n, Cardinality(S)) # 0
  BY <1>1 DEF Smaller
<1>3. Cardinality({}) = 0
  BY FS_EmptySet
<1> QED BY <1>2, <1>3

\* The selection of an answer's evidence keeps what is matched directly and not
\* withheld, unless what it keeps instead is matched as well.
LEMMA SelectionKeepsDirect ==
    ASSUME TypeOK, NEW F \in Fusions, NEW order,
           NEW D \in Diverse(F, order), NEW K \in Contexts(D), NEW E \in Evidences(D, K)
    PROVE  /\ F \subseteq native.found \cup metadata.found \cup related
           /\ E \subseteq F
           /\ \A c \in Direct(metadata.found) \ Withheld :
                \/ c \in E
                \/ E # {} /\ \A e \in E : FusionPriority(e) >= FusionPriority(c)
<1> DEFINE S == native.found \cup metadata.found \cup related
<1>1. /\ F \subseteq S
      /\ Cardinality(F) = Smaller(CandidateLimit, Cardinality(S))
      /\ \A x \in F, y \in S \ F : FusionPriority(x) >= FusionPriority(y)
  BY DEF Fusions, FirstOf
<1>2. /\ D \subseteq F /\ Direct(F) \subseteq D
      /\ \A y \in F \ D : \E x \in D : <<x, y>> \in Similar
  BY DEF Diverse
<1>3. K \subseteq D /\ Direct(D) \ PolicyDrops \subseteq K
  BY DEF Contexts, Direct
<1>4. /\ E \subseteq D
      /\ K # {} => /\ E \subseteq K /\ Cardinality(E) = Smaller(Limit, Cardinality(K))
                   /\ \A x \in E, y \in K \ E : ContextPriority(x) >= ContextPriority(y)
      /\ K = {} => Cardinality(E) = Smaller(Limit, Cardinality(D))
  BY <1>3 DEF Evidences, FirstOf
<1>5. IsFiniteSet(S) /\ IsFiniteSet(D) /\ IsFiniteSet(K)
  <2>1. IsFiniteSet(Candidates)
    BY QueryAssumption, FS_Union DEF Candidates
  <2>2. S \subseteq Candidates
    BY DEF TypeOK, Candidates
  <2> QED BY <1>1, <1>2, <1>3, <2>1, <2>2, FS_Subset
<1>6. ASSUME NEW c \in Direct(metadata.found) \ Withheld
      PROVE  \/ c \in E
             \/ E # {} /\ \A e \in E : FusionPriority(e) >= FusionPriority(c)
  <2>1. c \in metadata.found /\ c \in S /\ c \notin Rows
    BY <1>6, QueryAssumption DEF Direct, TypeOK
  <2>2. F # {}
    BY <1>1, <1>5, <2>1, QueryAssumption, CutIsNotEmpty
  <2>3. D # {}
    BY <1>2, <2>2
  <2>4. E # {}
    <3>1. CASE K # {}
      BY <1>4, <1>5, <3>1, QueryAssumption, CutIsNotEmpty
    <3>2. CASE K = {}
      BY <1>4, <1>5, <2>3, <3>2, QueryAssumption, CutIsNotEmpty
    <3> QED BY <3>1, <3>2
  <2>5. CASE c \notin F
    BY <1>1, <1>2, <1>4, <2>1, <2>4, <2>5
  <2>6. CASE c \in F
    <3>1. c \in K
      BY <1>2, <1>3, <1>6, <2>1, <2>6 DEF Direct, PolicyDrops
    <3>2. \A e \in K : ContextPriority(e) >= ContextPriority(c)
                       => FusionPriority(e) >= FusionPriority(c)
      BY <1>6 DEF Direct, ContextPriority, FusionPriority
    <3> QED BY <1>4, <2>4, <3>1, <3>2
  <2> QED BY <2>5, <2>6
<1> QED BY <1>1, <1>2, <1>4, <1>6

-----------------------------------------------------------------------------
(* Kinds of steps *)

\* A step of the lanes, or one that leaves them: what it adds is in scope.
LEMMA LaneStep ==
    ASSUME QueryInv, phase \in Searching \cup {"plan"}, phase' \in Searching,
           UNCHANGED <<request, variant, expired, fused, evidence, run, stored>>,
           transaction' \in {"open", "aborted"},
           native'.state \in {"off", "running", "ok", "failed"},
           metadata'.state \in {"off", "running", "ok", "failed"},
           graph'.state \in {"off", "running", "ok", "failed"},
           native'.found \subseteq InScopeRows, metadata'.found \subseteq ScopedChunks,
           graph'.found \subseteq Chunks, related' \subseteq ScopedChunks,
           phase' = "retrieve" /\ metadata'.state = "failed" => failures' \cap Critical # {}
    PROVE  QueryInv'
<1>0. TypeOK /\ ScopeOK /\ RunsAreStored
  BY DEF QueryInv
<1>1. TypeOK'
  BY <1>0 DEF TypeOK, Searching, Phases, InScopeRows, ScopedChunks
<1>2. ScopeOK'
  BY <1>0 DEF ScopeOK, ScopePreserved, InScope, InScopeRows, ScopedChunks
<1>3. FailureOK'
  BY DEF FailureOK, Critical
<1>4. (EndedOK /\ OnlyCriticalFailuresFail /\ DirectEvidenceSurvives)'
  BY DEF EndedOK, OnlyCriticalFailuresFail, DirectEvidenceSurvives, Searching
<1>5. RunsAreStored'
  BY <1>0 DEF RunsAreStored, Searching
<1> QED BY <1>1, <1>2, <1>3, <1>4, <1>5 DEF QueryInv

\* The run gets its result and waits for its commit.
LEMMA EndStep ==
    ASSUME QueryInv, phase' = "commit", NoLanes,
           UNCHANGED <<request, variant, expired, stored>>,
           transaction' \in {"open", "aborted"},
           run' \in Ended, \A c \in run'.sources : InScope(c),
           run'.status = "failed" => failures' \cap Critical # {}
    PROVE  QueryInv'
<1>0. TypeOK /\ ScopeOK /\ RunsAreStored
  BY DEF QueryInv
<1>1. TypeOK'
  BY <1>0 DEF TypeOK, Phases, NoLanes, Lane, Ended
<1>2. ScopeOK'
  BY <1>0 DEF ScopeOK, ScopePreserved, InScope, NoLanes, Lane
<1>3. (FailureOK /\ EndedOK /\ OnlyCriticalFailuresFail /\ DirectEvidenceSurvives)'
  BY DEF FailureOK, EndedOK, OnlyCriticalFailuresFail, DirectEvidenceSurvives, Ended, Critical
<1>4. RunsAreStored'
  BY <1>0 DEF RunsAreStored
<1> QED BY <1>1, <1>2, <1>3, <1>4 DEF QueryInv

\* The run is in the database as it ended.
LEMMA StoreStep ==
    ASSUME QueryInv, phase \in {"commit", "recover"}, NEW unreadable \in BOOLEAN,
           Stores(run, unreadable)
    PROVE  QueryInv'
<1>0. TypeOK /\ ScopeOK /\ RunsAreStored /\ EndedOK
  BY DEF QueryInv
<1>1. /\ stored' = [stored EXCEPT ![variant] = run]
      /\ UNCHANGED <<request, laneVars, run, failures>>
      /\ transaction' = "open" /\ expired' = (expired \/ unreadable)
      /\ \/ variant < NumVariants /\ variant' = variant + 1 /\ phase' = "start"
         \/ variant = NumVariants /\ variant' = variant /\ phase' \in {"raised", "done"}
  <2>1. variant \in 1 .. NumVariants /\ NumVariants \in Nat
    BY <1>0, QueryAssumption DEF TypeOK
  <2>2. variant < NumVariants \/ variant = NumVariants
    BY <2>1
  <2> QED BY <2>2 DEF Stores, Goes
<1>2. run \in Ended /\ variant \in 1 .. NumVariants /\ NumVariants \in Nat
  BY <1>0, QueryAssumption DEF TypeOK, EndedOK, Ended
<1>3. TypeOK'
  <2>1. expired' \in BOOLEAN
    BY <1>0, <1>1 DEF TypeOK
  <2>2. stored' \in [1 .. NumVariants -> Results] /\ variant' \in 1 .. NumVariants
    BY <1>0, <1>1, <1>2 DEF TypeOK
  <2> QED BY <1>0, <1>1, <2>1, <2>2 DEF TypeOK, Phases, laneVars
<1>4. ScopeOK'
  BY <1>0, <1>1, <1>2 DEF ScopeOK, ScopePreserved, InScope, laneVars, TypeOK
<1>5. (FailureOK /\ EndedOK /\ OnlyCriticalFailuresFail /\ DirectEvidenceSurvives)'
  BY <1>1 DEF FailureOK, EndedOK, OnlyCriticalFailuresFail, DirectEvidenceSurvives
<1>6. RunsAreStored'
  <2>1. \A i \in 1 .. NumVariants : stored'[i] = IF i = variant THEN run ELSE stored[i]
    BY <1>0, <1>1 DEF TypeOK
  <2>2. \A i \in 1 .. variant - 1 : i \in 1 .. NumVariants /\ i # variant
    BY <1>2
  <2>3. \A i \in 1 .. variant : stored'[i].status \in {"succeeded", "failed"}
    BY <1>0, <1>2, <2>1, <2>2 DEF RunsAreStored, Ended
  <2> QED BY <1>1, <1>2, <2>1, <2>3 DEF RunsAreStored
<1> QED BY <1>3, <1>4, <1>5, <1>6 DEF QueryInv

-----------------------------------------------------------------------------
(* The actions *)

LEMMA StartStep ==
    ASSUME QueryInv, Blocked \/ StartVariant PROVE QueryInv'
<1>0. /\ TypeOK /\ ScopeOK /\ RunsAreStored /\ phase = "start"
      /\ UNCHANGED <<request, variant, transaction, expired, laneVars>>
  BY DEF QueryInv, Blocked, StartVariant
<1>1. CASE Blocked
  <2>1. /\ stored' = [i \in 1 .. NumVariants |-> Failed("health")] /\ phase' = "done"
        /\ UNCHANGED <<run, failures>>
    BY <1>1 DEF Blocked, Goes
  <2>2. Failed("health") \in Ended /\ Failed("health").sources = {}
    BY DEF Failed, Run, Ended, Results
  <2>3. TypeOK'
    BY <1>0, <2>1, <2>2 DEF TypeOK, Phases, laneVars, Ended
  <2>4. ScopeOK'
    BY <1>0, <2>1, <2>2 DEF ScopeOK, ScopePreserved, InScope, laneVars
  <2>5. (FailureOK /\ EndedOK /\ OnlyCriticalFailuresFail /\ DirectEvidenceSurvives)'
    BY <2>1 DEF FailureOK, EndedOK, OnlyCriticalFailuresFail, DirectEvidenceSurvives
  <2>6. RunsAreStored'
    <3>1. \A i \in 1 .. NumVariants : stored'[i].status \in {"succeeded", "failed"}
      BY <2>1, <2>2 DEF Ended
    <3>2. \A i \in 1 .. variant - 1 : i \in 1 .. NumVariants
      BY <1>0, QueryAssumption DEF TypeOK
    <3> QED BY <1>0, <2>1, <3>1, <3>2 DEF RunsAreStored
  <2> QED BY <2>3, <2>4, <2>5, <2>6 DEF QueryInv
<1>2. CASE StartVariant
  <2>1. /\ UNCHANGED stored
        /\ \/ phase' = "raised" /\ UNCHANGED <<run, failures>>
           \/ phase' = "plan" /\ run' = Running
           \/ phase' = "commit" /\ run' = Failed("build") /\ failures' = {"build"}
    BY <1>2 DEF StartVariant, Goes
  <2>2. /\ Running \in Results /\ Running.sources = {}
        /\ Failed("build") \in Ended /\ Failed("build").sources = {}
    BY DEF Running, Failed, Run, Ended, Results
  <2>3. TypeOK'
    BY <1>0, <2>1, <2>2 DEF TypeOK, Phases, laneVars, Ended
  <2>4. ScopeOK'
    BY <1>0, <2>1, <2>2 DEF ScopeOK, ScopePreserved, InScope, laneVars
  <2>5. (FailureOK /\ EndedOK /\ OnlyCriticalFailuresFail /\ DirectEvidenceSurvives)'
    BY <2>1, <2>2 DEF FailureOK, EndedOK, OnlyCriticalFailuresFail,
                      DirectEvidenceSurvives, Ended, Critical
  <2>6. RunsAreStored'
    BY <1>0, <2>1 DEF RunsAreStored
  <2> QED BY <2>3, <2>4, <2>5, <2>6 DEF QueryInv
<1> QED BY <1>1, <1>2

\* A statement on the session leaves a transaction open or aborted.
LEMMA SessionType ==
    ASSUME TypeOK, Succeeds \/ FailsOnSession PROVE transaction' \in {"open", "aborted"}
BY DEF TypeOK, Succeeds, FailsOnSession

LEMMA EndsInErrorStep ==
    ASSUME QueryInv, NEW what \in Critical \cap {"hypothesis", "model", "model_timeout"},
           EndsInError(what), UNCHANGED <<request, variant, expired, stored>>,
           transaction' \in {"open", "aborted"}
    PROVE  QueryInv'
<1>1. /\ phase' = "commit" /\ NoLanes /\ run' = Failed(what)
      /\ failures' = failures \cup {what}
  BY DEF EndsInError, Fails, Goes
<1>2. run' \in Ended /\ run'.sources = {}
  BY <1>1 DEF Failed, Run, Ended, Results
<1> QED BY <1>1, <1>2, EndStep

LEMMA PlanStep ==
    ASSUME QueryInv, Plan PROVE QueryInv'
<1>0. TypeOK /\ ScopeOK
  BY DEF QueryInv
<1>1. /\ phase = "plan" /\ UNCHANGED <<request, variant, expired, stored>>
      /\ transaction' \in {"open", "aborted"}
  BY <1>0, SessionType DEF Plan, LooksUpMetadata
<1>2. CASE HypothesisRequired /\ EndsInError("hypothesis")
  <2>1. "hypothesis" \in Critical
    BY <1>2 DEF Critical, HypothesisRequired
  <2> QED BY <1>1, <1>2, <2>1, EndsInErrorStep
<1>3. CASE LanesStart /\ phase' = "retrieve" /\ UNCHANGED <<run, related, fused, evidence>>
  <2>1. PICK lanes :
          /\ native' = Lane(IF "raganything_runtime" \in lanes THEN "running" ELSE "off", {})
          /\ graph' = Lane(IF "graph" \in lanes THEN "running" ELSE "off", {})
          /\ metadata' = Lane("running", {})
    BY <1>3 DEF LanesStart
  <2>2. /\ native'.state \in {"running", "off"} /\ native'.found = {}
        /\ graph'.state \in {"running", "off"} /\ graph'.found = {}
        /\ metadata'.state = "running" /\ metadata'.found = {}
    BY <2>1 DEF Lane
  <2>3. related' \subseteq ScopedChunks
    BY <1>0, <1>3 DEF TypeOK, ScopeOK, ScopedChunks
  <2> QED BY <1>1, <1>3, <2>2, <2>3, LaneStep DEF Searching
<1> QED BY <1>2, <1>3 DEF Plan, Goes

\* The types of the lanes that a step keeps.
LEMMA LanesKept ==
    ASSUME TypeOK, ScopeOK
    PROVE  /\ {native.state, metadata.state, graph.state}
                  \subseteq {"off", "running", "ok", "failed"}
           /\ native.found \subseteq InScopeRows /\ metadata.found \subseteq ScopedChunks
           /\ graph.found \subseteq Chunks /\ related \subseteq ScopedChunks
BY DEF TypeOK, ScopeOK, InScopeRows, ScopedChunks

LEMMA NativeStep ==
    ASSUME QueryInv, NativeAnswers \/ NativeTimesOut PROVE QueryInv'
<1>0. TypeOK /\ ScopeOK /\ FailureOK
  BY DEF QueryInv
<1>1. /\ phase = "retrieve"
      /\ UNCHANGED <<request, variant, phase, transaction, expired, metadata, related, graph,
                     fused, evidence, run, failures, stored>>
      /\ \/ native' = Lane("failed", {})
         \/ \E rows \in SUBSET InScopeRows : native' = Lane("ok", rows)
  BY DEF NativeAnswers, NativeTimesOut, NativeGives, Waits, InScopeRows
<1>2. native'.state \in {"ok", "failed"} /\ native'.found \subseteq InScopeRows
  BY <1>1 DEF Lane
<1>3. transaction' \in {"open", "aborted"}
  BY <1>0, <1>1 DEF TypeOK
<1> QED BY <1>0, <1>1, <1>2, <1>3, LanesKept, LaneStep DEF Searching, FailureOK

LEMMA MetadataStep ==
    ASSUME QueryInv, MetadataAnswers \/ MetadataTimesOut PROVE QueryInv'
<1>0. TypeOK /\ ScopeOK
  BY DEF QueryInv
<1>1. /\ phase = "retrieve"
      /\ UNCHANGED <<request, variant, phase, expired, native, related, graph, fused,
                     evidence, run, stored>>
      /\ \/ /\ \E found \in SUBSET ScopedChunks : metadata' = Lane("ok", found)
            /\ UNCHANGED transaction
         \/ /\ metadata' = Lane("failed", {})
            /\ failures' \cap {"metadata", "metadata_timeout"} # {}
            /\ FailsOnSession
  BY DEF MetadataAnswers, MetadataTimesOut, MetadataTurn, Waits, Fails
<1>2. /\ metadata'.state \in {"ok", "failed"} /\ metadata'.found \subseteq ScopedChunks
      /\ metadata'.state = "failed" => failures' \cap Critical # {}
  BY <1>1 DEF Lane, Critical
<1>3. transaction' \in {"open", "aborted"}
  BY <1>0, <1>1, SessionType DEF TypeOK
<1> QED BY <1>0, <1>1, <1>2, <1>3, LanesKept, LaneStep DEF Searching

LEMMA ResolveStep ==
    ASSUME QueryInv, Resolve PROVE QueryInv'
<1>0. TypeOK /\ ScopeOK /\ FailureOK
  BY DEF QueryInv
<1>1. /\ phase = "retrieve"
      /\ UNCHANGED <<request, variant, transaction, expired, failures, stored>>
  BY DEF Resolve, RetrievalEnded
<1>2. transaction' \in {"open", "aborted"}
  BY <1>0, <1>1 DEF TypeOK
<1>3. CASE /\ metadata.state = "failed" /\ phase' = "commit"
           /\ run' = Failed("retrieval") /\ NoLanes
  <2>1. run' \in Ended /\ run'.sources = {}
    BY <1>3 DEF Failed, Run, Ended, Results
  <2>2. failures' \cap Critical # {}
    BY <1>0, <1>1, <1>3 DEF FailureOK
  <2> QED BY <1>1, <1>2, <1>3, <2>1, <2>2, EndStep
<1>4. CASE phase' = "layout" /\ UNCHANGED <<run, laneVars>>
  BY <1>0, <1>1, <1>2, <1>4, LanesKept, LaneStep DEF Searching, laneVars
<1> QED BY <1>3, <1>4 DEF Resolve, Goes

\* A lane that only adds candidates.
LEMMA OptionalStep ==
    ASSUME TypeOK, ScopeOK, NEW chunks \in SUBSET ScopedChunks,
           OptionalLane(chunks) \/ UNCHANGED <<related, transaction>>
    PROVE  related' \subseteq ScopedChunks /\ transaction' \in {"open", "aborted"}
<1>1. related \subseteq ScopedChunks /\ transaction \in {"open", "aborted"}
  BY DEF TypeOK, ScopeOK, ScopedChunks
<1> QED BY <1>1, SessionType DEF OptionalLane

LEMMA NeighborsStep ==
    ASSUME QueryInv, LayoutNeighbors \/ ContextNeighbors PROVE QueryInv'
<1>0. TypeOK /\ ScopeOK
  BY DEF QueryInv
<1>1. /\ phase \in Searching /\ phase' \in Searching \ {"retrieve"} /\ UNCHANGED graph
      /\ UNCHANGED <<request, variant, expired, native, metadata, fused, evidence, run,
                     failures, stored>>
  BY DEF LayoutNeighbors, ContextNeighbors, LaneUnchanged, Goes, Searching
<1>2. PICK chunks \in SUBSET ScopedChunks :
          OptionalLane(chunks) \/ UNCHANGED <<related, transaction>>
  <2>1. CASE request.documents = {}
    <3> DEFINE own == {c \in Chunks : DocOf[c] \in {DocOf[s] : s \in metadata.found}}
    <3>1. own \in SUBSET ScopedChunks
      BY <2>1 DEF ScopedChunks, InScope
    <3>2. OptionalLane(own) \/ UNCHANGED <<related, transaction>>
      BY <2>1 DEF LayoutNeighbors, ContextNeighbors
    <3> HIDE DEF own
    <3> QED BY <3>1, <3>2
  <2>2. CASE request.documents # {}
    <3>1. OptionalLane(ScopedChunks) \/ UNCHANGED <<related, transaction>>
      BY <2>2 DEF LayoutNeighbors, ContextNeighbors
    <3> QED BY <3>1
  <2> QED BY <2>1, <2>2
<1>3. related' \subseteq ScopedChunks /\ transaction' \in {"open", "aborted"}
  BY <1>0, <1>2, OptionalStep
<1> QED BY <1>0, <1>1, <1>3, LanesKept, LaneStep DEF Searching

LEMMA ExpandGraphStep ==
    ASSUME QueryInv, ExpandGraph PROVE QueryInv'
<1>0. TypeOK /\ ScopeOK
  BY DEF QueryInv
<1>1. /\ phase = "graph" /\ phase' = "hydrate"
      /\ UNCHANGED <<request, variant, expired, native, metadata, fused, evidence, run,
                     failures, stored, related, transaction>>
      /\ \/ graph' \in {Lane("off", {}), Lane("failed", {})}
         \/ \E named \in SUBSET Chunks : graph' = Lane("ok", named)
  BY DEF ExpandGraph, LaneUnchanged, Goes, Expansions
<1>2. graph'.state \in {"off", "failed", "ok"} /\ graph'.found \subseteq Chunks
  BY <1>1 DEF Lane
<1>3. transaction' \in {"open", "aborted"}
  BY <1>0, <1>1 DEF TypeOK
<1> QED BY <1>0, <1>1, <1>2, <1>3, LanesKept, LaneStep DEF Searching

LEMMA HydrateStep ==
    ASSUME QueryInv, Hydrate PROVE QueryInv'
<1>0. TypeOK /\ ScopeOK
  BY DEF QueryInv
<1>1. /\ phase = "hydrate" /\ phase' = "assemble" /\ graph' = Lane("off", {})
      /\ UNCHANGED <<request, variant, expired, native, metadata, fused, evidence, run,
                     failures, stored>>
      /\ \/ UNCHANGED <<related, transaction>>
         \/ OptionalLane({c \in graph.found : InScope(c)})
  BY DEF Hydrate, LaneUnchanged, Goes
<1>2. {c \in graph.found : InScope(c)} \in SUBSET ScopedChunks
  BY <1>0 DEF TypeOK, ScopedChunks
<1>3. related' \subseteq ScopedChunks /\ transaction' \in {"open", "aborted"}
  BY <1>0, <1>1, <1>2, OptionalStep
<1>4. graph'.state = "off" /\ graph'.found = {}
  BY <1>1 DEF Lane
<1> QED BY <1>0, <1>1, <1>3, <1>4, LanesKept, LaneStep DEF Searching

LEMMA AssembleStep ==
    ASSUME QueryInv, Assemble PROVE QueryInv'
<1>0. TypeOK /\ ScopeOK /\ RunsAreStored
  BY DEF QueryInv
<1>1. /\ phase = "assemble" /\ phase' = "answer"
      /\ native' = Lane("off", {}) /\ related' = {}
      /\ UNCHANGED <<request, variant, expired, metadata, graph, run, failures, stored>>
  BY DEF Assemble, Goes
<1>2. transaction' \in {"open", "aborted"}
  BY <1>0, SessionType DEF Assemble, TypeOK
<1>3. PICK F \in Fusions, order \in Rerankings : \E D \in Diverse(F, order) :
          \E K \in Contexts(D) : \E E \in Evidences(D, K) : fused' = F /\ evidence' = E
  BY DEF Assemble
<1>4. /\ fused' \subseteq native.found \cup metadata.found \cup related
      /\ evidence' \subseteq fused'
      /\ \A c \in Direct(metadata.found) \ Withheld :
            \/ c \in evidence'
            \/ evidence' # {} /\ \A e \in evidence' : FusionPriority(e) >= FusionPriority(c)
  BY <1>0, <1>3, SelectionKeepsDirect
<1>5. native'.state = "off" /\ native'.found = {}
  BY <1>1 DEF Lane
<1>6. TypeOK'
  BY <1>0, <1>1, <1>2, <1>4, <1>5 DEF TypeOK, Phases, Candidates
<1>7. ScopeOK'
  BY <1>0, <1>1, <1>4, <1>5 DEF ScopeOK, ScopePreserved, InScope
<1>8. (FailureOK /\ EndedOK /\ OnlyCriticalFailuresFail)'
  BY <1>1 DEF FailureOK, EndedOK, OnlyCriticalFailuresFail
<1>9. DirectEvidenceSurvives'
  BY <1>1, <1>4 DEF DirectEvidenceSurvives, Direct, FusionPriority, ExactnessOf
<1>10. RunsAreStored'
  BY <1>0, <1>1 DEF RunsAreStored
<1> QED BY <1>6, <1>7, <1>8, <1>9, <1>10 DEF QueryInv

\* An answer quotes the evidence it was given.
LEMMA AnsweredStep ==
    ASSUME QueryInv, NEW by \in {"evidence", "no_evidence", "model"}, Answered(by),
           UNCHANGED <<request, variant, transaction, expired, stored>>
    PROVE  QueryInv'
<1>0. TypeOK /\ ScopeOK
  BY DEF QueryInv
<1>1. phase' = "commit" /\ NoLanes /\ run' = Run("succeeded", "none", by, evidence)
  BY DEF Answered, Goes
<1>2. run' \in Ended /\ run'.status = "succeeded" /\ run'.sources = evidence
  BY <1>0, <1>1 DEF Run, Ended, Results, TypeOK
<1>3. \A c \in run'.sources : InScope(c)
  BY <1>0, <1>2 DEF TypeOK, ScopeOK
<1>4. transaction' \in {"open", "aborted"}
  BY <1>0 DEF TypeOK
<1> QED BY <1>1, <1>2, <1>3, <1>4, EndStep

LEMMA ConcludeStep ==
    ASSUME QueryInv, Conclude PROVE QueryInv'
<1>0. /\ UNCHANGED <<request, variant, transaction, expired, stored>>
      /\ transaction' \in {"open", "aborted"}
  BY DEF Conclude, Answer, AnswerTimesOut, AnswerFails, AnswerUnchanged, QueryInv, TypeOK
<1>1. CASE \E by \in {"evidence", "no_evidence", "model"} : Answered(by)
  BY <1>0, <1>1, AnsweredStep
<1>2. CASE request.mode # "fast" /\ EndsInError("model_timeout")
  <2>1. "model_timeout" \in Critical
    BY <1>2 DEF Critical, QueryInv, ScopeOK
  <2> QED BY <1>0, <1>2, <2>1, EndsInErrorStep
<1>3. CASE EndsInError("model")
  BY <1>0, <1>3, EndsInErrorStep DEF Critical
<1> QED BY <1>1, <1>2, <1>3 DEF Conclude, Answer, FromEvidence, AnswerTimesOut, AnswerFails

LEMMA StoringStep ==
    ASSUME QueryInv, Store PROVE QueryInv'
<1>0. TypeOK /\ ScopeOK /\ EndedOK /\ RunsAreStored
  BY DEF QueryInv
<1>1. CASE Commit \/ Recover
  BY <1>1, StoreStep DEF Commit, Recover
<1>2. CASE CommitFails \/ RecoverFails
  <2>1. /\ \/ phase' = "recover" /\ phase = "commit"
           \/ phase' = "raised"
        /\ transaction' \in {"open", "aborted"}
        /\ UNCHANGED <<request, variant, expired, laneVars, run, stored>>
    BY <1>0, <1>2 DEF CommitFails, RecoverFails, Goes, TypeOK
  <2>2. TypeOK'
    BY <1>0, <2>1 DEF TypeOK, Phases, laneVars
  <2>3. ScopeOK'
    BY <1>0, <2>1 DEF ScopeOK, ScopePreserved, InScope, laneVars
  <2>4. (FailureOK /\ EndedOK /\ OnlyCriticalFailuresFail /\ DirectEvidenceSurvives)'
    BY <1>0, <2>1 DEF FailureOK, EndedOK, OnlyCriticalFailuresFail, DirectEvidenceSurvives
  <2>5. RunsAreStored'
    BY <1>0, <2>1 DEF RunsAreStored
  <2> QED BY <2>2, <2>3, <2>4, <2>5 DEF QueryInv
<1> QED BY <1>1, <1>2 DEF Store

-----------------------------------------------------------------------------
(* The theorems *)

LEMMA InitInvariant == Init => QueryInv
<1> SUFFICES ASSUME Init PROVE QueryInv
  OBVIOUS
<1>1. /\ variant = 1 /\ phase = "start" /\ transaction = "open" /\ expired \in BOOLEAN
      /\ request.mode \in {"fast", "full"}
      /\ native.state = "off" /\ metadata.state = "off" /\ graph.state = "off"
      /\ native.found = {} /\ metadata.found = {} /\ graph.found = {}
      /\ related = {} /\ fused = {} /\ evidence = {}
      /\ run = NotStored /\ stored = [i \in 1 .. NumVariants |-> NotStored]
  BY DEF Init, Lane
<1>2. NotStored \in Results /\ NotStored.sources = {}
  BY DEF NotStored, Run, Results
<1>3. TypeOK
  <2>1. stored \in [1 .. NumVariants -> Results] /\ run \in Results
    BY <1>1, <1>2
  <2>2. variant \in 1 .. NumVariants
    BY <1>1, QueryAssumption
  <2> QED BY <1>1, <2>1, <2>2 DEF TypeOK, Phases
<1>4. ScopeOK
  BY <1>1, <1>2 DEF ScopeOK, ScopePreserved
<1>5. FailureOK /\ EndedOK /\ OnlyCriticalFailuresFail /\ DirectEvidenceSurvives
  BY <1>1 DEF FailureOK, EndedOK, OnlyCriticalFailuresFail, DirectEvidenceSurvives
<1>6. RunsAreStored
  BY <1>1 DEF RunsAreStored
<1> QED BY <1>3, <1>4, <1>5, <1>6 DEF QueryInv

LEMMA NextInvariant == QueryInv /\ [Next]_vars => QueryInv'
<1> SUFFICES ASSUME QueryInv, [Next]_vars PROVE QueryInv'
  OBVIOUS
<1>1. CASE Blocked \/ StartVariant \/ Plan
  BY <1>1, StartStep, PlanStep
<1>2. CASE Retrieve
  BY <1>2, NativeStep, MetadataStep, ResolveStep DEF Retrieve
<1>3. CASE Expand
  BY <1>3, NeighborsStep, ExpandGraphStep, HydrateStep, AssembleStep DEF Expand
<1>4. CASE Conclude
  BY <1>4, ConcludeStep
<1>5. CASE Store
  BY <1>5, StoringStep
<1>6. CASE Stopped \/ UNCHANGED vars
  <2>1. UNCHANGED vars
    BY <1>6 DEF Stopped
  <2> QED BY <2>1 DEF QueryInv, vars, TypeOK, ScopeOK, ScopePreserved, InScope, FailureOK,
                      Critical, EndedOK, OnlyCriticalFailuresFail, DirectEvidenceSurvives,
                      Direct, FusionPriority, ExactnessOf, RunsAreStored
<1> QED BY <1>1, <1>2, <1>3, <1>4, <1>5, <1>6 DEF Next

LEMMA QueryInvariant == Spec => []QueryInv
BY InitInvariant, NextInvariant, PTL DEF Spec

\* The types of the variables, for any chunks, rows, variants and limits.
THEOREM QueryRunType == Spec => []TypeOK
<1>1. QueryInv => TypeOK
  BY DEF QueryInv
<1> QED BY <1>1, QueryInvariant, PTL

\* run_query: no source of a stored run is of a document the request did not select,
\* although the graph names chunks of the whole workspace.
THEOREM SourcesInScope == Spec => []ScopePreserved
<1>1. QueryInv => ScopePreserved
  BY DEF QueryInv, ScopeOK
<1> QED BY <1>1, QueryInvariant, PTL

\* RetrievalOrchestrator.query: a run fails only for what it cannot do without.
THEOREM OptionalLanesDoNotFail == Spec => []OnlyCriticalFailuresFail
<1>1. QueryInv => OnlyCriticalFailuresFail
  BY DEF QueryInv
<1> QED BY <1>1, QueryInvariant, PTL

\* fuse, select_diverse_candidates, assemble and the cut to the limit: direct evidence
\* of the metadata lane that _policy_drop_reason does not drop gives way only to
\* evidence that is matched at least as well.
THEOREM DirectEvidenceReachesAnswer == Spec => []DirectEvidenceSurvives
<1>1. QueryInv => DirectEvidenceSurvives
  BY DEF QueryInv
<1> QED BY <1>1, QueryInvariant, PTL

\* _commit_query_run: every variant that was run is in the database as it ended,
\* also when its transaction was aborted under it.
THEOREM VariantsAreStored == Spec => []RunsAreStored
<1>1. QueryInv => RunsAreStored
  BY DEF QueryInv
<1> QED BY <1>1, QueryInvariant, PTL

-----------------------------------------------------------------------------
(* The native storage under a query, for any tasks, environment variables and
   settings *)

\* The places of a task that holds the lock.
Holding == {"setting", "inside", "scoped", "restoring", "leaving"}

\* Exactly the owner of the lock is in the context.
OwnerHolds == \A t \in Tasks : pc[t] \in Holding <=> lock = t

\* What a task that is in the context has done to the environment so far:
\* the saved copy is the environment of the process, the keys no longer to be
\* written are written, the keys no longer to be restored are restored.
Progress(t) ==
    /\ previous[t] = env0
    /\ pc[t] = "setting" => \A k \in Keys \ todo[t] : env[k] = Settings[t][k]
    /\ pc[t] \in {"inside", "scoped"} => env = Settings[t]
    /\ pc[t] = "restoring" => \A k \in Keys \ todo[t] : env[k] = env0[k]
    /\ pc[t] = "leaving" => env = env0

StorageInv ==
    /\ StorageTypeOK
    /\ OwnerHolds
    /\ SettingsRestored
    /\ \A t \in Tasks : lock = t => Progress(t)

-----------------------------------------------------------------------------
\* Environments that agree on every key are equal.
LEMMA SameEnvironment ==
    ASSUME NEW e \in Environments, NEW f \in Environments,
           \A k \in Keys : e[k] = f[k]
    PROVE  e = f
BY DEF Environments

\* The settings of a task are an environment.
LEMMA SettingsType == \A t \in Tasks : Settings[t] \in Environments
BY StorageAssumption DEF Environments

\* The results the actions assign have the type of a result.
LEMMA ResultTypes ==
    ASSUME NEW o \in Outcomes, NEW sources \in SUBSET Docs, NEW text \in SUBSET Docs
    PROVE  Result(o, sources, text) \in
             [outcome : Outcomes, sources : SUBSET Docs, text : SUBSET Docs]
BY DEF Result

LEMMA StorageInitially == StorageInit => StorageInv
<1> SUFFICES ASSUME StorageInit PROVE StorageInv
  OBVIOUS
<1>1. StorageTypeOK
  BY ResultTypes DEF StorageInit, StorageTypeOK, NoResult, PCs, Outcomes, Environments
<1>2. OwnerHolds
  BY StorageAssumption DEF StorageInit, OwnerHolds, Holding
<1>3. SettingsRestored /\ \A t \in Tasks : lock = t => Progress(t)
  BY StorageAssumption DEF StorageInit, SettingsRestored
<1> QED BY <1>1, <1>2, <1>3 DEF StorageInv

-----------------------------------------------------------------------------
\* Every step keeps the types.
LEMMA StepType == StorageTypeOK /\ [StorageNext]_storageVars => StorageTypeOK'
<1> SUFFICES ASSUME StorageTypeOK, [StorageNext]_storageVars PROVE StorageTypeOK'
  OBVIOUS
<1> USE DEF StorageTypeOK
<1>1. ASSUME NEW t \in Tasks, Acquire(t) PROVE StorageTypeOK'
  BY <1>1 DEF Acquire, PCs, queryVars
<1>2. ASSUME NEW t \in Tasks, WriteKey(t) PROVE StorageTypeOK'
  BY <1>2, SettingsType DEF WriteKey, PCs, queryVars, Environments
<1>3. ASSUME NEW t \in Tasks, RestoreKey(t) PROVE StorageTypeOK'
  BY <1>3 DEF RestoreKey, PCs, queryVars, Environments
<1>4. ASSUME NEW t \in Tasks, Release(t) PROVE StorageTypeOK'
  BY <1>4 DEF Release, PCs
<1>5. ASSUME NEW t \in Tasks, Leave(t)
      PROVE  /\ pc' \in [Tasks -> PCs] /\ todo' \in [Tasks -> SUBSET Keys]
             /\ UNCHANGED <<env, env0, lock, previous>>
  BY <1>5 DEF Leave, PCs
<1>6. ASSUME NEW t \in Tasks, EndWork(t) PROVE StorageTypeOK'
  BY <1>5, <1>6 DEF EndWork, queryVars
<1>7. ASSUME NEW q \in Queries, Query(q) PROVE StorageTypeOK'
  <2>0. q \in Tasks
    BY <1>7 DEF Tasks
  <2> DEFINE Outs == [outcome : Outcomes, sources : SUBSET Docs, text : SUBSET Docs]
  <2>1. ASSUME NEW r \in Outs, Answers(q, r) PROVE result' \in [Queries -> Outs]
    BY <2>1 DEF Answers
  <2>2. /\ \A o \in {"failed", "unsupported", "filter_failed", "timeout"} :
             Result(o, {}, {}) \in Outs
        /\ \A s, x \in SUBSET Docs : Result("answered", s, x) \in Outs
    BY DEF Outcomes, Result
  <2>3. CASE Refuse(q)
    <3>1. result' \in [Queries -> Outs]
      BY <2>1, <2>2, <2>3 DEF Refuse
    <3> QED BY <2>0, <2>3, <3>1, <1>5 DEF Refuse
  <2>4. CASE PreflightOk(q)
    BY <2>0, <2>4, <1>5 DEF PreflightOk, queryVars
  <2>5. CASE EnterScope(q)
    BY <2>0, <2>5 DEF EnterScope, envVars, PCs
  <2>6. ASSUME NEW rows \in SUBSET Docs
        PROVE  StoreRows(q, rows) \in SUBSET Docs /\ Texts(q, rows) \subseteq SUBSET Docs
    BY DEF StoreRows, Texts
  <2>7. CASE AnswerScoped(q)
    <3>1. result' \in [Queries -> Outs]
      <4>1. ASSUME NEW rows \in SUBSET Docs, NEW text \in Texts(q, rows)
            PROVE  Result("answered", StoreRows(q, rows), text) \in Outs
        BY <2>2, <2>6
      <4>2. \E r \in Outs : Answers(q, r)
        BY <4>1, <2>2, <2>7 DEF AnswerScoped
      <4> QED BY <4>2, <2>1
    <3>2. cached' \subseteq SUBSET Docs
      BY <2>6, <2>7 DEF AnswerScoped, Remembered
    <3> QED BY <2>0, <2>7, <3>1, <3>2, <1>5 DEF AnswerScoped
  <2>8. CASE AnswerUnscoped(q)
    <3>1. result' \in [Queries -> Outs]
      BY <2>1, <2>2, <2>6, <2>8 DEF AnswerUnscoped
    <3>2. cached' \subseteq SUBSET Docs
      BY <2>6, <2>8 DEF AnswerUnscoped, Remembered
    <3> QED BY <2>0, <2>8, <3>1, <3>2, <1>5 DEF AnswerUnscoped
  <2>9. CASE TimeOut(q)
    <3>1. pc' \in [Tasks -> PCs] /\ todo' \in [Tasks -> SUBSET Keys]
          /\ UNCHANGED <<env, env0, lock, previous>>
      BY <2>0, <2>9, <1>5 DEF TimeOut, envVars, PCs
    <3>2. result' \in [Queries -> Outs]
      BY <2>1, <2>2, <2>9 DEF TimeOut
    <3> QED BY <2>0, <2>9, <3>1, <3>2 DEF TimeOut
  <2> QED BY <1>7, <2>3, <2>4, <2>5, <2>7, <2>8, <2>9 DEF Query
<1>8. CASE UNCHANGED storageVars
  BY <1>8 DEF storageVars
<1> QED BY <1>1, <1>2, <1>3, <1>4, <1>6, <1>7, <1>8 DEF StorageNext, Context, Quiet

-----------------------------------------------------------------------------
\* The two ways the body of a context moves without touching the environment:
\* to another place of the body, and to the finally.
Moves(t) ==
    /\ pc[t] = "inside" /\ pc' = [pc EXCEPT ![t] = "scoped"]
    /\ UNCHANGED <<env, env0, lock, previous, todo>>
Leaves(t) == pc[t] \in {"inside", "scoped"} /\ Leave(t)

\* A query that is still waiting gives up.
GivesUp(t) ==
    /\ pc[t] = "waiting" /\ pc' = [pc EXCEPT ![t] = "ended"]
    /\ UNCHANGED <<env, env0, lock, previous, todo>>

\* Seen from the lock and the environment, a step is one of these.
LEMMA StepsOfContext ==
    ASSUME StorageNext
    PROVE  \/ UNCHANGED <<env, env0, lock, previous, todo, pc>>
           \/ \E t \in Tasks : \/ Acquire(t) \/ WriteKey(t) \/ RestoreKey(t) \/ Release(t)
                               \/ Moves(t) \/ Leaves(t) \/ GivesUp(t)
<1>1. ASSUME NEW t \in Tasks, EndWork(t) PROVE Leaves(t)
  BY <1>1 DEF EndWork, Leaves
<1>2. ASSUME NEW q \in Queries, Query(q)
      PROVE  q \in Tasks /\ (Moves(q) \/ Leaves(q) \/ GivesUp(q))
  <2>0. q \in Tasks
    BY <1>2 DEF Tasks
  <2>1. CASE Refuse(q)
    BY <2>1, <2>0 DEF Refuse, Leaves
  <2>2. CASE PreflightOk(q)
    BY <2>2, <2>0 DEF PreflightOk, Leaves
  <2>3. CASE EnterScope(q)
    BY <2>3, <2>0 DEF EnterScope, Moves, envVars
  <2>4. CASE AnswerScoped(q)
    BY <2>4, <2>0 DEF AnswerScoped, Leaves
  <2>5. CASE AnswerUnscoped(q)
    BY <2>5, <2>0 DEF AnswerUnscoped, Leaves
  <2>6. CASE TimeOut(q)
    BY <2>6, <2>0 DEF TimeOut, Leaves, GivesUp, envVars
  <2> QED BY <1>2, <2>1, <2>2, <2>3, <2>4, <2>5, <2>6 DEF Query
<1> QED BY <1>1, <1>2 DEF StorageNext, Context, Quiet, storageVars

\* Every step keeps the invariant.
LEMMA StorageStep == StorageInv /\ [StorageNext]_storageVars => StorageInv'
<1> SUFFICES ASSUME StorageInv, [StorageNext]_storageVars PROVE StorageInv'
  OBVIOUS
<1>1. StorageTypeOK /\ StorageTypeOK'
  BY StepType DEF StorageInv
<1> DEFINE Rest == OwnerHolds /\ SettingsRestored /\ \A u \in Tasks : lock = u => Progress(u)
<1>0. Rest
  BY DEF StorageInv
<1>2. ASSUME UNCHANGED <<env, env0, lock, previous, todo, pc>> PROVE Rest'
  BY <1>0, <1>2 DEF OwnerHolds, SettingsRestored, Progress
<1>3. ASSUME NEW t \in Tasks, Acquire(t) PROVE Rest'
  <2>1. env' = env /\ env0' = env0 /\ env = env0
    BY <1>0, <1>3 DEF Acquire, SettingsRestored
  <2>2. OwnerHolds'
    BY <1>0, <1>1, <1>3, StorageAssumption DEF Acquire, OwnerHolds, Holding, StorageTypeOK
  <2>3. Progress(t)'
    BY <1>1, <1>3, <2>1 DEF Acquire, Progress, StorageTypeOK
  <2> QED BY <1>3, <2>2, <2>3, StorageAssumption DEF Acquire, SettingsRestored
<1>4. ASSUME NEW t \in Tasks, WriteKey(t) PROVE Rest'
  <2>1. lock = t /\ lock' = t /\ env0' = env0 /\ previous' = previous
    BY <1>0, <1>4 DEF WriteKey, OwnerHolds, Holding
  <2>2. PICK k \in todo[t] : /\ env' = [env EXCEPT ![k] = Settings[t][k]]
                             /\ todo' = [todo EXCEPT ![t] = @ \ {k}]
                             /\ pc' = [pc EXCEPT ![t] = IF todo[t] = {k} THEN "inside"
                                                                         ELSE "setting"]
    BY <1>4 DEF WriteKey
  <2>3. k \in Keys /\ DOMAIN env = Keys
    BY <1>1, <2>2 DEF StorageTypeOK, Environments
  <2>4. OwnerHolds'
    BY <1>0, <1>1, <1>4, <2>1, <2>2 DEF WriteKey, OwnerHolds, Holding, StorageTypeOK
  <2>5. \A j \in Keys \ todo[t] : env[j] = Settings[t][j]
    BY <1>0, <1>4, <2>1 DEF Progress, WriteKey
  <2>6. \A j \in Keys \ (todo[t] \ {k}) : env'[j] = Settings[t][j]
    BY <2>2, <2>3, <2>5
  <2>7. CASE todo[t] = {k}
    <3>1. env' = Settings[t]
      BY <1>1, <2>6, <2>7, SameEnvironment, SettingsType DEF StorageTypeOK
    <3>2. pc'[t] = "inside"
      BY <1>1, <2>2, <2>7 DEF StorageTypeOK
    <3>3. previous'[t] = env0'
      BY <1>0, <2>1 DEF Progress
    <3>4. Progress(t)'
      BY <3>1, <3>2, <3>3 DEF Progress
    <3> QED BY <2>1, <2>4, <3>4, StorageAssumption DEF SettingsRestored
  <2>8. CASE todo[t] # {k}
    <3>1. pc'[t] = "setting" /\ todo'[t] = todo[t] \ {k}
      BY <1>1, <2>2, <2>8 DEF StorageTypeOK
    <3>2. previous'[t] = env0'
      BY <1>0, <2>1 DEF Progress
    <3>3. Progress(t)'
      BY <2>6, <3>1, <3>2 DEF Progress
    <3> QED BY <2>1, <2>4, <3>3, StorageAssumption DEF SettingsRestored
  <2> QED BY <2>7, <2>8
<1>5. ASSUME NEW t \in Tasks, RestoreKey(t) PROVE Rest'
  <2>1. lock = t /\ lock' = t /\ env0' = env0 /\ previous' = previous /\ previous[t] = env0
    BY <1>0, <1>5 DEF RestoreKey, OwnerHolds, Holding, Progress
  <2>2. PICK k \in todo[t] : /\ env' = [env EXCEPT ![k] = previous[t][k]]
                             /\ todo' = [todo EXCEPT ![t] = @ \ {k}]
                             /\ pc' = [pc EXCEPT ![t] = IF todo[t] = {k} THEN "leaving"
                                                                         ELSE "restoring"]
    BY <1>5 DEF RestoreKey
  <2>3. k \in Keys /\ DOMAIN env = Keys
    BY <1>1, <2>2 DEF StorageTypeOK, Environments
  <2>4. OwnerHolds'
    BY <1>0, <1>1, <1>5, <2>1, <2>2 DEF RestoreKey, OwnerHolds, Holding, StorageTypeOK
  <2>5. \A j \in Keys \ todo[t] : env[j] = env0[j]
    BY <1>0, <1>5, <2>1 DEF Progress, RestoreKey
  <2>6. \A j \in Keys \ (todo[t] \ {k}) : env'[j] = env0[j]
    BY <2>1, <2>2, <2>3, <2>5
  <2>7. CASE todo[t] = {k}
    <3>1. env' = env0
      BY <1>1, <2>6, <2>7, SameEnvironment DEF StorageTypeOK
    <3>2. pc'[t] = "leaving"
      BY <1>1, <2>2, <2>7 DEF StorageTypeOK
    <3>3. Progress(t)'
      BY <2>1, <3>1, <3>2 DEF Progress
    <3> QED BY <2>1, <2>4, <3>3, StorageAssumption DEF SettingsRestored
  <2>8. CASE todo[t] # {k}
    <3>1. pc'[t] = "restoring" /\ todo'[t] = todo[t] \ {k}
      BY <1>1, <2>2, <2>8 DEF StorageTypeOK
    <3>2. Progress(t)'
      BY <2>1, <2>6, <3>1 DEF Progress
    <3> QED BY <2>1, <2>4, <3>2, StorageAssumption DEF SettingsRestored
  <2> QED BY <2>7, <2>8
<1>6. ASSUME NEW t \in Tasks, Release(t) PROVE Rest'
  <2>1. lock = t /\ lock' = NoTask /\ env' = env /\ env0' = env0 /\ env = env0
    BY <1>0, <1>6 DEF Release, OwnerHolds, Holding, Progress
  <2>2. pc' \in [Tasks -> PCs] /\ pc'[t] \notin Holding
        /\ \A u \in Tasks \ {t} : pc'[u] = pc[u]
    BY <1>1, <1>6 DEF Release, Holding, StorageTypeOK
  <2>3. OwnerHolds'
    BY <1>0, <2>1, <2>2, StorageAssumption DEF OwnerHolds
  <2> QED BY <2>1, <2>3, StorageAssumption DEF SettingsRestored
<1>7. ASSUME NEW t \in Tasks, Moves(t) PROVE Rest'
  <2>1. OwnerHolds'
    BY <1>0, <1>1, <1>7 DEF Moves, OwnerHolds, Holding, StorageTypeOK
  <2>2. lock = t /\ pc'[t] = "scoped" /\ env = Settings[t] /\ previous[t] = env0
    BY <1>0, <1>1, <1>7 DEF Moves, OwnerHolds, Holding, StorageTypeOK, Progress
  <2>3. Progress(t)'
    BY <1>7, <2>2 DEF Moves, Progress
  <2> QED BY <1>7, <2>1, <2>2, <2>3, StorageAssumption DEF Moves, SettingsRestored
<1>8. ASSUME NEW t \in Tasks, Leaves(t) PROVE Rest'
  <2>1. OwnerHolds'
    BY <1>0, <1>1, <1>8 DEF Leaves, Leave, OwnerHolds, Holding, StorageTypeOK
  <2>2. lock = t /\ pc'[t] = "restoring" /\ todo'[t] = Keys /\ previous[t] = env0
    BY <1>0, <1>1, <1>8 DEF Leaves, Leave, OwnerHolds, Holding, StorageTypeOK, Progress
  <2>3. Progress(t)'
    BY <1>8, <2>2 DEF Leaves, Leave, Progress
  <2> QED BY <1>8, <2>1, <2>2, <2>3, StorageAssumption DEF Leaves, Leave, SettingsRestored
<1>9. ASSUME NEW t \in Tasks, GivesUp(t) PROVE Rest'
  <2>1. lock # t
    BY <1>0, <1>9 DEF GivesUp, OwnerHolds, Holding
  <2>2. OwnerHolds'
    BY <1>0, <1>1, <1>9 DEF GivesUp, OwnerHolds, Holding, StorageTypeOK
  <2>3. \A u \in Tasks : lock = u => Progress(u)'
    BY <1>0, <1>1, <1>9, <2>1 DEF GivesUp, Progress, StorageTypeOK
  <2> QED BY <1>0, <1>9, <2>2, <2>3 DEF GivesUp, SettingsRestored
<1>10. Rest'
  BY <1>2, <1>3, <1>4, <1>5, <1>6, <1>7, <1>8, <1>9, StepsOfContext DEF storageVars
<1> QED BY <1>1, <1>10 DEF StorageInv

-----------------------------------------------------------------------------
\* Every step keeps the scope of the answers: a query answers under the proxy
\* exactly while it is in place, and then from the selected documents alone.
LEMMA StepScope ==
    StorageTypeOK /\ ProxyTakenOut /\ AnswersInScope /\ [StorageNext]_storageVars
        => (ProxyTakenOut /\ AnswersInScope)'
<1> SUFFICES ASSUME StorageTypeOK, ProxyTakenOut, AnswersInScope, [StorageNext]_storageVars
             PROVE  (ProxyTakenOut /\ AnswersInScope)'
  OBVIOUS
<1> DEFINE Scope == ProxyTakenOut /\ AnswersInScope
<1>0. Queries \subseteq Tasks /\ pc \in [Tasks -> PCs] /\ proxied \in [Queries -> BOOLEAN]
  BY DEF StorageTypeOK, Tasks
<1>1. ASSUME NEW t \in Tasks, Context(t) \/ EndWork(t) PROVE Scope'
  <2>1. proxied' = proxied /\ result' = result
    BY <1>1 DEF Context, Acquire, WriteKey, RestoreKey, Release, EndWork, queryVars
  <2>2. \A q \in Queries : pc'[q] = "scoped" <=> pc[q] = "scoped"
    BY <1>0, <1>1
       DEF Context, Acquire, WriteKey, RestoreKey, Release, EndWork, Leave
  <2> QED BY <2>1, <2>2 DEF ProxyTakenOut, AnswersInScope, Scoped
<1>2. ASSUME NEW q \in Queries, Query(q) PROVE Scope'
  <2>1. \A p \in Queries \ {q} : pc'[p] = pc[p] /\ proxied'[p] = proxied[p]
                                 /\ result'[p] = result[p]
    BY <1>0, <1>2 DEF Query, Refuse, PreflightOk, EnterScope, AnswerScoped, AnswerUnscoped,
       TimeOut, Answers, Leave, queryVars, StorageTypeOK
  <2>2. proxied'[q] <=> pc'[q] = "scoped"
    <3>1. CASE Refuse(q) \/ PreflightOk(q) \/ AnswerUnscoped(q)
      BY <1>0, <3>1 DEF Refuse, PreflightOk, AnswerUnscoped, Leave, queryVars, ProxyTakenOut
    <3>2. CASE EnterScope(q)
      BY <1>0, <3>2 DEF EnterScope
    <3>3. CASE AnswerScoped(q) \/ TimeOut(q)
      BY <1>0, <3>3 DEF AnswerScoped, TimeOut, Leave
    <3> QED BY <1>2, <3>1, <3>2, <3>3 DEF Query
  <2>3. Scoped(q) /\ result'[q].outcome = "answered" =>
           result'[q].sources \cup result'[q].text \subseteq Selected[q]
    <3>0. DOMAIN result = Queries
      BY DEF StorageTypeOK
    <3>1. CASE Refuse(q) \/ TimeOut(q)
      BY <3>0, <3>1 DEF Refuse, TimeOut, Answers, Result
    <3>2. CASE PreflightOk(q) \/ EnterScope(q)
      BY <3>2 DEF PreflightOk, EnterScope, queryVars, AnswersInScope
    <3>3. CASE AnswerUnscoped(q)
      BY <3>3 DEF AnswerUnscoped
    <3>4. CASE AnswerScoped(q)
      <4>1. proxied[q]
        BY <3>4 DEF AnswerScoped, ProxyTakenOut
      <4>2. ASSUME NEW rows \in SUBSET Docs, NEW text \in Texts(q, rows)
            PROVE  StoreRows(q, rows) \cup text \subseteq Selected[q]
        BY <4>1 DEF StoreRows, Texts
      <4>3. CASE \E rows \in SUBSET Docs : \E text \in Texts(q, rows) :
                   Answers(q, Result("answered", StoreRows(q, rows), text))
        BY <3>0, <4>2, <4>3 DEF Answers, Result
      <4>4. CASE \/ Answers(q, Result("filter_failed", {}, {}))
                 \/ Answers(q, Result("failed", {}, {}))
        BY <3>0, <4>4 DEF Answers, Result
      <4> QED BY <3>4, <4>3, <4>4 DEF AnswerScoped
    <3> QED BY <1>2, <3>1, <3>2, <3>3, <3>4 DEF Query
  <2> QED BY <2>1, <2>2, <2>3 DEF ProxyTakenOut, AnswersInScope, Scoped
<1>3. ASSUME UNCHANGED storageVars PROVE Scope'
  BY <1>3 DEF storageVars, ProxyTakenOut, AnswersInScope, Scoped
<1> QED BY <1>1, <1>2, <1>3 DEF StorageNext, Quiet

LEMMA InitScope == StorageInit => ProxyTakenOut /\ AnswersInScope
<1>1. Queries \subseteq Tasks
  BY DEF Tasks
<1> QED BY <1>1 DEF StorageInit, ProxyTakenOut, AnswersInScope, NoResult, Result

-----------------------------------------------------------------------------
\* The types of the variables, whatever the tasks and the settings are.
THEOREM NativeStorageType == StorageSpec => []StorageTypeOK
<1>1. StorageInv => StorageTypeOK
  BY DEF StorageInv
<1> QED BY <1>1, StorageInitially, StorageStep, PTL DEF StorageSpec

\* scoped_native_storage_env: an operation runs under its own settings.
THEOREM OperationsSeeOwnSettings == StorageSpec => []OwnSettings
<1>1. StorageInv => OwnSettings
  BY DEF StorageInv, OwnSettings, OwnerHolds, Progress, Holding
<1> QED BY <1>1, StorageInitially, StorageStep, PTL DEF StorageSpec

\* The finally of scoped_native_storage_env: whenever the lock is free, the
\* environment of the process is what it was at the start.
THEOREM EnvironmentRestored == StorageSpec => []SettingsRestored
<1>1. StorageInv => SettingsRestored
  BY DEF StorageInv
<1> QED BY <1>1, StorageInitially, StorageStep, PTL DEF StorageSpec

\* _scoped_chunks_vdb: the proxy is in place in the body of a scoped query only.
THEOREM ProxyOnlyInBody == StorageSpec => []ProxyTakenOut
BY StorageInitially, StorageStep, InitScope, StepScope, PTL DEF StorageSpec, StorageInv

\* A query with selected documents is answered from those documents alone,
\* its sources and its text, whatever was asked and cached before.
THEOREM ScopedAnswers == StorageSpec => []AnswersInScope
BY StorageInitially, StorageStep, InitScope, StepScope, PTL DEF StorageSpec, StorageInv
=============================================================================
