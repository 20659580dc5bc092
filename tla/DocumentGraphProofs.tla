------------------------ MODULE DocumentGraphProofs ------------------------
(***************************************************************************)
(* Theorems about DocumentGraph for any requests, any targets and any      *)
(* number of records: a document that is gone has left no recorded graph   *)
(* but those rewritten after they were erased, and a projection that says  *)
(* SUCCEEDED shows the document's chunks unless an index run began beside  *)
(* its rewriting.                                                          *)
(***************************************************************************)
EXTENDS DocumentGraph, TLAPS

\* Deletions and rewritings hold the document's workflow lock.
Busy(r) == request[r].op \in Deleting \cup Rewriting

\* One of them at a time, of a document that is there; a deletion has no job
\* beside it.
LocksOK ==
    /\ \A r, s \in Requests : Busy(r) /\ Busy(s) => r = s
    /\ \A r \in Requests : Busy(r) => document
    /\ \A r \in Requests : request[r].op \in Deleting => job = "none"

\* Where a job stands tells what it has left: chunks from the indexing on, and
\* before them no pending record, nor one for retrieval but of a rewriting that it
\* overtook.
JobOK ==
    /\ job # "none" => document
    /\ job \in {"resume", "indexed", "projected", "closing"} => chunks
    /\ job = "cleaned" => \A x \in records :
         x.status # "pending" /\ (x.status = "succeeded" => x.target \in overtaken)

\* At most one record waits for its graph, and no deletion knows of it.
PendingOK ==
    /\ \A p, q \in Pending : p = q
    /\ \A p \in Pending : ~p.populated
    /\ job \in {"resume", "indexed", "projected", "closing"} =>
         \A p \in Pending : p.cleanup = "none"

\* The nodes that some commit is to answer for.
Nodes(t) == graph[t] # "none" /\ t \notin unrecorded

\* The graph shows the chunks, as far as a commit can know.
Shows(t) == graph[t] = Present \/ t \in unrecorded \/ t \in overtaken

\* The job, or a rewriting, has written the graph and will record it.
Written(t) ==
    job = "projected" /\ result = "succeeded" /\ \E p \in Pending : p.target = t
Rewrote(t) ==
    \E r \in Requests : /\ At(r, "rewritten") /\ request[r].result = "succeeded"
                        /\ request[r].content # "none" /\ request[r].target = t

\* Nodes are recorded, or about to be.
RecordedOK ==
    document => \A t \in Targets :
        Nodes(t) => Written(t) \/ Rewrote(t) \/ \E x \in records : x.target = t /\ x.populated

\* A graph whose deletion is on record has no nodes until it is written anew.
CleanedOK == \A t \in CleanedTargets : Nodes(t) => Written(t) \/ t \in revived

\* What a deletion still has to erase.
Deletes(r) ==
    /\ \A t \in Targets : Nodes(t) => t \in request[r].todo \/ t \in revived
    /\ At(r, "unlinked") => request[r].todo = {}
    /\ At(r, "erased") => ~Nodes(request[r].target)
    /\ request[r].op \in {"erasing", "erased"} =>
          \A x \in records : x.target = request[r].target => x.cleanup # "none"
DeletingOK == \A r \in Requests : request[r].op \in Deleting => Deletes(r)

\* A rewriting writes what the document has, unless a run began beside it.
Rewrites(r) ==
    /\ \/ job \in {"none", "queued"} /\ request[r].content = Present
       \/ request[r].target \in overtaken
    /\ At(r, "rewritten") /\ request[r].result = "succeeded" => Shows(request[r].target)
RewritingOK == \A r \in Requests : request[r].op \in Rewriting => Rewrites(r)

\* A record that says SUCCEEDED shows the chunks, jobs or not, or a deletion has
\* erased what it showed; and so will the one the job is about to write.
Usable(t) == Shows(t) \/ (graph[t] = "none" /\ DeletionBegun(t))
CurrentOK ==
    /\ \A x \in records : x.status = "succeeded" => Usable(x.target)
    /\ \A t \in Targets : Written(t) => Shows(t)

GraphInv ==
    /\ TypeOK /\ LocksOK /\ JobOK /\ PendingOK
    /\ RecordedOK /\ CleanedOK /\ DeletingOK /\ RewritingOK /\ CurrentOK
    /\ DeletionErasesRecordedGraphs

-----------------------------------------------------------------------------
(* Records *)

\* What is kept when the index is built anew: the records of graphs, none of them
\* for retrieval.
LEMMA SupersededProperties ==
    ASSUME TypeOK, PendingOK
    PROVE  /\ Superseded(records) \subseteq ProjectionRecord
           /\ \A y \in Superseded(records) :
                 /\ y.status \notin {"pending", "succeeded"}
                 /\ \E x \in records : x.target = y.target /\ x.cleanup = y.cleanup
           /\ \A x \in records : x.populated =>
                 \E y \in Superseded(records) : y.target = x.target /\ y.populated
<1> DEFINE kept == {x \in records : x.status \in {"succeeded", "stale"} \/ x.populated}
           aged(x) == [x EXCEPT !.status = IF @ = "succeeded" THEN "stale" ELSE @]
<1>1. Superseded(records) = {aged(x) : x \in kept}
  BY DEF Superseded
<1>2. ASSUME NEW x \in kept
      PROVE  /\ aged(x) \in ProjectionRecord /\ aged(x).status \notin {"pending", "succeeded"}
             /\ aged(x).target = x.target /\ aged(x).cleanup = x.cleanup
             /\ aged(x).populated = x.populated
  <2>1. x \in ProjectionRecord /\ x \in records
    BY DEF TypeOK
  <2>2. x.status # "pending"
    BY <2>1 DEF PendingOK, Pending
  <2> QED BY <2>1, <2>2 DEF ProjectionRecord, RecordStatus, GraphResult
<1>3. \A x \in records : x.populated => x \in kept
  OBVIOUS
<1>4. \A x \in kept : x \in records
  OBVIOUS
<1> HIDE DEF kept, aged
<1> QED BY <1>1, <1>2, <1>3, <1>4

\* A marker changes the cleanup of the records of some targets and nothing else.
MarkedFrom(y, x, ts, cleanup) ==
    /\ y.target = x.target /\ y.status = x.status /\ y.populated = x.populated
    /\ y.cleanup = IF x.target \in ts THEN cleanup ELSE x.cleanup

LEMMA MarkedProperties ==
    ASSUME TypeOK, NEW ts \in SUBSET Targets, NEW cleanup \in CleanupStatus
    PROVE  /\ Marked(ts, cleanup) \subseteq ProjectionRecord
           /\ \A y \in Marked(ts, cleanup) : \E x \in records : MarkedFrom(y, x, ts, cleanup)
           /\ \A x \in records : \E y \in Marked(ts, cleanup) : MarkedFrom(y, x, ts, cleanup)
<1> DEFINE marked(x) == IF x.target \in ts THEN [x EXCEPT !.cleanup = cleanup] ELSE x
<1>1. Marked(ts, cleanup) = {marked(x) : x \in records}
  BY DEF Marked
<1>2. ASSUME NEW x \in records
      PROVE  marked(x) \in ProjectionRecord /\ MarkedFrom(marked(x), x, ts, cleanup)
  <2>1. x \in ProjectionRecord
    BY DEF TypeOK
  <2> QED BY <2>1 DEF ProjectionRecord, MarkedFrom
<1> HIDE DEF marked
<1> QED BY <1>1, <1>2

\* A record as it is written.
LEMMA RecordProperties ==
    ASSUME NEW t \in Targets, NEW status \in RecordStatus, NEW content \in Contents
    PROVE  /\ Record(t, status, content) \in ProjectionRecord
           /\ Record(t, status, content).target = t
           /\ Record(t, status, content).status = status
           /\ Record(t, status, content).cleanup = "none"
           /\ Record(t, status, content).populated
                 <=> status = "succeeded" /\ content # "none"
BY DEF Record, ProjectionRecord, CleanupStatus

\* What a request holds in each of its phases.
LEMMA RequestShapes ==
    ASSUME TypeOK, NEW r \in Requests
    PROVE  /\ request[r].op \in {"cleaning", "unlinked"} =>
                 request[r] \in [op : {"cleaning", "unlinked"}, todo : SUBSET Targets]
           /\ request[r].op \in {"erasing", "erased"} =>
                 request[r] \in [op : {"erasing", "erased"}, todo : SUBSET Targets,
                                 target : Targets]
           /\ request[r].op = "rewriting" =>
                 request[r] \in [op : {"rewriting"}, target : Targets, content : Contents]
           /\ request[r].op = "rewritten" =>
                 request[r] \in [op : {"rewritten"}, target : Targets, content : Contents,
                                 result : GraphResult]
BY DEF TypeOK, RequestState, Idle

\* No deletion runs beside a job.
LEMMA NobodyDeletes ==
    ASSUME GraphInv, job # "none"
    PROVE  \A r \in Requests : request[r].op \notin Deleting
BY DEF GraphInv, LocksOK

-----------------------------------------------------------------------------
(* The index job *)

\* A step of the job that leaves the requests alone: nobody deletes, and the
\* document is there.
LEMMA JobStep ==
    ASSUME GraphInv, job # "none", UNCHANGED <<document, request>>,
           TypeOK', JobOK', PendingOK', RecordedOK', CleanedOK', RewritingOK', CurrentOK'
    PROVE  GraphInv'
<1>1. \A r \in Requests : request'[r].op \notin Deleting
  BY NobodyDeletes
<1>2. document'
  BY DEF GraphInv, JobOK
<1>3. LocksOK'
  BY <1>1 DEF GraphInv, LocksOK, Busy
<1>4. DeletingOK'
  BY <1>1 DEF DeletingOK
<1>5. DeletionErasesRecordedGraphs'
  BY <1>2 DEF DeletionErasesRecordedGraphs
<1> QED BY <1>3, <1>4, <1>5 DEF GraphInv

\* A run that has begun has overtaken the rewritings that are under way.
LEMMA RunsOvertake ==
    ASSUME GraphInv, job \notin {"none", "queued"}, UNCHANGED <<request, overtaken>>
    PROVE  RewritingOK'
BY DEF GraphInv, RewritingOK, Rewrites, Shows

\* The cleanup ages what the rewritings under way are to write, and no more.
LEMMA CleanedRequests ==
    ASSUME TypeOK, CleanArtifacts
    PROVE  /\ request' \in [Requests -> RequestState]
           /\ overtaken' \subseteq Targets
           /\ \A r \in Requests :
                /\ request'[r].op = request[r].op
                /\ request[r].op \in Rewriting =>
                     /\ request'[r].target = request[r].target
                     /\ request[r].target \in overtaken'
                     /\ request'[r].content = "none" <=> request[r].content = "none"
                /\ request[r].op = "rewritten" => request'[r].result = request[r].result
<1>1. ASSUME NEW r \in Requests
      PROVE  /\ request'[r] \in RequestState
             /\ request'[r].op = request[r].op
             /\ request[r].op \in Rewriting =>
                  /\ request'[r].target = request[r].target
                  /\ request[r].target \in overtaken' \cap Targets
                  /\ request'[r].content = "none" <=> request[r].content = "none"
             /\ request[r].op = "rewritten" => request'[r].result = request[r].result
  <2>1. CASE request[r].op \notin Rewriting
    <3>1. request'[r] = request[r]
      BY <2>1 DEF CleanArtifacts
    <3> QED BY <2>1, <3>1 DEF TypeOK, Rewriting
  <2>2. CASE request[r].op = "rewriting"
    <3>1. request'[r] = [request[r] EXCEPT !.content = Aged(@)]
      BY <2>2 DEF CleanArtifacts, Rewriting
    <3>2. request[r] \in [op : {"rewriting"}, target : Targets, content : Contents]
      BY <2>2, RequestShapes
    <3>3. /\ request'[r] \in [op : {"rewriting"}, target : Targets, content : Contents]
          /\ request'[r].op = "rewriting" /\ request'[r].target = request[r].target
          /\ request'[r].content = "none" <=> request[r].content = "none"
      BY <3>1, <3>2 DEF Aged, Contents
    <3>4. request[r].target \in overtaken' \cap Targets
      BY <2>2, <3>2 DEF CleanArtifacts, Rewriting
    <3> QED BY <2>2, <3>3, <3>4 DEF RequestState
  <2>3. CASE request[r].op = "rewritten"
    <3>1. request'[r] = [request[r] EXCEPT !.content = Aged(@)]
      BY <2>3 DEF CleanArtifacts, Rewriting
    <3>2. request[r] \in [op : {"rewritten"}, target : Targets, content : Contents,
                          result : GraphResult]
      BY <2>3, RequestShapes
    <3>3. /\ request'[r] \in [op : {"rewritten"}, target : Targets, content : Contents,
                              result : GraphResult]
          /\ request'[r].op = "rewritten" /\ request'[r].target = request[r].target
          /\ request'[r].result = request[r].result
          /\ request'[r].content = "none" <=> request[r].content = "none"
      BY <3>1, <3>2 DEF Aged, Contents
    <3>4. request[r].target \in overtaken' \cap Targets
      BY <2>3, <3>2 DEF CleanArtifacts, Rewriting
    <3> QED BY <2>3, <3>3, <3>4 DEF RequestState
  <2> QED BY <2>1, <2>2, <2>3 DEF Rewriting
<1>2. request' \in [Requests -> RequestState]
  BY <1>1 DEF CleanArtifacts
<1>3. overtaken' \subseteq Targets
  <2>1. overtaken' = {request[r].target : r \in {x \in Requests : request[x].op \in Rewriting}}
    BY DEF CleanArtifacts
  <2> QED BY <1>1, <2>1
<1> QED BY <1>1, <1>2, <1>3

\* What the cleanup leaves of records and graphs.
LEMMA CleanArtifactsProperties ==
    ASSUME GraphInv, CleanArtifacts
    PROVE  /\ chunks' = FALSE
           /\ records' \subseteq ProjectionRecord
           /\ \A y \in records' :
                 /\ y.status \notin {"pending", "succeeded"}
                 /\ \E x \in records : x.target = y.target /\ x.cleanup = y.cleanup
           /\ \A x \in records : x.populated =>
                 \E y \in records' : y.target = x.target /\ y.populated
           /\ graph' \in [Targets -> Contents]
           /\ \A t \in Targets : graph'[t] # "none" => graph[t] # "none"
           /\ strays' \subseteq [target : Targets, content : Contents]
<1>0. TypeOK /\ PendingOK
  BY DEF GraphInv
<1>1. records' = Superseded(records) /\ chunks' = FALSE
  BY DEF CleanArtifacts
<1>2. graph' \in [Targets -> Contents] /\ \A t \in Targets : graph'[t] # "none" => graph[t] # "none"
  BY <1>0 DEF CleanArtifacts, TypeOK, Aged, Contents
<1>3. strays' \subseteq [target : Targets, content : Contents]
  BY <1>0 DEF CleanArtifacts, TypeOK, Aged, Contents
<1> QED BY <1>0, <1>1, <1>2, <1>3, SupersededProperties

\* After the cleanup there is nothing pending and nothing for retrieval.
LEMMA CleanedUpStep ==
    ASSUME GraphInv, job # "none", CleanArtifacts, document' = document,
           job' \in {"none", "cleaned"}, artifact' \in BOOLEAN, result' \in GraphResult,
           unrecorded' \subseteq Targets, unrecorded \subseteq unrecorded',
           \A t \in Targets : Written(t) => t \in unrecorded'
    PROVE  GraphInv'
<1>0. TypeOK /\ LocksOK /\ RecordedOK /\ CleanedOK /\ JobOK
  BY DEF GraphInv
<1>1. /\ chunks' = FALSE
      /\ records' \subseteq ProjectionRecord
      /\ \A y \in records' :
            /\ y.status \notin {"pending", "succeeded"}
            /\ \E x \in records : x.target = y.target /\ x.cleanup = y.cleanup
      /\ \A x \in records : x.populated =>
            \E y \in records' : y.target = x.target /\ y.populated
      /\ graph' \in [Targets -> Contents]
      /\ \A t \in Targets : graph'[t] # "none" => graph[t] # "none"
      /\ strays' \subseteq [target : Targets, content : Contents]
  BY CleanArtifactsProperties
<1>2. /\ request' \in [Requests -> RequestState]
      /\ overtaken' \subseteq Targets /\ revived' = revived
      /\ \A r \in Requests :
           /\ request'[r].op = request[r].op
           /\ request[r].op \in Rewriting =>
                /\ request'[r].target = request[r].target
                /\ request[r].target \in overtaken'
                /\ request'[r].content = "none" <=> request[r].content = "none"
           /\ request[r].op = "rewritten" => request'[r].result = request[r].result
  BY <1>0, CleanedRequests DEF CleanArtifacts
<1>3. \A r \in Requests : request'[r].op \notin Deleting
  BY <1>2, NobodyDeletes
<1>4. TypeOK'
  BY <1>0, <1>1, <1>2 DEF TypeOK, JobPlace
<1>5. JobOK' /\ document'
  BY <1>0, <1>1 DEF JobOK
<1>6. PendingOK' /\ Pending' = {}
  BY <1>1 DEF PendingOK, Pending
<1>7. LocksOK' /\ DeletingOK' /\ DeletionErasesRecordedGraphs'
  BY <1>0, <1>2, <1>3, <1>5 DEF LocksOK, DeletingOK, DeletionErasesRecordedGraphs, Busy
<1>8. \A t \in Targets : Nodes(t)' => Nodes(t) /\ ~Written(t)
  BY <1>1 DEF Nodes
<1>9. \A t \in Targets : Rewrote(t) => Rewrote(t)'
  <2> SUFFICES ASSUME NEW t \in Targets, Rewrote(t) PROVE Rewrote(t)'
    OBVIOUS
  <2>1. PICK r \in Requests : /\ request[r].op = "rewritten" /\ request[r].result = "succeeded"
                              /\ request[r].content # "none" /\ request[r].target = t
    BY DEF Rewrote, At
  <2>2. /\ request'[r].op = "rewritten" /\ request'[r].result = "succeeded"
        /\ request'[r].content # "none" /\ request'[r].target = t
    BY <1>2, <2>1 DEF Rewriting
  <2> QED BY <2>2 DEF Rewrote, At
<1>10. RecordedOK'
  BY <1>0, <1>1, <1>5, <1>8, <1>9 DEF RecordedOK
<1>11. CleanedOK'
  <2>1. CleanedTargets' \subseteq CleanedTargets /\ CleanedTargets \subseteq Targets
    BY <1>0, <1>1 DEF CleanedTargets, TypeOK, ProjectionRecord
  <2> QED BY <1>0, <1>2, <1>8, <2>1 DEF CleanedOK
<1>12. RewritingOK'
  BY <1>2 DEF RewritingOK, Rewrites, Shows
<1>13. CurrentOK'
  BY <1>1, <1>6 DEF CurrentOK, Written
<1> QED BY <1>4, <1>5, <1>6, <1>7, <1>10, <1>11, <1>12, <1>13 DEF GraphInv

\* The index is built anew: nothing was being written.
LEMMA StartIndexStep ==
    ASSUME GraphInv, StartIndex PROVE GraphInv'
<1>1. TypeOK
  BY DEF GraphInv
<1>2. \A t \in Targets : ~Written(t)
  BY DEF Written, StartIndex
<1> QED BY <1>1, <1>2, CleanedUpStep DEF StartIndex, TypeOK

\* A run that fails after it wrote the graph leaves it unrecorded.
LEMMA FailIndexStep ==
    ASSUME GraphInv, FailIndex PROVE GraphInv'
<1>0. TypeOK /\ PendingOK
  BY DEF GraphInv
<1>1. /\ job # "none" /\ job' = "none" /\ CleanArtifacts /\ result' = "skipped"
      /\ UNCHANGED <<document, artifact>>
  BY DEF FailIndex
<1>2. /\ unrecorded' \subseteq Targets /\ unrecorded \subseteq unrecorded'
      /\ \A t \in Targets : Written(t) => t \in unrecorded'
  <2>1. CASE job # "projected" /\ UNCHANGED unrecorded
    BY <1>0, <2>1 DEF TypeOK, Written
  <2>2. CASE job = "projected" /\ \E p \in Pending : unrecorded' = Lost(p.target, result)
    <3>1. PICK p \in Pending : unrecorded' = Lost(p.target, result)
      BY <2>2
    <3>2. p.target \in Targets
      BY <1>0 DEF TypeOK, Pending, ProjectionRecord
    <3>3. \A q \in Pending : q = p
      BY <1>0 DEF PendingOK
    <3> QED BY <1>0, <3>1, <3>2, <3>3 DEF TypeOK, Written, Lost
  <2> QED BY <2>1, <2>2 DEF FailIndex
<1>3. artifact' \in BOOLEAN /\ result' \in GraphResult
  BY <1>0, <1>1 DEF TypeOK, GraphResult
<1> QED BY <1>1, <1>2, <1>3, CleanedUpStep

\* The job goes somewhere else and leaves records and graphs as they are.
LEMMA JobMoves ==
    ASSUME GraphInv, job # "none",
           UNCHANGED <<document, chunks, records, artifact, graph, revived, overtaken, request>>,
           job' \in JobPlace \ {"cleaned", "projected"},
           job' \in {"resume", "indexed", "closing"} =>
               job \in {"resume", "indexed", "projected", "closing"},
           result' \in GraphResult,
           strays' \subseteq [target : Targets, content : Contents],
           unrecorded' \subseteq Targets, unrecorded \subseteq unrecorded',
           \A t \in Targets : Written(t) => t \in unrecorded'
    PROVE  GraphInv'
<1>0. TypeOK /\ JobOK /\ PendingOK /\ RecordedOK /\ CleanedOK /\ RewritingOK /\ CurrentOK
  BY DEF GraphInv
<1>1. TypeOK'
  BY <1>0 DEF TypeOK
<1>2. JobOK' /\ PendingOK'
  BY <1>0 DEF JobOK, PendingOK, Pending, JobPlace
<1>3. \A t \in Targets : Nodes(t)' => Nodes(t) /\ ~Written(t)
  BY DEF Nodes
<1>4. RecordedOK'
  <2>1. \A t \in Targets : Rewrote(t)' <=> Rewrote(t)
    BY DEF Rewrote, At
  <2> QED BY <1>0, <1>3, <2>1 DEF RecordedOK
<1>5. CleanedOK'
  <2>1. CleanedTargets' = CleanedTargets /\ CleanedTargets \subseteq Targets
    BY <1>0 DEF CleanedTargets, TypeOK, ProjectionRecord
  <2> QED BY <1>0, <1>3, <2>1 DEF CleanedOK
<1>6. \A t \in Targets : Shows(t) => Shows(t)'
  BY DEF Shows, Present
<1>7. CurrentOK'
  <2>1. \A t \in Targets : ~Written(t)'
    BY DEF Written
  <2>2. \A x \in records : x.target \in Targets
    BY <1>0 DEF TypeOK, ProjectionRecord
  <2>3. \A t \in Targets : Usable(t) => Usable(t)'
    BY <1>6 DEF Usable, DeletionBegun
  <2> QED BY <1>0, <2>1, <2>2, <2>3 DEF CurrentOK
<1>8. RewritingOK'
  <2> SUFFICES ASSUME NEW r \in Requests, request[r].op \in Rewriting PROVE Rewrites(r)'
    BY DEF RewritingOK
  <2>1. Rewrites(r)
    BY <1>0 DEF RewritingOK
  <2>2. At(r, "rewritten") => request[r].target \in Targets
    BY <1>0, RequestShapes DEF At
  <2>3. job \in {"none", "queued"} => job' \in {"none", "queued"}
    BY DEF JobPlace
  <2>4. Present' = Present
    BY DEF Present
  <2> QED BY <1>6, <2>1, <2>2, <2>3, <2>4 DEF Rewrites, At
<1> QED BY <1>1, <1>2, <1>4, <1>5, <1>7, <1>8, JobStep

\* A job that is elsewhere has written nothing.
LEMMA NothingWritten ==
    ASSUME job # "projected" PROVE \A t \in Targets : ~Written(t)
BY DEF Written

\* The run ends without a projection.
LEMMA CloseIndexStep ==
    ASSUME GraphInv, CloseIndex PROVE GraphInv'
<1>1. job \in {"closing", "indexed"} /\ TypeOK
  BY DEF CloseIndex, GraphInv
<1> QED BY <1>1, NothingWritten, JobMoves DEF CloseIndex, TypeOK, JobPlace, world, taken

\* A resumption begins where the chunks are.
LEMMA ResumeIndexStep ==
    ASSUME GraphInv, ResumeIndex PROVE GraphInv'
<1>1. TypeOK
  BY DEF GraphInv
<1> QED BY <1>1, NothingWritten, JobMoves DEF ResumeIndex, TypeOK, JobPlace, world, taken

\* A run that dies before it writes the graph.
LEMMA IndexStopsStep ==
    ASSUME GraphInv, IndexStops PROVE GraphInv'
<1>1. TypeOK
  BY DEF GraphInv
<1>2. job # "none" /\ job # "projected" /\ job' \in TriedAgain
      /\ UNCHANGED <<document, chunks, result, records, world, request>>
  BY DEF IndexStops
<1>3. /\ job' \in JobPlace \ {"cleaned", "projected"}
      /\ job' \in {"resume", "indexed", "closing"} =>
             job \in {"resume", "indexed", "projected", "closing"}
  BY <1>1, <1>2 DEF TypeOK, JobPlace, TriedAgain
<1> QED BY <1>1, <1>2, <1>3, NothingWritten, JobMoves DEF TypeOK, world, taken

\* A run that dies between the write and the commit.
LEMMA ProjectionIsLostStep ==
    ASSUME GraphInv, ProjectionIsLost PROVE GraphInv'
<1>1. TypeOK /\ PendingOK
  BY DEF GraphInv
<1>2. job = "projected" /\ job' \in TriedAgain /\ result' = "skipped"
      /\ UNCHANGED <<document, chunks, records, artifact, graph, strays, revived, overtaken,
                     request>>
  BY DEF ProjectionIsLost, taken
<1>3. job' \in JobPlace \ {"cleaned", "projected"} 
  BY <1>2 DEF JobPlace, TriedAgain
<1>4. /\ unrecorded' \subseteq Targets /\ unrecorded \subseteq unrecorded'
      /\ \A t \in Targets : Written(t) => t \in unrecorded'
  <2>1. PICK p \in Pending : unrecorded' = Lost(p.target, result)
    BY DEF ProjectionIsLost
  <2>2. p.target \in Targets
    BY <1>1 DEF TypeOK, Pending, ProjectionRecord
  <2>3. \A q \in Pending : q = p
    BY <1>1 DEF PendingOK
  <2> QED BY <1>1, <2>1, <2>2, <2>3 DEF TypeOK, Written, Lost
<1>5. result' \in GraphResult /\ strays' \subseteq [target : Targets, content : Contents]
  BY <1>1, <1>2 DEF TypeOK, GraphResult
<1> QED BY <1>2, <1>3, <1>4, <1>5, JobMoves

\* A run that dies with its thread about to write.
LEMMA ThreadOutlivesRunStep ==
    ASSUME GraphInv, ThreadOutlivesRun PROVE GraphInv'
<1>1. TypeOK
  BY DEF GraphInv
<1>2. job = "indexed" /\ job' \in TriedAgain
      /\ UNCHANGED <<document, chunks, result, records, artifact, graph, unrecorded, revived,
                     overtaken, request>>
  BY DEF ThreadOutlivesRun, taken
<1>3. job' \in JobPlace \ {"cleaned", "projected"}
  BY <1>2 DEF JobPlace, TriedAgain
<1>4. strays' \subseteq [target : Targets, content : Contents]
  <2>1. PICK p \in Pending : strays' = {[target |-> p.target, content |-> Present]}
    BY DEF ThreadOutlivesRun
  <2>2. p.target \in Targets /\ Present \in Contents
    BY <1>1 DEF TypeOK, Pending, ProjectionRecord, Present, Contents
  <2> QED BY <2>1, <2>2
<1> QED BY <1>1, <1>2, <1>3, <1>4, NothingWritten, JobMoves DEF TypeOK

\* The one pending record is added to records none of which is for retrieval.
LEMMA PersistChunksStep ==
    ASSUME GraphInv, PersistChunks PROVE GraphInv'
<1>0. TypeOK /\ JobOK /\ PendingOK /\ RecordedOK /\ CleanedOK /\ CurrentOK
  BY DEF GraphInv
<1>1. /\ job = "cleaned" /\ job' = "indexed" /\ chunks' = TRUE
      /\ UNCHANGED <<document, result, artifact, graph, strays, unrecorded, revived, overtaken,
                     request>>
  BY DEF PersistChunks, world, taken
<1>2. PICK t \in Targets : records' = records \cup {Record(t, "pending", "none")}
  BY DEF PersistChunks
<1> DEFINE new == Record(t, "pending", "none")
<1>3. /\ new \in ProjectionRecord /\ new.status = "pending" /\ new.cleanup = "none"
      /\ ~new.populated
  BY RecordProperties DEF RecordStatus, Contents
<1> HIDE DEF new
<1>4. records' = records \cup {new}
  BY <1>2 DEF new
<1>5. \A x \in records : x.status # "pending" /\ (x.status = "succeeded" => x.target \in overtaken)
  BY <1>0, <1>1 DEF JobOK
<1>6. TypeOK'
  BY <1>0, <1>1, <1>3, <1>4 DEF TypeOK, JobPlace
<1>7. JobOK'
  BY <1>0, <1>1 DEF JobOK
<1>8. PendingOK'
  BY <1>3, <1>4, <1>5 DEF PendingOK, Pending
<1>9. \A u \in Targets : ~Written(u) /\ (Nodes(u)' <=> Nodes(u)) /\ (Rewrote(u)' <=> Rewrote(u))
  BY <1>1 DEF Written, Nodes, Rewrote, At
<1>10. RecordedOK'
  BY <1>0, <1>1, <1>4, <1>9 DEF RecordedOK
<1>11. CleanedOK'
  <2>1. CleanedTargets' = CleanedTargets /\ CleanedTargets \subseteq Targets
    BY <1>0, <1>3, <1>4 DEF CleanedTargets, TypeOK, ProjectionRecord
  <2> QED BY <1>0, <1>1, <1>9, <2>1 DEF CleanedOK
<1>12. CurrentOK'
  BY <1>1, <1>3, <1>4, <1>5 DEF CurrentOK, Written, Usable, Shows
<1>13. RewritingOK'
  BY <1>1, RunsOvertake
<1> QED BY <1>1, <1>6, <1>7, <1>8, <1>10, <1>11, <1>12, <1>13, JobStep

\* A record that is skipped was not populated.
LEMMA SkipProjectionStep ==
    ASSUME GraphInv, SkipProjection PROVE GraphInv'
<1>0. TypeOK /\ JobOK /\ PendingOK /\ RecordedOK /\ CleanedOK /\ CurrentOK
  BY DEF GraphInv
<1> DEFINE skipped(x) == [x EXCEPT !.status = "skipped"]
<1>1. /\ job = "indexed" /\ job' = "closing"
      /\ records' = (records \ Pending) \cup {skipped(p) : p \in Pending}
      /\ UNCHANGED <<document, chunks, result, artifact, graph, strays, unrecorded, revived,
                     overtaken, request>>
  BY DEF SkipProjection, world, taken
<1>2. ASSUME NEW p \in Pending
      PROVE  /\ skipped(p) \in ProjectionRecord /\ skipped(p).status = "skipped"
             /\ skipped(p).target = p.target /\ skipped(p).cleanup = p.cleanup
             /\ p \in records /\ p.status = "pending" /\ ~p.populated
  <2>1. p \in ProjectionRecord /\ ~p.populated /\ p \in records /\ p.status = "pending"
    BY <1>0 DEF TypeOK, Pending, PendingOK
  <2> QED BY <2>1 DEF ProjectionRecord, RecordStatus, GraphResult
<1> HIDE DEF skipped
<1>3. TypeOK'
  BY <1>0, <1>1, <1>2 DEF TypeOK, JobPlace
<1>4. JobOK'
  BY <1>0, <1>1 DEF JobOK
<1>5. PendingOK'
  BY <1>1, <1>2 DEF PendingOK, Pending
<1>6. \A u \in Targets : ~Written(u) /\ (Nodes(u)' <=> Nodes(u)) /\ (Rewrote(u)' <=> Rewrote(u))
  BY <1>1 DEF Written, Nodes, Rewrote, At
<1>7. \A x \in records : x.populated => x \in records'
  BY <1>1, <1>2
<1>8. RecordedOK'
  BY <1>0, <1>1, <1>6, <1>7 DEF RecordedOK
<1>9. CleanedOK'
  <2>1. CleanedTargets' \subseteq CleanedTargets /\ CleanedTargets \subseteq Targets
    BY <1>0, <1>1, <1>2 DEF CleanedTargets, TypeOK, ProjectionRecord
  <2> QED BY <1>0, <1>1, <1>6, <2>1 DEF CleanedOK
<1>10. CurrentOK'
  <2>1. Present' = Present /\ \A x \in records' : x.status = "succeeded" => x \in records
    BY <1>1, <1>2 DEF Present
  <2>2. \A u \in Targets : DeletionBegun(u) => DeletionBegun(u)'
    <3> SUFFICES ASSUME NEW u \in Targets, NEW x \in records, x.target = u, x.cleanup # "none"
                 PROVE  \E y \in records' : y.target = u /\ y.cleanup # "none"
      BY DEF DeletionBegun
    <3>1. x \notin Pending
      BY <1>0, <1>1 DEF PendingOK
    <3> QED BY <1>1, <3>1
  <2>3. \A x \in records : x.target \in Targets
    BY <1>0 DEF TypeOK, ProjectionRecord
  <2>4. \A u \in Targets : Usable(u) => Usable(u)'
    BY <1>1, <2>1, <2>2 DEF Usable, Shows
  <2> QED BY <1>0, <1>1, <2>1, <2>3, <2>4 DEF CurrentOK, Written
<1>11. RewritingOK'
  BY <1>1, RunsOvertake
<1> QED BY <1>1, <1>3, <1>4, <1>5, <1>8, <1>9, <1>10, <1>11, JobStep

\* A write is recorded as unrecorded unless its success is known.
LEMMA ReplaceProperties ==
    ASSUME TypeOK, NEW t \in Targets, NEW content \in Contents, NEW res \in GraphResult,
           Replace(t, content, res)
    PROVE  /\ graph' \in [Targets -> Contents] /\ unrecorded' \subseteq Targets
           /\ \A u \in Targets : u # t => /\ graph'[u] = graph[u]
                                          /\ u \in unrecorded' <=> u \in unrecorded
           /\ Nodes(t)' => \/ Nodes(t) /\ res # "succeeded"
                           \/ res = "succeeded" /\ content # "none"
           /\ res = "succeeded" => graph'[t] = content
           /\ graph'[t] = content \/ t \in unrecorded' \/ graph'[t] = graph[t]
           /\ t \in unrecorded => graph'[t] = content \/ t \in unrecorded'
BY DEF TypeOK, Replace, Nodes

\* The graph of the pending record is written, or may have been.
LEMMA ProjectGraphStep ==
    ASSUME GraphInv, ProjectGraph PROVE GraphInv'
<1>0. TypeOK /\ JobOK /\ PendingOK /\ RecordedOK /\ CleanedOK /\ CurrentOK
  BY DEF GraphInv
<1>1. /\ job = "indexed" /\ job' = "projected"
      /\ UNCHANGED <<document, chunks, records, artifact, strays, revived, overtaken,
                     request>>
  BY DEF ProjectGraph, taken
<1>2. PICK p \in Pending, res \in GraphResult :
          result' = res /\ Replace(p.target, Present, res)
  BY DEF ProjectGraph
<1>3. p.target \in Targets /\ Present \in Contents
  BY <1>0 DEF TypeOK, Pending, ProjectionRecord, Present, Contents
<1> DEFINE t == p.target
<1>4. /\ graph' \in [Targets -> Contents] /\ unrecorded' \subseteq Targets
      /\ \A u \in Targets : u # t => /\ graph'[u] = graph[u]
                                     /\ u \in unrecorded' <=> u \in unrecorded
      /\ Nodes(t)' => \/ Nodes(t) /\ res # "succeeded"
                      \/ res = "succeeded" /\ Present # "none"
      /\ res = "succeeded" => graph'[t] = Present
      /\ graph'[t] = Present \/ t \in unrecorded' \/ graph'[t] = graph[t]
      /\ t \in unrecorded => graph'[t] = Present \/ t \in unrecorded'
  BY <1>0, <1>2, <1>3, ReplaceProperties
<1>5. TypeOK'
  BY <1>0, <1>1, <1>2, <1>4 DEF TypeOK, JobPlace
<1>6. JobOK' /\ PendingOK' /\ Pending' = Pending
  BY <1>0, <1>1 DEF JobOK, PendingOK, Pending
<1>7. \A u \in Targets : ~Written(u) /\ (Rewrote(u)' <=> Rewrote(u))
  BY <1>1 DEF Written, Rewrote, At
<1>8. \A u \in Targets : Nodes(u)' => Nodes(u) \/ Written(u)'
  BY <1>1, <1>2, <1>4, <1>6 DEF Nodes, Written
<1>9. RecordedOK'
  BY <1>0, <1>1, <1>7, <1>8 DEF RecordedOK
<1>10. CleanedOK'
  <2>1. CleanedTargets' = CleanedTargets /\ CleanedTargets \subseteq Targets
    BY <1>0, <1>1 DEF CleanedTargets, TypeOK, ProjectionRecord
  <2> QED BY <1>0, <1>1, <1>7, <1>8, <2>1 DEF CleanedOK
<1>11. CurrentOK'
  <2>1. Present' = Present
    BY <1>1 DEF Present
  <2>2. ASSUME NEW x \in records, x.status = "succeeded"
        PROVE  Usable(x.target)'
    <3>1. x.target \in Targets /\ Usable(x.target)
      BY <1>0, <2>2 DEF TypeOK, ProjectionRecord, CurrentOK
    <3> QED BY <1>1, <1>4, <2>1, <3>1 DEF Usable, Shows, DeletionBegun
  <2>3. ASSUME NEW u \in Targets, Written(u)'
        PROVE  Shows(u)'
    <3>1. u = t /\ res = "succeeded"
      BY <1>0, <1>2, <1>6, <2>3 DEF Written, PendingOK
    <3> QED BY <1>4, <2>1, <3>1 DEF Shows
  <2> QED BY <1>1, <2>2, <2>3 DEF CurrentOK
<1>12. RewritingOK'
  BY <1>1, RunsOvertake
<1> QED BY <1>1, <1>5, <1>6, <1>9, <1>10, <1>11, <1>12, JobStep

\* The record of the written graph replaces the others of its target.
LEMMA CommitProjectionStep ==
    ASSUME GraphInv, CommitProjection PROVE GraphInv'
<1>0. TypeOK /\ JobOK /\ PendingOK /\ RecordedOK /\ CleanedOK /\ RewritingOK /\ CurrentOK
  BY DEF GraphInv
<1>1. /\ job = "projected" /\ job' = "none" /\ result' = "skipped"
      /\ UNCHANGED <<document, chunks, artifact, graph, strays, unrecorded, overtaken, request>>
  BY DEF CommitProjection
<1>2. PICK p \in Pending :
          /\ records' = Projected(records, p)
          /\ revived' = IF result = "succeeded" THEN revived \ {p.target} ELSE revived
  BY DEF CommitProjection
<1>3. /\ p \in records /\ p.target \in Targets /\ ~p.populated /\ p.cleanup = "none"
      /\ \A q \in Pending : q = p
  BY <1>0, <1>1 DEF TypeOK, Pending, ProjectionRecord, PendingOK
<1>4. chunks /\ Present = "current" /\ result \in GraphResult
  BY <1>0, <1>1 DEF JobOK, Present, TypeOK
<1> DEFINE new == Record(p.target, result, Present)
<1>5. /\ new \in ProjectionRecord /\ new.target = p.target /\ new.status = result
      /\ new.cleanup = "none" /\ (new.populated <=> result = "succeeded")
  BY <1>3, <1>4, RecordProperties DEF RecordStatus, Contents
<1> HIDE DEF new
<1>6. records' = {x \in records : x # p /\ ~(result = "succeeded" /\ x.target = p.target)}
                 \cup {new}
  BY <1>2 DEF Projected, new
<1>7. TypeOK'
  BY <1>0, <1>1, <1>2, <1>5, <1>6 DEF TypeOK, JobPlace, GraphResult
<1>8. JobOK'
  BY <1>0, <1>1 DEF JobOK
<1>9. PendingOK'
  BY <1>3, <1>4, <1>5, <1>6 DEF PendingOK, Pending, GraphResult
<1>10. \A u \in Targets : /\ Nodes(u)' <=> Nodes(u)
                          /\ Written(u) <=> result = "succeeded" /\ u = p.target
                          /\ Rewrote(u)' <=> Rewrote(u)
  BY <1>1, <1>3 DEF Written, Nodes, Rewrote, At
<1>11. RecordedOK'
  BY <1>0, <1>1, <1>3, <1>5, <1>6, <1>10 DEF RecordedOK
<1>12. CleanedOK'
  <2>1. CleanedTargets' \subseteq {u \in CleanedTargets : ~(result = "succeeded" /\ u = p.target)}
    BY <1>5, <1>6 DEF CleanedTargets
  <2>2. CleanedTargets \subseteq Targets
    BY <1>0 DEF CleanedTargets, TypeOK, ProjectionRecord
  <2> QED BY <1>0, <1>2, <1>10, <2>1, <2>2 DEF CleanedOK
<1>13. CurrentOK'
  <2>1. result = "succeeded" => Shows(p.target)
    BY <1>0, <1>3, <1>10 DEF CurrentOK
  <2>2. \A u \in Targets : Shows(u)' <=> Shows(u)
    BY <1>1 DEF Shows, Present
  <2>3. ASSUME NEW x \in records', x.status = "succeeded" PROVE Usable(x.target)'
    <3>1. CASE x = new
      BY <1>3, <1>5, <2>1, <2>2, <2>3, <3>1 DEF Usable
    <3>2. CASE x \in records /\ ~(result = "succeeded" /\ x.target = p.target)
      <4>1. x.target \in Targets /\ Usable(x.target)
        BY <1>0, <2>3, <3>2 DEF TypeOK, ProjectionRecord, CurrentOK
      <4>2. ASSUME NEW y \in records, y.target = x.target, y.cleanup # "none"
            PROVE  y \in records'
        BY <1>3, <1>6, <3>2, <4>2
      <4>3. DeletionBegun(x.target) => DeletionBegun(x.target)'
        BY <4>2 DEF DeletionBegun
      <4> QED BY <1>1, <2>2, <4>1, <4>3 DEF Usable
    <3> QED BY <1>6, <2>3, <3>1, <3>2
  <2> QED BY <1>1, <2>3 DEF CurrentOK, Written
<1>14. RewritingOK'
  BY <1>1, RunsOvertake
<1> QED BY <1>1, <1>7, <1>8, <1>9, <1>11, <1>12, <1>13, <1>14, JobStep

\* An abandoned thread writes what no commit will record.
LEMMA StrayWritesStep ==
    ASSUME GraphInv, StrayWrites PROVE GraphInv'
<1>0. /\ TypeOK /\ LocksOK /\ JobOK /\ PendingOK /\ RecordedOK /\ CleanedOK /\ DeletingOK
      /\ RewritingOK /\ CurrentOK /\ DeletionErasesRecordedGraphs
  BY DEF GraphInv
<1>1. PICK s \in strays : /\ graph' = [graph EXCEPT ![s.target] = s.content]
                          /\ strays' = strays \ {s}
                          /\ unrecorded' = unrecorded \cup {s.target}
                          /\ UNCHANGED <<rows, artifact, taken, request>>
  BY DEF StrayWrites
<1>2. s.target \in Targets /\ s.content \in Contents
  BY <1>0 DEF TypeOK
<1>3. UNCHANGED <<document, chunks, job, result, records, artifact, revived, overtaken, request>>
  BY <1>1 DEF rows, taken
<1>4. TypeOK'
  BY <1>0, <1>1, <1>2, <1>3 DEF TypeOK
<1>5. \A u \in Targets : (Nodes(u)' => Nodes(u)) /\ (Shows(u) => Shows(u)')
  BY <1>0, <1>1, <1>2, <1>3 DEF TypeOK, Nodes, Shows, Present
<1>6. LocksOK' /\ JobOK' /\ PendingOK'
  BY <1>0, <1>3 DEF LocksOK, Busy, JobOK, PendingOK, Pending
<1>7. \A u \in Targets : (Written(u)' <=> Written(u)) /\ (Rewrote(u)' <=> Rewrote(u))
  BY <1>3 DEF Written, Rewrote, Pending, At
<1>8. RecordedOK'
  BY <1>0, <1>3, <1>5, <1>7 DEF RecordedOK
<1>9. CleanedOK' /\ CleanedTargets' = CleanedTargets
  <2>1. CleanedTargets' = CleanedTargets /\ CleanedTargets \subseteq Targets
    BY <1>0, <1>3 DEF CleanedTargets, TypeOK, ProjectionRecord
  <2> QED BY <1>0, <1>3, <1>5, <1>7, <2>1 DEF CleanedOK
<1>10. DeletingOK'
  <2>1. \A r \in Requests : request[r].op = "erased" => request[r].target \in Targets
    BY <1>0 DEF TypeOK, RequestState, Idle
  <2> QED BY <1>0, <1>3, <1>5, <2>1 DEF DeletingOK, Deletes, At
<1>11. RewritingOK'
  <2>1. \A r \in Requests : request[r].op = "rewritten" => request[r].target \in Targets
    BY <1>0 DEF TypeOK, RequestState, Idle
  <2>2. Present' = Present
    BY <1>3 DEF Present
  <2> QED BY <1>0, <1>3, <1>5, <1>9, <2>1, <2>2 DEF RewritingOK, Rewrites, At
<1>12. CurrentOK'
  <2>1. \A x \in records : x.target \in Targets
    BY <1>0 DEF TypeOK, ProjectionRecord
  <2>2. \A u \in Targets : Usable(u) => Usable(u)' \/ u \in unrecorded'
    BY <1>0, <1>1, <1>2, <1>3, <1>5 DEF TypeOK, Usable, DeletionBegun
  <2> QED BY <1>0, <1>3, <1>5, <1>7, <2>1, <2>2 DEF CurrentOK, Usable, Shows
<1>13. DeletionErasesRecordedGraphs'
  BY <1>0, <1>1, <1>2, <1>3, <1>5 DEF DeletionErasesRecordedGraphs, TypeOK
<1> QED BY <1>4, <1>6, <1>8, <1>9, <1>10, <1>11, <1>12, <1>13 DEF GraphInv

\* All steps of the job.
LEMMA IndexingStep ==
    ASSUME GraphInv, Indexing PROVE GraphInv'
BY StartIndexStep, PersistChunksStep, SkipProjectionStep, ProjectGraphStep,
   CommitProjectionStep, CloseIndexStep, ResumeIndexStep, FailIndexStep, IndexStopsStep,
   ProjectionIsLostStep, ThreadOutlivesRunStep, StrayWritesStep
DEF Indexing

-----------------------------------------------------------------------------
(* Requests *)

\* What a step of one request does to the requests.
LEMMA GotoProperties ==
    ASSUME TypeOK, NEW r \in Requests, NEW st \in RequestState, Goto(r, st)
    PROVE  /\ request' \in [Requests -> RequestState] /\ request'[r] = st
           /\ \A s \in Requests : s # r => request'[s] = request[s]
BY DEF TypeOK, Goto

\* Requests that end, or do not hold the lock, and jobs that are queued while
\* nobody deletes.
LEMMA RequestMoves ==
    ASSUME GraphInv,
           UNCHANGED <<document, chunks, result, records, artifact, graph, strays, revived,
                       overtaken>>,
           request' \in [Requests -> RequestState],
           \A s \in Requests : Busy(s)' => request'[s] = request[s],
           job' = job \/ (job' = "queued" /\ job = "none" /\ document
                            /\ \A s \in Requests : request'[s].op \notin Deleting),
           unrecorded' \subseteq Targets, unrecorded \subseteq unrecorded',
           \A s \in Requests : At(s, "rewritten") /\ request[s].result = "succeeded" =>
               request'[s] = request[s] \/ request[s].target \in unrecorded'
    PROVE  GraphInv'
<1>0. /\ TypeOK /\ LocksOK /\ JobOK /\ PendingOK /\ RecordedOK /\ CleanedOK /\ DeletingOK
      /\ RewritingOK /\ CurrentOK /\ DeletionErasesRecordedGraphs
  BY DEF GraphInv
<1>1. TypeOK'
  BY <1>0 DEF TypeOK, JobPlace
<1>2. LocksOK' /\ JobOK' /\ PendingOK'
  BY <1>0 DEF LocksOK, Busy, JobOK, PendingOK, Pending
<1>3. \A u \in Targets : (Nodes(u)' => Nodes(u)) /\ (Shows(u) => Shows(u)')
  BY DEF Nodes, Shows, Present
<1>4. \A u \in Targets : Written(u)' <=> Written(u)
  BY DEF Written, Pending
<1>5. RecordedOK'
  <2>1. ASSUME NEW u \in Targets, Nodes(u)', Rewrote(u) PROVE Rewrote(u)'
    <3>1. PICK s \in Requests : /\ At(s, "rewritten") /\ request[s].result = "succeeded"
                                /\ request[s].content # "none" /\ request[s].target = u
      BY <2>1 DEF Rewrote
    <3>2. u \notin unrecorded'
      BY <2>1 DEF Nodes
    <3> QED BY <3>1, <3>2 DEF Rewrote, At
  <2> QED BY <1>0, <1>3, <1>4, <2>1 DEF RecordedOK
<1>6. CleanedTargets' = CleanedTargets /\ CleanedTargets \subseteq Targets
  BY <1>0 DEF CleanedTargets, TypeOK, ProjectionRecord
<1>7. CleanedOK'
  BY <1>0, <1>3, <1>4, <1>6 DEF CleanedOK
<1>8. DeletingOK'
  <2>1. \A s \in Requests : request[s].op = "erased" => request[s].target \in Targets
    BY <1>0, RequestShapes
  <2> QED BY <1>0, <1>3, <2>1 DEF DeletingOK, Deletes, At, Busy
<1>9. RewritingOK'
  <2>1. \A s \in Requests : request[s].op = "rewritten" => request[s].target \in Targets
    BY <1>0, RequestShapes
  <2>2. Present' = Present
    BY DEF Present
  <2> QED BY <1>0, <1>3, <1>6, <2>1, <2>2 DEF RewritingOK, Rewrites, At, Busy
<1>10. CurrentOK'
  <2>1. \A x \in records : x.target \in Targets
    BY <1>0 DEF TypeOK, ProjectionRecord
  <2>2. \A u \in Targets : Usable(u) => Usable(u)'
    BY <1>3 DEF Usable, DeletionBegun
  <2> QED BY <1>0, <1>4, <1>3, <2>1, <2>2 DEF CurrentOK
<1>11. DeletionErasesRecordedGraphs'
  BY <1>0 DEF DeletionErasesRecordedGraphs
<1> QED BY <1>1, <1>2, <1>5, <1>7, <1>8, <1>9, <1>10, <1>11 DEF GraphInv

\* A new job, while nobody holds the lock.
LEMMA ReindexStep ==
    ASSUME GraphInv, Reindex PROVE GraphInv'
<1>1. TypeOK
  BY DEF GraphInv
<1>2. /\ \A s \in Requests : ~Busy(s)
      /\ document /\ job = "none" /\ job' = "queued"
      /\ UNCHANGED <<document, chunks, result, records, artifact, graph, strays, unrecorded,
                     revived, overtaken>>
      /\ UNCHANGED request
  BY DEF Reindex, WorkflowLocked, Busy, world, taken
<1>3. \A s \in Requests : ~Busy(s)' /\ request'[s].op \notin Deleting
  BY <1>2 DEF Busy
<1> QED BY <1>1, <1>2, <1>3, RequestMoves DEF TypeOK

\* A second upload looks at the document.
LEMMA UploadAgainStep ==
    ASSUME GraphInv, NEW r \in Requests, UploadAgain(r) PROVE GraphInv'
<1>1. TypeOK
  BY DEF GraphInv
<1> DEFINE st == [op |-> "queueing"]
<1>2. st \in RequestState /\ st.op \notin Deleting \cup Rewriting
  BY DEF RequestState, Deleting, Rewriting
<1>3. /\ At(r, "idle") /\ Goto(r, st)
      /\ UNCHANGED <<document, chunks, job, result, records, artifact, graph, strays,
                     unrecorded, revived, overtaken>>
  BY DEF UploadAgain, rows, world, taken
<1> HIDE DEF st
<1>4. /\ request' \in [Requests -> RequestState] /\ request'[r] = st
      /\ \A s \in Requests : s # r => request'[s] = request[s]
  BY <1>1, <1>2, <1>3, GotoProperties
<1>5. \A s \in Requests : Busy(s)' => request'[s] = request[s]
  BY <1>2, <1>4 DEF Busy
<1>6. \A s \in Requests : At(s, "rewritten") => request'[s] = request[s]
  BY <1>3, <1>4 DEF At
<1> QED BY <1>1, <1>3, <1>4, <1>5, <1>6, RequestMoves DEF TypeOK

\* A request that is not under way.
LEMMA IdleType == Idle \in RequestState /\ Idle.op = "idle"
BY DEF Idle, RequestState

\* A second upload queues a job, nobody deleting.
LEMMA QueueUploadedStep ==
    ASSUME GraphInv, NEW r \in Requests, QueueUploaded(r) PROVE GraphInv'
<1>1. TypeOK
  BY DEF GraphInv
<1>2. /\ At(r, "queueing") /\ Goto(r, Idle) /\ \A s \in Requests : request[s].op \notin Deleting
      /\ job' = job \/ (job' = "queued" /\ job = "none" /\ document)
      /\ UNCHANGED <<document, chunks, result, records, artifact, graph, strays, unrecorded,
                     revived, overtaken>>
  BY DEF QueueUploaded, RowLocked, world, taken
<1>3. /\ request' \in [Requests -> RequestState] /\ request'[r] = Idle
      /\ \A s \in Requests : s # r => request'[s] = request[s]
  BY <1>1, <1>2, IdleType, GotoProperties
<1>4. \A s \in Requests : request'[s].op \notin Deleting
  BY <1>2, <1>3, IdleType DEF Deleting
<1>5. \A s \in Requests : Busy(s)' => request'[s] = request[s]
  BY <1>3, IdleType DEF Busy, Deleting, Rewriting
<1>6. \A s \in Requests : At(s, "rewritten") => request'[s] = request[s]
  BY <1>2, <1>3 DEF At
<1> QED BY <1>1, <1>2, <1>3, <1>4, <1>5, <1>6, RequestMoves DEF TypeOK

\* A rewriting that dies after its write leaves it unrecorded.
LEMMA AbandonRematerializeStep ==
    ASSUME GraphInv, NEW r \in Requests, AbandonRematerialize(r) PROVE GraphInv'
<1>1. TypeOK
  BY DEF GraphInv
<1>2. /\ Goto(r, Idle)
      /\ UNCHANGED <<document, chunks, job, result, records, artifact, graph, strays, revived,
                     overtaken>>
  BY DEF AbandonRematerialize, rows, taken
<1>3. /\ request' \in [Requests -> RequestState] /\ request'[r] = Idle
      /\ \A s \in Requests : s # r => request'[s] = request[s]
  BY <1>1, <1>2, IdleType, GotoProperties
<1>4. \A s \in Requests : Busy(s)' => request'[s] = request[s]
  BY <1>3, IdleType DEF Busy, Deleting, Rewriting
<1>5. /\ unrecorded' \subseteq Targets /\ unrecorded \subseteq unrecorded'
      /\ At(r, "rewritten") /\ request[r].result = "succeeded" => request[r].target \in unrecorded'
  <2>1. CASE At(r, "rewriting") /\ UNCHANGED unrecorded
    BY <1>1, <2>1 DEF At, TypeOK
  <2>2. CASE At(r, "rewritten") /\ unrecorded' = Lost(request[r].target, request[r].result)
    <3>1. request[r].target \in Targets
      BY <1>1, <2>2, RequestShapes DEF At
    <3> QED BY <1>1, <2>2, <3>1 DEF Lost, TypeOK
  <2> QED BY <2>1, <2>2 DEF AbandonRematerialize
<1>6. \A s \in Requests : At(s, "rewritten") /\ request[s].result = "succeeded" =>
          request'[s] = request[s] \/ request[s].target \in unrecorded'
  BY <1>3, <1>5
<1> QED BY <1>2, <1>3, <1>4, <1>5, <1>6, RequestMoves

\* A deletion that ends early keeps its markers.
LEMMA AbandonDeleteStep ==
    ASSUME GraphInv, NEW r \in Requests, AbandonDelete(r) PROVE GraphInv'
<1>1. TypeOK
  BY DEF GraphInv
<1>2. /\ request[r].op \in Deleting /\ Goto(r, Idle)
      /\ UNCHANGED <<document, chunks, job, result, records, artifact, graph, strays,
                     unrecorded, revived, overtaken>>
  BY DEF AbandonDelete, rows, world, taken
<1>3. /\ request' \in [Requests -> RequestState] /\ request'[r] = Idle
      /\ \A s \in Requests : s # r => request'[s] = request[s]
  BY <1>1, <1>2, IdleType, GotoProperties
<1>4. \A s \in Requests : Busy(s)' => request'[s] = request[s]
  BY <1>3, IdleType DEF Busy, Deleting, Rewriting
<1>5. \A s \in Requests : At(s, "rewritten") => request'[s] = request[s]
  BY <1>2, <1>3 DEF At, Deleting
<1> QED BY <1>1, <1>2, <1>3, <1>4, <1>5, RequestMoves DEF TypeOK

\* A step of the request that holds the lock, or takes it.
LEMMA HolderStep ==
    ASSUME GraphInv, NEW r \in Requests, job' = job, document, document',
           \A s \in Requests : s # r => ~Busy(s) /\ request'[s] = request[s],
           job = "none" \/ (JobOK' /\ request'[r].op \notin Deleting),
           TypeOK', PendingOK', RecordedOK', CleanedOK', CurrentOK',
           (request[r].op \in Deleting => Deletes(r))',
           (request[r].op \in Rewriting => Rewrites(r))'
    PROVE  GraphInv'
<1>1. \A s \in Requests : Busy(s)' => s = r
  BY DEF Busy
<1>2. LocksOK' /\ JobOK'
  BY <1>1 DEF LocksOK, JobOK, Busy
<1>3. DeletingOK'
  BY <1>1 DEF DeletingOK, Busy
<1>4. RewritingOK'
  BY <1>1 DEF RewritingOK, Busy
<1>5. DeletionErasesRecordedGraphs'
  BY DEF DeletionErasesRecordedGraphs
<1> QED BY <1>2, <1>3, <1>4, <1>5 DEF GraphInv

\* What the invariant says to a request that has the lock, or can have it.
LEMMA HolderAlone ==
    ASSUME GraphInv, NEW r \in Requests, Busy(r)
    PROVE  /\ document /\ \A s \in Requests : s # r => ~Busy(s)
           /\ request[r].op \in Deleting => job = "none"
BY DEF GraphInv, LocksOK

\* Without a job, nodes are on record or a rewriting has just written them.
LEMMA NodesOnRecord ==
    ASSUME GraphInv, document, job = "none"
    PROVE  /\ \A t \in Targets : Nodes(t) /\ ~Rewrote(t) =>
                 \E x \in records : x.target = t /\ x.populated
           /\ \A t \in CleanedTargets : Nodes(t) => t \in revived
BY DEF GraphInv, RecordedOK, CleanedOK, Written

\* A rewriting begins with the chunks the document has.
LEMMA RematerializeStep ==
    ASSUME GraphInv, NEW r \in Requests, Rematerialize(r) PROVE GraphInv'
<1>0. /\ TypeOK /\ PendingOK /\ RecordedOK /\ CleanedOK /\ CurrentOK
  BY DEF GraphInv
<1>1. /\ At(r, "idle") /\ document /\ job = "none" /\ \A s \in Requests : ~Busy(s)
      /\ UNCHANGED <<document, chunks, job, result, records, artifact, graph, strays, unrecorded,
                     revived, overtaken>>
  BY DEF Rematerialize, WorkflowLocked, Busy, rows, world, taken
<1>2. PICK t \in Targets :
          Goto(r, [op |-> "rewriting", target |-> t, content |-> Present])
  BY DEF Rematerialize
<1> DEFINE st == [op |-> "rewriting", target |-> t, content |-> Present]
<1>3. /\ st \in RequestState /\ st.op = "rewriting" /\ st.target = t /\ st.content = Present
  BY DEF RequestState, Present, Contents
<1> HIDE DEF st
<1>4. /\ request' \in [Requests -> RequestState] /\ request'[r] = st
      /\ \A s \in Requests : s # r => request'[s] = request[s]
  BY <1>0, <1>2, <1>3, GotoProperties DEF st
<1>5. TypeOK' /\ PendingOK'
  BY <1>0, <1>1, <1>4 DEF TypeOK, PendingOK, Pending
<1>6. \A u \in Targets : ~Rewrote(u) /\ ~Written(u) /\ (Nodes(u)' <=> Nodes(u))
  BY <1>1 DEF Rewrote, Written, At, Busy, Rewriting, Nodes
<1>7. RecordedOK'
  BY <1>0, <1>1, <1>6 DEF RecordedOK
<1>8. CleanedTargets' = CleanedTargets /\ CleanedTargets \subseteq Targets /\ Present' = Present
  BY <1>0, <1>1 DEF CleanedTargets, TypeOK, ProjectionRecord, Present
<1>9. CleanedOK'
  BY <1>0, <1>1, <1>6, <1>8 DEF CleanedOK
<1>10. CurrentOK'
  BY <1>0, <1>1, <1>8 DEF CurrentOK, Usable, DeletionBegun, Shows, Written
<1> QED BY <1>1, <1>2, <1>3, <1>4, <1>5, <1>7, <1>8, <1>9, <1>10, HolderStep
        DEF Deleting, Rewrites, At

\* The graph is written, or may have been.
LEMMA RewriteGraphStep ==
    ASSUME GraphInv, NEW r \in Requests, RewriteGraph(r) PROVE GraphInv'
<1>0. /\ TypeOK /\ JobOK /\ PendingOK /\ RecordedOK /\ CleanedOK /\ RewritingOK /\ CurrentOK
  BY DEF GraphInv
<1>1. /\ At(r, "rewriting") /\ UNCHANGED <<document, chunks, job, result, records, artifact, strays,
                                            overtaken>>
  BY DEF RewriteGraph, rows
<1>2. /\ document /\ \A s \in Requests : s # r => ~Busy(s)
  BY <1>1, HolderAlone DEF Busy, At, Rewriting
<1>3. PICK t \in Targets, content \in Contents :
          t = request[r].target /\ content = request[r].content
  BY <1>0, <1>1, RequestShapes DEF At
<1>4. /\ (job \in {"none", "queued"} /\ content = Present) \/ t \in overtaken
      /\ revived' = revived \cup ({t} \cap CleanedTargets)
  BY <1>0, <1>1, <1>3 DEF RewritingOK, Rewrites, At, Rewriting, RewriteGraph
<1>5. PICK res \in GraphResult :
          /\ Replace(t, content, res)
          /\ Goto(r, [op |-> "rewritten", target |-> t, content |-> content, result |-> res])
  BY <1>3 DEF RewriteGraph
<1> DEFINE st == [op |-> "rewritten", target |-> t, content |-> content, result |-> res]
<1>6. /\ st \in RequestState /\ st.op = "rewritten" /\ st.target = t /\ st.content = content
      /\ st.result = res
  BY <1>3 DEF RequestState
<1> HIDE DEF st
<1>7. /\ request' \in [Requests -> RequestState] /\ request'[r] = st
      /\ \A s \in Requests : s # r => request'[s] = request[s]
  BY <1>0, <1>5, <1>6, GotoProperties DEF st
<1>8. /\ graph' \in [Targets -> Contents] /\ unrecorded' \subseteq Targets
      /\ \A u \in Targets : u # t => /\ graph'[u] = graph[u]
                                     /\ u \in unrecorded' <=> u \in unrecorded
      /\ Nodes(t)' => \/ Nodes(t) /\ res # "succeeded"
                      \/ res = "succeeded" /\ content # "none"
      /\ res = "succeeded" => graph'[t] = content
      /\ graph'[t] = content \/ t \in unrecorded' \/ graph'[t] = graph[t]
      /\ t \in unrecorded => graph'[t] = content \/ t \in unrecorded'
  BY <1>0, <1>3, <1>5, ReplaceProperties
<1>9. TypeOK' /\ PendingOK'
  BY <1>0, <1>1, <1>3, <1>4, <1>7, <1>8 DEF TypeOK, PendingOK, Pending
<1>10. \A u \in Targets : ~Rewrote(u) /\ (Written(u)' <=> Written(u))
  BY <1>1, <1>2 DEF Rewrote, Written, Pending, At, Busy, Rewriting
<1>11. \A u \in Targets : Nodes(u)' => Nodes(u) \/ (u = t /\ Rewrote(u)')
  <2>1. \A u \in Targets : u # t => (Nodes(u)' => Nodes(u))
    BY <1>8 DEF Nodes
  <2>2. res = "succeeded" /\ content # "none" => Rewrote(t)'
    BY <1>6, <1>7 DEF Rewrote, At
  <2> QED BY <1>8, <2>1, <2>2
<1>12. RecordedOK'
  BY <1>0, <1>1, <1>10, <1>11 DEF RecordedOK
<1>13. CleanedTargets' = CleanedTargets /\ CleanedTargets \subseteq Targets /\ Present' = Present
  BY <1>0, <1>1 DEF CleanedTargets, TypeOK, ProjectionRecord, Present
<1>14. CleanedOK'
  BY <1>0, <1>4, <1>10, <1>11, <1>13 DEF CleanedOK
<1>15. \A u \in Targets : Shows(u) => Shows(u)'
  BY <1>1, <1>4, <1>8, <1>13 DEF Shows
<1>16. CurrentOK'
  <2>1. \A x \in records : x.target \in Targets
    BY <1>0 DEF TypeOK, ProjectionRecord
  <2>2. \A u \in Targets : Usable(u) => Usable(u)'
    BY <1>1, <1>4, <1>8, <1>13, <1>15 DEF Usable, Shows, DeletionBegun
  <2> QED BY <1>0, <1>1, <1>10, <1>15, <2>1, <2>2 DEF CurrentOK
<1>17. res = "succeeded" => Shows(t)'
  BY <1>1, <1>4, <1>8, <1>13 DEF Shows
<1>18. JobOK' /\ request'[r].op \notin Deleting
  BY <1>0, <1>1, <1>6, <1>7 DEF JobOK, Deleting
<1>19. Rewrites(r)'
  BY <1>1, <1>4, <1>6, <1>7, <1>13, <1>17 DEF Rewrites, At
<1> QED BY <1>1, <1>2, <1>7, <1>9, <1>12, <1>14, <1>16, <1>18, <1>19, HolderStep

\* One record more, of a graph that shows the chunks.
LEMMA CommitRematerializedStep ==
    ASSUME GraphInv, NEW r \in Requests, CommitRematerialized(r) PROVE GraphInv'
<1>0. /\ TypeOK /\ JobOK /\ PendingOK /\ RecordedOK /\ CleanedOK /\ RewritingOK /\ CurrentOK
  BY DEF GraphInv
<1>1. /\ At(r, "rewritten") /\ Goto(r, Idle)
      /\ UNCHANGED <<document, chunks, job, result, artifact, graph, strays, unrecorded,
                     revived, overtaken>>
  BY DEF CommitRematerialized, world, taken
<1>2. /\ document /\ \A s \in Requests : s # r => ~Busy(s)
  BY <1>1, HolderAlone DEF Busy, At, Rewriting
<1>3. PICK t \in Targets, content \in Contents, res \in GraphResult :
          t = request[r].target /\ content = request[r].content /\ res = request[r].result
  BY <1>0, <1>1, RequestShapes DEF At
<1> DEFINE new == Record(t, res, content)
<1>4. /\ res = "succeeded" => Shows(t)
      /\ job \in {"none", "queued"} \/ t \in overtaken
  BY <1>0, <1>1, <1>3 DEF RewritingOK, Rewrites, At, Rewriting
<1>5. records' = records \cup {new}
  BY <1>3 DEF CommitRematerialized
<1> HIDE DEF new
<1>6. /\ new \in ProjectionRecord /\ new.target = t /\ new.status = res
      /\ new.cleanup = "none" /\ (new.populated <=> res = "succeeded" /\ content # "none")
  BY <1>3, RecordProperties DEF RecordStatus, new
<1>7. /\ request' \in [Requests -> RequestState] /\ request'[r] = Idle
      /\ \A s \in Requests : s # r => request'[s] = request[s]
  BY <1>0, <1>1, IdleType, GotoProperties
<1>8. TypeOK' /\ PendingOK'
  BY <1>0, <1>1, <1>3, <1>5, <1>6, <1>7 DEF TypeOK, PendingOK, Pending, GraphResult
<1>9. \A u \in Targets : /\ Written(u)' <=> Written(u)
                         /\ Rewrote(u) => u = t /\ res = "succeeded" /\ content # "none"
                         /\ Nodes(u)' <=> Nodes(u)
                         /\ Shows(u)' <=> Shows(u)
  <2>1. Pending' = Pending
    BY <1>3, <1>5, <1>6 DEF Pending, GraphResult
  <2> QED BY <1>1, <1>2, <1>3, <2>1 DEF Rewrote, Written, At, Busy, Rewriting, Nodes, Shows,
                                        Present
<1>10. RecordedOK'
  BY <1>0, <1>1, <1>5, <1>6, <1>9 DEF RecordedOK
<1>11. CleanedTargets' = CleanedTargets /\ CleanedTargets \subseteq Targets
  BY <1>0, <1>5, <1>6 DEF CleanedTargets, TypeOK, ProjectionRecord
<1>12. CleanedOK'
  BY <1>0, <1>1, <1>9, <1>11 DEF CleanedOK
<1>13. CurrentOK'
  <2>1. \A x \in records : x.target \in Targets
    BY <1>0 DEF TypeOK, ProjectionRecord
  <2>2. \A u \in Targets : Usable(u) => Usable(u)'
    BY <1>1, <1>5, <1>9 DEF Usable, DeletionBegun
  <2>3. res = "succeeded" => Usable(t)'
    BY <1>3, <1>4, <1>9 DEF Usable
  <2> QED BY <1>0, <1>3, <1>5, <1>6, <1>9, <2>1, <2>2, <2>3 DEF CurrentOK
<1>14. JobOK'
  BY <1>0, <1>1, <1>3, <1>4, <1>5, <1>6 DEF JobOK, GraphResult
<1> QED BY <1>1, <1>2, <1>7, <1>8, <1>10, <1>12, <1>13, <1>14, IdleType, HolderStep
        DEF Deleting, Rewriting

\* What a marker leaves of the invariant when no job is there.
LEMMA MarkingKeeps ==
    ASSUME GraphInv, job = "none", job' = "none", document,
           NEW ts \in SUBSET Targets, NEW cleanup \in CleanupStatus,
           cleanup # "none",
           records' = Marked(ts, cleanup),
           UNCHANGED <<chunks, unrecorded, revived, overtaken>>,
           \A t \in Targets : graph'[t] = graph[t] \/ (t \in ts /\ graph'[t] = "none"),
           \A t \in Targets : ~Rewrote(t),
           cleanup = "succeeded" => \A t \in ts : Nodes(t)' => t \in revived
    PROVE  PendingOK' /\ RecordedOK' /\ CleanedOK' /\ CurrentOK'
<1>0. /\ TypeOK /\ PendingOK /\ RecordedOK /\ CleanedOK /\ CurrentOK
  BY DEF GraphInv
<1>1. /\ \A y \in records' : \E x \in records : MarkedFrom(y, x, ts, cleanup)
      /\ \A x \in records : \E y \in records' : MarkedFrom(y, x, ts, cleanup)
      /\ records' \subseteq ProjectionRecord
  BY <1>0, MarkedProperties
<1>2. \A x \in records : x.target \in Targets
  BY <1>0 DEF TypeOK, ProjectionRecord
<1>3. PendingOK'
  <2>1. \A y \in Pending' : ~y.populated
    BY <1>0, <1>1 DEF PendingOK, Pending, MarkedFrom
  <2>2. ASSUME NEW y \in Pending', NEW z \in Pending' PROVE y = z
    <3>1. PICK x \in records : MarkedFrom(y, x, ts, cleanup)
      BY <1>1 DEF Pending
    <3>2. PICK v \in records : MarkedFrom(z, v, ts, cleanup)
      BY <1>1 DEF Pending
    <3>3. x = v
      BY <1>0, <3>1, <3>2 DEF PendingOK, Pending, MarkedFrom
    <3>4. y \in ProjectionRecord /\ z \in ProjectionRecord
      BY <1>1 DEF Pending
    <3> QED BY <3>1, <3>2, <3>3, <3>4 DEF ProjectionRecord, MarkedFrom
  <2> QED BY <2>1, <2>2 DEF PendingOK
<1>4. \A t \in Targets : /\ ~Written(t) /\ ~Written(t)'
                         /\ Nodes(t)' => Nodes(t)
  BY DEF Written, Nodes
<1>5. RecordedOK'
  <2> SUFFICES ASSUME NEW t \in Targets, Nodes(t)'
               PROVE  \E y \in records' : y.target = t /\ y.populated
    BY DEF RecordedOK
  <2>1. PICK x \in records : x.target = t /\ x.populated
    BY <1>0, <1>4 DEF RecordedOK
  <2> QED BY <1>1, <2>1 DEF MarkedFrom
<1>6. CleanedOK'
  <2> SUFFICES ASSUME NEW y \in records', y.cleanup = "succeeded" 
               PROVE  Nodes(y.target)' => y.target \in revived
    BY DEF CleanedOK, CleanedTargets
  <2>1. PICK x \in records :
            /\ y.target = x.target
            /\ y.cleanup = IF x.target \in ts THEN cleanup ELSE x.cleanup
    BY <1>1 DEF MarkedFrom
  <2>2. CASE x.target \in ts
    BY <2>1, <2>2
  <2>3. CASE x.target \notin ts
    <3>1. x.target \in CleanedTargets /\ x.target \in Targets
      BY <1>2, <2>1, <2>3 DEF CleanedTargets
    <3> QED BY <1>0, <1>4, <2>1, <3>1 DEF CleanedOK
  <2> QED BY <2>2, <2>3
<1>7. CurrentOK'
  <2> SUFFICES ASSUME NEW y \in records', y.status = "succeeded" PROVE Usable(y.target)'
    BY <1>4 DEF CurrentOK
  <2>1. PICK x \in records :
            /\ y.target = x.target /\ y.status = x.status
            /\ y.cleanup = IF x.target \in ts THEN cleanup ELSE x.cleanup
    BY <1>1 DEF MarkedFrom
  <2>2. x.target \in Targets /\ Usable(x.target)
    BY <1>0, <1>2, <2>1 DEF CurrentOK
  <2>3. x.target \in ts => DeletionBegun(x.target)'
    BY <2>1 DEF DeletionBegun
  <2>4. DeletionBegun(x.target) => DeletionBegun(x.target)'
    <3> SUFFICES ASSUME NEW z \in records, z.target = x.target, z.cleanup # "none"
                 PROVE  DeletionBegun(x.target)'
      BY DEF DeletionBegun
    <3>1. PICK w \in records' : /\ w.target = z.target
                               /\ w.cleanup = IF z.target \in ts THEN cleanup ELSE z.cleanup
      BY <1>1 DEF MarkedFrom
    <3> QED BY <3>1 DEF DeletionBegun
  <2> QED BY <2>1, <2>2, <2>3, <2>4 DEF Usable, Shows, Present
<1> QED BY <1>3, <1>5, <1>6, <1>7

\* Rewritten is what a request says it has rewritten.
LEMMA NobodyRewrote ==
    ASSUME \A s \in Requests : request[s].op # "rewritten"
    PROVE  \A t \in Targets : ~Rewrote(t)
BY DEF Rewrote, At

\* All recorded nodes are in the list of the deletion, those of targets cleaned
\* before excepted, which have none.
LEMMA BeginDeleteStep ==
    ASSUME GraphInv, NEW r \in Requests, BeginDelete(r) PROVE GraphInv'
<1>0. TypeOK
  BY DEF GraphInv
<1>1. /\ document /\ job = "none" /\ \A s \in Requests : ~Busy(s)
      /\ UNCHANGED <<document, chunks, job, result, artifact, graph, strays, unrecorded,
                     revived, overtaken>>
      /\ records' = Marked(CleanedTargets, "succeeded")
      /\ Goto(r, [op |-> "cleaning", todo |-> TargetsToClean])
  BY DEF BeginDelete, WorkflowLocked, Busy, world, taken
<1>2. CleanedTargets \subseteq Targets /\ TargetsToClean \subseteq Targets
  BY <1>0 DEF CleanedTargets, TargetsToClean, TypeOK, ProjectionRecord
<1> DEFINE st == [op |-> "cleaning", todo |-> TargetsToClean]
<1>3. st \in RequestState /\ st.op = "cleaning" /\ st.todo = TargetsToClean
  BY <1>2 DEF RequestState
<1> HIDE DEF st
<1>4. /\ request' \in [Requests -> RequestState] /\ request'[r] = st
      /\ \A s \in Requests : s # r => request'[s] = request[s]
  BY <1>0, <1>1, <1>3, GotoProperties DEF st
<1>5. \A t \in Targets : /\ Nodes(t)' <=> Nodes(t)
                         /\ graph'[t] = graph[t]
                         /\ ~Rewrote(t)
  BY <1>1, NobodyRewrote DEF Nodes, Busy, Rewriting
<1>6. \A t \in CleanedTargets : Nodes(t) => t \in revived
  BY <1>1, NodesOnRecord
<1>7. PendingOK' /\ RecordedOK' /\ CleanedOK' /\ CurrentOK'
  BY <1>1, <1>2, <1>5, <1>6, MarkingKeeps DEF CleanupStatus
<1>8. TypeOK'
  <2>1. records' \subseteq ProjectionRecord
    BY <1>0, <1>1, <1>2, MarkedProperties DEF CleanupStatus
  <2> QED BY <1>0, <1>1, <1>4, <2>1 DEF TypeOK
<1>9. \A t \in Targets : Nodes(t)' => t \in TargetsToClean \/ t \in revived
  <2> SUFFICES ASSUME NEW t \in Targets, Nodes(t), t \notin revived PROVE t \in TargetsToClean
    BY <1>5
  <2>1. PICK x \in records : x.target = t /\ x.populated
    BY <1>1, <1>5, NodesOnRecord
  <2>2. t \notin CleanedTargets
    BY <1>6
  <2> QED BY <2>1, <2>2 DEF TargetsToClean, NeedsCleanup, CleanedTargets
<1>10. (request[r].op \in Deleting => Deletes(r))'
  BY <1>1, <1>3, <1>4, <1>9 DEF Deletes, At
<1>11. request'[r].op \notin Rewriting
  BY <1>3, <1>4 DEF Rewriting
<1> QED BY <1>1, <1>4, <1>7, <1>8, <1>10, <1>11, HolderStep

\* What a deletion under way knows.
LEMMA Deleter ==
    ASSUME GraphInv, NEW r \in Requests, request[r].op \in Deleting
    PROVE  /\ document /\ job = "none" /\ Deletes(r)
           /\ \A s \in Requests : s # r => ~Busy(s)
           /\ \A t \in Targets : ~Rewrote(t)
<1>1. Busy(r)
  BY DEF Busy
<1>2. document /\ job = "none" /\ \A s \in Requests : s # r => ~Busy(s)
  BY <1>1, HolderAlone
<1>3. \A s \in Requests : request[s].op # "rewritten"
  BY <1>2 DEF Busy, Deleting, Rewriting
<1> QED BY <1>2, <1>3, NobodyRewrote DEF GraphInv, DeletingOK

\* From now on no record of the target is for retrieval.
LEMMA MarkRunningStep ==
    ASSUME GraphInv, NEW r \in Requests, MarkRunning(r) PROVE GraphInv'
<1>0. TypeOK
  BY DEF GraphInv
<1>1. /\ At(r, "cleaning")
      /\ UNCHANGED <<document, chunks, job, result, artifact, graph, strays, unrecorded,
                     revived, overtaken>>
  BY DEF MarkRunning, world, taken
<1>2. /\ document /\ job = "none" /\ Deletes(r) /\ \A s \in Requests : s # r => ~Busy(s)
      /\ \A t \in Targets : ~Rewrote(t)
  BY <1>1, Deleter DEF At, Deleting
<1>3. PICK todo \in SUBSET Targets : todo = request[r].todo
  BY <1>0, <1>1, RequestShapes DEF At
<1>4. PICK t \in todo : /\ records' = Marked({t}, "running")
                        /\ Goto(r, [op |-> "erasing", todo |-> todo, target |-> t])
  BY <1>3 DEF MarkRunning
<1> DEFINE st == [op |-> "erasing", todo |-> todo, target |-> t]
<1>5. st \in RequestState /\ st.op = "erasing" /\ st.todo = todo /\ st.target = t
  BY DEF RequestState
<1> HIDE DEF st
<1>6. /\ request' \in [Requests -> RequestState] /\ request'[r] = st
      /\ \A s \in Requests : s # r => request'[s] = request[s]
  BY <1>0, <1>4, <1>5, GotoProperties DEF st
<1>7. \A u \in Targets : (Nodes(u)' <=> Nodes(u)) /\ graph'[u] = graph[u]
  BY <1>1 DEF Nodes
<1>8. {t} \in SUBSET Targets /\ "running" \in CleanupStatus
  BY DEF CleanupStatus
<1>9. PendingOK' /\ RecordedOK' /\ CleanedOK' /\ CurrentOK'
  BY <1>1, <1>2, <1>4, <1>7, <1>8, MarkingKeeps
<1>10. /\ records' \subseteq ProjectionRecord
       /\ \A y \in records' : y.target = t => y.cleanup # "none"
  BY <1>0, <1>4, <1>8, MarkedProperties DEF MarkedFrom
<1>11. TypeOK'
  BY <1>0, <1>1, <1>6, <1>10 DEF TypeOK
<1>12. (request[r].op \in Deleting => Deletes(r))'
  BY <1>1, <1>2, <1>3, <1>5, <1>6, <1>7, <1>10 DEF Deletes, At
<1>13. request'[r].op \notin Rewriting
  BY <1>5, <1>6 DEF Rewriting
<1> QED BY <1>1, <1>2, <1>6, <1>9, <1>11, <1>12, <1>13, HolderStep

\* The nodes of the target are gone.
LEMMA EraseGraphStep ==
    ASSUME GraphInv, NEW r \in Requests, EraseGraph(r) PROVE GraphInv'
<1>0. TypeOK /\ PendingOK /\ RecordedOK /\ CleanedOK /\ CurrentOK
  BY DEF GraphInv
<1>1. /\ At(r, "erasing")
      /\ UNCHANGED <<document, chunks, job, result, records, artifact, strays, revived, overtaken>>
  BY DEF EraseGraph, rows, taken
<1>2. /\ document /\ job = "none" /\ Deletes(r) /\ \A s \in Requests : s # r => ~Busy(s)
      /\ \A t \in Targets : ~Rewrote(t)
  BY <1>1, Deleter DEF At, Deleting
<1>3. PICK t \in Targets : t = request[r].target
  BY <1>0, <1>1, RequestShapes DEF At
<1>4. graph' = [graph EXCEPT ![t] = "none"] /\ unrecorded' = unrecorded \ {t}
  BY <1>3 DEF EraseGraph
<1> DEFINE st == [request[r] EXCEPT !.op = "erased"]
<1>5. st \in RequestState /\ st.op = "erased" /\ st.todo = request[r].todo /\ st.target = t
  <2>1. request[r] \in [op : {"erasing", "erased"}, todo : SUBSET Targets, target : Targets]
    BY <1>0, <1>1, RequestShapes DEF At
  <2>2. /\ st \in [op : {"erasing", "erased"}, todo : SUBSET Targets, target : Targets]
        /\ st.op = "erased" /\ st.todo = request[r].todo /\ st.target = t
    BY <1>3, <2>1
  <2> HIDE DEF st
  <2> QED BY <2>2 DEF RequestState
<1>6. Goto(r, st)
  BY DEF EraseGraph
<1> HIDE DEF st
<1>7. /\ request' \in [Requests -> RequestState] /\ request'[r] = st
      /\ \A s \in Requests : s # r => request'[s] = request[s]
  BY <1>0, <1>5, <1>6, GotoProperties
<1>8. graph'[t] = "none" /\ \A u \in Targets : u # t => graph'[u] = graph[u]
  BY <1>0, <1>4 DEF TypeOK
<1>9. /\ \A u \in Targets : (Nodes(u)' => Nodes(u)) /\ (u # t => (Shows(u) => Shows(u)'))
      /\ ~Nodes(t)'
  BY <1>1, <1>4, <1>8 DEF Nodes, Shows, Present
<1>10. TypeOK' /\ PendingOK'
  BY <1>0, <1>1, <1>4, <1>7 DEF TypeOK, PendingOK, Pending, Contents
<1>11. \A u \in Targets : ~Written(u) /\ ~Written(u)'
  BY <1>1, <1>2 DEF Written
<1>12. RecordedOK'
  BY <1>0, <1>1, <1>2, <1>9, <1>11 DEF RecordedOK
<1>13. CleanedOK'
  <2>1. CleanedTargets' = CleanedTargets /\ CleanedTargets \subseteq Targets
    BY <1>0, <1>1 DEF CleanedTargets, TypeOK, ProjectionRecord
  <2> QED BY <1>0, <1>1, <1>9, <1>11, <2>1 DEF CleanedOK
<1>14. \A x \in records : x.target = t => x.cleanup # "none"
  BY <1>1, <1>2, <1>3 DEF Deletes, At
<1>15. CurrentOK'
  <2>1. \A x \in records : x.target \in Targets
    BY <1>0 DEF TypeOK, ProjectionRecord
  <2>2. \A u \in Targets : u # t => (Usable(u) => Usable(u)')
    BY <1>1, <1>8, <1>9 DEF Usable, DeletionBegun
  <2>3. \A x \in records : x.target = t => Usable(t)'
    BY <1>1, <1>8, <1>14 DEF Usable, DeletionBegun
  <2> QED BY <1>0, <1>1, <1>11, <2>1, <2>2, <2>3 DEF CurrentOK
<1>16. (request[r].op \in Deleting => Deletes(r))'
  BY <1>1, <1>2, <1>5, <1>7, <1>9, <1>14 DEF Deletes, At
<1>17. request'[r].op \notin Rewriting
  BY <1>5, <1>7 DEF Rewriting
<1> QED BY <1>1, <1>2, <1>7, <1>10, <1>12, <1>13, <1>15, <1>16, <1>17, HolderStep

\* The deletion ends, the nodes of the target gone or not.
LEMMA EraseFailsStep ==
    ASSUME GraphInv, NEW r \in Requests, EraseFails(r) PROVE GraphInv'
<1>0. TypeOK
  BY DEF GraphInv
<1>1. /\ At(r, "erasing") /\ Goto(r, Idle)
      /\ UNCHANGED <<document, chunks, job, result, artifact, strays, unrecorded, revived,
                     overtaken>>
  BY DEF EraseFails, taken
<1>2. /\ document /\ job = "none" /\ Deletes(r) /\ \A s \in Requests : s # r => ~Busy(s)
      /\ \A t \in Targets : ~Rewrote(t)
  BY <1>1, Deleter DEF At, Deleting
<1>3. PICK t \in Targets : t = request[r].target
  BY <1>0, <1>1, RequestShapes DEF At
<1>4. /\ graph' \in {graph, [graph EXCEPT ![t] = "none"]}
      /\ records' = Marked({t}, "failed")
  BY <1>3 DEF EraseFails
<1>5. /\ request' \in [Requests -> RequestState] /\ request'[r] = Idle
      /\ \A s \in Requests : s # r => request'[s] = request[s]
  BY <1>0, <1>1, IdleType, GotoProperties
<1>6. /\ graph' \in [Targets -> Contents]
      /\ \A u \in Targets : u # t => graph'[u] = graph[u]
      /\ graph'[t] \in {graph[t], "none"}
  BY <1>0, <1>4 DEF TypeOK, Contents
<1>7. \A u \in Targets : graph'[u] = graph[u] \/ (u \in {t} /\ graph'[u] = "none")
  BY <1>6
<1>8. {t} \in SUBSET Targets /\ "failed" \in CleanupStatus
  BY DEF CleanupStatus
<1>9. PendingOK' /\ RecordedOK' /\ CleanedOK' /\ CurrentOK'
  BY <1>1, <1>2, <1>4, <1>7, <1>8, MarkingKeeps
<1>10. TypeOK'
  <2>1. records' \subseteq ProjectionRecord
    BY <1>0, <1>4, <1>8, MarkedProperties
  <2> QED BY <1>0, <1>1, <1>5, <1>6, <2>1 DEF TypeOK
<1> QED BY <1>1, <1>2, <1>5, <1>9, <1>10, IdleType, HolderStep DEF Deleting, Rewriting

\* The target is marked cleaned, having no nodes.
LEMMA MarkErasedStep ==
    ASSUME GraphInv, NEW r \in Requests, MarkErased(r) PROVE GraphInv'
<1>0. TypeOK
  BY DEF GraphInv
<1>1. /\ At(r, "erased")
      /\ UNCHANGED <<document, chunks, job, result, artifact, graph, strays, unrecorded,
                     revived, overtaken>>
  BY DEF MarkErased, world, taken
<1>2. /\ document /\ job = "none" /\ Deletes(r) /\ \A s \in Requests : s # r => ~Busy(s)
      /\ \A t \in Targets : ~Rewrote(t)
  BY <1>1, Deleter DEF At, Deleting
<1>3. PICK t \in Targets, todo \in SUBSET Targets :
          t = request[r].target /\ todo = request[r].todo
  BY <1>0, <1>1, RequestShapes DEF At
<1>4. /\ records' = Marked({t}, "succeeded")
      /\ Goto(r, [op |-> "cleaning", todo |-> todo \ {t}])
  BY <1>3 DEF MarkErased
<1> DEFINE st == [op |-> "cleaning", todo |-> todo \ {t}]
<1>5. st \in RequestState /\ st.op = "cleaning" /\ st.todo = todo \ {t}
  BY DEF RequestState
<1> HIDE DEF st
<1>6. /\ request' \in [Requests -> RequestState] /\ request'[r] = st
      /\ \A s \in Requests : s # r => request'[s] = request[s]
  BY <1>0, <1>4, <1>5, GotoProperties DEF st
<1>7. \A u \in Targets : (Nodes(u)' <=> Nodes(u)) /\ graph'[u] = graph[u]
  BY <1>1 DEF Nodes
<1>8. {t} \in SUBSET Targets /\ "succeeded" \in CleanupStatus
  BY DEF CleanupStatus
<1>9. ~Nodes(t) /\ \A u \in Targets : Nodes(u) => u \in todo \/ u \in revived
  BY <1>1, <1>2, <1>3 DEF Deletes
<1>10. PendingOK' /\ RecordedOK' /\ CleanedOK' /\ CurrentOK'
  BY <1>1, <1>2, <1>4, <1>7, <1>8, <1>9, MarkingKeeps
<1>11. TypeOK'
  <2>1. records' \subseteq ProjectionRecord
    BY <1>0, <1>4, <1>8, MarkedProperties
  <2> QED BY <1>0, <1>1, <1>6, <2>1 DEF TypeOK
<1>12. (request[r].op \in Deleting => Deletes(r))'
  BY <1>1, <1>5, <1>6, <1>7, <1>9 DEF Deletes, At
<1>13. request'[r].op \notin Rewriting
  BY <1>5, <1>6 DEF Rewriting
<1> QED BY <1>1, <1>2, <1>6, <1>10, <1>11, <1>12, <1>13, HolderStep

\* The list is empty, so no recorded nodes are left.
LEMMA UnlinkArtifactStep ==
    ASSUME GraphInv, NEW r \in Requests, UnlinkArtifact(r) PROVE GraphInv'
<1>0. TypeOK /\ PendingOK /\ RecordedOK /\ CleanedOK /\ CurrentOK
  BY DEF GraphInv
<1>1. /\ At(r, "cleaning") /\ request[r].todo = {} /\ artifact' = FALSE
      /\ UNCHANGED <<document, chunks, job, result, records, graph, strays, unrecorded,
                     revived, overtaken>>
  BY DEF UnlinkArtifact, rows, taken
<1>2. /\ document /\ job = "none" /\ Deletes(r) /\ \A s \in Requests : s # r => ~Busy(s)
      /\ \A t \in Targets : ~Rewrote(t)
  BY <1>1, Deleter DEF At, Deleting
<1> DEFINE st == [request[r] EXCEPT !.op = "unlinked"]
<1>3. st \in RequestState /\ st.op = "unlinked" /\ st.todo = {}
  <2>1. request[r] \in [op : {"cleaning", "unlinked"}, todo : SUBSET Targets]
    BY <1>0, <1>1, RequestShapes DEF At
  <2>2. /\ st \in [op : {"cleaning", "unlinked"}, todo : SUBSET Targets]
        /\ st.op = "unlinked" /\ st.todo = {}
    BY <1>1, <2>1
  <2> HIDE DEF st
  <2> QED BY <2>2 DEF RequestState
<1>4. Goto(r, st)
  BY DEF UnlinkArtifact
<1> HIDE DEF st
<1>5. /\ request' \in [Requests -> RequestState] /\ request'[r] = st
      /\ \A s \in Requests : s # r => request'[s] = request[s]
  BY <1>0, <1>3, <1>4, GotoProperties
<1>6. \A u \in Targets : /\ Nodes(u)' <=> Nodes(u)
                         /\ Usable(u)' <=> Usable(u)
                         /\ ~Written(u) /\ ~Written(u)'
  BY <1>1, <1>2 DEF Nodes, Usable, DeletionBegun, Shows, Present, Written
<1>7. TypeOK' /\ PendingOK'
  BY <1>0, <1>1, <1>5 DEF TypeOK, PendingOK, Pending
<1>8. RecordedOK'
  BY <1>0, <1>1, <1>2, <1>6 DEF RecordedOK
<1>9. CleanedOK'
  <2>1. CleanedTargets' = CleanedTargets /\ CleanedTargets \subseteq Targets
    BY <1>0, <1>1 DEF CleanedTargets, TypeOK, ProjectionRecord
  <2> QED BY <1>0, <1>1, <1>6, <2>1 DEF CleanedOK
<1>10. CurrentOK'
  <2>1. \A x \in records : x.target \in Targets
    BY <1>0 DEF TypeOK, ProjectionRecord
  <2> QED BY <1>0, <1>1, <1>6, <2>1 DEF CurrentOK
<1>11. (request[r].op \in Deleting => Deletes(r))'
  BY <1>1, <1>2, <1>3, <1>5, <1>6 DEF Deletes, At
<1>12. request'[r].op \notin Rewriting
  BY <1>3, <1>5 DEF Rewriting
<1> QED BY <1>1, <1>2, <1>5, <1>7, <1>8, <1>9, <1>10, <1>11, <1>12, HolderStep

\* Everything on record has been erased when the rows go.
LEMMA CommitDeleteStep ==
    ASSUME GraphInv, NEW r \in Requests, CommitDelete(r) PROVE GraphInv'
<1>0. TypeOK
  BY DEF GraphInv
<1>1. /\ At(r, "unlinked") /\ Goto(r, Idle)
      /\ document' = FALSE /\ chunks' = FALSE /\ records' = {}
      /\ UNCHANGED <<job, result, artifact, graph, strays, unrecorded, revived, overtaken>>
  BY DEF CommitDelete, world, taken
<1>2. /\ document /\ job = "none" /\ Deletes(r) /\ \A s \in Requests : s # r => ~Busy(s)
  BY <1>1, Deleter DEF At, Deleting
<1>3. /\ request' \in [Requests -> RequestState] /\ request'[r] = Idle
      /\ \A s \in Requests : s # r => request'[s] = request[s]
  BY <1>0, <1>1, IdleType, GotoProperties
<1>4. \A s \in Requests : request'[s].op \notin Deleting \cup Rewriting
  BY <1>2, <1>3, IdleType DEF Busy, Deleting, Rewriting
<1>5. TypeOK'
  BY <1>0, <1>1, <1>3 DEF TypeOK
<1>6. LocksOK' /\ DeletingOK' /\ RewritingOK'
  BY <1>4 DEF LocksOK, DeletingOK, RewritingOK, Busy
<1>7. JobOK' /\ PendingOK' /\ RecordedOK' /\ CleanedOK' /\ CurrentOK'
  BY <1>1, <1>2 DEF JobOK, PendingOK, Pending, RecordedOK, CleanedOK, CleanedTargets,
                    CurrentOK, Written
<1>8. DeletionErasesRecordedGraphs'
  <2>1. \A t \in Targets : Nodes(t) => t \in revived
    BY <1>1, <1>2 DEF Deletes
  <2> QED BY <1>1, <2>1 DEF DeletionErasesRecordedGraphs, Nodes
<1> QED BY <1>5, <1>6, <1>7, <1>8 DEF GraphInv

-----------------------------------------------------------------------------
\* A document that was uploaded and queued has no graph.
LEMMA InitInvariant == Init => GraphInv
<1> SUFFICES ASSUME Init PROVE GraphInv
  OBVIOUS
<1>1. TypeOK
  BY IdleType DEF Init, TypeOK, JobPlace, GraphResult, Contents
<1>2. \A r \in Requests : request[r].op \notin Deleting \cup Rewriting
  BY IdleType DEF Init, Deleting, Rewriting
<1>3. LocksOK /\ DeletingOK /\ RewritingOK
  BY <1>2 DEF LocksOK, DeletingOK, RewritingOK, Busy
<1>4. JobOK /\ PendingOK /\ RecordedOK /\ CleanedOK /\ CurrentOK
  BY DEF Init, JobOK, PendingOK, Pending, RecordedOK, CleanedOK, CleanedTargets, CurrentOK,
         Written, Nodes
<1>5. DeletionErasesRecordedGraphs
  BY DEF Init, DeletionErasesRecordedGraphs
<1> QED BY <1>1, <1>3, <1>4, <1>5 DEF GraphInv

\* Every step keeps the invariant.
LEMMA StepInvariant ==
    ASSUME GraphInv, [Next]_vars PROVE GraphInv'
<1>1. CASE Indexing \/ Reindex
  BY <1>1, IndexingStep, ReindexStep
<1>2. ASSUME NEW r \in Requests, Requested(r) PROVE GraphInv'
  BY <1>2, UploadAgainStep, QueueUploadedStep, RematerializeStep, RewriteGraphStep,
     CommitRematerializedStep, AbandonRematerializeStep, BeginDeleteStep, MarkRunningStep,
     EraseGraphStep, EraseFailsStep, MarkErasedStep, UnlinkArtifactStep, CommitDeleteStep,
     AbandonDeleteStep DEF Requested
<1>3. CASE UNCHANGED vars
  BY <1>3 DEF vars, rows, world, taken, GraphInv, TypeOK, LocksOK, Busy, JobOK, PendingOK,
              Pending, RecordedOK, Nodes, Written, Rewrote, At, CleanedOK, CleanedTargets,
              DeletingOK, Deletes, RewritingOK, Rewrites, Present, CurrentOK, Usable,
              DeletionBegun, Shows, DeletionErasesRecordedGraphs
<1> QED BY <1>1, <1>2, <1>3 DEF Next, Deleted

\* The inductive invariant holds in every state of a behaviour.
LEMMA GraphInvariant == Spec => []GraphInv
<1>1. GraphInv /\ [Next]_vars => GraphInv'
  BY StepInvariant
<1> QED BY InitInvariant, <1>1, PTL DEF Spec

-----------------------------------------------------------------------------
\* The types of the variables, for any requests, targets and records.
THEOREM DocumentGraphType == Spec => []TypeOK
<1>1. GraphInv => TypeOK
  BY DEF GraphInv
<1> QED BY <1>1, GraphInvariant, PTL

\* delete_document with delete_document_graph: a document that is gone has left no
\* nodes in any graph its records spoke of, whatever failed, died or was abandoned
\* before, and however many profiles and former indexings it had; the graphs that
\* were rewritten after a deletion had erased and marked them excepted.
THEOREM DeletionLeavesNoGraph == Spec => []DeletionErasesRecordedGraphs
<1>1. GraphInv => DeletionErasesRecordedGraphs
  BY DEF GraphInv
<1> QED BY <1>1, GraphInvariant, PTL

\* materialize_pending and rematerialize_document: when the document is at rest, a
\* projection that says SUCCEEDED shows the chunks the document has, or is of a
\* graph that a deletion has begun to erase; unless some write of it was never
\* recorded, or an index run began beside its rewriting.
THEOREM UsableGraphIsCurrent == Spec => []SucceededProjectionIsCurrent
<1>1. GraphInv => SucceededProjectionIsCurrent
  BY DEF GraphInv, CurrentOK, Usable, Shows, SucceededProjectionIsCurrent
<1> QED BY <1>1, GraphInvariant, PTL
=============================================================================
