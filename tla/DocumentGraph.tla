--------------------------- MODULE DocumentGraph ---------------------------
(***************************************************************************)
(* The graph of one document in Neo4j, against the projection records that *)
(* say where it is: what deletion, rematerialisation, reindexing and a     *)
(* second upload of the same file do to them, request against request and  *)
(* against the index job.  Neo4j takes part in no SQL transaction, so each *)
(* of its calls is a step of its own, before the commit that records it.   *)
(*                                                                         *)
(* The job is JobQueue's, and its run IndexPipeline's, seen from here: who *)
(* may have it is left out, where it stops and what it then leaves is not. *)
(***************************************************************************)
EXTENDS Naturals, FiniteSets

CONSTANTS
    Requests,    \* sessions of the API
    Targets,     \* (workspace, URI, user) of a graph, one for each profile
    MaxRecords   \* bound: how many projection records there are at once

ASSUME MaxRecordsAssumption == MaxRecords \in Nat \ {0}

VARIABLES
    document, \* the row is there
    artifact, \* the uploaded file is there
    chunks,   \* the document has chunks
    job,      \* where the active index job stands, "none" without one
    result,   \* of the job's replace_document_graph, until it is committed
    records,  \* the committed GraphProjectionRecords: equal ones are one
    graph,    \* by target, the nodes there: of the chunks the document has now,
              \* of chunks it had, or none
    strays,   \* graphs that threads of abandoned runs are about to write
    request,  \* by session, the operation it is in
    unrecorded, \* history: the targets with nodes whose write no commit recorded,
    revived,    \* those rewritten after a deletion had erased and marked them,
    overtaken   \* and those whose rewriting an index run began beside

rows  == <<document, chunks, job, result, records>>
taken == <<revived, overtaken>>
world == <<artifact, graph, strays, unrecorded, taken>>
vars  == <<rows, world, request>>

GraphResult   == {"succeeded", "failed", "skipped"}
RecordStatus  == GraphResult \cup {"pending", "stale"}
CleanupStatus == {"none", "running", "succeeded", "failed"}
ProjectionRecord ==
    [target : Targets, status : RecordStatus, populated : BOOLEAN, cleanup : CleanupStatus]

JobPlace  == {"none", "queued", "resume", "cleaned", "indexed", "projected", "closing"}
Deleting  == {"cleaning", "erasing", "erased", "unlinked"}
Rewriting == {"rewriting", "rewritten"}
Contents  == {"none", "current", "old"}

Idle == [op |-> "idle"]
RequestState ==
    {Idle, [op |-> "queueing"]}
    \cup [op : {"cleaning", "unlinked"}, todo : SUBSET Targets]
    \cup [op : {"erasing", "erased"}, todo : SUBSET Targets, target : Targets]
    \cup [op : {"rewriting"}, target : Targets, content : Contents]
    \cup [op : {"rewritten"}, target : Targets, content : Contents, result : GraphResult]

\* A document that was uploaded and queued.
Init ==
    /\ document = TRUE /\ artifact = TRUE
    /\ chunks = FALSE /\ job = "queued" /\ result = "skipped"
    /\ records = {} /\ strays = {}
    /\ unrecorded = {} /\ revived = {} /\ overtaken = {}
    /\ graph = [t \in Targets |-> "none"]
    /\ request = [r \in Requests |-> Idle]

At(r, op)   == request[r].op = op
Goto(r, st) == request' = [request EXCEPT ![r] = st]

\* pg_advisory_xact_lock of the document, and FOR UPDATE of its row.
WorkflowLocked == \E r \in Requests : request[r].op \in Deleting \cup Rewriting
RowLocked      == \E r \in Requests : request[r].op \in Deleting
BeingRewritten == \E r \in Requests : request[r].op \in Rewriting

-----------------------------------------------------------------------------
(* The index job                                                           *)

\* cleanup_document_index_artifacts, for the projection records: what never
\* became a graph goes, what did is kept for the deletion to find.
Superseded(recs) ==
    {[r EXCEPT !.status = IF @ = "succeeded" THEN "stale" ELSE @] :
        r \in {x \in recs : x.status \in {"succeeded", "stale"} \/ x.populated}}

Record(t, status, content) ==
    [target |-> t, status |-> status, cleanup |-> "none",
     populated |-> status = "succeeded" /\ content # "none"]

Pending == {r \in records : r.status = "pending"}

CleanedTargets == {r.target : r \in {x \in records : x.cleanup = "succeeded"}}

Present == IF chunks THEN "current" ELSE "none"
Aged(content) == IF content = "current" THEN "old" ELSE content

\* cleanup_document_index_artifacts: what shows these chunks is out of date.
CleanArtifacts ==
    /\ chunks' = FALSE
    /\ records' = Superseded(records)
    /\ graph' = [t \in Targets |-> Aged(graph[t])]
    /\ strays' = {[s EXCEPT !.content = Aged(@)] : s \in strays}
    /\ request' = [r \in Requests |->
                     IF request[r].op \in Rewriting
                     THEN [request[r] EXCEPT !.content = Aged(@)] ELSE request[r]]
    /\ overtaken' = {request[r].target : r \in {x \in Requests : request[x].op \in Rewriting}}
    /\ UNCHANGED revived

StartIndex ==
    /\ job = "queued"
    /\ job' = "cleaned"
    /\ CleanArtifacts
    /\ UNCHANGED <<document, result, artifact, unrecorded>>

\* Parsing, _create_pending_graph_projection for whatever profile is active,
\* and the chunks.
PersistChunks ==
    /\ job = "cleaned" /\ artifact
    /\ Cardinality(records) < MaxRecords
    /\ job' = "indexed"
    /\ chunks' = TRUE
    /\ \E t \in Targets : records' = records \cup {Record(t, "pending", "none")}
    /\ UNCHANGED <<document, result, world, request>>

\* The enrichment failed: _mark_graph_projection_skipped.
SkipProjection ==
    /\ job = "indexed"
    /\ job' = "closing"
    /\ records' = (records \ Pending) \cup {[r EXCEPT !.status = "skipped"] : r \in Pending}
    /\ UNCHANGED <<document, chunks, result, world, request>>

\* replace_document_graph: one Neo4j transaction.  One that is reported as failed
\* may have been committed, the answer being lost.
Replace(t, content, res) ==
    \/ /\ res = "succeeded"
       /\ graph' = [graph EXCEPT ![t] = content]
       /\ unrecorded' = unrecorded \ {t} \* unless Lost
    \/ /\ res # "succeeded"
       /\ UNCHANGED <<graph, unrecorded>>
    \/ /\ res = "failed"
       /\ graph' = [graph EXCEPT ![t] = content]
       /\ unrecorded' = unrecorded \cup {t}

ProjectGraph ==
    /\ job = "indexed"
    /\ \E r \in Pending, res \in GraphResult :
         /\ result' = res
         /\ Replace(r.target, Present, res)
    /\ job' = "projected"
    /\ UNCHANGED <<document, chunks, records, artifact, strays, taken, request>>

\* The commit after a write to t that ended with res does not come.
Lost(t, res) == IF res = "succeeded" THEN unrecorded \cup {t} ELSE unrecorded

\* _delete_stale_records_for_target: a success removes the other records of the
\* same graph, whatever they say.
Projected(recs, r) ==
    {x \in recs : x # r /\ ~(result = "succeeded" /\ x.target = r.target)}
    \cup {Record(r.target, result, Present)}

CommitProjection ==
    /\ job = "projected"
    /\ job' = "none"
    /\ \E r \in Pending :
         /\ records' = Projected(records, r)
         /\ revived' = IF result = "succeeded" THEN revived \ {r.target} ELSE revived
    /\ result' = "skipped"
    /\ UNCHANGED <<document, chunks, artifact, graph, strays, unrecorded, overtaken, request>>

CloseIndex ==
    /\ \/ job = "closing"
       \/ job = "indexed" /\ Pending = {} \* a resumption with nothing to project
    /\ job' = "none"
    /\ UNCHANGED <<document, chunks, result, records, world, request>>

\* An exception in the run, be it after the graph was written; a resumption fails
\* as in IndexStops.
FailIndex ==
    /\ job \in {"cleaned", "indexed", "projected", "closing"}
    /\ job' = "none"
    /\ CleanArtifacts
    /\ \/ job # "projected" /\ UNCHANGED unrecorded
       \/ job = "projected" /\ \E r \in Pending : unrecorded' = Lost(r.target, result)
    /\ result' = "skipped"
    /\ UNCHANGED <<document, artifact>>

\* A run dies or loses its lease; the job is tried again or given up.
TriedAgain == IF job \in {"queued", "cleaned"} THEN {"queued", "none"}
              ELSE {"queued", "resume", "none"}

IndexStops ==
    /\ job \notin {"none", "projected"}
    /\ job' \in TriedAgain
    /\ UNCHANGED <<document, chunks, result, records, world, request>>

\* The graph is written but not committed; or the thread that is to write it
\* lives on (bound: one such thread).
ProjectionIsLost ==
    /\ job = "projected"
    /\ job' \in TriedAgain
    /\ \E r \in Pending : unrecorded' = Lost(r.target, result)
    /\ result' = "skipped"
    /\ UNCHANGED <<document, chunks, records, artifact, graph, strays, taken, request>>

ThreadOutlivesRun ==
    /\ job = "indexed" /\ strays = {}
    /\ job' \in TriedAgain
    /\ \E r \in Pending : strays' = {[target |-> r.target, content |-> Present]}
    /\ UNCHANGED <<document, chunks, result, records, artifact, graph, unrecorded, taken,
                   request>>

ResumeIndex ==
    /\ job = "resume"
    /\ job' = "indexed"
    /\ UNCHANGED <<document, chunks, result, records, world, request>>

StrayWrites ==
    \E s \in strays :
        /\ graph' = [graph EXCEPT ![s.target] = s.content]
        /\ strays' = strays \ {s}
        /\ unrecorded' = unrecorded \cup {s.target}
        /\ UNCHANGED <<rows, artifact, taken, request>>

Indexing ==
    \/ StartIndex \/ PersistChunks \/ SkipProjection \/ ProjectGraph \/ CommitProjection
    \/ CloseIndex \/ ResumeIndex
    \/ FailIndex \/ IndexStops \/ ProjectionIsLost \/ ThreadOutlivesRun \/ StrayWrites

-----------------------------------------------------------------------------
(* New jobs                                                                *)

\* create_index_job
Reindex ==
    /\ ~WorkflowLocked
    /\ document /\ job = "none"
    /\ job' = "queued"
    /\ UNCHANGED <<document, chunks, result, records, world, request>>

\* _ensure_queued_index_job: the document is found and has no active job ...
UploadAgain(r) ==
    /\ At(r, "idle")
    /\ document /\ job = "none"
    /\ Goto(r, [op |-> "queueing"])
    /\ UNCHANGED <<rows, world>>

\* ... and one is added, under no lock but the row's: none beside another active
\* job, and none for a document that is gone by then.  (A stale copy of the row
\* may let such a job through; it would find no document and write nothing.)
QueueUploaded(r) ==
    /\ At(r, "queueing")
    /\ ~RowLocked
    /\ job' = IF document /\ job = "none" THEN "queued" ELSE job
    /\ Goto(r, Idle)
    /\ UNCHANGED <<document, chunks, result, records, world>>

-----------------------------------------------------------------------------
(* rematerialize_document                                                  *)

\* Mutant: without a look at the jobs.
RematerializeUnchecked(r) ==
    /\ At(r, "idle") /\ ~WorkflowLocked
    /\ document
    /\ Cardinality(records) < MaxRecords
    /\ \E t \in Targets : Goto(r, [op |-> "rewriting", target |-> t, content |-> Present])
    /\ UNCHANGED <<rows, world>>

Rematerialize(r) ==
    /\ At(r, "idle") /\ ~WorkflowLocked
    /\ document /\ job = "none"
    /\ Cardinality(records) < MaxRecords
    /\ \E t \in Targets : Goto(r, [op |-> "rewriting", target |-> t, content |-> Present])
    /\ UNCHANGED <<rows, world>>

\* Whatever the records say of a deletion.
RewriteGraph(r) ==
    /\ At(r, "rewriting")
    /\ revived' = revived \cup ({request[r].target} \cap CleanedTargets)
    /\ \E res \in GraphResult :
         /\ Replace(request[r].target, request[r].content, res)
         /\ Goto(r, [op |-> "rewritten", target |-> request[r].target,
                     content |-> request[r].content, result |-> res])
    /\ UNCHANGED <<rows, artifact, strays, overtaken>>

\* One record more; those that were there stay.
CommitRematerialized(r) ==
    /\ At(r, "rewritten")
    /\ records' = records \cup {Record(request[r].target, request[r].result, request[r].content)}
    /\ Goto(r, Idle)
    /\ UNCHANGED <<document, chunks, job, result, world>>

AbandonRematerialize(r) ==
    /\ \/ /\ At(r, "rewriting")
          /\ UNCHANGED unrecorded
       \/ /\ At(r, "rewritten")
          /\ unrecorded' = Lost(request[r].target, request[r].result)
    /\ Goto(r, Idle)
    /\ UNCHANGED <<rows, artifact, graph, strays, taken>>

-----------------------------------------------------------------------------
(* delete_document and delete_document_graph                               *)

\* Mutant: only what retrieval uses.
NeedsCleanupSucceeded(r) == r.cleanup # "succeeded" /\ r.status = "succeeded"

\* _needs_graph_cleanup
NeedsCleanup(r) == r.cleanup # "succeeded" /\ (r.status = "succeeded" \/ r.populated)

\* The targets to be cleaned: none that a former deletion cleaned already.
TargetsToClean == {r.target : r \in {x \in records : NeedsCleanup(x)}} \ CleanedTargets

\* _persist_cleanup_marker, committed by a session of its own.
Marked(ts, cleanup) ==
    {IF r.target \in ts THEN [r EXCEPT !.cleanup = cleanup] ELSE r : r \in records}

\* All the records of a target cleaned already are marked so.
BeginDelete(r) ==
    /\ At(r, "idle") /\ ~WorkflowLocked
    /\ document /\ job = "none"
    /\ records' = Marked(CleanedTargets, "succeeded")
    /\ Goto(r, [op |-> "cleaning", todo |-> TargetsToClean])
    /\ UNCHANGED <<document, chunks, job, result, world>>

MarkRunning(r) ==
    /\ At(r, "cleaning")
    /\ \E t \in request[r].todo :
         /\ records' = Marked({t}, "running")
         /\ Goto(r, [op |-> "erasing", todo |-> request[r].todo, target |-> t])
    /\ UNCHANGED <<document, chunks, job, result, world>>

EraseGraph(r) ==
    /\ At(r, "erasing")
    /\ graph' = [graph EXCEPT ![request[r].target] = "none"]
    /\ unrecorded' = unrecorded \ {request[r].target}
    /\ Goto(r, [request[r] EXCEPT !.op = "erased"])
    /\ UNCHANGED <<rows, artifact, strays, taken>>

\* The deletion ends here; Neo4j may have done its part.
EraseFails(r) ==
    /\ At(r, "erasing")
    /\ graph' \in {graph, [graph EXCEPT ![request[r].target] = "none"]}
    /\ records' = Marked({request[r].target}, "failed")
    /\ Goto(r, Idle)
    /\ UNCHANGED <<document, chunks, job, result, artifact, strays, unrecorded, taken>>

MarkErased(r) ==
    /\ At(r, "erased")
    /\ records' = Marked({request[r].target}, "succeeded")
    /\ Goto(r, [op |-> "cleaning", todo |-> request[r].todo \ {request[r].target}])
    /\ UNCHANGED <<document, chunks, job, result, world>>

\* Every graph is erased; the rows are deleted in the open transaction.
UnlinkArtifact(r) ==
    /\ At(r, "cleaning") /\ request[r].todo = {}
    /\ artifact' = FALSE
    /\ Goto(r, [request[r] EXCEPT !.op = "unlinked"])
    /\ UNCHANGED <<rows, graph, strays, unrecorded, taken>>

CommitDelete(r) ==
    /\ At(r, "unlinked")
    /\ document' = FALSE
    /\ chunks' = FALSE
    /\ records' = {}
    /\ Goto(r, Idle)
    /\ UNCHANGED <<job, result, world>>

\* unlink raises, the commit fails, the process dies: what was deleted comes
\* back, what was marked stays marked.
AbandonDelete(r) ==
    /\ request[r].op \in Deleting
    /\ Goto(r, Idle)
    /\ UNCHANGED <<rows, world>>

Requested(r) ==
    \/ UploadAgain(r) \/ QueueUploaded(r)
    \/ Rematerialize(r) \/ RewriteGraph(r) \/ CommitRematerialized(r) \/ AbandonRematerialize(r)
    \/ BeginDelete(r) \/ MarkRunning(r) \/ EraseGraph(r) \/ EraseFails(r) \/ MarkErased(r)
    \/ UnlinkArtifact(r) \/ CommitDelete(r) \/ AbandonDelete(r)

\* Nothing is left to do for a document that is gone.
Deleted ==
    /\ ~document
    /\ \A r \in Requests : At(r, "idle")
    /\ UNCHANGED vars

Next == Indexing \/ Reindex \/ Deleted \/ \E r \in Requests : Requested(r)

Spec == Init /\ [][Next]_vars

-----------------------------------------------------------------------------
(* Properties                                                              *)

TypeOK ==
    /\ {document, artifact, chunks} \subseteq BOOLEAN
    /\ job \in JobPlace /\ result \in GraphResult
    /\ records \subseteq ProjectionRecord
    /\ graph \in [Targets -> Contents]
    /\ unrecorded \subseteq Targets /\ revived \subseteq Targets /\ overtaken \subseteq Targets
    /\ strays \subseteq [target : Targets, content : Contents]
    /\ request \in [Requests -> RequestState]

\* A document that is gone has left no nodes in any graph it was recorded to
\* have: not in that of a profile no longer active, nor in one that a run given
\* up had superseded, nor in one whose deletion had failed half way.  What no
\* record speaks of is left where it is, and so is a graph that was rewritten
\* after a deletion had erased it: to delete_document_graph it is cleaned.
DeletionErasesRecordedGraphs ==
    document \/ \A t \in Targets : graph[t] = "none" \/ t \in unrecorded \cup revived

\* A deletion of this graph was begun and not finished.
DeletionBegun(t) == \E r \in records : r.target = t /\ r.cleanup # "none"

\* A graph that retrieval may use, for it asks no more than that a record says
\* SUCCEEDED (_graph_degradation), shows the chunks the document has now, when no
\* job is active and no request rewrites it.  It may be empty once a deletion was
\* begun, and it may be anything if an index run began beside its rewriting.
SucceededProjectionIsCurrent ==
    job = "none" /\ ~BeingRewritten =>
        \A r \in records : r.status = "succeeded" =>
            \/ graph[r.target] = Present
            \/ graph[r.target] = "none" /\ DeletionBegun(r.target)
            \/ r.target \in unrecorded \cup overtaken
=============================================================================
