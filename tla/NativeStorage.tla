---------------------------- MODULE NativeStorage ----------------------------
(***************************************************************************)
(* The native runtime, native_raganything_adapter.py over LightRAG, takes  *)
(* its database settings from the process environment.  Every operation on *)
(* it runs inside scoped_native_storage_env (native_storage_config.py),    *)
(* which takes a process-wide lock, writes the settings of the operation's *)
(* own profile into os.environ, runs, and puts back what was there.  The   *)
(* operations of a process are tasks of the event loop (queries, under the *)
(* timeout of _timed_native_candidates, and deletions) and threads with an *)
(* event loop of their own (the insertions of the enrichment stage), which *)
(* interleave at every write.                                              *)
(*                                                                         *)
(* A query with selected documents also replaces the chunk store of its    *)
(* LightRAG by a proxy that filters rows, and turns the answer cache off.  *)
(***************************************************************************)
CONSTANTS
    Queries, Inserts, Deletes,  \* the tasks of one process
    Keys,                       \* the environment variables of env_updates
    Values, Unset,              \* what a variable may hold; Unset: it is absent
    Docs,                       \* documents the runtime has indexed
    Settings,                   \* task -> the settings of its profile, "" as Unset
    Selected,                   \* query -> its document_ids, {} for all documents
    NoTask                      \* the lock's owner when it is free

Tasks == Queries \cup Inserts \cup Deletes

ASSUME StorageAssumption ==
    /\ Queries \cap (Inserts \cup Deletes) = {}
    /\ NoTask \notin Tasks
    /\ Keys # {}
    /\ Settings \in [Tasks -> [Keys -> Values \cup {Unset}]]
    /\ Selected \in [Queries -> SUBSET Docs]

VARIABLES
    env,        \* os.environ, on Keys
    env0,       \* what it was when the process started
    lock,       \* NATIVE_STORAGE_ENV_LOCK
    previous,   \* task -> the environment it saved
    todo,       \* task -> the keys it has still to write or to restore
    pc,         \* task -> where it is
    stage,      \* query -> "preflight" or "query", the call it is in
    proxied,    \* query -> its chunk store is the proxy and its cache is off
    cached,     \* the answers in the LLM cache, each the documents it is from
    result      \* query -> what the caller gets

storageVars == <<env, env0, lock, previous, todo, pc, stage, proxied, cached, result>>

envVars == <<env, lock, previous, todo>>
queryVars == <<stage, proxied, cached, result>>

Outcomes == {"none", "answered", "unsupported", "filter_failed", "failed", "timeout"}
Result(o, sources, text) == [outcome |-> o, sources |-> sources, text |-> text]
NoResult == Result("none", {}, {})

PCs == {"waiting", "setting", "inside", "scoped", "restoring", "leaving", "ended"}

Environments == [Keys -> Values \cup {Unset}]

-----------------------------------------------------------------------------
\* A query with selected documents first makes the call preflight_scoped_retrieval.
StorageInit ==
    /\ env \in Environments
    /\ env0 = env
    /\ lock = NoTask
    /\ previous = [t \in Tasks |-> env]
    /\ todo = [t \in Tasks |-> {}]
    /\ pc = [t \in Tasks |-> "waiting"]
    /\ stage = [q \in Queries |-> IF Selected[q] = {} THEN "query" ELSE "preflight"]
    /\ proxied = [q \in Queries |-> FALSE]
    /\ cached = {}
    /\ result = [q \in Queries |-> NoResult]

Scoped(t) == t \in Queries /\ Selected[t] # {}

\* Mutant: a task that finds the lock taken goes on without it.
AcquireRacing(t) ==
    /\ pc[t] = "waiting"
    /\ lock' = t
    /\ previous' = [previous EXCEPT ![t] = env]
    /\ todo' = [todo EXCEPT ![t] = Keys]
    /\ pc' = [pc EXCEPT ![t] = "setting"]
    /\ UNCHANGED <<env, env0, queryVars>>

\* AsyncThreadLock.__aenter__ got the lock, and the environment was saved.
Acquire(t) ==
    /\ pc[t] = "waiting" /\ lock = NoTask
    /\ lock' = t
    /\ previous' = [previous EXCEPT ![t] = env]
    /\ todo' = [todo EXCEPT ![t] = Keys]
    /\ pc' = [pc EXCEPT ![t] = "setting"]
    /\ UNCHANGED <<env, env0, queryVars>>

\* One turn of the loop that writes the settings of the profile.
WriteKey(t) ==
    /\ pc[t] = "setting"
    /\ \E k \in todo[t] :
         /\ env' = [env EXCEPT ![k] = Settings[t][k]]
         /\ todo' = [todo EXCEPT ![t] = @ \ {k}]
         /\ pc' = [pc EXCEPT ![t] = IF todo[t] = {k} THEN "inside" ELSE "setting"]
    /\ UNCHANGED <<env0, lock, previous, queryVars>>

\* The body is left, by whatever way: the finally of the context begins.
Leave(t) ==
    /\ pc' = [pc EXCEPT ![t] = "restoring"]
    /\ todo' = [todo EXCEPT ![t] = Keys]
    /\ UNCHANGED <<env, env0, lock, previous>>

\* Mutant: a variable that was absent is left as the operation set it.
RestoreKeyThatWas(t) ==
    /\ pc[t] = "restoring"
    /\ \E k \in todo[t] :
         /\ env' = IF previous[t][k] = Unset THEN env ELSE [env EXCEPT ![k] = previous[t][k]]
         /\ todo' = [todo EXCEPT ![t] = @ \ {k}]
         /\ pc' = [pc EXCEPT ![t] = IF todo[t] = {k} THEN "leaving" ELSE "restoring"]
    /\ UNCHANGED <<env0, lock, previous, queryVars>>

\* One turn of the loop that puts the saved values back.
RestoreKey(t) ==
    /\ pc[t] = "restoring"
    /\ \E k \in todo[t] :
         /\ env' = [env EXCEPT ![k] = previous[t][k]]
         /\ todo' = [todo EXCEPT ![t] = @ \ {k}]
         /\ pc' = [pc EXCEPT ![t] = IF todo[t] = {k} THEN "leaving" ELSE "restoring"]
    /\ UNCHANGED <<env0, lock, previous, queryVars>>

\* The lock is released; a query whose preflight is fine goes on to its second call.
Release(t) ==
    /\ pc[t] = "leaving"
    /\ lock' = NoTask
    /\ IF t \in Queries /\ stage[t] = "preflight" /\ result[t] = NoResult
         THEN /\ stage' = [stage EXCEPT ![t] = "query"]
              /\ pc' = [pc EXCEPT ![t] = "waiting"]
         ELSE /\ pc' = [pc EXCEPT ![t] = "ended"]
              /\ UNCHANGED stage
    /\ UNCHANGED <<env, env0, previous, todo, proxied, cached, result>>

-----------------------------------------------------------------------------
\* The body of index_preparsed_chunks, index_document and delete_document_index:
\* it ends, or raises, or its task is cancelled.
EndWork(t) ==
    /\ t \in Inserts \cup Deletes /\ pc[t] = "inside"
    /\ Leave(t)
    /\ UNCHANGED queryVars

Answers(q, r) == result' = [result EXCEPT ![q] = r]

\* LightRAG cannot be initialised, or its store cannot filter by document:
\* the preflight reports the second, and so does the query if it comes to it.
Refuse(q) ==
    /\ q \in Queries /\ pc[q] = "inside"
    /\ \/ Answers(q, Result("failed", {}, {}))
       \/ Scoped(q) /\ Answers(q, Result("unsupported", {}, {}))
    /\ Leave(q)
    /\ UNCHANGED <<stage, proxied, cached>>

PreflightOk(q) ==
    /\ q \in Queries /\ pc[q] = "inside" /\ stage[q] = "preflight"
    /\ Leave(q)
    /\ UNCHANGED queryVars

\* _scoped_chunks_vdb: the proxy is put in and the cache turned off.
EnterScope(q) ==
    /\ q \in Queries /\ pc[q] = "inside" /\ stage[q] = "query" /\ Scoped(q)
    /\ proxied' = [proxied EXCEPT ![q] = TRUE]
    /\ pc' = [pc EXCEPT ![q] = "scoped"]
    /\ UNCHANGED <<envVars, env0, stage, cached, result>>

\* What the chunk store gives for the rows the database returns: the proxy
\* keeps the rows of the selected documents, the store itself all of them.
StoreRows(q, rows) == IF proxied[q] THEN rows \cap Selected[q] ELSE rows

\* Mutant: the cache stays on under the proxy.
TextsOrCached(q, rows) == {StoreRows(q, rows)} \cup cached

\* The text of an answer over these rows: from the cache, when it is on and
\* has one for the question, else from the rows.  A new text is cached.
Texts(q, rows) ==
    {StoreRows(q, rows)} \cup IF proxied[q] THEN {} ELSE cached

Remembered(q, text) == cached' = IF proxied[q] THEN cached ELSE cached \cup {text}

\* aquery under the proxy: it answers, or the filter failed inside it (the
\* proxy keeps the error; aquery may swallow it), or it raises; the finally
\* of _scoped_chunks_vdb takes the proxy out in the same segment.
AnswerScoped(q) ==
    /\ pc[q] = "scoped"
    /\ \/ \E rows \in SUBSET Docs : \E text \in Texts(q, rows) :
             /\ Answers(q, Result("answered", StoreRows(q, rows), text))
             /\ Remembered(q, text)
       \/ /\ \/ Answers(q, Result("filter_failed", {}, {}))
             \/ Answers(q, Result("failed", {}, {}))
          /\ UNCHANGED cached
    /\ proxied' = [proxied EXCEPT ![q] = FALSE]
    /\ Leave(q)
    /\ UNCHANGED stage

\* aquery over all documents: its sources are not reported.
AnswerUnscoped(q) ==
    /\ q \in Queries /\ pc[q] = "inside" /\ stage[q] = "query" /\ ~Scoped(q)
    /\ \E rows \in SUBSET Docs : \E text \in Texts(q, rows) :
         /\ Answers(q, Result("answered", {}, text))
         /\ Remembered(q, text)
    /\ Leave(q)
    /\ UNCHANGED <<stage, proxied>>

\* Mutant: a task that waits for the lock cannot be cancelled.
TimeOutInBody(q) ==
    /\ q \in Queries /\ pc[q] \in {"inside", "scoped"}
    /\ Answers(q, Result("timeout", {}, {}))
    /\ proxied' = [proxied EXCEPT ![q] = FALSE]
    /\ Leave(q)
    /\ UNCHANGED <<stage, cached>>

\* wait_for cancels the query where it awaits: while it waits for the lock
\* (its turn of sleep(0) is cancelled), or in the body, whose contexts unwind.
TimeOut(q) ==
    /\ q \in Queries /\ pc[q] \in {"waiting", "inside", "scoped"}
    /\ Answers(q, Result("timeout", {}, {}))
    /\ proxied' = [proxied EXCEPT ![q] = FALSE]
    /\ IF pc[q] = "waiting"
         THEN pc' = [pc EXCEPT ![q] = "ended"] /\ UNCHANGED <<envVars, env0>>
         ELSE Leave(q)
    /\ UNCHANGED <<stage, cached>>

-----------------------------------------------------------------------------
Context(t) == Acquire(t) \/ WriteKey(t) \/ RestoreKey(t) \/ Release(t)

Query(q) ==
    \/ Refuse(q) \/ PreflightOk(q) \/ EnterScope(q)
    \/ AnswerScoped(q) \/ AnswerUnscoped(q) \/ TimeOut(q)

AllEnded == \A t \in Tasks : pc[t] = "ended"

\* Every task has ended: the process waits for the next requests.
Quiet == AllEnded /\ UNCHANGED storageVars

StorageNext ==
    \/ \E t \in Tasks : Context(t) \/ EndWork(t)
    \/ \E q \in Queries : Query(q)
    \/ Quiet

\* The event loops run what is ready and the timeout of a query comes.
\* Nothing makes the work of an insertion or of a deletion end.
StorageFairness ==
    /\ \A t \in Tasks : WF_storageVars(Context(t))
    /\ \A q \in Queries : WF_storageVars(TimeOut(q))

StorageSpec == StorageInit /\ [][StorageNext]_storageVars /\ StorageFairness

-----------------------------------------------------------------------------
StorageTypeOK ==
    /\ env \in Environments /\ env0 \in Environments
    /\ lock \in Tasks \cup {NoTask}
    /\ previous \in [Tasks -> Environments]
    /\ todo \in [Tasks -> SUBSET Keys]
    /\ pc \in [Tasks -> PCs]
    /\ stage \in [Queries -> {"preflight", "query"}]
    /\ proxied \in [Queries -> BOOLEAN]
    /\ cached \subseteq SUBSET Docs
    /\ result \in [Queries -> [outcome : Outcomes, sources : SUBSET Docs,
                               text : SUBSET Docs]]

\* An operation on the storage only ever runs under the settings of its own
\* profile, whatever other operations of the process are doing
\* (test_native_storage_config.py: two profiles never see each other).
OwnSettings == \A t \in Tasks : pc[t] \in {"inside", "scoped"} => env = Settings[t]

\* Whenever no operation holds the lock, the environment is the one the
\* process started with: also after failures, cancellations and timeouts.
SettingsRestored == lock = NoTask => env = env0

\* An answer to a query with selected documents is from those documents
\* alone: its sources, and its text, which no cached answer replaces.
AnswersInScope ==
    \A q \in Queries : Scoped(q) /\ result[q].outcome = "answered" =>
        result[q].sources \cup result[q].text \subseteq Selected[q]

\* When a query has ended, or is in none of its bodies, its chunk store is the
\* store itself again and its cache is on: nothing later runs under the proxy.
ProxyTakenOut == \A q \in Queries : proxied[q] <=> pc[q] = "scoped"

\* Every query ends, also when an insertion holds the lock for ever.
QueriesEnd == \A q \in Queries : <>(pc[q] = "ended")
=============================================================================
