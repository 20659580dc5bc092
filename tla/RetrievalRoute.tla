---------------------------- MODULE RetrievalRoute ----------------------------
(***************************************************************************)
(* Which retrieval lanes a query may use: what the index and the graph of  *)
(* the selected documents allow, what their domain metadata says, and the  *)
(* policies of the query, as RetrievalRoutePlanner.plan puts them          *)
(* together.  The canonical lane is required whatever they say; the vector *)
(* lane has no executor in the application and is left out.                *)
(***************************************************************************)
EXTENDS Naturals, Sequences

\* What _query_config makes of profile, variant and request; no request can switch the
\* graph off: only the degradations, put in afterwards, do.
QueryConfigs ==
    [retrieval_mode : {"hybrid", "metadata"}, reference_query_mode : {"hybrid", "exact"},
     graph_expansion_enabled : {TRUE}, graph_unavailable : {FALSE}]

\* What the metadata of the selected documents tells the classifier.
Domains ==
    [subject : {"legal", "medical", "financial", "code", "other"}, verified : BOOLEAN,
     layout : {"none", "visual", "reference"}]

\* A materialization policy, of the query or of a document: none has to name an action.
Policies == [allow : BOOLEAN, action : {"", "full", "persist_only"}]
PolicyLists == UNION {[1 .. n -> Policies] : n \in 0 .. 2}

-----------------------------------------------------------------------------
\* Some selected document has no index record that succeeded and fits.
IndexDegraded(records) == \E d \in DOMAIN records : records[d] # "succeeded"

\* The latest projection of some selected document is missing or did not succeed.
GraphDegraded(projections) ==
    \E d \in DOMAIN projections :
        projections[d] = <<>> \/ projections[d][Len(projections[d])] # "succeeded"

\* _run_runtime_query writes both degradations into the query config.
Degraded(config, index, graph) ==
    [config EXCEPT
        !.retrieval_mode = IF index THEN "metadata" ELSE @,
        !.graph_expansion_enabled = @ /\ ~graph,
        !.graph_unavailable = graph]

-----------------------------------------------------------------------------
LayoutHint(domain) ==
    IF domain.subject = "financial" /\ domain.layout = "none" THEN "visual" ELSE domain.layout

\* DomainClassifier.classify: subjects come before the contract, the contract
\* before the layout.
ProfileOf(domain) ==
    CASE domain.subject = "legal"     -> "legal_reference"
      [] domain.subject = "medical"   -> "medical_reference"
      [] domain.subject = "financial" -> "financial_reference"
      [] domain.subject = "code"      -> "code_reference"
      [] domain.subject = "other" /\ domain.verified -> "reference_heavy"
      [] domain.subject = "other" /\ ~domain.verified ->
            IF domain.layout = "visual" THEN "multimodal_layout" ELSE "general"

ClassifiedHint(domain) ==
    IF domain.verified /\ domain.subject \in {"legal", "other"} THEN "graph"
    ELSE IF domain.subject # "code" /\ LayoutHint(domain) = "visual" THEN "full"
    ELSE "vector"

\* The lanes of the registered profiles.
RetrievalPriority(profile) ==
    IF profile \in {"general", "multimodal_layout", "medical_reference"}
      THEN {"graph", "raganything_runtime"}
      ELSE {"graph"}

\* Every plan has these two besides.
LaneOrder(profile) == {"postgres_canonical", "metadata"} \cup RetrievalPriority(profile)

Classify(domain) == [profile |-> ProfileOf(domain), hint |-> ClassifiedHint(domain)]
Classifications == {Classify(domain) : domain \in Domains}

MaterializationHint(config, classification) ==
    IF config.retrieval_mode = "metadata" THEN "canonical_only"
    ELSE IF ~config.graph_expansion_enabled THEN "vector"
    ELSE classification.hint

\* _materialization_policy: every policy may forbid the lane, the first one that
\* names an action decides it.
MaterializationPolicy(policies) ==
    LET allow == \A i \in DOMAIN policies : policies[i].allow
        named == {i \in DOMAIN policies : policies[i].action # ""}
    IN  [allow  |-> allow,
         action |-> IF named # {} THEN policies[CHOOSE i \in named : \A j \in named : i <= j].action
                    ELSE IF allow THEN "full" ELSE "persist_only"]
MaterializationPolicies == {MaterializationPolicy(policies) : policies \in PolicyLists}

\* _allow_runtime_lane; every registered profile supports every hint.
AllowRuntimeLane(config, classification, policy) ==
    /\ policy.allow
    /\ \/ policy.action = "full"
       \/ MaterializationHint(config, classification) \in {"runtime", "full"}

\* A metadata query disables the runtime, as a query for an exact reference does.
RuntimeReady(config) ==
    config.retrieval_mode # "metadata" /\ config.reference_query_mode # "exact"
GraphReady(config) == config.graph_expansion_enabled /\ ~config.graph_unavailable

\* _build_lane_plan: whether the lane is not skipped; projects says that no quality
\* policy of the query or of a document blocks the graph.
LaneRuns(lane, config, classification, policy, projects) ==
    /\ lane = "graph" => projects /\ GraphReady(config)
    /\ lane = "raganything_runtime" =>
          RuntimeReady(config) /\ AllowRuntimeLane(config, classification, policy)

PlannedLanes(config, classification, policy, projects) ==
    {lane \in LaneOrder(classification.profile) :
        LaneRuns(lane, config, classification, policy, projects)}

\* Every plan a query can get when its index and its graph are as given.
Plans(indexDegraded, graphDegraded) ==
    {PlannedLanes(Degraded(config, indexDegraded, graphDegraded), classification, policy, projects) :
        config \in QueryConfigs, classification \in Classifications,
        policy \in MaterializationPolicies, projects \in BOOLEAN}
=============================================================================
