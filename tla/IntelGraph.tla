------------------------------ MODULE IntelGraph ------------------------------
(***************************************************************************)
(* What follows the intake of a scam signal, step by step and for several  *)
(* signals at once: its cluster and the cluster's count, its embedding and *)
(* the signals of similar text, its node of the fraud graph and the edges  *)
(* to cluster and similarity peers, its OSINT row.  Every phase is best    *)
(* effort: one that fails is logged and the next one goes on.  Reviewers   *)
(* draft rules from clusters and put indicators into campaigns meanwhile.  *)
(***************************************************************************)
EXTENDS Naturals, FiniteSets, FiniteSetsExt

CONSTANTS
    Signals,       \* scam signals, each with an indicator of its own; their ids are numbers
    KeyOf,         \* deriveClusterKey: a signal's domain root or email domain, or NoKey
    NoKey,
    Alike,         \* pairs of signals with texts at SIMILARITY_THRESHOLD or above
    Enrichable,    \* signals whose indicator type OSINT knows
    Campaign,      \* the id of a campaign node
    Scores,        \* confidence scores
    MAX_NODES,     \* of a collision search, scaled down
    MIN_SIGNALS_FOR_SUGGESTION,
    Crew,          \* concurrent requests
    RunBound,      \* requests
    MishapBound    \* phases that fail

ASSUME IntelAssumption ==
    /\ Signals \subseteq Nat /\ IsFiniteSet(Signals) /\ IsFiniteSet(Crew) /\ Campaign \in Nat \ Signals
    /\ \A p \in Alike : p \in Signals \X Signals /\ p[1] < p[2]
    /\ Scores \subseteq Nat /\ Scores # {} /\ MAX_NODES \in Nat /\ RunBound \in Nat /\ MishapBound \in Nat

VARIABLES
    clusters,      \* scam_clusters: key |-> signalCount
    clusterOf,     \* scam_signals.clusterId
    embedded,      \* signal_embeddings
    similar,       \* signal_similarities
    nodes,         \* fraud_graph_nodes of indicators: signalCount, riskScore
    edges,         \* fraud_graph_edges
    enriched,      \* osint_enrichments
    suggested,        \* detection rules suggested, by cluster
    crew,          \* requests under way
    runs, mishaps,
    processed,     \* history: scores with which a signal's node was written
    spoilt         \* history: what overlapped or failed

intelVars == <<clusters, clusterOf, embedded, similar, nodes, edges, enriched, suggested, crew, runs,
               mishaps, processed, spoilt>>

Keys == {KeyOf[s] : s \in Signals} \ {NoKey}
Resting == [at |-> "none", signal |-> Campaign, score |-> 0, text |-> FALSE, key |-> NoKey,
            read |-> 0, todo |-> {}]
NoNode == [count |-> 0, risk |-> 0]

\* Nothing yet, or one signal that has been through with the lowest score.
IntelInit ==
    /\ \E old \in {{}} \union {{s} : s \in {t \in Signals : KeyOf[t] # NoKey}} :
          /\ clusters = [k \in {KeyOf[s] : s \in old} |-> 1]
          /\ clusterOf = [s \in Signals |-> IF s \in old THEN KeyOf[s] ELSE NoKey]
          /\ nodes = [s \in Signals |-> IF s \in old THEN [count |-> 1, risk |-> Min(Scores)] ELSE NoNode]
          /\ processed = [s \in Signals |-> IF s \in old THEN {Min(Scores)} ELSE {}]
          /\ embedded = old /\ enriched = old \intersect Enrichable
    /\ similar = {} /\ edges = {}
    /\ suggested = [k \in Keys |-> 0]
    /\ crew = [w \in Crew |-> Resting]
    /\ runs = 0 /\ mishaps = 0
    /\ spoilt = [recount |-> FALSE, risk |-> {}, failed |-> {}, draft |-> FALSE]

GoTo(w, at) == crew' = [crew EXCEPT ![w].at = at]
Others(w, ats) == \E v \in Crew \ {w} : crew[v].at \in ats

----------------------------------------------------------------------------
(* Intake hands the signal over, as it was read, with its cluster so far.  *)

Hand(w, s, score, text) ==
    /\ crew[w] = Resting
    /\ runs < RunBound
    /\ runs' = runs + 1
    /\ crew' = [crew EXCEPT ![w] = [Resting EXCEPT !.at = IF KeyOf[s] = NoKey THEN "embed" ELSE "find",
                                    !.signal = s, !.score = score, !.text = text, !.key = clusterOf[s]]]
    /\ UNCHANGED <<clusters, clusterOf, embedded, similar, nodes, edges, enriched, suggested, mishaps,
                   processed, spoilt>>

(* clusterSignal.                                                          *)
FindCluster(w) ==
    /\ crew[w].at = "find"
    /\ GoTo(w, IF KeyOf[crew[w].signal] \in DOMAIN clusters THEN "link" ELSE "create")
    /\ UNCHANGED <<clusters, clusterOf, embedded, similar, nodes, edges, enriched, suggested, runs, mishaps,
                   processed, spoilt>>

\* clusterKey is unique: the second of two creations fails, and with it the phase.
CreateCluster(w) ==
    LET key == KeyOf[crew[w].signal]
    IN  /\ crew[w].at = "create"
        /\ IF key \in DOMAIN clusters
           THEN /\ GoTo(w, "embed")
                /\ spoilt' = [spoilt EXCEPT !.failed = @ \union {crew[w].signal}]
                /\ UNCHANGED clusters
           ELSE /\ clusters' = [k \in DOMAIN clusters \union {key} |-> IF k = key THEN 0 ELSE clusters[k]]
                /\ GoTo(w, "link")
                /\ UNCHANGED spoilt
        /\ UNCHANGED <<clusterOf, embedded, similar, nodes, edges, enriched, suggested, runs, mishaps, processed>>

LinkSignal(w) ==
    /\ crew[w].at = "link"
    /\ clusterOf' = [clusterOf EXCEPT ![crew[w].signal] = KeyOf[crew[w].signal]]
    /\ spoilt' = [spoilt EXCEPT !.recount = @ \/ Others(w, {"counted"})]
    /\ GoTo(w, "count")
    /\ UNCHANGED <<clusters, embedded, similar, nodes, edges, enriched, suggested, runs, mishaps, processed>>

Linked(k) == {s \in Signals : clusterOf[s] = k}
CountSignals(w) ==
    /\ crew[w].at = "count"
    /\ crew' = [crew EXCEPT ![w].at = "counted", ![w].read = Cardinality(Linked(KeyOf[crew[w].signal]))]
    /\ UNCHANGED <<clusters, clusterOf, embedded, similar, nodes, edges, enriched, suggested, runs, mishaps,
                   processed, spoilt>>

\* The count is written and the signal read again, now with its cluster.
recount(w) ==
    /\ crew[w].at = "counted"
    /\ clusters' = [clusters EXCEPT ![KeyOf[crew[w].signal]] = crew[w].read]
    /\ crew' = [crew EXCEPT ![w].at = "embed", ![w].key = clusterOf[crew[w].signal]]
    /\ UNCHANGED <<clusterOf, embedded, similar, nodes, edges, enriched, suggested, runs, mishaps, processed, spoilt>>

(* embedSignal, when there is text: its row, then the similar ones.        *)
Ordered(a, b) == IF a < b THEN <<a, b>> ELSE <<b, a>>

embedSignal(w) ==
    /\ crew[w].at = "embed"
    /\ embedded' = IF crew[w].text THEN embedded \union {crew[w].signal} ELSE embedded
    /\ GoTo(w, IF crew[w].text THEN "similar" ELSE "node")
    /\ UNCHANGED <<clusters, clusterOf, similar, nodes, edges, enriched, suggested, runs, mishaps, processed, spoilt>>

\* Instances are below SCAN_CAP and TOP_N_SIMILAR.
persistSimilar(w) ==
    /\ crew[w].at = "similar"
    /\ similar' = similar \union ({Ordered(crew[w].signal, s) : s \in embedded \ {crew[w].signal}} \intersect Alike)
    /\ GoTo(w, "node")
    /\ UNCHANGED <<clusters, clusterOf, embedded, nodes, edges, enriched, suggested, runs, mishaps, processed, spoilt>>

(* processSignal: the node, then cluster peers, then similarity peers.     *)
ReadNode(w) ==
    /\ crew[w].at = "node"
    /\ crew' = [crew EXCEPT ![w].at = IF nodes[crew[w].signal] = NoNode THEN "createNode" ELSE "updateNode",
                            ![w].read = nodes[crew[w].signal].risk]
    /\ UNCHANGED <<clusters, clusterOf, embedded, similar, nodes, edges, enriched, suggested, runs, mishaps,
                   processed, spoilt>>

\* The count is incremented in the database, the risk is the larger of the score
\* and of what was read.  A node created meanwhile makes the creation fail.
ensureNodeForSignal(w) ==
    LET c == crew[w]  s == c.signal
    IN  /\ c.at \in {"createNode", "updateNode"}
        /\ IF c.at = "createNode" /\ nodes[s] # NoNode
           THEN /\ spoilt' = [spoilt EXCEPT !.failed = @ \union {s}]
                /\ GoTo(w, "osint")
                /\ UNCHANGED <<nodes, processed>>
           ELSE /\ nodes' = [nodes EXCEPT ![s] = [count |-> @.count + 1, risk |-> Max({c.read, c.score})]]
                /\ processed' = [processed EXCEPT ![s] = @ \union {c.score}]
                /\ spoilt' = [spoilt EXCEPT !.risk = IF c.read # nodes[s].risk THEN @ \union {s} ELSE @]
                /\ GoTo(w, "peers")
        /\ UNCHANGED <<clusters, clusterOf, embedded, similar, edges, enriched, suggested, runs, mishaps>>

\* Mutant: the ends are not put in order.
EdgeAsGiven(a, b, type) == IF a = b THEN {} ELSE {<<a, b, type>>}
upsertEdge(a, b, type) == IF a = b THEN {} ELSE {<<Ordered(a, b)[1], Ordered(a, b)[2], type>>}

Siblings(w) ==
    {s \in Signals \ {crew[w].signal} : crew[w].key # NoKey /\ clusterOf[s] = crew[w].key}
SimilarTo(s) == {t \in Signals : Ordered(s, t) \in similar}

ReadPeers(w) ==
    /\ crew[w].at \in {"peers", "sims"}
    /\ crew' = [crew EXCEPT ![w].at = IF @ = "peers" THEN "linkPeers" ELSE "linkSims",
                            ![w].todo = IF crew[w].at = "peers" THEN Siblings(w) ELSE SimilarTo(crew[w].signal)]
    /\ UNCHANGED <<clusters, clusterOf, embedded, similar, nodes, edges, enriched, suggested, runs, mishaps,
                   processed, spoilt>>

\* linkClusterPeers and linkSimilarityPeers: a peer without a node is passed over.
LinkPeer(w, peer) ==
    /\ crew[w].at \in {"linkPeers", "linkSims"}
    /\ peer \in crew[w].todo
    /\ edges' = IF nodes[peer] = NoNode THEN edges
                ELSE edges \union upsertEdge(crew[w].signal, peer, IF crew[w].at = "linkPeers" THEN "CO_OCCURRENCE_CLUSTER"
                                                                    ELSE "SIMILAR_TEXT")
    /\ crew' = [crew EXCEPT ![w].todo = @ \ {peer}]
    /\ UNCHANGED <<clusters, clusterOf, embedded, similar, nodes, enriched, suggested, runs, mishaps, processed, spoilt>>

PeersDone(w) ==
    /\ crew[w].at \in {"linkPeers", "linkSims"}
    /\ crew[w].todo = {}
    /\ GoTo(w, IF crew[w].at = "linkPeers" THEN "sims" ELSE "osint")
    /\ UNCHANGED <<clusters, clusterOf, embedded, similar, nodes, edges, enriched, suggested, runs, mishaps,
                   processed, spoilt>>

enrichSignal(w) ==
    /\ crew[w].at = "osint"
    /\ enriched' = enriched \union ({crew[w].signal} \intersect Enrichable)
    /\ crew' = [crew EXCEPT ![w] = Resting]
    /\ UNCHANGED <<clusters, clusterOf, embedded, similar, nodes, edges, suggested, runs, mishaps, processed, spoilt>>

\* A phase fails, is logged, and the next one goes on.
Clustering == {"find", "create", "link", "count", "counted"}
Embedding == {"embed", "similar"}
Graphing == {"node", "createNode", "updateNode", "peers", "linkPeers", "sims", "linkSims"}
PhaseFails(w) ==
    /\ crew[w].at \in Clustering \union Embedding \union Graphing
    /\ mishaps < MishapBound
    /\ mishaps' = mishaps + 1
    /\ crew' = [crew EXCEPT ![w].at = CASE @ \in Clustering -> "embed" [] @ \in Embedding -> "node" [] OTHER -> "osint",
                            ![w].todo = {}]
    /\ spoilt' = [spoilt EXCEPT !.failed = @ \union {crew[w].signal}]
    /\ UNCHANGED <<clusters, clusterOf, embedded, similar, nodes, edges, enriched, suggested, runs, processed>>

----------------------------------------------------------------------------
(* Rule suggestions: clusters large enough, with a verified signal, of a   *)
(* kind that has a suggestion, and without a live rule.                    *)

generateSuggestions(w) ==
    /\ crew[w] = Resting
    /\ runs < RunBound
    /\ runs' = runs + 1
    /\ \E fit \in SUBSET Keys :
          crew' = [crew EXCEPT ![w] = [Resting EXCEPT !.at = "draft",
                     !.todo = {k \in DOMAIN clusters \intersect fit :
                                 clusters[k] >= MIN_SIGNALS_FOR_SUGGESTION /\ suggested[k] = 0}]]
    /\ UNCHANGED <<clusters, clusterOf, embedded, similar, nodes, edges, enriched, suggested, mishaps,
                   processed, spoilt>>

createSuggestion(w, k) ==
    /\ crew[w].at = "draft" /\ k \in crew[w].todo
    /\ suggested' = [suggested EXCEPT ![k] = @ + 1]
    /\ spoilt' = [spoilt EXCEPT !.draft = @ \/ Others(w, {"draft"})]
    /\ crew' = [crew EXCEPT ![w].todo = @ \ {k}]
    /\ UNCHANGED <<clusters, clusterOf, embedded, similar, nodes, edges, enriched, runs, mishaps, processed>>

SuggestionsDone(w) ==
    /\ crew[w].at = "draft" /\ crew[w].todo = {}
    /\ crew' = [crew EXCEPT ![w] = Resting]
    /\ UNCHANGED <<clusters, clusterOf, embedded, similar, nodes, edges, enriched, suggested, runs, mishaps,
                   processed, spoilt>>

(* Campaigns.                                                              *)
addCampaignMember(s) ==
    /\ nodes[s] # NoNode
    /\ edges' = edges \union upsertEdge(Campaign, s, "CAMPAIGN_MEMBERSHIP")
    /\ UNCHANGED <<clusters, clusterOf, embedded, similar, nodes, enriched, suggested, crew, runs, mishaps,
                   processed, spoilt>>

removeCampaignMember(s) ==
    /\ edges' = edges \ {<<Ordered(Campaign, s)[1], Ordered(Campaign, s)[2], "CAMPAIGN_MEMBERSHIP">>}
    /\ UNCHANGED <<clusters, clusterOf, embedded, similar, nodes, enriched, suggested, crew, runs, mishaps,
                   processed, spoilt>>

\* A collision search: from a seed, two hops, up to MAX_NODES nodes.
Hop(found) ==
    {n \in Signals \union {Campaign} : \E e \in edges : n \in {e[1], e[2]} /\ {e[1], e[2]} \intersect found # {}}
collectNeighbourhood(seed) ==
    LET one == {seed} \union Hop({seed})
    IN  IF Cardinality(one) < MAX_NODES THEN one \union Hop(one) ELSE one

----------------------------------------------------------------------------
IntelNext ==
    \/ \E w \in Crew :
        \/ \E s \in Signals, score \in Scores, text \in BOOLEAN : Hand(w, s, score, text)
        \/ FindCluster(w) \/ CreateCluster(w) \/ LinkSignal(w) \/ CountSignals(w) \/ recount(w)
        \/ embedSignal(w) \/ persistSimilar(w) \/ ReadNode(w) \/ ensureNodeForSignal(w)
        \/ ReadPeers(w) \/ PeersDone(w) \/ \E peer \in Signals : LinkPeer(w, peer)
        \/ enrichSignal(w) \/ PhaseFails(w)
        \/ generateSuggestions(w) \/ SuggestionsDone(w) \/ \E k \in Keys : createSuggestion(w, k)
    \/ \E s \in Signals : addCampaignMember(s) \/ removeCampaignMember(s)

IntelSpec == IntelInit /\ [][IntelNext]_intelVars

IntelTypeOK ==
    /\ DOMAIN clusters \subseteq Keys
    /\ embedded \subseteq Signals /\ similar \subseteq Signals \X Signals
    /\ \A s \in Signals : nodes[s].count \in 0..RunBound + 1 /\ clusterOf[s] \in Keys \union {NoKey}
    /\ runs \in 0..RunBound /\ mishaps \in 0..MishapBound

Done(s) == nodes[s] # NoNode /\ s \notin spoilt.failed /\ \A w \in Crew : crew[w].signal # s

\* Two signals of one cluster, or of similar text, are joined by an edge once
\* both are through, however their steps interleave; every pair has one edge of
\* a kind, whichever signal wrote it, so a search finds either from the other.
PeersConnected ==
    /\ \A s, t \in Signals : s < t /\ Done(s) /\ Done(t) =>
          /\ clusterOf[s] # NoKey /\ clusterOf[s] = clusterOf[t] => <<s, t, "CO_OCCURRENCE_CLUSTER">> \in edges
          /\ <<s, t>> \in similar => <<s, t, "SIMILAR_TEXT">> \in edges
          /\ {s, t} \subseteq embedded /\ <<s, t>> \in Alike => <<s, t>> \in similar
    /\ \A e \in edges : e[1] < e[2]
    /\ \A s, t \in Signals : MAX_NODES > Cardinality(Signals) + 1 =>
          (t \in collectNeighbourhood(s) <=> s \in collectNeighbourhood(t))

\* At rest the derived numbers are right: a cluster counts its signals and a
\* node carries the highest score it was given, but for overlaps of one read
\* with the other's write and for phases that failed; and a cluster has one
\* suggested rule unless two generations overlapped.
CountsRight ==
    (\A w \in Crew : crew[w] = Resting) =>
        /\ \A k \in DOMAIN clusters :
              spoilt.recount \/ Linked(k) \intersect spoilt.failed # {} \/ clusters[k] = Cardinality(Linked(k))
                 \/ (Linked(k) = {} /\ spoilt.failed # {})
        /\ \A s \in Signals : nodes[s] # NoNode =>
              s \in spoilt.risk \/ nodes[s].risk = Max(processed[s])
        /\ \A k \in Keys : suggested[k] <= 1 \/ spoilt.draft

\* What the enrichment of signals leaves behind.
GraphSound == PeersConnected /\ CountsRight

=============================================================================
