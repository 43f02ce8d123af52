--------------------------- MODULE MCIntelligence ---------------------------
(***************************************************************************)
(* What becomes of the reports: the registry with its appeals and           *)
(* takedowns, the guards in front of every route, the agency feeds, and    *)
(* the clusters and graphs built from the signals.  They share no state,   *)
(* so they are checked side by side and not interleaved: part names the    *)
(* one that moves in a behaviour, and the others stay in one of their      *)
(* initial states.                                                         *)
(***************************************************************************)
EXTENDS Registry, Requests, AgencyFeeds, IntelGraph, TLC

VARIABLE part

Vars == <<registryVars, requestVars, feedVars, intelVars, part>>

MCTemplates ==
    {[type |-> "DOMAIN_REGISTRAR", provider |-> "GoDaddy", name |-> "godaddy", priority |-> 2],
     [type |-> "DOMAIN_REGISTRAR", provider |-> "Any", name |-> "godaddy", priority |-> 1],
     [type |-> "TELECOM_CARRIER", provider |-> "Telco", name |-> "godaddy", priority |-> 1]}
MCAlike == {<<1, 3>>}
MCKeyOf == [s \in Signals |-> "root"]

\* Staff, partners and workers are interchangeable: the .cfg names them alike, and one
\* permutation serves whichever of them moves.
Symmetry == Permutations(Staff)

Init ==
    /\ part \in {"registry", "users", "keys", "feeds", "graph"}
    /\ RegistryInit /\ UsersInit /\ KeysInit /\ FeedsInit /\ IntelInit
    /\ part # "users" => home.role = "INDIVIDUAL"
    /\ embedded \subseteq (IF part = "graph" THEN Enrichable ELSE {})

Next ==
    \/ part = "registry" /\ RegistryNext /\ UNCHANGED <<requestVars, feedVars, intelVars, part>>
    \/ part = "users" /\ UserNext /\ UNCHANGED <<registryVars, feedVars, intelVars, part>>
    \/ part = "keys" /\ KeyNext /\ UNCHANGED <<registryVars, feedVars, intelVars, part>>
    \/ part = "feeds" /\ FeedsNext /\ UNCHANGED <<registryVars, requestVars, intelVars, part>>
    \/ part = "graph" /\ IntelNext /\ UNCHANGED <<registryVars, requestVars, feedVars, part>>

Spec == Init /\ [][Next]_Vars

\* Every variable of the four components keeps its type: entries, appeals, tokens,
\* keys, cursors, clusters and edges are those the source can write.
TypeOK == RegistryTypeOK /\ RequestsTypeOK /\ FeedsTypeOK /\ IntelTypeOK
=============================================================================
