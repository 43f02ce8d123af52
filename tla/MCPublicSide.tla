---------------------------- MODULE MCPublicSide ----------------------------
(***************************************************************************)
(* The components that face the public and the partners: cached reads,     *)
(* webhooks, evidence files, and the intake and review of signals.  They   *)
(* share no state, so they are checked side by side and not interleaved:   *)
(* part names the one that moves in a behaviour, and the others stay in    *)
(* one of their initial states.                                            *)
(***************************************************************************)
EXTENDS PublicReads, Webhooks, EvidenceFiles, SignalReview, TLC

CONSTANTS n1, n2, s1, s2, t1, t2

VARIABLE part

Vars == <<readsVars, hookVars, filesVars, signalVars, part>>

MCHostOf == [n \in Nodes |-> n]
MCSubTenant == [s \in Subscriptions |-> IF s = s1 THEN t1 ELSE t2]
MCProfiles == [USER_REPORT |-> 35, GOVERNMENT_ADVISORY |-> 85]
MCReports == {[desc |-> TRUE, raw |-> TRUE, cat |-> TRUE]}

Symmetry == Permutations(Callers) \union Permutations(Tasks)

Init ==
    /\ part \in {"reads", "webhooks", "files", "signals"}
    /\ ReadsInit /\ WebhooksInit /\ FilesInit /\ SignalReviewInit
    /\ part # "reads" => item.kind = "alert" /\ expiresIn = NoExpiry
    /\ part # "files" => owner = SystemOwned /\ azure = [blob |-> TRUE, redis |-> TRUE]

Next ==
    \/ part = "reads" /\ ReadsNext /\ UNCHANGED <<hookVars, filesVars, signalVars, part>>
    \/ part = "webhooks" /\ WebhooksNext /\ UNCHANGED <<readsVars, filesVars, signalVars, part>>
    \/ part = "files" /\ FilesNext /\ UNCHANGED <<readsVars, hookVars, signalVars, part>>
    \/ part = "signals" /\ SignalReviewNext /\ UNCHANGED <<readsVars, hookVars, filesVars, part>>

Spec == Init /\ [][Next]_Vars

\* Every variable of the four components keeps its type: statuses, cache entries,
\* deliveries, file rows and queue items are those the source can write.
TypeOK == ReadsTypeOK /\ WebhooksTypeOK /\ FilesTypeOK /\ SignalReviewTypeOK
=============================================================================
