----------------------------- MODULE MCCasework -----------------------------
(***************************************************************************)
(* What staff, partners and the user's device set in motion: the tables    *)
(* with a life cycle, notification delivery, the scorers, and the risk     *)
(* pipeline.  They share no state, so they are checked side by side and    *)
(* not interleaved: part names the one that moves in a behaviour, and the  *)
(* others stay in one of their initial states.                             *)
(***************************************************************************)
EXTENDS Lifecycles, Notifications, CaseScores, RiskPipeline

CONSTANTS m1, m2

VARIABLE part

Vars == <<lifeVars, noteVars, scoringVars, pipeVars, part>>

Person(user, role, type) ==
    [user |-> user, role |-> role, type |-> type, status |-> "ACTIVE", signedIn |-> TRUE]

\* One person of every role the handlers tell apart, and one of a suspended bank.
MCPeople ==
    {Person("guardian", "FAMILY_GUARDIAN", "FAMILY"), Person("protected", "PROTECTED_USER", "FAMILY"),
     Person("reviewer", "REVIEWER", "INTERNAL"), Person("admin", "SUPER_ADMIN", "INTERNAL"),
     Person("analyst", "BANK_ANALYST", "BANK"), Person("moderator", "PLATFORM_MODERATOR", "PLATFORM"),
     Person("investigator", "INVESTIGATOR", "INVESTIGATOR"),
     Person("enterprise", "ENTERPRISE_ADMIN", "ENTERPRISE"),
     [Person("suspended", "BANK_ADMIN", "BANK") EXCEPT !.status = "SUSPENDED"]}

\* One channel whose provider may be missing, one that is always there.
MCChannelOf == [m \in Messages |-> IF m = m1 THEN "EMAIL" ELSE "IN_APP"]

MCInputs == {[secret |-> TRUE, tactics |-> {}], [secret |-> FALSE, tactics |-> {"URGENCY"}],
             [secret |-> FALSE, tactics |-> {"THREAT"}]}

Init ==
    /\ part \in {"tables", "notes", "scores", "pipeline"}
    /\ LifecyclesInit /\ NotificationsInit /\ ScoringInit /\ PipelineInit
    /\ part # "tables" => kind = "rule"
    /\ part # "notes" => config = [redis |-> TRUE, provider |-> TRUE]
    /\ part # "scores" => scorer = "fusion"
    /\ part # "pipeline" => area = "session"

Next ==
    \/ part = "tables" /\ LifecyclesNext /\ UNCHANGED <<noteVars, scoringVars, pipeVars, part>>
    \/ part = "notes" /\ NotificationsNext /\ UNCHANGED <<lifeVars, scoringVars, pipeVars, part>>
    \/ part = "scores" /\ ScoringNext /\ UNCHANGED <<lifeVars, noteVars, pipeVars, part>>
    \/ part = "pipeline" /\ PipelineNext /\ UNCHANGED <<lifeVars, noteVars, scoringVars, part>>

Spec == Init /\ [][Next]_Vars /\ NotificationsFairness

\* Every variable of the four components keeps its type: rows, deliveries, facts
\* and requests hold what the source can write into them.
TypeOK == LifecyclesTypeOK /\ NotificationsTypeOK /\ ScoringTypeOK /\ PipelineTypeOK
=============================================================================
