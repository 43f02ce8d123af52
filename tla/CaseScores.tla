------------------------------ MODULE CaseScores ------------------------------
(***************************************************************************)
(* A case before one of the scorers: it starts with nothing against it and *)
(* one fact after the other turns for the worse.                           *)
(***************************************************************************)
EXTENDS Scoring

CONSTANT FactBound     \* facts that have turned for the worse
ASSUME ScoringAssumption == FactBound \in Nat

VARIABLES scorer,      \* the scorer in use
          facts        \* what is known: for each factor the value found
scoringVars == <<scorer, facts>>

Mildest(points) == CHOOSE v \in DOMAIN points : \A w \in DOMAIN points : points[v] <= points[w]
Calmest(k) == [f \in DOMAIN Factors[k] |-> Mildest(Factors[k][f])]
TurnedWorse == {f \in DOMAIN facts : facts[f] # Calmest(scorer)[f]}

ScoringInit == scorer \in DOMAIN Factors /\ facts = Calmest(scorer)

Worsen(f, v) ==
    /\ Factors[scorer][f][v] > Factors[scorer][f][facts[f]]
    /\ Cardinality(TurnedWorse \union {f}) <= FactBound
    /\ facts' = [facts EXCEPT ![f] = v]
    /\ UNCHANGED scorer

ScoringNext == \E f \in DOMAIN facts : \E v \in DOMAIN Factors[scorer][f] : Worsen(f, v)

ScoringSpec == ScoringInit /\ [][ScoringNext]_scoringVars

ScoringTypeOK ==
    /\ scorer \in DOMAIN Factors
    /\ \A f \in DOMAIN facts : facts[f] \in DOMAIN Factors[scorer][f]

Severity ==
    [LOW |-> 0, MEDIUM |-> 1, HIGH |-> 2, CRITICAL |-> 3,
     MONITOR_SESSION |-> 0, WARN_USER |-> 1, REQUIRE_VERIFICATION |-> 2, TRIGGER_INTERVENTION |-> 3,
     PROCEED_WITH_NORMAL_CAUTION |-> 0, VERIFY_BEFORE_PROCEEDING |-> 1,
     DO_NOT_PROCEED_VERIFY_INDEPENDENTLY |-> 2, STOP_DO_NOT_SEND_MONEY_OR_INFORMATION |-> 3,
     PROCEED |-> 0, VERIFY_VERBALLY |-> 1, CALL_FAMILY_OR_TRUSTED_CONTACT |-> 2,
     DELAY_AND_ESCALATE_TO_ANALYST |-> 3, REFUSE_AND_ESCALATE_TO_FRAUD |-> 4,
     NONE |-> 0, MONITOR |-> 1, SOFT_INTERVENE |-> 2, HARD_INTERVENE |-> 3, SUSPEND_USER |-> 4,
     ESCALATE_TO_TRUST_AND_SAFETY |-> 5, ESCALATE_TO_LAW_ENFORCEMENT |-> 6]

\* The victim rules put CONFUSED before TRUSTING though it weighs less.
ConfusionHidesTrust == scorer = "fusion" /\ facts.TRUSTING = "yes" /\ facts'.CONFUSED = "yes" /\ facts.CONFUSED = "no"

\* No scorer is reassured by bad news: when a fact turns for the worse the
\* score stays within 0..100 and neither the score nor the level nor the
\* recommended action gets milder, the caps and the single-fact escalations of
\* the teller and grooming scorers included.  The one exception is in the
\* order of the fusion's victim rules.
ScoresClimb ==
    [][LET then == Verdict(scorer, facts)  now == Verdict(scorer, facts')
       IN  /\ now.score \in 0 .. 100
           /\ \/ ConfusionHidesTrust
              \/ /\ now.score >= then.score
                 /\ Severity[now.level] >= Severity[then.level]
                 /\ Severity[now.action] >= Severity[then.action]]_scoringVars

=============================================================================
