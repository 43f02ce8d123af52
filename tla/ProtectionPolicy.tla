-------------------------- MODULE ProtectionPolicy --------------------------
(***************************************************************************)
(* ProtectionPolicyService.evaluate: what a user's protection settings     *)
(* allow for one held action.  An optional amount is a set with at most    *)
(* one element.  The reason codes and the pause duration are left out.     *)
(***************************************************************************)
EXTENDS Naturals

RiskLevels == {"LOW", "MEDIUM", "HIGH", "CRITICAL"}
HIGH_OR_CRITICAL == {"HIGH", "CRITICAL"}

SettingsRecords ==
    [trustedContactRequired       : BOOLEAN,
     elderModeStrictLock          : BOOLEAN,
     allowContinueAnyway          : BOOLEAN,
     highRiskAmountThresholdMinor : Nat]

\* Mutant: the comparison is turned round.
underThreshold(s, amount) == \E a \in amount : a < s.highRiskAmountThresholdMinor

overThreshold(s, amount) == \E a \in amount : a >= s.highRiskAmountThresholdMinor


trustedContactReviewRequired(s, risk, amount) ==
    \/ s.trustedContactRequired /\ risk = "CRITICAL"
    \/ /\ s.elderModeStrictLock
       /\ \/ risk = "CRITICAL"
          \/ risk \in HIGH_OR_CRITICAL /\ overThreshold(s, amount)

continueAnywayAllowed(s, elderModeEnabled, risk, amount) ==
    /\ s.allowContinueAnyway \/ risk \notin HIGH_OR_CRITICAL
    /\ ~((s.elderModeStrictLock \/ elderModeEnabled) /\ risk = "CRITICAL")
    /\ ~trustedContactReviewRequired(s, risk, amount)

-----------------------------------------------------------------------------
\* Settings t protect at least as much as settings s.
AtLeastAsStrict(t, s) ==
    /\ s.trustedContactRequired => t.trustedContactRequired
    /\ s.elderModeStrictLock => t.elderModeStrictLock
    /\ t.allowContinueAnyway => s.allowContinueAnyway
    /\ t.highRiskAmountThresholdMinor <= s.highRiskAmountThresholdMinor
=============================================================================
