---------------------------- MODULE MCHeldActions ----------------------------
(* Instances of HeldActions for TLC. *)
EXTENDS HeldActions, TLC

CONSTANTS h1, p1, v1, v2, c1, r1, r2

Row(contact, elder, continue, threshold) ==
    [trustedContactRequired |-> contact, elderModeStrictLock |-> elder,
     allowContinueAnyway |-> continue, highRiskAmountThresholdMinor |-> threshold]

\* The column defaults, with a threshold between the amounts of the model.
MCDefault == Row(FALSE, FALSE, TRUE, 2)

\* Strict lock above the threshold, and everything strict from amount 1.
MCSaved == {Row(FALSE, TRUE, TRUE, 2), Row(TRUE, TRUE, FALSE, 1)}

MCAmounts == {{1}}

MCSymmetry == Permutations({r1, r2})
=============================================================================
