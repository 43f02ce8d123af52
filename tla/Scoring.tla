------------------------------- MODULE Scoring -------------------------------
(***************************************************************************)
(* The scorers.  Each one adds up points for what is known of a case, caps *)
(* the sum and maps it to a level; some escalate on single facts whatever  *)
(* the sum.  What a text says is the set of the patterns it matches.       *)
(***************************************************************************)
EXTENDS Integers, FiniteSets, FiniteSetsExt

Least(a, b) == IF a < b THEN a ELSE b
Most(a, b) == IF a < b THEN b ELSE a
Flag(points) == [no |-> 0, yes |-> points]
priorWarnings == [n \in 0 .. 5 |-> Least(n * 5, 20)]
OneThird == [n \in {0, 2, 3, 89, 90, 100} |-> Least(30, n \div 3)]
clampScore(raw) == Least(100, Most(0, raw))

----------------------------------------------------------------------------
(* Points.  NEW_ and OTHER_ are the values NEW and OTHER.                  *)

TRANSACTION_TYPE_SCORE ==
    [CRYPTO |-> 25, GIFT_CARD |-> 30, WIRE_TRANSFER |-> 15, BANK_TRANSFER |-> 10, PAYMENT_APP |-> 10,
     ONLINE_PAYMENT |-> 5]
RECIPIENT_RISK_SCORE == [UNKNOWN |-> 5, NEW_ |-> 10, KNOWN_RISKY |-> 30, SUSPICIOUS_WALLET |-> 40]

\* Amounts in cents, at the edges of the bands.
Amounts == {0, 9999, 10000, 99999, 100000, 499999, 500000, 999999, 1000000, 4999999, 5000000}
amountScore ==
    [a \in Amounts |-> IF a < 10000 THEN 0 ELSE IF a < 100000 THEN 5
                       ELSE IF a < 500000 THEN 15 ELSE IF a < 1000000 THEN 25 ELSE 35]
scoreScamHold ==
    [transactionType |-> TRANSACTION_TYPE_SCORE, amount |-> amountScore,
     recipientRisk |-> RECIPIENT_RISK_SCORE, urgency |-> Flag(15), secrecy |-> Flag(15),
     activeCommunication |-> Flag(10), priorWarnings |-> priorWarnings]

IMPERSONATION_SCORE ==
    [NONE |-> 0, GOVERNMENT |-> 35, BANK |-> 35, TECH_SUPPORT |-> 35, LAW_ENFORCEMENT |-> 35,
     EMPLOYER |-> 30, ROMANCE |-> 30, UTILITY |-> 25, CHARITY |-> 20, OTHER_ |-> 15]
scoreGiftCardGuard ==
    [baseline |-> [always |-> 25], codeReveal |-> Flag(25), photoOfCode |-> Flag(25),
     impersonation |-> IMPERSONATION_SCORE, urgency |-> Flag(15), secrecy |-> Flag(15),
     elderMode |-> Flag(20), priorWarnings |-> priorWarnings]

REPUTATION_SCORE ==
    [UNKNOWN |-> 0, NEW_ |-> 5, KNOWN_RISKY |-> 35, SUSPICIOUS_WALLET |-> 50, CONFIRMED_SCAM |-> 80]
scoreWalletGuard ==
    [reputation |-> REPUTATION_SCORE, clipboardSwap |-> Flag(30), walletSwitched |-> Flag(20),
     graphMatch |-> OneThird, urgency |-> Flag(15), secrecy |-> Flag(15), priorWarnings |-> priorWarnings]

CLAIM_TYPE_BASELINE ==
    [ROMANCE |-> 20, INVESTMENT |-> 15, INHERITANCE |-> 20, OIL_PROJECT |-> 25, GOLD_PROJECT |-> 25,
     ROAD_CONSTRUCTION |-> 20, BUSINESS_PARTNERSHIP |-> 15, LEGAL_CLAIM |-> 15, IMMIGRATION |-> 15,
     WORK_FROM_HOME |-> 15, JOB |-> 10, GOVERNMENT |-> 10, HOSPITAL |-> 10, MEDICAL_EMERGENCY |-> 10,
     CHARITY |-> 10, OTHER_ |-> 5]
domainAgeScore ==
    [d \in {90, 89, 30, 29, 0} |-> IF d < 30 THEN 20 ELSE IF d < 90 THEN 10 ELSE 0]
scoreClaimVerify ==
    [claimTypeBaseline |-> CLAIM_TYPE_BASELINE, domainAge |-> domainAgeScore, locationMismatch |-> Flag(15),
     imageReuse |-> Flag(25), scamPhraseNlp |-> OneThird, paymentPressure |-> Flag(15),
     secrecy |-> Flag(15), urgency |-> Flag(15), priorWarnings |-> priorWarnings]

SIGNAL_WEIGHTS ==
    [REMOTE_ACCESS |-> 25, GIFT_CARD_REQUEST |-> 25, CRYPTO_TRANSFER |-> 20, WALLET_SWITCH |-> 20,
     FAKE_AUTHORITY |-> 20, THREAT_LANGUAGE |-> 20, URGENCY |-> 15, SECRECY |-> 15, ROMANCE_PRESSURE |-> 15,
     PAYMENT_PRESSURE |-> 15, ISOLATION |-> 15, ELDER_TARGETED |-> 10, DEVICE_COMPROMISE |-> 25,
     REMOTE_INPUT |-> 20, CLIPBOARD_HIJACK |-> 20, SCREEN_SHARE |-> 15, SUSPICIOUS_BROWSER |-> 10,
     unknown |-> 5]
scoreSignals == [s \in DOMAIN SIGNAL_WEIGHTS |-> Flag(SIGNAL_WEIGHTS[s])]

CHANNEL_POINTS ==
    [INTERNAL_TRANSFER |-> 0, ACH |-> 5, WIRE_DOMESTIC |-> 10, WIRE_INTERNATIONAL |-> 20,
     CRYPTO_PURCHASE |-> 30, GIFT_CARD_PURCHASE |-> 30, CASH_WITHDRAWAL |-> 10, CHECK |-> 5]
RECIPIENT_POINTS ==
    [EXISTING_PAYEE |-> 0, NEW_PAYEE |-> 10, FOREIGN_PAYEE |-> 20, BUSINESS_NEW |-> 15,
     CRYPTO_EXCHANGE |-> 25, PEER_TO_PEER_APP |-> 15, UNKNOWN |-> 10]
REASON_POINTS ==
    [NONE_GIVEN |-> 10, PERSONAL_PAYMENT |-> 0, INVESTMENT_OPPORTUNITY |-> 25, GOVERNMENT_FEE_OR_FINE |-> 35,
     TECH_SUPPORT_FEE |-> 35, FAMILY_EMERGENCY |-> 20, ROMANTIC_PARTNER |-> 25, LOTTERY_OR_PRIZE_FEE |-> 40,
     BUSINESS_INVOICE |-> 5, CHARITY |-> 10, OTHER_ |-> 5]
BEHAVIOR_POINTS ==
    [DISTRESSED |-> 10, CONFUSED |-> 10, ON_PHONE_DURING_TRANSACTION |-> 15,
     RECEIVING_INSTRUCTIONS_FROM_CALLER |-> 35, COACHED_RESPONSES |-> 25, REFUSED_TO_EXPLAIN |-> 20,
     FIRST_TIME_LARGE_TRANSFER |-> 15, ELDERLY_AND_PRESSURED |-> 25, SECRECY_REQUESTED |-> 20,
     URGENCY_PRESSURE |-> 15]
amountBandPoints ==
    [a \in Amounts |-> IF a >= 5000000 THEN 25 ELSE IF a >= 1000000 THEN 15
                       ELSE IF a >= 500000 THEN 10 ELSE IF a >= 100000 THEN 5 ELSE 0]
tellerFactors ==
    [f \in {"channel", "recipient", "reason", "amount", "elderMode"} \union DOMAIN BEHAVIOR_POINTS |->
        CASE f = "channel" -> CHANNEL_POINTS [] f = "recipient" -> RECIPIENT_POINTS
          [] f = "reason" -> REASON_POINTS   [] f = "amount" -> amountBandPoints
          [] f = "elderMode" -> Flag(15)     [] OTHER -> Flag(BEHAVIOR_POINTS[f])]

AGE_GAP_POINTS ==
    [UNKNOWN |-> 5, AGES_BOTH_VERIFIED_ADULT |-> 0, AGE_GAP_SMALL |-> 0, AGE_GAP_MODERATE |-> 10,
     AGE_GAP_LARGE |-> 20, ADULT_TO_SUSPECTED_MINOR |-> 40]
relationshipDurationPoints ==
    [d \in {61, 60, 15, 14, 4, 3, 0} |-> IF d <= 3 THEN 15 ELSE IF d <= 14 THEN 10 ELSE IF d <= 60 THEN 5 ELSE 0]
groomingFactors ==
    [ageGap |-> AGE_GAP_POINTS, duration |-> relationshipDurationPoints, loveBombing |-> Flag(15),
     isolation |-> Flag(20), payment |-> Flag(25), photo |-> Flag(25), privateChannel |-> Flag(15),
     pii |-> Flag(15), minor |-> Flag(35)]

STATUS_WEIGHT ==
    [none |-> 0, VERIFIED_SCAM_INTELLIGENCE |-> 75, PUBLIC_SAFE_ALERT |-> 75, HIGH_RISK_INDICATOR |-> 65,
     PATTERN_MATCH |-> 45, UNDER_REVIEW |-> 35, SUSPICIOUS_SIGNAL |-> 30, UNVERIFIED_REPORT |-> 15,
     ARCHIVED |-> 5, REJECTED |-> 0]
scamCheckFactors ==
    [listing |-> [none |-> 0, weak |-> Most(80, 40), strong |-> Most(80, 95)], strongest |-> STATUS_WEIGHT,
     reports |-> [n \in {1, 2, 7, 8} |-> Least(15, n * 2)], language |-> [n \in 0 .. 4 |-> Least(20, n * 8)]]

nlpFactors ==
    [categories |-> [n \in 0 .. 7 |-> n * 12 + IF n = 0 THEN 10 ELSE 30], tactics |-> [n \in 0 .. 4 |-> n * 8]]

\* The fusion reads the conversation: keyword rules in order, the first that
\* matches decides the stage and the state, the stage decides the next move.
JOURNEY_RULES == <<"PAYMENT_REQUEST", "URGENCY_INJECTION", "INFORMATION_GATHERING", "TRUST_BUILDING">>
VICTIM_RULES == <<"COMPROMISED", "ALARMED", "PRESSURED", "CONFUSED", "TRUSTING">>
FirstMatch(rules, matched, default) ==
    LET hits == {i \in DOMAIN rules : rules[i] \in matched}
    IN  IF hits = {} THEN default ELSE rules[Min(hits)]
stubAssessJourney(forced, matched) ==
    IF forced # "none" THEN forced ELSE FirstMatch(JOURNEY_RULES, matched, "INITIAL_CONTACT")
stubAssessVictimState(forced, matched) ==
    IF forced # "none" THEN forced ELSE FirstMatch(VICTIM_RULES, matched, "CALM")
NEXT_MOVE_MAP ==
    [INITIAL_CONTACT |-> "REQUEST_PERSONAL_INFO", TRUST_BUILDING |-> "REQUEST_PERSONAL_INFO",
     INFORMATION_GATHERING |-> "ESCALATE_URGENCY", URGENCY_INJECTION |-> "REQUEST_PAYMENT",
     PAYMENT_REQUEST |-> "REQUEST_GIFT_CARD", COMPLETED |-> "DROP_OFF", INTERVENED |-> "DROP_OFF"]

STAGE_WEIGHT ==
    [INITIAL_CONTACT |-> 5, TRUST_BUILDING |-> 10, INFORMATION_GATHERING |-> 20, URGENCY_INJECTION |-> 25,
     PAYMENT_REQUEST |-> 30, COMPLETED |-> 30, INTERVENED |-> 0]
STATE_WEIGHT ==
    [CALM |-> 0, CONFUSED |-> 10, PRESSURED |-> 15, TRUSTING |-> 12, ALARMED |-> 20, COMPROMISED |-> 25]
ACTION_WEIGHT ==
    [REQUEST_PAYMENT |-> 20, REQUEST_REMOTE_ACCESS |-> 18, REQUEST_GIFT_CARD |-> 18,
     REQUEST_PERSONAL_INFO |-> 12, ESCALATE_URGENCY |-> 10, DROP_OFF |-> 0]
fuseRiskScore(base, stage, state, action, failures) ==
    base + STAGE_WEIGHT[stage] + STATE_WEIGHT[state] + ACTION_WEIGHT[action]
         + Least(30, Most(0, failures) * 15)
Keywords == {JOURNEY_RULES[i] : i \in DOMAIN JOURNEY_RULES} \union {VICTIM_RULES[i] : i \in DOMAIN VICTIM_RULES}
fusionFactors ==
    [f \in Keywords \union {"base", "failures"} |->
        CASE f = "base" -> [n \in {0, 40, 90} |-> n]
          [] f = "failures" -> [n \in 0 .. 3 |-> n] [] OTHER -> Flag(1)]

Factors ==
    [scamHold |-> scoreScamHold, giftCard |-> scoreGiftCardGuard, wallet |-> scoreWalletGuard,
     claim |-> scoreClaimVerify, risk |-> scoreSignals, teller |-> tellerFactors,
     grooming |-> groomingFactors, scamCheck |-> scamCheckFactors, nlp |-> nlpFactors,
     fusion |-> fusionFactors]

----------------------------------------------------------------------------
(* Scores, levels and what they recommend.                                 *)

Points(k, c) == MapThenSumSet(LAMBDA f : Factors[k][f][c[f]], DOMAIN Factors[k])

scoreScamCheck(c) ==
    LET points == scamCheckFactors
    IN  Most(points.listing[c.listing], points.strongest[c.strongest])
          + (IF c.strongest = "none" THEN 0 ELSE points.reports[c.reports]) + points.language[c.language]

fusedScore(c) ==
    LET matched == {w \in Keywords : c[w] = "yes"}
        stage == stubAssessJourney("none", matched)
    IN  fuseRiskScore(c.base, stage, stubAssessVictimState("none", matched), NEXT_MOVE_MAP[stage], c.failures)

Score(k, c) ==
    clampScore(CASE k = "scamCheck" -> scoreScamCheck(c)
                 [] k = "fusion" -> fusedScore(c)
                 [] k = "nlp" -> Least(70, Points(k, c))
                 [] OTHER -> Points(k, c))

levelForScore(score) ==
    IF score >= 86 THEN "CRITICAL" ELSE IF score >= 61 THEN "HIGH" ELSE IF score >= 31 THEN "MEDIUM" ELSE "LOW"
portalLevel(score) ==
    IF score >= 80 THEN "CRITICAL" ELSE IF score >= 60 THEN "HIGH" ELSE IF score >= 30 THEN "MEDIUM" ELSE "LOW"
riskLevelsAtOrAbove(min) ==
    CASE min = "CRITICAL" -> {"CRITICAL"} [] min = "HIGH" -> {"HIGH", "CRITICAL"}
      [] OTHER -> {"MEDIUM", "HIGH", "CRITICAL"}

\* Single facts that make a counter transaction CRITICAL whatever its score.
hardStop(c) ==
    \/ c.RECEIVING_INSTRUCTIONS_FROM_CALLER = "yes"
    \/ c.reason \in {"LOTTERY_OR_PRIZE_FEE", "TECH_SUPPORT_FEE"}
behaviorTotal(c) == MapThenSumSet(LAMBDA b : tellerFactors[b][c[b]], DOMAIN BEHAVIOR_POINTS)

\* Mutant: the family is called when nobody was coached.
callFamilyWhenCalm(c, level) ==
    CASE level = "CRITICAL" -> "REFUSE_AND_ESCALATE_TO_FRAUD"
      [] level = "HIGH" -> "DELAY_AND_ESCALATE_TO_ANALYST"
      [] level = "MEDIUM" -> IF behaviorTotal(c) < 25 THEN "CALL_FAMILY_OR_TRUSTED_CONTACT" ELSE "VERIFY_VERBALLY"
      [] OTHER -> "PROCEED"

tellerAction(c, level) ==
    CASE level = "CRITICAL" -> "REFUSE_AND_ESCALATE_TO_FRAUD"
      [] level = "HIGH" -> "DELAY_AND_ESCALATE_TO_ANALYST"
      [] level = "MEDIUM" -> IF c.elderMode = "yes" \/ behaviorTotal(c) >= 25 THEN "CALL_FAMILY_OR_TRUSTED_CONTACT"
                                                                           ELSE "VERIFY_VERBALLY"
      [] OTHER -> "PROCEED"

scoreTellerAssist(c) ==
    LET level == IF hardStop(c) THEN "CRITICAL" ELSE portalLevel(Score("teller", c))
    IN  [score |-> Score("teller", c), level |-> level, action |-> tellerAction(c, level)]

minorWithEscalation(c) == c.minor = "yes" /\ \E f \in {"payment", "photo", "privateChannel", "pii"} : c[f] = "yes"
scoreGroomingCheck(c) ==
    LET s == Score("grooming", c)
        level == IF minorWithEscalation(c) \/ c.ageGap = "ADULT_TO_SUSPECTED_MINOR" THEN "CRITICAL"
                                                                                ELSE portalLevel(s)
        action == IF minorWithEscalation(c) THEN "ESCALATE_TO_LAW_ENFORCEMENT"
                  ELSE IF c.ageGap = "ADULT_TO_SUSPECTED_MINOR" THEN "ESCALATE_TO_TRUST_AND_SAFETY"
                  ELSE CASE level = "CRITICAL" -> "SUSPEND_USER"
                         [] level = "HIGH" -> "HARD_INTERVENE"
                         [] level = "MEDIUM" -> "SOFT_INTERVENE"
                         [] OTHER -> IF s >= 10 THEN "MONITOR" ELSE "NONE"
    IN  [score |-> s, level |-> level, action |-> action]

recommendedActionForLevel(level) ==
    CASE level = "CRITICAL" -> "TRIGGER_INTERVENTION" [] level = "HIGH" -> "REQUIRE_VERIFICATION"
      [] level = "MEDIUM" -> "WARN_USER" [] OTHER -> "MONITOR_SESSION"
recommendedAction(level) ==
    CASE level = "CRITICAL" -> "STOP_DO_NOT_SEND_MONEY_OR_INFORMATION"
      [] level = "HIGH" -> "DO_NOT_PROCEED_VERIFY_INDEPENDENTLY"
      [] level = "MEDIUM" -> "VERIFY_BEFORE_PROCEEDING" [] OTHER -> "PROCEED_WITH_NORMAL_CAUTION"

Verdict(k, c) ==
    LET level == levelForScore(Score(k, c))
    IN  CASE k = "teller" -> scoreTellerAssist(c)
          [] k = "grooming" -> scoreGroomingCheck(c)
          [] k = "scamCheck" -> [score |-> Score(k, c), level |-> level, action |-> recommendedAction(level)]
          [] OTHER -> [score |-> Score(k, c), level |-> level, action |-> recommendedActionForLevel(level)]

=============================================================================
