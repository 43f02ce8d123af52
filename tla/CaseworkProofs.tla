---------------------------- MODULE CaseworkProofs ----------------------------
(***************************************************************************)
(* Proofs about the tables with a life cycle, the delivery of              *)
(* notifications, the scorers and the risk pipeline, for every value of    *)
(* their constants.                                                        *)
(***************************************************************************)
EXTENDS MCCasework, FiniteSetTheorems, SequenceTheorems, WellFoundedInduction, TLAPS

-----------------------------------------------------------------------------
(* What the handlers of a table guarantee, each by what it accepts, sets and *)
(* clears.                                                                   *)

Dates == {"consentGrantedAt", "consentRevokedAt", "publishedAt", "expiresAt", "withdrawnAt", "activatedAt",
          "disabledAt", "retiredAt", "submittedAt", "resolvedAt", "revokedAt"}

\* Dates a row of this status lacks: those of NoStamp, and those of an end that is
\* still ahead.
Absent(k, s) ==
    NoStamp(k, s)
       \union (IF k = "rule" /\ s # "RETIRED" THEN {"retiredAt"} ELSE {})
       \union (IF k \in {"feed", "key"} /\ s # "REVOKED" THEN {"revokedAt"} ELSE {})

\* Statuses that are only reached by way of another.
Beyond(k) ==
    CASE k = "rule" -> {"ACTIVE", "DISABLED"}
      [] k = "guardianship" -> {"ACTIVE"}
      [] k = "alert" -> {"EXPIRED"}
      [] k = "takedown" -> {"ACKNOWLEDGED", "IN_PROGRESS", "COMPLETED", "REJECTED"}
      [] OTHER -> {}
Gate(k) ==
    CASE k = "rule" -> "TESTING"
      [] k = "guardianship" -> "PENDING"
      [] k = "alert" -> "PUBLISHED"
      [] OTHER -> "SUBMITTED"

\* From the status found to the status written.
Moves(k, h, f, t) ==
    /\ EarlierStamp(k, t) \subseteq h.sets \union ((Stamp(k, f) \union EarlierStamp(k, f)) \ h.clears)
    /\ Absent(k, t) \intersect h.sets = {}
    /\ Absent(k, t) \subseteq h.clears \union Absent(k, f)
    /\ f \in Final(k) => t \in Final(k)
    /\ t \in Beyond(k) => f \in Beyond(k) \union {Gate(k)}

Facts(k, h) ==
    /\ h.to # "same" => Stamp(k, h.to) \subseteq h.sets
    /\ h.to = "same" => h.clears \intersect Dates = {}
    /\ \A f \in h.from : Moves(k, h, f, IF h.to = "same" THEN f ELSE h.to)
    /\ k = "rule" /\ h.to = "ACTIVE" => h.roles \subseteq ACTIVATION_ROLES
    /\ k = "guardianship" /\ h.to = "ACTIVE" => h.who = {"protected"}
    /\ k = "internalTenant" => h.to = "ACTIVE"
    /\ k = "pausePolicy" => h.sets \subseteq {"n30", "n3600"}
    /\ k \notin Unrecorded => h.event # "none"
    /\ h.op = "view" => h.event = "GUARDIAN_ACCESSED_PROTECTED_USER" /\ h.from = {"ACTIVE"}

-----------------------------------------------------------------------------
(* The inductive invariant. *)

Events == {e.event : e \in trail.all}
Recorded == {e.status : e \in trail.all}

\* A request under way: its guards admitted it, the status it found was one of the
\* row, and is still the row's when no requests overlapped.
OnItsWay(d) ==
    LET q == desk[d]  h == q.h
    IN  /\ q = [at |-> q.at, h |-> q.h, p |-> q.p, found |-> q.found]
        /\ q.at \in {"write", "fetch", "append", "link"}
        /\ h \in Handlers[kind]
        /\ h.who # {} => q.p.user \in h.who
        /\ q.p.role \in h.roles
        /\ q.at \in {"write", "fetch"} => q.found \in h.from /\ q.found \in path
        /\ q.at = "write" => h.op # "view"
        /\ q.at = "fetch" => h.op = "view"
        /\ q.at = "append" /\ h.op = "view" => q.found = "ACTIVE" \/ overlapped
        /\ q.at = "link" => h.event \in Events
        /\ q.at # "link" => q.found = row.status \/ overlapped

RequestsInv ==
    /\ kind \in Kinds
    /\ row = [status |-> row.status, stamps |-> row.stamps, by |-> row.by, evidence |-> row.evidence]
    /\ desk = [d \in Desks |-> desk[d]]
    /\ \A d \in Desks : Busy(d) => OnItsWay(d)
    /\ row.status \in path
    /\ ~overlapped => \A d, e \in Desks : Busy(d) /\ Busy(e) => d = e

StampsInv ==
    /\ Stamp(kind, row.status) \subseteq row.stamps
    /\ ~overlapped => /\ EarlierStamp(kind, row.status) \subseteq row.stamps
                      /\ Absent(kind, row.status) \intersect row.stamps = {}

GuardsInv ==
    /\ kind = "rule" /\ row.status = "ACTIVE" => row.by.role \in ACTIVATION_ROLES
    /\ kind = "guardianship" /\ row.status = "ACTIVE" => row.by.user = "protected"
    /\ kind = "internalTenant" => row.status = "ACTIVE"
    /\ kind = "pausePolicy" => row.stamps \subseteq {"n30", "n3600"}
    /\ Beyond(kind) \intersect path # {} => Gate(kind) \in path
    /\ Final(kind) \intersect path # {} => row.status \in Final(kind) \/ overlapped

\* The row was written and its entry is still to be appended.
Recording(d) == desk[d].at = "append" /\ desk[d].h.op # "view" /\ desk[d].found = row.status

LogInv ==
    /\ kind \notin Unrecorded /\ ~unlogged /\ row.status # FirstStatus(kind) =>
          row.status \in Recorded \/ \E d \in Desks : Recording(d)
    /\ kind \notin Unrecorded /\ ~unlogged /\ ~overlapped =>
          trail.last.status = row.status \/ \E d \in Desks : Recording(d)
    /\ row.evidence # "none" => row.evidence \in Events
    /\ views # {} => "GUARDIAN_ACCESSED_PROTECTED_USER" \in Events
    /\ views \subseteq {"ACTIVE"} \/ overlapped

-----------------------------------------------------------------------------
(* The handlers, table by table. *)

\* Every stamp of a status is one of the dates.
LEMMA StampsAreDates == \A k, s : Stamp(k, s) \subseteq Dates
  BY DEF Stamp, Dates

\* Consent, refusal and revocation of a link: each date is set by the request that
\* sets its status, and only the protected user activates.
LEMMA GuardianshipFits == \A h \in Handlers.guardianship : Facts("guardianship", h)
<1> DEFINE k == "guardianship"
<1>1. /\ \A s : Stamp(k, s) = IF s = "ACTIVE" THEN {"consentGrantedAt"}
                              ELSE IF s = "REVOKED" THEN {"consentRevokedAt"} ELSE {}
      /\ \A s : EarlierStamp(k, s) = IF s = "REVOKED" THEN {"consentGrantedAt"} ELSE {}
      /\ \A s : Absent(k, s) = IF s \in {"PENDING", "DECLINED"} THEN {"consentGrantedAt", "consentRevokedAt"}
                               ELSE IF s = "ACTIVE" THEN {"consentRevokedAt"} ELSE {}
      /\ Final(k) = {} /\ Beyond(k) = {"ACTIVE"} /\ Gate(k) = "PENDING"
  BY DEF Stamp, EarlierStamp, Absent, NoStamp, Final, Beyond, Gate
<1>2. Facts(k, requestGuardianship)
  BY <1>1 DEF Facts, Moves, requestGuardianship, Handler, Dates, Unrecorded
<1>3. Facts(k, grantConsent)
  BY <1>1 DEF Facts, Moves, grantConsent, requireProtectedUserLink, Handler, Dates, Unrecorded
<1>4. Facts(k, declineConsent)
  BY <1>1 DEF Facts, Moves, declineConsent, requireProtectedUserLink, Handler, Dates, Unrecorded
<1>5. Facts(k, revokeConsent)
  BY <1>1 DEF Facts, Moves, revokeConsent, requireProtectedUserLink, Handler, Dates, Unrecorded
<1>6. Facts(k, getProtectedSummary)
  BY <1>1 DEF Facts, Moves, getProtectedSummary, Handler, Dates, Unrecorded
<1>7. Handlers.guardianship =
        {requestGuardianship, grantConsent, declineConsent, revokeConsent, getProtectedSummary}
  BY DEF Handlers
<1> QED  BY <1>2, <1>3, <1>4, <1>5, <1>6, <1>7

\* Rules: an active rule was in TESTING, its roles may activate, a retired rule stays so.
LEMMA RuleFits == \A h \in Handlers.rule : Facts("rule", h)
<1> DEFINE k == "rule"
<1>1. /\ \A s : Stamp(k, s) = IF s = "ACTIVE" THEN {"activatedAt"}
                              ELSE IF s = "DISABLED" THEN {"disabledAt"}
                              ELSE IF s = "RETIRED" THEN {"retiredAt"} ELSE {}
      /\ \A s : EarlierStamp(k, s) = {}
      /\ \A s : Absent(k, s) = (IF s = "ACTIVE" THEN {"disabledAt"} ELSE {})
                                  \union (IF s # "RETIRED" THEN {"retiredAt"} ELSE {})
      /\ Final(k) = {"RETIRED"} /\ Beyond(k) = {"ACTIVE", "DISABLED"} /\ Gate(k) = "TESTING"
  BY DEF Stamp, EarlierStamp, Absent, NoStamp, Final, Beyond, Gate
<1>2. ASSUME NEW h \in createRule PROVE Facts(k, h)
  BY <1>1 DEF Facts, Moves, createRule, Handler, Dates, Unrecorded
<1>3. Facts(k, updateRule)
  BY <1>1 DEF Facts, Moves, updateRule, Handler, Dates, Unrecorded, isEditable, RULE_TRANSITIONS
<1>4. ASSUME NEW h \in updateRuleStatus PROVE Facts(k, h)
  <2> DEFINE stamp == [DRAFT |-> {}, TESTING |-> {}, ACTIVE |-> {"activatedAt"},
                       DISABLED |-> {"disabledAt"}, RETIRED |-> {"retiredAt"}]
             H(f, t) == [Handler(DetectionRuleController.updateStatus, {f}, t, "update", t)
                      EXCEPT !.sets = stamp[t],
                             !.clears = IF t = "ACTIVE" THEN {"disabledAt"} ELSE {},
                             !.roles = IF t = "ACTIVE" THEN ACTIVATION_ROLES ELSE @]
  <2>0. PICK f \in DOMAIN RULE_TRANSITIONS : \E t \in RULE_TRANSITIONS[f] : h = H(f, t)
    BY DEF updateRuleStatus, Edges
  <2>1. PICK t \in RULE_TRANSITIONS[f] : h = H(f, t)
    BY <2>0
  <2>2. /\ h.from = {f} /\ h.to = t /\ h.sets = stamp[t] /\ h.op = "update" /\ h.event = t
        /\ h.clears = IF t = "ACTIVE" THEN {"disabledAt"} ELSE {}
        /\ t = "ACTIVE" => h.roles = ACTIVATION_ROLES
    BY <2>1 DEF Handler
  <2>3. <<f, t>> \in {<<"DRAFT", "TESTING">>, <<"DRAFT", "RETIRED">>, <<"TESTING", "ACTIVE">>,
                      <<"TESTING", "DISABLED">>, <<"TESTING", "DRAFT">>, <<"TESTING", "RETIRED">>,
                      <<"ACTIVE", "DISABLED">>, <<"ACTIVE", "RETIRED">>, <<"DISABLED", "TESTING">>,
                      <<"DISABLED", "ACTIVE">>, <<"DISABLED", "RETIRED">>}
    BY <2>1 DEF RULE_TRANSITIONS
  <2> HIDE DEF H
  <2> QED  BY <1>1, <2>2, <2>3 DEF Facts, Moves, Dates, Unrecorded
<1>5. Handlers.rule = createRule \union {updateRule} \union updateRuleStatus
  BY DEF Handlers
<1> QED  BY <1>2, <1>3, <1>4, <1>5

\* Alerts of the authority: published before they expire, their dates set on the way.
LEMMA AlertFits == \A h \in Handlers.alert : Facts("alert", h)
<1> DEFINE k == "alert"
<1>1. /\ \A s : Stamp(k, s) = IF s = "PUBLISHED" THEN {"publishedAt"}
                              ELSE IF s = "EXPIRED" THEN {"expiresAt"}
                              ELSE IF s = "WITHDRAWN" THEN {"withdrawnAt"} ELSE {}
      /\ \A s : EarlierStamp(k, s) = IF s = "EXPIRED" THEN {"publishedAt"} ELSE {}
      /\ \A s : Absent(k, s) = {}
      /\ Final(k) = {"EXPIRED", "WITHDRAWN"} /\ Beyond(k) = {"EXPIRED"} /\ Gate(k) = "PUBLISHED"
  BY DEF Stamp, EarlierStamp, Absent, NoStamp, Final, Beyond, Gate
<1>2. ASSUME NEW h \in createAlert PROVE Facts(k, h)
  BY <1>1 DEF Facts, Moves, createAlert, Handler, Dates, Unrecorded
<1>3. ASSUME NEW h \in updateAlertStatus PROVE Facts(k, h)
  <2> DEFINE stamp == [PUBLISHED |-> {"publishedAt"}, WITHDRAWN |-> {"withdrawnAt"}, EXPIRED |-> {"expiresAt"}]
             H(f, t) == [Handler(PublicAlertAdminController.updateStatus, {f}, t, "update", t)
                           EXCEPT !.sets = stamp[t]]
  <2>1. PICK f \in DOMAIN ALERT_TRANSITIONS : \E t \in ALERT_TRANSITIONS[f] : h = H(f, t)
    BY <1>3 DEF updateAlertStatus, Edges
  <2>2. PICK t \in ALERT_TRANSITIONS[f] : h = H(f, t)
    BY <2>1
  <2>3. /\ h.from = {f} /\ h.to = t /\ h.sets = stamp[t] /\ h.op = "update" /\ h.event = t /\ h.clears = {}
    BY <2>2 DEF Handler
  <2>4. <<f, t>> \in {<<"DRAFT", "PUBLISHED">>, <<"DRAFT", "WITHDRAWN">>,
                      <<"PUBLISHED", "EXPIRED">>, <<"PUBLISHED", "WITHDRAWN">>}
    BY <2>1, <2>2 DEF ALERT_TRANSITIONS
  <2> HIDE DEF H
  <2> QED  BY <1>1, <2>3, <2>4 DEF Facts, Moves, Dates, Unrecorded
<1>4. Handlers.alert = createAlert \union updateAlertStatus
  BY DEF Handlers
<1> QED  BY <1>2, <1>3, <1>4

\* Takedowns: submitted before any answer of the provider, resolved with the last.
LEMMA TakedownFits == \A h \in Handlers.takedown : Facts("takedown", h)
<1> DEFINE k == "takedown"
           ends == {"COMPLETED", "REJECTED", "WITHDRAWN"}
<1>1. /\ \A s : Stamp(k, s) = IF s = "SUBMITTED" THEN {"submittedAt"}
                              ELSE IF s \in ends THEN {"resolvedAt"} ELSE {}
      /\ \A s : EarlierStamp(k, s) = IF s \notin {"none", "DRAFT", "WITHDRAWN"} THEN {"submittedAt"} ELSE {}
      /\ \A s : Absent(k, s) = IF s \notin ends THEN {"resolvedAt"} ELSE {}
      /\ Final(k) = ends /\ Gate(k) = "SUBMITTED"
      /\ Beyond(k) = {"ACKNOWLEDGED", "IN_PROGRESS", "COMPLETED", "REJECTED"}
  BY DEF Stamp, EarlierStamp, Absent, NoStamp, Final, Beyond, Gate
<1>2. Facts(k, createTakedown)
  BY <1>1 DEF Facts, Moves, createTakedown, Handler, Dates, Unrecorded
<1>3. ASSUME NEW h \in updateTakedownStatus PROVE Facts(k, h)
  <2> DEFINE dates(t) == (IF t = "SUBMITTED" THEN {"submittedAt"} ELSE {})
                            \union (IF TRANSITIONS[t] = {} THEN {"resolvedAt"} ELSE {})
             H(f, t) == [Handler(TakedownController.updateStatus, {f}, t, "update", t)
                           EXCEPT !.sets = dates(t)]
  <2>0. updateTakedownStatus = Edges(TRANSITIONS, H)
    BY DEF updateTakedownStatus
  <2> HIDE DEF H, dates
  <2>1. PICK f \in DOMAIN TRANSITIONS : \E t \in TRANSITIONS[f] : h = H(f, t)
    BY <1>3, <2>0 DEF Edges
  <2>2. PICK t \in TRANSITIONS[f] : h = H(f, t)
    BY <2>1
  <2>3. /\ h.from = {f} /\ h.to = t /\ h.sets = dates(t) /\ h.op = "update" /\ h.event = t /\ h.clears = {}
    BY <2>2 DEF H, Handler
  <2>4. <<f, t>> \in ({<<"DRAFT", "SUBMITTED">>, <<"DRAFT", "WITHDRAWN">>, <<"SUBMITTED", "ACKNOWLEDGED">>,
                       <<"SUBMITTED", "IN_PROGRESS">>, <<"ACKNOWLEDGED", "IN_PROGRESS">>}
                        \union {"SUBMITTED", "ACKNOWLEDGED", "IN_PROGRESS"} \X ends)
    BY <2>1, <2>2 DEF TRANSITIONS
  <2>5. dates(t) = (IF t = "SUBMITTED" THEN {"submittedAt"} ELSE {})
                      \union (IF t \in ends THEN {"resolvedAt"} ELSE {})
    BY <2>4 DEF dates, TRANSITIONS
  <2>6. CASE t \in ends
    <3>1. f \in {"DRAFT", "SUBMITTED", "ACKNOWLEDGED", "IN_PROGRESS"} /\ (f = "DRAFT" => t = "WITHDRAWN")
      BY <2>4, <2>6
    <3> QED  BY <1>1, <2>3, <2>5, <2>6, <3>1 DEF Facts, Moves, Dates, Unrecorded
  <2>7. CASE t \notin ends
    <3>1. <<f, t>> \in {<<"DRAFT", "SUBMITTED">>, <<"SUBMITTED", "ACKNOWLEDGED">>,
                        <<"SUBMITTED", "IN_PROGRESS">>, <<"ACKNOWLEDGED", "IN_PROGRESS">>}
      BY <2>4, <2>7
    <3> QED  BY <1>1, <2>3, <2>5, <2>7, <3>1 DEF Facts, Moves, Dates, Unrecorded
  <2> QED  BY <2>6, <2>7
<1>4. Handlers.takedown = {createTakedown} \union updateTakedownStatus
  BY DEF Handlers
<1> QED  BY <1>2, <1>3, <1>4

\* Agency feeds: a revocation sets its date, and a revoked feed stays so.
LEMMA FeedFits == \A h \in Handlers.feed : Facts("feed", h)
<1> DEFINE k == "feed"
<1>1. /\ \A s : Stamp(k, s) = IF s = "REVOKED" THEN {"revokedAt"} ELSE {}
      /\ \A s : EarlierStamp(k, s) = {}
      /\ \A s : Absent(k, s) = IF s # "REVOKED" THEN {"revokedAt"} ELSE {}
      /\ Final(k) = {"REVOKED"} /\ Beyond(k) = {}
  BY DEF Stamp, EarlierStamp, Absent, NoStamp, Final, Beyond
<1>2. Facts(k, createFeed)
  BY <1>1 DEF Facts, Moves, createFeed, Handler, Dates, Unrecorded
<1>3. Facts(k, revokeFeed)
  BY <1>1 DEF Facts, Moves, revokeFeed, Handler, Dates, Unrecorded
<1> QED  BY <1>2, <1>3 DEF Handlers

\* Partner keys: a revocation sets its date, and a revoked key stays so.
LEMMA KeyFits == \A h \in Handlers.key : Facts("key", h)
<1> DEFINE k == "key"
<1>1. /\ \A s : Stamp(k, s) = IF s = "REVOKED" THEN {"revokedAt"} ELSE {}
      /\ \A s : EarlierStamp(k, s) = {}
      /\ \A s : Absent(k, s) = IF s # "REVOKED" THEN {"revokedAt"} ELSE {}
      /\ Final(k) = {"REVOKED"} /\ Beyond(k) = {}
  BY DEF Stamp, EarlierStamp, Absent, NoStamp, Final, Beyond
<1>2. Facts(k, issueKey)
  BY <1>1 DEF Facts, Moves, issueKey, Handler, Dates, Unrecorded
<1>3. Facts(k, updatePlan)
  BY <1>1 DEF Facts, Moves, updatePlan, Handler, Dates, Unrecorded
<1>4. Facts(k, revokeKey)
  BY <1>1 DEF Facts, Moves, revokeKey, Handler, Dates, Unrecorded
<1> QED  BY <1>2, <1>3, <1>4 DEF Handlers

\* Cases: every handler asks for an open one (requireOpen), so that a closed case stays
\* closed, and only closing sets closedAt.
LEMMA CaseFits == \A h \in Handlers.case : Facts("case", h)
<1> DEFINE k == "case"
<1>1. /\ \A s : Stamp(k, s) = {} /\ EarlierStamp(k, s) = {}
      /\ \A s : Absent(k, s) = IF s # "CLOSED" THEN {"closedAt"} ELSE {}
      /\ Final(k) = {"CLOSED"} /\ Beyond(k) = {}
  BY DEF Stamp, EarlierStamp, Absent, NoStamp, Final, Beyond
<1>2. Facts(k, createCase)
  BY <1>1 DEF Facts, Moves, createCase, Handler, Dates, Unrecorded
<1>3. ASSUME NEW h \in updateCase PROVE Facts(k, h)
  BY <1>1, <1>3 DEF Facts, Moves, updateCase, requireOpen, CaseStatus, Handler, Dates, Unrecorded
<1>4. Facts(k, linkEvidence)
  BY <1>1 DEF Facts, Moves, linkEvidence, requireOpen, CaseStatus, Handler, Dates, Unrecorded
<1>5. Facts(k, unlinkEvidence)
  BY <1>1 DEF Facts, Moves, unlinkEvidence, requireOpen, CaseStatus, Handler, Dates, Unrecorded
<1>6. Facts(k, linkCluster)
  BY <1>1 DEF Facts, Moves, linkCluster, requireOpen, CaseStatus, Handler, Dates, Unrecorded
<1>7. Facts(k, unlinkCluster)
  BY <1>1 DEF Facts, Moves, unlinkCluster, requireOpen, CaseStatus, Handler, Dates, Unrecorded
<1>8. Facts(k, addNote)
  BY <1>1 DEF Facts, Moves, addNote, requireOpen, CaseStatus, Handler, Dates, Unrecorded
<1>9. Facts(k, close)
  BY <1>1 DEF Facts, Moves, close, requireOpen, CaseStatus, Handler, Dates, Unrecorded
<1>10. Handlers.case = {createCase, linkEvidence, unlinkEvidence, linkCluster, unlinkCluster, addNote, close}
                          \union updateCase
  BY DEF Handlers
<1> QED  BY <1>2, <1>3, <1>4, <1>5, <1>6, <1>7, <1>8, <1>9, <1>10

\* A table with no dates, gates or final statuses asks little of its handlers.
LEMMA PlainFits ==
    ASSUME NEW k \in Kinds \ {"guardianship", "alert", "rule", "takedown", "feed", "key", "case"},
           NEW h,
           h.to = "same" => h.clears \intersect Dates = {},
           k \notin Unrecorded => h.event # "none",
           h.op # "view",
           k = "internalTenant" => h.to = "ACTIVE",
           k = "pausePolicy" => h.sets \subseteq {"n30", "n3600"}
    PROVE  Facts(k, h)
<1>1. /\ \A s : Stamp(k, s) = {} /\ EarlierStamp(k, s) = {} /\ Absent(k, s) = {}
      /\ Final(k) = {} /\ Beyond(k) = {}
  BY DEF Stamp, EarlierStamp, Absent, NoStamp, Final, Beyond
<1> QED  BY <1>1 DEF Facts, Moves

\* Rows of exports, portal checks, reviews, moderation, devices and the inbox.
LEMMA RecordFits ==
    /\ \A h \in Handlers.export : Facts("export", h)
    /\ \A h \in Handlers.teller : Facts("teller", h)
    /\ \A h \in Handlers.grooming : Facts("grooming", h)
    /\ \A h \in Handlers.bankReview : Facts("bankReview", h)
    /\ \A h \in Handlers.moderation : Facts("moderation", h)
    /\ \A h \in Handlers.device : Facts("device", h)
    /\ \A h \in Handlers.inbox : Facts("inbox", h)
<1> {"export", "teller", "grooming", "bankReview", "moderation", "device", "inbox"} \subseteq Kinds
  BY DEF Kinds, Handlers
<1>1. ASSUME NEW h \in Handlers.export PROVE Facts("export", h)
  BY PlainFits DEF Handlers, generateBundle, Handler
<1>2. ASSUME NEW h \in Handlers.teller PROVE Facts("teller", h)
  BY PlainFits DEF Handlers, tellerAssist, Linked, Handler
<1>3. ASSUME NEW h \in Handlers.grooming PROVE Facts("grooming", h)
  BY PlainFits DEF Handlers, groomingCheck, Linked, Handler
<1>4. ASSUME NEW h \in Handlers.bankReview PROVE Facts("bankReview", h)
  <2>1. h \in reviewCase
    BY DEF Handlers
  <2> QED  BY <2>1, PlainFits DEF reviewCase, Linked, Handler
<1>5. ASSUME NEW h \in Handlers.moderation PROVE Facts("moderation", h)
  <2>1. h \in decideOnClaim
    BY DEF Handlers
  <2> QED  BY <2>1, PlainFits DEF decideOnClaim, Linked, Handler
<1>6. ASSUME NEW h \in Handlers.device PROVE Facts("device", h)
  <2>1. h \in {enroll, heartbeat, revokeDevice}
    BY DEF Handlers
  <2> QED  BY <2>1, PlainFits DEF enroll, heartbeat, revokeDevice, Owned, Handler, Unrecorded
<1>7. ASSUME NEW h \in Handlers.inbox PROVE Facts("inbox", h)
  <2>1. h = markRead
    BY DEF Handlers
  <2>2. h.clears = {} /\ h.op = "update"
    BY <2>1 DEF markRead, Owned, Handler
  <2> QED  BY <2>2, PlainFits DEF Unrecorded
<1> QED  BY <1>1, <1>2, <1>3, <1>4, <1>5, <1>6, <1>7

\* Settings: what is stored passed the checks of POLICY_REGISTRY, and the internal
\* tenant is never suspended.
LEMMA SettingFits ==
    /\ \A h \in Handlers.pausePolicy : Facts("pausePolicy", h)
    /\ \A h \in Handlers.channelPolicy : Facts("channelPolicy", h)
    /\ \A h \in Handlers.retentionPolicy : Facts("retentionPolicy", h)
    /\ \A h \in Handlers.integration : Facts("integration", h)
    /\ \A h \in Handlers.tenant : Facts("tenant", h)
    /\ \A h \in Handlers.internalTenant : Facts("internalTenant", h)
    /\ \A h \in Handlers.decision : Facts("decision", h)
<1> {"pausePolicy", "channelPolicy", "retentionPolicy", "integration", "tenant", "internalTenant", "decision"}
       \subseteq Kinds
  BY DEF Kinds, Handlers
<1>1. ASSUME NEW key, NEW h \in setPolicy(key) \union {deletePolicy}
      PROVE  /\ h.to \in {"SET", "none"} /\ h.event # "none" /\ h.op # "view"
             /\ \E v \in DOMAIN PolicyValue : h.sets \subseteq {v} /\ (h.sets # {} => POLICY_REGISTRY[v][key])
  <2>1. CASE h = deletePolicy
    <3>1. "aBool" \in DOMAIN PolicyValue
      BY DEF PolicyValue
    <3> QED  BY <2>1, <3>1 DEF deletePolicy, Handler
  <2>2. CASE h \in setPolicy(key)
    <3> DEFINE base == Handler(EnterprisePortalController.setPolicy, {"none", "SET"}, "SET", "upsert",
                               "ENTERPRISE_POLICY_SET")
    <3>1. PICK v \in {u \in DOMAIN PolicyValue : POLICY_REGISTRY[u][key]} :
             h = [Linked(base) EXCEPT !.sets = {v}, !.clears = DOMAIN PolicyValue]
      BY <2>2 DEF setPolicy
    <3>2. h.to = "SET" /\ h.event = "ENTERPRISE_POLICY_SET" /\ h.op = "upsert" /\ h.sets = {v}
      BY <3>1 DEF Linked, Handler
    <3> QED  BY <3>1, <3>2
  <2> QED  BY <2>1, <2>2
<1>2. ASSUME NEW h \in Handlers.pausePolicy PROVE Facts("pausePolicy", h)
  <2> DEFINE key == "guardian_pause_default_seconds"
  <2>1. h \in setPolicy(key) \union {deletePolicy}
    BY DEF Handlers
  <2>2. \A v \in DOMAIN PolicyValue : POLICY_REGISTRY[v][key] => v \in {"n30", "n3600"}
    <3>1. \A v \in DOMAIN PolicyValue : POLICY_REGISTRY[v][key] = Within(PolicyValue[v], 30, 3600)
      BY DEF POLICY_REGISTRY
    <3>2. DOMAIN PolicyValue = {"aBool", "n29", "n30", "n3600", "n3651", "email", "fax"}
      BY DEF PolicyValue
    <3>3. /\ PolicyValue.aBool.t = "bool" /\ PolicyValue.email.t = "strings" /\ PolicyValue.fax.t = "strings"
          /\ PolicyValue.n29.n = 29 /\ PolicyValue.n3651.n = 3651
      BY DEF PolicyValue
    <3>4. /\ ~Within(PolicyValue.aBool, 30, 3600) /\ ~Within(PolicyValue.n29, 30, 3600)
          /\ ~Within(PolicyValue.n3651, 30, 3600)
          /\ ~Within(PolicyValue.email, 30, 3600) /\ ~Within(PolicyValue.fax, 30, 3600)
      BY <3>3 DEF Within
    <3> QED  BY <3>1, <3>2, <3>4
  <2>3. h.sets \subseteq {"n30", "n3600"} /\ h.to # "same" /\ h.event # "none" /\ h.op # "view"
    BY <1>1, <2>1, <2>2
  <2> QED  BY <2>3, PlainFits
<1>3. ASSUME NEW h \in Handlers.channelPolicy PROVE Facts("channelPolicy", h)
  <2>1. h \in setPolicy("notification_channels_enabled") \union {deletePolicy}
    BY DEF Handlers
  <2>2. h.to # "same" /\ h.event # "none" /\ h.op # "view"
    BY <1>1, <2>1
  <2> QED  BY <2>2, PlainFits
<1>4. ASSUME NEW h \in Handlers.retentionPolicy PROVE Facts("retentionPolicy", h)
  <2>1. h \in setPolicy("data_retention_days") \union {deletePolicy}
    BY DEF Handlers
  <2>2. h.to # "same" /\ h.event # "none" /\ h.op # "view"
    BY <1>1, <2>1
  <2> QED  BY <2>2, PlainFits
<1>5. ASSUME NEW h \in Handlers.integration PROVE Facts("integration", h)
  <2>1. h \in createIntegration \union {deleteIntegration}
    BY DEF Handlers
  <2>2. h.to # "same" /\ h.event # "none" /\ h.op # "view"
    BY <2>1 DEF createIntegration, deleteIntegration, Linked, Handler
  <2> QED  BY <2>2, PlainFits
<1>6. ASSUME NEW type, NEW h \in setTenantStatus(type)
      PROVE  /\ h.to \in TenantStatus /\ h.event # "none" /\ h.op # "view"
             /\ type = "INTERNAL" => h.to = "ACTIVE"
  <2> DEFINE edges == [f \in TenantStatus |-> {t \in TenantStatus \ {f} : type = "INTERNAL" => t = "ACTIVE"}]
             H(f, t) == Handler(OversightController.setTenantStatus, {f}, t, "update", "INTERNAL_TENANT_STATUS_CHANGED")
  <2>1. PICK f \in TenantStatus : \E t \in edges[f] : h = H(f, t)
    BY <1>6 DEF setTenantStatus, Edges
  <2>2. PICK t \in edges[f] : h = H(f, t)
    BY <2>1
  <2> QED  BY <2>1, <2>2 DEF Handler
<1>7. ASSUME NEW h \in Handlers.tenant PROVE Facts("tenant", h)
  <2>1. h \in setTenantStatus("BANK")
    BY DEF Handlers
  <2>2. h.to # "same" /\ h.event # "none" /\ h.op # "view"
    BY <1>6, <2>1 DEF TenantStatus
  <2> QED  BY <2>2, PlainFits
<1>8. ASSUME NEW h \in Handlers.internalTenant PROVE Facts("internalTenant", h)
  <2>1. h \in setTenantStatus("INTERNAL")
    BY DEF Handlers
  <2>2. h.to = "ACTIVE" /\ h.event # "none" /\ h.op # "view"
    BY <1>6, <2>1
  <2> QED  BY <2>2, PlainFits
<1>9. ASSUME NEW h \in Handlers.decision PROVE Facts("decision", h)
  <2>1. h \in submitFeedback
    BY DEF Handlers
  <2>2. h.to # "same" /\ h.event # "none" /\ h.op # "view"
    BY <2>1 DEF submitFeedback, LABEL_TO_STATUS, Handler
  <2> QED  BY <2>2, PlainFits
<1> QED  BY <1>2, <1>3, <1>4, <1>5, <1>7, <1>8, <1>9

\* What every handler of every table guarantees.
LEMMA HandlersFit == \A k \in Kinds : \A h \in Handlers[k] : Facts(k, h)
<1>1. Kinds = {"guardianship", "alert", "rule", "takedown", "feed", "key", "export", "case", "teller", "grooming",
               "bankReview", "moderation", "pausePolicy", "channelPolicy", "retentionPolicy", "integration",
               "device", "inbox", "tenant", "internalTenant", "decision"}
  BY DEF Kinds, Handlers
<1> QED  BY <1>1, GuardianshipFits, AlertFits, RuleFits, TakedownFits, FeedFits, KeyFits, CaseFits, RecordFits,
             SettingFits

-----------------------------------------------------------------------------
(* The steps of a request. *)

\* One desk moves, the others keep their requests; what they found may only differ
\* from the row once requests have overlapped.
LEMMA DeskStep ==
    ASSUME RequestsInv, NEW d \in Desks, NEW r,
           desk' = [desk EXCEPT ![d] = r],
           r.at = "free" \/ OnItsWay(d)',
           UNCHANGED kind,
           row' = [status |-> row'.status, stamps |-> row'.stamps, by |-> row'.by, evidence |-> row'.evidence],
           row'.status \in path', path \subseteq path', trail.all \subseteq trail'.all,
           overlapped => overlapped',
           ~overlapped' => \A e \in Desks \ {d} : ~Busy(e)
    PROVE  RequestsInv'
<1>1. desk'[d] = r /\ \A e \in Desks \ {d} : desk'[e] = desk[e]
  BY DEF RequestsInv
<1>2. desk' = [e \in Desks |-> desk'[e]]
  BY DEF RequestsInv
<1>3. ASSUME NEW e \in Desks, Busy(e)'
      PROVE  OnItsWay(e)'
  <2>1. CASE e = d
    BY <1>1, <1>3, <2>1 DEF Busy
  <2>2. CASE e # d
    <3>1. desk'[e] = desk[e] /\ Busy(e) /\ OnItsWay(e) /\ overlapped'
      BY <1>1, <1>3, <2>2 DEF Busy, RequestsInv
    <3>2. Events \subseteq Events'
      BY DEF Events
    <3> QED  BY <3>1, <3>2 DEF OnItsWay
  <2> QED  BY <2>1, <2>2
<1>4. ~overlapped' => \A a, b \in Desks : Busy(a)' /\ Busy(b)' => a = b
  BY <1>1 DEF Busy
<1>5. kind' \in Kinds
  BY DEF RequestsInv
<1> QED  BY <1>2, <1>3, <1>4, <1>5 DEF RequestsInv

\* The fields of a request after a step.
LEMMA Answered ==
    ASSUME NEW q, q = [at |-> q.at, h |-> q.h, p |-> q.p, found |-> q.found], NEW a, NEW f
    PROVE  [q EXCEPT !.at = a, !.found = f] = [at |-> a, h |-> q.h, p |-> q.p, found |-> f]
<1> DEFINE x == q.at  h == q.h  p == q.p  g == q.found
<1>1. q = [at |-> x, h |-> h, p |-> p, found |-> g]
  OBVIOUS
<1> HIDE DEF x, h, p, g
<1>2. [q EXCEPT !.at = a] = [at |-> a, h |-> h, p |-> p, found |-> g]
  BY <1>1
<1> DEFINE answer == [q EXCEPT !.at = a]
<1>3. [q EXCEPT !.at = a, !.found = f] = [answer EXCEPT !.found = f]
  OBVIOUS
<1>4. answer = [at |-> a, h |-> h, p |-> p, found |-> g]
  BY <1>2
<1> HIDE DEF answer
<1>5. [answer EXCEPT !.found = f] = [at |-> a, h |-> h, p |-> p, found |-> f]
  BY <1>4
<1> QED  BY <1>3, <1>5 DEF h, p

\* A request under way has its desk to itself unless requests overlapped.
LEMMA BusyFacts ==
    ASSUME RequestsInv, NEW d \in Desks, Busy(d)
    PROVE  /\ OnItsWay(d) /\ desk[d].h \in Handlers[kind] /\ Facts(kind, desk[d].h)
           /\ ~overlapped => \A e \in Desks \ {d} : ~Busy(e)
<1>1. OnItsWay(d) /\ (~overlapped => \A e \in Desks \ {d} : ~Busy(e)) /\ kind \in Kinds
  BY DEF RequestsInv
<1>2. desk[d].h \in Handlers[kind]
  BY <1>1 DEF OnItsWay
<1> QED  BY <1>1, <1>2, HandlersFit

\* The write of the row: by the handler's record and the status that was found.
Written(d) ==
    LET q == desk[d]  h == q.h
        t == IF h.to = "same" THEN row.status ELSE h.to
    IN  /\ q.at = "write" /\ q.found \in h.from /\ q.found \in path
        /\ q.found = row.status \/ overlapped
        /\ h.op # "view" /\ Facts(kind, h)
        /\ h.who # {} => q.p.user \in h.who
        /\ q.p.role \in h.roles
        /\ row' = [status |-> t, stamps |-> (row.stamps \ h.clears) \union h.sets,
                   by |-> IF h.to = "same" THEN row.by ELSE q.p,
                   evidence |-> IF t = "none" THEN "none" ELSE row.evidence]
        /\ path' = path \union {t}
        /\ UNCHANGED <<kind, views, overlapped, unlogged>>

\* What WriteRow writes, from a handler of the row's table.
LEMMA WriteFacts ==
    ASSUME RequestsInv, NEW d \in Desks, WriteRow(d)
    PROVE  Written(d) /\ Busy(d)
<1>1. desk[d].at = "write" /\ Busy(d)
  BY DEF WriteRow, Busy
<1>2. OnItsWay(d) /\ Facts(kind, desk[d].h)
  BY <1>1, BusyFacts
<1> QED  BY <1>1, <1>2 DEF Written, WriteRow, OnItsWay

\* Whoever writes, reads or dies: the request goes to its next step or ends.
LEMMA RequestsStep == RequestsInv /\ [LifecyclesNext]_lifeVars => RequestsInv'
<1> SUFFICES ASSUME RequestsInv, [LifecyclesNext]_lifeVars PROVE RequestsInv'
  OBVIOUS
<1>1. CASE UNCHANGED lifeVars
  BY <1>1 DEF lifeVars, RequestsInv, Busy, OnItsWay, Events
<1>2. ASSUME NEW d \in Desks, NEW h \in Handlers[kind], NEW p \in People, Admit(d, p, h)
      PROVE  RequestsInv'
  <2> DEFINE r == [at |-> IF h.op = "view" THEN "fetch" ELSE "write", h |-> h,
                   p |-> [user |-> p.user, role |-> p.role], found |-> row.status]
  <2>1. /\ desk' = [desk EXCEPT ![d] = r] /\ UNCHANGED <<kind, row, path, trail>>
        /\ overlapped' = (overlapped \/ Others(d) # {})
        /\ row.status \in h.from /\ row.status \in path
        /\ h.who # {} => p.user \in h.who
        /\ p.role \in h.roles
    BY <1>2 DEF Admit, RequestsInv
  <2>2. desk'[d] = r
    BY <2>1 DEF RequestsInv
  <2>3. OnItsWay(d)'
    BY <2>1, <2>2 DEF OnItsWay
  <2>4. ~overlapped' => \A e \in Desks \ {d} : ~Busy(e)
    BY <2>1 DEF Others
  <2>5. row = [status |-> row.status, stamps |-> row.stamps, by |-> row.by, evidence |-> row.evidence]
    BY DEF RequestsInv
  <2> HIDE DEF r
  <2> QED  BY <2>1, <2>3, <2>4, <2>5, DeskStep
<1>3. ASSUME NEW d \in Desks, WriteRow(d)
      PROVE  RequestsInv'
  <2> DEFINE q == desk[d]
             done == q.h.op = "transact" \/ q.h.event = "none"
             status == IF q.h.to = "same" THEN row.status ELSE q.h.to
             r == IF done THEN NoRequest ELSE [q EXCEPT !.at = "append", !.found = status]
  <2>1. Written(d) /\ Busy(d)
    BY <1>3, WriteFacts
  <2>2. OnItsWay(d) /\ (~overlapped => \A e \in Desks \ {d} : ~Busy(e))
    BY <2>1, BusyFacts
  <2>3. desk' = [desk EXCEPT ![d] = r]
    BY <1>3 DEF WriteRow
  <2>4. desk'[d] = r
    BY <2>3 DEF RequestsInv
  <2>5. row'.status = status /\ path' = path \union {status} /\ UNCHANGED <<kind, overlapped>>
        /\ row' = [status |-> row'.status, stamps |-> row'.stamps, by |-> row'.by, evidence |-> row'.evidence]
    BY <2>1 DEF Written
  <2>6. trail.all \subseteq trail'.all
    BY <1>3 DEF WriteRow, Logged
  <2>7. r.at = "free" \/ OnItsWay(d)'
    <3>1. CASE done
      BY <3>1 DEF NoRequest
    <3>2. CASE ~done
      <4>1. q = [at |-> q.at, h |-> q.h, p |-> q.p, found |-> q.found]
        BY <2>2 DEF OnItsWay
      <4>2. r = [at |-> "append", h |-> q.h, p |-> q.p, found |-> status]
        BY <3>2, <4>1
      <4>3. q.h.op # "view"
        BY <2>1 DEF Written
      <4> HIDE DEF status, r
      <4> QED  BY <2>2, <2>4, <2>5, <4>2, <4>3 DEF OnItsWay
    <3> QED  BY <3>1, <3>2
  <2> HIDE DEF r, status
  <2> QED  BY <2>2, <2>3, <2>5, <2>6, <2>7, DeskStep
<1>4. ASSUME NEW d \in Desks, NEW at \in {"free", "link"},
             Busy(d), Step(d, at), UNCHANGED <<kind, path, overlapped>>,
             row' = [status |-> row.status, stamps |-> row.stamps, by |-> row.by, evidence |-> row'.evidence],
             trail.all \subseteq trail'.all,
             at = "link" => desk[d].h.event \in Events'
      PROVE  RequestsInv'
  <2> DEFINE q == desk[d]
             r == IF at = "free" THEN NoRequest ELSE [q EXCEPT !.at = at]
  <2>1. OnItsWay(d) /\ (~overlapped => \A e \in Desks \ {d} : ~Busy(e))
    BY <1>4, BusyFacts
  <2>2. desk' = [desk EXCEPT ![d] = r]
    BY <1>4 DEF Step, RequestsInv
  <2>3. desk'[d] = r
    BY <2>2 DEF RequestsInv
  <2>4. r.at = "free" \/ OnItsWay(d)'
    <3>1. CASE at = "free"
      BY <3>1 DEF NoRequest
    <3>2. CASE at = "link"
      <4>1. q = [at |-> q.at, h |-> q.h, p |-> q.p, found |-> q.found]
        BY <2>1 DEF OnItsWay
      <4>2. r = [at |-> "link", h |-> q.h, p |-> q.p, found |-> q.found]
        BY <3>2, <4>1
      <4> HIDE DEF r
      <4> QED  BY <1>4, <2>1, <2>3, <3>2, <4>2 DEF OnItsWay
    <3> QED  BY <1>4, <3>1, <3>2
  <2>5. row'.status \in path'
        /\ row' = [status |-> row'.status, stamps |-> row'.stamps, by |-> row'.by, evidence |-> row'.evidence]
    BY <1>4 DEF RequestsInv
  <2> HIDE DEF r
  <2> QED  BY <1>4, <2>1, <2>2, <2>4, <2>5, DeskStep
<1>r. row = [status |-> row.status, stamps |-> row.stamps, by |-> row.by, evidence |-> row.evidence]
  BY DEF RequestsInv
<1>5. ASSUME NEW d \in Desks, RefuseRow(d) \/ Die(d) PROVE RequestsInv'
  <2>1. Busy(d) /\ Step(d, "free") /\ UNCHANGED <<kind, path, overlapped, row, trail>>
    BY <1>5 DEF RefuseRow, Die, Busy
  <2> QED  BY <2>1, <1>4, <1>r
<1>6. ASSUME NEW d \in Desks, LinkEvidence(d) PROVE RequestsInv'
  <2>1. Busy(d) /\ Step(d, "free") /\ UNCHANGED <<kind, path, overlapped, trail>>
        /\ row' = IF row.status = "none" THEN row ELSE [row EXCEPT !.evidence = desk[d].h.event]
    BY <1>6 DEF LinkEvidence, Busy
  <2>2. row' = [status |-> row.status, stamps |-> row.stamps, by |-> row.by, evidence |-> row'.evidence]
    BY <2>1, <1>r
  <2> QED  BY <2>1, <2>2, <1>4
<1>7. ASSUME NEW d \in Desks, logEvidence(d) PROVE RequestsInv'
  <2>1. /\ Busy(d) /\ Step(d, IF desk[d].h.link THEN "link" ELSE "free")
        /\ UNCHANGED <<kind, path, overlapped, row>>
        /\ trail' = Logged(trail, Entry(desk[d].h, desk[d].found))
    BY <1>7 DEF logEvidence, Busy
  <2>2. trail.all \subseteq trail'.all /\ desk[d].h.event \in Events'
    BY <2>1 DEF Logged, Entry, Events
  <2>3. CASE desk[d].h.link
    BY <2>1, <2>2, <2>3, <1>4, <1>r
  <2>4. CASE ~desk[d].h.link
    BY <2>1, <2>2, <2>4, <1>4, <1>r
  <2> QED  BY <2>3, <2>4
<1>8. ASSUME NEW d \in Desks, FetchSummary(d) PROVE RequestsInv'
  <2> DEFINE q == desk[d]
             r == [q EXCEPT !.at = "append", !.found = row.status]
  <2>1. /\ q.at = "fetch" /\ Busy(d) /\ UNCHANGED <<kind, path, overlapped, row, trail>>
        /\ desk' = [desk EXCEPT ![d].at = "append", ![d].found = row.status]
    BY <1>8 DEF FetchSummary, Busy
  <2>2. OnItsWay(d) /\ Facts(kind, q.h) /\ (~overlapped => \A e \in Desks \ {d} : ~Busy(e))
    BY <2>1, BusyFacts
  <2>3. q = [at |-> q.at, h |-> q.h, p |-> q.p, found |-> q.found]
    BY <2>2 DEF OnItsWay
  <2>4. r = [at |-> "append", h |-> q.h, p |-> q.p, found |-> row.status]
    <3> HIDE DEF q
    <3> QED  BY <2>3, Answered
  <2>a. desk = [x \in Desks |-> desk[x]]
    BY DEF RequestsInv
  <2>b. desk' = [[desk EXCEPT ![d] = [q EXCEPT !.at = "append"]] EXCEPT ![d] = r]
    <3>1. [desk EXCEPT ![d] = [q EXCEPT !.at = "append"]][d] = [q EXCEPT !.at = "append"]
      BY <2>a
    <3> QED  BY <2>1, <3>1
  <2>5. desk' = [desk EXCEPT ![d] = r] /\ desk'[d] = r
    <3> HIDE DEF r
    <3> QED  BY <2>a, <2>b
  <2>6. row.status = "ACTIVE" \/ overlapped
    BY <2>1, <2>2 DEF OnItsWay, Facts
  <2> HIDE DEF r
  <2>c. desk'[d] = [at |-> "append", h |-> q.h, p |-> q.p, found |-> row.status]
    BY <2>4, <2>5
  <2>d. OnItsWay(d) /\ UNCHANGED <<kind, row, path, trail, overlapped>>
    BY <2>1, <2>2
  <2>7. OnItsWay(d)'
    BY <2>c, <2>d, <2>6 DEF OnItsWay
  <2>8. row.status \in path
    BY DEF RequestsInv
  <2> QED  BY <2>1, <2>2, <2>5, <2>7, <2>8, <1>r, DeskStep
<1> QED  BY <1>1, <1>2, <1>3, <1>5, <1>6, <1>7, <1>8 DEF LifecyclesNext

-----------------------------------------------------------------------------
(* The dates and the guardrails of the row. *)

\* Linking an entry to a row leaves its status, its dates and who wrote them.
LEMMA EvidenceLinked ==
    ASSUME NEW s, NEW x, NEW b, NEW v, NEW w,
           NEW r, r = [status |-> s, stamps |-> x, by |-> b, evidence |-> v]
    PROVE  [r EXCEPT !.evidence = w] = [status |-> s, stamps |-> x, by |-> b, evidence |-> w]
  OBVIOUS

\* Only WriteRow changes a status, a date or who wrote them.
LEMMA RowKept ==
    ASSUME RequestsInv, LifecyclesNext, ~\E d \in Desks : WriteRow(d)
    PROVE  /\ UNCHANGED <<kind, path>> /\ (overlapped => overlapped')
           /\ row'.status = row.status /\ row'.stamps = row.stamps /\ row'.by = row.by
<1>1. row = [status |-> row.status, stamps |-> row.stamps, by |-> row.by, evidence |-> row.evidence]
  BY DEF RequestsInv
<1>2. ASSUME NEW d \in Desks, LinkEvidence(d)
      PROVE  row'.status = row.status /\ row'.stamps = row.stamps /\ row'.by = row.by
  <2> DEFINE w == desk[d].h.event
  <2>1. row' = row \/ row' = [row EXCEPT !.evidence = w]
    BY <1>2 DEF LinkEvidence
  <2>2. [row EXCEPT !.evidence = w]
          = [status |-> row.status, stamps |-> row.stamps, by |-> row.by, evidence |-> w]
    <3> HIDE DEF w
    <3> QED  BY <1>1, EvidenceLinked
  <2> HIDE DEF w
  <2>3. CASE row' = row
    BY <2>3
  <2>4. CASE row' = [row EXCEPT !.evidence = w]
    BY <2>2, <2>4
  <2> QED  BY <2>1, <2>3, <2>4
<1>3. PICK d \in Desks :
        \/ \E h \in Handlers[kind], p \in People : Admit(d, p, h)
        \/ RefuseRow(d) \/ FetchSummary(d) \/ logEvidence(d) \/ LinkEvidence(d) \/ Die(d)
  BY DEF LifecyclesNext
<1>4. CASE LinkEvidence(d)
  <2>1. UNCHANGED <<kind, path, overlapped>>
    BY <1>4 DEF LinkEvidence
  <2>2. row'.status = row.status /\ row'.stamps = row.stamps /\ row'.by = row.by
    BY <1>2, <1>4
  <2> QED  BY <2>1, <2>2
<1>5. CASE \E h \in Handlers[kind], p \in People : Admit(d, p, h)
  BY <1>5 DEF Admit
<1>6. CASE RefuseRow(d) \/ FetchSummary(d) \/ logEvidence(d) \/ Die(d)
  BY <1>6 DEF RefuseRow, FetchSummary, logEvidence, Die
<1> QED  BY <1>3, <1>4, <1>5, <1>6

\* The write of a status sets its date; without overlaps it finds the dates that the
\* status it was admitted for had.
LEMMA StampsStep ==
    ASSUME RequestsInv, StampsInv, [LifecyclesNext]_lifeVars
    PROVE  StampsInv'
<1>1. CASE UNCHANGED lifeVars
  BY <1>1 DEF lifeVars, StampsInv
<1>2. CASE LifecyclesNext /\ ~\E d \in Desks : WriteRow(d)
  BY <1>2, RowKept DEF StampsInv
<1>3. ASSUME NEW d \in Desks, WriteRow(d)
      PROVE  StampsInv'
  <2> DEFINE q == desk[d]
             h == q.h
             t == IF h.to = "same" THEN row.status ELSE h.to
  <2>1. Written(d)
    BY <1>3, WriteFacts
  <2>2. row'.status = t /\ row'.stamps = (row.stamps \ h.clears) \union h.sets /\ UNCHANGED <<kind, overlapped>>
    BY <2>1 DEF Written
  <2>3. /\ h.to # "same" => Stamp(kind, h.to) \subseteq h.sets
        /\ h.to = "same" => h.clears \intersect Dates = {}
        /\ \A f \in h.from : Moves(kind, h, f, IF h.to = "same" THEN f ELSE h.to)
        /\ q.found \in h.from /\ (q.found = row.status \/ overlapped)
    BY <2>1 DEF Written, Facts
  <2>4. Stamp(kind, row.status) \subseteq Dates /\ Stamp(kind, row.status) \subseteq row.stamps
    BY StampsAreDates DEF StampsInv
  <2>5. Stamp(kind, t) \subseteq row'.stamps
    BY <2>2, <2>3, <2>4
  <2>6. ASSUME ~overlapped
        PROVE  /\ EarlierStamp(kind, t) \subseteq row'.stamps
               /\ Absent(kind, t) \intersect row'.stamps = {}
    <3>1. Moves(kind, h, row.status, t)
      BY <2>3, <2>6
    <3>2. EarlierStamp(kind, row.status) \subseteq row.stamps /\ Absent(kind, row.status) \intersect row.stamps = {}
      BY <2>6 DEF StampsInv
    <3> HIDE DEF t, h
    <3> QED  BY <2>2, <2>4, <3>1, <3>2 DEF Moves
  <2> HIDE DEF t
  <2> QED  BY <2>2, <2>5, <2>6 DEF StampsInv
<1> QED  BY <1>1, <1>2, <1>3

\* The guardrails hold through every write: each handler leads from where it was
\* admitted to where its table allows.
LEMMA GuardsStep ==
    ASSUME RequestsInv, GuardsInv, [LifecyclesNext]_lifeVars
    PROVE  GuardsInv'
<1>1. CASE UNCHANGED lifeVars
  BY <1>1 DEF lifeVars, GuardsInv
<1>2. CASE LifecyclesNext /\ ~\E d \in Desks : WriteRow(d)
  BY <1>2, RowKept DEF GuardsInv
<1>3. ASSUME NEW d \in Desks, WriteRow(d)
      PROVE  GuardsInv'
  <2> DEFINE q == desk[d]
             h == q.h
             t == IF h.to = "same" THEN row.status ELSE h.to
  <2>1. Written(d)
    BY <1>3, WriteFacts
  <2>2. /\ row'.status = t /\ row'.stamps = (row.stamps \ h.clears) \union h.sets
        /\ row'.by = IF h.to = "same" THEN row.by ELSE q.p
        /\ path' = path \union {t} /\ UNCHANGED <<kind, overlapped>>
    BY <2>1 DEF Written
  <2>3. /\ kind = "rule" /\ h.to = "ACTIVE" => h.roles \subseteq ACTIVATION_ROLES
        /\ kind = "guardianship" /\ h.to = "ACTIVE" => h.who = {"protected"}
        /\ kind = "internalTenant" => h.to = "ACTIVE"
        /\ kind = "pausePolicy" => h.sets \subseteq {"n30", "n3600"}
        /\ \A f \in h.from : Moves(kind, h, f, IF h.to = "same" THEN f ELSE h.to)
        /\ h.who # {} => q.p.user \in h.who
        /\ q.p.role \in h.roles
        /\ q.found \in h.from /\ q.found \in path /\ (q.found = row.status \/ overlapped)
    BY <2>1 DEF Written, Facts
  <2>4. row.status \in path
    BY DEF RequestsInv
  <2>5. t \in Beyond(kind) => Beyond(kind) \intersect path # {} \/ Gate(kind) \in path
    <3>1. CASE h.to = "same"
      BY <2>4, <3>1
    <3>2. CASE h.to # "same"
      <4>1. Moves(kind, h, q.found, t)
        BY <2>3, <3>2
      <4> HIDE DEF t, h, q
      <4> QED  BY <2>3, <4>1 DEF Moves, q
    <3> QED  BY <3>1, <3>2
  <2>6. ~overlapped => (row.status \in Final(kind) => t \in Final(kind))
    <3> SUFFICES ASSUME ~overlapped PROVE row.status \in Final(kind) => t \in Final(kind)
      OBVIOUS
    <3>1. Moves(kind, h, row.status, t)
      BY <2>3
    <3> HIDE DEF t, h
    <3> QED  BY <3>1 DEF Moves
  <2>7. /\ kind = "rule" /\ t = "ACTIVE" => row'.by.role \in ACTIVATION_ROLES
        /\ kind = "guardianship" /\ t = "ACTIVE" => row'.by.user = "protected"
        /\ kind = "internalTenant" => t = "ACTIVE"
        /\ kind = "pausePolicy" => row'.stamps \subseteq {"n30", "n3600"}
    <3>1. CASE h.to = "same"
      BY <2>2, <2>3, <3>1 DEF GuardsInv
    <3>2. CASE h.to # "same"
      BY <2>2, <2>3, <3>2 DEF GuardsInv
    <3> QED  BY <3>1, <3>2
  <2> HIDE DEF t, h, q
  <2>8. Beyond(kind)' \intersect path' # {} => Gate(kind)' \in path'
    BY <2>2, <2>5 DEF GuardsInv
  <2>9. Final(kind)' \intersect path' # {} => row'.status \in Final(kind)' \/ overlapped'
    BY <2>2, <2>4, <2>6 DEF GuardsInv
  <2> QED  BY <2>2, <2>7, <2>8, <2>9 DEF GuardsInv
<1> QED  BY <1>1, <1>2, <1>3

-----------------------------------------------------------------------------
(* The Evidence Vault. *)

\* A request that is not in front of its entry leaves those that are.
LEMMA LogKept ==
    ASSUME RequestsInv, LogInv, NEW d \in Desks,
           \A e \in Desks \ {d} : desk'[e] = desk[e],
           ~Recording(d), UNCHANGED <<kind, trail, views>>,
           row'.status = row.status, row'.evidence \in {"none", row.evidence} \union Events,
           unlogged => unlogged', overlapped => overlapped'
    PROVE  LogInv'
<1>1. \A e \in Desks : Recording(e) => Recording(e)'
  BY DEF Recording
<1>2. Events' = Events /\ Recorded' = Recorded
  BY DEF Events, Recorded
<1> HIDE DEF Recording
<1> QED  BY <1>1, <1>2 DEF LogInv

\* Every step leaves the entries of the vault told by the row, or about to be.
LEMMA LogStep ==
    ASSUME RequestsInv, LogInv, [LifecyclesNext]_lifeVars
    PROVE  LogInv'
<1>1. CASE UNCHANGED lifeVars
  BY <1>1 DEF lifeVars, LogInv, Recording, Events, Recorded
<1>0. /\ \A e \in Desks : desk[e].at # "append" => ~Recording(e)
      /\ row = [status |-> row.status, stamps |-> row.stamps, by |-> row.by, evidence |-> row.evidence]
      /\ desk = [e \in Desks |-> desk[e]]
  BY DEF Recording, RequestsInv
<1>2. ASSUME NEW d \in Desks, NEW h \in Handlers[kind], NEW p \in People, Admit(d, p, h)
      PROVE  LogInv'
  <2>1. /\ desk[d].at = "free" /\ UNCHANGED <<kind, row, trail, views, unlogged>> /\ (overlapped => overlapped')
        /\ \A e \in Desks \ {d} : desk'[e] = desk[e]
    BY <1>0, <1>2 DEF Admit, Busy
  <2> QED  BY <1>0, <2>1, LogKept
<1>3. ASSUME NEW d \in Desks, RefuseRow(d) \/ FetchSummary(d)
      PROVE  LogInv'
  <2>1. /\ desk[d].at # "append" /\ UNCHANGED <<kind, row, trail, views, unlogged, overlapped>>
    BY <1>3 DEF RefuseRow, FetchSummary
  <2>2. \A e \in Desks \ {d} : desk'[e] = desk[e]
    BY <1>0, <1>3 DEF RefuseRow, FetchSummary, Step
  <2> QED  BY <1>0, <2>1, <2>2, LogKept
<1>4. ASSUME NEW d \in Desks, LinkEvidence(d)
      PROVE  LogInv'
  <2>1. /\ desk[d].at = "link" /\ UNCHANGED <<kind, trail, views, unlogged, overlapped>>
        /\ row' = row \/ row' = [row EXCEPT !.evidence = desk[d].h.event]
    BY <1>4 DEF LinkEvidence
  <2>2. \A e \in Desks \ {d} : desk'[e] = desk[e]
    BY <1>0, <1>4 DEF LinkEvidence, Step
  <2>3. desk[d].h.event \in Events
    BY <2>1 DEF RequestsInv, Busy, OnItsWay
  <2>4. row'.status = row.status /\ row'.evidence \in {row.evidence, desk[d].h.event}
    BY <1>0, <2>1
  <2> QED  BY <1>0, <2>1, <2>2, <2>3, <2>4, LogKept
<1>5. ASSUME NEW d \in Desks, Die(d)
      PROVE  LogInv'
  <2>1. /\ UNCHANGED <<kind, row, trail, views, overlapped>>
        /\ unlogged' = (unlogged \/ (desk[d].at = "append" /\ desk[d].h.op # "view"))
    BY <1>5 DEF Die
  <2>2. \A e \in Desks \ {d} : desk'[e] = desk[e]
    BY <1>0, <1>5 DEF Die, Step
  <2>3. CASE Recording(d)
    <3>1. unlogged'
      BY <2>1, <2>3 DEF Recording
    <3>2. Events' = Events
      BY <2>1 DEF Events
    <3> QED  BY <2>1, <3>1, <3>2 DEF LogInv
  <2>4. CASE ~Recording(d)
    BY <2>1, <2>2, <2>4, LogKept
  <2> QED  BY <2>3, <2>4
<1>6. ASSUME NEW d \in Desks, WriteRow(d)
      PROVE  LogInv'
  <2> DEFINE q == desk[d]
             h == q.h
             t == IF h.to = "same" THEN row.status ELSE h.to
  <2>1. Written(d) /\ Busy(d) /\ OnItsWay(d)
    BY <1>6, WriteFacts, BusyFacts
  <2>2. /\ row'.status = t /\ row'.evidence \in {"none", row.evidence}
        /\ UNCHANGED <<kind, views, overlapped, unlogged>> /\ h.op # "view"
        /\ kind \notin Unrecorded => h.event # "none"
    BY <2>1 DEF Written, Facts
  <2>3. Events \subseteq Events'
    BY <1>6 DEF WriteRow, Logged, Events
  <2>4. kind \notin Unrecorded => ((trail'.last.status = t /\ t \in Recorded') \/ Recording(d)')
    <3>1. CASE h.op = "transact"
      <4>1. trail' = Logged(trail, Entry(h, t))
        BY <1>6, <3>1 DEF WriteRow
      <4> QED  BY <4>1 DEF Logged, Entry, Recorded
    <3>2. CASE h.op # "transact" /\ h.event # "none"
      <4>1. desk' = [desk EXCEPT ![d] = [q EXCEPT !.at = "append", !.found = t]]
        BY <1>6, <3>2 DEF WriteRow
      <4>2. q = [at |-> q.at, h |-> q.h, p |-> q.p, found |-> q.found]
        BY <2>1 DEF OnItsWay
      <4>3. [q EXCEPT !.at = "append", !.found = t] = [at |-> "append", h |-> q.h, p |-> q.p, found |-> t]
        <5> HIDE DEF q, t
        <5> QED  BY <4>2, Answered
      <4>4. desk'[d] = [at |-> "append", h |-> q.h, p |-> q.p, found |-> t]
        BY <1>0, <4>1, <4>3
      <4> HIDE DEF t
      <4> QED  BY <2>2, <4>4 DEF Recording
    <3> QED  BY <2>2, <3>1, <3>2
  <2> HIDE DEF t, Recording
  <2> QED  BY <2>2, <2>3, <2>4 DEF LogInv
<1>7. ASSUME NEW d \in Desks, logEvidence(d)
      PROVE  LogInv'
  <2> DEFINE q == desk[d]
             h == q.h
             entry == Entry(h, q.found)
  <2>1. /\ UNCHANGED <<kind, row, overlapped, unlogged>> /\ Busy(d) /\ q.at = "append"
        /\ trail' = Logged(trail, entry)
        /\ views' = IF h.op = "view" THEN views \union {q.found} ELSE views
    BY <1>7 DEF logEvidence, Busy
  <2>2. \A e \in Desks \ {d} : desk'[e] = desk[e]
    BY <1>0, <1>7 DEF logEvidence, Step
  <2>3. OnItsWay(d) /\ Facts(kind, h)
    BY <2>1, BusyFacts
  <2>4. /\ Events' = Events \union {h.event} /\ Recorded' = Recorded \union {q.found}
        /\ trail'.last.status = q.found
    BY <2>1 DEF Logged, Entry, Events, Recorded
  <2>5. \A e \in Desks : Recording(e) => Recording(e)' \/ (e = d /\ q.found = row.status)
    BY <2>1, <2>2 DEF Recording
  <2>6. ~overlapped => q.found = row.status
    BY <2>1, <2>3 DEF OnItsWay
  <2>7. h.op = "view" => h.event = "GUARDIAN_ACCESSED_PROTECTED_USER" /\ (q.found = "ACTIVE" \/ overlapped)
    BY <2>1, <2>3 DEF OnItsWay, Facts
  <2> HIDE DEF q, h, Recording
  <2> QED  BY <2>1, <2>4, <2>5, <2>6, <2>7 DEF LogInv
<1> QED  BY <1>1, <1>2, <1>3, <1>4, <1>5, <1>6, <1>7 DEF LifecyclesNext

-----------------------------------------------------------------------------
(* The theorems. *)

LifecyclesInv == RequestsInv /\ StampsInv /\ GuardsInv /\ LogInv

\* A table begins with a row that does not exist, or with the one of a tenant, an
\* alert of the inbox or an AI decision; nobody has asked for anything yet.
LEMMA LifecyclesStart == LifecyclesInit => LifecyclesInv
<1> SUFFICES ASSUME LifecyclesInit PROVE LifecyclesInv
  OBVIOUS
<1>1. /\ row.status = FirstStatus(kind) /\ row.stamps = {} /\ row.by = NobodyYet /\ row.evidence = "none"
      /\ path = {FirstStatus(kind)} /\ trail.all = {} /\ trail.last.status = FirstStatus(kind)
      /\ views = {} /\ kind \in Kinds /\ \A d \in Desks : ~Busy(d)
  BY DEF LifecyclesInit, NoRequest, Busy
<1>2. FirstStatus(kind) \in {"none", "ACTIVE", "PENDING", "RAISED"}
      /\ (FirstStatus(kind) # "none" => kind \in {"tenant", "internalTenant", "decision", "inbox"})
      /\ (kind = "internalTenant" => FirstStatus(kind) = "ACTIVE")
  BY DEF FirstStatus
<1>3. Stamp(kind, FirstStatus(kind)) = {} /\ EarlierStamp(kind, FirstStatus(kind)) = {}
  BY <1>2 DEF Stamp, EarlierStamp
<1>4. FirstStatus(kind) \notin Beyond(kind) /\ FirstStatus(kind) \notin Final(kind)
  BY <1>2 DEF Beyond, Final
<1>5. RequestsInv
  BY <1>1 DEF LifecyclesInit, RequestsInv
<1>6. StampsInv
  BY <1>1, <1>3 DEF StampsInv
<1>7. GuardsInv
  <2>1. kind \notin {"rule", "guardianship"} \/ row.status # "ACTIVE"
    BY <1>1, <1>2
  <2> QED  BY <1>1, <1>2, <1>4, <2>1 DEF GuardsInv
<1>8. LogInv
  BY <1>1 DEF LogInv
<1> QED  BY <1>5, <1>6, <1>7, <1>8 DEF LifecyclesInv

\* The inductive invariant of the tables: what a request under way was admitted for,
\* the dates, the guardrails, and the entries written or about to be.
THEOREM LifecyclesInvariance == LifecyclesSpec => []LifecyclesInv
<1>1. LifecyclesInv /\ [LifecyclesNext]_lifeVars => LifecyclesInv'
  BY RequestsStep, StampsStep, GuardsStep, LogStep DEF LifecyclesInv
<1> QED  BY <1>1, LifecyclesStart, PTL DEF LifecyclesSpec

\* Status and dates of a guardianship link, an alert, a rule, a takedown, a feed, a
\* partner key and a case tell the same story, however the requests of staff and users
\* overlap and die; that no other date is set, as long as none overlap (the services'
\* updateStatus: a read and a check, then an unconditional update).
THEOREM StampsTellTheStory == LifecyclesSpec => []StampsAgree
<1>1. LifecyclesInv => StampsAgree
  BY DEF LifecyclesInv, StampsInv, StampsAgree, Absent
<1> QED  BY <1>1, LifecyclesInvariance, PTL

\* No interleaving gets a row where its table does not let it: a rule is active after
\* testing and by an activation role, a link by consent of the protected user, a stored
\* policy is within its bounds, an end is only left by a request that overlapped.
THEOREM GuardrailsHold == LifecyclesSpec => []Guardrails
<1>1. LifecyclesInv => Guardrails
  <2> SUFFICES ASSUME RequestsInv, GuardsInv PROVE Guardrails
    BY DEF LifecyclesInv
  <2>1. row.status \in path
    BY DEF RequestsInv
  <2>2. kind = "rule" /\ row.status = "ACTIVE" => row.by.role \in ACTIVATION_ROLES /\ "TESTING" \in path
    BY <2>1 DEF GuardsInv, Beyond, Gate
  <2>3. kind = "guardianship" /\ row.status = "ACTIVE" => row.by.user = "protected" /\ "PENDING" \in path
    BY <2>1 DEF GuardsInv, Beyond, Gate
  <2>4. kind = "alert" /\ row.status = "EXPIRED" => "PUBLISHED" \in path
    BY <2>1 DEF GuardsInv, Beyond, Gate
  <2>5. kind = "takedown" /\ row.status \in {"COMPLETED", "REJECTED"} => "SUBMITTED" \in path
    BY <2>1 DEF GuardsInv, Beyond, Gate
  <2> QED  BY <2>2, <2>3, <2>4, <2>5 DEF GuardsInv, Guardrails
<1> QED  BY <1>1, LifecyclesInvariance, PTL

\* The Evidence Vault accounts for every change of a row and for every view a guardian
\* had, whatever overlaps, unless a request died between its write and its append
\* (logEvidence is a statement of its own after the update).
THEOREM ChangesAreAccounted == LifecyclesSpec => []Accounted
<1>1. LifecyclesInv => Accounted
  <2> SUFFICES ASSUME LogInv PROVE Accounted
    BY DEF LifecyclesInv
  <2>1. Quiet => ~\E d \in Desks : Recording(d)
    BY DEF Quiet, Busy, Recording
  <2> QED  BY <2>1 DEF LogInv, Accounted, LogTellsStatus, ViewsOnRecord, Events, Recorded
<1> QED  BY <1>1, LifecyclesInvariance, PTL

-----------------------------------------------------------------------------
(* The types of the tables. *)

\* Whom a handler admits is a matter of the roles there are.
Staffed(h) == h.roles \subseteq MembershipRole

\* The handlers made from a table's edges: a rule is activated by its roles, all else by any.
LEMMA EdgesStaffed ==
    /\ \A h \in updateAlertStatus : Staffed(h)
    /\ \A h \in updateRuleStatus : Staffed(h)
    /\ \A h \in updateTakedownStatus : Staffed(h)
    /\ \A type : \A h \in setTenantStatus(type) : Staffed(h)
<1>1. ASSUME NEW h \in updateAlertStatus PROVE Staffed(h)
  <2> DEFINE stamp == [PUBLISHED |-> {"publishedAt"}, WITHDRAWN |-> {"withdrawnAt"}, EXPIRED |-> {"expiresAt"}]
             H(f, t) == [Handler(PublicAlertAdminController.updateStatus, {f}, t, "update", t)
                           EXCEPT !.sets = stamp[t]]
  <2>1. PICK f \in DOMAIN ALERT_TRANSITIONS : \E t \in ALERT_TRANSITIONS[f] : h = H(f, t)
    BY <1>1 DEF updateAlertStatus, Edges
  <2>2. PICK t \in ALERT_TRANSITIONS[f] : h = H(f, t)
    BY <2>1
  <2>3. h.roles = MembershipRole
    BY <2>2 DEF Handler
  <2>4. t \in {"PUBLISHED", "WITHDRAWN", "EXPIRED"}
    BY <2>1, <2>2 DEF ALERT_TRANSITIONS
  <2> HIDE DEF H
  <2> QED  BY <2>3, <2>4 DEF Staffed
<1>2. ASSUME NEW h \in updateRuleStatus PROVE Staffed(h)
  <2> DEFINE stamp == [DRAFT |-> {}, TESTING |-> {}, ACTIVE |-> {"activatedAt"},
                       DISABLED |-> {"disabledAt"}, RETIRED |-> {"retiredAt"}]
             H(f, t) == [Handler(DetectionRuleController.updateStatus, {f}, t, "update", t)
                      EXCEPT !.sets = stamp[t],
                             !.clears = IF t = "ACTIVE" THEN {"disabledAt"} ELSE {},
                             !.roles = IF t = "ACTIVE" THEN ACTIVATION_ROLES ELSE @]
  <2>0. PICK f \in DOMAIN RULE_TRANSITIONS : \E t \in RULE_TRANSITIONS[f] : h = H(f, t)
    BY <1>2 DEF updateRuleStatus, Edges
  <2>1. PICK t \in RULE_TRANSITIONS[f] : h = H(f, t)
    BY <2>0
  <2>2. h.roles \in {MembershipRole, ACTIVATION_ROLES}
    BY <2>1 DEF Handler
  <2>3. t \in {"DRAFT", "TESTING", "ACTIVE", "DISABLED", "RETIRED"}
    BY <2>0, <2>1 DEF RULE_TRANSITIONS
  <2>4. ACTIVATION_ROLES \subseteq MembershipRole
    BY DEF ACTIVATION_ROLES, MembershipRole
  <2> HIDE DEF H
  <2> QED  BY <2>2, <2>3, <2>4 DEF Staffed
<1>3. ASSUME NEW h \in updateTakedownStatus PROVE Staffed(h)
  <2> DEFINE dates(t) == (IF t = "SUBMITTED" THEN {"submittedAt"} ELSE {})
                            \union (IF TRANSITIONS[t] = {} THEN {"resolvedAt"} ELSE {})
             H(f, t) == [Handler(TakedownController.updateStatus, {f}, t, "update", t)
                           EXCEPT !.sets = dates(t)]
  <2>0. updateTakedownStatus = Edges(TRANSITIONS, H)
    BY DEF updateTakedownStatus
  <2> HIDE DEF H, dates
  <2>1. PICK f \in DOMAIN TRANSITIONS : \E t \in TRANSITIONS[f] : h = H(f, t)
    BY <1>3, <2>0 DEF Edges
  <2>2. PICK t \in TRANSITIONS[f] : h = H(f, t)
    BY <2>1
  <2>3. h.roles = MembershipRole
    BY <2>2 DEF H, Handler
  <2>4. t \in {"SUBMITTED", "ACKNOWLEDGED", "IN_PROGRESS", "COMPLETED", "REJECTED", "WITHDRAWN"}
    BY <2>1, <2>2 DEF TRANSITIONS
  <2> QED  BY <2>3, <2>4 DEF Staffed
<1>4. ASSUME NEW type, NEW h \in setTenantStatus(type) PROVE Staffed(h)
  <2> DEFINE edges == [f \in TenantStatus |-> {t \in TenantStatus \ {f} : type = "INTERNAL" => t = "ACTIVE"}]
             H(f, t) == Handler(OversightController.setTenantStatus, {f}, t, "update", "INTERNAL_TENANT_STATUS_CHANGED")
  <2>1. PICK f \in TenantStatus : \E t \in edges[f] : h = H(f, t)
    BY <1>4 DEF setTenantStatus, Edges
  <2>2. PICK t \in edges[f] : h = H(f, t)
    BY <2>1
  <2> QED  BY <2>1, <2>2 DEF Staffed, Handler, TenantStatus
<1> QED  BY <1>1, <1>2, <1>3, <1>4

\* Those made for every value of an enum, and those narrowed to a user or to an open case.
LEMMA FormsStaffed ==
    /\ \A h \in Handlers.guardianship : Staffed(h)
    /\ \A h \in Handlers.case : Staffed(h)
    /\ \A h \in reviewCase \union decideOnClaim \union createIntegration \union submitFeedback : Staffed(h)
    /\ \A key : \A h \in setPolicy(key) : Staffed(h)
<1>1. ASSUME NEW h \in Handlers.guardianship PROVE Staffed(h)
  <2>1. h \in {requestGuardianship, grantConsent, declineConsent, revokeConsent, getProtectedSummary}
    BY DEF Handlers
  <2> QED  BY <2>1 DEF Staffed, requestGuardianship, grantConsent, declineConsent, revokeConsent,
                       getProtectedSummary, requireProtectedUserLink, Handler
<1>2. ASSUME NEW h \in Handlers.case PROVE Staffed(h)
  <2>0. h \in {createCase, linkEvidence, unlinkEvidence, linkCluster, unlinkCluster, addNote, close}
                \union updateCase
    BY DEF Handlers
  <2>1. CASE h \in updateCase
    BY <2>1 DEF Staffed, updateCase, requireOpen, CaseStatus, Handler
  <2>2. CASE h \in {createCase, close, addNote}
    BY <2>2 DEF Staffed, createCase, close, addNote, requireOpen, Handler
  <2>3. CASE h \in {linkEvidence, unlinkEvidence, linkCluster, unlinkCluster}
    BY <2>3 DEF Staffed, linkEvidence, unlinkEvidence, linkCluster, unlinkCluster, requireOpen, Handler
  <2> QED  BY <2>0, <2>1, <2>2, <2>3
<1>3. ASSUME NEW h \in reviewCase \union decideOnClaim \union createIntegration \union submitFeedback
      PROVE  Staffed(h)
  <2>1. CASE h \in reviewCase
    BY <2>1 DEF Staffed, reviewCase, Linked, Handler
  <2>2. CASE h \in decideOnClaim
    BY <2>2 DEF Staffed, decideOnClaim, Linked, Handler
  <2>3. CASE h \in createIntegration
    BY <2>3 DEF Staffed, createIntegration, Linked, Handler
  <2>4. CASE h \in submitFeedback
    BY <2>4 DEF Staffed, submitFeedback, LABEL_TO_STATUS, Handler
  <2> QED  BY <1>3, <2>1, <2>2, <2>3, <2>4
<1>4. ASSUME NEW key, NEW h \in setPolicy(key) PROVE Staffed(h)
  <2> DEFINE base == Handler(EnterprisePortalController.setPolicy, {"none", "SET"}, "SET", "upsert",
                             "ENTERPRISE_POLICY_SET")
  <2>1. PICK v \in {u \in DOMAIN PolicyValue : POLICY_REGISTRY[u][key]} :
           h = [Linked(base) EXCEPT !.sets = {v}, !.clears = DOMAIN PolicyValue]
    BY <1>4 DEF setPolicy
  <2>2. h.roles = MembershipRole
    BY <2>1 DEF Linked, Handler
  <2> QED  BY <2>2 DEF Staffed
<1> QED  BY <1>1, <1>2, <1>3, <1>4

\* Every handler of every table.
LEMMA HandlersStaffed == \A k \in Kinds : \A h \in Handlers[k] : Staffed(h)
<1>1. \A h \in createAlert \union createRule \union {updateRule} : Staffed(h)
  BY DEF Staffed, createAlert, createRule, updateRule, Handler
<1>2. \A h \in {createTakedown, createFeed, revokeFeed, issueKey, updatePlan, revokeKey} : Staffed(h)
  BY DEF Staffed, createTakedown, createFeed, revokeFeed, issueKey, updatePlan, revokeKey, Handler
<1>3. \A h \in {generateBundle, tellerAssist, groomingCheck} : Staffed(h)
  BY DEF Staffed, generateBundle, tellerAssist, groomingCheck, Linked, Handler
<1>4. \A h \in {deletePolicy, deleteIntegration} : Staffed(h)
  BY DEF Staffed, deletePolicy, deleteIntegration, Handler
<1>5. \A h \in {enroll, heartbeat, revokeDevice, markRead} : Staffed(h)
  BY DEF Staffed, enroll, heartbeat, revokeDevice, markRead, Owned, Handler
<1>6. /\ Handlers.alert = createAlert \union updateAlertStatus
      /\ Handlers.rule = createRule \union {updateRule} \union updateRuleStatus
      /\ Handlers.takedown = {createTakedown} \union updateTakedownStatus
      /\ Handlers.feed = {createFeed, revokeFeed}
      /\ Handlers.key = {issueKey, updatePlan, revokeKey}
      /\ Handlers.export = {generateBundle}
      /\ Handlers.teller = {tellerAssist}
      /\ Handlers.grooming = {groomingCheck}
      /\ Handlers.bankReview = reviewCase
      /\ Handlers.moderation = decideOnClaim
  BY DEF Handlers
<1>7. /\ Handlers.pausePolicy = setPolicy("guardian_pause_default_seconds") \union {deletePolicy}
      /\ Handlers.channelPolicy = setPolicy("notification_channels_enabled") \union {deletePolicy}
      /\ Handlers.retentionPolicy = setPolicy("data_retention_days") \union {deletePolicy}
      /\ Handlers.integration = createIntegration \union {deleteIntegration}
      /\ Handlers.device = {enroll, heartbeat, revokeDevice}
      /\ Handlers.inbox = {markRead}
      /\ Handlers.tenant = setTenantStatus("BANK")
      /\ Handlers.internalTenant = setTenantStatus("INTERNAL")
      /\ Handlers.decision = submitFeedback
  BY DEF Handlers
<1>8. Kinds = {"guardianship", "alert", "rule", "takedown", "feed", "key", "export", "case", "teller", "grooming",
               "bankReview", "moderation", "pausePolicy", "channelPolicy", "retentionPolicy", "integration",
               "device", "inbox", "tenant", "internalTenant", "decision"}
  BY DEF Kinds, Handlers
<1>9. \A k \in {"alert", "rule", "takedown", "feed", "key", "export", "teller", "grooming", "bankReview",
                "moderation"} : \A h \in Handlers[k] : Staffed(h)
  BY <1>1, <1>2, <1>3, <1>6, EdgesStaffed, FormsStaffed
<1>10. \A k \in {"pausePolicy", "channelPolicy", "retentionPolicy", "integration", "device", "inbox", "tenant",
                 "internalTenant", "decision"} : \A h \in Handlers[k] : Staffed(h)
  BY <1>4, <1>5, <1>7, EdgesStaffed, FormsStaffed
<1> QED  BY <1>8, <1>9, <1>10, FormsStaffed

\* Who signs a row.
Signers == [user : {p.user : p \in People} \union {"nobody"}, role : MembershipRole]

\* What the vault has on a row: an event of its table, a status it has had.
RowEntries == [event : {h.event : h \in Handlers[kind]}, status : path]

\* What a request will sign and record is typed before it is written.
TablesTyped ==
    /\ row.by \in Signers
    /\ trail.all \subseteq RowEntries
    /\ views \subseteq path
    /\ asked \in 0 .. LifeBound /\ deaths \in 0 .. DeathsBound
    /\ overlapped \in BOOLEAN /\ unlogged \in BOOLEAN
    /\ \A d \in Desks : Busy(d) =>
          desk[d].p \in Signers /\ (desk[d].at = "append" => desk[d].found \in path)

\* Nobody has signed, recorded or asked for anything yet.
LEMMA TablesStart == LifecyclesInit => TablesTyped
<1> SUFFICES ASSUME LifecyclesInit PROVE TablesTyped
  OBVIOUS
<1>1. NobodyYet \in Signers
  <2>1. "SUPPORT" \in MembershipRole
    BY DEF MembershipRole
  <2> QED  BY <2>1 DEF NobodyYet, Signers
<1>2. /\ row.by = NobodyYet /\ trail.all = {} /\ views = {} /\ path = {FirstStatus(kind)}
      /\ asked = 0 /\ deaths = 0 /\ overlapped = FALSE /\ unlogged = FALSE
      /\ \A d \in Desks : ~Busy(d)
  BY DEF LifecyclesInit, NoRequest, Busy
<1>3. asked \in 0 .. LifeBound /\ deaths \in 0 .. DeathsBound
  BY <1>2, LifecycleAssumption
<1>4. overlapped \in BOOLEAN /\ unlogged \in BOOLEAN
  BY <1>2
<1> QED  BY <1>1, <1>2, <1>3, <1>4 DEF TablesTyped

\* A step that writes no row, records nothing and shows nothing new.
LEMMA DeskTyped ==
    ASSUME RequestsInv, TablesTyped, NEW d \in Desks, NEW r,
           desk' = [desk EXCEPT ![d] = r],
           r.at # "free" => r.p \in Signers /\ (r.at = "append" => r.found \in path'),
           path \subseteq path',
           row'.by \in Signers,
           trail'.all \subseteq RowEntries',
           views' \subseteq path',
           asked' \in 0 .. LifeBound, deaths' \in 0 .. DeathsBound,
           overlapped' \in BOOLEAN, unlogged' \in BOOLEAN
    PROVE  TablesTyped'
<1>1. desk'[d] = r /\ \A e \in Desks \ {d} : desk'[e] = desk[e]
  BY DEF RequestsInv
<1>2. ASSUME NEW e \in Desks, Busy(e)'
      PROVE  (desk[e].p \in Signers)' /\ (desk[e].at = "append" => desk[e].found \in path)'
  <2>1. CASE e = d
    BY <1>1, <1>2, <2>1 DEF Busy, Signers
  <2>2. CASE e # d
    BY <1>1, <1>2, <2>2 DEF Busy, Signers, TablesTyped
  <2> QED  BY <2>1, <2>2
<1>3. Signers' = Signers
  BY DEF Signers
<1> QED  BY <1>2, <1>3 DEF TablesTyped

\* A step adds to the vault only what a request had been admitted for.
LEMMA TablesStep ==
    ASSUME RequestsInv, TablesTyped, [LifecyclesNext]_lifeVars
    PROVE  TablesTyped'
<1>0. row.status \in path /\ LifeBound \in Nat /\ DeathsBound \in Nat
  BY LifecycleAssumption DEF RequestsInv
<1>1. CASE UNCHANGED lifeVars
  BY <1>1 DEF lifeVars, Busy, Signers, RowEntries, TablesTyped
<1>2. ASSUME NEW d \in Desks, NEW h \in Handlers[kind], NEW p \in People, Admit(d, p, h)
      PROVE  TablesTyped'
  <2> DEFINE r == [at |-> IF h.op = "view" THEN "fetch" ELSE "write", h |-> h,
                   p |-> [user |-> p.user, role |-> p.role], found |-> row.status]
  <2>1. /\ desk' = [desk EXCEPT ![d] = r] /\ UNCHANGED <<kind, row, path, trail, views, deaths, unlogged>>
        /\ overlapped' = (overlapped \/ Others(d) # {})
        /\ asked' = asked + 1 /\ asked < LifeBound
        /\ p.role \in h.roles
    BY <1>2 DEF Admit
  <2>2. h.roles \subseteq MembershipRole
    <3>1. kind \in Kinds
      BY DEF RequestsInv
    <3> QED  BY <3>1, HandlersStaffed DEF Staffed
  <2>3. r.p \in Signers /\ r.at # "append"
    BY <2>1, <2>2 DEF Signers
  <2>4. asked' \in 0 .. LifeBound /\ overlapped' \in BOOLEAN
    BY <1>0, <2>1 DEF TablesTyped
  <2>5. RowEntries' = RowEntries
    BY <2>1 DEF RowEntries
  <2> HIDE DEF r
  <2>6. row'.by \in Signers /\ trail'.all \subseteq RowEntries' /\ views' \subseteq path'
        /\ deaths' \in 0 .. DeathsBound /\ unlogged' \in BOOLEAN /\ path \subseteq path'
    BY <2>1, <2>5 DEF TablesTyped
  <2> QED  BY <2>1, <2>3, <2>4, <2>6, DeskTyped
<1>3. ASSUME NEW d \in Desks, NEW r, Busy(d), desk' = [desk EXCEPT ![d] = r],
             r.at # "free" => r.p = desk[d].p /\ (r.at = "append" => r.found \in path'),
             UNCHANGED <<kind, asked, overlapped>>, path \subseteq path',
             row'.by \in Signers, trail'.all \subseteq RowEntries', views' \subseteq path',
             deaths' \in 0 .. DeathsBound, unlogged' \in BOOLEAN
      PROVE  TablesTyped'
  <2>1. desk[d].p \in Signers
    BY <1>3 DEF TablesTyped
  <2>2. asked' \in 0 .. LifeBound /\ overlapped' \in BOOLEAN
    BY <1>3 DEF TablesTyped
  <2> QED  BY <1>3, <2>1, <2>2, DeskTyped
<1>4. ASSUME NEW d \in Desks, NEW at \in {"free", "link"}, Busy(d), Step(d, at),
             UNCHANGED <<kind, asked, overlapped, path>>,
             row'.by = row.by, trail'.all \subseteq RowEntries, views' \subseteq path,
             deaths' \in 0 .. DeathsBound, unlogged' \in BOOLEAN
      PROVE  TablesTyped'
  <2> DEFINE q == desk[d]
             r == IF at = "free" THEN NoRequest ELSE [q EXCEPT !.at = at]
  <2>1. desk' = [desk EXCEPT ![d] = r]
    BY <1>4 DEF Step, RequestsInv
  <2>2. r.at # "free" => r.p = q.p /\ r.at # "append"
    <3>1. CASE at = "free"
      BY <3>1 DEF NoRequest
    <3>2. CASE at = "link"
      <4>1. q = [at |-> q.at, h |-> q.h, p |-> q.p, found |-> q.found]
        BY <1>4 DEF RequestsInv, OnItsWay
      <4>2. r = [at |-> "link", h |-> q.h, p |-> q.p, found |-> q.found]
        BY <3>2, <4>1
      <4> HIDE DEF r
      <4> QED  BY <4>2
    <3> QED  BY <1>4, <3>1, <3>2
  <2>3. RowEntries' = RowEntries /\ row.by \in Signers
    BY <1>4 DEF RowEntries, TablesTyped
  <2> HIDE DEF r
  <2> QED  BY <1>3, <1>4, <2>1, <2>2, <2>3
<1>5. ASSUME NEW d \in Desks, RefuseRow(d) \/ Die(d)
      PROVE  TablesTyped'
  <2>1. Busy(d) /\ Step(d, "free") /\ UNCHANGED <<kind, asked, overlapped, path, row, trail, views>>
    BY <1>5 DEF RefuseRow, Die, Busy
  <2>2. deaths' \in 0 .. DeathsBound
    <3>1. deaths' = deaths \/ (deaths < DeathsBound /\ deaths' = deaths + 1)
      BY <1>5 DEF RefuseRow, Die
    <3> QED  BY <1>0, <3>1 DEF TablesTyped
  <2>3. unlogged' \in BOOLEAN
    <3>1. CASE RefuseRow(d)
      BY <3>1 DEF RefuseRow, TablesTyped
    <3>2. CASE Die(d)
      BY <3>2 DEF Die
    <3> QED  BY <1>5, <3>1, <3>2
  <2> QED  BY <1>4, <2>1, <2>2, <2>3 DEF TablesTyped
<1>6. ASSUME NEW d \in Desks, LinkEvidence(d)
      PROVE  TablesTyped'
  <2>1. Busy(d) /\ Step(d, "free") /\ UNCHANGED <<kind, asked, deaths, overlapped, unlogged, path, trail, views>>
    BY <1>6 DEF LinkEvidence, Busy
  <2>2. row'.by = row.by
    <3>1. row = [status |-> row.status, stamps |-> row.stamps, by |-> row.by, evidence |-> row.evidence]
      BY DEF RequestsInv
    <3> DEFINE w == desk[d].h.event
    <3>2. row' = row \/ row' = [row EXCEPT !.evidence = w]
      BY <1>6 DEF LinkEvidence
    <3>3. [row EXCEPT !.evidence = w] = [status |-> row.status, stamps |-> row.stamps, by |-> row.by, evidence |-> w]
      BY <3>1, EvidenceLinked
    <3> HIDE DEF w
    <3> QED  BY <3>2, <3>3
  <2> QED  BY <1>4, <2>1, <2>2 DEF TablesTyped
<1>7. ASSUME NEW d \in Desks, logEvidence(d)
      PROVE  TablesTyped'
  <2> DEFINE q == desk[d]
  <2>1. /\ Busy(d) /\ Step(d, IF q.h.link THEN "link" ELSE "free") /\ q.at = "append"
        /\ UNCHANGED <<kind, asked, deaths, overlapped, unlogged, path, row>>
        /\ trail' = Logged(trail, Entry(q.h, q.found))
        /\ views' = IF q.h.op = "view" THEN views \union {q.found} ELSE views
    BY <1>7 DEF logEvidence, Busy
  <2>2. q.found \in path /\ q.h \in Handlers[kind]
    BY <2>1 DEF TablesTyped, RequestsInv, OnItsWay
  <2>3. trail'.all \subseteq RowEntries
    BY <2>1, <2>2 DEF Logged, Entry, RowEntries, TablesTyped
  <2>4. views' \subseteq path /\ deaths' \in 0 .. DeathsBound /\ unlogged' \in BOOLEAN /\ row'.by = row.by
    BY <2>1, <2>2 DEF TablesTyped
  <2>5. CASE q.h.link
    BY <1>4, <2>1, <2>3, <2>4, <2>5
  <2>6. CASE ~q.h.link
    BY <1>4, <2>1, <2>3, <2>4, <2>6
  <2> QED  BY <2>5, <2>6
<1>8. ASSUME NEW d \in Desks, FetchSummary(d)
      PROVE  TablesTyped'
  <2> DEFINE q == desk[d]
             r == [q EXCEPT !.at = "append", !.found = row.status]
  <2>1. /\ q.at = "fetch" /\ Busy(d)
        /\ UNCHANGED <<kind, row, trail, views, path, asked, deaths, overlapped, unlogged>>
        /\ desk' = [desk EXCEPT ![d].at = "append", ![d].found = row.status]
    BY <1>8 DEF FetchSummary, Busy
  <2>2. q = [at |-> q.at, h |-> q.h, p |-> q.p, found |-> q.found]
    BY <2>1 DEF RequestsInv, OnItsWay
  <2>3. r = [at |-> "append", h |-> q.h, p |-> q.p, found |-> row.status]
    <3> HIDE DEF q
    <3> QED  BY <2>2, Answered
  <2>4. desk = [x \in Desks |-> desk[x]]
    BY DEF RequestsInv
  <2>5. desk' = [[desk EXCEPT ![d] = [q EXCEPT !.at = "append"]] EXCEPT ![d] = r]
    <3>1. [desk EXCEPT ![d] = [q EXCEPT !.at = "append"]][d] = [q EXCEPT !.at = "append"]
      BY <2>4
    <3> QED  BY <2>1, <3>1
  <2>6. desk' = [desk EXCEPT ![d] = r]
    <3> HIDE DEF r
    <3> QED  BY <2>4, <2>5
  <2> HIDE DEF r
  <2>7. r.p = q.p /\ r.found = row.status
    BY <2>3
  <2>8. RowEntries' = RowEntries
    BY <2>1 DEF RowEntries
  <2> QED  BY <1>0, <1>3, <2>1, <2>6, <2>7, <2>8 DEF TablesTyped
<1>9. ASSUME NEW d \in Desks, WriteRow(d)
      PROVE  TablesTyped'
  <2> DEFINE q == desk[d]
             h == q.h
             done == h.op = "transact" \/ h.event = "none"
             status == IF h.to = "same" THEN row.status ELSE h.to
             r == IF done THEN NoRequest ELSE [q EXCEPT !.at = "append", !.found = status]
  <2>1. Written(d) /\ Busy(d)
    BY <1>9, WriteFacts
  <2>2. /\ desk' = [desk EXCEPT ![d] = r] /\ path' = path \union {status}
        /\ UNCHANGED <<kind, views, asked, deaths, overlapped, unlogged>>
        /\ trail' = IF h.op = "transact" THEN Logged(trail, Entry(h, status)) ELSE trail
    BY <1>9 DEF WriteRow
  <2>3. row'.by = (IF h.to = "same" THEN row.by ELSE q.p) /\ q.p \in Signers /\ row.by \in Signers
    BY <2>1 DEF Written, TablesTyped
  <2>4. h \in Handlers[kind] /\ q = [at |-> q.at, h |-> q.h, p |-> q.p, found |-> q.found]
    BY <2>1 DEF RequestsInv, OnItsWay
  <2> HIDE DEF status
  <2>5. r.at # "free" => r.p = q.p /\ (r.at = "append" => r.found \in path')
    <3>1. CASE done
      BY <3>1 DEF NoRequest
    <3>2. CASE ~done
      <4>1. r = [at |-> "append", h |-> q.h, p |-> q.p, found |-> status]
        BY <2>4, <3>2
      <4> HIDE DEF r
      <4> QED  BY <2>2, <4>1
    <3> QED  BY <3>1, <3>2
  <2>6. RowEntries \subseteq RowEntries'
    BY <2>2 DEF RowEntries
  <2>7. trail'.all \subseteq RowEntries'
    <3>1. CASE h.op = "transact"
      <4>1. trail'.all = trail.all \union {Entry(h, status)}
        BY <2>2, <3>1 DEF Logged
      <4>2. Entry(h, status) \in RowEntries'
        BY <2>2, <2>4 DEF Entry, RowEntries
      <4> QED  BY <2>6, <4>1, <4>2 DEF TablesTyped
    <3>2. CASE h.op # "transact"
      BY <2>2, <2>6, <3>2 DEF TablesTyped
    <3> QED  BY <3>1, <3>2
  <2> HIDE DEF r, h, q
  <2>8. views' \subseteq path' /\ deaths' \in 0 .. DeathsBound /\ unlogged' \in BOOLEAN /\ path \subseteq path'
    BY <2>2 DEF TablesTyped
  <2>9. row'.by \in Signers
    BY <2>3
  <2> QED  BY <1>3, <2>1, <2>2, <2>5, <2>7, <2>8, <2>9 DEF q
<1> QED  BY <1>1, <1>2, <1>5, <1>6, <1>7, <1>8, <1>9 DEF LifecyclesNext

\* Rows are signed by people of the system, the vault records events of the table's
\* handlers with statuses the row has had, and a view shows one of them.
THEOREM TablesKeepTypes == LifecyclesSpec => []LifecyclesTypeOK
<1>1. LifecyclesInv /\ TablesTyped => LifecyclesTypeOK
  BY DEF LifecyclesInv, RequestsInv, OnItsWay, Busy, TablesTyped, LifecyclesTypeOK, Signers, RowEntries
<1>2. LifecyclesInit => LifecyclesInv /\ TablesTyped
  BY LifecyclesStart, TablesStart
<1>3. LifecyclesInv /\ TablesTyped /\ [LifecyclesNext]_lifeVars => (LifecyclesInv /\ TablesTyped)'
  BY RequestsStep, StampsStep, GuardsStep, LogStep, TablesStep DEF LifecyclesInv
<1> QED  BY <1>1, <1>2, <1>3, PTL DEF LifecyclesSpec

-----------------------------------------------------------------------------
(* Notification delivery: a message at a time. *)

\* Attempts that went to the provider: the one of send(), those that failed or stalled
\* and the one that completed the retry job, and the one it has under way.
Sends(m) == IF sender[m].answer = "none" THEN 0 ELSE 1
Retries(m) == job[m].failed + job[m].stalls + (IF job[m].state = "completed" THEN 1 ELSE 0)
UnderWay(m) == IF job[m].at = "answered" THEN 1 ELSE 0
Skips(m) == "skipped" \in AdapterAnswers(m)
Answers == {"none", "ok", "error", "skipped"}

SenderInv(m) ==
    /\ sender[m] \in [at: {"none", "opened", "answered", "recorded", "returned"}, answer: Answers]
    /\ sender[m].at \in {"none", "opened"} => sender[m].answer = "none" /\ accepted[m] = 0
    /\ sender[m].at \in {"none", "opened", "answered"} => delivery[m].attempts = 0
    /\ sender[m].at \in {"answered", "recorded"} => sender[m].answer # "none"
    /\ sender[m].at # "returned" => job[m] = NoJob

JobInv(m) ==
    /\ job[m] \in [state: {"none", "waiting", "active", "completed", "failed"}, at: {"none", "opened", "answered"},
                   answer: Answers, failed: 0..RetryAttempts, stalls: 0..(StallBound + 1)]
    /\ job[m].state = "none" => job[m] = NoJob
    /\ job[m].state = "waiting" => job[m].at = "none" /\ job[m].answer = "none"
    /\ job[m].state = "active" => job[m].at # "none"
    /\ job[m].at # "none" => job[m].state = "active"
    /\ job[m].at = "opened" => job[m].answer = "none"
    /\ job[m].state \in {"waiting", "active", "completed"} => job[m].failed < RetryAttempts /\ job[m].stalls <= StallBound
    /\ job[m].failed + job[m].stalls <= RetryAttempts + StallBound

RowInv(m) ==
    /\ delivery[m] \in [status: {"none", "PENDING", "SENT", "SKIPPED", "FAILED"}, attempts: Nat]
    /\ accepted[m] \in Nat
    /\ delivery[m].attempts <= Sends(m) + Retries(m)
    /\ accepted[m] <= Sends(m) + Retries(m) + UnderWay(m)

\* Who holds the answer "ok" has it from a provider that took the message; nobody takes
\* a message whose adapter skips.
AnswerInv(m) ==
    /\ Skips(m) => accepted[m] = 0
    /\ sender[m].answer = "skipped" \/ job[m].answer = "skipped" \/ delivery[m].status = "SKIPPED" => Skips(m)
    /\ sender[m].answer = "ok" \/ job[m].answer = "ok" \/ delivery[m].status = "SENT" => accepted[m] > 0

MessageInv(m) == SenderInv(m) /\ JobInv(m) /\ RowInv(m) /\ AnswerInv(m)

NotificationsInv ==
    /\ config \in [redis: BOOLEAN, provider: BOOLEAN]
    /\ dead \subseteq Messages
    /\ failures \in 0..DeathBound
    /\ delivery = [m \in Messages |-> delivery[m]]
    /\ sender = [m \in Messages |-> sender[m]]
    /\ job = [m \in Messages |-> job[m]]
    /\ accepted = [m \in Messages |-> accepted[m]]
    /\ \A m \in Messages : MessageInv(m)

\* An adapter skips, or it sends; it never does one or the other.
LEMMA AdapterFacts ==
    ASSUME NEW m \in Messages
    PROVE  AdapterAnswers(m) = {"skipped"} \/ AdapterAnswers(m) = {"ok", "error"}
  BY NotificationsAssumption
  DEF AdapterAnswers, adapters, EmailAdapter, SmsAdapter, PushAdapter, InAppAdapter, WebsocketAdapter

\* What a step may leave alone: the other messages.
LEMMA OthersKept ==
    ASSUME NEW n, MessageInv(n), config' = config, delivery'[n] = delivery[n], sender'[n] = sender[n], job'[n] = job[n],
           accepted'[n] = accepted[n]
    PROVE  MessageInv(n)'
<1>1. Skips(n)' = Skips(n)
  BY DEF Skips, AdapterAnswers, adapters, EmailAdapter, SmsAdapter, PushAdapter, InAppAdapter, WebsocketAdapter
<1>2. Sends(n)' = Sends(n) /\ Retries(n)' = Retries(n) /\ UnderWay(n)' = UnderWay(n)
  BY DEF Sends, Retries, UnderWay
<1> QED  BY <1>1, <1>2 DEF MessageInv, SenderInv, JobInv, RowInv, AnswerInv

\* Whether an adapter skips is a matter of the configuration.
LEMMA SkipsKept == ASSUME NEW m, config' = config PROVE Skips(m)' = Skips(m) /\ AdapterAnswers(m)' = AdapterAnswers(m)
  BY DEF Skips, AdapterAnswers, adapters, EmailAdapter, SmsAdapter, PushAdapter, InAppAdapter, WebsocketAdapter

\* The message a step is about.
LEMMA SendingStep ==
    ASSUME NotificationsInv, NEW m \in Messages, Sending(m) \/ SenderDies(m)
    PROVE  MessageInv(m)'
<1> USE NotificationsAssumption DEF NotificationsInv
<1>0. MessageInv(m)
  OBVIOUS
<1>1. CASE Open(m)
  <2>1. /\ delivery'[m] = [status |-> "PENDING", attempts |-> 0] /\ sender'[m] = [sender[m] EXCEPT !.at = "opened"]
        /\ job'[m] = job[m] /\ accepted'[m] = accepted[m] /\ sender[m].at = "none"
    BY <1>1 DEF Open
  <2>2. Skips(m)' = Skips(m)
    BY <1>1, SkipsKept DEF Open
  <2> QED  BY <1>0, <2>1, <2>2 DEF MessageInv, SenderInv, JobInv, RowInv, AnswerInv, Sends, Retries, UnderWay, NoJob, Answers
<1>2. CASE Attempt(m)
  <2>1. PICK answer, k : /\ answer \in AdapterAnswers(m) /\ k \in Takes(answer)
           /\ sender'[m] = [at |-> "answered", answer |-> answer]
           /\ accepted'[m] = accepted[m] + k
    BY <1>2 DEF Attempt
  <2>2. /\ delivery'[m] = delivery[m] /\ job'[m] = job[m] /\ sender[m].at = "opened" /\ Skips(m)' = Skips(m)
    BY <1>2, SkipsKept DEF Attempt
  <2>3. \/ answer = "skipped" /\ k = 0 /\ Skips(m)
        \/ answer \in {"ok", "error"} /\ k \in {0, 1} /\ ~Skips(m) /\ (answer = "ok" => k = 1)
    BY <2>1, AdapterFacts DEF Takes, Skips
  <2> QED  BY <1>0, <2>1, <2>2, <2>3
           DEF MessageInv, SenderInv, JobInv, RowInv, AnswerInv, Sends, Retries, UnderWay, NoJob, Answers
<1>3. CASE RecordOutcome(m)
  <2>1. /\ delivery'[m] = [status |-> outcome(sender[m].answer), attempts |-> delivery[m].attempts + 1]
        /\ sender[m].at = "answered" /\ job'[m] = job[m] /\ accepted'[m] = accepted[m] /\ Skips(m)' = Skips(m)
    BY <1>3, SkipsKept DEF RecordOutcome, attemptDelivery
  <2>2. PICK a \in {"recorded", "returned"} : sender'[m] = [sender[m] EXCEPT !.at = a]
    BY <1>3 DEF RecordOutcome
  <2> QED  BY <1>0, <2>1, <2>2
           DEF MessageInv, SenderInv, JobInv, RowInv, AnswerInv, Sends, Retries, UnderWay, NoJob, Answers, outcome
<1>4. CASE enqueue(m)
  <2>1. /\ delivery'[m] = delivery[m] /\ accepted'[m] = accepted[m] /\ Skips(m)' = Skips(m)
        /\ sender[m].at = "recorded" /\ sender'[m] = [sender[m] EXCEPT !.at = "returned"]
    BY <1>4, SkipsKept DEF enqueue
  <2>2. job'[m] = job[m] \/ job'[m] = [NoJob EXCEPT !.state = "waiting"]
    BY <1>4 DEF enqueue
  <2> QED  BY <1>0, <2>1, <2>2
           DEF MessageInv, SenderInv, JobInv, RowInv, AnswerInv, Sends, Retries, UnderWay, NoJob, Answers
<1>5. CASE SenderDies(m)
  <2>1. /\ delivery'[m] = delivery[m] /\ accepted'[m] = accepted[m] /\ Skips(m)' = Skips(m) /\ job'[m] = job[m]
        /\ sender'[m] = [sender[m] EXCEPT !.at = "returned"]
    BY <1>5, SkipsKept DEF SenderDies
  <2> QED  BY <1>0, <2>1
           DEF MessageInv, SenderInv, JobInv, RowInv, AnswerInv, Sends, Retries, UnderWay, NoJob, Answers
<1> QED  BY <1>1, <1>2, <1>3, <1>4, <1>5 DEF Sending

\* The retry job: an attempt of the worker, its failure, its stall, its end.
LEMMA RetryingStep ==
    ASSUME NotificationsInv, NEW m \in Messages, Retrying(m) \/ UpdateFails(m) \/ Stall(m)
    PROVE  MessageInv(m)'
<1>1. MessageInv(m)
  BY DEF NotificationsInv
<1>2. job = [n \in Messages |-> job[n]] /\ delivery = [n \in Messages |-> delivery[n]]
      /\ accepted = [n \in Messages |-> accepted[n]]
  BY DEF NotificationsInv
<1>3. job[m] = [state |-> job[m].state, at |-> job[m].at, answer |-> job[m].answer, failed |-> job[m].failed,
                       stalls |-> job[m].stalls]
  BY <1>1 DEF MessageInv, JobInv
<1>4. /\ job[m].answer \in Answers /\ job[m].failed \in 0..RetryAttempts /\ job[m].stalls \in 0..(StallBound + 1)
      /\ job[m].state = "active" => sender[m].at = "returned"
  BY <1>1 DEF MessageInv, JobInv, SenderInv, NoJob
<1>5. CASE Take(m)
  <2>1. /\ delivery'[m] = delivery[m] /\ accepted'[m] = accepted[m] /\ Skips(m)' = Skips(m) /\ sender'[m] = sender[m]
        /\ job[m].state = "waiting" /\ job'[m] = [state |-> "active", at |-> "opened", answer |-> job[m].answer,
                                                     failed |-> job[m].failed,
                       stalls |-> job[m].stalls]
    BY <1>5, <1>2, <1>3, SkipsKept DEF Take
  <2>5. SenderInv(m)'
    BY <1>1, <2>1, <1>4 DEF MessageInv, SenderInv, JobInv, NoJob
  <2>6. JobInv(m)'
    BY <1>1, <2>1, <1>4, NotificationsAssumption DEF MessageInv, JobInv, NoJob, Answers
  <2>7. RowInv(m)'
    BY <1>1, <2>1, <1>4, NotificationsAssumption DEF MessageInv, JobInv, RowInv, Sends, Retries, UnderWay
  <2>8. AnswerInv(m)'
    BY <1>1, <2>1, <1>4, NotificationsAssumption DEF MessageInv, JobInv, RowInv, AnswerInv
  <2> QED  BY <2>5, <2>6, <2>7, <2>8 DEF MessageInv
<1>6. CASE JobAttempt(m)
  <2>1. PICK answer, k : /\ answer \in AdapterAnswers(m) /\ k \in Takes(answer)
           /\ job'[m] = [state |-> job[m].state, at |-> "answered", answer |-> answer, failed |-> job[m].failed,
                       stalls |-> job[m].stalls]
           /\ accepted'[m] = accepted[m] + k
    BY <1>6, <1>2, <1>3 DEF JobAttempt
  <2>2. /\ delivery'[m] = delivery[m] /\ sender'[m] = sender[m] /\ Skips(m)' = Skips(m)
        /\ job[m].state = "active" /\ job[m].at = "opened"
    BY <1>6, <1>2, <1>3, SkipsKept DEF JobAttempt
  <2>3. \/ answer = "skipped" /\ k = 0 /\ Skips(m)
        \/ answer \in {"ok", "error"} /\ k \in {0, 1} /\ ~Skips(m) /\ (answer = "ok" => k = 1)
    BY <2>1, AdapterFacts DEF Takes, Skips
  <2>5. SenderInv(m)'
    BY <1>1, <2>1, <2>2, <2>3, <1>4 DEF MessageInv, SenderInv, JobInv, NoJob
  <2>6. JobInv(m)'
    BY <1>1, <2>1, <2>2, <2>3, <1>4, NotificationsAssumption DEF MessageInv, JobInv, NoJob, Answers
  <2>7. RowInv(m)'
    BY <1>1, <2>1, <2>2, <2>3, <1>4, NotificationsAssumption DEF MessageInv, JobInv, RowInv, Sends, Retries, UnderWay
  <2>8. AnswerInv(m)'
    BY <1>1, <2>1, <2>2, <2>3, <1>4, NotificationsAssumption DEF MessageInv, JobInv, RowInv, AnswerInv
  <2> QED  BY <2>5, <2>6, <2>7, <2>8 DEF MessageInv
<1>7. CASE retryFromQueue(m)
  <2>1. /\ delivery'[m] = [status |-> outcome(job[m].answer), attempts |-> delivery[m].attempts + 1]
        /\ job[m].state = "active" /\ job[m].at = "answered"
        /\ sender'[m] = sender[m] /\ accepted'[m] = accepted[m] /\ Skips(m)' = Skips(m)
    BY <1>7, <1>2, <1>3, SkipsKept DEF retryFromQueue, attemptDelivery
  <2>2. \/ job[m].answer = "error"
           /\ job'[m] = [state |-> IF job[m].failed + 1 < RetryAttempts THEN "waiting" ELSE "failed", at |-> "none",
                       answer |-> "none", failed |-> job[m].failed + 1, stalls |-> job[m].stalls]
        \/ job[m].answer # "error"
           /\ job'[m] = [state |-> "completed", at |-> "none", answer |-> job[m].answer, failed |-> job[m].failed,
                       stalls |-> job[m].stalls]
    BY <1>7, <1>2, <1>3 DEF retryFromQueue, Thrown
  <2>5. SenderInv(m)'
    BY <1>1, <2>1, <2>2, <1>4 DEF MessageInv, SenderInv, JobInv, NoJob
  <2>6. JobInv(m)'
    BY <1>1, <2>1, <2>2, <1>4, NotificationsAssumption DEF MessageInv, JobInv, NoJob, Answers
  <2>7. RowInv(m)'
    BY <1>1, <2>1, <2>2, <1>4, NotificationsAssumption DEF MessageInv, JobInv, RowInv, Sends, Retries, UnderWay, outcome
  <2>8. AnswerInv(m)'
    BY <1>1, <2>1, <2>2, <1>4, NotificationsAssumption DEF MessageInv, JobInv, RowInv, AnswerInv, outcome
  <2> QED  BY <2>5, <2>6, <2>7, <2>8 DEF MessageInv
<1>8. CASE UpdateFails(m)
  <2>1. /\ delivery'[m] = delivery[m] /\ sender'[m] = sender[m] /\ accepted'[m] = accepted[m] /\ Skips(m)' = Skips(m)
        /\ job[m].state = "active" /\ job[m].at = "answered"
        /\ job'[m] = [state |-> IF job[m].failed + 1 < RetryAttempts THEN "waiting" ELSE "failed", at |-> "none",
                       answer |-> "none", failed |-> job[m].failed + 1, stalls |-> job[m].stalls]
    BY <1>8, <1>2, <1>3, SkipsKept DEF UpdateFails, Thrown
  <2>5. SenderInv(m)'
    BY <1>1, <2>1, <1>4 DEF MessageInv, SenderInv, JobInv, NoJob
  <2>6. JobInv(m)'
    BY <1>1, <2>1, <1>4, NotificationsAssumption DEF MessageInv, JobInv, NoJob, Answers
  <2>7. RowInv(m)'
    BY <1>1, <2>1, <1>4, NotificationsAssumption DEF MessageInv, JobInv, RowInv, Sends, Retries, UnderWay
  <2>8. AnswerInv(m)'
    BY <1>1, <2>1, <1>4, NotificationsAssumption DEF MessageInv, JobInv, RowInv, AnswerInv
  <2> QED  BY <2>5, <2>6, <2>7, <2>8 DEF MessageInv
<1>9. CASE Stall(m)
  <2>1. /\ delivery'[m] = delivery[m] /\ sender'[m] = sender[m] /\ accepted'[m] = accepted[m] /\ Skips(m)' = Skips(m)
        /\ job[m].state = "active"
        /\ job'[m] = [state |-> IF job[m].stalls < StallBound THEN "waiting" ELSE "failed", at |-> "none",
                       answer |-> "none", failed |-> job[m].failed, stalls |-> job[m].stalls + 1]
    BY <1>9, <1>2, <1>3, SkipsKept DEF Stall
  <2>5. SenderInv(m)'
    BY <1>1, <2>1, <1>4 DEF MessageInv, SenderInv, JobInv, NoJob
  <2>6. JobInv(m)'
    BY <1>1, <2>1, <1>4, NotificationsAssumption DEF MessageInv, JobInv, NoJob, Answers
  <2>7. RowInv(m)'
    BY <1>1, <2>1, <1>4, NotificationsAssumption DEF MessageInv, JobInv, RowInv, Sends, Retries, UnderWay
  <2>8. AnswerInv(m)'
    BY <1>1, <2>1, <1>4, NotificationsAssumption DEF MessageInv, JobInv, RowInv, AnswerInv
  <2> QED  BY <2>5, <2>6, <2>7, <2>8 DEF MessageInv
<1> QED  BY <1>5, <1>6, <1>7, <1>8, <1>9 DEF Retrying

\* A message begins unopened.
LEMMA NotificationsStart == NotificationsInit => NotificationsInv
<1> SUFFICES ASSUME NotificationsInit PROVE NotificationsInv
  OBVIOUS
<1>1. ASSUME NEW m \in Messages PROVE MessageInv(m)
  BY NotificationsAssumption
  DEF NotificationsInit, MessageInv, SenderInv, JobInv, RowInv, AnswerInv, Sends, Retries, UnderWay, NoJob, NotOpened,
      NotStarted, Answers
<1> QED  BY <1>1, NotificationsAssumption DEF NotificationsInit, NotificationsInv

\* One message moves, the others stay as they are.
LEMMA NotificationsStep == NotificationsInv /\ [NotificationsNext]_noteVars => NotificationsInv'
<1> SUFFICES ASSUME NotificationsInv, [NotificationsNext]_noteVars PROVE NotificationsInv'
  OBVIOUS
<1>1. CASE UNCHANGED noteVars
  <2>1. ASSUME NEW n \in Messages PROVE MessageInv(n)'
    BY <1>1, OthersKept DEF NotificationsInv, noteVars
  <2> QED  BY <1>1, <2>1 DEF NotificationsInv, noteVars
<1>2. ASSUME NEW m \in Messages, Sending(m) \/ Retrying(m) \/ SenderDies(m) \/ UpdateFails(m) \/ Stall(m)
      PROVE  NotificationsInv'
  <2>1. /\ config' = config
        /\ \E d : delivery' = [delivery EXCEPT ![m] = d]
        /\ \E s : sender' = [sender EXCEPT ![m] = s]
        /\ \E j : job' = [job EXCEPT ![m] = j]
        /\ \E k : accepted' = [accepted EXCEPT ![m] = k]
    <3>1. delivery = [delivery EXCEPT ![m] = delivery[m]] /\ sender = [sender EXCEPT ![m] = sender[m]]
          /\ job = [job EXCEPT ![m] = job[m]] /\ accepted = [accepted EXCEPT ![m] = accepted[m]]
      BY DEF NotificationsInv
    <3>2. CASE Sending(m)
      BY <3>1, <3>2 DEF Sending, Open, Attempt, RecordOutcome, attemptDelivery, enqueue
    <3>3. CASE Retrying(m)
      BY <3>1, <3>3 DEF Retrying, Take, JobAttempt, retryFromQueue, attemptDelivery
    <3>4. CASE SenderDies(m) \/ UpdateFails(m) \/ Stall(m)
      BY <3>1, <3>4 DEF SenderDies, UpdateFails, Stall
    <3> QED  BY <1>2, <3>2, <3>3, <3>4
  <2>2. ASSUME NEW n \in Messages PROVE MessageInv(n)'
    <3>1. CASE n = m
      BY <1>2, <3>1, SendingStep, RetryingStep
    <3>2. CASE n # m
      BY <2>1, <3>2, OthersKept DEF NotificationsInv
    <3> QED  BY <3>1, <3>2
  <2>3. dead' \in {dead, dead \union {m}} /\ (failures' = failures \/ (failures < DeathBound /\ failures' = failures + 1))
    <3>1. CASE Sending(m)
      BY <3>1 DEF Sending, Open, Attempt, RecordOutcome, enqueue
    <3>2. CASE Retrying(m)
      BY <3>2 DEF Retrying, Take, JobAttempt, retryFromQueue
    <3>3. CASE SenderDies(m) \/ UpdateFails(m) \/ Stall(m)
      BY <3>3 DEF SenderDies, UpdateFails, Stall
    <3> QED  BY <1>2, <3>1, <3>2, <3>3
  <2>4. dead' \subseteq Messages /\ failures' \in 0..DeathBound
    BY <2>3, NotificationsAssumption DEF NotificationsInv
  <2> QED  BY <2>1, <2>2, <2>4 DEF NotificationsInv
<1> QED  BY <1>1, <1>2 DEF NotificationsNext

\* What send() and the retry worker keep, message by message: who holds an answer has it
\* from the adapter, and a message goes out once for the sender, once for every attempt of
\* the job that failed, stalled or completed, and once for the attempt under way.
THEOREM NotificationsInvariance == NotificationsSpec => []NotificationsInv
<1> QED  BY NotificationsStart, NotificationsStep, PTL DEF NotificationsSpec

\* Rows, jobs and attempts keep their types: whatever dies and is put back, a message is
\* attempted at most once by send(), RetryAttempts times after that, and once more for
\* each stall BullMQ forgives (DEFAULT_JOB_OPTIONS of the queue).
THEOREM NotificationsTyped == NotificationsSpec => []NotificationsTypeOK
<1>1. NotificationsInv => NotificationsTypeOK
  <2> SUFFICES ASSUME NotificationsInv PROVE NotificationsTypeOK
    OBVIOUS
  <2>1. ASSUME NEW m \in Messages
        PROVE  delivery[m].attempts \in Attempts /\ accepted[m] \in Attempts
    <3>1. Sends(m) \in 0..1 /\ Retries(m) \in 0..(RetryAttempts + StallBound)
          /\ Retries(m) + UnderWay(m) \in 0..(RetryAttempts + StallBound)
      BY NotificationsAssumption DEF NotificationsInv, MessageInv, JobInv, Sends, Retries, UnderWay
    <3>2. /\ delivery[m].attempts \in Nat /\ delivery[m].attempts <= Sends(m) + Retries(m)
          /\ accepted[m] \in Nat /\ accepted[m] <= Sends(m) + Retries(m) + UnderWay(m)
      BY DEF NotificationsInv, MessageInv, RowInv
    <3>3. RetryAttempts \in Nat /\ StallBound \in Nat /\ UnderWay(m) \in 0..1
      BY NotificationsAssumption DEF UnderWay
    <3> HIDE DEF Sends, Retries, UnderWay
    <3> QED  BY <3>1, <3>2, <3>3 DEF Attempts
  <2>2. ASSUME NEW m \in Messages
        PROVE  /\ delivery[m] \in [status: {"none", "PENDING", "SENT", "SKIPPED", "FAILED"}, attempts: Attempts]
               /\ sender[m] \in [at: {"none", "opened", "answered", "recorded", "returned"}, answer: Answers]
               /\ job[m] \in [state: {"none", "waiting", "active", "completed", "failed"},
                              at: {"none", "opened", "answered"}, answer: Answers,
                              failed: 0..RetryAttempts, stalls: 0..(StallBound + 1)]
               /\ accepted[m] \in Attempts
    BY <2>1 DEF NotificationsInv, MessageInv, SenderInv, JobInv, RowInv
  <2> QED  BY <2>2 DEF NotificationsInv, NotificationsTypeOK, Answers
<1> QED  BY <1>1, NotificationsInvariance, PTL

\* A row says SENT only of what a provider took, and SKIPPED only of what none was
\* given, although send(), the worker and the update of the row may die in between and
\* attempts are repeated (attemptDelivery, retryFromQueue).
THEOREM WhatWasSentWasSent == NotificationsSpec => []SentWasSent
<1>1. NotificationsInv => SentWasSent
  BY DEF NotificationsInv, MessageInv, RowInv, AnswerInv, SentWasSent
<1> QED  BY <1>1, NotificationsInvariance, PTL

-----------------------------------------------------------------------------
(* The risk pipeline: the program of a request. *)

Ops == {"start", "event", "end", "freeze", "risk", "input", "abort", "learn", "abandon", "check", "fuse", "register",
        "setStatus"}
Statements ==
    Records \union {"session", "flag", "end", "turn", "abort", "pause", "linkAbort", "finish", "graph", "linkEnd",
                    "verdict", "count", "retire", "set"}

riskProgram(level) ==
    IF level = "CRITICAL"
    THEN <<"riskEvent", "riskLog", "riskAlert", "freeze", "flag", "freezeLog", "pauseAlert", "intervening">>
    ELSE IF level = "HIGH" THEN <<"riskEvent", "riskLog", "riskAlert">> ELSE <<"riskEvent", "riskLog">>

\* The statements of a request, in order.
Program(r) ==
    CASE r.op = "start" -> <<"session", "startLog">>
      [] r.op = "event" -> <<"sessionEvent">>
      [] r.op = "end" -> <<"end", "endLog">>
      [] r.op = "freeze" -> <<"freeze", "flag", "freezeLog", "pauseAlert">>
      [] r.op = "risk" -> riskProgram(r.level)
      [] r.op = "input" -> <<"turn">>
      [] r.op = "abort" -> <<"abort", "abortLog", "pause", "linkAbort">>
      [] r.op = "learn" -> <<"finish", "finishLog", "graph", "linkEnd">>
      [] r.op = "abandon" -> <<"finish", "finishLog", "linkEnd">>
      [] r.op = "check" -> IF r.status = "INCONCLUSIVE" THEN <<"inconclusive", "checkLog">>
                                                        ELSE <<"verdict", "decision", "checkLog">>
      [] r.op = "fuse" -> <<"journey", "journeyDecision", "victim", "victimDecision", "move", "moveDecision", "count",
                            "fusion">>
      [] r.op = "setStatus" -> IF r.status = "ACTIVE" THEN <<"retire", "set">> ELSE <<"set">>
      [] OTHER -> <<>>

\* What is known of a statement from its place in its program.
Placed(r, k) ==
    LET x == Program(r)[k]  n == Len(Program(r))
    IN  /\ x \in Statements
        /\ x = "intervening" <=> r.op = "risk" /\ k = 8
        /\ x \in {"riskEvent", "riskLog", "riskAlert", "intervening"} => r.op = "risk"
        /\ x = "session" <=> r.op = "start" /\ k = 1
        /\ x = "end" <=> r.op = "end" /\ k = 1
        /\ x = "turn" <=> r.op = "input"
        /\ x = "abort" <=> r.op = "abort" /\ k = 1
        /\ x = "pause" <=> r.op = "abort" /\ k = 3
        /\ x = "linkAbort" <=> r.op = "abort" /\ k = 4
        /\ x = "finish" <=> r.op \in {"learn", "abandon"} /\ k = 1
        /\ x = "graph" <=> r.op = "learn" /\ k = 3
        /\ x = "linkEnd" => r.op \in {"learn", "abandon"}
        /\ x = "verdict" <=> r.op = "check" /\ k = 1 /\ r.status # "INCONCLUSIVE"
        /\ x = "count" <=> r.op = "fuse" /\ k = 7
        /\ x = "fusion" <=> r.op = "fuse" /\ k = 8
        /\ x = "retire" <=> r.op = "setStatus" /\ k = 1 /\ r.status = "ACTIVE"
        /\ x = "set" <=> r.op = "setStatus" /\ k = n
        /\ x = "flag" => r.op \in {"freeze", "risk"}
        /\ \A l \in 1..n : Program(r)[l] = x => l = k

Elements(s, n) == s = [k \in 1..n |-> s[k]] /\ n \in Nat /\ \A k \in 1..n : s[k] \in Statements

\* A list of statements, given by its elements.
LEMMA ElementsSeq == ASSUME NEW s, NEW n, Elements(s, n) PROVE s \in Seq(Statements) /\ Len(s) = n
<1>1. s \in [1..n -> Statements]
  BY DEF Elements
<1>2. s \in Seq(Statements)
  BY <1>1, SeqDef DEF Elements
<1> QED  BY <1>1, <1>2 DEF Elements

\* The statements of each operation, element by element.
LEMMA StartProgram ==
    ASSUME NEW r, r.op = "start"
    PROVE  Elements(Program(r), Len(Program(r))) /\ \A k \in 1..Len(Program(r)) : Placed(r, k)
<1>1. Program(r) = <<"session", "startLog">>
  BY DEF Program, riskProgram
<1>2. Len(Program(r)) = 2 /\ Program(r) = [k \in 1..2 |-> Program(r)[k]]
  BY <1>1
<1>3. Program(r)[1] = "session" /\ Program(r)[2] = "startLog"
  BY <1>1
<1> QED  BY <1>2, <1>3 DEF Elements, Placed, Statements, Records

\* A session event.
LEMMA EventProgram ==
    ASSUME NEW r, r.op = "event"
    PROVE  Elements(Program(r), Len(Program(r))) /\ \A k \in 1..Len(Program(r)) : Placed(r, k)
<1>1. Program(r) = <<"sessionEvent">>
  BY DEF Program, riskProgram
<1>2. Len(Program(r)) = 1 /\ Program(r) = [k \in 1..1 |-> Program(r)[k]]
  BY <1>1
<1>3. Program(r)[1] = "sessionEvent"
  BY <1>1
<1> QED  BY <1>2, <1>3 DEF Elements, Placed, Statements, Records

\* The end of a session.
LEMMA EndProgram ==
    ASSUME NEW r, r.op = "end"
    PROVE  Elements(Program(r), Len(Program(r))) /\ \A k \in 1..Len(Program(r)) : Placed(r, k)
<1>1. Program(r) = <<"end", "endLog">>
  BY DEF Program, riskProgram
<1>2. Len(Program(r)) = 2 /\ Program(r) = [k \in 1..2 |-> Program(r)[k]]
  BY <1>1
<1>3. Program(r)[1] = "end" /\ Program(r)[2] = "endLog"
  BY <1>1
<1> QED  BY <1>2, <1>3 DEF Elements, Placed, Statements, Records

\* FreezeLock.
LEMMA FreezeProgram ==
    ASSUME NEW r, r.op = "freeze"
    PROVE  Elements(Program(r), Len(Program(r))) /\ \A k \in 1..Len(Program(r)) : Placed(r, k)
<1>1. Program(r) = <<"freeze", "flag", "freezeLog", "pauseAlert">>
  BY DEF Program, riskProgram
<1>2. Len(Program(r)) = 4 /\ Program(r) = [k \in 1..4 |-> Program(r)[k]]
  BY <1>1
<1>3. /\ Program(r)[1] = "freeze" /\ Program(r)[2] = "flag" /\ Program(r)[3] = "freezeLog"
      /\ Program(r)[4] = "pauseAlert"
  BY <1>1
<1> QED  BY <1>2, <1>3 DEF Elements, Placed, Statements, Records

\* A risk event, with its alert and its intervention.
LEMMA RiskProgram ==
    ASSUME NEW r, r.op = "risk"
    PROVE  Elements(Program(r), Len(Program(r))) /\ \A k \in 1..Len(Program(r)) : Placed(r, k)
<1>1. CASE r.level = "CRITICAL"
  <2>1. Program(r) = <<"riskEvent", "riskLog", "riskAlert", "freeze", "flag", "freezeLog", "pauseAlert", "intervening">>
    BY <1>1 DEF Program, riskProgram
  <2>2. Len(Program(r)) = 8 /\ Program(r) = [k \in 1..8 |-> Program(r)[k]]
    BY <2>1
  <2>3. /\ Program(r)[1] = "riskEvent" /\ Program(r)[2] = "riskLog" /\ Program(r)[3] = "riskAlert"
        /\ Program(r)[4] = "freeze" /\ Program(r)[5] = "flag" /\ Program(r)[6] = "freezeLog"
        /\ Program(r)[7] = "pauseAlert" /\ Program(r)[8] = "intervening"
    BY <2>1
  <2> QED  BY <1>1, <2>2, <2>3 DEF Elements, Placed, Statements, Records
<1>2. CASE r.level = "HIGH"
  <2>1. Program(r) = <<"riskEvent", "riskLog", "riskAlert">>
    BY <1>2 DEF Program, riskProgram
  <2>2. Len(Program(r)) = 3 /\ Program(r) = [k \in 1..3 |-> Program(r)[k]]
    BY <2>1
  <2>3. Program(r)[1] = "riskEvent" /\ Program(r)[2] = "riskLog" /\ Program(r)[3] = "riskAlert"
    BY <2>1
  <2> QED  BY <1>2, <2>2, <2>3 DEF Elements, Placed, Statements, Records
<1>3. CASE r.level \notin {"CRITICAL", "HIGH"}
  <2>1. Program(r) = <<"riskEvent", "riskLog">>
    BY <1>3 DEF Program, riskProgram
  <2>2. Len(Program(r)) = 2 /\ Program(r) = [k \in 1..2 |-> Program(r)[k]]
    BY <2>1
  <2>3. Program(r)[1] = "riskEvent" /\ Program(r)[2] = "riskLog"
    BY <2>1
  <2> QED  BY <1>3, <2>2, <2>3 DEF Elements, Placed, Statements, Records
<1> QED  BY <1>1, <1>2, <1>3

\* A turn of ScamMirror.
LEMMA InputProgram ==
    ASSUME NEW r, r.op = "input"
    PROVE  Elements(Program(r), Len(Program(r))) /\ \A k \in 1..Len(Program(r)) : Placed(r, k)
<1>1. Program(r) = <<"turn">>
  BY DEF Program, riskProgram
<1>2. Len(Program(r)) = 1 /\ Program(r) = [k \in 1..1 |-> Program(r)[k]]
  BY <1>1
<1>3. Program(r)[1] = "turn"
  BY <1>1
<1> QED  BY <1>2, <1>3 DEF Elements, Placed, Statements, Records

\* The abort of a simulation.
LEMMA AbortProgram ==
    ASSUME NEW r, r.op = "abort"
    PROVE  Elements(Program(r), Len(Program(r))) /\ \A k \in 1..Len(Program(r)) : Placed(r, k)
<1>1. Program(r) = <<"abort", "abortLog", "pause", "linkAbort">>
  BY DEF Program, riskProgram
<1>2. Len(Program(r)) = 4 /\ Program(r) = [k \in 1..4 |-> Program(r)[k]]
  BY <1>1
<1>3. /\ Program(r)[1] = "abort" /\ Program(r)[2] = "abortLog" /\ Program(r)[3] = "pause"
      /\ Program(r)[4] = "linkAbort"
  BY <1>1
<1> QED  BY <1>2, <1>3 DEF Elements, Placed, Statements, Records

\* The end of a simulation that taught something.
LEMMA LearnProgram ==
    ASSUME NEW r, r.op = "learn"
    PROVE  Elements(Program(r), Len(Program(r))) /\ \A k \in 1..Len(Program(r)) : Placed(r, k)
<1>1. Program(r) = <<"finish", "finishLog", "graph", "linkEnd">>
  BY DEF Program, riskProgram
<1>2. Len(Program(r)) = 4 /\ Program(r) = [k \in 1..4 |-> Program(r)[k]]
  BY <1>1
<1>3. /\ Program(r)[1] = "finish" /\ Program(r)[2] = "finishLog" /\ Program(r)[3] = "graph"
      /\ Program(r)[4] = "linkEnd"
  BY <1>1
<1> QED  BY <1>2, <1>3 DEF Elements, Placed, Statements, Records

\* The end of one that did not.
LEMMA AbandonProgram ==
    ASSUME NEW r, r.op = "abandon"
    PROVE  Elements(Program(r), Len(Program(r))) /\ \A k \in 1..Len(Program(r)) : Placed(r, k)
<1>1. Program(r) = <<"finish", "finishLog", "linkEnd">>
  BY DEF Program, riskProgram
<1>2. Len(Program(r)) = 3 /\ Program(r) = [k \in 1..3 |-> Program(r)[k]]
  BY <1>1
<1>3. Program(r)[1] = "finish" /\ Program(r)[2] = "finishLog" /\ Program(r)[3] = "linkEnd"
  BY <1>1
<1> QED  BY <1>2, <1>3 DEF Elements, Placed, Statements, Records

\* An authenticity check.
LEMMA CheckProgram ==
    ASSUME NEW r, r.op = "check"
    PROVE  Elements(Program(r), Len(Program(r))) /\ \A k \in 1..Len(Program(r)) : Placed(r, k)
<1>1. CASE r.status = "INCONCLUSIVE"
  <2>1. Program(r) = <<"inconclusive", "checkLog">>
    BY <1>1 DEF Program, riskProgram
  <2>2. Len(Program(r)) = 2 /\ Program(r) = [k \in 1..2 |-> Program(r)[k]]
    BY <2>1
  <2>3. Program(r)[1] = "inconclusive" /\ Program(r)[2] = "checkLog"
    BY <2>1
  <2> QED  BY <1>1, <2>2, <2>3 DEF Elements, Placed, Statements, Records
<1>2. CASE r.status # "INCONCLUSIVE"
  <2>1. Program(r) = <<"verdict", "decision", "checkLog">>
    BY <1>2 DEF Program, riskProgram
  <2>2. Len(Program(r)) = 3 /\ Program(r) = [k \in 1..3 |-> Program(r)[k]]
    BY <2>1
  <2>3. Program(r)[1] = "verdict" /\ Program(r)[2] = "decision" /\ Program(r)[3] = "checkLog"
    BY <2>1
  <2> QED  BY <1>2, <2>2, <2>3 DEF Elements, Placed, Statements, Records
<1> QED  BY <1>1, <1>2

\* A fusion.
LEMMA FuseProgram ==
    ASSUME NEW r, r.op = "fuse"
    PROVE  Elements(Program(r), Len(Program(r))) /\ \A k \in 1..Len(Program(r)) : Placed(r, k)
<1>1. Program(r) = <<"journey", "journeyDecision", "victim", "victimDecision", "move", "moveDecision", "count", "fusion">>
  BY DEF Program, riskProgram
<1>2. Len(Program(r)) = 8 /\ Program(r) = [k \in 1..8 |-> Program(r)[k]]
  BY <1>1
<1>3. /\ Program(r)[1] = "journey" /\ Program(r)[2] = "journeyDecision"
      /\ Program(r)[3] = "victim" /\ Program(r)[4] = "victimDecision" /\ Program(r)[5] = "move"
      /\ Program(r)[6] = "moveDecision" /\ Program(r)[7] = "count" /\ Program(r)[8] = "fusion"
  BY <1>1
<1> QED  BY <1>2, <1>3 DEF Elements, Placed, Statements, Records

\* The upsert of a model version.
LEMMA RegisterProgram ==
    ASSUME NEW r, r.op = "register"
    PROVE  Elements(Program(r), Len(Program(r))) /\ \A k \in 1..Len(Program(r)) : Placed(r, k)
<1>1. Program(r) = <<>>
  BY DEF Program, riskProgram
<1>2. Len(Program(r)) = 0 /\ Program(r) = [k \in 1..0 |-> Program(r)[k]]
  BY <1>1
<1> QED  BY <1>2 DEF Elements, Placed, Statements, Records

\* The change of a version's status.
LEMMA SetStatusProgram ==
    ASSUME NEW r, r.op = "setStatus"
    PROVE  Elements(Program(r), Len(Program(r))) /\ \A k \in 1..Len(Program(r)) : Placed(r, k)
<1>1. CASE r.status = "ACTIVE"
  <2>1. Program(r) = <<"retire", "set">>
    BY <1>1 DEF Program, riskProgram
  <2>2. Len(Program(r)) = 2 /\ Program(r) = [k \in 1..2 |-> Program(r)[k]]
    BY <2>1
  <2>3. Program(r)[1] = "retire" /\ Program(r)[2] = "set"
    BY <2>1
  <2> QED  BY <1>1, <2>2, <2>3 DEF Elements, Placed, Statements, Records
<1>2. CASE r.status # "ACTIVE"
  <2>1. Program(r) = <<"set">>
    BY <1>2 DEF Program, riskProgram
  <2>2. Len(Program(r)) = 1 /\ Program(r) = [k \in 1..1 |-> Program(r)[k]]
    BY <2>1
  <2>3. Program(r)[1] = "set"
    BY <2>1
  <2> QED  BY <1>2, <2>2, <2>3 DEF Elements, Placed, Statements, Records
<1> QED  BY <1>1, <1>2

\* The statements of every operation.
LEMMA ProgramPlaced ==
    ASSUME NEW r, r.op \in Ops
    PROVE  Program(r) \in Seq(Statements) /\ \A k \in 1..Len(Program(r)) : Placed(r, k)
<1>1. Elements(Program(r), Len(Program(r))) /\ \A k \in 1..Len(Program(r)) : Placed(r, k)
  BY StartProgram, EventProgram, EndProgram, FreezeProgram, RiskProgram, InputProgram, AbortProgram, LearnProgram,
     AbandonProgram, CheckProgram, FuseProgram, RegisterProgram, SetStatusProgram DEF Ops
<1> QED  BY <1>1, ElementsSeq

\* What the source puts together is the program.
LEMMA RiskSteps == ASSUME NEW level PROVE riskSteps(level) = riskProgram(level)
<1> DEFINE two == <<"riskEvent", "riskLog">>
           one == <<"riskAlert">>
           three == <<"riskEvent", "riskLog", "riskAlert">>
           last == <<"intervening">>
           five == <<"freeze", "flag", "freezeLog", "pauseAlert", "intervening">>
           eight == <<"riskEvent", "riskLog", "riskAlert", "freeze", "flag", "freezeLog", "pauseAlert", "intervening">>
<1>1. /\ two \in Seq(Statements) /\ one \in Seq(Statements) /\ last \in Seq(Statements)
      /\ freezeSteps \in Seq(Statements) /\ three \in Seq(Statements) /\ five \in Seq(Statements)
      /\ eight \in Seq(Statements)
  <2>1. Elements(two, 2)
    BY DEF Elements, Statements, Records
  <2>2. Elements(one, 1)
    BY DEF Elements, Statements, Records
  <2>3. Elements(last, 1)
    BY DEF Elements, Statements, Records
  <2>4. Elements(freezeSteps, 4)
    BY DEF Elements, Statements, Records, freezeSteps
  <2>5. Elements(three, 3)
    BY DEF Elements, Statements, Records
  <2>6. Elements(five, 5)
    BY DEF Elements, Statements, Records
  <2>7. Elements(eight, 8)
    BY DEF Elements, Statements, Records
  <2> QED  BY <2>1, <2>2, <2>3, <2>4, <2>5, <2>6, <2>7, ElementsSeq
<1>2. two \o one = three
  <2>1. Len(two \o one) = 3 /\ \A i \in 1..3 : (two \o one)[i] = three[i]
    BY <1>1, ConcatProperties
  <2> QED  BY <1>1, <2>1, SeqEqual, ConcatProperties
<1>3. freezeSteps \o last = five
  <2>1. Len(freezeSteps) = 4 /\ Len(last) = 1 /\ freezeSteps[1] = "freeze" /\ freezeSteps[2] = "flag"
        /\ freezeSteps[3] = "freezeLog" /\ freezeSteps[4] = "pauseAlert" /\ last[1] = "intervening"
    BY DEF freezeSteps
  <2>2. Len(five) = 5 /\ five[1] = "freeze" /\ five[2] = "flag" /\ five[3] = "freezeLog" /\ five[4] = "pauseAlert"
        /\ five[5] = "intervening"
    OBVIOUS
  <2> HIDE DEF five, last
  <2>3. freezeSteps \in Seq(Statements) /\ last \in Seq(Statements)
    BY <1>1
  <2>4. /\ freezeSteps \o last \in Seq(Statements) /\ Len(freezeSteps \o last) = Len(freezeSteps) + Len(last)
        /\ \A i \in 1..(Len(freezeSteps) + Len(last)) :
              (freezeSteps \o last)[i] = IF i <= Len(freezeSteps) THEN freezeSteps[i] ELSE last[i - Len(freezeSteps)]
    BY <2>3, ConcatProperties
  <2>5. \A i \in 1..5 : (freezeSteps \o last)[i] = five[i]
    BY <2>1, <2>2, <2>4
  <2> QED  BY <1>1, <2>1, <2>2, <2>4, <2>5, SeqEqual
<1>4. three \o five = eight
  <2>1. Len(three \o five) = 8 /\ \A i \in 1..8 : (three \o five)[i] = eight[i]
    BY <1>1, ConcatProperties
  <2>2. three \o five \in Seq(Statements) /\ Len(eight) = 8
    BY <1>1, ConcatProperties
  <2> HIDE DEF three, five, eight
  <2> QED  BY <1>1, <2>1, <2>2, SeqEqual
<1>5. two \o <<>> = two /\ three \o <<>> = three
  BY <1>1, ConcatEmptySeq
<1>6. CASE level = "CRITICAL"
  <2>1. riskSteps(level) = (two \o one) \o (freezeSteps \o last)
    BY <1>6 DEF riskSteps
  <2> QED  BY <1>2, <1>3, <1>4, <1>6, <2>1 DEF riskProgram
<1>7. CASE level = "HIGH"
  <2>1. riskSteps(level) = (two \o one) \o <<>>
    BY <1>7 DEF riskSteps
  <2> QED  BY <1>2, <1>5, <1>7, <2>1 DEF riskProgram
<1>8. CASE level \notin {"CRITICAL", "HIGH"}
  <2>1. riskSteps(level) = (two \o <<>>) \o <<>>
    BY <1>8 DEF riskSteps
  <2> QED  BY <1>5, <1>8, <2>1 DEF riskProgram
<1> QED  BY <1>6, <1>7, <1>8

-----------------------------------------------------------------------------
(* Requests: how they are asked, written and lost. *)

Tactics == UNION {i.tactics : i \in Inputs}
Levels == {"LOW", "MEDIUM", "HIGH", "CRITICAL"}
Reqs ==
    [op: Ops, todo: Seq(Statements), made: SUBSET (Statements \union {"noFlag"}), died: BOOLEAN, level: Levels,
     input: Inputs \union {NoSim}, turns: SUBSET Nat, tactics: SUBSET Tactics, counted: Nat, before: Nat,
     version: Versions \union {"none"}, status: {"none", "PASS", "FAIL", "INCONCLUSIVE", "DRAFT", "ACTIVE", "RETIRED"}]
Mirror == {"input", "abort", "learn", "abandon"}

PipelineTyped ==
    /\ book \in Seq(Reqs)
    /\ session \in [status: {"none", "ACTIVE", "FLAGGED", "ENDED"}, endedAt: BOOLEAN]
    /\ sim \in [status: {"none", "ACTIVE", "ABORTED_REAL_CREDS", "ENDED_LEARNED", "ENDED_ABANDONED"},
                turns: SUBSET Nat, tactics: SUBSET Tactics, pause: BOOLEAN, evidence: {"none"} \union Ops]
    /\ learned \subseteq Tactics
    /\ fails \in Nat
    /\ models = [v \in Versions |-> models[v]]
    /\ losses \in 0..LossesBound
    /\ Len(book) <= BookBound

WellFormed(r) ==
    /\ r.op # "risk" => r.level = "LOW"
    /\ r.op \notin {"check", "register", "setStatus"} => r.status = "none"
    /\ r.op \in {"register", "setStatus"} => r.version \in Versions
    /\ r.op = "input" => r.input \in Inputs /\ ~r.input.secret

\* How far a request is: what is left to do is the end of the program, what is made is
\* its beginning; a flag is noted as missing when there was no session.
Size(r) == Len(Program(r))
Left(r) == Len(r.todo)
Place(r) == Size(r) - Left(r)
Follows(r) ==
    /\ WellFormed(r)
    /\ Place(r) \in 0..Size(r)
    /\ \A k \in 1..Left(r) : r.todo[k] = Program(r)[Place(r) + k]
    /\ \A x \in r.made : x = "noFlag" \/ \E k \in 1..Place(r) : x = Program(r)[k]
    /\ \A k \in 1..Place(r) : Program(r)[k] \in r.made \/ Program(r)[k] = "flag"

Fresh(r) == r \in Reqs /\ WellFormed(r) /\ r.todo = Program(r) /\ r.made = {} /\ ~r.died

\* What a request found when it was asked for.
Found(r) ==
    /\ r.op # "register"
    /\ r.op = "start" => \A j \in DOMAIN book : book[j].op # "start"
    /\ r.op = "end" => session.status \notin {"none", "ENDED"}
    /\ r.op \in Mirror => sim.status = "ACTIVE"
    /\ r.op = "input" => r.turns = sim.turns \union {Len(book) + 1} /\ r.tactics = sim.tactics \union r.input.tactics
    /\ r.before = IF r.op = "fuse" THEN fails ELSE 0

Asked(r) == Fresh(r) /\ Found(r) /\ \E where \in {"session", "mirror", "checks", "models"} : Ask(where, r)
Registered(r) ==
    /\ Fresh(r) /\ r.op = "register" /\ r.before = 0
    /\ models' = [models EXCEPT ![r.version] = r.status]
    /\ Len(book) < BookBound
    /\ book' = Append(book, r)
    /\ UNCHANGED <<area, session, sim, learned, fails, losses, clashed>>

\* A write: what it notes, and what it does to the rows. FreezeLock flags the session
\* followed, or another or none.
Named(x, name) == name = x \/ (x = "flag" /\ name = "noFlag")
Read(i, x) == IF x = "finish" THEN sim.tactics ELSE book[i].tactics
Count(i, x) == IF x \in {"verdict", "count"} THEN fails ELSE book[i].counted
After(r, name, tactics, counted) ==
    [op |-> r.op, todo |-> Tail(r.todo), made |-> r.made \union {name}, died |-> r.died, level |-> r.level,
     input |-> r.input, turns |-> r.turns, tactics |-> tactics, counted |-> counted, before |-> r.before,
     version |-> r.version, status |-> r.status]
Noted(i, x, name) ==
    /\ Running(i) /\ x = Head(book[i].todo)
    /\ book' = [book EXCEPT ![i] = After(book[i], name, Read(i, x), Count(i, x))]
WroteSession(x, name) ==
    /\ Named(x, name) /\ (name = "flag" => session.status # "none")
    /\ session' = CASE name = "session" -> [status |-> "ACTIVE", endedAt |-> FALSE]
                    [] name = "end" -> [status |-> "ENDED", endedAt |-> TRUE]
                    [] name = "flag" -> [session EXCEPT !.status = "FLAGGED"]
                    [] OTHER -> session
WroteMirror(i, x) ==
    /\ sim' = CASE x = "turn" -> [sim EXCEPT !.turns = book[i].turns, !.tactics = book[i].tactics]
                [] x = "abort" -> [sim EXCEPT !.status = "ABORTED_REAL_CREDS"]
                [] x = "finish" -> [sim EXCEPT !.status = IF book[i].op = "learn" THEN "ENDED_LEARNED"
                                                                                  ELSE "ENDED_ABANDONED"]
                [] x = "linkAbort" -> [sim EXCEPT !.pause = TRUE, !.evidence = book[i].op]
                [] x = "linkEnd" -> [sim EXCEPT !.evidence = book[i].op]
                [] OTHER -> sim
    /\ learned' = learned \/ (x = "graph" /\ learned' = learned \union book[i].tactics)
WroteChecks(i, x) == fails' = IF x \in {"verdict", "count"} /\ book[i].status = "FAIL" THEN fails + 1 ELSE fails
WroteModels(i, x) ==
    models' = CASE x = "set" -> [models EXCEPT ![book[i].version] = book[i].status]
                [] x = "retire" -> [v \in Versions |-> IF v # book[i].version /\ models[v] = "ACTIVE" THEN "RETIRED"
                                                                                                      ELSE models[v]]
                [] OTHER -> models
Wrote(i, x, name) ==
    /\ Noted(i, x, name)
    /\ WroteSession(x, name) /\ WroteMirror(i, x) /\ WroteChecks(i, x) /\ WroteModels(i, x)
    /\ UNCHANGED <<area, losses, clashed>>

\* levelForScore knows four levels.
LEMMA LevelsTyped == \A n : levelForScore(n) \in Levels
  BY DEF levelForScore, Levels

Own == {"session", "flag", "end", "turn", "abort", "pause", "linkAbort", "finish", "graph", "linkEnd", "verdict", "count",
        "retire", "set"}

\* The fields of a request.
LEMMA EntryFields ==
    ASSUME NEW r \in Reqs
    PROVE  r = [op |-> r.op, todo |-> r.todo, made |-> r.made, died |-> r.died, level |-> r.level, input |-> r.input,
                turns |-> r.turns, tactics |-> r.tactics, counted |-> r.counted, before |-> r.before,
                version |-> r.version, status |-> r.status]
  BY DEF Reqs

\* The entry of a request, with some of its fields written.
LEMMA EntryNoted ==
    ASSUME NEW i \in DOMAIN book, book[i] \in Reqs, NEW name, NEW b,
           b = [book EXCEPT ![i].todo = Tail(@), ![i].made = @ \union {name}]
    PROVE  b = [book EXCEPT ![i] = After(book[i], name, book[i].tactics, book[i].counted)]
<1>1. book[i] = [op |-> book[i].op, todo |-> book[i].todo, made |-> book[i].made, died |-> book[i].died,
                 level |-> book[i].level, input |-> book[i].input, turns |-> book[i].turns, tactics |-> book[i].tactics,
                 counted |-> book[i].counted, before |-> book[i].before, version |-> book[i].version,
                 status |-> book[i].status]
  BY EntryFields
<1>2. PICK q : q = [book[i] EXCEPT !.todo = Tail(@), !.made = @ \union {name}]
  OBVIOUS
<1>3. q = After(book[i], name, book[i].tactics, book[i].counted)
  BY <1>1, <1>2 DEF After
<1> QED  BY <1>2, <1>3

\* Every write is one of these.
LEMMA Writes ==
    ASSUME PipelineTyped, NEW i \in DOMAIN book,
           Record(i) \/ SessionWrite(i) \/ MirrorWrite(i) \/ CheckWrite(i) \/ ModelWrite(i)
    PROVE  \E x, name : Wrote(i, x, name)
<1>1. book[i] \in Reqs
  BY DEF PipelineTyped
<1> SUFFICES ASSUME NEW x, x = Head(book[i].todo) PROVE \E name : Wrote(i, x, name)
  OBVIOUS
<1>2. Running(i)
  BY DEF Record, SessionWrite, MirrorWrite, CheckWrite, ModelWrite, Does
<1>3. CASE Record(i)
  <2>1. x \in Records /\ UNCHANGED <<area, session, sim, learned, fails, models, losses, clashed>>
        /\ book' = [book EXCEPT ![i].todo = Tail(@), ![i].made = @ \union {x}]
    BY <1>3 DEF Record, Does, Note
  <2>2. x \notin Own
    BY <2>1 DEF Records, Own
  <2>3. Noted(i, x, x)
    <3>1. Read(i, x) = book[i].tactics /\ Count(i, x) = book[i].counted
      BY <2>2 DEF Read, Count, Own
    <3>2. book' = [book EXCEPT ![i] = After(book[i], x, book[i].tactics, book[i].counted)]
      BY <1>1, <2>1, EntryNoted
    <3> QED  BY <1>2, <3>1, <3>2 DEF Noted
  <2>4. Wrote(i, x, x)
    BY <2>1, <2>2, <2>3 DEF Wrote, WroteSession, Named, WroteMirror, WroteChecks, WroteModels, Own
  <2> QED  BY <2>4
<1>4. CASE SessionWrite(i)
  <2>1. PICK name : /\ Named(x, name) /\ (name = "flag" => session.status # "none")
                    /\ session' = CASE name = "session" -> [status |-> "ACTIVE", endedAt |-> FALSE]
                                    [] name = "end" -> [status |-> "ENDED", endedAt |-> TRUE]
                                    [] name = "flag" -> [session EXCEPT !.status = "FLAGGED"]
                                    [] OTHER -> session
                    /\ book' = [book EXCEPT ![i].todo = Tail(@), ![i].made = @ \union {name}]
    BY <1>4 DEF SessionWrite, Does, Note, Named
  <2>2. x \in {"session", "flag", "end"} /\ UNCHANGED <<area, sim, learned, fails, models, losses, clashed>>
    BY <1>4 DEF SessionWrite, Does
  <2>3. Noted(i, x, name)
    <3>1. Read(i, x) = book[i].tactics /\ Count(i, x) = book[i].counted
      BY <2>2 DEF Read, Count
    <3>2. book' = [book EXCEPT ![i] = After(book[i], name, book[i].tactics, book[i].counted)]
      BY <1>1, <2>1, EntryNoted
    <3> QED  BY <1>2, <3>1, <3>2 DEF Noted
  <2>4. WroteSession(x, name)
    BY <2>1 DEF WroteSession
  <2>5. Wrote(i, x, name)
    BY <2>2, <2>3, <2>4 DEF Wrote, WroteMirror, WroteChecks, WroteModels
  <2> QED  BY <2>5
<1>5. CASE MirrorWrite(i)
  <2>1. /\ x \in {"turn", "abort", "pause", "linkAbort", "finish", "graph", "linkEnd"}
        /\ UNCHANGED <<area, session, fails, models, losses, clashed>>
        /\ book' = [book EXCEPT ![i].todo = Tail(@), ![i].made = @ \union {x}, ![i].tactics = Read(i, x)]
    BY <1>5 DEF MirrorWrite, Does, Read
  <2>2. Noted(i, x, x)
    <3>1. Count(i, x) = book[i].counted
      BY <2>1 DEF Count
    <3>2. book' = [book EXCEPT ![i] = After(book[i], x, Read(i, x), book[i].counted)]
      <4>1. PICK q : q = [book[i] EXCEPT !.todo = Tail(@), !.made = @ \union {x}, !.tactics = Read(i, x)]
        OBVIOUS
      <4>2. book[i] = [op |-> book[i].op, todo |-> book[i].todo, made |-> book[i].made, died |-> book[i].died,
                       level |-> book[i].level, input |-> book[i].input, turns |-> book[i].turns,
                       tactics |-> book[i].tactics, counted |-> book[i].counted, before |-> book[i].before,
                       version |-> book[i].version, status |-> book[i].status]
        BY <1>1, EntryFields
      <4>3. q = After(book[i], x, Read(i, x), book[i].counted)
        BY <4>1, <4>2 DEF After
      <4>4. book' = [book EXCEPT ![i] = q]
        BY <2>1, <4>1
      <4> QED  BY <4>3, <4>4
    <3> QED  BY <1>2, <3>1, <3>2 DEF Noted
  <2>3. WroteMirror(i, x)
    BY <1>5 DEF MirrorWrite, Does, WroteMirror
  <2>4. Wrote(i, x, x)
    BY <2>1, <2>2, <2>3 DEF Wrote, WroteSession, Named, WroteChecks, WroteModels
  <2> QED  BY <2>4
<1>6. CASE CheckWrite(i)
  <2>1. /\ x \in {"verdict", "count"} /\ UNCHANGED <<area, session, sim, learned, models, losses, clashed>>
        /\ book' = [book EXCEPT ![i].todo = Tail(@), ![i].made = @ \union {x}, ![i].counted = fails]
        /\ fails' = IF book[i].status = "FAIL" THEN fails + 1 ELSE fails
    BY <1>6 DEF CheckWrite, Does
  <2>2. Noted(i, x, x)
    <3>1. Read(i, x) = book[i].tactics /\ Count(i, x) = fails
      BY <2>1 DEF Read, Count
    <3>2. book' = [book EXCEPT ![i] = After(book[i], x, book[i].tactics, fails)]
      <4>1. PICK q : q = [book[i] EXCEPT !.todo = Tail(@), !.made = @ \union {x}, !.counted = fails]
        OBVIOUS
      <4>2. book[i] = [op |-> book[i].op, todo |-> book[i].todo, made |-> book[i].made, died |-> book[i].died,
                       level |-> book[i].level, input |-> book[i].input, turns |-> book[i].turns,
                       tactics |-> book[i].tactics, counted |-> book[i].counted, before |-> book[i].before,
                       version |-> book[i].version, status |-> book[i].status]
        BY <1>1, EntryFields
      <4>3. q = After(book[i], x, book[i].tactics, fails)
        BY <4>1, <4>2 DEF After
      <4>4. book' = [book EXCEPT ![i] = q]
        BY <2>1, <4>1
      <4> QED  BY <4>3, <4>4
    <3> QED  BY <1>2, <3>1, <3>2 DEF Noted
  <2>4. Wrote(i, x, x)
    BY <2>1, <2>2 DEF Wrote, WroteSession, Named, WroteMirror, WroteChecks, WroteModels
  <2> QED  BY <2>4
<1>7. CASE ModelWrite(i)
  <2>1. /\ x \in {"retire", "set"} /\ UNCHANGED <<area, session, sim, learned, fails, losses, clashed>>
        /\ book' = [book EXCEPT ![i].todo = Tail(@), ![i].made = @ \union {x}]
    BY <1>7 DEF ModelWrite, Does, Note
  <2>2. Noted(i, x, x)
    <3>1. Read(i, x) = book[i].tactics /\ Count(i, x) = book[i].counted
      BY <2>1 DEF Read, Count
    <3>2. book' = [book EXCEPT ![i] = After(book[i], x, book[i].tactics, book[i].counted)]
      BY <1>1, <2>1, EntryNoted
    <3> QED  BY <1>2, <3>1, <3>2 DEF Noted
  <2>3. WroteModels(i, x)
    BY <1>7 DEF ModelWrite, Does, WroteModels
  <2>4. Wrote(i, x, x)
    BY <2>1, <2>2, <2>3 DEF Wrote, WroteSession, Named, WroteMirror, WroteChecks
  <2> QED  BY <2>4
<1> QED  BY <1>3, <1>4, <1>5, <1>6, <1>7

\* A request as it is asked for.
LEMMA RequestFields ==
    ASSUME NEW op \in Ops, NEW todo
    PROVE  Request(op, todo) =
              [op |-> op, todo |-> todo, made |-> {}, died |-> FALSE, level |-> "LOW", input |-> NoSim, turns |-> {},
               tactics |-> {}, counted |-> 0, before |-> 0, version |-> "none", status |-> "none"]
  BY DEF Request

\* Fields of it that may be set.
Filled(op, todo, level, input, turns, tactics, before, version, status) ==
    [op |-> op, todo |-> todo, made |-> {}, died |-> FALSE, level |-> level, input |-> input, turns |-> turns,
     tactics |-> tactics, counted |-> 0, before |-> before, version |-> version, status |-> status]

\* A request so filled, whose list is its program, is one that has just been asked for.
LEMMA FilledFresh ==
    ASSUME NEW op \in Ops, NEW level \in Levels, NEW input \in Inputs \union {NoSim}, NEW turns \in SUBSET Nat,
           NEW tactics \in SUBSET Tactics, NEW before \in Nat, NEW version \in Versions \union {"none"},
           NEW status \in {"none", "PASS", "FAIL", "INCONCLUSIVE", "DRAFT", "ACTIVE", "RETIRED"},
           NEW todo, NEW r, r = Filled(op, todo, level, input, turns, tactics, before, version, status),
           WellFormed(r), todo = Program(r)
    PROVE  Fresh(r)
<1>1. r.op = op /\ r.todo = todo /\ r.made = {} /\ r.died = FALSE
  BY DEF Filled
<1>2. todo \in Seq(Statements)
  BY <1>1, ProgramPlaced
<1>3. r \in Reqs
  BY <1>2 DEF Filled, Reqs
<1> QED  BY <1>1, <1>3 DEF Fresh

\* The operations without fields of their own.
LEMMA PlainAsked ==
    ASSUME NEW where \in {"session", "mirror", "checks", "models"},
           NEW op \in {"start", "event", "end", "freeze", "learn", "abandon"}, NEW todo,
           Ask(where, Request(op, todo)),
           \A r : r.op = op => Program(r) = todo,
           op = "start" => \A j \in DOMAIN book : book[j].op # "start",
           op = "end" => session.status \notin {"none", "ENDED"},
           op \in {"learn", "abandon"} => sim.status = "ACTIVE"
    PROVE  \E r : Asked(r)
<1>1. PICK r : r = Request(op, todo)
  OBVIOUS
<1>2. r = Filled(op, todo, "LOW", NoSim, {}, {}, 0, "none", "none")
  BY <1>1 DEF Request, Filled
<1>3. r.op = op /\ r.level = "LOW" /\ r.status = "none" /\ r.before = 0
  BY <1>2 DEF Filled
<1>4. WellFormed(r) /\ todo = Program(r)
  BY <1>3 DEF WellFormed
<1>5. Fresh(r)
  BY <1>2, <1>4, FilledFresh DEF Ops, Levels
<1>6. Found(r)
  BY <1>3 DEF Found, Mirror
<1> QED  BY <1>1, <1>5, <1>6 DEF Asked

\* A risk event.
LEMMA RiskAsked == ASSUME NEW signals, createRiskEvent(signals) PROVE \E r : Asked(r)
<1> DEFINE level == levelForScore(clampScore(MapThenSumSet(LAMBDA s : SIGNAL_WEIGHTS[s], signals)))
<1>1. level \in Levels
  BY LevelsTyped
<1>2. Ask("session", [Request("risk", riskSteps(level)) EXCEPT !.level = level])
  BY DEF createRiskEvent
<1> HIDE DEF level
<1>3. PICK r : r = [Request("risk", riskSteps(level)) EXCEPT !.level = level]
  OBVIOUS
<1>4. r = Filled("risk", riskSteps(level), level, NoSim, {}, {}, 0, "none", "none")
  BY <1>3 DEF Request, Filled
<1>5. r.op = "risk" /\ r.level = level /\ r.status = "none" /\ r.before = 0
  BY <1>4 DEF Filled
<1>6. WellFormed(r) /\ riskSteps(level) = Program(r)
  BY <1>5, RiskSteps DEF WellFormed, Program
<1>7. Fresh(r)
  BY <1>1, <1>4, <1>6, FilledFresh DEF Ops
<1>8. Found(r)
  BY <1>5 DEF Found, Mirror
<1> QED  BY <1>2, <1>3, <1>7, <1>8 DEF Asked

\* A text for ScamMirror: a turn, or an abort when it has a credential in it.
LEMMA InputAsked ==
    ASSUME PipelineTyped, NEW input \in Inputs, recordInput(input)
    PROVE  \E r : Asked(r)
<1>0. sim.status = "ACTIVE"
  BY DEF recordInput, requireActiveSession
<1>1. CASE sanitize(input)
  <2>1. PICK r : r = [Request("input", <<"turn">>) EXCEPT !.input = input, !.turns = sim.turns \union {Len(book) + 1},
                                                     !.tactics = sim.tactics \union input.tactics]
    OBVIOUS
  <2>2. Ask("mirror", r)
    BY <1>1, <2>1 DEF recordInput
  <2>3. r = Filled("input", <<"turn">>, "LOW", input, sim.turns \union {Len(book) + 1}, sim.tactics \union input.tactics,
                   0, "none", "none")
    BY <2>1 DEF Request, Filled
  <2>4. /\ r.op = "input" /\ r.level = "LOW" /\ r.status = "none" /\ r.before = 0 /\ r.input = input
        /\ r.turns = sim.turns \union {Len(book) + 1} /\ r.tactics = sim.tactics \union input.tactics
    BY <2>3 DEF Filled
  <2>5. WellFormed(r) /\ <<"turn">> = Program(r)
    BY <1>1, <2>4 DEF WellFormed, Program, sanitize
  <2>6. sim.turns \union {Len(book) + 1} \in SUBSET Nat /\ sim.tactics \union input.tactics \in SUBSET Tactics
    BY DEF PipelineTyped, Tactics
  <2>7. Fresh(r)
    BY <2>3, <2>5, <2>6, FilledFresh DEF Ops, Levels
  <2>8. Found(r)
    BY <1>0, <2>4 DEF Found
  <2> QED  BY <2>2, <2>7, <2>8 DEF Asked
<1>2. CASE ~sanitize(input)
  <2> DEFINE todo == <<"abort", "abortLog", "pause", "linkAbort">>
  <2>1. PICK r : r = [Request("abort", todo) EXCEPT !.input = input]
    OBVIOUS
  <2>2. Ask("mirror", r)
    BY <1>2, <2>1 DEF recordInput
  <2>3. r = Filled("abort", todo, "LOW", input, {}, {}, 0, "none", "none")
    BY <2>1 DEF Request, Filled
  <2>4. r.op = "abort" /\ r.level = "LOW" /\ r.status = "none" /\ r.before = 0
    BY <2>3 DEF Filled
  <2>5. WellFormed(r) /\ todo = Program(r)
    BY <2>4 DEF WellFormed, Program
  <2>6. Fresh(r)
    <3> HIDE DEF todo
    <3> QED  BY <2>3, <2>5, FilledFresh DEF Ops, Levels
  <2>7. Found(r)
    BY <1>0, <2>4 DEF Found
  <2> QED  BY <2>2, <2>6, <2>7 DEF Asked
<1> QED  BY <1>1, <1>2

\* An authenticity check.
LEMMA CheckAsked ==
    ASSUME NEW media \in BOOLEAN, NEW result \in {"PASS", "FAIL"}, runCheck(media, result)
    PROVE  \E r : Asked(r)
<1>1. PICK todo : todo = IF media THEN <<"verdict", "decision", "checkLog">> ELSE <<"inconclusive", "checkLog">>
  OBVIOUS
<1>2. PICK status : status = IF media THEN result ELSE "INCONCLUSIVE"
  OBVIOUS
<1>3. PICK r : r = [Request("check", todo) EXCEPT !.status = status]
  OBVIOUS
<1>4. Ask("checks", r)
  BY <1>1, <1>2, <1>3 DEF runCheck
<1>5. r = Filled("check", todo, "LOW", NoSim, {}, {}, 0, "none", status)
  BY <1>3 DEF Request, Filled
<1>6. r.op = "check" /\ r.level = "LOW" /\ r.status = status /\ r.before = 0
  BY <1>5 DEF Filled
<1>7. WellFormed(r) /\ todo = Program(r) /\ status \in {"PASS", "FAIL", "INCONCLUSIVE"}
  BY <1>1, <1>2, <1>6 DEF WellFormed, Program
<1>8. Fresh(r)
  BY <1>5, <1>7, FilledFresh DEF Ops, Levels
<1>9. Found(r)
  BY <1>6 DEF Found, Mirror
<1> QED  BY <1>4, <1>8, <1>9 DEF Asked

\* A fusion.
LEMMA FuseAsked == ASSUME PipelineTyped, fuse PROVE \E r : Asked(r)
<1>1. PICK todo : todo = <<"journey", "journeyDecision", "victim", "victimDecision", "move", "moveDecision", "count",
                           "fusion">>
  OBVIOUS
<1>2. PICK r : r = [Request("fuse", todo) EXCEPT !.before = fails]
  OBVIOUS
<1>3. Ask("checks", r)
  BY <1>1, <1>2 DEF fuse
<1>4. r = Filled("fuse", todo, "LOW", NoSim, {}, {}, fails, "none", "none")
  BY <1>2 DEF Request, Filled
<1>5. r.op = "fuse" /\ r.level = "LOW" /\ r.status = "none" /\ r.before = fails
  BY <1>4 DEF Filled
<1>6. WellFormed(r) /\ todo = Program(r)
  BY <1>1, <1>5 DEF WellFormed, Program
<1>7. Fresh(r)
  BY <1>4, <1>6, FilledFresh DEF Ops, Levels, PipelineTyped
<1>8. Found(r)
  BY <1>5 DEF Found, Mirror
<1> QED  BY <1>3, <1>7, <1>8 DEF Asked

\* A change of the status of a model.
LEMMA SetStatusAsked ==
    ASSUME NEW v \in Versions, NEW status \in {"DRAFT", "ACTIVE", "RETIRED"}, setStatus(v, status)
    PROVE  \E r : Asked(r)
<1>1. PICK todo : todo = (IF status = "ACTIVE" THEN <<"retire">> ELSE <<>>) \o <<"set">>
  OBVIOUS
<1>2. todo = IF status = "ACTIVE" THEN <<"retire", "set">> ELSE <<"set">>
  BY <1>1
<1>3. PICK r : r = [Request("setStatus", todo) EXCEPT !.version = v, !.status = status]
  OBVIOUS
<1>4. Ask("models", r)
  BY <1>1, <1>3 DEF setStatus
<1>5. r = Filled("setStatus", todo, "LOW", NoSim, {}, {}, 0, v, status)
  BY <1>3 DEF Request, Filled
<1>6. r.op = "setStatus" /\ r.level = "LOW" /\ r.status = status /\ r.before = 0 /\ r.version = v
  BY <1>5 DEF Filled
<1>7. WellFormed(r) /\ todo = Program(r)
  BY <1>2, <1>6 DEF WellFormed, Program
<1>8. Fresh(r)
  BY <1>5, <1>7, FilledFresh DEF Ops, Levels
<1>9. Found(r)
  BY <1>6 DEF Found, Mirror
<1> QED  BY <1>4, <1>8, <1>9 DEF Asked

\* A version that is registered.
LEMMA RegisterAsked ==
    ASSUME NEW v \in Versions, NEW status \in {"DRAFT", "ACTIVE", "RETIRED"}, register(v, status)
    PROVE  \E r : Registered(r)
<1>1. PICK r : r = [Request("register", <<>>) EXCEPT !.version = v, !.status = status]
  OBVIOUS
<1>2. r = Filled("register", <<>>, "LOW", NoSim, {}, {}, 0, v, status)
  BY <1>1 DEF Request, Filled
<1>3. r.op = "register" /\ r.level = "LOW" /\ r.status = status /\ r.before = 0 /\ r.version = v
  BY <1>2 DEF Filled
<1>4. WellFormed(r) /\ <<>> = Program(r)
  BY <1>3 DEF WellFormed, Program
<1>5. Fresh(r)
  BY <1>2, <1>4, FilledFresh DEF Ops, Levels
<1> QED  BY <1>1, <1>3, <1>5 DEF register, Registered

\* The end of a simulation, taught or abandoned.
LEMMA EndMirrorAsked == ASSUME NEW taught \in BOOLEAN, endMirror(taught) PROVE \E r : Asked(r)
<1>1. sim.status = "ACTIVE"
  BY DEF endMirror, requireActiveSession
<1> DEFINE two == <<"finish", "finishLog">>
           three == <<"finish", "finishLog", "graph">>
           four == <<"finish", "finishLog", "graph", "linkEnd">>
<1>2. two \in Seq(Statements) /\ <<"graph">> \in Seq(Statements) /\ <<"linkEnd">> \in Seq(Statements)
      /\ three \in Seq(Statements) /\ four \in Seq(Statements) /\ <<"finish", "finishLog", "linkEnd">> \in Seq(Statements)
  <2>1. Elements(two, 2) /\ Elements(<<"graph">>, 1) /\ Elements(<<"linkEnd">>, 1)
    BY DEF Elements, Statements, Records
  <2>2. Elements(three, 3) /\ Elements(<<"finish", "finishLog", "linkEnd">>, 3)
    BY DEF Elements, Statements, Records
  <2>3. Elements(four, 4)
    BY DEF Elements, Statements, Records
  <2> QED  BY <2>1, <2>2, <2>3, ElementsSeq
<1>3. two \o <<"graph">> = three
  <2>1. Len(two \o <<"graph">>) = 3 /\ \A i \in 1..3 : (two \o <<"graph">>)[i] = three[i]
    BY <1>2, ConcatProperties
  <2> QED  BY <1>2, <2>1, SeqEqual, ConcatProperties
<1>4. three \o <<"linkEnd">> = four
  <2>1. Len(three \o <<"linkEnd">>) = 4 /\ \A i \in 1..4 : (three \o <<"linkEnd">>)[i] = four[i]
    BY <1>2, ConcatProperties
  <2> QED  BY <1>2, <2>1, SeqEqual, ConcatProperties
<1>5. (two \o <<>>) \o <<"linkEnd">> = <<"finish", "finishLog", "linkEnd">>
  <2>1. two \o <<>> = two
    BY <1>2, ConcatEmptySeq
  <2>2. Len(two \o <<"linkEnd">>) = 3 /\ \A i \in 1..3 : (two \o <<"linkEnd">>)[i] = <<"finish", "finishLog", "linkEnd">>[i]
    BY <1>2, ConcatProperties
  <2>3. two \o <<"linkEnd">> = <<"finish", "finishLog", "linkEnd">>
    BY <1>2, <2>2, SeqEqual, ConcatProperties
  <2> QED  BY <2>1, <2>3
<1>6. CASE taught
  <2>1. Ask("mirror", Request("learn", four))
    BY <1>3, <1>4, <1>6 DEF endMirror
  <2>2. \A r : r.op = "learn" => Program(r) = four
    BY DEF Program
  <2> QED  BY <1>1, <2>1, <2>2, PlainAsked
<1>7. CASE ~taught
  <2>1. Ask("mirror", Request("abandon", <<"finish", "finishLog", "linkEnd">>))
    BY <1>5, <1>7 DEF endMirror
  <2>2. \A r : r.op = "abandon" => Program(r) = <<"finish", "finishLog", "linkEnd">>
    BY DEF Program
  <2> QED  BY <1>1, <2>1, <2>2, PlainAsked
<1> QED  BY <1>6, <1>7

\* The requests of the device session.
LEMMA SessionAsked == ASSUME start \/ recordEvent \/ end \/ trigger PROVE \E r : Asked(r)
<1>1. CASE start
  <2>1. \A r : r.op = "start" => Program(r) = <<"session", "startLog">>
    BY DEF Program
  <2> QED  BY <1>1, <2>1, PlainAsked DEF start
<1>2. CASE recordEvent
  <2>1. \A r : r.op = "event" => Program(r) = <<"sessionEvent">>
    BY DEF Program
  <2> QED  BY <1>2, <2>1, PlainAsked DEF recordEvent
<1>3. CASE end
  <2>1. \A r : r.op = "end" => Program(r) = <<"end", "endLog">>
    BY DEF Program
  <2> QED  BY <1>3, <2>1, PlainAsked DEF end
<1>4. CASE trigger
  <2>1. \A r : r.op = "freeze" => Program(r) = freezeSteps
    BY DEF Program, freezeSteps
  <2> QED  BY <1>4, <2>1, PlainAsked DEF trigger
<1> QED  BY <1>1, <1>2, <1>3, <1>4

\* Every step asks for a request, registers a version, starts the simulation, writes,
\* or loses a request.
LEMMA PipelineKinds ==
    ASSUME PipelineTyped, PipelineNext
    PROVE  \/ \E r : Asked(r)
           \/ \E r : Registered(r)
           \/ startMirror
           \/ \E i \in DOMAIN book : Perish(i) \/ \E x, name : Wrote(i, x, name)
<1>1. CASE \E seen \in Telemetry : ingestTelemetry(seen)
  BY <1>1, RiskAsked DEF ingestTelemetry
<1>2. CASE \E text \in Phrases : analyze(text)
  BY <1>2, RiskAsked DEF analyze
<1> QED  BY <1>1, <1>2, SessionAsked, FuseAsked, InputAsked, EndMirrorAsked, CheckAsked, SetStatusAsked, RegisterAsked, Writes
         DEF PipelineNext

-----------------------------------------------------------------------------
(* The inductive invariant. *)

BookInv ==
    /\ \A i \in DOMAIN book : Follows(book[i])
    /\ \A i, j \in DOMAIN book : i < j /\ Running(i) => book[i].op \in clashed \/ book[j].op = "register"

\* The session starts once, before it is flagged or ended; an end that nothing overlaps
\* finds it open, and between two such ends a flag took it out of ENDED.
SessionInv ==
    /\ \A i, j \in DOMAIN book : book[i].op = "start" /\ book[j].op = "start" => i = j
    /\ \A i \in DOMAIN book : book[i].op = "start" /\ "session" \notin book[i].made => session.status = "none"
    /\ session.status = "none" \/ \E i \in DOMAIN book : book[i].op = "start"
    /\ session.status = "none" => Made("flag") = {} /\ \A i \in DOMAIN book : book[i].op # "end"
    /\ Made("flag") # {} => session.status \in {"FLAGGED", "ENDED"}
    /\ session.status = "ENDED" => session.endedAt
    /\ Made("end") # {} => session.endedAt
    /\ "end" \notin clashed =>
          /\ \A i \in DOMAIN book : book[i].op = "end" /\ Running(i) /\ i \notin Made("end") => session.status # "ENDED"
          /\ Cardinality(Made("end")) <= Cardinality(Made("flag")) + (IF session.status = "ENDED" THEN 1 ELSE 0)

\* A turn holds the turns that were made before it; while nothing overlaps, a request
\* under way has read what is still the row.
MirrorInv ==
    /\ sim.status = "none" => \A i \in DOMAIN book : book[i].op \notin Mirror
    /\ \A i \in DOMAIN book : book[i].op = "input" => i \in book[i].turns /\ book[i].turns \ {i} \subseteq Made("turn")
    /\ sim.turns \subseteq Made("turn")
    /\ sim.status = "ACTIVE" => Made("abort") = {} /\ Made("finish") = {}
    /\ Made("linkAbort") # {} => sim.pause
    /\ clashed = {} =>
          /\ Made("turn") \subseteq sim.turns /\ learned \subseteq sim.tactics
          /\ \A i, j \in Made("abort") \union Made("finish") : i = j
          /\ \A i \in DOMAIN book : Running(i) =>
                /\ book[i].op = "input" => /\ book[i].turns = sim.turns \union {i}
                                           /\ book[i].tactics = sim.tactics \union book[i].input.tactics
                /\ book[i].op \in {"abort", "learn", "abandon"} /\ Place(book[i]) = 0 => sim.status = "ACTIVE"
                /\ book[i].op = "learn" /\ Place(book[i]) # 0 => book[i].tactics \subseteq sim.tactics

Failed == {i \in Made("verdict") : book[i].status = "FAIL"}
ChecksInv ==
    /\ fails = Cardinality(Failed)
    /\ \A i \in DOMAIN book : book[i].before <= fails
    /\ \A i \in Made("count") : book[i].before <= book[i].counted /\ book[i].counted <= fails

\* An activation that nothing overlaps has retired the others before it sets its own.
ModelsInv ==
    "setStatus" \notin clashed /\ (\A i \in DOMAIN book : book[i].op = "register" => book[i].status # "ACTIVE") =>
       /\ \A v, w \in Versions : models[v] = "ACTIVE" /\ models[w] = "ACTIVE" => v = w
       /\ \A i \in DOMAIN book :
             book[i].op = "setStatus" /\ Running(i) /\ book[i].status = "ACTIVE" /\ Place(book[i]) # 0 =>
                \A w \in Versions : models[w] = "ACTIVE" => w = book[i].version

PipelineInv == PipelineTyped /\ BookInv /\ SessionInv /\ MirrorInv /\ ChecksInv /\ ModelsInv

-----------------------------------------------------------------------------
(* What a step does to the book. *)

\* The types of a program, a list and a place.
LEMMA Sizes ==
    ASSUME NEW r \in Reqs
    PROVE  /\ Program(r) \in Seq(Statements) /\ Size(r) \in Nat
           /\ r.todo \in Seq(Statements) /\ Left(r) \in Nat
           /\ Place(r) \in Int /\ Left(r) = Size(r) - Place(r)
<1>1. r.op \in Ops /\ r.todo \in Seq(Statements)
  BY DEF Reqs
<1>2. Program(r) \in Seq(Statements)
  BY <1>1, ProgramPlaced
<1>3. Size(r) \in Nat /\ Left(r) \in Nat
  BY <1>1, <1>2, LenProperties DEF Size, Left
<1> QED  BY <1>1, <1>2, <1>3 DEF Place

\* A place of a program.
LEMMA Places == ASSUME NEW r \in Reqs, NEW k \in 1..Size(r) PROVE Placed(r, k)
  BY ProgramPlaced DEF Reqs, Size

\* The statement a request is about to make.
LEMMA HeadFacts ==
    ASSUME NEW r \in Reqs, Follows(r), r.todo # <<>>, NEW x, x = Head(r.todo)
    PROVE  /\ Place(r) + 1 \in 1..Size(r) /\ x = Program(r)[Place(r) + 1] /\ Placed(r, Place(r) + 1)
           /\ x \in Statements /\ x \notin r.made /\ x # "noFlag"
           /\ Tail(r.todo) \in Seq(Statements) /\ Len(Tail(r.todo)) = Left(r) - 1
           /\ \A k \in 1..(Left(r) - 1) : Tail(r.todo)[k] = r.todo[k + 1]
<1>1. r.todo \in Seq(Statements) /\ r.op \in Ops
  BY DEF Reqs
<1>2. /\ Tail(r.todo) \in Seq(Statements) /\ Len(Tail(r.todo)) = Left(r) - 1
      /\ \A k \in 1..(Left(r) - 1) : Tail(r.todo)[k] = r.todo[k + 1]
  BY <1>1, HeadTailProperties DEF Left
<1>3. Left(r) \in Nat /\ Left(r) # 0 /\ x = r.todo[1]
  BY <1>1, EmptySeq, LenProperties DEF Left
<1>4. /\ Program(r) \in Seq(Statements) /\ Size(r) \in Nat
      /\ Place(r) \in Int /\ Left(r) = Size(r) - Place(r)
  BY Sizes
<1>5. Place(r) + 1 \in 1..Size(r) /\ Place(r) \in 0..Size(r)
  BY <1>3, <1>4 DEF Follows
<1>6. x = Program(r)[Place(r) + 1]
  <2>1. 1 \in 1..Left(r)
    BY <1>3
  <2> QED  BY <1>3, <2>1 DEF Follows
<1>7. Placed(r, Place(r) + 1)
  BY <1>5, Places
<1>8. x \in Statements /\ \A l \in 1..Size(r) : Program(r)[l] = x => l = Place(r) + 1
  BY <1>6, <1>7 DEF Placed, Size
<1>9. x # "noFlag"
  BY <1>8 DEF Statements, Records
<1>10. x \notin r.made
  <2> SUFFICES ASSUME x \in r.made PROVE FALSE
    OBVIOUS
  <2>1. PICK k \in 1..Place(r) : x = Program(r)[k]
    BY <1>9 DEF Follows
  <2>2. k \in 1..Size(r) /\ k # Place(r) + 1
    BY <1>4, <1>5
  <2> QED  BY <1>8, <2>1, <2>2
<1> QED  BY <1>2, <1>5, <1>6, <1>7, <1>8, <1>9, <1>10

\* A statement that was made, and those it came after.
LEMMA MadeFacts ==
    ASSUME NEW r \in Reqs, Follows(r), NEW x \in r.made, x # "noFlag"
    PROVE  \E k \in 1..Place(r) : k \in 1..Size(r) /\ x = Program(r)[k] /\ Placed(r, k)
<1>1. r.op \in Ops
  BY DEF Reqs
<1>2. PICK k \in 1..Place(r) : x = Program(r)[k]
  BY DEF Follows
<1>3. Size(r) \in Nat /\ Place(r) \in 0..Size(r)
  BY Sizes DEF Follows
<1>4. k \in 1..Size(r)
  BY <1>3
<1> QED  BY <1>2, <1>4, Places

\* A request is as far as its program says when it is asked for.
LEMMA FreshFollows == ASSUME NEW r, Fresh(r) PROVE Follows(r) /\ Place(r) = 0
<1>1. Program(r) \in Seq(Statements) /\ Size(r) \in Nat /\ Size(r) = Left(r)
  BY Sizes DEF Fresh, Size, Left
<1>2. Place(r) = 0
  BY <1>1 DEF Place
<1> QED  BY <1>1, <1>2 DEF Follows, Fresh

\* And one statement further when it has made it.
LEMMA AfterFollows ==
    ASSUME NEW r \in Reqs, Follows(r), r.todo # <<>>, NEW x, x = Head(r.todo), NEW name, NEW t \in SUBSET Tactics,
           NEW c \in Nat, name = x \/ (x = "flag" /\ name = "noFlag"), NEW q, q = After(r, name, t, c)
    PROVE  q \in Reqs /\ Follows(q) /\ Place(q) = Place(r) + 1 /\ Program(q) = Program(r)
<1>1. /\ q.op = r.op /\ q.level = r.level /\ q.status = r.status /\ q.todo = Tail(r.todo) /\ q.made = r.made \union {name}
      /\ q.version = r.version /\ q.input = r.input
  BY DEF After
<1>2. Program(q) = Program(r)
  BY <1>1 DEF Program
<1>3. /\ Program(r) \in Seq(Statements) /\ Size(r) \in Nat /\ r.todo \in Seq(Statements) /\ Left(r) \in Nat
      /\ Place(r) \in 0..Size(r) /\ Left(r) = Size(r) - Place(r)
  BY Sizes DEF Follows
<1>4. /\ Place(r) + 1 \in 1..Size(r) /\ x = Program(r)[Place(r) + 1] /\ x \in Statements
      /\ Tail(r.todo) \in Seq(Statements) /\ Len(Tail(r.todo)) = Left(r) - 1
      /\ \A k \in 1..(Left(r) - 1) : Tail(r.todo)[k] = r.todo[k + 1]
  BY HeadFacts
<1>5. Place(q) = Place(r) + 1 /\ Left(q) = Left(r) - 1
  <2>1. Size(q) = Size(r) /\ Left(q) = Left(r) - 1
    BY <1>1, <1>2, <1>4 DEF Size, Left
  <2> QED  BY <1>3, <2>1 DEF Place
<1>6. q \in Reqs
  BY <1>4 DEF After, Reqs
<1>7. WellFormed(q)
  BY <1>1 DEF Follows, WellFormed
<1>8. Place(q) \in 0..Size(q)
  BY <1>3, <1>4, <1>5, <1>2 DEF Size
<1>9. ASSUME NEW k \in 1..Left(q) PROVE q.todo[k] = Program(q)[Place(q) + k]
  <2>1. k + 1 \in 1..Left(r) /\ q.todo[k] = r.todo[k + 1]
    BY <1>1, <1>3, <1>4, <1>5
  <2>2. r.todo[k + 1] = Program(r)[Place(r) + (k + 1)]
    BY <2>1 DEF Follows
  <2>3. Place(r) + (k + 1) = Place(q) + k
    BY <1>3, <1>5
  <2> QED  BY <1>2, <2>1, <2>2, <2>3
<1>10. ASSUME NEW y \in q.made PROVE y = "noFlag" \/ \E k \in 1..Place(q) : y = Program(q)[k]
  <2>1. CASE y \in r.made
    <3>1. y = "noFlag" \/ \E k \in 1..Place(r) : y = Program(r)[k]
      BY <2>1 DEF Follows
    <3>2. 1..Place(r) \subseteq 1..Place(q)
      BY <1>3, <1>5
    <3> QED  BY <1>2, <3>1, <3>2
  <2>2. CASE y = x
    <3>1. Place(r) + 1 \in 1..Place(q)
      BY <1>3, <1>5
    <3> QED  BY <1>2, <1>4, <2>2, <3>1
  <2> QED  BY <1>1, <2>1, <2>2
<1>11. ASSUME NEW k \in 1..Place(q) PROVE Program(q)[k] \in q.made \/ Program(q)[k] = "flag"
  <2>1. CASE k \in 1..Place(r)
    BY <1>1, <1>2, <2>1 DEF Follows
  <2>2. CASE k = Place(r) + 1
    BY <1>1, <1>2, <1>4, <2>2
  <2> QED  BY <1>3, <1>5, <2>1, <2>2
<1> QED  BY <1>2, <1>5, <1>6, <1>7, <1>8, <1>9, <1>10, <1>11 DEF Follows

\* A write moves one request one statement on, and leaves the others alone.
LEMMA WroteBook ==
    ASSUME PipelineTyped, BookInv, NEW i \in DOMAIN book, NEW x, NEW name, Wrote(i, x, name)
    PROVE  /\ book' \in Seq(Reqs) /\ DOMAIN book' = DOMAIN book /\ Len(book') = Len(book)
           /\ \A j \in DOMAIN book : j # i => book'[j] = book[j]
           /\ book'[i] = After(book[i], name, Read(i, x), Count(i, x))
           /\ Follows(book'[i]) /\ Place(book'[i]) = Place(book[i]) + 1
           /\ book[i] \in Reqs /\ Follows(book[i]) /\ x = Program(book[i])[Place(book[i]) + 1]
           /\ Place(book[i]) + 1 \in 1..Size(book[i]) /\ Placed(book[i], Place(book[i]) + 1)
           /\ x \in Statements /\ x \notin book[i].made
<1>1. /\ Running(i) /\ x = Head(book[i].todo)
      /\ book' = [book EXCEPT ![i] = After(book[i], name, Read(i, x), Count(i, x))]
  BY DEF Wrote, Noted
<1>2. book \in Seq(Reqs) /\ book[i] \in Reqs /\ Follows(book[i]) /\ book[i].todo # <<>> /\ fails \in Nat
      /\ sim.tactics \in SUBSET Tactics
  BY <1>1 DEF PipelineTyped, BookInv, Running
<1>3. Read(i, x) \in SUBSET Tactics /\ Count(i, x) \in Nat
  BY <1>2 DEF Read, Count, Reqs
<1>4. name = x \/ (x = "flag" /\ name = "noFlag")
  BY DEF Wrote, WroteSession, Named
<1>5. PICK q : q = After(book[i], name, Read(i, x), Count(i, x))
  OBVIOUS
<1>6. q \in Reqs /\ Follows(q) /\ Place(q) = Place(book[i]) + 1
  BY <1>1, <1>2, <1>3, <1>4, <1>5, AfterFollows
<1>7. book' = [book EXCEPT ![i] = q]
  BY <1>1, <1>5
<1>8. book' \in Seq(Reqs) /\ Len(book') = Len(book) /\ DOMAIN book' = DOMAIN book /\ book'[i] = q
      /\ \A j \in DOMAIN book : j # i => book'[j] = book[j]
  BY <1>2, <1>6, <1>7, ExceptSeq, LenProperties
<1>9. /\ x = Program(book[i])[Place(book[i]) + 1] /\ Place(book[i]) + 1 \in 1..Size(book[i])
      /\ Placed(book[i], Place(book[i]) + 1) /\ x \in Statements /\ x \notin book[i].made
  BY <1>1, <1>2, HeadFacts
<1> QED  BY <1>2, <1>5, <1>6, <1>8, <1>9

\* What it leaves of every request, and what was made after it.
LEMMA WroteFields ==
    ASSUME PipelineTyped, BookInv, NEW i \in DOMAIN book, NEW x, NEW name, Wrote(i, x, name)
    PROVE  /\ \A j \in DOMAIN book :
                 /\ book'[j].op = book[j].op /\ book'[j].level = book[j].level /\ book'[j].input = book[j].input
                 /\ book'[j].turns = book[j].turns /\ book'[j].before = book[j].before /\ book'[j].died = book[j].died
                 /\ book'[j].version = book[j].version /\ book'[j].status = book[j].status
                 /\ j # i => book'[j] = book[j]
           /\ book'[i].tactics = Read(i, x) /\ book'[i].counted = Count(i, x)
           /\ book'[i].made = book[i].made \union {name} /\ book'[i].todo = Tail(book[i].todo)
           /\ Running(i) /\ \A j \in DOMAIN book : Running(j)' => Running(j)
           /\ \A n : Made(n)' = IF n = name THEN Made(n) \union {i} ELSE Made(n)
           /\ i \notin Made(x)
<1>1. /\ book' \in Seq(Reqs) /\ DOMAIN book' = DOMAIN book
      /\ \A j \in DOMAIN book : j # i => book'[j] = book[j]
      /\ book'[i] = After(book[i], name, Read(i, x), Count(i, x)) /\ x \notin book[i].made
  BY WroteBook
<1>2. /\ book'[i].op = book[i].op /\ book'[i].level = book[i].level /\ book'[i].input = book[i].input
      /\ book'[i].turns = book[i].turns /\ book'[i].before = book[i].before /\ book'[i].died = book[i].died
      /\ book'[i].version = book[i].version /\ book'[i].status = book[i].status
      /\ book'[i].tactics = Read(i, x) /\ book'[i].counted = Count(i, x)
      /\ book'[i].made = book[i].made \union {name} /\ book'[i].todo = Tail(book[i].todo)
  BY <1>1 DEF After
<1>3. Running(i)
  BY DEF Wrote, Noted
<1>4. ASSUME NEW j \in DOMAIN book, Running(j)' PROVE Running(j)
  <2>1. CASE j = i
    BY <1>3, <2>1
  <2>2. CASE j # i
    BY <1>1, <1>4, <2>2 DEF Running
  <2> QED  BY <2>1, <2>2
<1>5. ASSUME NEW n PROVE Made(n)' = IF n = name THEN Made(n) \union {i} ELSE Made(n)
  BY <1>1, <1>2 DEF Made
<1>6. i \notin Made(x)
  BY <1>1 DEF Made
<1> QED  BY <1>1, <1>2, <1>3, <1>4, <1>5, <1>6

\* A request that is asked for comes last, and has made nothing.
LEMMA AddedBook ==
    ASSUME PipelineTyped, NEW r, Fresh(r), book' = Append(book, r)
    PROVE  /\ book' \in Seq(Reqs) /\ Len(book) \in Nat /\ Len(book') = Len(book) + 1
           /\ DOMAIN book' = DOMAIN book \union {Len(book) + 1} /\ Len(book) + 1 \notin DOMAIN book
           /\ \A j \in DOMAIN book : j < Len(book) + 1
           /\ book'[Len(book) + 1] = r /\ \A j \in DOMAIN book : book'[j] = book[j]
           /\ \A j \in DOMAIN book : Running(j)' = Running(j)
           /\ \A n : Made(n)' = Made(n)
           /\ Follows(r) /\ Place(r) = 0 /\ r \in Reqs
<1>1. book \in Seq(Reqs) /\ r \in Reqs /\ r.made = {}
  BY DEF PipelineTyped, Fresh
<1>2. /\ book' \in Seq(Reqs) /\ Len(book) \in Nat /\ Len(book') = Len(book) + 1 /\ book'[Len(book) + 1] = r
      /\ DOMAIN book = 1..Len(book) /\ DOMAIN book' = 1..(Len(book) + 1)
      /\ \A j \in 1..Len(book) : book'[j] = book[j]
  BY <1>1, AppendProperties, LenProperties
<1>3. DOMAIN book' = DOMAIN book \union {Len(book) + 1} /\ Len(book) + 1 \notin DOMAIN book
      /\ \A j \in DOMAIN book : j < Len(book) + 1
  BY <1>2
<1>4. ASSUME NEW n PROVE Made(n)' = Made(n)
  BY <1>1, <1>2, <1>3 DEF Made
<1>5. \A j \in DOMAIN book : Running(j)' = Running(j)
  BY <1>2 DEF Running
<1> QED  BY <1>1, <1>2, <1>3, <1>4, <1>5, FreshFollows

\* A request that is lost has made what it made.
LEMMA PerishedBook ==
    ASSUME PipelineTyped, NEW i \in DOMAIN book, Perish(i)
    PROVE  /\ book' \in Seq(Reqs) /\ DOMAIN book' = DOMAIN book /\ Len(book') = Len(book)
           /\ \A j \in DOMAIN book : 
                 /\ book'[j].op = book[j].op /\ book'[j].level = book[j].level /\ book'[j].input = book[j].input
                 /\ book'[j].turns = book[j].turns /\ book'[j].before = book[j].before
                 /\ book'[j].tactics = book[j].tactics /\ book'[j].counted = book[j].counted
                 /\ book'[j].made = book[j].made /\ book'[j].todo = book[j].todo
                 /\ book'[j].version = book[j].version /\ book'[j].status = book[j].status
                 /\ Place(book'[j]) = Place(book[j])
           /\ \A j \in DOMAIN book : Running(j)' => Running(j)
           /\ \A n : Made(n)' = Made(n)
<1>1. book \in Seq(Reqs) /\ book[i] \in Reqs /\ ~book[i].died
  BY DEF PipelineTyped, Perish, Running
<1>2. book' = [book EXCEPT ![i].died = TRUE]
  BY DEF Perish
<1>3. PICK q : q = [book[i] EXCEPT !.died = TRUE]
  OBVIOUS
<1>4. book' = [book EXCEPT ![i] = q]
  BY <1>2, <1>3
<1>5. /\ q \in Reqs /\ q.op = book[i].op /\ q.level = book[i].level /\ q.input = book[i].input /\ q.turns = book[i].turns
      /\ q.before = book[i].before /\ q.tactics = book[i].tactics /\ q.counted = book[i].counted
      /\ q.made = book[i].made /\ q.todo = book[i].todo /\ q.version = book[i].version /\ q.status = book[i].status
  BY <1>1, <1>3 DEF Reqs
<1>6. Place(q) = Place(book[i])
  BY <1>5 DEF Place, Size, Left, Program
<1>7. book' \in Seq(Reqs) /\ Len(book') = Len(book) /\ DOMAIN book' = DOMAIN book /\ book'[i] = q
      /\ \A j \in DOMAIN book : j # i => book'[j] = book[j]
  BY <1>1, <1>4, <1>5, ExceptSeq, LenProperties
<1>8. ASSUME NEW n PROVE Made(n)' = Made(n)
  BY <1>5, <1>7 DEF Made
<1>9. ASSUME NEW j \in DOMAIN book, Running(j)' PROVE Running(j)
  <2>1. CASE j = i
    BY <2>1 DEF Perish
  <2>2. CASE j # i
    BY <1>7, <1>9, <2>2 DEF Running
  <2> QED  BY <2>1, <2>2
<1> QED  BY <1>5, <1>6, <1>7, <1>8, <1>9

\* Statements only run once, so the requests that made one are finitely many.
LEMMA MadeFinite == ASSUME PipelineTyped, NEW n PROVE IsFiniteSet(Made(n)) /\ Cardinality(Made(n)) \in Nat
<1>1. book \in Seq(Reqs) /\ DOMAIN book = 1..Len(book) /\ Len(book) \in Nat
  BY LenProperties DEF PipelineTyped
<1>2. IsFiniteSet(DOMAIN book)
  BY <1>1, FS_Interval
<1> QED  BY <1>2, FS_Subset, FS_CardinalityType DEF Made

\* A request that joins the book, asked for or registering a version.
Added(r) ==
    /\ Fresh(r) /\ book' = Append(book, r) /\ Len(book) < BookBound
    /\ UNCHANGED <<session, sim, learned, fails, losses>>
    /\ r.op # "register" => Found(r) /\ models' = models
    /\ r.op = "register" => r.before = 0 /\ models' = [models EXCEPT ![r.version] = r.status]
    /\ clashed \subseteq clashed'
    /\ \A j \in DOMAIN book : Running(j) => book[j].op \in clashed' \/ r.op = "register"

\* Either way it joins the book.
LEMMA AskedAdded == ASSUME NEW r, Asked(r) \/ Registered(r) PROVE Added(r)
<1>1. CASE Asked(r)
  BY <1>1 DEF Asked, Ask, Added, Found
<1>2. CASE Registered(r)
  BY <1>2 DEF Registered, Added
<1> QED  BY <1>1, <1>2

\* What a step of the pipeline is, whatever part of it is looked at.
PipelineStep ==
    \/ \E r : Added(r)
    \/ startMirror
    \/ \E i \in DOMAIN book : Perish(i)
    \/ \E i \in DOMAIN book : \E x, name : Wrote(i, x, name)

\* Every step of the pipeline is one of these.
LEMMA PipelineSteps == PipelineTyped /\ PipelineNext => PipelineStep
  BY PipelineKinds, AskedAdded DEF PipelineStep

\* Types.
LEMMA TypedStep == ASSUME PipelineTyped, BookInv, PipelineStep PROVE PipelineTyped'
<1>1. ASSUME NEW r, Added(r) PROVE PipelineTyped'
  <2>1. book' \in Seq(Reqs) /\ Len(book) \in Nat /\ Len(book') = Len(book) + 1 /\ Len(book) < BookBound
    BY <1>1, AddedBook DEF Added
  <2>2. Len(book') <= BookBound
    BY <2>1, PipelineAssumption
  <2>3. models' = models \/ models' = [models EXCEPT ![r.version] = r.status]
    BY <1>1 DEF Added
  <2>4. models' = [v \in Versions |-> models'[v]]
    BY <2>3 DEF PipelineTyped
  <2> QED  BY <1>1, <2>1, <2>2, <2>4 DEF Added, PipelineTyped
<1>2. ASSUME startMirror PROVE PipelineTyped'
  <2>1. UNCHANGED <<session, learned, fails, models, book, losses>>
        /\ sim' = [status |-> "ACTIVE", turns |-> {}, tactics |-> {}, pause |-> FALSE, evidence |-> "none"]
    BY <1>2 DEF startMirror, NoSim
  <2> QED  BY <2>1 DEF PipelineTyped
<1>3. ASSUME NEW i \in DOMAIN book, Perish(i) PROVE PipelineTyped'
  <2>1. book' \in Seq(Reqs) /\ Len(book') = Len(book)
    BY <1>3, PerishedBook
  <2>2. losses' = losses + 1 /\ losses < LossesBound /\ UNCHANGED <<session, sim, learned, fails, models>>
    BY <1>3 DEF Perish
  <2>3. losses' \in 0..LossesBound
    BY <2>2, PipelineAssumption DEF PipelineTyped
  <2> QED  BY <2>1, <2>2, <2>3 DEF PipelineTyped
<1>4. ASSUME NEW i \in DOMAIN book, NEW x, NEW name, Wrote(i, x, name) PROVE PipelineTyped'
  <2>1. book' \in Seq(Reqs) /\ Len(book') = Len(book) /\ book[i] \in Reqs
    BY <1>4, WroteBook
  <2>2. WroteSession(x, name) /\ WroteMirror(i, x) /\ WroteChecks(i, x) /\ WroteModels(i, x) /\ losses' = losses
    BY <1>4 DEF Wrote
  <2>3. session' \in [status: {"none", "ACTIVE", "FLAGGED", "ENDED"}, endedAt: BOOLEAN]
    BY <2>2 DEF WroteSession, PipelineTyped
  <2>4. book[i].turns \in SUBSET Nat /\ book[i].tactics \in SUBSET Tactics /\ book[i].op \in Ops
    BY <2>1 DEF Reqs
  <2>5. sim' \in [status: {"none", "ACTIVE", "ABORTED_REAL_CREDS", "ENDED_LEARNED", "ENDED_ABANDONED"},
                  turns: SUBSET Nat, tactics: SUBSET Tactics, pause: BOOLEAN, evidence: {"none"} \union Ops]
    BY <2>2, <2>4 DEF WroteMirror, PipelineTyped
  <2>6. learned' \subseteq Tactics
    BY <2>2, <2>4 DEF WroteMirror, PipelineTyped
  <2>7. fails' \in Nat
    BY <2>2 DEF WroteChecks, PipelineTyped
  <2>8. models' = [v \in Versions |-> models'[v]]
    BY <2>2 DEF WroteModels, PipelineTyped
  <2> QED  BY <2>1, <2>2, <2>3, <2>5, <2>6, <2>7, <2>8 DEF PipelineTyped
<1> QED  BY <1>1, <1>2, <1>3, <1>4 DEF PipelineStep

\* The book.
LEMMA BookStep == ASSUME PipelineTyped, BookInv, PipelineStep PROVE BookInv'
<1>1. ASSUME NEW r, Added(r) PROVE BookInv'
  <2> DEFINE n == Len(book) + 1
  <2>1. /\ DOMAIN book' = DOMAIN book \union {n} /\ n \notin DOMAIN book /\ \A j \in DOMAIN book : j < n
        /\ book'[n] = r /\ \A j \in DOMAIN book : book'[j] = book[j]
        /\ \A j \in DOMAIN book : Running(j)' = Running(j)
        /\ Follows(r)
    BY <1>1, AddedBook DEF Added
  <2>2. clashed \subseteq clashed' /\ \A j \in DOMAIN book : Running(j) => book[j].op \in clashed' \/ r.op = "register"
    BY <1>1 DEF Added
  <2>3. n \in Nat /\ \A j \in DOMAIN book : j \in Nat
    BY LenProperties DEF PipelineTyped
  <2> HIDE DEF n
  <2>4. ASSUME NEW j \in DOMAIN book' PROVE Follows(book'[j])
    BY <2>1 DEF BookInv
  <2>5. ASSUME NEW j \in DOMAIN book', NEW k \in DOMAIN book', j < k, Running(j)'
        PROVE  book'[j].op \in clashed' \/ book'[k].op = "register"
    <3>1. j \in DOMAIN book
      BY <2>1, <2>3, <2>5
    <3>2. Running(j) /\ book'[j] = book[j]
      BY <2>1, <2>5, <3>1
    <3>3. CASE k = n
      BY <2>1, <2>2, <3>1, <3>2, <3>3
    <3>4. CASE k \in DOMAIN book
      BY <2>1, <2>2, <2>5, <3>1, <3>2, <3>4 DEF BookInv
    <3> QED  BY <2>1, <3>3, <3>4
  <2> QED  BY <2>4, <2>5 DEF BookInv, Running
<1>2. ASSUME startMirror PROVE BookInv'
  BY <1>2 DEF startMirror, BookInv, Running
<1>3. ASSUME NEW i \in DOMAIN book, Perish(i) PROVE BookInv'
  <2>1. /\ DOMAIN book' = DOMAIN book /\ clashed' = clashed
        /\ \A j \in DOMAIN book :
              /\ book'[j].op = book[j].op /\ book'[j].level = book[j].level /\ book'[j].input = book[j].input
              /\ book'[j].made = book[j].made /\ book'[j].todo = book[j].todo
              /\ book'[j].version = book[j].version /\ book'[j].status = book[j].status
        /\ \A j \in DOMAIN book : Running(j)' => Running(j)
    BY <1>3, PerishedBook DEF Perish
  <2>2. ASSUME NEW j \in DOMAIN book' PROVE Follows(book'[j])
    <3>1. Follows(book[j]) /\ j \in DOMAIN book
      BY <2>1 DEF BookInv
    <3>2. Program(book'[j]) = Program(book[j]) /\ WellFormed(book'[j])
      BY <2>1, <3>1 DEF Program, WellFormed, Follows
    <3>3. Size(book'[j]) = Size(book[j]) /\ Left(book'[j]) = Left(book[j]) /\ Place(book'[j]) = Place(book[j])
      BY <2>1, <3>1, <3>2 DEF Size, Left, Place
    <3> QED  BY <2>1, <3>1, <3>2, <3>3 DEF Follows
  <2> QED  BY <2>1, <2>2 DEF BookInv, Running
<1>4. ASSUME NEW i \in DOMAIN book, NEW x, NEW name, Wrote(i, x, name) PROVE BookInv'
  <2>1. /\ DOMAIN book' = DOMAIN book /\ clashed' = clashed /\ Follows(book'[i])
        /\ \A j \in DOMAIN book : j # i => book'[j] = book[j]
    BY <1>4, WroteBook DEF Wrote
  <2>2. /\ \A j \in DOMAIN book : book'[j].op = book[j].op
        /\ \A j \in DOMAIN book : Running(j)' => Running(j)
    BY <1>4, WroteFields
  <2>3. \A j \in DOMAIN book' : Follows(book'[j])
    BY <2>1 DEF BookInv
  <2> QED  BY <2>1, <2>2, <2>3 DEF BookInv, Running
<1> QED  BY <1>1, <1>2, <1>3, <1>4 DEF PipelineStep

\* Two requests under way overlapped, unless the later one only registered.
LEMMA Overlapped ==
    ASSUME PipelineTyped, BookInv, NEW i \in DOMAIN book, NEW j \in DOMAIN book, i # j, Running(i), Running(j)
    PROVE  /\ clashed # {}
           /\ \A op : book[i].op = op /\ book[j].op = op => op \in clashed
<1>1. book \in Seq(Reqs) /\ i \in Nat /\ j \in Nat
  BY LenProperties DEF PipelineTyped
<1>2. ASSUME NEW k \in DOMAIN book, Running(k) PROVE book[k].op # "register"
  <2> SUFFICES ASSUME book[k].op = "register" PROVE FALSE
    OBVIOUS
  <2>1. Program(book[k]) = <<>> /\ book[k] \in Reqs /\ Follows(book[k]) /\ book[k].todo # <<>>
    BY <1>1, <1>2 DEF Program, BookInv, Running
  <2>2. Place(book[k]) + 1 \in 1..Size(book[k]) /\ Size(book[k]) = 0 /\ Place(book[k]) \in 0..0
    BY <2>1, HeadFacts DEF Size, Follows
  <2> QED  BY <2>2
<1>3. CASE i < j
  BY <1>2, <1>3 DEF BookInv
<1>4. CASE j < i
  BY <1>2, <1>4 DEF BookInv
<1> QED  BY <1>1, <1>3, <1>4

\* Which request a write of the session, the mirror, the checks or the models is of.
LEMMA WroteOps ==
    ASSUME PipelineTyped, BookInv, NEW i \in DOMAIN book, NEW x, NEW name, Wrote(i, x, name)
    PROVE  /\ x = "session" => book[i].op = "start"
           /\ x = "end" <=> book[i].op = "end" /\ Place(book[i]) = 0
           /\ x = "turn" <=> book[i].op = "input"
           /\ x = "abort" <=> book[i].op = "abort" /\ Place(book[i]) = 0
           /\ x = "linkAbort" => book[i].op = "abort"
           /\ x = "finish" <=> book[i].op \in {"learn", "abandon"} /\ Place(book[i]) = 0
           /\ x = "graph" => book[i].op = "learn" /\ Place(book[i]) = 2
           /\ x = "verdict" => book[i].op = "check"
           /\ x = "count" => book[i].op = "fuse"
           /\ x = "retire" <=> book[i].op = "setStatus" /\ Place(book[i]) = 0 /\ book[i].status = "ACTIVE"
           /\ x = "set" => book[i].op = "setStatus"
           /\ x = "set" /\ book[i].status = "ACTIVE" => Place(book[i]) = 1
           /\ x \in Statements /\ x # "noFlag"
<1>1. /\ book[i] \in Reqs /\ Follows(book[i]) /\ x = Program(book[i])[Place(book[i]) + 1]
      /\ Placed(book[i], Place(book[i]) + 1) /\ x \in Statements
  BY WroteBook
<1>2. Place(book[i]) \in Int
  BY <1>1, Sizes
<1>3. PICK k : k = Place(book[i]) + 1
  OBVIOUS
<1>4. k \in Int /\ Place(book[i]) = k - 1
  BY <1>2, <1>3
<1>5. /\ x = "session" => book[i].op = "start"
      /\ x = "end" <=> book[i].op = "end" /\ k = 1
      /\ x = "turn" <=> book[i].op = "input"
      /\ x = "abort" <=> book[i].op = "abort" /\ k = 1
      /\ x = "linkAbort" => book[i].op = "abort"
      /\ x = "finish" <=> book[i].op \in {"learn", "abandon"} /\ k = 1
      /\ x = "graph" => book[i].op = "learn" /\ k = 3
      /\ x = "verdict" => book[i].op = "check"
      /\ x = "count" => book[i].op = "fuse"
      /\ x = "retire" <=> book[i].op = "setStatus" /\ k = 1 /\ book[i].status = "ACTIVE"
      /\ x = "set" <=> book[i].op = "setStatus" /\ k = Len(Program(book[i]))
  BY <1>1, <1>3 DEF Placed
<1>6. ASSUME x = "set", book[i].status = "ACTIVE" PROVE k = 2
  <2>1. book[i].op = "setStatus" /\ k = Len(Program(book[i]))
    BY <1>5, <1>6
  <2>2. Program(book[i]) = <<"retire", "set">>
    BY <1>6, <2>1 DEF Program
  <2> QED  BY <2>1, <2>2
<1>7. x # "noFlag"
  BY <1>1 DEF Statements, Records
<1> QED  BY <1>1, <1>4, <1>5, <1>6, <1>7

\* The session.
LEMMA SessionStep == ASSUME PipelineTyped, BookInv, SessionInv, PipelineStep PROVE SessionInv'
<1>1. ASSUME NEW r, Added(r) PROVE SessionInv'
  <2> DEFINE n == Len(book) + 1
  <2>1. /\ DOMAIN book' = DOMAIN book \union {n} /\ n \notin DOMAIN book
        /\ book'[n] = r /\ \A j \in DOMAIN book : book'[j] = book[j]
        /\ \A j \in DOMAIN book : Running(j)' = Running(j)
        /\ \A m : Made(m)' = Made(m)
    BY <1>1, AddedBook DEF Added
  <2>2. /\ r.made = {} /\ session' = session /\ clashed \subseteq clashed'
        /\ r.op = "start" => \A j \in DOMAIN book : book[j].op # "start"
        /\ r.op = "end" => session.status \notin {"none", "ENDED"}
    BY <1>1 DEF Added, Fresh, Found
  <2> HIDE DEF n
  <2>3. \A i, j \in DOMAIN book' : book'[i].op = "start" /\ book'[j].op = "start" => i = j
    BY <2>1, <2>2 DEF SessionInv
  <2>4. \A i \in DOMAIN book' : book'[i].op = "start" /\ "session" \notin book'[i].made => session'.status = "none"
    BY <2>1, <2>2 DEF SessionInv
  <2>5. session'.status = "none" \/ \E i \in DOMAIN book' : book'[i].op = "start"
    BY <2>1, <2>2 DEF SessionInv
  <2>6. session'.status = "none" => Made("flag")' = {} /\ \A i \in DOMAIN book' : book'[i].op # "end"
    BY <2>1, <2>2 DEF SessionInv
  <2>7. \A i \in DOMAIN book' : "end" \notin clashed' /\ book'[i].op = "end" /\ Running(i)' /\ i \notin Made("end")'
                                   => session'.status # "ENDED"
    BY <2>1, <2>2 DEF SessionInv
  <2> QED  BY <2>1, <2>2, <2>3, <2>4, <2>5, <2>6, <2>7 DEF SessionInv
<1>2. ASSUME startMirror PROVE SessionInv'
  BY <1>2 DEF startMirror, SessionInv, Made, Running
<1>3. ASSUME NEW i \in DOMAIN book, Perish(i) PROVE SessionInv'
  <2>1. /\ DOMAIN book' = DOMAIN book /\ UNCHANGED <<session, clashed>>
        /\ \A j \in DOMAIN book : book'[j].op = book[j].op /\ book'[j].made = book[j].made
        /\ \A j \in DOMAIN book : Running(j)' => Running(j)
        /\ \A n : Made(n)' = Made(n)
    BY <1>3, PerishedBook DEF Perish
  <2> QED  BY <2>1 DEF SessionInv
<1>4. ASSUME NEW i \in DOMAIN book, NEW x, NEW name, Wrote(i, x, name) PROVE SessionInv'
  <2>1. /\ DOMAIN book' = DOMAIN book /\ clashed' = clashed /\ x \notin book[i].made /\ WroteSession(x, name)
    BY <1>4, WroteBook DEF Wrote
  <2>2. /\ \A j \in DOMAIN book : book'[j].op = book[j].op /\ (j # i => book'[j] = book[j])
        /\ book'[i].made = book[i].made \union {name}
        /\ Running(i) /\ \A j \in DOMAIN book : Running(j)' => Running(j)
        /\ \A n : Made(n)' = IF n = name THEN Made(n) \union {i} ELSE Made(n)
        /\ i \notin Made(x)
    BY <1>4, WroteFields
  <2>3. /\ x = "session" => book[i].op = "start"
        /\ x = "end" <=> book[i].op = "end" /\ Place(book[i]) = 0
    BY <1>4, WroteOps
  <2>4. \A i1, j1 \in DOMAIN book' : book'[i1].op = "start" /\ book'[j1].op = "start" => i1 = j1
    BY <2>1, <2>2 DEF SessionInv
  <2>5. session' \in [status: {"none", "ACTIVE", "FLAGGED", "ENDED"}, endedAt: BOOLEAN]
    BY <2>1 DEF PipelineTyped, WroteSession
  <2>6. CASE x = "session"
    <3>1. session.status = "none" /\ session' = [status |-> "ACTIVE", endedAt |-> FALSE] /\ name = "session"
      BY <2>1, <2>3, <2>6 DEF SessionInv, WroteSession, Named
    <3>2. Made("flag")' = Made("flag") /\ Made("end")' = Made("end") /\ Made("flag") = {}
      BY <2>2, <3>1 DEF SessionInv
    <3>3. Made("end") = {}
      <4> SUFFICES ASSUME NEW j \in Made("end") PROVE FALSE
        OBVIOUS
      <4>1. j \in DOMAIN book /\ book[j] \in Reqs /\ Follows(book[j]) /\ "end" \in book[j].made
        BY DEF Made, BookInv, PipelineTyped
      <4>2. book[j].op = "end"
        BY <4>1, MadeFacts DEF Placed
      <4> QED  BY <3>1, <4>1, <4>2 DEF SessionInv
    <3>4. Cardinality(Made("end")') = 0 /\ Cardinality(Made("flag")') = 0
      BY <3>2, <3>3, FS_EmptySet
    <3>5. \A j \in DOMAIN book' : book'[j].op = "start" /\ "session" \notin book'[j].made => FALSE
      BY <2>1, <2>2, <2>3, <2>4, <2>6, <3>1
    <3> QED  BY <2>1, <2>2, <2>3, <2>4, <2>6, <3>1, <3>2, <3>3, <3>4, <3>5 DEF SessionInv
  <2>7. CASE x = "end"
    <3>1. name = "end" /\ session' = [status |-> "ENDED", endedAt |-> TRUE] /\ book[i].op = "end"
      BY <2>1, <2>3, <2>7 DEF WroteSession, Named
    <3>2. /\ Made("flag")' = Made("flag") /\ Made("end")' = Made("end") \union {i} /\ i \notin Made("end")
      BY <2>2, <2>7, <3>1
    <3>3. session.status # "none"
      BY <3>1 DEF SessionInv
    <3>4. \A j \in DOMAIN book' : ~(book'[j].op = "start" /\ "session" \notin book'[j].made)
      BY <2>1, <2>2, <3>1, <3>3 DEF SessionInv
    <3>5. \E j \in DOMAIN book' : book'[j].op = "start"
      BY <2>1, <2>2, <3>3 DEF SessionInv
    <3>6. ASSUME "end" \notin clashed'
          PROVE  /\ \A j \in DOMAIN book' : ~(book'[j].op = "end" /\ Running(j)' /\ j \notin Made("end")')
                 /\ Cardinality(Made("end")') <= Cardinality(Made("flag")') + 1
      <4>1. session.status # "ENDED"
        BY <2>1, <2>2, <3>1, <3>2, <3>6 DEF SessionInv
      <4>2. Cardinality(Made("end")) <= Cardinality(Made("flag"))
        BY <2>1, <3>6, <4>1, MadeFinite DEF SessionInv
      <4>3. Cardinality(Made("end")') = Cardinality(Made("end")) + 1
        BY <3>2, MadeFinite, FS_AddElement
      <4>4. ASSUME NEW j \in DOMAIN book', book'[j].op = "end", Running(j)', j \notin Made("end")' PROVE FALSE
        <5>1. j \in DOMAIN book /\ j # i /\ Running(j) /\ book[j].op = "end"
          BY <2>1, <2>2, <3>2, <4>4
        <5> QED  BY <2>1, <2>2, <3>1, <3>6, <5>1, Overlapped
      <4> QED  BY <3>2, <4>2, <4>3, <4>4, MadeFinite
    <3> QED  BY <2>4, <3>1, <3>3, <3>4, <3>5, <3>6 DEF SessionInv
  <2>8. CASE name = "flag"
    <3>1. x = "flag" /\ session.status # "none" /\ session'.status = "FLAGGED" /\ session'.endedAt = session.endedAt
      BY <2>1, <2>8 DEF WroteSession, Named, PipelineTyped
    <3>2. /\ Made("flag")' = Made("flag") \union {i} /\ Made("end")' = Made("end") /\ i \notin Made("flag")
      BY <2>2, <2>8, <3>1
    <3>3. \A j \in DOMAIN book' : ~(book'[j].op = "start" /\ "session" \notin book'[j].made)
      BY <2>1, <2>2, <2>8, <3>1 DEF SessionInv
    <3>4. \E j \in DOMAIN book' : book'[j].op = "start"
      BY <2>1, <2>2, <3>1 DEF SessionInv
    <3>5. Cardinality(Made("flag")') = Cardinality(Made("flag")) + 1
      BY <3>2, MadeFinite, FS_AddElement
    <3>6. "end" \notin clashed' => Cardinality(Made("end")') <= Cardinality(Made("flag")')
      BY <2>1, <3>2, <3>5, MadeFinite DEF SessionInv
    <3>7. Cardinality(Made("flag")') \in Nat
      BY <3>5, MadeFinite
    <3>8. Made("end")' # {} => session'.endedAt
      BY <3>1, <3>2 DEF SessionInv
    <3>9. "end" \notin clashed' => Cardinality(Made("end")') <= Cardinality(Made("flag")') + 0
      BY <3>6, <3>7
    <3> QED  BY <2>1, <2>4, <3>1, <3>3, <3>4, <3>8, <3>9 DEF SessionInv
  <2>9. CASE x \notin {"session", "end"} /\ name # "flag"
    <3>1. session' = session /\ name \notin {"session", "end", "flag"}
      BY <2>1, <2>9 DEF WroteSession, Named
    <3>2. Made("flag")' = Made("flag") /\ Made("end")' = Made("end")
      BY <2>2, <3>1
    <3>3. \A j \in DOMAIN book' : "session" \in book[j].made => "session" \in book'[j].made
      BY <2>1, <2>2
    <3>4. \A j \in DOMAIN book' : book'[j].op = "start" /\ "session" \notin book'[j].made => session'.status = "none"
      BY <2>1, <2>2, <3>1, <3>3 DEF SessionInv
    <3> QED  BY <2>1, <2>2, <2>4, <3>1, <3>2, <3>4 DEF SessionInv
  <2> QED  BY <2>6, <2>7, <2>8, <2>9
<1> QED  BY <1>1, <1>2, <1>3, <1>4 DEF PipelineStep

\* Which request made a statement.
LEMMA MadeOps ==
    ASSUME PipelineTyped, BookInv, NEW i
    PROVE  /\ i \in Made("turn") => book[i].op = "input"
           /\ i \in Made("abort") \union Made("linkAbort") => book[i].op = "abort"
           /\ i \in Made("finish") => book[i].op \in {"learn", "abandon"}
<1>1. ASSUME NEW x \in {"turn", "abort", "linkAbort", "finish"}, i \in Made(x)
      PROVE  /\ x = "turn" => book[i].op = "input"
             /\ x \in {"abort", "linkAbort"} => book[i].op = "abort"
             /\ x = "finish" => book[i].op \in {"learn", "abandon"}
  <2>1. i \in DOMAIN book /\ book[i] \in Reqs /\ Follows(book[i]) /\ x \in book[i].made
    BY <1>1 DEF Made, BookInv, PipelineTyped
  <2>2. PICK k \in 1..Place(book[i]) : k \in 1..Size(book[i]) /\ x = Program(book[i])[k] /\ Placed(book[i], k)
    BY <2>1, MadeFacts
  <2> QED  BY <2>2 DEF Placed
<1> QED  BY <1>1

\* ScamMirror.
LEMMA MirrorStep == ASSUME PipelineTyped, BookInv, MirrorInv, PipelineStep PROVE MirrorInv'
<1>1. ASSUME NEW r, Added(r) PROVE MirrorInv'
  <2> DEFINE n == Len(book) + 1
  <2>1. /\ DOMAIN book' = DOMAIN book \union {n} /\ n \notin DOMAIN book
        /\ book'[n] = r /\ \A j \in DOMAIN book : book'[j] = book[j]
        /\ \A j \in DOMAIN book : Running(j)' = Running(j)
        /\ \A m : Made(m)' = Made(m)
        /\ Place(r) = 0
    BY <1>1, AddedBook DEF Added
  <2>2. /\ sim' = sim /\ learned' = learned /\ clashed \subseteq clashed'
        /\ r.op \in Mirror => sim.status = "ACTIVE"
        /\ r.op = "input" => r.turns = sim.turns \union {n} /\ r.tactics = sim.tactics \union r.input.tactics
        /\ r.op # "register" => \A j \in DOMAIN book : Running(j) => book[j].op \in clashed'
    BY <1>1 DEF Added, Found, Mirror
  <2> HIDE DEF n
  <2>3. sim'.status = "none" => \A i \in DOMAIN book' : book'[i].op \notin Mirror
    BY <2>1, <2>2 DEF MirrorInv
  <2>4. ASSUME NEW i \in DOMAIN book', book'[i].op = "input"
        PROVE  i \in book'[i].turns /\ book'[i].turns \ {i} \subseteq Made("turn")'
    <3>1. CASE i = n
      BY <2>1, <2>2, <2>4, <3>1 DEF MirrorInv
    <3>2. CASE i \in DOMAIN book
      BY <2>1, <2>2, <2>4, <3>2 DEF MirrorInv
    <3> QED  BY <2>1, <3>1, <3>2
  <2>5. ASSUME clashed' = {}, NEW i \in DOMAIN book', Running(i)'
        PROVE  /\ book'[i].op = "input" => /\ book'[i].turns = sim'.turns \union {i}
                                           /\ book'[i].tactics = sim'.tactics \union book'[i].input.tactics
               /\ book'[i].op \in {"abort", "learn", "abandon"} /\ Place(book'[i]) = 0 => sim'.status = "ACTIVE"
               /\ book'[i].op = "learn" /\ Place(book'[i]) # 0 => book'[i].tactics \subseteq sim'.tactics
    <3>1. CASE i = n
      BY <2>1, <2>2, <3>1 DEF Mirror
    <3>2. CASE i \in DOMAIN book
      BY <2>1, <2>2, <2>5, <3>2 DEF MirrorInv
    <3> QED  BY <2>1, <3>1, <3>2
  <2> QED  BY <2>1, <2>2, <2>3, <2>4, <2>5 DEF MirrorInv
<1>2. ASSUME startMirror PROVE MirrorInv'
  <2>1. /\ UNCHANGED <<learned, book, clashed>> /\ sim.status = "none" /\ sim'.status = "ACTIVE" /\ sim'.turns = sim.turns
        /\ sim'.tactics = sim.tactics /\ sim'.pause = sim.pause
    BY <1>2 DEF startMirror, NoSim
  <2>2. \A i \in DOMAIN book : book[i].op \notin Mirror
    BY <2>1 DEF MirrorInv
  <2>3. Made("abort") = {} /\ Made("finish") = {} /\ \A n : Made(n)' = Made(n)
    <3>1. Made("abort") = {} /\ Made("finish") = {}
      <4> SUFFICES ASSUME NEW i \in Made("abort") \union Made("finish") PROVE FALSE
        OBVIOUS
      <4>1. i \in DOMAIN book /\ book[i].op \in Mirror
        BY MadeOps DEF Made, Mirror
      <4> QED  BY <2>2, <4>1
    <3> QED  BY <2>1, <3>1 DEF Made
  <2>4. \A i \in DOMAIN book' : book'[i].op \notin {"input", "abort", "learn", "abandon"}
    BY <2>1, <2>2 DEF Mirror
  <2> QED  BY <2>1, <2>3, <2>4 DEF MirrorInv
<1>3. ASSUME NEW i \in DOMAIN book, Perish(i) PROVE MirrorInv'
  <2>1. /\ DOMAIN book' = DOMAIN book /\ UNCHANGED <<sim, learned, clashed>>
        /\ \A j \in DOMAIN book :
              /\ book'[j].op = book[j].op /\ book'[j].turns = book[j].turns /\ book'[j].tactics = book[j].tactics
              /\ book'[j].input = book[j].input /\ Place(book'[j]) = Place(book[j])
        /\ \A j \in DOMAIN book : Running(j)' => Running(j)
        /\ \A n : Made(n)' = Made(n)
    BY <1>3, PerishedBook DEF Perish
  <2> QED  BY <2>1 DEF MirrorInv
<1>4. ASSUME NEW i \in DOMAIN book, NEW x, NEW name, Wrote(i, x, name) PROVE MirrorInv'
  <2>1. /\ DOMAIN book' = DOMAIN book /\ clashed' = clashed /\ WroteMirror(i, x)
        /\ Place(book'[i]) = Place(book[i]) + 1 /\ book[i] \in Reqs /\ Follows(book[i])
    BY <1>4, WroteBook DEF Wrote
  <2>2. /\ \A j \in DOMAIN book : /\ book'[j].op = book[j].op /\ book'[j].turns = book[j].turns
                                  /\ book'[j].input = book[j].input /\ (j # i => book'[j] = book[j])
        /\ book'[i].tactics = Read(i, x)
        /\ Running(i) /\ \A j \in DOMAIN book : Running(j)' => Running(j)
        /\ \A n : Made(n)' = IF n = name THEN Made(n) \union {i} ELSE Made(n)
    BY <1>4, WroteFields
  <2>3. /\ x = "turn" <=> book[i].op = "input"
        /\ x = "abort" <=> book[i].op = "abort" /\ Place(book[i]) = 0
        /\ x = "linkAbort" => book[i].op = "abort"
        /\ x = "finish" <=> book[i].op \in {"learn", "abandon"} /\ Place(book[i]) = 0
        /\ x = "graph" => book[i].op = "learn" /\ Place(book[i]) = 2
    BY <1>4, WroteOps
  <2>4. x # "flag" => name = x
    BY <1>4 DEF Wrote, WroteSession, Named
  <2>5. name \in {"turn", "abort", "finish", "linkAbort"} => name = x
    BY <1>4 DEF Wrote, WroteSession, Named
  <2>6. Place(book'[i]) # 0
    BY <2>1, Sizes DEF Follows
  <2>7. ASSUME clashed = {}, NEW j \in DOMAIN book, j # i, Running(j) PROVE FALSE
    BY <2>2, <2>7, Overlapped
  <2>8. /\ sim'.status = "none" => sim.status = "none"
        /\ sim'.status = "ACTIVE" => sim.status = "ACTIVE" /\ x \notin {"abort", "finish"}
        /\ sim.pause => sim'.pause
        /\ sim'.turns = IF x = "turn" THEN book[i].turns ELSE sim.turns
        /\ sim'.tactics = IF x = "turn" THEN book[i].tactics ELSE sim.tactics
        /\ x = "linkAbort" => sim'.pause
    BY <2>1 DEF WroteMirror, PipelineTyped
  <2>9. learned' = learned \/ (x = "graph" /\ learned' = learned \union book[i].tactics)
    BY <2>1 DEF WroteMirror
  <2>10. sim'.status = "none" => \A j \in DOMAIN book' : book'[j].op \notin Mirror
    BY <2>1, <2>2, <2>8 DEF MirrorInv
  <2>11. Made("turn") \subseteq Made("turn")' /\ (x = "turn" => i \in Made("turn")')
    BY <2>2, <2>4
  <2>12. ASSUME NEW j \in DOMAIN book', book'[j].op = "input"
         PROVE  j \in book'[j].turns /\ book'[j].turns \ {j} \subseteq Made("turn")'
    BY <2>1, <2>2, <2>11, <2>12 DEF MirrorInv
  <2>13. sim'.turns \subseteq Made("turn")'
    BY <2>3, <2>8, <2>11 DEF MirrorInv
  <2>14. sim'.status = "ACTIVE" => Made("abort")' = {} /\ Made("finish")' = {}
    BY <2>2, <2>5, <2>8 DEF MirrorInv
  <2>15. Made("linkAbort")' # {} => sim'.pause
    BY <2>2, <2>5, <2>8 DEF MirrorInv
  <2>16. ASSUME clashed' = {}
         PROVE  /\ Made("turn")' \subseteq sim'.turns /\ learned' \subseteq sim'.tactics
                /\ \A j, k \in Made("abort")' \union Made("finish")' : j = k
                /\ \A j \in DOMAIN book' : Running(j)' =>
                      /\ book'[j].op = "input" => /\ book'[j].turns = sim'.turns \union {j}
                                                  /\ book'[j].tactics = sim'.tactics \union book'[j].input.tactics
                      /\ book'[j].op \in {"abort", "learn", "abandon"} /\ Place(book'[j]) = 0 => sim'.status = "ACTIVE"
                      /\ book'[j].op = "learn" /\ Place(book'[j]) # 0 => book'[j].tactics \subseteq sim'.tactics
    <3>1. /\ Made("turn") \subseteq sim.turns /\ learned \subseteq sim.tactics
          /\ \A j, k \in Made("abort") \union Made("finish") : j = k
          /\ book[i].op = "input" => /\ book[i].turns = sim.turns \union {i}
                                     /\ book[i].tactics = sim.tactics \union book[i].input.tactics
          /\ book[i].op \in {"abort", "learn", "abandon"} /\ Place(book[i]) = 0 => sim.status = "ACTIVE"
          /\ book[i].op = "learn" /\ Place(book[i]) # 0 => book[i].tactics \subseteq sim.tactics
      BY <2>1, <2>2, <2>16 DEF MirrorInv
    <3>2. Made("turn")' \subseteq sim'.turns
      BY <2>2, <2>3, <2>5, <2>8, <3>1
    <3>3. learned' \subseteq sim'.tactics
      BY <2>3, <2>8, <2>9, <3>1
    <3>4. \A j, k \in Made("abort")' \union Made("finish")' : j = k
      <4>1. CASE x \in {"abort", "finish"}
        <5>1. Made("abort") = {} /\ Made("finish") = {}
          BY <2>3, <3>1, <4>1 DEF MirrorInv
        <5> QED  BY <2>2, <5>1
      <4>2. CASE x \notin {"abort", "finish"}
        <5>1. Made("abort")' = Made("abort") /\ Made("finish")' = Made("finish")
          BY <2>2, <2>5, <4>2
        <5> QED  BY <3>1, <5>1
      <4> QED  BY <4>1, <4>2
    <3>5. ASSUME NEW j \in DOMAIN book', Running(j)'
          PROVE  /\ book'[j].op = "input" => /\ book'[j].turns = sim'.turns \union {j}
                                             /\ book'[j].tactics = sim'.tactics \union book'[j].input.tactics
                 /\ book'[j].op \in {"abort", "learn", "abandon"} /\ Place(book'[j]) = 0 => sim'.status = "ACTIVE"
                 /\ book'[j].op = "learn" /\ Place(book'[j]) # 0 => book'[j].tactics \subseteq sim'.tactics
      <4>1. j = i
        BY <2>1, <2>2, <2>7, <2>16, <3>5
      <4>2. book[i].op = "input" => x = "turn" /\ book'[i].tactics = book[i].tactics
        BY <2>2, <2>3 DEF Read
      <4>3. book'[i].op = "learn" => book'[i].tactics \subseteq sim'.tactics
        BY <2>2, <2>3, <2>8, <3>1 DEF Read
      <4> QED  BY <2>2, <2>6, <2>8, <3>1, <4>1, <4>2, <4>3
    <3> QED  BY <3>2, <3>3, <3>4, <3>5
  <2> QED  BY <2>10, <2>12, <2>13, <2>14, <2>15, <2>16 DEF MirrorInv
<1> QED  BY <1>1, <1>2, <1>3, <1>4 DEF PipelineStep

\* The checks.
LEMMA ChecksStep == ASSUME PipelineTyped, BookInv, ChecksInv, PipelineStep PROVE ChecksInv'
<1>1. ASSUME NEW r, Added(r) PROVE ChecksInv'
  <2>1. /\ DOMAIN book' = DOMAIN book \union {Len(book) + 1}
        /\ book'[Len(book) + 1] = r /\ \A j \in DOMAIN book : book'[j] = book[j]
        /\ \A m : Made(m)' = Made(m)
    BY <1>1, AddedBook DEF Added
  <2>2. fails' = fails /\ fails \in Nat /\ r.before <= fails
    BY <1>1 DEF Added, Found, PipelineTyped
  <2>3. Failed' = Failed
    BY <2>1 DEF Failed, Made
  <2>4. \A i \in Made("count") : i \in DOMAIN book /\ book'[i] = book[i]
    BY <2>1 DEF Made
  <2> QED  BY <2>1, <2>2, <2>3, <2>4 DEF ChecksInv
<1>2. ASSUME startMirror PROVE ChecksInv'
  BY <1>2 DEF startMirror, ChecksInv, Failed, Made
<1>3. ASSUME NEW i \in DOMAIN book, Perish(i) PROVE ChecksInv'
  <2>1. /\ DOMAIN book' = DOMAIN book /\ fails' = fails
        /\ \A j \in DOMAIN book : /\ book'[j].before = book[j].before /\ book'[j].counted = book[j].counted
                                  /\ book'[j].status = book[j].status
        /\ \A n : Made(n)' = Made(n)
    BY <1>3, PerishedBook DEF Perish
  <2>2. \A n : Made(n) \subseteq DOMAIN book
    BY DEF Made
  <2>3. Failed' = Failed
    BY <2>1, <2>2 DEF Failed
  <2> QED  BY <2>1, <2>2, <2>3 DEF ChecksInv
<1>4. ASSUME NEW i \in DOMAIN book, NEW x, NEW name, Wrote(i, x, name) PROVE ChecksInv'
  <2>1. DOMAIN book' = DOMAIN book /\ WroteChecks(i, x) /\ WellFormed(book[i])
    BY <1>4, WroteBook DEF Wrote, Follows
  <2>2. /\ \A j \in DOMAIN book : /\ book'[j].before = book[j].before /\ book'[j].status = book[j].status
                                  /\ (j # i => book'[j] = book[j])
        /\ book'[i].counted = Count(i, x)
        /\ \A n : Made(n)' = IF n = name THEN Made(n) \union {i} ELSE Made(n)
        /\ i \notin Made(x)
    BY <1>4, WroteFields
  <2>3. (x = "verdict" => book[i].op = "check") /\ (x = "count" => book[i].op = "fuse")
    BY <1>4, WroteOps
  <2>4. x = "count" => book[i].status = "none"
    BY <2>1, <2>3 DEF WellFormed
  <2>5. fails \in Nat /\ (fails' = fails \/ fails' = fails + 1)
        /\ fails' = IF x = "verdict" /\ book[i].status = "FAIL" THEN fails + 1 ELSE fails
    BY <2>1, <2>4 DEF WroteChecks, PipelineTyped
  <2>6. \A n : Made(n) \subseteq DOMAIN book
    BY DEF Made
  <2>7. (name = "verdict" <=> x = "verdict") /\ (name = "count" <=> x = "count")
    BY <1>4 DEF Wrote, WroteSession, Named
  <2>8. fails' = Cardinality(Failed')
    <3>1. CASE x = "verdict" /\ book[i].status = "FAIL"
      <4>1. Failed' = Failed \union {i} /\ i \notin Failed
        BY <2>2, <2>6, <2>7, <3>1 DEF Failed
      <4>2. IsFiniteSet(Failed)
        BY MadeFinite, FS_Subset DEF Failed
      <4> QED  BY <2>5, <3>1, <4>1, <4>2, FS_AddElement DEF ChecksInv
    <3>2. CASE ~(x = "verdict" /\ book[i].status = "FAIL")
      <4>1. Failed' = Failed
        <5>1. Made("verdict")' = IF x = "verdict" THEN Made("verdict") \union {i} ELSE Made("verdict")
          BY <2>2, <2>7
        <5> QED  BY <2>2, <2>6, <3>2, <5>1 DEF Failed
      <4> QED  BY <2>5, <3>2, <4>1 DEF ChecksInv
    <3> QED  BY <3>1, <3>2
  <2>9. \A j \in DOMAIN book : book[j] \in Reqs
    BY DEF PipelineTyped
  <2>10. \A j \in DOMAIN book : book[j].before \in Nat /\ book[j].counted \in Nat
    BY <2>9 DEF Reqs
  <2>11. \A j \in DOMAIN book' : book'[j].before <= fails'
    BY <2>1, <2>2, <2>5, <2>10 DEF ChecksInv
  <2>12. ASSUME NEW j \in Made("count")' PROVE book'[j].before <= book'[j].counted /\ book'[j].counted <= fails'
    <3>1. CASE j = i /\ x = "count"
      BY <2>2, <2>4, <2>5, <2>10, <3>1 DEF ChecksInv, Count
    <3>2. CASE j # i
      <4>1. j \in Made("count") /\ j \in DOMAIN book /\ book'[j] = book[j]
        BY <2>2, <2>6, <2>12, <3>2
      <4> QED  BY <2>5, <2>10, <4>1 DEF ChecksInv
    <3>3. CASE j = i /\ x # "count"
      <4>1. j \in Made("count")
        BY <2>2, <2>7, <2>12, <3>3
      <4>2. book'[i].counted = book[i].counted \/ book'[i].counted = fails
        BY <2>2 DEF Count
      <4> QED  BY <2>2, <2>5, <2>10, <3>3, <4>1, <4>2 DEF ChecksInv
    <3> QED  BY <3>1, <3>2, <3>3
  <2> QED  BY <2>8, <2>11, <2>12 DEF ChecksInv
<1> QED  BY <1>1, <1>2, <1>3, <1>4 DEF PipelineStep

\* The models.
LEMMA ModelsStep == ASSUME PipelineTyped, BookInv, ModelsInv, PipelineStep PROVE ModelsInv'
<1> USE DEF ModelsInv
<1>1. ASSUME NEW r, Added(r) PROVE ModelsInv'
  <2> DEFINE n == Len(book) + 1
  <2>1. /\ DOMAIN book' = DOMAIN book \union {n} /\ n \notin DOMAIN book
        /\ book'[n] = r /\ \A j \in DOMAIN book : book'[j] = book[j]
        /\ \A j \in DOMAIN book : Running(j)' = Running(j)
        /\ Place(r) = 0 /\ WellFormed(r)
    BY <1>1, AddedBook DEF Added, Fresh
  <2>2. /\ clashed \subseteq clashed'
        /\ r.op # "register" => models' = models
        /\ r.op = "register" => models' = [models EXCEPT ![r.version] = r.status]
    BY <1>1 DEF Added
  <2> HIDE DEF n
  <2>3. SUFFICES ASSUME "setStatus" \notin clashed',
                        \A i \in DOMAIN book' : book'[i].op = "register" => book'[i].status # "ACTIVE"
                 PROVE  /\ \A v, w \in Versions : models'[v] = "ACTIVE" /\ models'[w] = "ACTIVE" => v = w
                        /\ \A i \in DOMAIN book' :
                              book'[i].op = "setStatus" /\ Running(i)' /\ book'[i].status = "ACTIVE" /\ Place(book'[i]) # 0 =>
                                 \A w \in Versions : models'[w] = "ACTIVE" => w = book'[i].version
    OBVIOUS
  <2>4. /\ \A v, w \in Versions : models[v] = "ACTIVE" /\ models[w] = "ACTIVE" => v = w
        /\ \A i \in DOMAIN book :
              book[i].op = "setStatus" /\ Running(i) /\ book[i].status = "ACTIVE" /\ Place(book[i]) # 0 =>
                 \A w \in Versions : models[w] = "ACTIVE" => w = book[i].version
    BY <2>1, <2>2, <2>3
  <2>5. \A w \in Versions : models'[w] = "ACTIVE" => models[w] = "ACTIVE"
    BY <2>1, <2>2, <2>3 DEF PipelineTyped, WellFormed
  <2> QED  BY <2>1, <2>4, <2>5
<1>2. ASSUME startMirror PROVE ModelsInv'
  BY <1>2 DEF startMirror, Running
<1>3. ASSUME NEW i \in DOMAIN book, Perish(i) PROVE ModelsInv'
  <2>1. /\ DOMAIN book' = DOMAIN book /\ UNCHANGED <<models, clashed>>
        /\ \A j \in DOMAIN book :
              /\ book'[j].op = book[j].op /\ book'[j].status = book[j].status /\ book'[j].version = book[j].version
              /\ Place(book'[j]) = Place(book[j])
        /\ \A j \in DOMAIN book : Running(j)' => Running(j)
    BY <1>3, PerishedBook DEF Perish
  <2> QED  BY <2>1
<1>4. ASSUME NEW i \in DOMAIN book, NEW x, NEW name, Wrote(i, x, name) PROVE ModelsInv'
  <2>1. /\ DOMAIN book' = DOMAIN book /\ clashed' = clashed /\ WroteModels(i, x) /\ WellFormed(book[i])
    BY <1>4, WroteBook DEF Wrote, Follows
  <2>2. /\ \A j \in DOMAIN book : /\ book'[j].op = book[j].op /\ book'[j].status = book[j].status
                                  /\ book'[j].version = book[j].version /\ (j # i => book'[j] = book[j])
        /\ Running(i) /\ \A j \in DOMAIN book : Running(j)' => Running(j)
    BY <1>4, WroteFields
  <2>3. /\ x = "retire" <=> book[i].op = "setStatus" /\ Place(book[i]) = 0 /\ book[i].status = "ACTIVE"
        /\ x = "set" => book[i].op = "setStatus"
        /\ x = "set" /\ book[i].status = "ACTIVE" => Place(book[i]) = 1
    BY <1>4, WroteOps
  <2>4. SUFFICES ASSUME "setStatus" \notin clashed,
                        \A j \in DOMAIN book : book[j].op = "register" => book[j].status # "ACTIVE"
                 PROVE  /\ \A v, w \in Versions : models'[v] = "ACTIVE" /\ models'[w] = "ACTIVE" => v = w
                        /\ \A j \in DOMAIN book' :
                              book'[j].op = "setStatus" /\ Running(j)' /\ book'[j].status = "ACTIVE" /\ Place(book'[j]) # 0 =>
                                 \A w \in Versions : models'[w] = "ACTIVE" => w = book'[j].version
    BY <2>1, <2>2
  <2>5. /\ \A v, w \in Versions : models[v] = "ACTIVE" /\ models[w] = "ACTIVE" => v = w
        /\ \A j \in DOMAIN book :
              book[j].op = "setStatus" /\ Running(j) /\ book[j].status = "ACTIVE" /\ Place(book[j]) # 0 =>
                 \A w \in Versions : models[w] = "ACTIVE" => w = book[j].version
    BY <2>4
  <2>6. ASSUME book[i].op = "setStatus", NEW j \in DOMAIN book, Running(j), book[j].op = "setStatus" PROVE j = i
    BY <2>2, <2>4, <2>6, Overlapped
  <2>7. CASE x = "retire"
    <3>1. \A w \in Versions : models'[w] = "ACTIVE" => w = book[i].version
      BY <2>1, <2>7 DEF WroteModels
    <3> QED  BY <2>1, <2>2, <2>3, <2>6, <2>7, <3>1
  <2>8. CASE x = "set"
    <3>1. book[i].version \in Versions /\ models' = [models EXCEPT ![book[i].version] = book[i].status]
      BY <2>1, <2>3, <2>8 DEF WroteModels, WellFormed
    <3>2. CASE book[i].status = "ACTIVE"
      <4>1. \A w \in Versions : models[w] = "ACTIVE" => w = book[i].version
        BY <2>2, <2>3, <2>5, <2>8, <3>2
      <4>2. \A w \in Versions : models'[w] = "ACTIVE" => w = book[i].version
        BY <3>1, <4>1 DEF PipelineTyped
      <4> QED  BY <2>1, <2>2, <2>3, <2>6, <2>8, <4>2
    <3>3. CASE book[i].status # "ACTIVE"
      <4>1. \A w \in Versions : models'[w] = "ACTIVE" => models[w] = "ACTIVE"
        BY <3>1, <3>3 DEF PipelineTyped
      <4> QED  BY <2>1, <2>2, <2>3, <2>5, <2>6, <2>8, <3>3, <4>1
    <3> QED  BY <3>2, <3>3
  <2>9. CASE x \notin {"retire", "set"}
    <3>1. models' = models
      BY <2>1, <2>9 DEF WroteModels
    <3>2. book[i].op = "setStatus" /\ book[i].status = "ACTIVE" => Place(book[i]) # 0
      BY <2>3, <2>9
    <3> QED  BY <2>1, <2>2, <2>5, <3>1, <3>2
  <2> QED  BY <2>7, <2>8, <2>9
<1> QED  BY <1>1, <1>2, <1>3, <1>4 DEF PipelineStep

\* The start.
LEMMA PipelineStart == PipelineInit => PipelineInv
<1> SUFFICES ASSUME PipelineInit PROVE PipelineInv
  OBVIOUS
<1>1. /\ session = [status |-> "none", endedAt |-> FALSE] /\ learned = {} /\ fails = 0 /\ losses = 0 /\ clashed = {}
      /\ sim = [status |-> "none", turns |-> {}, tactics |-> {}, pause |-> FALSE, evidence |-> "none"]
      /\ models = [v \in Versions |-> "none"] /\ book = <<>> /\ DOMAIN book = {}
  BY DEF PipelineInit, NoSim
<1>2. \A n : Made(n) = {}
  BY <1>1 DEF Made
<1>3. Failed = {} /\ Cardinality({}) = 0
  BY <1>2, FS_EmptySet DEF Failed
<1>4. PipelineTyped
  <2>1. book \in Seq(Reqs) /\ Len(book) = 0
    BY <1>1
  <2> QED  BY <1>1, <2>1, PipelineAssumption DEF PipelineTyped
<1>5. BookInv /\ MirrorInv /\ ModelsInv
  BY <1>1, <1>2 DEF BookInv, MirrorInv, ModelsInv
<1>6. SessionInv
  <2>1. Made("flag") = {} /\ Made("end") = {}
    BY <1>2
  <2>2. Cardinality(Made("flag")) = 0 /\ Cardinality(Made("end")) = 0
    BY <1>3, <2>1
  <2> QED  BY <1>1, <2>1, <2>2 DEF SessionInv
<1>7. ChecksInv
  BY <1>1, <1>2, <1>3 DEF ChecksInv
<1> QED  BY <1>4, <1>5, <1>6, <1>7 DEF PipelineInv

\* The inductive invariant of the risk pipeline.
LEMMA PipelineInvariance == PipelineSpec => []PipelineInv
<1>1. PipelineInv /\ PipelineNext => PipelineInv'
  <2> SUFFICES ASSUME PipelineInv, PipelineNext PROVE PipelineInv'
    OBVIOUS
  <2>1. PipelineStep
    BY PipelineSteps DEF PipelineInv
  <2> QED  BY <2>1, TypedStep, BookStep, SessionStep, MirrorStep, ChecksStep, ModelsStep DEF PipelineInv
<1>2. PipelineInv /\ UNCHANGED pipeVars => PipelineInv'
  BY DEF pipeVars, PipelineInv, PipelineTyped, BookInv, SessionInv, MirrorInv, ChecksInv, ModelsInv, Made, Running, Failed
<1>3. PipelineInv /\ [PipelineNext]_pipeVars => PipelineInv'
  BY <1>1, <1>2
<1> QED  BY <1>3, PipelineStart, PTL DEF PipelineSpec

\* A request that is through has made all its statements.
LEMMA Through ==
    ASSUME PipelineInv, NEW i \in DOMAIN book, Finished(i)
    PROVE  Place(book[i]) = Size(book[i])
<1>1. book[i] \in Reqs /\ Follows(book[i])
  BY DEF PipelineInv, BookInv, PipelineTyped
<1>2. Left(book[i]) = 0
  BY DEF Finished, Left
<1> QED  BY <1>1, <1>2, Sizes

\* What a made statement says of its request, and the statements before it.
LEMMA MadeBefore ==
    ASSUME PipelineInv, NEW x, NEW i \in Made(x), x # "noFlag"
    PROVE  /\ i \in DOMAIN book /\ book[i] \in Reqs /\ WellFormed(book[i]) /\ Size(book[i]) \in Nat
           /\ \E k \in 1..Size(book[i]) :
                 /\ x = Program(book[i])[k] /\ Placed(book[i], k)
                 /\ \A l \in 1..k : Program(book[i])[l] \in book[i].made \/ Program(book[i])[l] = "flag"
<1>1. i \in DOMAIN book /\ x \in book[i].made
  BY DEF Made
<1>2. book[i] \in Reqs /\ Follows(book[i])
  BY <1>1 DEF PipelineInv, BookInv, PipelineTyped
<1>3. PICK k \in 1..Place(book[i]) : k \in 1..Size(book[i]) /\ x = Program(book[i])[k] /\ Placed(book[i], k)
  BY <1>1, <1>2, MadeFacts
<1>4. Size(book[i]) \in Nat /\ Place(book[i]) \in Int
  BY <1>2, Sizes
<1>5. 1..k \subseteq 1..Place(book[i])
  BY <1>3, <1>4
<1> QED  BY <1>1, <1>2, <1>3, <1>4, <1>5 DEF Follows

\* At most one, where any two are the same.
LEMMA AtMostOne == ASSUME NEW S, \A v, w \in S : v = w PROVE Cardinality(S) <= 1
<1>1. CASE S = {}
  BY <1>1, FS_EmptySet
<1>2. CASE S # {}
  <2>1. PICK v \in S : S = {v}
    BY <1>2
  <2> QED  BY <2>1, FS_Singleton
<1> QED  BY <1>1, <1>2

\* The intervention: INTERVENING is the last of eight statements, and a CRITICAL event has
\* all eight of them.
LEMMA Intervened == PipelineInv => InterventionComplete
<1> SUFFICES ASSUME PipelineInv PROVE InterventionComplete
  OBVIOUS
<1>1. ASSUME NEW r, r.op = "risk", r.level = "CRITICAL"
      PROVE  /\ Size(r) = 8 /\ Program(r)[1] = "riskEvent" /\ Program(r)[2] = "riskLog" /\ Program(r)[3] = "riskAlert"
             /\ Program(r)[4] = "freeze" /\ Program(r)[6] = "freezeLog" /\ Program(r)[7] = "pauseAlert"
             /\ Program(r)[8] = "intervening"
  <2>1. Program(r) = <<"riskEvent", "riskLog", "riskAlert", "freeze", "flag", "freezeLog", "pauseAlert", "intervening">>
    BY <1>1 DEF Program, riskProgram
  <2> QED  BY <2>1 DEF Size
<1>2. ASSUME NEW r, r.op = "risk", r.level # "CRITICAL" PROVE Size(r) \in 2..3
  <2>1. Program(r) = <<"riskEvent", "riskLog", "riskAlert">> \/ Program(r) = <<"riskEvent", "riskLog">>
    BY <1>2 DEF Program, riskProgram
  <2> QED  BY <2>1 DEF Size
<1>3. ASSUME NEW i \in Made("intervening")
      PROVE  {"riskEvent", "riskLog", "riskAlert", "freeze", "freezeLog", "pauseAlert"} \subseteq book[i].made
  <2>1. PICK k \in 1..Size(book[i]) :
           /\ "intervening" = Program(book[i])[k] /\ Placed(book[i], k)
           /\ \A l \in 1..k : Program(book[i])[l] \in book[i].made \/ Program(book[i])[l] = "flag"
    BY MadeBefore
  <2>2. book[i].op = "risk" /\ k = 8
    BY <2>1 DEF Placed
  <2>3. book[i].level = "CRITICAL"
    BY <1>2, <2>1, <2>2
  <2> QED  BY <1>1, <2>1, <2>2, <2>3
<1>4. ASSUME NEW i \in DOMAIN book, book[i].level = "CRITICAL", Finished(i) PROVE i \in Made("intervening")
  <2>1. book[i].op = "risk" /\ Follows(book[i])
    BY <1>4 DEF PipelineInv, BookInv, Follows, WellFormed
  <2>2. Place(book[i]) = 8 /\ Program(book[i])[8] = "intervening"
    BY <1>1, <1>4, <2>1, Through
  <2> QED  BY <2>1, <2>2 DEF Follows, Made
<1>5. Cardinality(Made("end")) <= 1 + Cardinality(Made("flag")) \/ "end" \in clashed
  BY MadeFinite DEF PipelineInv, SessionInv
<1> QED  BY <1>3, <1>4, <1>5 DEF InterventionComplete, PipelineInv, SessionInv

\* The simulation.
LEMMA Simulated == PipelineInv => SimulationKept
<1> SUFFICES ASSUME PipelineInv PROVE SimulationKept
  OBVIOUS
<1>1. ASSUME NEW i \in sim.turns PROVE sanitize(book[i].input) /\ i \in Made("turn")
  <2>1. i \in Made("turn") /\ book[i].op = "input"
    BY MadeOps DEF PipelineInv, MirrorInv
  <2>2. WellFormed(book[i])
    BY <2>1, MadeBefore
  <2> QED  BY <2>1, <2>2 DEF WellFormed, sanitize
<1>2. sim.status = "ACTIVE" => Made("abort") \union Made("finish") = {}
  BY DEF PipelineInv, MirrorInv
<1>3. clashed = {} => sim.turns = Made("turn") /\ learned \subseteq sim.tactics
  BY DEF PipelineInv, MirrorInv
<1>4. clashed = {} => Cardinality(Made("abort") \union Made("finish")) <= 1
  BY AtMostOne DEF PipelineInv, MirrorInv
<1>5. ASSUME NEW i \in Made("linkAbort") PROVE sim.pause /\ i \in Made("pause")
  <2>1. PICK k \in 1..Size(book[i]) :
           /\ "linkAbort" = Program(book[i])[k] /\ Placed(book[i], k)
           /\ \A l \in 1..k : Program(book[i])[l] \in book[i].made \/ Program(book[i])[l] = "flag"
    BY MadeBefore
  <2>2. book[i].op = "abort" /\ k = 4 /\ i \in DOMAIN book
    BY <2>1 DEF Placed, Made
  <2>3. Program(book[i]) = <<"abort", "abortLog", "pause", "linkAbort">>
    BY <2>2 DEF Program
  <2>4. Program(book[i])[3] = "pause" /\ 3 \in 1..k
    BY <2>2, <2>3
  <2> QED  BY <2>1, <2>2, <2>4 DEF Made, PipelineInv, MirrorInv
<1> QED  BY <1>1, <1>2, <1>3, <1>4, <1>5 DEF SimulationKept

\* The fusion and the checks.
LEMMA Fused == PipelineInv => FusionCounts
<1> SUFFICES ASSUME PipelineInv PROVE FusionCounts
  OBVIOUS
<1>1. ASSUME NEW i \in Made("fusion")
      PROVE  /\ i \in Made("count") /\ {"journeyDecision", "victimDecision", "moveDecision"} \subseteq book[i].made
  <2>1. PICK k \in 1..Size(book[i]) :
           /\ "fusion" = Program(book[i])[k] /\ Placed(book[i], k)
           /\ \A l \in 1..k : Program(book[i])[l] \in book[i].made \/ Program(book[i])[l] = "flag"
    BY MadeBefore
  <2>2. book[i].op = "fuse" /\ k = 8 /\ i \in DOMAIN book
    BY <2>1 DEF Placed, Made
  <2>3. Program(book[i]) = <<"journey", "journeyDecision", "victim", "victimDecision", "move", "moveDecision", "count",
                             "fusion">>
    BY <2>2 DEF Program
  <2>4. /\ Program(book[i])[2] = "journeyDecision" /\ Program(book[i])[4] = "victimDecision"
        /\ Program(book[i])[6] = "moveDecision" /\ Program(book[i])[7] = "count"
    BY <2>3
  <2> QED  BY <2>1, <2>2, <2>4 DEF Made
<1>2. ASSUME NEW i \in Made("verdict"), Finished(i) PROVE i \in Made("decision")
  <2>1. PICK k \in 1..Size(book[i]) : "verdict" = Program(book[i])[k] /\ Placed(book[i], k)
    BY MadeBefore
  <2>2. book[i].op = "check" /\ book[i].status # "INCONCLUSIVE" /\ i \in DOMAIN book
    BY <2>1 DEF Placed, Made
  <2>3. Program(book[i]) = <<"verdict", "decision", "checkLog">>
    BY <2>2 DEF Program
  <2>4. Program(book[i])[2] = "decision" /\ Size(book[i]) = 3
    BY <2>3 DEF Size
  <2>5. Place(book[i]) = 3 /\ Follows(book[i])
    BY <1>2, <2>2, <2>4, Through DEF PipelineInv, BookInv
  <2> QED  BY <2>2, <2>4, <2>5 DEF Follows, Made
<1> QED  BY <1>1, <1>2 DEF FusionCounts, PipelineInv, ChecksInv

\* The models.
LEMMA Governed == PipelineInv => ModelsGoverned
<1> SUFFICES ASSUME PipelineInv, "setStatus" \notin clashed,
                    ~ \E i \in DOMAIN book : book[i].op = "register" /\ book[i].status = "ACTIVE"
             PROVE  Cardinality({v \in Versions : models[v] = "ACTIVE"}) <= 1
  BY DEF ModelsGoverned
<1>1. \A v, w \in {v \in Versions : models[v] = "ACTIVE"} : v = w
  BY DEF PipelineInv, ModelsInv
<1> QED  BY <1>1, AtMostOne

\* Whatever requests interleave or are lost between two of their writes: an intervention
\* that says it intervened has its freeze, its entry and its alerts; a simulation keeps
\* what it accepted and nothing it refused; a fusion counts what had failed; one version
\* of a model is active, but for activations that overlap or are registered as such
\* (RiskService.createRiskEvent, FreezeLockService.trigger, ScamMirrorService,
\* AuthenticityService.runCheck, RiskFusionV2Service.fuse, ModelRegistryService.setStatus).
THEOREM PipelineIsSound == PipelineSpec => []PipelineSound
<1>1. PipelineInv => PipelineSound
  BY Intervened, Simulated, Fused, Governed DEF PipelineSound
<1> QED  BY <1>1, PipelineInvariance, PTL

\* The rows of the pipeline keep their types: a session, a simulation and a model have a
\* status of their enum, the turns of a simulation and the failed checks are of requests.
THEOREM PipelineKeepsTypes == PipelineSpec => []PipelineTypeOK
<1>1. PipelineInv => PipelineTypeOK
  <2> SUFFICES ASSUME PipelineInv PROVE PipelineTypeOK
    OBVIOUS
  <2>1. PipelineTyped /\ book \in Seq(Reqs) /\ DOMAIN book = 1..Len(book) /\ Len(book) \in Nat /\ Len(book) <= BookBound
    BY LenProperties DEF PipelineInv, PipelineTyped
  <2>2. sim.turns \subseteq DOMAIN book
    BY DEF PipelineInv, MirrorInv, Made
  <2>3. fails \in 0..BookBound
    <3>1. Failed \subseteq 1..Len(book) /\ fails = Cardinality(Failed) /\ fails \in Nat
      BY <2>1 DEF PipelineInv, ChecksInv, Failed, Made, PipelineTyped
    <3>2. IsFiniteSet(1..Len(book)) /\ Cardinality(1..Len(book)) = Len(book)
      BY <2>1, FS_Interval
    <3>3. fails <= Len(book)
      BY <3>1, <3>2, FS_Subset
    <3> QED  BY <2>1, <3>1, <3>3, PipelineAssumption
  <2>4. sim.turns \subseteq 1..BookBound
    BY <2>1, <2>2, PipelineAssumption
  <2> QED  BY <2>1, <2>3, <2>4 DEF PipelineTyped, PipelineTypeOK, Tactics
<1> QED  BY <1>1, PipelineInvariance, PTL

-----------------------------------------------------------------------------
(* The scorers: what is known of a case is a value its factor has points for. *)

\* Points for at least one value, none of them negative.
Pointed(points) == DOMAIN points # {} /\ \A v \in DOMAIN points : points[v] \in Nat

\* A set of numbers that has one has a least one.
LEMMA LeastNumber ==
    ASSUME NEW B, B \subseteq Nat, B # {}
    PROVE  \E n \in B : \A m \in Nat : m < n => m \notin B
<1>1. PICK n \in B : \A m \in B : ~ <<m, n>> \in OpToRel(<, Nat)
  BY WFMin, NatLessThanWellFounded
<1>2. ASSUME NEW m \in B, m < n
      PROVE  FALSE
  <2>1. <<m, n>> \notin {p \in Nat \X Nat : p[1] < p[2]}
    BY <1>1 DEF OpToRel
  <2> QED  BY <1>2, <2>1
<1> QED  BY <1>2

\* So some value has the fewest points.
LEMMA MildestExists ==
    ASSUME NEW points, Pointed(points)
    PROVE  Mildest(points) \in DOMAIN points
<1> DEFINE S == {points[v] : v \in DOMAIN points}
<1>1. S \subseteq Nat /\ S # {}
  BY DEF Pointed
<1>2. PICK n \in S : \A m \in Nat : m < n => m \notin S
  BY <1>1, LeastNumber
<1>3. PICK v \in DOMAIN points : points[v] = n
  BY <1>2
<1>4. \A w \in DOMAIN points : points[v] <= points[w]
  BY <1>1, <1>2, <1>3
<1> QED  BY <1>4 DEF Mildest

\* The tables several scorers share.
LEMMA SharedTables ==
    /\ \A p \in Nat : Pointed(Flag(p))
    /\ Pointed(priorWarnings) /\ Pointed(OneThird)
<1>1. ASSUME NEW p \in Nat PROVE Pointed(Flag(p))
  BY DEF Pointed, Flag
<1>2. Pointed(priorWarnings)
  <2>1. \A n \in 0..5 : Least(n * 5, 20) \in Nat
    BY DEF Least
  <2>2. 0 \in 0..5
    OBVIOUS
  <2> QED  BY <2>1, <2>2 DEF Pointed, priorWarnings
<1>3. Pointed(OneThird)
  <2>1. \A n \in {0, 2, 3, 89, 90, 100} : n \div 3 \in Nat
    OBVIOUS
  <2>2. \A m \in Nat : Least(30, m) \in Nat
    BY DEF Least
  <2> QED  BY <2>1, <2>2 DEF Pointed, OneThird
<1> QED  BY <1>1, <1>2, <1>3

\* The tables of the scorers, each by name.
LEMMA Tables ==
    /\ Pointed(TRANSACTION_TYPE_SCORE) /\ Pointed(RECIPIENT_RISK_SCORE) /\ Pointed(amountScore)
    /\ Pointed(IMPERSONATION_SCORE) /\ Pointed(REPUTATION_SCORE) /\ Pointed(CLAIM_TYPE_BASELINE)
    /\ Pointed(domainAgeScore) /\ Pointed(SIGNAL_WEIGHTS) /\ Pointed(CHANNEL_POINTS)
    /\ Pointed(RECIPIENT_POINTS) /\ Pointed(REASON_POINTS) /\ Pointed(BEHAVIOR_POINTS)
    /\ Pointed(amountBandPoints) /\ Pointed(AGE_GAP_POINTS) /\ Pointed(relationshipDurationPoints)
    /\ Pointed(STATUS_WEIGHT)
<1>1. Pointed(TRANSACTION_TYPE_SCORE)
  BY DEF Pointed, TRANSACTION_TYPE_SCORE
<1>2. Pointed(RECIPIENT_RISK_SCORE)
  BY DEF Pointed, RECIPIENT_RISK_SCORE
<1>3. Pointed(amountScore)
  BY DEF Pointed, amountScore, Amounts
<1>4. Pointed(IMPERSONATION_SCORE)
  BY DEF Pointed, IMPERSONATION_SCORE
<1>5. Pointed(REPUTATION_SCORE)
  BY DEF Pointed, REPUTATION_SCORE
<1>6. Pointed(CLAIM_TYPE_BASELINE)
  BY DEF Pointed, CLAIM_TYPE_BASELINE
<1>7. Pointed(domainAgeScore)
  BY DEF Pointed, domainAgeScore
<1>8. Pointed(SIGNAL_WEIGHTS)
  BY DEF Pointed, SIGNAL_WEIGHTS
<1>9. Pointed(CHANNEL_POINTS)
  BY DEF Pointed, CHANNEL_POINTS
<1>10. Pointed(RECIPIENT_POINTS)
  BY DEF Pointed, RECIPIENT_POINTS
<1>11. Pointed(REASON_POINTS)
  BY DEF Pointed, REASON_POINTS
<1>12. Pointed(BEHAVIOR_POINTS)
  BY DEF Pointed, BEHAVIOR_POINTS
<1>13. Pointed(amountBandPoints)
  BY DEF Pointed, amountBandPoints, Amounts
<1>14. Pointed(AGE_GAP_POINTS)
  BY DEF Pointed, AGE_GAP_POINTS
<1>15. Pointed(relationshipDurationPoints)
  BY DEF Pointed, relationshipDurationPoints
<1>16. Pointed(STATUS_WEIGHT)
  BY DEF Pointed, STATUS_WEIGHT
<1> QED  BY <1>1, <1>2, <1>3, <1>4, <1>5, <1>6, <1>7, <1>8, <1>9, <1>10, <1>11, <1>12, <1>13, <1>14, <1>15, <1>16

\* Every factor of every scorer.
LEMMA FactorsPointed == \A k \in DOMAIN Factors : \A f \in DOMAIN Factors[k] : Pointed(Factors[k][f])
<1>1. \A f \in DOMAIN scoreScamHold : Pointed(scoreScamHold[f])
  BY SharedTables, Tables DEF scoreScamHold
<1>2. \A f \in DOMAIN scoreGiftCardGuard : Pointed(scoreGiftCardGuard[f])
  <2>1. Pointed([always |-> 25])
    BY DEF Pointed
  <2> QED  BY <2>1, SharedTables, Tables DEF scoreGiftCardGuard
<1>3. \A f \in DOMAIN scoreWalletGuard : Pointed(scoreWalletGuard[f])
  BY SharedTables, Tables DEF scoreWalletGuard
<1>4. \A f \in DOMAIN scoreClaimVerify : Pointed(scoreClaimVerify[f])
  BY SharedTables, Tables DEF scoreClaimVerify
<1>5. \A f \in DOMAIN scoreSignals : Pointed(scoreSignals[f])
  BY SharedTables, Tables DEF scoreSignals, Pointed
<1>6. \A f \in DOMAIN tellerFactors : Pointed(tellerFactors[f])
  <2>1. \A f \in DOMAIN BEHAVIOR_POINTS : Pointed(Flag(BEHAVIOR_POINTS[f]))
    BY SharedTables, Tables DEF Pointed
  <2> QED  BY <2>1, SharedTables, Tables DEF tellerFactors
<1>7. \A f \in DOMAIN groomingFactors : Pointed(groomingFactors[f])
  BY SharedTables, Tables DEF groomingFactors
<1>8. \A f \in DOMAIN scamCheckFactors : Pointed(scamCheckFactors[f])
  <2>1. Pointed([none |-> 0, weak |-> Most(80, 40), strong |-> Most(80, 95)])
    BY DEF Pointed, Most
  <2>2. Pointed([n \in {1, 2, 7, 8} |-> Least(15, n * 2)])
    BY DEF Pointed, Least
  <2>3. Pointed([n \in 0 .. 4 |-> Least(20, n * 8)])
    <3>1. \A n \in 0 .. 4 : Least(20, n * 8) \in Nat
      BY DEF Least
    <3>2. 0 \in 0 .. 4
      OBVIOUS
    <3> QED  BY <3>1, <3>2 DEF Pointed
  <2> QED  BY <2>1, <2>2, <2>3, Tables DEF scamCheckFactors
<1>9. \A f \in DOMAIN nlpFactors : Pointed(nlpFactors[f])
  <2>1. Pointed([n \in 0 .. 7 |-> n * 12 + IF n = 0 THEN 10 ELSE 30])
    <3>1. \A n \in 0 .. 7 : (n * 12 + IF n = 0 THEN 10 ELSE 30) \in Nat
      OBVIOUS
    <3>2. 0 \in 0 .. 7
      OBVIOUS
    <3> QED  BY <3>1, <3>2 DEF Pointed
  <2>2. Pointed([n \in 0 .. 4 |-> n * 8])
    <3>1. \A n \in 0 .. 4 : n * 8 \in Nat
      OBVIOUS
    <3>2. 0 \in 0 .. 4
      OBVIOUS
    <3> QED  BY <3>1, <3>2 DEF Pointed
  <2> QED  BY <2>1, <2>2 DEF nlpFactors
<1>10. \A f \in DOMAIN fusionFactors : Pointed(fusionFactors[f])
  <2>1. Pointed([n \in {0, 40, 90} |-> n])
    BY DEF Pointed
  <2>2. Pointed([n \in 0 .. 3 |-> n])
    <3>1. 0 \in 0 .. 3
      OBVIOUS
    <3> QED  BY <3>1 DEF Pointed
  <2> QED  BY <2>1, <2>2, SharedTables DEF fusionFactors
<1> QED  BY <1>1, <1>2, <1>3, <1>4, <1>5, <1>6, <1>7, <1>8, <1>9, <1>10 DEF Factors

\* A case starts with the mildest value of each factor, and a fact that turns for the
\* worse takes another value its factor has points for.
LEMMA ScoringStart == ScoringInit => ScoringTypeOK
<1> SUFFICES ASSUME ScoringInit PROVE ScoringTypeOK
  OBVIOUS
<1>1. scorer \in DOMAIN Factors /\ facts = [f \in DOMAIN Factors[scorer] |-> Mildest(Factors[scorer][f])]
  BY DEF ScoringInit, Calmest
<1>2. \A f \in DOMAIN Factors[scorer] : Mildest(Factors[scorer][f]) \in DOMAIN Factors[scorer][f]
  BY <1>1, FactorsPointed, MildestExists
<1> QED  BY <1>1, <1>2 DEF ScoringTypeOK

\* A turned fact is a value of its factor, the others are what they were.
LEMMA ScoringStep == ScoringTypeOK /\ [ScoringNext]_scoringVars => ScoringTypeOK'
<1> SUFFICES ASSUME ScoringTypeOK, [ScoringNext]_scoringVars PROVE ScoringTypeOK'
  OBVIOUS
<1>1. CASE UNCHANGED scoringVars
  BY <1>1 DEF scoringVars, ScoringTypeOK
<1>2. ASSUME NEW f \in DOMAIN facts, NEW v \in DOMAIN Factors[scorer][f], Worsen(f, v)
      PROVE  ScoringTypeOK'
  <2>1. facts' = [facts EXCEPT ![f] = v] /\ scorer' = scorer
    BY <1>2 DEF Worsen
  <2>2. DOMAIN facts' = DOMAIN facts /\ facts'[f] = v /\ \A g \in DOMAIN facts \ {f} : facts'[g] = facts[g]
    BY <2>1
  <2> QED  BY <2>1, <2>2 DEF ScoringTypeOK
<1> QED  BY <1>1, <1>2 DEF ScoringNext

\* Whatever turns for the worse, each fact of a case is one its scorer has points for: no
\* total reads past its tables.
THEOREM ScoringKeepsTypes == ScoringSpec => []ScoringTypeOK
<1> QED  BY ScoringStart, ScoringStep, PTL DEF ScoringSpec

-----------------------------------------------------------------------------
(* Sums of points. *)

\* What MapThenSumSet runs through: the sum over each part of S, an element at a time.
Tallied(g, S, table, c) ==
    g = [s \in SUBSET S |-> IF s = {} THEN 0
                            ELSE LET x == CHOOSE x \in s : TRUE IN table[x][c[x]] + g[s \ {x}]]
Tally(S, table, c) == (CHOOSE g : Tallied(g, S, table, c))[S]

\* The points of a case are such a sum.
LEMMA PointsTally == ASSUME NEW k, NEW c PROVE Points(k, c) = Tally(DOMAIN Factors[k], Factors[k], c)
  BY DEF Points, Tally, Tallied, MapThenSumSet, MapThenFoldSet

\* So is what a teller sees of the customer.
LEMMA BehaviorTally == ASSUME NEW c PROVE behaviorTotal(c) = Tally(DOMAIN BEHAVIOR_POINTS, tellerFactors, c)
  BY DEF behaviorTotal, Tally, Tallied, MapThenSumSet, MapThenFoldSet

\* The parts of S with at most n elements.
Parts(S, n) == {s \in SUBSET S : Cardinality(s) <= n}
Partial(h, S, n, table, c) ==
    h = [s \in Parts(S, n) |-> IF s = {} THEN 0
                               ELSE LET x == CHOOSE x \in s : TRUE IN table[x][c[x]] + h[s \ {x}]]

\* Taking an element out of a part leaves a smaller one.
LEMMA Fewer ==
    ASSUME NEW S, IsFiniteSet(S), NEW n \in Nat, NEW s \in Parts(S, n), s # {}, NEW x, x = CHOOSE y \in s : TRUE
    PROVE  /\ x \in s /\ s \ {x} \in SUBSET S /\ IsFiniteSet(s) /\ Cardinality(s) \in Nat \ {0}
           /\ Cardinality(s \ {x}) = Cardinality(s) - 1
           /\ n > 0 /\ s \ {x} \in Parts(S, n - 1) /\ s \ {x} \in Parts(S, n)
<1>1. s \in SUBSET S /\ Cardinality(s) <= n /\ x \in s
  BY DEF Parts
<1>2. IsFiniteSet(s) /\ Cardinality(s) \in Nat /\ Cardinality(s) # 0
  BY <1>1, FS_Subset, FS_CardinalityType, FS_EmptySet
<1>3. Cardinality(s \ {x}) = Cardinality(s) - 1
  BY <1>1, <1>2, FS_RemoveElement
<1> QED  BY <1>1, <1>2, <1>3 DEF Parts

\* The sums exist, part by part of growing size.
LEMMA TallyExists ==
    ASSUME NEW S, IsFiniteSet(S), NEW table, NEW c
    PROVE  \E g : Tallied(g, S, table, c)
<1> DEFINE B == {n \in Nat : ~ \E h : Partial(h, S, n, table, c)}
<1>1. ASSUME B # {} PROVE FALSE
  <2>1. PICK n \in B : \A m \in Nat : m < n => m \notin B
    BY <1>1, LeastNumber
  <2>2. PICK h : n > 0 => Partial(h, S, n - 1, table, c)
    BY <2>1
  <2> DEFINE W(x) == table[x][c[x]]
             pick(s) == CHOOSE x \in s : TRUE
             g == [s \in Parts(S, n) |-> IF s = {} THEN 0 ELSE W(pick(s)) + h[s \ {pick(s)}]]
  <2>3. ASSUME NEW s \in Parts(S, n), s # {}
        PROVE  s \ {pick(s)} \in Parts(S, n) /\ g[s \ {pick(s)}] = h[s \ {pick(s)}]
    <3> DEFINE t == s \ {pick(s)}
    <3>1. n > 0 /\ t \in Parts(S, n - 1) /\ t \in Parts(S, n)
      BY <2>3, Fewer
    <3>2. h[t] = IF t = {} THEN 0 ELSE W(pick(t)) + h[t \ {pick(t)}]
      BY <2>2, <3>1 DEF Partial
    <3>3. g[t] = IF t = {} THEN 0 ELSE W(pick(t)) + h[t \ {pick(t)}]
      BY <3>1
    <3> QED  BY <3>1, <3>2, <3>3
  <2>4. g = [s \in Parts(S, n) |-> IF s = {} THEN 0 ELSE W(pick(s)) + g[s \ {pick(s)}]]
    <3> DEFINE e == [s \in Parts(S, n) |-> IF s = {} THEN 0 ELSE W(pick(s)) + g[s \ {pick(s)}]]
    <3>1. \A s \in Parts(S, n) : g[s] = IF s = {} THEN 0 ELSE W(pick(s)) + h[s \ {pick(s)}]
      OBVIOUS
    <3> HIDE DEF g
    <3>2. \A s \in Parts(S, n) : e[s] = g[s]
      BY <2>3, <3>1
    <3>3. g = [s \in Parts(S, n) |-> g[s]]
      BY DEF g
    <3> QED  BY <3>2, <3>3
  <2>5. Partial(g, S, n, table, c)
    <3> HIDE DEF g
    <3> QED  BY <2>4 DEF Partial
  <2> QED  BY <2>1, <2>5
<1>2. Cardinality(S) \in Nat
  BY FS_CardinalityType
<1>3. PICK h : Partial(h, S, Cardinality(S), table, c)
  BY <1>1, <1>2
<1>4. Parts(S, Cardinality(S)) = SUBSET S
  BY FS_Subset DEF Parts
<1> QED  BY <1>3, <1>4 DEF Partial, Tallied

\* A sum of points is a number, and no smaller when no summand is.
LEMMA TallyClimbs ==
    ASSUME NEW S, IsFiniteSet(S), NEW table, NEW c, NEW d,
           \A x \in S : table[x][c[x]] \in Nat /\ table[x][d[x]] \in Nat /\ table[x][c[x]] <= table[x][d[x]]
    PROVE  /\ Tally(S, table, c) \in Nat /\ Tally(S, table, d) \in Nat
           /\ Tally(S, table, c) <= Tally(S, table, d)
<1> DEFINE g == CHOOSE g : Tallied(g, S, table, c)
           h == CHOOSE h : Tallied(h, S, table, d)
           pick(s) == CHOOSE x \in s : TRUE
           Good(s) == g[s] \in Nat /\ h[s] \in Nat /\ g[s] <= h[s]
           B == {n \in Nat : \E s \in SUBSET S : Cardinality(s) = n /\ ~Good(s)}
<1>1. Tallied(g, S, table, c) /\ Tallied(h, S, table, d)
  BY TallyExists
<1> HIDE DEF g, h
<1>2. ASSUME B # {} PROVE FALSE
  <2>1. PICK n \in B : \A m \in Nat : m < n => m \notin B
    BY <1>2, LeastNumber
  <2>2. PICK s \in SUBSET S : Cardinality(s) = n /\ ~Good(s)
    BY <2>1
  <2>3. CASE s = {}
    <3>1. g[s] = 0 /\ h[s] = 0
      BY <1>1, <2>3 DEF Tallied
    <3> QED  BY <2>2, <3>1
  <2>4. CASE s # {}
    <3> DEFINE x == pick(s)
               t == s \ {x}
    <3>1. s \in Parts(S, n)
      BY <2>2, <2>1 DEF Parts
    <3>2. x \in s /\ t \in SUBSET S /\ Cardinality(t) = n - 1 /\ n - 1 \in Nat /\ n - 1 < n
      <4>1. n \in Nat
        BY <2>1
      <4>2. x = CHOOSE y \in s : TRUE
        OBVIOUS
      <4> HIDE DEF x, Good
      <4>3. x \in s /\ t \in SUBSET S /\ Cardinality(s) \in Nat \ {0} /\ Cardinality(t) = Cardinality(s) - 1
        <5>1. x \in s /\ s \ {x} \in SUBSET S /\ Cardinality(s) \in Nat \ {0} /\ IsFiniteSet(s)
          BY <2>4, <3>1, <4>1, <4>2, Fewer
        <5> QED  BY <5>1, FS_RemoveElement
      <4> HIDE DEF t
      <4> QED  BY <2>2, <4>3
    <3>3. Good(t)
      BY <2>1, <3>2
    <3>4. g[s] = table[x][c[x]] + g[t] /\ h[s] = table[x][d[x]] + h[t]
      BY <1>1, <2>4 DEF Tallied
    <3>5. table[x][c[x]] \in Nat /\ table[x][d[x]] \in Nat /\ table[x][c[x]] <= table[x][d[x]]
      BY <3>2
    <3> HIDE DEF x, t
    <3> QED  BY <2>2, <3>3, <3>4, <3>5
  <2> QED  BY <2>3, <2>4
<1>3. Cardinality(S) \in Nat
  BY FS_CardinalityType
<1>4. Good(S)
  BY <1>2, <1>3
<1> QED  BY <1>4 DEF Tally, g, h

-----------------------------------------------------------------------------
(* No scorer is reassured by bad news. *)

\* What is known of a case: a value for every factor of its scorer.
Known(k, c) == /\ c = [f \in DOMAIN Factors[k] |-> c[f]]
               /\ \A f \in DOMAIN Factors[k] : c[f] \in DOMAIN Factors[k][f]

\* d is c after one fact turned for the worse.
Turned(k, c, d, f) ==
    /\ k \in DOMAIN Factors /\ Known(k, c) /\ Known(k, d) /\ f \in DOMAIN Factors[k]
    /\ \A g \in DOMAIN Factors[k] : g # f => d[g] = c[g]
    /\ Factors[k][f][d[f]] > Factors[k][f][c[f]]

\* Every summand is a number, and none gets smaller.
LEMMA Summands ==
    ASSUME NEW k, NEW c, NEW d, NEW f, Turned(k, c, d, f), NEW g \in DOMAIN Factors[k]
    PROVE  /\ Factors[k][g][c[g]] \in Nat /\ Factors[k][g][d[g]] \in Nat
           /\ Factors[k][g][c[g]] <= Factors[k][g][d[g]]
           /\ d[g] = c[g] \/ Factors[k][g][c[g]] < Factors[k][g][d[g]]
<1>1. Pointed(Factors[k][g]) /\ c[g] \in DOMAIN Factors[k][g] /\ d[g] \in DOMAIN Factors[k][g]
  BY FactorsPointed DEF Turned, Known
<1>2. Factors[k][g][c[g]] \in Nat /\ Factors[k][g][d[g]] \in Nat
  BY <1>1 DEF Pointed
<1>3. CASE g = f
  BY <1>2, <1>3 DEF Turned
<1>4. CASE g # f
  BY <1>2, <1>4 DEF Turned
<1> QED  BY <1>2, <1>3, <1>4

\* Sets written out are finite.
LEMMA SmallSets ==
    ASSUME NEW a, NEW b, NEW c, NEW d, NEW e, NEW f
    PROVE  IsFiniteSet({a, b, c, d, e, f})
<1>1. IsFiniteSet({a}) /\ IsFiniteSet({b}) /\ IsFiniteSet({c}) /\ IsFiniteSet({d}) /\ IsFiniteSet({e}) /\ IsFiniteSet({f})
  BY FS_Singleton
<1>2. IsFiniteSet({a} \union {b}) /\ IsFiniteSet({c} \union {d}) /\ IsFiniteSet({e} \union {f})
  BY <1>1, FS_Union
<1>3. IsFiniteSet(({a} \union {b}) \union ({c} \union {d}))
  BY <1>2, FS_Union
<1>4. IsFiniteSet((({a} \union {b}) \union ({c} \union {d})) \union ({e} \union {f}))
  BY <1>2, <1>3, FS_Union
<1>5. (({a} \union {b}) \union ({c} \union {d})) \union ({e} \union {f}) = {a, b, c, d, e, f}
  OBVIOUS
<1> QED  BY <1>4, <1>5

\* And so are their unions.
LEMMA MoreSets ==
    ASSUME NEW S, NEW T, NEW U, IsFiniteSet(S), IsFiniteSet(T), IsFiniteSet(U)
    PROVE  IsFiniteSet(S \union T) /\ IsFiniteSet(S \union T \union U)
<1>1. IsFiniteSet(S \union T)
  BY FS_Union
<1>2. IsFiniteSet((S \union T) \union U)
  BY <1>1, FS_Union
<1> QED  BY <1>1, <1>2

\* A scorer has finitely many factors.
LEMMA FactorsFinite ==
    /\ \A k \in DOMAIN Factors \ {"fusion"} : IsFiniteSet(DOMAIN Factors[k])
    /\ IsFiniteSet(DOMAIN BEHAVIOR_POINTS)
<1>1. IsFiniteSet(DOMAIN scoreScamHold)
  <2> DEFINE A == {"transactionType", "amount", "recipientRisk", "urgency", "secrecy", "activeCommunication"}
             B == {"priorWarnings", "urgency", "urgency", "urgency", "urgency", "urgency"}
  <2>1. IsFiniteSet(A) /\ IsFiniteSet(B)
    BY SmallSets
  <2>2. DOMAIN scoreScamHold = A \union B
    BY DEF scoreScamHold
  <2> HIDE DEF A, B
  <2> QED  BY <2>1, <2>2, MoreSets
<1>2. IsFiniteSet(DOMAIN scoreGiftCardGuard)
  <2> DEFINE A == {"baseline", "codeReveal", "photoOfCode", "impersonation", "urgency", "secrecy"}
             B == {"elderMode", "priorWarnings", "urgency", "urgency", "urgency", "urgency"}
  <2>1. IsFiniteSet(A) /\ IsFiniteSet(B)
    BY SmallSets
  <2>2. DOMAIN scoreGiftCardGuard = A \union B
    BY DEF scoreGiftCardGuard
  <2> HIDE DEF A, B
  <2> QED  BY <2>1, <2>2, MoreSets
<1>3. IsFiniteSet(DOMAIN scoreWalletGuard)
  <2> DEFINE A == {"reputation", "clipboardSwap", "walletSwitched", "graphMatch", "urgency", "secrecy"}
             B == {"priorWarnings", "urgency", "urgency", "urgency", "urgency", "urgency"}
  <2>1. IsFiniteSet(A) /\ IsFiniteSet(B)
    BY SmallSets
  <2>2. DOMAIN scoreWalletGuard = A \union B
    BY DEF scoreWalletGuard
  <2> HIDE DEF A, B
  <2> QED  BY <2>1, <2>2, MoreSets
<1>4. IsFiniteSet(DOMAIN scoreClaimVerify)
  <2> DEFINE A == {"claimTypeBaseline", "domainAge", "locationMismatch", "imageReuse", "scamPhraseNlp", "paymentPressure"}
             B == {"secrecy", "urgency", "priorWarnings", "urgency", "urgency", "urgency"}
  <2>1. IsFiniteSet(A) /\ IsFiniteSet(B)
    BY SmallSets
  <2>2. DOMAIN scoreClaimVerify = A \union B
    BY DEF scoreClaimVerify
  <2> HIDE DEF A, B
  <2> QED  BY <2>1, <2>2, MoreSets
<1>5. IsFiniteSet(DOMAIN scoreSignals)
  <2> DEFINE A == {"REMOTE_ACCESS", "GIFT_CARD_REQUEST", "CRYPTO_TRANSFER", "WALLET_SWITCH", "FAKE_AUTHORITY", "THREAT_LANGUAGE"}
             B == {"URGENCY", "SECRECY", "ROMANCE_PRESSURE", "PAYMENT_PRESSURE", "ISOLATION", "ELDER_TARGETED"}
             C == {"DEVICE_COMPROMISE", "REMOTE_INPUT", "CLIPBOARD_HIJACK", "SCREEN_SHARE", "SUSPICIOUS_BROWSER", "unknown"}
  <2>1. IsFiniteSet(A) /\ IsFiniteSet(B) /\ IsFiniteSet(C)
    BY SmallSets
  <2>2. DOMAIN SIGNAL_WEIGHTS = A \union B \union C
    BY DEF SIGNAL_WEIGHTS
  <2>3. DOMAIN scoreSignals = DOMAIN SIGNAL_WEIGHTS
    BY DEF scoreSignals
  <2> HIDE DEF A, B, C
  <2> QED  BY <2>1, <2>2, <2>3, MoreSets
<1>6. IsFiniteSet(DOMAIN BEHAVIOR_POINTS)
  <2> DEFINE A == {"DISTRESSED", "CONFUSED", "ON_PHONE_DURING_TRANSACTION", "RECEIVING_INSTRUCTIONS_FROM_CALLER",
                   "COACHED_RESPONSES", "REFUSED_TO_EXPLAIN"}
             B == {"FIRST_TIME_LARGE_TRANSFER", "ELDERLY_AND_PRESSURED", "SECRECY_REQUESTED", "URGENCY_PRESSURE",
                   "CONFUSED", "DISTRESSED"}
  <2>1. IsFiniteSet(A) /\ IsFiniteSet(B)
    BY SmallSets
  <2>2. DOMAIN BEHAVIOR_POINTS = A \union B
    BY DEF BEHAVIOR_POINTS
  <2> HIDE DEF A, B
  <2> QED  BY <2>1, <2>2, MoreSets
<1>7. IsFiniteSet(DOMAIN tellerFactors)
  <2> DEFINE A == {"channel", "recipient", "reason", "amount", "elderMode", "elderMode"}
  <2>1. IsFiniteSet(A)
    BY SmallSets
  <2>2. DOMAIN tellerFactors = A \union DOMAIN BEHAVIOR_POINTS
    BY DEF tellerFactors
  <2> HIDE DEF A
  <2> QED  BY <1>6, <2>1, <2>2, MoreSets
<1>8. IsFiniteSet(DOMAIN groomingFactors)
  <2> DEFINE A == {"ageGap", "duration", "loveBombing", "isolation", "payment", "photo"}
             B == {"privateChannel", "pii", "minor", "minor", "minor", "minor"}
  <2>1. IsFiniteSet(A) /\ IsFiniteSet(B)
    BY SmallSets
  <2>2. DOMAIN groomingFactors = A \union B
    BY DEF groomingFactors
  <2> HIDE DEF A, B
  <2> QED  BY <2>1, <2>2, MoreSets
<1>9. IsFiniteSet(DOMAIN scamCheckFactors) /\ IsFiniteSet(DOMAIN nlpFactors)
  <2> DEFINE A == {"listing", "strongest", "reports", "language", "language", "language"}
             B == {"categories", "tactics", "tactics", "tactics", "tactics", "tactics"}
  <2>1. IsFiniteSet(A) /\ IsFiniteSet(B)
    BY SmallSets
  <2>2. DOMAIN scamCheckFactors = A /\ DOMAIN nlpFactors = B
    BY DEF scamCheckFactors, nlpFactors
  <2> HIDE DEF A, B
  <2> QED  BY <2>1, <2>2
<1>10. \A k \in DOMAIN Factors \ {"fusion"} :
          Factors[k] \in {scoreScamHold, scoreGiftCardGuard, scoreWalletGuard, scoreClaimVerify, scoreSignals,
                          tellerFactors, groomingFactors, scamCheckFactors, nlpFactors}
  BY DEF Factors
<1> QED  BY <1>1, <1>2, <1>3, <1>4, <1>5, <1>6, <1>7, <1>8, <1>9, <1>10

\* One fact for the worse leaves no fewer points.
LEMMA PointsClimb ==
    ASSUME NEW k, k # "fusion", NEW c, NEW d, NEW f, Turned(k, c, d, f)
    PROVE  Points(k, c) \in Nat /\ Points(k, d) \in Nat /\ Points(k, c) <= Points(k, d)
<1>1. k \in DOMAIN Factors \ {"fusion"}
  BY DEF Turned
<1>2. IsFiniteSet(DOMAIN Factors[k])
  BY <1>1, FactorsFinite
<1>3. \A g \in DOMAIN Factors[k] :
         /\ Factors[k][g][c[g]] \in Nat /\ Factors[k][g][d[g]] \in Nat
         /\ Factors[k][g][c[g]] <= Factors[k][g][d[g]]
  BY Summands
<1> DEFINE table == Factors[k]
           S == DOMAIN table
<1>4. IsFiniteSet(S) /\ \A g \in S : table[g][c[g]] \in Nat /\ table[g][d[g]] \in Nat /\ table[g][c[g]] <= table[g][d[g]]
  BY <1>2, <1>3
<1>5. Points(k, c) = Tally(S, table, c) /\ Points(k, d) = Tally(S, table, d)
  BY PointsTally
<1> HIDE DEF S, table
<1> QED  BY <1>4, <1>5, TallyClimbs

\* The bounds of every scorer.
LEMMA Clamped ==
    ASSUME NEW a \in Nat, NEW b \in Nat, a <= b
    PROVE  /\ clampScore(a) \in 0 .. 100 /\ clampScore(b) \in 0 .. 100 /\ clampScore(a) <= clampScore(b)
           /\ Least(70, a) \in Nat /\ Least(70, b) \in Nat /\ Least(70, a) <= Least(70, b)
  BY DEF clampScore, Least, Most

Climbs(k, c, d) == Score(k, c) \in 0 .. 100 /\ Score(k, d) \in 0 .. 100 /\ Score(k, c) <= Score(k, d)

\* Capped at 70 by the language scorer and clamped by all.
LEMMA SumsClimb ==
    ASSUME NEW k, k \notin {"fusion", "scamCheck"}, NEW c, NEW d, NEW f, Turned(k, c, d, f)
    PROVE  Climbs(k, c, d)
<1>1. Points(k, c) \in Nat /\ Points(k, d) \in Nat /\ Points(k, c) <= Points(k, d)
  BY PointsClimb
<1>2. CASE k = "nlp"
  <2>1. /\ Least(70, Points(k, c)) \in Nat /\ Least(70, Points(k, d)) \in Nat
        /\ Least(70, Points(k, c)) <= Least(70, Points(k, d))
    BY <1>1, Clamped
  <2>2. Score(k, c) = clampScore(Least(70, Points(k, c))) /\ Score(k, d) = clampScore(Least(70, Points(k, d)))
    BY <1>2 DEF Score
  <2> QED  BY <2>1, <2>2, Clamped DEF Climbs
<1>3. CASE k # "nlp"
  <2>1. Score(k, c) = clampScore(Points(k, c)) /\ Score(k, d) = clampScore(Points(k, d))
    BY <1>3 DEF Score
  <2> QED  BY <1>1, <2>1, Clamped DEF Climbs
<1> QED  BY <1>2, <1>3

\* The check of a text, a link or a number: the stronger of the listing and the best
\* cluster, its reports, and the language.
LEMMA ScamCheckClimbs ==
    ASSUME NEW c, NEW d, NEW f, Turned("scamCheck", c, d, f)
    PROVE  Climbs("scamCheck", c, d)
<1> DEFINE p == scamCheckFactors
<1>1. Factors["scamCheck"] = p
  BY DEF Factors
<1>2. DOMAIN p = {"listing", "strongest", "reports", "language"}
  BY DEF scamCheckFactors
<1>3. \A g \in DOMAIN p : /\ p[g][c[g]] \in Nat /\ p[g][d[g]] \in Nat /\ p[g][c[g]] <= p[g][d[g]]
                          /\ d[g] = c[g] \/ p[g][c[g]] < p[g][d[g]]
  BY <1>1, Summands
<1>4. p.strongest["none"] = 0
  BY DEF scamCheckFactors, STATUS_WEIGHT
<1> HIDE DEF p
<1> DEFINE cl == p.listing[c.listing]  dl == p.listing[d.listing]
           cs == p.strongest[c.strongest]  ds == p.strongest[d.strongest]
           cr == p.reports[c.reports]  dr == p.reports[d.reports]
           cw == p.language[c.language]  dw == p.language[d.language]
<1>5. /\ cl \in Nat /\ dl \in Nat /\ cl <= dl
      /\ cs \in Nat /\ ds \in Nat /\ cs <= ds
      /\ cr \in Nat /\ dr \in Nat /\ cr <= dr
      /\ cw \in Nat /\ dw \in Nat /\ cw <= dw
  BY <1>2, <1>3
<1>6. d.strongest = "none" => c.strongest = "none"
  BY <1>2, <1>3, <1>4
<1> DEFINE a == Most(cl, cs) + (IF c.strongest = "none" THEN 0 ELSE cr) + cw
           b == Most(dl, ds) + (IF d.strongest = "none" THEN 0 ELSE dr) + dw
<1>7. scoreScamCheck(c) = a /\ scoreScamCheck(d) = b
  BY DEF scoreScamCheck, p
<1> HIDE DEF cl, dl, cs, ds, cr, dr, cw, dw
<1>8. a \in Nat /\ b \in Nat /\ a <= b
  BY <1>5, <1>6 DEF Most
<1>9. Score("scamCheck", c) = clampScore(a) /\ Score("scamCheck", d) = clampScore(b)
  BY <1>7 DEF Score
<1> HIDE DEF a, b
<1> QED  BY <1>8, <1>9, Clamped DEF Climbs

\* The least of a set of rule numbers is the first that matches.
LEMMA LeastIs ==
    ASSUME NEW S, S \subseteq Int, NEW i \in S, \A j \in S : i <= j
    PROVE  Min(S) = i
<1>1. \A j \in S : (\A y \in S : j =< y) => j = i
  OBVIOUS
<1> QED  BY <1>1 DEF Min

\* The stage: the first of the four keyword rules.
LEMMA JourneyIs ==
    ASSUME NEW m
    PROVE  stubAssessJourney("none", m) =
             IF "PAYMENT_REQUEST" \in m THEN "PAYMENT_REQUEST"
             ELSE IF "URGENCY_INJECTION" \in m THEN "URGENCY_INJECTION"
             ELSE IF "INFORMATION_GATHERING" \in m THEN "INFORMATION_GATHERING"
             ELSE IF "TRUST_BUILDING" \in m THEN "TRUST_BUILDING" ELSE "INITIAL_CONTACT"
<1> DEFINE r == JOURNEY_RULES
           hits == {i \in DOMAIN r : r[i] \in m}
<1>1. /\ DOMAIN r = {1, 2, 3, 4}
      /\ r[1] = "PAYMENT_REQUEST" /\ r[2] = "URGENCY_INJECTION" /\ r[3] = "INFORMATION_GATHERING" /\ r[4] = "TRUST_BUILDING"
  BY DEF JOURNEY_RULES
<1>2. stubAssessJourney("none", m) = IF hits = {} THEN "INITIAL_CONTACT" ELSE r[Min(hits)]
  BY DEF stubAssessJourney, FirstMatch
<1> HIDE DEF r
<1>3. CASE r[1] \in m
  <2>1. Min(hits) = 1
    <3>1. 1 \in hits /\ hits \subseteq Int /\ \A j \in hits : 1 <= j
      BY <1>1, <1>3
    <3> HIDE DEF hits
    <3> QED  BY <3>1, LeastIs
  <2>2. hits # {}
    BY <1>1, <1>3
  <2> QED  BY <1>1, <1>2, <1>3, <2>1, <2>2
<1>4. CASE r[1] \notin m /\ r[2] \in m
  <2>1. Min(hits) = 2
    <3>1. 2 \in hits /\ hits \subseteq Int /\ \A j \in hits : 2 <= j
      BY <1>1, <1>4
    <3> HIDE DEF hits
    <3> QED  BY <3>1, LeastIs
  <2>2. hits # {}
    BY <1>1, <1>4
  <2> QED  BY <1>1, <1>2, <1>4, <2>1, <2>2
<1>5. CASE r[1] \notin m /\ r[2] \notin m /\ r[3] \in m
  <2>1. Min(hits) = 3
    <3>1. 3 \in hits /\ hits \subseteq Int /\ \A j \in hits : 3 <= j
      BY <1>1, <1>5
    <3> HIDE DEF hits
    <3> QED  BY <3>1, LeastIs
  <2>2. hits # {}
    BY <1>1, <1>5
  <2> QED  BY <1>1, <1>2, <1>5, <2>1, <2>2
<1>6. CASE r[1] \notin m /\ r[2] \notin m /\ r[3] \notin m /\ r[4] \in m
  <2>1. Min(hits) = 4
    <3>1. 4 \in hits /\ hits \subseteq Int /\ \A j \in hits : 4 <= j
      BY <1>1, <1>6
    <3> HIDE DEF hits
    <3> QED  BY <3>1, LeastIs
  <2>2. hits # {}
    BY <1>1, <1>6
  <2> QED  BY <1>1, <1>2, <1>6, <2>1, <2>2
<1>7. CASE r[1] \notin m /\ r[2] \notin m /\ r[3] \notin m /\ r[4] \notin m
  <2>1. hits = {}
    BY <1>1, <1>7
  <2> QED  BY <1>1, <1>2, <1>7, <2>1
<1> QED  BY <1>3, <1>4, <1>5, <1>6, <1>7

\* The victim's state: the first of the five.
LEMMA StateIs ==
    ASSUME NEW m
    PROVE  stubAssessVictimState("none", m) =
             IF "COMPROMISED" \in m THEN "COMPROMISED" ELSE IF "ALARMED" \in m THEN "ALARMED"
             ELSE IF "PRESSURED" \in m THEN "PRESSURED" ELSE IF "CONFUSED" \in m THEN "CONFUSED"
             ELSE IF "TRUSTING" \in m THEN "TRUSTING" ELSE "CALM"
<1> DEFINE r == VICTIM_RULES
           hits == {i \in DOMAIN r : r[i] \in m}
           First(i) == i \in DOMAIN r /\ r[i] \in m /\ \A j \in DOMAIN r : j < i => r[j] \notin m
<1>1. /\ DOMAIN r = {1, 2, 3, 4, 5}
      /\ r[1] = "COMPROMISED" /\ r[2] = "ALARMED" /\ r[3] = "PRESSURED" /\ r[4] = "CONFUSED" /\ r[5] = "TRUSTING"
  BY DEF VICTIM_RULES
<1>2. stubAssessVictimState("none", m) = IF hits = {} THEN "CALM" ELSE r[Min(hits)]
  BY DEF stubAssessVictimState, FirstMatch
<1> HIDE DEF r
<1>3. ASSUME NEW i, First(i) PROVE stubAssessVictimState("none", m) = r[i]
  <2>1. i \in hits /\ hits \subseteq Int /\ \A j \in hits : i <= j
    BY <1>1, <1>3
  <2> HIDE DEF hits
  <2>2. Min(hits) = i
    BY <2>1, LeastIs
  <2> QED  BY <1>2, <2>1, <2>2
<1>4. (\A i \in DOMAIN r : r[i] \notin m) => stubAssessVictimState("none", m) = "CALM"
  BY <1>2
<1>5. CASE r[1] \in m
  <2>1. First(1)
    BY <1>1, <1>5
  <2> QED  BY <1>1, <1>3, <1>5, <2>1
<1>6. CASE r[1] \notin m /\ r[2] \in m
  <2>1. First(2)
    BY <1>1, <1>6
  <2> QED  BY <1>1, <1>3, <1>6, <2>1
<1>7. CASE r[1] \notin m /\ r[2] \notin m /\ r[3] \in m
  <2>1. First(3)
    BY <1>1, <1>7
  <2> QED  BY <1>1, <1>3, <1>7, <2>1
<1>8. CASE r[1] \notin m /\ r[2] \notin m /\ r[3] \notin m /\ r[4] \in m
  <2>1. First(4)
    BY <1>1, <1>8
  <2> QED  BY <1>1, <1>3, <1>8, <2>1
<1>9. CASE r[1] \notin m /\ r[2] \notin m /\ r[3] \notin m /\ r[4] \notin m /\ r[5] \in m
  <2>1. First(5)
    BY <1>1, <1>9
  <2> QED  BY <1>1, <1>3, <1>9, <2>1
<1>10. CASE r[1] \notin m /\ r[2] \notin m /\ r[3] \notin m /\ r[4] \notin m /\ r[5] \notin m
  BY <1>1, <1>4, <1>10
<1> QED  BY <1>5, <1>6, <1>7, <1>8, <1>9, <1>10

\* More keywords put no milder stage, counting the move that follows it, and no milder
\* state unless CONFUSED comes before TRUSTING.
LEMMA RulesClimb ==
    ASSUME NEW m, NEW n, m \subseteq n
    PROVE  LET s == stubAssessJourney("none", m)  t == stubAssessJourney("none", n)
               u == stubAssessVictimState("none", m)  v == stubAssessVictimState("none", n)
           IN  /\ STAGE_WEIGHT[s] + ACTION_WEIGHT[NEXT_MOVE_MAP[s]] \in Nat
               /\ STAGE_WEIGHT[t] + ACTION_WEIGHT[NEXT_MOVE_MAP[t]] \in Nat
               /\ STAGE_WEIGHT[s] + ACTION_WEIGHT[NEXT_MOVE_MAP[s]]
                     <= STAGE_WEIGHT[t] + ACTION_WEIGHT[NEXT_MOVE_MAP[t]]
               /\ STATE_WEIGHT[u] \in Nat /\ STATE_WEIGHT[v] \in Nat
               /\ ("TRUSTING" \notin m \/ "CONFUSED" \notin n \/ "CONFUSED" \in m) =>
                     STATE_WEIGHT[u] <= STATE_WEIGHT[v]
<1> DEFINE s == stubAssessJourney("none", m)
           t == stubAssessJourney("none", n)
           u == stubAssessVictimState("none", m)
           v == stubAssessVictimState("none", n)
           W(x) == STAGE_WEIGHT[x] + ACTION_WEIGHT[NEXT_MOVE_MAP[x]]
<1>1. /\ W("PAYMENT_REQUEST") = 48 /\ W("URGENCY_INJECTION") = 45 /\ W("INFORMATION_GATHERING") = 30
      /\ W("TRUST_BUILDING") = 22 /\ W("INITIAL_CONTACT") = 17
  BY DEF STAGE_WEIGHT, ACTION_WEIGHT, NEXT_MOVE_MAP
<1>2. /\ STATE_WEIGHT["COMPROMISED"] = 25 /\ STATE_WEIGHT["ALARMED"] = 20 /\ STATE_WEIGHT["PRESSURED"] = 15
      /\ STATE_WEIGHT["CONFUSED"] = 10 /\ STATE_WEIGHT["TRUSTING"] = 12 /\ STATE_WEIGHT["CALM"] = 0
  BY DEF STATE_WEIGHT
<1> HIDE DEF W
<1>3. W(s) \in Nat /\ W(t) \in Nat /\ W(s) <= W(t)
  <2>1. s = IF "PAYMENT_REQUEST" \in m THEN "PAYMENT_REQUEST"
            ELSE IF "URGENCY_INJECTION" \in m THEN "URGENCY_INJECTION"
            ELSE IF "INFORMATION_GATHERING" \in m THEN "INFORMATION_GATHERING"
            ELSE IF "TRUST_BUILDING" \in m THEN "TRUST_BUILDING" ELSE "INITIAL_CONTACT"
    BY JourneyIs
  <2>2. t = IF "PAYMENT_REQUEST" \in n THEN "PAYMENT_REQUEST"
            ELSE IF "URGENCY_INJECTION" \in n THEN "URGENCY_INJECTION"
            ELSE IF "INFORMATION_GATHERING" \in n THEN "INFORMATION_GATHERING"
            ELSE IF "TRUST_BUILDING" \in n THEN "TRUST_BUILDING" ELSE "INITIAL_CONTACT"
    BY JourneyIs
  <2> HIDE DEF s, t
  <2> QED  BY <1>1, <2>1, <2>2
<1>4. /\ STATE_WEIGHT[u] \in Nat /\ STATE_WEIGHT[v] \in Nat
      /\ ("TRUSTING" \notin m \/ "CONFUSED" \notin n \/ "CONFUSED" \in m) => STATE_WEIGHT[u] <= STATE_WEIGHT[v]
  <2>1. u = IF "COMPROMISED" \in m THEN "COMPROMISED" ELSE IF "ALARMED" \in m THEN "ALARMED"
            ELSE IF "PRESSURED" \in m THEN "PRESSURED" ELSE IF "CONFUSED" \in m THEN "CONFUSED"
            ELSE IF "TRUSTING" \in m THEN "TRUSTING" ELSE "CALM"
    BY StateIs
  <2>2. v = IF "COMPROMISED" \in n THEN "COMPROMISED" ELSE IF "ALARMED" \in n THEN "ALARMED"
            ELSE IF "PRESSURED" \in n THEN "PRESSURED" ELSE IF "CONFUSED" \in n THEN "CONFUSED"
            ELSE IF "TRUSTING" \in n THEN "TRUSTING" ELSE "CALM"
    BY StateIs
  <2> HIDE DEF u, v
  <2> QED  BY <1>2, <2>1, <2>2
<1> QED  BY <1>3, <1>4 DEF W

\* The fusion: a base score, the stage with its next move, the state, and what failed.
LEMMA FusionClimbs ==
    ASSUME NEW c, NEW d, NEW f, Turned("fusion", c, d, f),
           ~(c.TRUSTING = "yes" /\ d.CONFUSED = "yes" /\ c.CONFUSED = "no")
    PROVE  Climbs("fusion", c, d)
<1> DEFINE p == fusionFactors
           m == {w \in Keywords : c[w] = "yes"}
           n == {w \in Keywords : d[w] = "yes"}
           s == stubAssessJourney("none", m)
           t == stubAssessJourney("none", n)
           u == stubAssessVictimState("none", m)
           v == stubAssessVictimState("none", n)
           W(x) == STAGE_WEIGHT[x] + ACTION_WEIGHT[NEXT_MOVE_MAP[x]]
<1>1. Factors["fusion"] = p
  BY DEF Factors
<1>2. /\ Keywords \subseteq DOMAIN p /\ "base" \in DOMAIN p /\ "failures" \in DOMAIN p
      /\ p["base"] = [x \in {0, 40, 90} |-> x] /\ p["failures"] = [x \in 0 .. 3 |-> x]
      /\ "base" \notin Keywords /\ "failures" \notin Keywords
      /\ "TRUSTING" \in Keywords /\ "CONFUSED" \in Keywords
      /\ \A w \in Keywords : p[w] = Flag(1)
  BY DEF fusionFactors, Keywords, JOURNEY_RULES, VICTIM_RULES
<1>3. \A g \in DOMAIN p : /\ p[g][c[g]] \in Nat /\ p[g][d[g]] \in Nat /\ p[g][c[g]] <= p[g][d[g]]
                          /\ d[g] = c[g] \/ p[g][c[g]] < p[g][d[g]]
                          /\ c[g] \in DOMAIN p[g] /\ d[g] \in DOMAIN p[g]
  <2>1. \A g \in DOMAIN p : c[g] \in DOMAIN p[g] /\ d[g] \in DOMAIN p[g]
    BY <1>1 DEF Turned, Known
  <2> QED  BY <1>1, <2>1, Summands
<1> HIDE DEF p
<1>4. \A w \in Keywords : c[w] \in {"no", "yes"} /\ d[w] \in {"no", "yes"} /\ (c[w] = "yes" => d[w] = "yes")
  <2>1. DOMAIN Flag(1) = {"no", "yes"} /\ Flag(1)["no"] = 0 /\ Flag(1)["yes"] = 1
    BY DEF Flag
  <2> QED  BY <1>2, <1>3, <2>1
<1>5. m \subseteq n
  BY <1>4
<1>6. "TRUSTING" \notin m \/ "CONFUSED" \notin n \/ "CONFUSED" \in m
  BY <1>2, <1>4
<1>7. /\ c.base \in Nat /\ d.base \in Nat /\ c.base <= d.base
      /\ c.failures \in Nat /\ d.failures \in Nat /\ c.failures <= d.failures
  <2>1. c["base"] \in {0, 40, 90} /\ d["base"] \in {0, 40, 90} /\ c["failures"] \in 0 .. 3 /\ d["failures"] \in 0 .. 3
    BY <1>2, <1>3
  <2>2. p["base"][c["base"]] = c["base"] /\ p["base"][d["base"]] = d["base"]
        /\ p["failures"][c["failures"]] = c["failures"] /\ p["failures"][d["failures"]] = d["failures"]
    BY <1>2, <2>1
  <2> QED  BY <1>2, <1>3, <2>1, <2>2
<1>8. W(s) \in Nat /\ W(t) \in Nat /\ W(s) <= W(t)
      /\ STATE_WEIGHT[u] \in Nat /\ STATE_WEIGHT[v] \in Nat /\ STATE_WEIGHT[u] <= STATE_WEIGHT[v]
  <2> HIDE DEF m, n
  <2> QED  BY <1>5, <1>6, RulesClimb
<1>9. \A x \in {"PAYMENT_REQUEST", "URGENCY_INJECTION", "INFORMATION_GATHERING", "TRUST_BUILDING", "INITIAL_CONTACT"} :
         STAGE_WEIGHT[x] \in Nat /\ ACTION_WEIGHT[NEXT_MOVE_MAP[x]] \in Nat
  BY DEF STAGE_WEIGHT, ACTION_WEIGHT, NEXT_MOVE_MAP
<1>10. /\ STAGE_WEIGHT[s] \in Nat /\ ACTION_WEIGHT[NEXT_MOVE_MAP[s]] \in Nat
       /\ STAGE_WEIGHT[t] \in Nat /\ ACTION_WEIGHT[NEXT_MOVE_MAP[t]] \in Nat
  <2> HIDE DEF m, n
  <2>1. s \in {"PAYMENT_REQUEST", "URGENCY_INJECTION", "INFORMATION_GATHERING", "TRUST_BUILDING", "INITIAL_CONTACT"}
    BY JourneyIs
  <2>2. t \in {"PAYMENT_REQUEST", "URGENCY_INJECTION", "INFORMATION_GATHERING", "TRUST_BUILDING", "INITIAL_CONTACT"}
    BY JourneyIs
  <2> HIDE DEF s, t
  <2> QED  BY <1>9, <2>1, <2>2
<1> DEFINE a == c.base + STAGE_WEIGHT[s] + STATE_WEIGHT[u] + ACTION_WEIGHT[NEXT_MOVE_MAP[s]]
                       + Least(30, Most(0, c.failures) * 15)
           b == d.base + STAGE_WEIGHT[t] + STATE_WEIGHT[v] + ACTION_WEIGHT[NEXT_MOVE_MAP[t]]
                       + Least(30, Most(0, d.failures) * 15)
<1>11. fusedScore(c) = a /\ fusedScore(d) = b
  BY DEF fusedScore, fuseRiskScore
<1>12. /\ Least(30, Most(0, c.failures) * 15) \in Nat /\ Least(30, Most(0, d.failures) * 15) \in Nat
       /\ Least(30, Most(0, c.failures) * 15) <= Least(30, Most(0, d.failures) * 15)
  <2> DEFINE x == c.failures  y == d.failures
  <2> HIDE DEF x, y
  <2>1. x \in Nat /\ y \in Nat /\ x <= y
    BY <1>7 DEF x, y
  <2>2. Most(0, x) = x /\ Most(0, y) = y
    BY <2>1 DEF Most
  <2>3. Least(30, x * 15) \in Nat /\ Least(30, y * 15) \in Nat /\ Least(30, x * 15) <= Least(30, y * 15)
    BY <2>1 DEF Least
  <2> QED  BY <2>2, <2>3 DEF x, y
<1> HIDE DEF m, n, s, t, u, v
<1>13. a \in Nat /\ b \in Nat /\ a <= b
  <2> DEFINE x == Least(30, Most(0, c.failures) * 15)  y == Least(30, Most(0, d.failures) * 15)
             g == c.base  h == d.base  i == STAGE_WEIGHT[s]  j == STAGE_WEIGHT[t]
             k == ACTION_WEIGHT[NEXT_MOVE_MAP[s]]  l == ACTION_WEIGHT[NEXT_MOVE_MAP[t]]
             q == STATE_WEIGHT[u]  r == STATE_WEIGHT[v]
  <2>1. /\ x \in Nat /\ y \in Nat /\ x <= y /\ g \in Nat /\ h \in Nat /\ g <= h
        /\ i \in Nat /\ j \in Nat /\ k \in Nat /\ l \in Nat /\ i + k <= j + l
        /\ q \in Nat /\ r \in Nat /\ q <= r
    BY <1>7, <1>8, <1>10, <1>12
  <2>2. a = g + i + q + k + x /\ b = h + j + r + l + y
    OBVIOUS
  <2> HIDE DEF x, y, g, h, i, j, k, l, q, r, a, b
  <2> QED  BY <2>1, <2>2
<1>14. Score("fusion", c) = clampScore(a) /\ Score("fusion", d) = clampScore(b)
  BY <1>11 DEF Score
<1> HIDE DEF a, b
<1> QED  BY <1>13, <1>14, Clamped DEF Climbs

\* Levels and what they recommend, mildest first.
LEMMA Severities ==
    /\ Severity["LOW"] = 0 /\ Severity["MEDIUM"] = 1 /\ Severity["HIGH"] = 2 /\ Severity["CRITICAL"] = 3
    /\ Severity["MONITOR_SESSION"] = 0 /\ Severity["WARN_USER"] = 1 /\ Severity["REQUIRE_VERIFICATION"] = 2
    /\ Severity["TRIGGER_INTERVENTION"] = 3
    /\ Severity["PROCEED_WITH_NORMAL_CAUTION"] = 0 /\ Severity["VERIFY_BEFORE_PROCEEDING"] = 1
    /\ Severity["DO_NOT_PROCEED_VERIFY_INDEPENDENTLY"] = 2
    /\ Severity["STOP_DO_NOT_SEND_MONEY_OR_INFORMATION"] = 3
    /\ Severity["PROCEED"] = 0 /\ Severity["VERIFY_VERBALLY"] = 1 /\ Severity["CALL_FAMILY_OR_TRUSTED_CONTACT"] = 2
    /\ Severity["DELAY_AND_ESCALATE_TO_ANALYST"] = 3 /\ Severity["REFUSE_AND_ESCALATE_TO_FRAUD"] = 4
    /\ Severity["NONE"] = 0 /\ Severity["MONITOR"] = 1 /\ Severity["SOFT_INTERVENE"] = 2
    /\ Severity["HARD_INTERVENE"] = 3 /\ Severity["SUSPEND_USER"] = 4
    /\ Severity["ESCALATE_TO_TRUST_AND_SAFETY"] = 5 /\ Severity["ESCALATE_TO_LAW_ENFORCEMENT"] = 6
  BY DEF Severity

\* A verdict after bad news, against the one before.
Worsens(then, now) ==
    /\ now.score \in 0 .. 100
    /\ now.score >= then.score
    /\ Severity[now.level] >= Severity[then.level]
    /\ Severity[now.action] >= Severity[then.action]

\* The scorers that read level and recommendation off the score.
LEMMA PlainVerdict ==
    ASSUME NEW k, k \notin {"teller", "grooming"}, NEW c, NEW d, Climbs(k, c, d)
    PROVE  Worsens(Verdict(k, c), Verdict(k, d))
<1> DEFINE a == Score(k, c)
           b == Score(k, d)
           Action(l) == IF k = "scamCheck" THEN recommendedAction(l) ELSE recommendedActionForLevel(l)
<1>1. a \in 0 .. 100 /\ b \in 0 .. 100 /\ a <= b
  BY DEF Climbs
<1>2. /\ Verdict(k, c) = [score |-> a, level |-> levelForScore(a), action |-> Action(levelForScore(a))]
      /\ Verdict(k, d) = [score |-> b, level |-> levelForScore(b), action |-> Action(levelForScore(b))]
  BY DEF Verdict
<1>3. Severity[levelForScore(b)] >= Severity[levelForScore(a)]
  <2> HIDE DEF a, b
  <2> QED  BY <1>1, Severities DEF levelForScore
<1>4. Severity[Action(levelForScore(b))] >= Severity[Action(levelForScore(a))]
  <2> HIDE DEF a, b
  <2> QED  BY <1>1, Severities DEF levelForScore, recommendedAction, recommendedActionForLevel
<1> HIDE DEF a, b, Action
<1> QED  BY <1>1, <1>2, <1>3, <1>4 DEF Worsens

\* The bands of the portals, in order.
LEMMA PortalLevels ==
    ASSUME NEW a \in 0 .. 100, NEW b \in 0 .. 100, a <= b
    PROVE  /\ portalLevel(a) \in {"LOW", "MEDIUM", "HIGH", "CRITICAL"}
           /\ portalLevel(b) \in {"LOW", "MEDIUM", "HIGH", "CRITICAL"}
           /\ Severity[portalLevel(a)] <= Severity[portalLevel(b)]
  BY Severities DEF portalLevel

\* A flag that was raised stays raised.
LEMMA FlagStays ==
    ASSUME NEW k, NEW c, NEW d, NEW f, Turned(k, c, d, f),
           NEW g \in DOMAIN Factors[k], NEW p \in Nat, Factors[k][g] = Flag(p), c[g] = "yes"
    PROVE  d[g] = "yes"
<1>1. DOMAIN Flag(p) = {"no", "yes"} /\ Flag(p)["no"] = 0 /\ Flag(p)["yes"] = p
  BY DEF Flag
<1>2. d[g] \in DOMAIN Flag(p) /\ Flag(p)[c[g]] <= Flag(p)[d[g]] /\ (d[g] = c[g] \/ Flag(p)[c[g]] < Flag(p)[d[g]])
  BY Summands DEF Turned, Known
<1> QED  BY <1>1, <1>2

\* The bank's counter.
LEMMA TellerVerdict ==
    ASSUME NEW c, NEW d, NEW f, Turned("teller", c, d, f), Climbs("teller", c, d)
    PROVE  Worsens(Verdict("teller", c), Verdict("teller", d))
<1> DEFINE a == Score("teller", c)
           b == Score("teller", d)
           F == Factors["teller"]
<1>1. a \in 0 .. 100 /\ b \in 0 .. 100 /\ a <= b
  BY DEF Climbs
<1>2. F = tellerFactors
  BY DEF Factors
<1>3. /\ DOMAIN F = {"channel", "recipient", "reason", "amount", "elderMode"} \union DOMAIN BEHAVIOR_POINTS
      /\ F["reason"] = REASON_POINTS /\ F["elderMode"] = Flag(15)
      /\ "RECEIVING_INSTRUCTIONS_FROM_CALLER" \in DOMAIN BEHAVIOR_POINTS
      /\ F["RECEIVING_INSTRUCTIONS_FROM_CALLER"] = Flag(35)
  BY <1>2 DEF tellerFactors, BEHAVIOR_POINTS
<1>4. c.RECEIVING_INSTRUCTIONS_FROM_CALLER = "yes" => d.RECEIVING_INSTRUCTIONS_FROM_CALLER = "yes"
  <2> HIDE DEF F
  <2>1. 35 \in Nat /\ "RECEIVING_INSTRUCTIONS_FROM_CALLER" \in DOMAIN F
    BY <1>3
  <2> QED  BY <1>3, <2>1, FlagStays DEF F
<1>5. c.elderMode = "yes" => d.elderMode = "yes"
  <2> HIDE DEF F
  <2>1. 15 \in Nat /\ "elderMode" \in DOMAIN F
    BY <1>3
  <2> QED  BY <1>3, <2>1, FlagStays DEF F
<1>6. c.reason \in {"LOTTERY_OR_PRIZE_FEE", "TECH_SUPPORT_FEE"} => d.reason \in {"LOTTERY_OR_PRIZE_FEE", "TECH_SUPPORT_FEE"}
  <2>1. /\ REASON_POINTS["LOTTERY_OR_PRIZE_FEE"] = 40 /\ REASON_POINTS["TECH_SUPPORT_FEE"] = 35
        /\ \A r \in DOMAIN REASON_POINTS : REASON_POINTS[r] > 35 => r = "LOTTERY_OR_PRIZE_FEE"
    BY DEF REASON_POINTS
  <2>2. "reason" \in DOMAIN F
    BY <1>3
  <2>3. /\ d["reason"] \in DOMAIN REASON_POINTS
        /\ d["reason"] = c["reason"] \/ REASON_POINTS[c["reason"]] < REASON_POINTS[d["reason"]]
        /\ REASON_POINTS[c["reason"]] \in Nat /\ REASON_POINTS[d["reason"]] \in Nat
    <3> HIDE DEF F
    <3>1. d["reason"] \in DOMAIN F["reason"]
      BY <2>2 DEF Turned, Known, F
    <3> QED  BY <1>3, <2>2, <3>1, Summands DEF F
  <2> HIDE DEF F
  <2>4. CASE c["reason"] = "LOTTERY_OR_PRIZE_FEE"
    BY <2>1, <2>3, <2>4
  <2>5. CASE c["reason"] = "TECH_SUPPORT_FEE"
    BY <2>1, <2>3, <2>5
  <2> QED  BY <2>4, <2>5
<1>7. hardStop(c) => hardStop(d)
  BY <1>4, <1>6 DEF hardStop
<1>8. behaviorTotal(c) \in Nat /\ behaviorTotal(d) \in Nat /\ behaviorTotal(c) <= behaviorTotal(d)
  <2> DEFINE S == DOMAIN BEHAVIOR_POINTS
  <2>1. IsFiniteSet(S)
    BY FactorsFinite
  <2>2. \A g \in S : /\ tellerFactors[g][c[g]] \in Nat /\ tellerFactors[g][d[g]] \in Nat
                     /\ tellerFactors[g][c[g]] <= tellerFactors[g][d[g]]
    <3>1. S \subseteq DOMAIN Factors["teller"]
      BY <1>3
    <3> QED  BY <1>2, <3>1, Summands
  <2>3. behaviorTotal(c) = Tally(S, tellerFactors, c) /\ behaviorTotal(d) = Tally(S, tellerFactors, d)
    BY BehaviorTally
  <2> HIDE DEF S
  <2> QED  BY <2>1, <2>2, <2>3, TallyClimbs
<1> DEFINE L(x, s) == IF hardStop(x) THEN "CRITICAL" ELSE portalLevel(s)
           l == L(c, a)
           m == L(d, b)
<1>9. /\ l \in {"LOW", "MEDIUM", "HIGH", "CRITICAL"} /\ m \in {"LOW", "MEDIUM", "HIGH", "CRITICAL"}
      /\ Severity[l] <= Severity[m]
  <2> HIDE DEF a, b
  <2>1. /\ portalLevel(a) \in {"LOW", "MEDIUM", "HIGH", "CRITICAL"}
        /\ portalLevel(b) \in {"LOW", "MEDIUM", "HIGH", "CRITICAL"}
        /\ Severity[portalLevel(a)] <= Severity[portalLevel(b)]
    BY <1>1, PortalLevels
  <2> QED  BY <1>7, <2>1, Severities
<1>10. /\ Verdict("teller", c) = [score |-> a, level |-> l, action |-> tellerAction(c, l)]
       /\ Verdict("teller", d) = [score |-> b, level |-> m, action |-> tellerAction(d, m)]
  BY DEF Verdict, scoreTellerAssist
<1> HIDE DEF a, b, l, m, L, F
<1>11. Severity[tellerAction(c, l)] <= Severity[tellerAction(d, m)]
  <2>1. \A x : /\ tellerAction(x, "CRITICAL") = "REFUSE_AND_ESCALATE_TO_FRAUD"
               /\ tellerAction(x, "HIGH") = "DELAY_AND_ESCALATE_TO_ANALYST"
               /\ tellerAction(x, "LOW") = "PROCEED"
               /\ tellerAction(x, "MEDIUM") \in {"CALL_FAMILY_OR_TRUSTED_CONTACT", "VERIFY_VERBALLY"}
    BY DEF tellerAction
  <2>2. tellerAction(c, "MEDIUM") = "CALL_FAMILY_OR_TRUSTED_CONTACT" =>
           tellerAction(d, "MEDIUM") = "CALL_FAMILY_OR_TRUSTED_CONTACT"
    BY <1>5, <1>8 DEF tellerAction
  <2> QED  BY <1>9, <2>1, <2>2, Severities
<1> QED  BY <1>1, <1>9, <1>10, <1>11, Severities DEF Worsens

\* The check of a conversation for grooming.
LEMMA GroomingVerdict ==
    ASSUME NEW c, NEW d, NEW f, Turned("grooming", c, d, f), Climbs("grooming", c, d)
    PROVE  Worsens(Verdict("grooming", c), Verdict("grooming", d))
<1> DEFINE a == Score("grooming", c)
           b == Score("grooming", d)
           F == Factors["grooming"]
<1>1. a \in 0 .. 100 /\ b \in 0 .. 100 /\ a <= b
  BY DEF Climbs
<1>2. /\ DOMAIN F = {"ageGap", "duration", "loveBombing", "isolation", "payment", "photo", "privateChannel", "pii", "minor"}
      /\ F["ageGap"] = AGE_GAP_POINTS /\ F["minor"] = Flag(35) /\ F["payment"] = Flag(25) /\ F["photo"] = Flag(25)
      /\ F["privateChannel"] = Flag(15) /\ F["pii"] = Flag(15)
  BY DEF Factors, groomingFactors
<1>3. \A g \in {"minor", "payment", "photo", "privateChannel", "pii"} : c[g] = "yes" => d[g] = "yes"
  <2>1. 35 \in Nat /\ 25 \in Nat /\ 15 \in Nat
    OBVIOUS
  <2> HIDE DEF F
  <2>2. {"minor", "payment", "photo", "privateChannel", "pii"} \subseteq DOMAIN F
    BY <1>2
  <2>3. \A g \in {"minor", "payment", "photo", "privateChannel", "pii"} : \E p \in Nat : F[g] = Flag(p)
    BY <1>2, <2>1
  <2> QED  BY <2>2, <2>3, FlagStays DEF F
<1>4. minorWithEscalation(c) => minorWithEscalation(d)
  BY <1>3 DEF minorWithEscalation
<1>5. c.ageGap = "ADULT_TO_SUSPECTED_MINOR" => d.ageGap = "ADULT_TO_SUSPECTED_MINOR"
  <2>1. /\ AGE_GAP_POINTS["ADULT_TO_SUSPECTED_MINOR"] = 40
        /\ \A r \in DOMAIN AGE_GAP_POINTS : AGE_GAP_POINTS[r] <= 40 /\ AGE_GAP_POINTS[r] \in Nat
    BY DEF AGE_GAP_POINTS
  <2>2. "ageGap" \in DOMAIN F
    BY <1>2
  <2>3. /\ d["ageGap"] \in DOMAIN AGE_GAP_POINTS
        /\ d["ageGap"] = c["ageGap"] \/ AGE_GAP_POINTS[c["ageGap"]] < AGE_GAP_POINTS[d["ageGap"]]
    <3> HIDE DEF F
    <3>1. d["ageGap"] \in DOMAIN F["ageGap"]
      BY <2>2 DEF Turned, Known, F
    <3> QED  BY <1>2, <2>2, <3>1, Summands DEF F
  <2> HIDE DEF F
  <2> SUFFICES ASSUME c["ageGap"] = "ADULT_TO_SUSPECTED_MINOR" PROVE d["ageGap"] = "ADULT_TO_SUSPECTED_MINOR"
    OBVIOUS
  <2>4. ~ 40 < AGE_GAP_POINTS[d["ageGap"]]
    BY <2>1, <2>3
  <2> QED  BY <2>1, <2>3, <2>4
<1> DEFINE L(x, s) == IF minorWithEscalation(x) \/ x.ageGap = "ADULT_TO_SUSPECTED_MINOR" THEN "CRITICAL" ELSE portalLevel(s)
           A(x, s, y) == IF minorWithEscalation(x) THEN "ESCALATE_TO_LAW_ENFORCEMENT"
                         ELSE IF x.ageGap = "ADULT_TO_SUSPECTED_MINOR" THEN "ESCALATE_TO_TRUST_AND_SAFETY"
                         ELSE CASE y = "CRITICAL" -> "SUSPEND_USER"
                                [] y = "HIGH" -> "HARD_INTERVENE"
                                [] y = "MEDIUM" -> "SOFT_INTERVENE"
                                [] OTHER -> IF s >= 10 THEN "MONITOR" ELSE "NONE"
           l == L(c, a)
           m == L(d, b)
<1>6. /\ l \in {"LOW", "MEDIUM", "HIGH", "CRITICAL"} /\ m \in {"LOW", "MEDIUM", "HIGH", "CRITICAL"}
      /\ Severity[l] <= Severity[m]
  <2> HIDE DEF a, b
  <2>1. /\ portalLevel(a) \in {"LOW", "MEDIUM", "HIGH", "CRITICAL"}
        /\ portalLevel(b) \in {"LOW", "MEDIUM", "HIGH", "CRITICAL"}
        /\ Severity[portalLevel(a)] <= Severity[portalLevel(b)]
    BY <1>1, PortalLevels
  <2> QED  BY <1>4, <1>5, <2>1, Severities
<1>7. /\ Verdict("grooming", c) = [score |-> a, level |-> l, action |-> A(c, a, l)]
      /\ Verdict("grooming", d) = [score |-> b, level |-> m, action |-> A(d, b, m)]
  BY DEF Verdict, scoreGroomingCheck
<1>8. Severity[A(c, a, l)] <= Severity[A(d, b, m)]
  <2> HIDE DEF a, b, l, m
  <2>1. CASE minorWithEscalation(d)
    <3>1. A(d, b, m) = "ESCALATE_TO_LAW_ENFORCEMENT"
      BY <2>1
    <3>2. Severity[A(c, a, l)] <= 6
      BY Severities
    <3> HIDE DEF A
    <3> QED  BY <3>1, <3>2, Severities
  <2>2. CASE ~minorWithEscalation(d) /\ d.ageGap = "ADULT_TO_SUSPECTED_MINOR"
    <3>1. A(d, b, m) = "ESCALATE_TO_TRUST_AND_SAFETY" /\ ~minorWithEscalation(c)
      BY <1>4, <2>2
    <3>2. Severity[A(c, a, l)] <= 5
      BY <3>1, Severities
    <3> HIDE DEF A
    <3> QED  BY <3>1, <3>2, Severities
  <2>3. CASE ~minorWithEscalation(d) /\ d.ageGap # "ADULT_TO_SUSPECTED_MINOR"
    <3>1. ~minorWithEscalation(c) /\ c.ageGap # "ADULT_TO_SUSPECTED_MINOR"
      BY <1>4, <1>5, <2>3
    <3>2. Severity[A(c, a, l)] = IF l = "CRITICAL" THEN 4 ELSE IF l = "HIGH" THEN 3 ELSE IF l = "MEDIUM" THEN 2
                                 ELSE IF a >= 10 THEN 1 ELSE 0
      BY <3>1, Severities
    <3>3. Severity[A(d, b, m)] = IF m = "CRITICAL" THEN 4 ELSE IF m = "HIGH" THEN 3 ELSE IF m = "MEDIUM" THEN 2
                                 ELSE IF b >= 10 THEN 1 ELSE 0
      BY <2>3, Severities
    <3> HIDE DEF A
    <3> QED  BY <1>1, <1>6, <3>2, <3>3, Severities
  <2> QED  BY <2>1, <2>2, <2>3
<1> HIDE DEF a, b, l, m, L, A, F
<1> QED  BY <1>1, <1>6, <1>7, <1>8, Severities DEF Worsens

\* One fact for the worse: the verdict is no milder, but for the order of the fusion's rules.
LEMMA VerdictsClimb ==
    ASSUME NEW k, NEW c, NEW d, NEW f, Turned(k, c, d, f)
    PROVE  \/ k = "fusion" /\ c.TRUSTING = "yes" /\ d.CONFUSED = "yes" /\ c.CONFUSED = "no"
           \/ Worsens(Verdict(k, c), Verdict(k, d))
<1> SUFFICES ASSUME ~(k = "fusion" /\ c.TRUSTING = "yes" /\ d.CONFUSED = "yes" /\ c.CONFUSED = "no")
             PROVE  Worsens(Verdict(k, c), Verdict(k, d))
  OBVIOUS
<1>1. Climbs(k, c, d)
  BY SumsClimb, ScamCheckClimbs, FusionClimbs
<1> QED  BY <1>1, TellerVerdict, GroomingVerdict, PlainVerdict

\* The fusion's score is within its bounds even where a better known state weighs less.
LEMMA FusionBounded ==
    ASSUME NEW c, Known("fusion", c)
    PROVE  Verdict("fusion", c).score \in 0 .. 100
<1> DEFINE m == {w \in Keywords : c[w] = "yes"}
           s == stubAssessJourney("none", m)
           u == stubAssessVictimState("none", m)
           x == Least(30, Most(0, c.failures) * 15)
           g == c.base  i == STAGE_WEIGHT[s]  k == ACTION_WEIGHT[NEXT_MOVE_MAP[s]]  q == STATE_WEIGHT[u]
<1>1. g \in Nat /\ x \in Nat
  <2>1. c["base"] \in {0, 40, 90} /\ c["failures"] \in 0 .. 3
    BY DEF Known, Factors, fusionFactors
  <2> QED  BY <2>1 DEF Least, Most
<1>2. i \in Nat /\ k \in Nat
  <2>1. s \in {"PAYMENT_REQUEST", "URGENCY_INJECTION", "INFORMATION_GATHERING", "TRUST_BUILDING", "INITIAL_CONTACT"}
    BY JourneyIs
  <2> HIDE DEF s
  <2> QED  BY <2>1 DEF STAGE_WEIGHT, ACTION_WEIGHT, NEXT_MOVE_MAP
<1>3. q \in Nat
  <2> HIDE DEF m
  <2> QED  BY RulesClimb
<1>4. fusedScore(c) = g + i + q + k + x
  BY DEF fusedScore, fuseRiskScore
<1>5. Verdict("fusion", c).score = clampScore(fusedScore(c))
  BY DEF Verdict, Score
<1> HIDE DEF g, i, q, k, x
<1>6. fusedScore(c) \in Nat
  BY <1>1, <1>2, <1>3, <1>4
<1> QED  BY <1>5, <1>6, Clamped

ScoringInv == ScoringTypeOK /\ facts = [f \in DOMAIN Factors[scorer] |-> facts[f]]

\* A step of the scoring component turns one fact for the worse.
LEMMA StepTurns ==
    ASSUME ScoringInv, NEW f \in DOMAIN facts, NEW v \in DOMAIN Factors[scorer][f], Worsen(f, v)
    PROVE  Turned(scorer, facts, facts', f) /\ scorer' = scorer /\ ScoringInv'
<1>1. /\ scorer \in DOMAIN Factors /\ \A g \in DOMAIN facts : facts[g] \in DOMAIN Factors[scorer][g]
      /\ facts = [g \in DOMAIN Factors[scorer] |-> facts[g]] /\ DOMAIN facts = DOMAIN Factors[scorer]
  BY DEF ScoringInv, ScoringTypeOK
<1>2. /\ facts' = [facts EXCEPT ![f] = v] /\ scorer' = scorer
      /\ Factors[scorer][f][v] > Factors[scorer][f][facts[f]]
  BY DEF Worsen
<1>3. /\ facts'[f] = v /\ \A g \in DOMAIN Factors[scorer] : g # f => facts'[g] = facts[g]
      /\ facts' = [g \in DOMAIN Factors[scorer] |-> facts'[g]] /\ DOMAIN facts' = DOMAIN Factors[scorer]
  BY <1>1, <1>2
<1>4. \A g \in DOMAIN Factors[scorer] : facts'[g] \in DOMAIN Factors[scorer][g]
  BY <1>1, <1>3
<1>5. Known(scorer, facts) /\ Known(scorer, facts')
  BY <1>1, <1>3, <1>4 DEF Known
<1>6. ScoringInv'
  BY <1>1, <1>2, <1>3, <1>4 DEF ScoringInv, ScoringTypeOK
<1> QED  BY <1>1, <1>2, <1>3, <1>5, <1>6 DEF Turned

\* No scorer is reassured by bad news, however much of it there is: a fact that turns for
\* the worse leaves the score within 0..100 and lets neither score nor level nor
\* recommendation get milder (scoreScamHold and the other sums with their caps,
\* scoreTellerAssist, scoreGroomingCheck, the scam check, the fusion but for its rule that
\* puts CONFUSED before TRUSTING).
THEOREM ScorersClimb == ScoringSpec => ScoresClimb
<1> DEFINE A == LET then == Verdict(scorer, facts)  now == Verdict(scorer, facts')
                IN  /\ now.score \in 0..100
                    /\ \/ ConfusionHidesTrust
                       \/ /\ now.score >= then.score
                          /\ Severity[now.level] >= Severity[then.level]
                          /\ Severity[now.action] >= Severity[then.action]
<1>1. ScoringInit => ScoringInv
  <2>1. ScoringInit => ScoringTypeOK
    BY ScoringStart
  <2>2. ScoringInit => facts = [f \in DOMAIN Factors[scorer] |-> facts[f]]
    BY DEF ScoringInit, Calmest
  <2> QED  BY <2>1, <2>2 DEF ScoringInv
<1>2. ScoringInv /\ [ScoringNext]_scoringVars => ScoringInv'
  <2>1. ScoringInv /\ ScoringNext => ScoringInv'
    BY StepTurns DEF ScoringNext
  <2>2. ScoringInv /\ UNCHANGED scoringVars => ScoringInv'
    BY DEF scoringVars, ScoringInv, ScoringTypeOK
  <2> QED  BY <2>1, <2>2
<1>3. ScoringInv /\ [ScoringNext]_scoringVars => [A]_scoringVars
  <2> SUFFICES ASSUME ScoringInv, ScoringNext PROVE A
    BY DEF scoringVars
  <2>1. PICK f \in DOMAIN facts : Turned(scorer, facts, facts', f)
    BY StepTurns DEF ScoringNext
  <2>2. CASE Worsens(Verdict(scorer, facts), Verdict(scorer, facts'))
    BY <2>2 DEF Worsens
  <2>3. CASE ~Worsens(Verdict(scorer, facts), Verdict(scorer, facts'))
    <3>1. ConfusionHidesTrust /\ scorer = "fusion"
      BY <2>1, <2>3, VerdictsClimb DEF ConfusionHidesTrust
    <3>2. Verdict(scorer, facts').score \in 0 .. 100
      BY <2>1, <3>1, FusionBounded DEF Turned
    <3> QED  BY <3>1, <3>2
  <2> QED  BY <2>2, <2>3
<1> QED  BY <1>1, <1>2, <1>3, PTL DEF ScoringSpec, ScoresClimb

-----------------------------------------------------------------------------
(* The four components side by side, as they are checked. *)

\* Each component makes its own steps and rests while another moves.
LEMMA SideBySide == Spec => LifecyclesSpec /\ NotificationsSpec /\ ScoringSpec /\ PipelineSpec
<1>1. Init => LifecyclesInit /\ NotificationsInit /\ ScoringInit /\ PipelineInit
  BY DEF Init
<1>2. [Next]_Vars => [LifecyclesNext]_lifeVars
  BY DEF Next, Vars
<1>3. [Next]_Vars => [NotificationsNext]_noteVars
  BY DEF Next, Vars
<1>4. [Next]_Vars => [ScoringNext]_scoringVars
  BY DEF Next, Vars
<1>5. [Next]_Vars => [PipelineNext]_pipeVars
  BY DEF Next, Vars
<1> QED  BY <1>1, <1>2, <1>3, <1>4, <1>5, PTL DEF Spec, LifecyclesSpec, NotificationsSpec, ScoringSpec, PipelineSpec

\* Rows, deliveries, facts and the rows of the pipeline keep their types while any of the
\* components moves.
THEOREM CaseworkKeepsTypes == Spec => []TypeOK
<1>1. LifecyclesTypeOK /\ NotificationsTypeOK /\ ScoringTypeOK /\ PipelineTypeOK => TypeOK
  BY DEF TypeOK
<1> QED  BY <1>1, SideBySide, TablesKeepTypes, NotificationsTyped, ScoringKeepsTypes, PipelineKeepsTypes, PTL

\* What the components promise holds side by side: rows tell the story of their dates and
\* their entries, no interleaving gets past a guardrail, the pipeline keeps what it was
\* told, and no scorer is reassured.
THEOREM CaseworkIsSound ==
    Spec => [](StampsAgree /\ Guardrails /\ Accounted /\ SentWasSent /\ PipelineSound) /\ ScoresClimb
<1> QED  BY SideBySide, StampsTellTheStory, GuardrailsHold, ChangesAreAccounted, WhatWasSentWasSent, PipelineIsSound,
            ScorersClimb, PTL

=============================================================================
