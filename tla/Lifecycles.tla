----------------------------- MODULE Lifecycles -----------------------------
(***************************************************************************)
(* The tables staff and partners work on.  Every operation on them has the *)
(* same shape: the guards of its route, a read of the row and a check of   *)
(* its status, an unconditional write by id, an entry in the Evidence      *)
(* Vault, and for some a second write that links the entry to the row.     *)
(* Nothing holds the row between these steps, so requests that overlap see *)
(* each other's writes, and a request may die between any two of them.     *)
(***************************************************************************)
EXTENDS Access, TLC

CONSTANTS
    Desks,        \* places for concurrent requests
    People,       \* the principals that make them
    LifeBound,    \* requests of one behaviour
    DeathsBound   \* requests that die

ASSUME LifecycleAssumption ==
    /\ LifeBound \in Nat /\ DeathsBound \in Nat
    /\ \A p \in People : {"user", "role", "type", "status", "signedIn"} \subseteq DOMAIN p

VARIABLES
    kind,         \* the table in play
    row,          \* its row
    desk,         \* the requests under way
    trail,        \* the Evidence Vault entries about the row
    views,        \* the link's status when a summary that was answered was read
    path,         \* history: statuses the row has had
    asked, deaths,
    overlapped,   \* history: two requests were under way at once
    unlogged      \* history: a request died after its write

lifeVars == <<kind, row, desk, trail, views, path, asked, deaths, overlapped, unlogged>>

----------------------------------------------------------------------------
(* Handlers.  "none" is the status of a row that does not exist.           *)

Handler(route, from, to, op, event) ==
    [route |-> route, who |-> {}, roles |-> MembershipRole, from |-> from, to |-> to, op |-> op,
     event |-> event, sets |-> {}, clears |-> {}, link |-> FALSE]

\* updateStatus in its three forms: one handler for every edge of a table.
Edges(table, H(_, _)) == UNION {{H(f, t) : t \in table[f]} : f \in DOMAIN table}

(* Guardianship: both users are named by the link.                         *)
\* Mutant: a new request leaves the dates of the earlier consent.
requestKeepingConsent ==
    [Handler(GuardianshipController.request, {"none", "DECLINED", "REVOKED"}, "PENDING", "request",
             "GUARDIANSHIP_REQUESTED") EXCEPT !.who = {"guardian"}]

requestGuardianship ==
    [Handler(GuardianshipController.request, {"none", "DECLINED", "REVOKED"}, "PENDING", "request",
             "GUARDIANSHIP_REQUESTED")
        EXCEPT !.who = {"guardian"}, !.clears = {"consentGrantedAt", "consentRevokedAt"}]

requireProtectedUserLink(h) == [h EXCEPT !.who = {"protected"}]

grantConsent ==
    requireProtectedUserLink(
        [Handler(GuardianshipController.grant, {"PENDING"}, "ACTIVE", "update", "CONSENT_GRANTED")
            EXCEPT !.sets = {"consentGrantedAt"}])
declineConsent ==
    requireProtectedUserLink(
        Handler(GuardianshipController.decline, {"PENDING"}, "DECLINED", "update", "CONSENT_DECLINED"))
revokeConsent ==
    requireProtectedUserLink(
        [Handler(GuardianshipController.revoke, {"ACTIVE"}, "REVOKED", "update", "CONSENT_REVOKED")
            EXCEPT !.sets = {"consentRevokedAt"}])
getProtectedSummary ==
    [Handler(GuardianshipController.protectedSummary, {"ACTIVE"}, "same", "view",
             "GUARDIAN_ACCESSED_PROTECTED_USER")
        EXCEPT !.who = {"guardian"}]

(* Public alerts.  The broadcast of a publication is in Webhooks, the cache*)
(* in PublicReads.                                                         *)
ALERT_TRANSITIONS ==
    [DRAFT |-> {"PUBLISHED", "WITHDRAWN"}, PUBLISHED |-> {"EXPIRED", "WITHDRAWN"},
     EXPIRED |-> {}, WITHDRAWN |-> {}]

createAlert ==
    {[Handler(PublicAlertAdminController.create, {"none"}, "DRAFT", "create", "PUBLIC_ALERT_CREATED")
        EXCEPT !.sets = expiry] : expiry \in {{}, {"expiresAt"}}}

updateAlertStatus ==
    LET stamp == [PUBLISHED |-> {"publishedAt"}, WITHDRAWN |-> {"withdrawnAt"}, EXPIRED |-> {"expiresAt"}]
        H(f, t) == [Handler(PublicAlertAdminController.updateStatus, {f}, t, "update", t)
                      EXCEPT !.sets = stamp[t]]
    IN  Edges(ALERT_TRANSITIONS, H)

(* Detection rules.                                                        *)
ACTIVATION_ROLES == {"SUPER_ADMIN", "COMPLIANCE_OFFICER"}

\* Mutant: a draft can be activated untested.
TransitionsWithShortcut ==
    [DRAFT |-> {"TESTING", "ACTIVE", "RETIRED"}, TESTING |-> {"ACTIVE", "DISABLED", "DRAFT", "RETIRED"},
     ACTIVE |-> {"DISABLED", "RETIRED"}, DISABLED |-> {"TESTING", "ACTIVE", "RETIRED"}, RETIRED |-> {}]

RULE_TRANSITIONS ==
    [DRAFT |-> {"TESTING", "RETIRED"}, TESTING |-> {"ACTIVE", "DISABLED", "DRAFT", "RETIRED"},
     ACTIVE |-> {"DISABLED", "RETIRED"}, DISABLED |-> {"TESTING", "ACTIVE", "RETIRED"}, RETIRED |-> {}]

isEditable(status) == status \notin {"ACTIVE", "RETIRED", "none"}

createRule ==
    {Handler(r[1], {"none"}, "DRAFT", "create", r[2]) :
        r \in {<<DetectionRuleController.create, "RULE_CREATED">>,
               <<RuleSuggestionController.generate, "RULE_SUGGESTED">>}}

updateRule ==
    Handler(DetectionRuleController.update, {s \in DOMAIN RULE_TRANSITIONS : isEditable(s)}, "same",
            "update", "RULE_UPDATED")

updateRuleStatus ==
    LET stamp == [DRAFT |-> {}, TESTING |-> {}, ACTIVE |-> {"activatedAt"},
                  DISABLED |-> {"disabledAt"}, RETIRED |-> {"retiredAt"}]
        H(f, t) == [Handler(DetectionRuleController.updateStatus, {f}, t, "update", t)
                      EXCEPT !.sets = stamp[t],
                             !.clears = IF t = "ACTIVE" THEN {"disabledAt"} ELSE {},
                             !.roles = IF t = "ACTIVE" THEN ACTIVATION_ROLES ELSE @]
    IN  Edges(RULE_TRANSITIONS, H)

(* Takedowns.                                                              *)
TRANSITIONS ==
    LET ends == {"COMPLETED", "REJECTED", "WITHDRAWN"}
    IN  [DRAFT |-> {"SUBMITTED", "WITHDRAWN"},
         SUBMITTED |-> {"ACKNOWLEDGED", "IN_PROGRESS"} \union ends,
         ACKNOWLEDGED |-> {"IN_PROGRESS"} \union ends, IN_PROGRESS |-> ends,
         COMPLETED |-> {}, REJECTED |-> {}, WITHDRAWN |-> {}]

\* Of an entry that exists and is not REJECTED: the entries are Registry's, and a call
\* that is refused for its entry is no step here.
createTakedown ==
    Handler(TakedownController.create, {"none"}, "DRAFT", "create", "TAKEDOWN_CREATED")

updateTakedownStatus ==
    LET H(f, t) == [Handler(TakedownController.updateStatus, {f}, t, "update", t)
                      EXCEPT !.sets = (IF t = "SUBMITTED" THEN {"submittedAt"} ELSE {})
                                        \union (IF TRANSITIONS[t] = {} THEN {"resolvedAt"} ELSE {})]
    IN  Edges(TRANSITIONS, H)

(* Agency feeds and partner keys: only the creation of the row and its     *)
(* revocation are here, consuming is in AgencyFeeds, admitting in Requests.*)
createFeed == Handler(AgencyFeedAdminController.create, {"none"}, "ACTIVE", "create", "AGENCY_FEED_CREATED")
revokeFeed ==
    [Handler(AgencyFeedAdminController.revoke, {"ACTIVE", "PAUSED"}, "REVOKED", "update", "AGENCY_FEED_REVOKED")
        EXCEPT !.sets = {"revokedAt"}]
\* To a tenant of a kind that may hold one, and to a plan the key does not have yet:
\* tenants and plans are not part of the row here, and the other calls write nothing.
issueKey == Handler(PartnerKeyController.issue, {"none"}, "ACTIVE", "create", "PARTNER_KEY_ISSUED")
updatePlan ==
    Handler(PartnerKeyController.updatePlan, {"ACTIVE", "REVOKED"}, "same", "update", "PARTNER_KEY_PLAN_CHANGED")
revokeKey ==
    [Handler(PartnerKeyController.revoke, {"ACTIVE"}, "REVOKED", "update", "PARTNER_KEY_REVOKED")
        EXCEPT !.sets = {"revokedAt"}]
generateBundle ==
    Handler(PartnerExportsController.generate, {"none"}, "READY", "create", "EVIDENCE_EXPORT_GENERATED")

(* Investigator cases: requireOpen reads the case, the links are rows of   *)
(* other tables, at most one for each piece of evidence and cluster.       *)
CaseStatus == {"OPEN", "IN_PROGRESS", "AWAITING_INFORMATION", "ON_HOLD", "CLOSED"}

requireOpen(op, to, event) ==
    Handler(InvestigatorPortalController.update, CaseStatus \ {"CLOSED"}, to, op, event)

createCase ==
    [Handler(InvestigatorPortalController.create, {"none"}, "OPEN", "create", "INVESTIGATOR_CASE_CREATED")
        EXCEPT !.link = TRUE]
\* The body is validated against the whole enum, so CLOSED is taken here too.
updateCase == {requireOpen("update", s, "INVESTIGATOR_CASE_UPDATED") : s \in CaseStatus \union {"same"}}
linkEvidence == [requireOpen("attach", "same", "INVESTIGATOR_CASE_EVIDENCE_LINKED") EXCEPT !.sets = {"evidence"}]
unlinkEvidence == [requireOpen("detach", "same", "INVESTIGATOR_CASE_EVIDENCE_UNLINKED") EXCEPT !.clears = {"evidence"}]
linkCluster == [requireOpen("attach", "same", "INVESTIGATOR_CASE_CLUSTER_LINKED") EXCEPT !.sets = {"cluster"}]
unlinkCluster == [requireOpen("detach", "same", "INVESTIGATOR_CASE_CLUSTER_UNLINKED") EXCEPT !.clears = {"cluster"}]
addNote == [requireOpen("update", "same", "INVESTIGATOR_CASE_NOTE_ADDED") EXCEPT !.sets = {"note"}]
close == [requireOpen("update", "CLOSED", "INVESTIGATOR_CASE_CLOSED") EXCEPT !.sets = {"closedAt"}]

(* Banks, platforms and enterprises.                                       *)
Linked(h) == [h EXCEPT !.link = TRUE]

tellerAssist ==
    Linked(Handler(BankPortalController.tellerAssist, {"none"}, "SCORED", "create", "BANK_PORTAL_TELLER_SCORED"))
groomingCheck ==
    Linked(Handler(PlatformPortalController.groomingCheck, {"none"}, "SCORED", "create",
                   "PLATFORM_PORTAL_GROOMING_SCORED"))
\* One review of a case by each bank, one decision on a claim by each platform.
reviewCase ==
    {Linked(Handler(BankPortalController.reviewCase, {"none"}, d, "insert", d)) :
        d \in {"ALLOW", "BLOCK", "NEED_MORE_INFO", "ESCALATE_TO_FRAUD", "CONTACT_CUSTOMER"}}
decideOnClaim ==
    {Linked(Handler(PlatformPortalController.decide, {"none"}, d, "insert", d)) :
        d \in {"APPROVE_CONTENT", "REMOVE_CONTENT", "WARN_USER", "SUSPEND_USER",
              "ESCALATE_TO_TRUST_AND_SAFETY", "ESCALATE_TO_LAW_ENFORCEMENT"}}

\* A few values a policy may be sent with.
PolicyValue ==
    [aBool |-> [t |-> "bool"], n29 |-> [t |-> "int", n |-> 29], n30 |-> [t |-> "int", n |-> 30],
     n3600 |-> [t |-> "int", n |-> 3600], n3651 |-> [t |-> "int", n |-> 3651],
     email |-> [t |-> "strings", s |-> {"EMAIL"}], fax |-> [t |-> "strings", s |-> {"FAX"}]]

Whether(v) == v.t = "bool"
Within(v, low, high) == v.t = "int" /\ v.n \in low .. high

POLICY_REGISTRY ==
    [v \in DOMAIN PolicyValue |->
        [elder_mode_default |-> Whether(PolicyValue[v]),
         guardian_pause_default_seconds |-> Within(PolicyValue[v], 30, 3600),
         continue_anyway_disabled |-> Whether(PolicyValue[v]),
         trusted_contact_review_required_at_critical |-> Whether(PolicyValue[v]),
         data_retention_days |-> Within(PolicyValue[v], 30, 3650),
         evidence_legal_hold_default |-> Whether(PolicyValue[v]),
         notification_channels_enabled |->
            PolicyValue[v].t = "strings" /\ PolicyValue[v].s \subseteq {"EMAIL", "SMS", "PUSH", "IN_APP", "WEBSOCKET"},
         audit_export_allowed_roles |-> PolicyValue[v].t = "strings"]]

setPolicy(key) ==
    {[Linked(Handler(EnterprisePortalController.setPolicy, {"none", "SET"}, "SET", "upsert", "ENTERPRISE_POLICY_SET"))
        EXCEPT !.sets = {v}, !.clears = DOMAIN PolicyValue] :
            v \in {u \in DOMAIN PolicyValue : POLICY_REGISTRY[u][key]}}
\* Mutant: a policy is deleted without an entry.
deletePolicyQuietly ==
    [Handler(EnterprisePortalController.deletePolicy, {"SET"}, "none", "update", "none")
        EXCEPT !.clears = DOMAIN PolicyValue]

deletePolicy ==
    [Handler(EnterprisePortalController.deletePolicy, {"SET"}, "none", "update", "ENTERPRISE_POLICY_DELETED")
        EXCEPT !.clears = DOMAIN PolicyValue]
createIntegration ==
    {Linked(Handler(EnterprisePortalController.createIntegration, {"none"}, s, "create",
                    "ENTERPRISE_INTEGRATION_CREATED")) : s \in {"ACTIVE", "PAUSED", "ERROR"}}
deleteIntegration ==
    Handler(EnterprisePortalController.deleteIntegration, {"ACTIVE", "PAUSED", "ERROR"}, "none", "update",
            "ENTERPRISE_INTEGRATION_DELETED")

(* Devices and the inbox of alerts: their owner's, and not logged.         *)
Owned(h) == [h EXCEPT !.who = {"protected"}]
enroll == Owned(Handler(DevicesController.enroll, {"none"}, "ACTIVE", "create", "none"))
heartbeat == Owned(Handler(DevicesController.heartbeat, {"ACTIVE", "INACTIVE", "REVOKED"}, "ACTIVE", "update", "none"))
revokeDevice == Owned(Handler(DevicesController.revoke, {"ACTIVE", "INACTIVE", "REVOKED"}, "REVOKED", "update", "none"))
markRead ==
    [Owned(Handler(AlertsController.markRead, {"RAISED"}, "same", "update", "none")) EXCEPT !.sets = {"readAt"}]

(* Tenants and AI decisions exist already.                                 *)
TenantStatus == {"ACTIVE", "SUSPENDED", "CLOSED"}
setTenantStatus(type) ==
    LET H(f, t) == Handler(OversightController.setTenantStatus, {f}, t, "update", "INTERNAL_TENANT_STATUS_CHANGED")
    IN  Edges([f \in TenantStatus |->
                 {t \in TenantStatus \ {f} : type = "INTERNAL" => t = "ACTIVE"}], H)

LABEL_TO_STATUS ==
    [CONFIRMED_CORRECT |-> "CONFIRMED", INCONCLUSIVE_ACCEPTED |-> "CONFIRMED",
     FALSE_POSITIVE |-> "CORRECTED", FALSE_NEGATIVE |-> "CORRECTED", CORRECTED_CATEGORY |-> "CORRECTED"]
\* The decision, the labelled feedback and the audit entry are one transaction.
submitFeedback ==
    {[Handler(ModelGovernanceController.submitFeedback, {"PENDING", "CONFIRMED", "CORRECTED"},
              LABEL_TO_STATUS[l], "transact", "AI_DECISION_REVIEWED")
        EXCEPT !.sets = {"reviewedAt"}] : l \in DOMAIN LABEL_TO_STATUS}

Handlers ==
    [guardianship |-> {requestGuardianship, grantConsent, declineConsent, revokeConsent, getProtectedSummary},
     alert       |-> createAlert \union updateAlertStatus,
     rule        |-> createRule \union {updateRule} \union updateRuleStatus,
     takedown    |-> {createTakedown} \union updateTakedownStatus,
     feed        |-> {createFeed, revokeFeed},
     key         |-> {issueKey, updatePlan, revokeKey},
     export      |-> {generateBundle},
     case        |-> {createCase, linkEvidence, unlinkEvidence, linkCluster, unlinkCluster, addNote, close}
                       \union updateCase,
     teller      |-> {tellerAssist},
     grooming    |-> {groomingCheck},
     bankReview  |-> reviewCase,
     moderation  |-> decideOnClaim,
     pausePolicy |-> setPolicy("guardian_pause_default_seconds") \union {deletePolicy},
     channelPolicy |-> setPolicy("notification_channels_enabled") \union {deletePolicy},
     retentionPolicy |-> setPolicy("data_retention_days") \union {deletePolicy},
     integration |-> createIntegration \union {deleteIntegration},
     device      |-> {enroll, heartbeat, revokeDevice},
     inbox       |-> {markRead},
     tenant      |-> setTenantStatus("BANK"),
     internalTenant |-> setTenantStatus("INTERNAL"),
     decision    |-> submitFeedback]

Kinds == DOMAIN Handlers

FirstStatus(k) ==
    CASE k \in {"tenant", "internalTenant"} -> "ACTIVE"
      [] k = "decision" -> "PENDING"
      [] k = "inbox" -> "RAISED"
      [] OTHER -> "none"

----------------------------------------------------------------------------
(* The steps of a request.                                                 *)

NoRequest == [at |-> "free"]
Busy(d) == desk[d].at # "free"
Quiet == \A d \in Desks : ~Busy(d)
Others(d) == {e \in Desks \ {d} : Busy(e)}
NobodyYet == [user |-> "nobody", role |-> "SUPPORT"]

LifecyclesInit ==
    /\ kind \in Kinds
    /\ row = [status |-> FirstStatus(kind), stamps |-> {}, by |-> NobodyYet, evidence |-> "none"]
    /\ desk = [d \in Desks |-> NoRequest]
    /\ trail = [last |-> [event |-> "none", status |-> FirstStatus(kind)], all |-> {}]
    /\ views = {} /\ path = {FirstStatus(kind)}
    /\ asked = 0 /\ deaths = 0 /\ overlapped = FALSE /\ unlogged = FALSE

\* The guards, the read and the checks.  A fresh row gets a fresh id: two
\* creations are never of the same row.
Admit(d, p, h) ==
    /\ ~Busy(d) /\ asked < LifeBound
    /\ canActivate(h.route, p)
    /\ h.who # {} => p.user \in h.who
    /\ p.role \in h.roles
    /\ row.status \in h.from
    /\ h.op = "create" => \A e \in Others(d) : desk[e].h.op # "create"
    /\ h.op = "detach" => h.clears \subseteq row.stamps
    /\ desk' = [desk EXCEPT ![d] = [at |-> IF h.op = "view" THEN "fetch" ELSE "write", h |-> h,
                                    p |-> [user |-> p.user, role |-> p.role],
                                    found |-> row.status]]
    /\ asked' = asked + 1
    /\ overlapped' = (overlapped \/ Others(d) # {})
    /\ UNCHANGED <<kind, row, trail, views, path, deaths, unlogged>>

Step(d, at) == IF at = "free" THEN desk' = [desk EXCEPT ![d] = NoRequest]
                              ELSE desk' = [desk EXCEPT ![d].at = at]

\* The database refuses a duplicate of a unique key and an id that is gone.
Accepted(q) ==
    CASE q.h.op \in {"create", "insert"} -> row.status = "none"
      [] q.h.op = "request" -> (row.status = "none") = (q.found = "none")
      [] q.h.op = "upsert" -> TRUE
      [] q.h.op = "attach" -> q.h.sets \intersect row.stamps = {}
      [] q.h.op = "detach" -> q.h.clears \subseteq row.stamps
      [] OTHER -> row.status # "none"

Entry(h, status) == [event |-> h.event, status |-> status]
Logged(t, e) == [last |-> e, all |-> t.all \union {e}]

WriteRow(d) ==
    LET q == desk[d]  h == q.h
        status == IF h.to = "same" THEN row.status ELSE h.to
    IN  /\ q.at = "write" /\ Accepted(q)
        /\ row' = [status |-> status, stamps |-> (row.stamps \ h.clears) \union h.sets,
                   by |-> IF h.to = "same" THEN row.by ELSE q.p,
                   evidence |-> IF status = "none" THEN "none" ELSE row.evidence]
        /\ path' = path \union {status}
        /\ trail' = IF h.op = "transact" THEN Logged(trail, Entry(h, status)) ELSE trail
        /\ desk' = [desk EXCEPT ![d] = IF h.op = "transact" \/ h.event = "none" THEN NoRequest
                                     ELSE [q EXCEPT !.at = "append", !.found = status]]
        /\ UNCHANGED <<kind, views, asked, deaths, overlapped, unlogged>>

RefuseRow(d) ==
    /\ desk[d].at = "write" /\ ~Accepted(desk[d])
    /\ Step(d, "free")
    /\ UNCHANGED <<kind, row, trail, views, path, asked, deaths, overlapped, unlogged>>

\* The summary is read after the consent was checked.
FetchSummary(d) ==
    /\ desk[d].at = "fetch"
    /\ desk' = [desk EXCEPT ![d].at = "append", ![d].found = row.status]
    /\ UNCHANGED <<kind, row, trail, views, path, asked, deaths, overlapped, unlogged>>

logEvidence(d) ==
    LET q == desk[d]
    IN  /\ q.at = "append"
        /\ trail' = Logged(trail, Entry(q.h, q.found))
        /\ views' = IF q.h.op = "view" THEN views \union {q.found} ELSE views
        /\ Step(d, IF q.h.link THEN "link" ELSE "free")
        /\ UNCHANGED <<kind, row, path, asked, deaths, overlapped, unlogged>>

\* evidenceEventId; the row may be gone by now, which is an error.
LinkEvidence(d) ==
    /\ desk[d].at = "link"
    /\ row' = IF row.status = "none" THEN row ELSE [row EXCEPT !.evidence = desk[d].h.event]
    /\ Step(d, "free")
    /\ UNCHANGED <<kind, trail, views, path, asked, deaths, overlapped, unlogged>>

Die(d) ==
    /\ Busy(d) /\ deaths < DeathsBound
    /\ deaths' = deaths + 1
    /\ unlogged' = (unlogged \/ (desk[d].at = "append" /\ desk[d].h.op # "view"))
    /\ Step(d, "free")
    /\ UNCHANGED <<kind, row, trail, views, path, asked, overlapped>>

LifecyclesNext ==
    \E d \in Desks :
        \/ \E h \in Handlers[kind], p \in People : Admit(d, p, h)
        \/ WriteRow(d) \/ RefuseRow(d) \/ FetchSummary(d) \/ logEvidence(d) \/ LinkEvidence(d) \/ Die(d)

LifecyclesSpec == LifecyclesInit /\ [][LifecyclesNext]_lifeVars

----------------------------------------------------------------------------
(* Properties.                                                             *)

LifecyclesTypeOK ==
    /\ kind \in Kinds
    /\ row.status \in path
    /\ row.by \in [user : {p.user : p \in People} \union {"nobody"}, role : MembershipRole]
    /\ \A d \in Desks : desk[d].at \in {"free", "write", "fetch", "append", "link"}
    /\ trail.all \subseteq [event : {h.event : h \in Handlers[kind]}, status : path]
    /\ views \subseteq path
    /\ asked \in 0 .. LifeBound /\ deaths \in 0 .. DeathsBound
    /\ overlapped \in BOOLEAN /\ unlogged \in BOOLEAN

\* What the write of a status stamps with it, and what only an undisturbed
\* sequence of requests guarantees: stamps of earlier steps, and their absence.
Stamp(k, s) ==
    CASE k = "guardianship" /\ s = "ACTIVE" -> {"consentGrantedAt"}
      [] k = "guardianship" /\ s = "REVOKED" -> {"consentRevokedAt"}
      [] k = "alert" /\ s = "PUBLISHED" -> {"publishedAt"}
      [] k = "alert" /\ s = "EXPIRED" -> {"expiresAt"}
      [] k = "alert" /\ s = "WITHDRAWN" -> {"withdrawnAt"}
      [] k = "rule" /\ s = "ACTIVE" -> {"activatedAt"}
      [] k = "rule" /\ s = "DISABLED" -> {"disabledAt"}
      [] k = "rule" /\ s = "RETIRED" -> {"retiredAt"}
      [] k = "takedown" /\ s = "SUBMITTED" -> {"submittedAt"}
      [] k = "takedown" /\ s \in {"COMPLETED", "REJECTED", "WITHDRAWN"} -> {"resolvedAt"}
      [] k \in {"feed", "key"} /\ s = "REVOKED" -> {"revokedAt"}
      [] OTHER -> {}

EarlierStamp(k, s) ==
    CASE k = "guardianship" /\ s = "REVOKED" -> {"consentGrantedAt"}
      [] k = "alert" /\ s = "EXPIRED" -> {"publishedAt"}
      [] k = "takedown" /\ s \notin {"none", "DRAFT", "WITHDRAWN"} -> {"submittedAt"}
      [] OTHER -> {}

NoStamp(k, s) ==
    CASE k = "guardianship" /\ s \in {"PENDING", "DECLINED"} -> {"consentGrantedAt", "consentRevokedAt"}
      [] k = "guardianship" /\ s = "ACTIVE" -> {"consentRevokedAt"}
      [] k = "rule" /\ s = "ACTIVE" -> {"disabledAt", "retiredAt"}
      [] k = "takedown" /\ s \notin {"COMPLETED", "REJECTED", "WITHDRAWN"} -> {"resolvedAt"}
      [] k \in {"feed", "key"} /\ s = "ACTIVE" -> {"revokedAt"}
      [] k = "case" /\ s # "CLOSED" -> {"closedAt"}
      [] OTHER -> {}

\* Status and dates tell the same story: consentGrantedAt with ACTIVE,
\* resolvedAt with a final takedown and so on.  The date of the last move is
\* there whatever races; that nothing else is, only when no requests overlapped
\* (each is read, then written without a condition on what was read).
StampsAgree ==
    /\ Stamp(kind, row.status) \subseteq row.stamps
    /\ ~overlapped => /\ EarlierStamp(kind, row.status) \subseteq row.stamps
                      /\ NoStamp(kind, row.status) \intersect row.stamps = {}

Final(k) ==
    CASE k = "alert" -> {"EXPIRED", "WITHDRAWN"}
      [] k = "rule" -> {"RETIRED"}
      [] k = "takedown" -> {"COMPLETED", "REJECTED", "WITHDRAWN"}
      [] k \in {"feed", "key"} -> {"REVOKED"}
      [] k = "case" -> {"CLOSED"}
      [] OTHER -> {}

\* What no interleaving of requests may bring about.  A rule is ACTIVE only
\* after TESTING and by an activation role; a link is ACTIVE only by the
\* protected user, after a request; an alert expires after a publication; a
\* takedown ends well only after it was submitted; the internal tenant is never
\* suspended; a stored policy is one its validator takes; and a final status is
\* left only by a request that overlapped with the one that set it.
Guardrails ==
    /\ kind = "rule" /\ row.status = "ACTIVE" => row.by.role \in ACTIVATION_ROLES /\ "TESTING" \in path
    /\ kind = "guardianship" /\ row.status = "ACTIVE" => row.by.user = "protected" /\ "PENDING" \in path
    /\ kind = "alert" /\ row.status = "EXPIRED" => "PUBLISHED" \in path
    /\ kind = "takedown" /\ row.status \in {"COMPLETED", "REJECTED"} => "SUBMITTED" \in path
    /\ kind = "internalTenant" => row.status = "ACTIVE"
    /\ kind = "pausePolicy" => row.stamps \subseteq {"n30", "n3600"}
    /\ Final(kind) \intersect path # {} => row.status \in Final(kind) \/ overlapped

Unrecorded == {"device", "inbox"}

\* The Evidence Vault accounts for the row: at rest the row's status was
\* recorded, unless a request died between its write and its entry; without
\* overlaps the last entry tells it; and an entry the row points to exists.
LogTellsStatus ==
    kind \notin Unrecorded =>
        /\ Quiet /\ ~unlogged /\ row.status # FirstStatus(kind) =>
              row.status \in {e.status : e \in trail.all}
        /\ Quiet /\ ~unlogged /\ ~overlapped => trail.last.status = row.status
        /\ row.evidence # "none" => row.evidence \in {e.event : e \in trail.all}

\* A guardian's view was recorded before it was answered, and what it shows was
\* read under an active consent unless a revocation overlapped with it.
ViewsOnRecord ==
    /\ views # {} => "GUARDIAN_ACCESSED_PROTECTED_USER" \in {e.event : e \in trail.all}
    /\ views \subseteq {"ACTIVE"} \/ overlapped

\* The Evidence Vault accounts for every change of a row and every view of it.
Accounted == LogTellsStatus /\ ViewsOnRecord
=============================================================================
