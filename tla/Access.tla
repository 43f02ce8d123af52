-------------------------------- MODULE Access --------------------------------
(***************************************************************************)
(* Who may call what.  A controller is a record of its routes; a route says*)
(* which guards stand before the handler: JwtAuthGuard and RolesGuard are  *)
(* global, the tenant guards and ApiKeyGuard are set on the controller. The*)
(* handlers only hand over to their service.                               *)
(***************************************************************************)
EXTENDS Naturals, FiniteSets

MembershipRole ==
    {"INDIVIDUAL", "FAMILY_GUARDIAN", "PROTECTED_USER", "BANK_ADMIN", "BANK_ANALYST",
     "PLATFORM_ADMIN", "PLATFORM_MODERATOR", "INVESTIGATOR", "AGENCY_ANALYST",
     "ENTERPRISE_ADMIN", "SUPER_ADMIN", "REVIEWER", "COMPLIANCE_OFFICER", "SUPPORT"}

TenantType == {"PUBLIC", "PERSONAL", "FAMILY", "BANK", "PLATFORM", "INVESTIGATOR",
               "AGENCY", "ENTERPRISE", "INTERNAL"}

\* Routes: open to all, to any signed-in user, to roles, to roles of a kind of
\* tenant that is ACTIVE, to the holders of a partner key with a scope.
Route(auth, roles, types, scope) == [auth |-> auth, roles |-> roles, types |-> types, scope |-> scope]
Public        == Route("public", {}, TenantType, "none")
SignedIn      == Route("jwt", {}, TenantType, "none")
Only(roles)   == Route("jwt", roles, TenantType, "none")
In(types, roles) == Route("jwt", roles, types, "none")
ByKey(scope)  == Route("key", {}, TenantType, scope)

\* JwtAuthGuard: a valid token unless the route is public (partner routes are).
JwtAuthGuard(r, p) == r.auth = "jwt" => p.signedIn

\* RolesGuard: no @Roles admits every user; a handler's @Roles replaces the class's.
RolesGuard(r, p) == r.roles = {} \/ p.role \in r.roles

\* The tenant guards read the tenant from the database on every request.
BankTenantGuard(p)         == p.type = "BANK" /\ p.status = "ACTIVE"
PlatformTenantGuard(p)     == p.type = "PLATFORM" /\ p.status = "ACTIVE"
InvestigatorTenantGuard(p) == p.type \in {"INVESTIGATOR", "AGENCY"} /\ p.status = "ACTIVE"
EnterpriseTenantGuard(p)   == p.type = "ENTERPRISE" /\ p.status = "ACTIVE"
InternalTenantGuard(p)     == p.type = "INTERNAL" /\ p.status = "ACTIVE"

TenantGuards(r, p) ==
    r.types = TenantType
      \/ (r.types = {"BANK"} /\ BankTenantGuard(p))
      \/ (r.types = {"PLATFORM"} /\ PlatformTenantGuard(p))
      \/ (r.types = {"INVESTIGATOR", "AGENCY"} /\ InvestigatorTenantGuard(p))
      \/ (r.types = {"ENTERPRISE"} /\ EnterpriseTenantGuard(p))
      \/ (r.types = {"INTERNAL"} /\ InternalTenantGuard(p))

canActivate(r, p) == JwtAuthGuard(r, p) /\ RolesGuard(r, p) /\ TenantGuards(r, p)

PLAN_RANK == [FREE |-> 0, BASIC |-> 1, FAMILY_GUARDIAN |-> 2, PREMIUM_SHIELD |-> 3]
planSatisfies(held, required) == PLAN_RANK[held] >= PLAN_RANK[required]

Admin      == {"SUPER_ADMIN"}
Compliance == {"SUPER_ADMIN", "COMPLIANCE_OFFICER"}
Reviewers  == {"REVIEWER", "SUPER_ADMIN", "COMPLIANCE_OFFICER"}
Internal   == Reviewers \union {"SUPPORT"}

----------------------------------------------------------------------------
(* Open to everyone, or to everyone who signed in.                         *)

AuthController == [register |-> Public, login |-> Public, refresh |-> Public,
                   logout |-> SignedIn, me |-> SignedIn]
HealthController == [liveness |-> Public, readiness |-> Public]
RegistryController == [search |-> Public, fileAppeal |-> Public]
PublicAlertPublicController == [list |-> Public]
ScamReportsController == [submit |-> Public]
ScamCheckController == [check |-> Public]
A1ScamShieldController == [analyze |-> SignedIn]
AlertsController == [list |-> SignedIn, markRead |-> SignedIn]
DevicesController == [enroll |-> SignedIn, list |-> SignedIn, heartbeat |-> SignedIn, revoke |-> SignedIn]
SessionsController == [start |-> SignedIn, list |-> SignedIn, get |-> SignedIn,
                       recordEvent |-> SignedIn, end |-> SignedIn]
FreezeGuardController == [ingest |-> SignedIn]
FreezeLockController == [trigger |-> SignedIn, list |-> SignedIn]
RiskController == [create |-> SignedIn, list |-> SignedIn, get |-> SignedIn]
IdentityCollisionController == [search |-> SignedIn]
ScamMirrorController == [start |-> SignedIn, input |-> SignedIn, end |-> SignedIn, history |-> SignedIn]
ScamHoldController == [check |-> SignedIn, decide |-> SignedIn, history |-> SignedIn]
GiftCardGuardController == [scan |-> SignedIn, decide |-> SignedIn, history |-> SignedIn]
WalletGuardController == [check |-> SignedIn, decide |-> SignedIn, history |-> SignedIn]
ClaimVerifyController == [verify |-> SignedIn, decide |-> SignedIn, history |-> SignedIn]
GuardianPauseController == [start |-> SignedIn, complete |-> SignedIn, history |-> SignedIn]
TrustedContactReviewController == [request |-> SignedIn, decide |-> Public, list |-> SignedIn]
TrustedContactsController == [create |-> SignedIn, list |-> SignedIn, update |-> SignedIn, remove |-> SignedIn]
ProtectionSettingsController == [getSettings |-> SignedIn, updateSettings |-> SignedIn,
                                 getProfile |-> SignedIn, updateProfile |-> SignedIn]
GuardianshipController ==
    [request |-> SignedIn, asGuardian |-> SignedIn, asProtected |-> SignedIn, grant |-> SignedIn,
     decline |-> SignedIn, revoke |-> SignedIn, protectedSummary |-> SignedIn]
EvidenceController ==
    [timeline |-> SignedIn, verify |-> SignedIn, upload |-> SignedIn, share |-> SignedIn,
     export |-> SignedIn, exportBundle |-> SignedIn, getBundle |-> SignedIn,
     publicSafe |-> SignedIn, setLegalHold |-> SignedIn]
BillingController ==
    [subscription |-> SignedIn, checkout |-> SignedIn, portal |-> SignedIn,
     manualInvoice |-> In({"INTERNAL"}, Admin), events |-> In({"INTERNAL"}, Compliance),
     webhook |-> Public]

----------------------------------------------------------------------------
(* Reviewers, compliance and administrators.                               *)

ScamSignalsController == [list |-> Only(Reviewers), get |-> Only(Reviewers)]
ReviewQueueController == [list |-> Only(Reviewers), assign |-> Only(Reviewers)]
SignalReviewController == [review |-> Only(Reviewers)]
ClusterController == [list |-> Only(Reviewers), get |-> Only(Reviewers)]
FraudGraphController ==
    [m \in {"listNodes", "getNode", "getNeighbors", "listCampaigns", "createCampaign",
            "getCampaign", "addMember", "removeMember"} |-> Only(Reviewers)]
IdentityGraphController == [search |-> Only(Reviewers), exportCluster |-> Only(Reviewers)]
OsintController == [list |-> Only(Reviewers), providers |-> Only(Reviewers), enrich |-> Only(Reviewers)]
AuthenticityController == [run |-> Only(Reviewers), list |-> Only(Reviewers), get |-> Only(Reviewers)]
RiskFusionV2Controller == [fuse |-> Only(Reviewers), latest |-> Only(Reviewers), list |-> Only(Reviewers)]
AiDecisionsController == [list |-> Only(Reviewers)]
QueueAdminController == [getMetrics |-> Only(Compliance)]
AiStatusController == [get |-> Only(Internal), usage |-> Only(Internal)]
SimilarityController == [list |-> Only(Reviewers)]
IntelligenceMetricsController == [get |-> Only(Reviewers)]
ModelGovernanceController ==
    [m \in {"listModels", "registerModel", "setModelStatus", "reviewQueue", "submitFeedback",
            "feedbackStats"} |-> Only(Reviewers)]
DetectionRuleController ==
    [list |-> Only(Reviewers), get |-> Only(Reviewers), create |-> Only(Reviewers),
     update |-> Only(Reviewers), updateStatus |-> Only(Reviewers)]
RuleSuggestionController == [generate |-> Only(Reviewers), generatePhraseRules |-> Only(Reviewers)]
TakedownController ==
    [create |-> Only(Reviewers), list |-> Only(Reviewers), get |-> Only(Reviewers),
     updateStatus |-> Only(Reviewers)]
TakedownTemplateController == [create |-> Only(Admin), list |-> Only(Admin)]
PublicAlertAdminController ==
    [create |-> Only(Compliance), list |-> Only(Compliance), get |-> Only(Compliance),
     updateStatus |-> Only(Compliance)]
RegistryAdminController ==
    [createCandidate |-> Only({"REVIEWER", "SUPER_ADMIN"}), list |-> Only(Reviewers),
     get |-> Only(Reviewers), approve |-> Only(Compliance), publish |-> Only(Admin),
     unpublish |-> Only(Admin), reject |-> Only(Compliance)]
RegistryAppealAdminController ==
    [list |-> Only(Reviewers), get |-> Only(Reviewers), review |-> Only(Reviewers),
     decide |-> Only(Compliance)]
PartnerKeyController ==
    [issue |-> Only(Admin), list |-> Only(Admin), updatePlan |-> Only(Admin),
     usage |-> Only(Admin), revoke |-> Only(Admin)]
WebhookAdminController ==
    [create |-> Only(Admin), list |-> Only(Admin), revoke |-> Only(Admin), deliveries |-> Only(Admin)]
AgencyFeedAdminController ==
    [create |-> Only(Admin), list |-> Only(Admin), get |-> Only(Admin), revoke |-> Only(Admin)]
InternalAdminController ==
    [list |-> Only(Admin), grant |-> Only(Admin), changeRole |-> Only(Admin), revoke |-> Only(Admin)]
OversightController ==
    [overview |-> In({"INTERNAL"}, Internal), moduleEvents |-> In({"INTERNAL"}, Internal),
     listTenants |-> In({"INTERNAL"}, Internal), setTenantStatus |-> In({"INTERNAL"}, Admin)]
AdminConsoleController ==
    [m \in {"users", "devices", "liveSessions", "auditLogs", "revenue", "scamCorpus",
            "scriptGenome", "compliance", "support", "settings"} |-> In({"INTERNAL"}, Internal)]

----------------------------------------------------------------------------
(* Portals and partners.                                                   *)

BankPortalController ==
    [m \in {"queue", "tellerAssist", "reviewCase"} |-> In({"BANK"}, {"BANK_ADMIN", "BANK_ANALYST"})]
PlatformPortalController ==
    [m \in {"queue", "groomingCheck", "decide"} |->
        In({"PLATFORM"}, {"PLATFORM_ADMIN", "PLATFORM_MODERATOR"})]
InvestigatorPortalController ==
    [m \in {"create", "list", "detail", "update", "linkEvidence", "unlinkEvidence", "linkCluster",
            "unlinkCluster", "addNote", "close"} |->
        In({"INVESTIGATOR", "AGENCY"}, {"INVESTIGATOR", "AGENCY_ANALYST"})]
EnterprisePortalController ==
    [m \in {"policyRegistry", "listPolicies", "getPolicy", "setPolicy", "deletePolicy",
            "listDevices", "listIntegrations", "createIntegration", "deleteIntegration",
            "auditLog", "billing"} |-> In({"ENTERPRISE"}, {"ENTERPRISE_ADMIN"})]
PartnerEvidenceController == [list |-> ByKey("READ_TENANT_INTEL")]
PartnerSignalsController == [list |-> ByKey("READ_TENANT_INTEL"), get |-> ByKey("READ_TENANT_INTEL")]
PartnerReportsController == [submit |-> ByKey("REPORT_SUBMIT")]
PartnerExportsController == [m \in {"generate", "list", "get"} |-> ByKey("EVIDENCE_EXPORT")]
AgencyFeedConsumerController == [consume |-> ByKey("AGENCY_FEED")]

=============================================================================
