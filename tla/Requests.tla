------------------------------- MODULE Requests -------------------------------
(***************************************************************************)
(* A request at the door.  Users come with an access token, and are taken  *)
(* for what it says until it expires: role and tenant are those of the     *)
(* membership that was read when it was signed, whatever became of it; only*)
(* kind and status of the tenant are read on each request.  Partners come  *)
(* with an API key: ApiKeyGuard reads the key, then the day's usage, and   *)
(* lets the request in before the usage is counted; nobody waits for the   *)
(* count, and a failed count is dropped.                                   *)
(***************************************************************************)
EXTENDS Access, FiniteSetsExt

CONSTANTS
    Partners,      \* concurrent requests of one key
    KeyScopes,     \* the scopes of the key
    FreeLimit, ProLimit,   \* requests per day, scaled down
    Days,          \* days of a behaviour
    DoorBound,     \* partner requests let in
    TokenTTL       \* life of an access token, in ticks

ASSUME RequestsAssumption ==
    /\ FreeLimit \in Nat /\ ProLimit \in Nat /\ FreeLimit < ProLimit
    /\ Days \in Nat \ {0} /\ DoorBound \in Nat /\ TokenTTL \in Nat

VARIABLES
    home,          \* the user's own membership: role, kind and status of its tenant
    staff,         \* the user's membership in the internal tenant: role, status
    signing,       \* what a login or refresh has read for its claims, or NoClaims
    token,         \* the claims of an access token of the user, and its age
    heldAgo,       \* history: ticks since the user last held each internal role
    apiKey,        \* partner_api_keys: status, plan
    door,          \* partner requests between the read of the key and of the usage
    day,           \* today
    usage,         \* partner_api_key_usage, by day
    uncounted,     \* counts under way, by day
    missed,        \* history: counts that failed, by day
    letIn,         \* history: partner requests let in, by day
    admitted,      \* history: partner requests let in, on any day
    plans,         \* history: plans they were let in under, by day
    burst          \* history: most counts under way when the usage was read, by day

userVars == <<home, staff, signing, token, heldAgo>>
keyVars == <<apiKey, door, day, usage, uncounted, missed, letIn, admitted, plans, burst>>
requestVars == <<userVars, keyVars>>

----------------------------------------------------------------------------
(* The controllers.                                                        *)

BackOffice ==
    [signals |-> ScamSignalsController, queue |-> ReviewQueueController, review |-> SignalReviewController,
     clusters |-> ClusterController, graph |-> FraudGraphController, identity |-> IdentityGraphController,
     osint |-> OsintController, authenticity |-> AuthenticityController, fusion |-> RiskFusionV2Controller,
     decisions |-> AiDecisionsController, aiStatus |-> AiStatusController, similarity |-> SimilarityController,
     metrics |-> IntelligenceMetricsController, models |-> ModelGovernanceController,
     rules |-> DetectionRuleController, suggestions |-> RuleSuggestionController,
     takedowns |-> TakedownController, templates |-> TakedownTemplateController,
     alerts |-> PublicAlertAdminController, registry |-> RegistryAdminController,
     appeals |-> RegistryAppealAdminController, keys |-> PartnerKeyController,
     webhooks |-> WebhookAdminController, feeds |-> AgencyFeedAdminController,
     staff |-> InternalAdminController, oversight |-> OversightController, console |-> AdminConsoleController,
     queues |-> QueueAdminController, billing |-> [m \in {"manualInvoice", "events"} |-> BillingController[m]]]

Portals ==
    [bank |-> BankPortalController, platform |-> PlatformPortalController,
     investigator |-> InvestigatorPortalController, enterprise |-> EnterprisePortalController]

Everyone ==
    [auth |-> AuthController, health |-> HealthController, registry |-> RegistryController,
     alerts |-> PublicAlertPublicController, reports |-> ScamReportsController, check |-> ScamCheckController,
     shield |-> A1ScamShieldController, inbox |-> AlertsController, devices |-> DevicesController,
     sessions |-> SessionsController, freezeGuard |-> FreezeGuardController, freezeLock |-> FreezeLockController,
     risk |-> RiskController, collision |-> IdentityCollisionController, mirror |-> ScamMirrorController,
     hold |-> ScamHoldController, giftCard |-> GiftCardGuardController, wallet |-> WalletGuardController,
     claim |-> ClaimVerifyController, pause |-> GuardianPauseController,
     contactReview |-> TrustedContactReviewController, contacts |-> TrustedContactsController,
     settings |-> ProtectionSettingsController, guardianship |-> GuardianshipController,
     evidence |-> EvidenceController, billing |-> BillingController]

PartnerApi ==
    [evidence |-> PartnerEvidenceController, signals |-> PartnerSignalsController,
     reports |-> PartnerReportsController, exports |-> PartnerExportsController,
     feed |-> AgencyFeedConsumerController]

RoutesOf(area) == UNION {{area[c][m] : m \in DOMAIN area[c]} : c \in DOMAIN area}
StaffRoutes == RoutesOf(BackOffice)
PortalRoutes == RoutesOf(Portals)
UserRoutes == StaffRoutes \union PortalRoutes \union RoutesOf(Everyone)

----------------------------------------------------------------------------
(* Users.                                                                  *)

NoClaims == [role |-> "none", at |-> "none"]
NoToken == [role |-> "none", at |-> "none", age |-> 0]
NoStaff == [role |-> "none", status |-> "none"]

\* register() makes the first, an operator the others; no code changes role or kind.
Homes == {<<"INDIVIDUAL", "PERSONAL">>, <<"BANK_ANALYST", "BANK">>, <<"BANK_ADMIN", "BANK">>,
          <<"PLATFORM_MODERATOR", "PLATFORM">>, <<"INVESTIGATOR", "INVESTIGATOR">>,
          <<"AGENCY_ANALYST", "AGENCY">>, <<"ENTERPRISE_ADMIN", "ENTERPRISE">>}

UsersInit ==
    /\ \E h \in Homes : home = [role |-> h[1], type |-> h[2], status |-> "ACTIVE"]
    /\ staff = NoStaff
    /\ signing = NoClaims /\ token = NoToken
    /\ heldAgo = [role \in Internal |-> TokenTTL + 1]

\* Mutant: the internal membership is taken whatever its status.
getFirstMembership ==
    IF staff # NoStaff THEN [role |-> staff.role, at |-> "staff"] ELSE [role |-> home.role, at |-> "home"]

\* The ACTIVE memberships, the primary one first: an ACTIVE internal membership is the
\* primary one, since grantRole takes the mark from the others and revokeRole gives it up.
getPrimaryMembership ==
    IF staff.status = "ACTIVE" THEN [role |-> staff.role, at |-> "staff"] ELSE [role |-> home.role, at |-> "home"]

\* login and refresh read the membership, write other rows, and sign later.  token is one
\* of the user's access tokens: the next one signed may be it, or none is signed after it.
ReadMembership ==
    /\ signing = NoClaims
    /\ signing' = getPrimaryMembership
    /\ UNCHANGED <<home, staff, token, heldAgo, keyVars>>

issueTokens ==
    /\ signing # NoClaims
    /\ token' = [role |-> signing.role, at |-> signing.at, age |-> 0]
    /\ signing' = NoClaims
    /\ UNCHANGED <<home, staff, heldAgo, keyVars>>

\* A statement between the two fails.
SignInFails ==
    /\ signing # NoClaims
    /\ signing' = NoClaims
    /\ UNCHANGED <<home, staff, token, heldAgo, keyVars>>

\* Internal roles are granted, changed and revoked on the internal membership alone, by
\* another administrator.  (Their checks and races are StaffAccess's: here overlapping
\* ones write what they would write one after another.)
grantRole(role) ==
    /\ staff.status # "ACTIVE"
    /\ staff' = [role |-> role, status |-> "ACTIVE"]
    /\ heldAgo' = [heldAgo EXCEPT ![role] = 0]
    /\ UNCHANGED <<home, signing, token, keyVars>>

\* The status is not looked at: the role of a REMOVED membership changes too.
changeRole(role) ==
    /\ staff # NoStaff /\ role # staff.role
    /\ staff' = [staff EXCEPT !.role = role]
    /\ heldAgo' = IF staff.status = "ACTIVE" THEN [heldAgo EXCEPT ![role] = 0] ELSE heldAgo
    /\ UNCHANGED <<home, signing, token, keyVars>>

\* Nobody looks at the tokens: they go on claiming the role until they expire.
revokeRole ==
    /\ staff.status = "ACTIVE"
    /\ staff' = [staff EXCEPT !.status = "REMOVED"]
    /\ UNCHANGED <<home, signing, token, heldAgo, keyVars>>

\* Of the user's own tenant; the internal one is never suspended or closed.
SetTenantStatus ==
    /\ home' = [home EXCEPT !.status = IF @ = "ACTIVE" THEN "SUSPENDED" ELSE "ACTIVE"]
    /\ UNCHANGED <<staff, signing, token, heldAgo, keyVars>>

\* History: the role of an ACTIVE internal membership is held, the others recede.
HeldOn ==
    [role \in Internal |->
        IF staff = [role |-> role, status |-> "ACTIVE"] THEN 0
        ELSE IF heldAgo[role] > TokenTTL THEN heldAgo[role] ELSE heldAgo[role] + 1]

\* Mutant: ignoreExpiration is set, and a token outlives its time.
TokenOutlives ==
    /\ signing = NoClaims
    /\ token' = IF token = NoToken THEN NoToken ELSE [token EXCEPT !.age = @ + 1]
    /\ heldAgo' = HeldOn
    /\ UNCHANGED <<home, staff, signing, keyVars>>

\* Time passes, in ticks longer than a login takes, and tokens expire.
TokenTick ==
    /\ signing = NoClaims
    /\ token' = IF token = NoToken \/ token.age = TokenTTL THEN NoToken ELSE [token EXCEPT !.age = @ + 1]
    /\ heldAgo' = HeldOn
    /\ UNCHANGED <<home, staff, signing, keyVars>>

\* The user of a request: the role in the token, and the tenant in the token as the
\* database has it.
Caller ==
    [signedIn |-> token # NoToken, role |-> token.role,
     type |-> IF token.at = "staff" THEN "INTERNAL" ELSE home.type,
     status |-> IF token.at = "staff" THEN "ACTIVE" ELSE home.status]

----------------------------------------------------------------------------
(* Partners.                                                               *)

Unlimited == ProLimit + DoorBound
DAILY_LIMITS == [FREE |-> FreeLimit, PRO |-> ProLimit, ENTERPRISE |-> Unlimited]
NotHere == [plan |-> "none", day |-> 0]

KeysInit ==
    /\ apiKey = [status |-> "ACTIVE", plan |-> "FREE"]
    /\ door = [p \in Partners |-> NotHere]
    /\ day = 1
    /\ usage = [d \in 1..Days |-> 0] /\ uncounted = usage /\ missed = usage /\ letIn = usage /\ burst = usage
    /\ admitted = 0
    /\ plans = [d \in 1..Days |-> {}]

\* The key is ACTIVE, not expired and has the route's scope.
ReadKey(p, route) ==
    /\ door[p] = NotHere
    /\ apiKey.status = "ACTIVE"
    /\ route.scope \in KeyScopes
    /\ door' = [door EXCEPT ![p] = [plan |-> apiKey.plan, day |-> day]]
    /\ UNCHANGED <<userVars, apiKey, day, usage, uncounted, missed, letIn, admitted, plans, burst>>

Admit(p) ==
    LET d == door[p].day
    IN  /\ admitted < DoorBound
        /\ admitted' = admitted + 1
        /\ letIn' = [letIn EXCEPT ![d] = @ + 1]
        /\ uncounted' = [uncounted EXCEPT ![d] = @ + 1]
        /\ plans' = [plans EXCEPT ![d] = @ \union {door[p].plan}]
        /\ burst' = [burst EXCEPT ![d] = Max({@, uncounted[d]})]

\* ENTERPRISE is not checked at all.  A request over quota is refused.
CheckUsage(p) ==
    LET d == door[p].day
    IN  /\ door[p] # NotHere
        /\ IF door[p].plan # "ENTERPRISE" /\ usage[d] >= DAILY_LIMITS[door[p].plan]
           THEN UNCHANGED <<letIn, admitted, uncounted, plans, burst>>
           ELSE Admit(p)
        /\ door' = [door EXCEPT ![p] = NotHere]
        /\ UNCHANGED <<userVars, apiKey, day, usage, missed>>

\* The upsert of the day's row, whenever it lands; a failed one is swallowed.
CountUsage(d, lands) ==
    /\ uncounted[d] > 0
    /\ uncounted' = [uncounted EXCEPT ![d] = @ - 1]
    /\ IF lands THEN usage' = [usage EXCEPT ![d] = @ + 1] /\ UNCHANGED missed
                ELSE missed' = [missed EXCEPT ![d] = @ + 1] /\ UNCHANGED usage
    /\ UNCHANGED <<userVars, apiKey, door, day, letIn, admitted, plans, burst>>

\* An administrator moves the key to another plan or revokes it, or it expires.
ChangeKey(key) ==
    /\ apiKey.status = "ACTIVE"
    /\ apiKey' = key
    /\ UNCHANGED <<userVars, door, day, usage, uncounted, missed, letIn, admitted, plans, burst>>

Midnight ==
    /\ day < Days
    /\ day' = day + 1
    /\ UNCHANGED <<userVars, apiKey, door, usage, uncounted, missed, letIn, admitted, plans, burst>>

----------------------------------------------------------------------------
UserNext ==
    \/ ReadMembership \/ issueTokens \/ SignInFails
    \/ \E role \in Internal : grantRole(role) \/ changeRole(role)
    \/ revokeRole
    \/ SetTenantStatus
    \/ TokenTick

KeyNext ==
    \/ \E p \in Partners : \E route \in RoutesOf(PartnerApi) : ReadKey(p, route)
    \/ \E p \in Partners : CheckUsage(p)
    \/ \E d \in 1..Days, lands \in BOOLEAN : CountUsage(d, lands)
    \/ \E plan \in DOMAIN DAILY_LIMITS, status \in {"ACTIVE", "REVOKED"} :
          ChangeKey([status |-> status, plan |-> plan])
    \/ Midnight

RequestsSpec == UsersInit /\ KeysInit /\ [][UserNext \/ KeyNext]_requestVars

RequestsTypeOK ==
    /\ home \in [role: MembershipRole, type: TenantType, status: {"ACTIVE", "SUSPENDED"}]
    /\ staff \in [role: Internal, status: {"ACTIVE", "REMOVED"}] \union {NoStaff}
    /\ signing \in [role: MembershipRole, at: {"home", "staff"}] \union {NoClaims}
    /\ token \in [role: MembershipRole, at: {"home", "staff"}, age: 0..TokenTTL] \union {NoToken}
    /\ heldAgo \in [Internal -> 0..(TokenTTL + 1)]
    /\ apiKey.plan \in DOMAIN DAILY_LIMITS /\ day \in 1..Days
    /\ admitted \in 0..DoorBound
    /\ \A d \in 1..Days : usage[d] + uncounted[d] <= DoorBound

\* The day's quota.  Every request let in is counted, still to be counted, or
\* its count failed; and within a day no plan lets in more than its limit plus
\* the counts that failed and the counts that were under way at some read.
QuotaHolds ==
    \A d \in 1..Days :
        /\ usage[d] + uncounted[d] + missed[d] = letIn[d]
        /\ plans[d] # {} /\ "ENTERPRISE" \notin plans[d] =>
              letIn[d] <= Max({DAILY_LIMITS[plan] : plan \in plans[d]}) + missed[d] + burst[d]

\* Whom the guards let in, through any route.  A portal: only who has a membership with a
\* role of the route, in a tenant of its kind that is ACTIVE now.  The back office: only
\* who held one of the route's roles no longer ago than a token lives.  Any route for the
\* signed-in: only who holds or held within that time the role the token names in the
\* tenant it names.  So a revoked or demoted member of the staff is served until the
\* token expires, also when the token was being signed meanwhile, and no longer
\* (jwt.strategy.ts validate, internal-admin.service.ts, the guards).
ServedWithStanding ==
    \A route \in UserRoutes : canActivate(route, Caller) =>
        /\ route \in PortalRoutes =>
              home.role \in route.roles /\ home.type \in route.types /\ home.status = "ACTIVE"
        /\ route \in StaffRoutes => \E role \in route.roles : heldAgo[role] <= TokenTTL
        /\ route.auth = "jwt" =>
              IF token.at = "staff" THEN heldAgo[token.role] <= TokenTTL ELSE token.role = home.role

\* What the guards promise, of users and of partners.
DoorHolds == QuotaHolds /\ ServedWithStanding

=============================================================================
