---------------------------- MODULE RequestsProofs ----------------------------
(* Proofs about Requests, for every value of its constants. *)
EXTENDS Requests, TLAPS

-----------------------------------------------------------------------------
(* The quota of a key. *)

Plans == {"FREE", "PRO", "ENTERPRISE"}

KeysTypeOK ==
    /\ apiKey.plan \in Plans /\ day \in 1..Days
    /\ door \in [Partners -> {NotHere} \union [plan: Plans, day: 1..Days]]
    /\ usage \in [1..Days -> Nat] /\ uncounted \in [1..Days -> Nat] /\ missed \in [1..Days -> Nat]
    /\ letIn \in [1..Days -> Nat] /\ burst \in [1..Days -> Nat]
    /\ plans \in [1..Days -> SUBSET Plans]

\* The highest limit of the plans in force, when none of them is unlimited.
LEMMA HighestLimit ==
    ASSUME NEW P \in SUBSET {"FREE", "PRO"}, P # {}
    PROVE  Max({DAILY_LIMITS[plan] : plan \in P}) = IF "PRO" \in P THEN ProLimit ELSE FreeLimit
<1> DEFINE L == {DAILY_LIMITS[plan] : plan \in P}
           m == IF "PRO" \in P THEN ProLimit ELSE FreeLimit
<1>1. FreeLimit \in Nat /\ ProLimit \in Nat /\ FreeLimit < ProLimit
  BY RequestsAssumption
<1>2. DAILY_LIMITS["FREE"] = FreeLimit /\ DAILY_LIMITS["PRO"] = ProLimit
  BY DEF DAILY_LIMITS
<1>3. m \in L /\ \A x \in L : x \in Nat /\ m >= x
  <2>1. CASE P = {"FREE"}
    BY <1>1, <1>2, <2>1
  <2>2. CASE P = {"PRO"}
    BY <1>1, <1>2, <2>2
  <2>3. CASE P = {"FREE", "PRO"}
    BY <1>1, <1>2, <2>3
  <2> QED  BY <2>1, <2>2, <2>3
<1> HIDE DEF L, m
<1>4. \A x \in L : (\A y \in L : x >= y) => x = m
  BY <1>3
<1> QED  BY <1>3, <1>4 DEF Max, L, m

\* The higher of two counts.
LEMMA HigherCount ==
    ASSUME NEW m \in Nat, NEW n \in Nat
    PROVE  Max({m, n}) \in Nat /\ Max({m, n}) >= m /\ Max({m, n}) >= n
<1>1. \E x \in {m, n} : \A y \in {m, n} : x >= y
  OBVIOUS
<1> QED  BY <1>1 DEF Max

\* A request let in is below the limit of its plan when the usage is read; what the
\* usage lacks is on its way or lost.
LEMMA AdmitKeeps ==
    ASSUME KeysTypeOK, QuotaHolds, NEW p \in Partners, CheckUsage(p)
    PROVE  KeysTypeOK' /\ QuotaHolds'
<1> DEFINE d == door[p].day
           plan == door[p].plan
<1>1. d \in 1..Days /\ plan \in Plans
  BY DEF CheckUsage, KeysTypeOK
<1>2. door' \in [Partners -> {NotHere} \union [plan: Plans, day: 1..Days]]
      /\ UNCHANGED <<apiKey, day, usage, missed>>
  BY DEF CheckUsage, KeysTypeOK
<1>3. CASE UNCHANGED <<letIn, admitted, uncounted, plans, burst>>
  BY <1>2, <1>3 DEF KeysTypeOK, QuotaHolds
<1>4. CASE Admit(p) /\ (plan = "ENTERPRISE" \/ ~(usage[d] >= DAILY_LIMITS[plan]))
  <2>1. /\ letIn' = [letIn EXCEPT ![d] = @ + 1] /\ uncounted' = [uncounted EXCEPT ![d] = @ + 1]
        /\ plans' = [plans EXCEPT ![d] = @ \union {plan}]
        /\ burst' = [burst EXCEPT ![d] = Max({@, uncounted[d]})]
    BY <1>4 DEF Admit
  <2> HIDE DEF d, plan
  <2>2. /\ usage \in [1..Days -> Nat] /\ uncounted \in [1..Days -> Nat] /\ missed \in [1..Days -> Nat]
        /\ letIn \in [1..Days -> Nat] /\ burst \in [1..Days -> Nat] /\ plans \in [1..Days -> SUBSET Plans]
    BY DEF KeysTypeOK
  <2>3. /\ letIn'[d] = letIn[d] + 1 /\ uncounted'[d] = uncounted[d] + 1 /\ plans'[d] = plans[d] \union {plan}
        /\ burst'[d] \in Nat /\ burst'[d] >= uncounted[d] /\ burst'[d] >= burst[d]
        /\ \A e \in 1..Days \ {d} : /\ letIn'[e] = letIn[e] /\ uncounted'[e] = uncounted[e]
                                    /\ plans'[e] = plans[e] /\ burst'[e] = burst[e]
    <3>1. burst'[d] = Max({burst[d], uncounted[d]}) /\ burst[d] \in Nat /\ uncounted[d] \in Nat
      BY <1>1, <2>1, <2>2
    <3>2. burst'[d] \in Nat /\ burst'[d] >= uncounted[d] /\ burst'[d] >= burst[d]
      BY <3>1, HigherCount
    <3> QED  BY <1>1, <2>1, <2>2, <3>2
  <2>4. KeysTypeOK'
    <3>1. /\ letIn' \in [1..Days -> Nat] /\ uncounted' \in [1..Days -> Nat]
          /\ plans' \in [1..Days -> SUBSET Plans]
      BY <1>1, <2>1, <2>2
    <3>2. burst' \in [1..Days -> Nat]
      BY <2>1, <2>2, <2>3
    <3> QED  BY <1>2, <3>1, <3>2 DEF KeysTypeOK
  <2>5. ASSUME NEW e \in 1..Days
        PROVE  usage'[e] + uncounted'[e] + missed'[e] = letIn'[e]
    <3>1. /\ usage[e] + uncounted[e] + missed[e] = letIn[e] /\ usage'[e] = usage[e] /\ missed'[e] = missed[e]
          /\ usage[e] \in Nat /\ uncounted[e] \in Nat /\ missed[e] \in Nat /\ letIn[e] \in Nat
      BY <1>2, <2>2 DEF QuotaHolds
    <3>2. CASE e = d
      BY <2>3, <3>1, <3>2
    <3>3. CASE e # d
      BY <2>3, <3>1, <3>3
    <3> QED  BY <3>2, <3>3
  <2>6. ASSUME NEW e \in 1..Days, plans'[e] # {}, "ENTERPRISE" \notin plans'[e]
        PROVE  letIn'[e] <= Max({DAILY_LIMITS[x] : x \in plans'[e]}) + missed'[e] + burst'[e]
    <3>1. CASE e # d
      BY <1>2, <2>3, <2>6, <3>1 DEF QuotaHolds
    <3>2. CASE e = d
      <4>1. plan \in {"FREE", "PRO"} /\ plans'[d] \in SUBSET {"FREE", "PRO"} /\ plan \in plans'[d]
        BY <1>1, <2>2, <2>3, <2>6, <3>2 DEF Plans
      <4>2. Max({DAILY_LIMITS[x] : x \in plans'[d]}) = IF "PRO" \in plans'[d] THEN ProLimit ELSE FreeLimit
        BY <4>1, HighestLimit
      <4>3. usage[d] < DAILY_LIMITS[plan] /\ DAILY_LIMITS[plan] \in {FreeLimit, ProLimit}
            /\ (DAILY_LIMITS[plan] = ProLimit => "PRO" \in plans'[d])
        <5>1. DAILY_LIMITS["FREE"] = FreeLimit /\ DAILY_LIMITS["PRO"] = ProLimit
          BY DEF DAILY_LIMITS
        <5>2. usage[d] \in Nat /\ FreeLimit \in Nat /\ ProLimit \in Nat /\ FreeLimit < ProLimit
          BY <1>1, <2>2, RequestsAssumption
        <5> QED  BY <1>4, <4>1, <5>1, <5>2
      <4>4. usage[d] < Max({DAILY_LIMITS[x] : x \in plans'[d]}) /\ Max({DAILY_LIMITS[x] : x \in plans'[d]}) \in Nat
        <5> DEFINE m == Max({DAILY_LIMITS[x] : x \in plans'[d]})
        <5>1. usage[d] \in Nat /\ FreeLimit \in Nat /\ ProLimit \in Nat /\ FreeLimit < ProLimit
          BY <1>1, <2>2, RequestsAssumption
        <5>2. m = IF "PRO" \in plans'[d] THEN ProLimit ELSE FreeLimit
          BY <4>2
        <5> HIDE DEF m
        <5>3. m \in Nat /\ usage[d] < m
          BY <4>3, <5>1, <5>2
        <5> QED  BY <5>3 DEF m
      <4>5. letIn'[d] = usage[d] + uncounted[d] + missed[d] + 1
        <5>1. /\ usage[d] + uncounted[d] + missed[d] = letIn[d] /\ letIn'[d] = letIn[d] + 1
          BY <1>1, <2>3 DEF QuotaHolds
        <5> QED  BY <5>1
      <4> DEFINE m == Max({DAILY_LIMITS[x] : x \in plans'[d]})
      <4>6. usage[d] < m /\ m \in Nat
        BY <4>4
      <4> HIDE DEF m
      <4>7. letIn'[d] <= m + missed'[d] + burst'[d]
        <5>1. /\ usage[d] \in Nat /\ uncounted[d] \in Nat /\ missed[d] \in Nat /\ missed'[d] = missed[d]
          BY <1>1, <1>2, <2>2
        <5> QED  BY <2>3, <4>5, <4>6, <5>1
      <4> QED  BY <3>2, <4>7 DEF m
    <3> QED  BY <3>1, <3>2
  <2> QED  BY <2>4, <2>5, <2>6 DEF QuotaHolds
<1> QED  BY <1>3, <1>4 DEF CheckUsage

\* A count that lands moves from what is under way to the usage, one that fails to what
\* was missed.
LEMMA CountKeeps ==
    ASSUME KeysTypeOK, QuotaHolds, NEW d \in 1..Days, NEW lands \in BOOLEAN, CountUsage(d, lands)
    PROVE  KeysTypeOK' /\ QuotaHolds'
<1>1. /\ usage \in [1..Days -> Nat] /\ uncounted \in [1..Days -> Nat] /\ missed \in [1..Days -> Nat]
      /\ letIn \in [1..Days -> Nat] /\ burst \in [1..Days -> Nat]
      /\ UNCHANGED <<apiKey, door, day, letIn, plans, burst>>
  BY DEF KeysTypeOK, CountUsage
<1>2. uncounted[d] > 0 /\ uncounted' = [uncounted EXCEPT ![d] = @ - 1]
  BY DEF CountUsage
<1>3. \/ usage' = [usage EXCEPT ![d] = @ + 1] /\ missed' = missed
      \/ missed' = [missed EXCEPT ![d] = @ + 1] /\ usage' = usage
  BY DEF CountUsage
<1>4. /\ usage' \in [1..Days -> Nat] /\ uncounted' \in [1..Days -> Nat] /\ missed' \in [1..Days -> Nat]
      /\ \A e \in 1..Days : /\ usage'[e] + uncounted'[e] + missed'[e] = usage[e] + uncounted[e] + missed[e]
                            /\ missed'[e] >= missed[e]
  <2>1. /\ uncounted[d] \in Nat /\ uncounted[d] - 1 \in Nat /\ usage[d] \in Nat /\ missed[d] \in Nat
    BY <1>1, <1>2
  <2>2. /\ uncounted' \in [1..Days -> Nat] /\ uncounted'[d] = uncounted[d] - 1
        /\ \A e \in 1..Days \ {d} : uncounted'[e] = uncounted[e]
    BY <1>1, <1>2, <2>1
  <2>3. CASE usage' = [usage EXCEPT ![d] = @ + 1] /\ missed' = missed
    <3>1. /\ usage' \in [1..Days -> Nat] /\ usage'[d] = usage[d] + 1
          /\ \A e \in 1..Days \ {d} : usage'[e] = usage[e]
      BY <1>1, <2>1, <2>3
    <3>2. ASSUME NEW e \in 1..Days
          PROVE  /\ usage'[e] + uncounted'[e] + missed'[e] = usage[e] + uncounted[e] + missed[e]
                 /\ missed'[e] >= missed[e]
      <4>1. usage[e] \in Nat /\ uncounted[e] \in Nat /\ missed[e] \in Nat
        BY <1>1
      <4>2. CASE e = d
        <5>1. missed'[d] = missed[d]
          BY <2>3
        <5>2. /\ usage'[d] + uncounted'[d] + missed'[d] = usage[d] + uncounted[d] + missed[d]
              /\ missed'[d] >= missed[d]
          BY <2>1, <2>2, <3>1, <5>1
        <5> QED  BY <4>2, <5>2
      <4>3. CASE e # d
        BY <2>2, <2>3, <3>1, <4>1, <4>3
      <4> QED  BY <4>2, <4>3
    <3> QED  BY <1>1, <2>2, <2>3, <3>1, <3>2
  <2>4. CASE missed' = [missed EXCEPT ![d] = @ + 1] /\ usage' = usage
    <3>1. /\ missed' \in [1..Days -> Nat] /\ missed'[d] = missed[d] + 1
          /\ \A e \in 1..Days \ {d} : missed'[e] = missed[e]
      BY <1>1, <2>1, <2>4
    <3>2. ASSUME NEW e \in 1..Days
          PROVE  /\ usage'[e] + uncounted'[e] + missed'[e] = usage[e] + uncounted[e] + missed[e]
                 /\ missed'[e] >= missed[e]
      <4>1. usage[e] \in Nat /\ uncounted[e] \in Nat /\ missed[e] \in Nat
        BY <1>1
      <4>2. CASE e = d
        <5>1. usage'[d] = usage[d]
          BY <2>4
        <5>2. uncounted'[d] = uncounted[d] - 1 /\ missed'[d] = missed[d] + 1
          BY <2>2, <3>1
        <5>3. /\ usage'[d] + uncounted'[d] + missed'[d] = usage[d] + uncounted[d] + missed[d]
              /\ missed'[d] >= missed[d]
          BY <2>1, <5>1, <5>2
        <5> QED  BY <4>2, <5>3
      <4>3. CASE e # d
        BY <2>2, <2>4, <3>1, <4>1, <4>3
      <4> QED  BY <4>2, <4>3
    <3> QED  BY <1>1, <2>2, <2>4, <3>1, <3>2
  <2> QED  BY <1>3, <2>3, <2>4
<1>5. KeysTypeOK'
  BY <1>1, <1>4 DEF KeysTypeOK
<1>6. ASSUME NEW e \in 1..Days, plans[e] # {}, "ENTERPRISE" \notin plans[e]
      PROVE  letIn[e] <= Max({DAILY_LIMITS[x] : x \in plans[e]}) + missed'[e] + burst[e]
  <2> DEFINE m == Max({DAILY_LIMITS[x] : x \in plans[e]})
  <2>1. plans[e] \in SUBSET {"FREE", "PRO"}
    BY <1>6 DEF KeysTypeOK, Plans
  <2>2. m \in Nat
    BY <1>6, <2>1, HighestLimit, RequestsAssumption
  <2>3. letIn[e] <= m + missed[e] + burst[e]
    BY <1>6 DEF QuotaHolds
  <2> HIDE DEF m
  <2>4. letIn[e] <= m + missed'[e] + burst[e]
    <3>1. letIn[e] \in Nat /\ burst[e] \in Nat /\ missed[e] \in Nat /\ missed'[e] \in Nat /\ missed'[e] >= missed[e]
      BY <1>1, <1>4
    <3> QED  BY <2>2, <2>3, <3>1
  <2> QED  BY <2>4 DEF m
<1> QED  BY <1>1, <1>4, <1>5, <1>6 DEF QuotaHolds

\* No other step counts or lets anyone in.
LEMMA KeysStep == KeysTypeOK /\ QuotaHolds /\ [UserNext \/ KeyNext]_requestVars => KeysTypeOK' /\ QuotaHolds'
<1> SUFFICES ASSUME KeysTypeOK, QuotaHolds, [UserNext \/ KeyNext]_requestVars
             PROVE  KeysTypeOK' /\ QuotaHolds'
  OBVIOUS
<1>1. CASE UNCHANGED keyVars
  BY <1>1 DEF keyVars, KeysTypeOK, QuotaHolds
<1>2. CASE UserNext
  <2>1. UNCHANGED keyVars
    BY <1>2 DEF UserNext, ReadMembership, issueTokens, SignInFails, grantRole, changeRole, revokeRole,
                SetTenantStatus, TokenTick
  <2> QED  BY <1>1, <2>1
<1>3. ASSUME UNCHANGED <<usage, uncounted, missed, letIn, plans, burst>>, day' \in 1..Days, apiKey'.plan \in Plans,
             door' \in [Partners -> {NotHere} \union [plan: Plans, day: 1..Days]]
      PROVE  KeysTypeOK' /\ QuotaHolds'
  BY <1>3 DEF KeysTypeOK, QuotaHolds
<1>4. ASSUME NEW p \in Partners, NEW route \in RoutesOf(PartnerApi), ReadKey(p, route)
      PROVE  KeysTypeOK' /\ QuotaHolds'
  BY <1>3, <1>4 DEF ReadKey, KeysTypeOK
<1>5. ASSUME NEW plan \in DOMAIN DAILY_LIMITS, NEW status, ChangeKey([status |-> status, plan |-> plan])
      PROVE  KeysTypeOK' /\ QuotaHolds'
  BY <1>3, <1>5 DEF ChangeKey, KeysTypeOK, Plans, DAILY_LIMITS
<1>6. CASE Midnight
  <2>1. day' \in 1..Days
    BY <1>6, RequestsAssumption DEF Midnight, KeysTypeOK
  <2> QED  BY <1>3, <1>6, <2>1 DEF Midnight, KeysTypeOK
<1> QED  BY <1>1, <1>2, <1>4, <1>5, <1>6, AdmitKeeps, CountKeeps DEF KeyNext, requestVars

\* Over all days no more requests are let in than the bound, so on no day either.
LetInBounded == admitted \in 0..DoorBound /\ \A d \in 1..Days : letIn[d] <= admitted

\* Whoever is let in is counted once, on one day.
LEMMA LetInStep == KeysTypeOK /\ LetInBounded /\ [UserNext \/ KeyNext]_requestVars => LetInBounded'
<1> SUFFICES ASSUME KeysTypeOK, LetInBounded, [UserNext \/ KeyNext]_requestVars
             PROVE  LetInBounded'
  OBVIOUS
<1>1. CASE UNCHANGED <<admitted, letIn>>
  BY <1>1 DEF LetInBounded
<1>2. ASSUME NEW p \in Partners, CheckUsage(p), ~ UNCHANGED <<admitted, letIn>>
      PROVE  LetInBounded'
  <2> DEFINE d == door[p].day
  <2>1. /\ d \in 1..Days /\ letIn' = [letIn EXCEPT ![d] = @ + 1]
        /\ admitted' = admitted + 1 /\ admitted < DoorBound
    BY <1>2 DEF CheckUsage, Admit, KeysTypeOK
  <2>2. letIn \in [1..Days -> Nat] /\ admitted \in Nat /\ DoorBound \in Nat
    BY RequestsAssumption DEF KeysTypeOK, LetInBounded
  <2> HIDE DEF d
  <2>3. ASSUME NEW e \in 1..Days
        PROVE  letIn'[e] <= admitted + 1
    <3>1. letIn[e] <= admitted /\ letIn[e] \in Nat /\ letIn'[e] \in {letIn[e], letIn[e] + 1}
      BY <2>1, <2>2 DEF LetInBounded
    <3> QED  BY <2>2, <3>1
  <2>4. admitted' \in 0..DoorBound
    BY <2>1, <2>2
  <2> QED  BY <2>1, <2>3, <2>4 DEF LetInBounded
<1>3. ASSUME \A p \in Partners : ~CheckUsage(p)
      PROVE  UNCHANGED <<admitted, letIn>>
  <2>1. CASE UserNext
    BY <2>1 DEF UserNext, ReadMembership, issueTokens, SignInFails, grantRole, changeRole, revokeRole,
                SetTenantStatus, TokenTick, keyVars
  <2>2. CASE KeyNext
    BY <1>3, <2>2 DEF KeyNext, ReadKey, CountUsage, ChangeKey, Midnight
  <2>3. CASE UNCHANGED requestVars
    BY <2>3 DEF requestVars, keyVars
  <2> QED  BY <2>1, <2>2, <2>3
<1> QED  BY <1>1, <1>2, <1>3

-----------------------------------------------------------------------------
(* The standing of a user. *)

PortalTypes == {{"BANK"}, {"PLATFORM"}, {"INVESTIGATOR", "AGENCY"}, {"ENTERPRISE"}}

\* A route of a portal is for some roles of its kind of tenant.
ForPortal(route) == route.auth = "jwt" /\ route.types \in PortalTypes /\ route.roles # {}

\* Every route of every portal.
LEMMA PortalsAreForPortals == \A route \in PortalRoutes : ForPortal(route)
<1> SUFFICES ASSUME NEW c \in DOMAIN Portals, NEW m \in DOMAIN Portals[c]
             PROVE  ForPortal(Portals[c][m])
  BY DEF PortalRoutes, RoutesOf
<1>1. c \in {"bank", "platform", "investigator", "enterprise"}
  BY DEF Portals
<1>2. CASE c = "bank"
  <2>1. Portals[c] = BankPortalController
    BY <1>2 DEF Portals
  <2>2. Portals[c][m] = In({"BANK"}, {"BANK_ADMIN", "BANK_ANALYST"})
    BY <2>1 DEF BankPortalController
  <2> QED  BY <2>2 DEF In, Route, PortalTypes, ForPortal
<1>3. CASE c = "platform"
  <2>1. Portals[c] = PlatformPortalController
    BY <1>3 DEF Portals
  <2>2. Portals[c][m] = In({"PLATFORM"}, {"PLATFORM_ADMIN", "PLATFORM_MODERATOR"})
    BY <2>1 DEF PlatformPortalController
  <2> QED  BY <2>2 DEF In, Route, PortalTypes, ForPortal
<1>4. CASE c = "investigator"
  <2>1. Portals[c] = InvestigatorPortalController
    BY <1>4 DEF Portals
  <2>2. Portals[c][m] = In({"INVESTIGATOR", "AGENCY"}, {"INVESTIGATOR", "AGENCY_ANALYST"})
    BY <2>1 DEF InvestigatorPortalController
  <2> QED  BY <2>2 DEF In, Route, PortalTypes, ForPortal
<1>5. CASE c = "enterprise"
  <2>1. Portals[c] = EnterprisePortalController
    BY <1>5 DEF Portals
  <2>2. Portals[c][m] = In({"ENTERPRISE"}, {"ENTERPRISE_ADMIN"})
    BY <2>1 DEF EnterprisePortalController
  <2> QED  BY <2>2 DEF In, Route, PortalTypes, ForPortal
<1> QED  BY <1>1, <1>2, <1>3, <1>4, <1>5

\* Whoever comes through the guards of a portal has a role of the route, is of its kind,
\* and not suspended.
LEMMA PortalAdmits ==
    ASSUME NEW route \in PortalRoutes, NEW c, canActivate(route, c)
    PROVE  c.status = "ACTIVE" /\ c.type \in route.types \ {"INTERNAL"} /\ c.role \in route.roles
<1>1. route.types \in PortalTypes /\ TenantGuards(route, c) /\ route.roles # {} /\ RolesGuard(route, c)
  BY PortalsAreForPortals DEF canActivate, ForPortal
<1>2. "PUBLIC" \in TenantType /\ \A t \in PortalTypes : "PUBLIC" \notin t
  BY DEF TenantType, PortalTypes
<1>3. route.types # TenantType /\ route.types # {"INTERNAL"}
  BY <1>1, <1>2 DEF PortalTypes
<1>4. c.status = "ACTIVE" /\ c.type \in route.types
  BY <1>1, <1>3 DEF TenantGuards, BankTenantGuard, PlatformTenantGuard, InvestigatorTenantGuard,
     EnterpriseTenantGuard
<1>5. "INTERNAL" \notin route.types
  BY <1>1 DEF PortalTypes
<1> QED  BY <1>1, <1>4, <1>5 DEF RolesGuard

\* A route of the back office asks for internal roles.
ForStaff(route) == route.auth = "jwt" /\ route.roles # {} /\ route.roles \subseteq Internal

\* Reviewers, compliance officers, administrators and support are internal roles.
LEMMA StaffRoles ==
    /\ ForStaff(Only(Reviewers)) /\ ForStaff(Only(Admin)) /\ ForStaff(Only(Compliance)) /\ ForStaff(Only(Internal))
    /\ ForStaff(Only({"REVIEWER", "SUPER_ADMIN"}))
    /\ ForStaff(In({"INTERNAL"}, Internal)) /\ ForStaff(In({"INTERNAL"}, Admin))
    /\ ForStaff(In({"INTERNAL"}, Compliance))
  BY DEF ForStaff, Only, In, Route, Reviewers, Admin, Compliance, Internal

\* Every route of every controller of the back office, table by table.
LEMMA BackOfficeRoutes == \A route \in StaffRoutes : ForStaff(route)
<1> SUFFICES ASSUME NEW c \in DOMAIN BackOffice, NEW m \in DOMAIN BackOffice[c]
             PROVE  ForStaff(BackOffice[c][m])
  BY DEF StaffRoutes, RoutesOf
<1> USE StaffRoles
<1>1. CASE c \in {"signals", "queue", "review", "clusters"}
  <2>1. BackOffice[c] \in {ScamSignalsController, ReviewQueueController, SignalReviewController, ClusterController}
    BY <1>1 DEF BackOffice
  <2>2. BackOffice[c][m] = Only(Reviewers)
    BY <2>1 DEF ScamSignalsController, ReviewQueueController, SignalReviewController, ClusterController
  <2> QED  BY <2>2
<1>2. CASE c \in {"graph", "identity", "osint", "authenticity"}
  <2>1. BackOffice[c] \in {FraudGraphController, IdentityGraphController, OsintController, AuthenticityController}
    BY <1>2 DEF BackOffice
  <2>2. BackOffice[c][m] = Only(Reviewers)
    BY <2>1 DEF FraudGraphController, IdentityGraphController, OsintController, AuthenticityController
  <2> QED  BY <2>2
<1>3. CASE c \in {"fusion", "decisions", "similarity", "metrics", "models"}
  <2>1. BackOffice[c] \in {RiskFusionV2Controller, AiDecisionsController, SimilarityController,
                           IntelligenceMetricsController, ModelGovernanceController}
    BY <1>3 DEF BackOffice
  <2>2. BackOffice[c][m] = Only(Reviewers)
    BY <2>1 DEF RiskFusionV2Controller, AiDecisionsController, SimilarityController,
                IntelligenceMetricsController, ModelGovernanceController
  <2> QED  BY <2>2
<1>4. CASE c \in {"rules", "suggestions", "takedowns"}
  <2>1. BackOffice[c] \in {DetectionRuleController, RuleSuggestionController, TakedownController}
    BY <1>4 DEF BackOffice
  <2>2. BackOffice[c][m] = Only(Reviewers)
    BY <2>1 DEF DetectionRuleController, RuleSuggestionController, TakedownController
  <2> QED  BY <2>2
<1>5. CASE c \in {"templates", "keys", "webhooks", "feeds", "staff"}
  <2>1. BackOffice[c] \in {TakedownTemplateController, PartnerKeyController, WebhookAdminController,
                           AgencyFeedAdminController, InternalAdminController}
    BY <1>5 DEF BackOffice
  <2>2. BackOffice[c][m] = Only(Admin)
    BY <2>1 DEF TakedownTemplateController, PartnerKeyController, WebhookAdminController,
                AgencyFeedAdminController, InternalAdminController
  <2> QED  BY <2>2
<1>6. CASE c \in {"aiStatus", "alerts", "appeals"}
  <2>1. BackOffice[c] \in {AiStatusController, PublicAlertAdminController, RegistryAppealAdminController}
    BY <1>6 DEF BackOffice
  <2>2. BackOffice[c][m] \in {Only(Internal), Only(Compliance), Only(Reviewers)}
    BY <2>1 DEF AiStatusController, PublicAlertAdminController, RegistryAppealAdminController
  <2> QED  BY <2>2
<1>7. CASE c = "registry"
  <2>1. BackOffice[c] = RegistryAdminController
    BY <1>7 DEF BackOffice
  <2>2. BackOffice[c][m] \in {Only({"REVIEWER", "SUPER_ADMIN"}), Only(Reviewers), Only(Compliance), Only(Admin)}
    BY <2>1 DEF RegistryAdminController
  <2> QED  BY <2>2
<1>8. CASE c \in {"oversight", "console"}
  <2>1. BackOffice[c] \in {OversightController, AdminConsoleController}
    BY <1>8 DEF BackOffice
  <2>2. BackOffice[c][m] \in {In({"INTERNAL"}, Internal), In({"INTERNAL"}, Admin)}
    BY <2>1 DEF OversightController, AdminConsoleController
  <2> QED  BY <2>2
<1>9. CASE c = "queues"
  <2>1. BackOffice[c] = QueueAdminController
    BY <1>9 DEF BackOffice
  <2>2. BackOffice[c][m] = Only(Compliance)
    BY <2>1 DEF QueueAdminController
  <2> QED  BY <2>2
<1>10. CASE c = "billing"
  <2>1. BackOffice[c] = [x \in {"manualInvoice", "events"} |-> BillingController[x]]
    BY <1>10 DEF BackOffice
  <2>2. BackOffice[c][m] \in {In({"INTERNAL"}, Admin), In({"INTERNAL"}, Compliance)}
    BY <2>1 DEF BillingController
  <2> QED  BY <2>2
<1>11. c \in {"signals", "queue", "review", "clusters", "graph", "identity", "osint", "authenticity", "fusion",
             "decisions", "aiStatus", "similarity", "metrics", "models", "rules", "suggestions", "takedowns",
             "templates", "alerts", "registry", "appeals", "keys", "webhooks", "feeds", "staff", "oversight",
             "console", "queues", "billing"}
  BY DEF BackOffice
<1> QED  BY <1>1, <1>2, <1>3, <1>4, <1>5, <1>6, <1>7, <1>8, <1>9, <1>10, <1>11

OwnClaims == [role |-> home.role, at |-> "home"]
StaffClaims(role) == [role |-> role, at |-> "staff"]

\* The claims of a token or of one being signed are the user's own role, or an internal
\* role: one held in this tick while it is being signed, and one held no longer ago than
\* the token is old afterwards.
TokenInv ==
    /\ home = [role |-> home.role, type |-> home.type, status |-> home.status]
    /\ <<home.role, home.type>> \in Homes /\ home.status \in {"ACTIVE", "SUSPENDED"}
    /\ staff \in [role: Internal, status: {"ACTIVE", "REMOVED"}] \union {NoStaff}
    /\ heldAgo \in [Internal -> 0..(TokenTTL + 1)]
    /\ staff.status = "ACTIVE" => heldAgo[staff.role] = 0
    /\ \/ signing \in {NoClaims, OwnClaims}
       \/ \E role \in Internal : signing = StaffClaims(role) /\ heldAgo[role] = 0
    /\ \/ token = NoToken
       \/ \E age \in 0..TokenTTL :
             \/ token = [role |-> home.role, at |-> "home", age |-> age]
             \/ \E role \in Internal :
                   token = [role |-> role, at |-> "staff", age |-> age] /\ heldAgo[role] <= age

\* Held roles only come closer: the tokens and claims there are stay within their time.
LEMMA HoldingKeeps ==
    ASSUME TokenInv, UNCHANGED <<signing, token>>,
           home' = [role |-> home.role, type |-> home.type, status |-> home'.status],
           home'.status \in {"ACTIVE", "SUSPENDED"},
           staff' \in [role: Internal, status: {"ACTIVE", "REMOVED"}] \union {NoStaff},
           heldAgo' \in [Internal -> 0..(TokenTTL + 1)],
           \A role \in Internal : heldAgo'[role] \in {0, heldAgo[role]},
           staff'.status = "ACTIVE" => heldAgo'[staff'.role] = 0
    PROVE  TokenInv'
<1>1. home'.role = home.role /\ home'.type = home.type /\ OwnClaims' = OwnClaims
  BY DEF OwnClaims
<1>2. \/ signing' \in {NoClaims, OwnClaims'}
      \/ \E role \in Internal : signing' = StaffClaims(role) /\ heldAgo'[role] = 0
  <2>1. CASE signing \in {NoClaims, OwnClaims}
    BY <1>1, <2>1
  <2>2. CASE \E role \in Internal : signing = StaffClaims(role) /\ heldAgo[role] = 0
    <3>1. PICK role \in Internal : signing = StaffClaims(role) /\ heldAgo[role] = 0
      BY <2>2
    <3>2. heldAgo'[role] = 0 /\ signing' = StaffClaims(role)
      BY <3>1
    <3> QED  BY <3>2
  <2> QED  BY <2>1, <2>2 DEF TokenInv
<1>3. \/ token' = NoToken
      \/ \E age \in 0..TokenTTL :
            \/ token' = [role |-> home'.role, at |-> "home", age |-> age]
            \/ \E role \in Internal :
                  token' = [role |-> role, at |-> "staff", age |-> age] /\ heldAgo'[role] <= age
  <2>1. CASE token = NoToken
    BY <2>1
  <2>2. ASSUME NEW age \in 0..TokenTTL, token = [role |-> home.role, at |-> "home", age |-> age]
        PROVE  token' = [role |-> home'.role, at |-> "home", age |-> age]
    BY <1>1, <2>2
  <2>3. ASSUME NEW age \in 0..TokenTTL, NEW role \in Internal, heldAgo[role] <= age
        PROVE  heldAgo'[role] <= age
    <3>1. age \in Nat /\ heldAgo'[role] \in {0, heldAgo[role]}
      BY RequestsAssumption
    <3> QED  BY <2>3, <3>1
  <2> QED  BY <2>1, <2>2, <2>3 DEF TokenInv
<1> QED  BY <1>1, <1>2, <1>3 DEF TokenInv

\* Roles come and go, and tokens with what was read of them.
LEMMA TokenStep == TokenInv /\ [UserNext \/ KeyNext]_requestVars => TokenInv'
<1> SUFFICES ASSUME TokenInv, [UserNext \/ KeyNext]_requestVars
             PROVE  TokenInv'
  OBVIOUS
<1>0. TokenTTL \in Nat
  BY RequestsAssumption
<1>1. CASE UNCHANGED userVars
  BY <1>1 DEF userVars, TokenInv, OwnClaims
<1>2. CASE ReadMembership
  <2>1. UNCHANGED <<home, staff, token, heldAgo>> /\ signing' = getPrimaryMembership
    BY <1>2 DEF ReadMembership
  <2>2. CASE staff.status = "ACTIVE"
    <3>1. staff.role \in Internal /\ heldAgo[staff.role] = 0
      BY <2>2 DEF TokenInv, NoStaff
    <3>2. signing' = StaffClaims(staff.role)
      BY <2>1, <2>2 DEF getPrimaryMembership, StaffClaims
    <3> QED  BY <2>1, <3>1, <3>2 DEF TokenInv, OwnClaims
  <2>3. CASE staff.status # "ACTIVE"
    <3>1. signing' = OwnClaims'
      BY <2>1, <2>3 DEF getPrimaryMembership, OwnClaims
    <3> QED  BY <2>1, <3>1 DEF TokenInv, OwnClaims
  <2> QED  BY <2>2, <2>3
<1>3. CASE issueTokens
  <2>1. /\ UNCHANGED <<home, staff, heldAgo>> /\ signing' = NoClaims /\ signing # NoClaims
        /\ token' = [role |-> signing.role, at |-> signing.at, age |-> 0]
    BY <1>3 DEF issueTokens
  <2>2. CASE signing = OwnClaims
    <3>1. token' = [role |-> home'.role, at |-> "home", age |-> 0] /\ 0 \in 0..TokenTTL
      BY <1>0, <2>1, <2>2 DEF OwnClaims
    <3> QED  BY <2>1, <3>1 DEF TokenInv, OwnClaims
  <2>3. ASSUME NEW role \in Internal, signing = StaffClaims(role), heldAgo[role] = 0
        PROVE  TokenInv'
    <3>1. token' = [role |-> role, at |-> "staff", age |-> 0] /\ heldAgo'[role] <= 0 /\ 0 \in 0..TokenTTL
      BY <1>0, <2>1, <2>3 DEF StaffClaims
    <3> QED  BY <2>1, <3>1 DEF TokenInv, OwnClaims
  <2> QED  BY <2>1, <2>2, <2>3 DEF TokenInv
<1>4. CASE SignInFails
  BY <1>4 DEF SignInFails, TokenInv, OwnClaims
<1>5. ASSUME NEW role \in Internal, grantRole(role)
      PROVE  TokenInv'
  <2>1. /\ UNCHANGED <<home, signing, token>> /\ staff' = [role |-> role, status |-> "ACTIVE"]
        /\ heldAgo' = [heldAgo EXCEPT ![role] = 0]
    BY <1>5 DEF grantRole
  <2>2. heldAgo' \in [Internal -> 0..(TokenTTL + 1)] /\ \A x \in Internal : heldAgo'[x] \in {0, heldAgo[x]}
    BY <1>0, <2>1 DEF TokenInv
  <2>3. heldAgo'[staff'.role] = 0
    BY <2>1 DEF TokenInv
  <2> QED  BY <2>1, <2>2, <2>3, HoldingKeeps DEF TokenInv
<1>6. ASSUME NEW role \in Internal, changeRole(role)
      PROVE  TokenInv'
  <2>1. /\ UNCHANGED <<home, signing, token>> /\ staff' = [staff EXCEPT !.role = role] /\ staff # NoStaff
        /\ heldAgo' = IF staff.status = "ACTIVE" THEN [heldAgo EXCEPT ![role] = 0] ELSE heldAgo
    BY <1>6 DEF changeRole
  <2>2. heldAgo' \in [Internal -> 0..(TokenTTL + 1)] /\ \A x \in Internal : heldAgo'[x] \in {0, heldAgo[x]}
    BY <1>0, <2>1 DEF TokenInv
  <2>3. /\ staff' \in [role: Internal, status: {"ACTIVE", "REMOVED"}] /\ staff'.role = role
        /\ staff'.status = staff.status
    BY <2>1 DEF TokenInv
  <2>4. staff'.status = "ACTIVE" => heldAgo'[staff'.role] = 0
    BY <2>1, <2>3 DEF TokenInv
  <2> QED  BY <2>1, <2>2, <2>3, <2>4, HoldingKeeps DEF TokenInv
<1>7. CASE revokeRole
  <2>1. /\ UNCHANGED <<home, signing, token, heldAgo>> /\ staff.status = "ACTIVE"
        /\ staff' = [staff EXCEPT !.status = "REMOVED"]
    BY <1>7 DEF revokeRole
  <2>2. staff' \in [role: Internal, status: {"ACTIVE", "REMOVED"}] /\ staff'.status = "REMOVED"
    BY <2>1 DEF TokenInv, NoStaff
  <2> QED  BY <2>1, <2>2, HoldingKeeps DEF TokenInv
<1>8. CASE SetTenantStatus
  <2>1. UNCHANGED <<staff, signing, token, heldAgo>>
        /\ \E x \in {"ACTIVE", "SUSPENDED"} : home' = [home EXCEPT !.status = x]
    BY <1>8 DEF SetTenantStatus
  <2>2. PICK x \in {"ACTIVE", "SUSPENDED"} : home' = [role |-> home.role, type |-> home.type, status |-> x]
    BY <2>1 DEF TokenInv
  <2> QED  BY <2>1, <2>2, HoldingKeeps DEF TokenInv
<1>9. CASE TokenTick
  <2>1. UNCHANGED <<home, staff, signing>> /\ signing = NoClaims /\ heldAgo' = HeldOn
    BY <1>9 DEF TokenTick
  <2>2. ASSUME NEW role \in Internal
        PROVE  /\ heldAgo'[role] \in 0..(TokenTTL + 1) /\ heldAgo'[role] <= heldAgo[role] + 1
               /\ staff = [role |-> role, status |-> "ACTIVE"] => heldAgo'[role] = 0
    <3>1. heldAgo[role] \in 0..(TokenTTL + 1)
      BY DEF TokenInv
    <3> QED  BY <1>0, <2>1, <3>1 DEF HeldOn
  <2>3. heldAgo' \in [Internal -> 0..(TokenTTL + 1)]
    BY <2>1, <2>2 DEF HeldOn
  <2>4. staff'.status = "ACTIVE" => heldAgo'[staff'.role] = 0
    <3>1. staff.status = "ACTIVE" => staff \in [role: Internal, status: {"ACTIVE", "REMOVED"}]
      BY DEF TokenInv, NoStaff
    <3>2. ASSUME staff.status = "ACTIVE"
          PROVE  staff = [role |-> staff.role, status |-> "ACTIVE"] /\ staff.role \in Internal
      BY <3>1, <3>2
    <3> QED  BY <2>1, <2>2, <3>2
  <2>5. \/ token' = NoToken
        \/ \E age \in 0..TokenTTL :
              \/ token' = [role |-> home'.role, at |-> "home", age |-> age]
              \/ \E role \in Internal :
                    token' = [role |-> role, at |-> "staff", age |-> age] /\ heldAgo'[role] <= age
    <3>1. CASE token = NoToken \/ token.age = TokenTTL
      BY <1>9, <3>1 DEF TokenTick
    <3>2. CASE token # NoToken /\ token.age # TokenTTL
      <4>1. token' = [token EXCEPT !.age = @ + 1]
        BY <1>9, <3>2 DEF TokenTick
      <4>2. ASSUME NEW age \in 0..TokenTTL, token = [role |-> home.role, at |-> "home", age |-> age]
            PROVE  \E a \in 0..TokenTTL : token' = [role |-> home'.role, at |-> "home", age |-> a]
        <5>1. age + 1 \in 0..TokenTTL /\ token' = [role |-> home'.role, at |-> "home", age |-> age + 1]
          BY <1>0, <2>1, <3>2, <4>1, <4>2
        <5> QED  BY <5>1
      <4>3. ASSUME NEW age \in 0..TokenTTL, NEW role \in Internal,
                   token = [role |-> role, at |-> "staff", age |-> age], heldAgo[role] <= age
            PROVE  \E a \in 0..TokenTTL :
                      token' = [role |-> role, at |-> "staff", age |-> a] /\ heldAgo'[role] <= a
        <5>1. age + 1 \in 0..TokenTTL /\ token' = [role |-> role, at |-> "staff", age |-> age + 1]
          BY <1>0, <3>2, <4>1, <4>3
        <5>2. heldAgo'[role] <= age + 1
          BY <1>0, <2>2, <4>3 DEF TokenInv
        <5> QED  BY <5>1, <5>2
      <4> QED  BY <3>2, <4>2, <4>3 DEF TokenInv
    <3> QED  BY <3>1, <3>2
  <2> QED  BY <2>1, <2>3, <2>4, <2>5 DEF TokenInv, OwnClaims
<1>10. CASE KeyNext
  <2>1. UNCHANGED userVars
    BY <1>10 DEF KeyNext, ReadKey, CheckUsage, CountUsage, ChangeKey, Midnight
  <2> QED  BY <1>1, <2>1
<1> QED  BY <1>1, <1>2, <1>3, <1>4, <1>5, <1>6, <1>7, <1>8, <1>9, <1>10 DEF UserNext, requestVars

\* No role of the staff is anyone's own, and nobody's own tenant is the internal one.
LEMMA HomesAreNotStaff ==
    \A h \in Homes : h[1] \notin Internal /\ h[1] \in MembershipRole /\ h[2] \in TenantType
<1>1. Internal = {"REVIEWER", "SUPER_ADMIN", "COMPLIANCE_OFFICER", "SUPPORT"}
  BY DEF Internal, Reviewers
<1> QED  BY <1>1 DEF Homes, MembershipRole, TenantType

\* What the claims of tokens are bounds whom the guards let in.
LEMMA StandingHolds == TokenInv => ServedWithStanding
<1> SUFFICES ASSUME TokenInv, NEW route \in UserRoutes, canActivate(route, Caller)
             PROVE  /\ route \in PortalRoutes =>
                          home.role \in route.roles /\ home.type \in route.types /\ home.status = "ACTIVE"
                    /\ route \in StaffRoutes => \E role \in route.roles : heldAgo[role] <= TokenTTL
                    /\ route.auth = "jwt" =>
                          IF token.at = "staff" THEN heldAgo[token.role] <= TokenTTL ELSE token.role = home.role
  BY DEF ServedWithStanding
<1>0. TokenTTL \in Nat
  BY RequestsAssumption
<1>1. /\ Caller.role = token.role /\ (Caller.signedIn <=> token # NoToken)
      /\ Caller.type = IF token.at = "staff" THEN "INTERNAL" ELSE home.type
      /\ Caller.status = IF token.at = "staff" THEN "ACTIVE" ELSE home.status
  BY DEF Caller
<1>2. ASSUME route.auth = "jwt"
      PROVE  \/ token.at = "home" /\ token.role = home.role
             \/ token.at = "staff" /\ token.role \in Internal /\ heldAgo[token.role] <= TokenTTL
  <2>1. token # NoToken
    BY <1>1, <1>2 DEF canActivate, JwtAuthGuard
  <2>2. ASSUME NEW age \in 0..TokenTTL, NEW role \in Internal, heldAgo[role] <= age
        PROVE  heldAgo[role] <= TokenTTL
    <3>1. heldAgo[role] \in Nat /\ age \in Nat /\ age <= TokenTTL
      BY <1>0 DEF TokenInv
    <3> QED  BY <1>0, <2>2, <3>1
  <2> QED  BY <2>1, <2>2 DEF TokenInv
<1>3. ASSUME route \in PortalRoutes
      PROVE  home.role \in route.roles /\ home.type \in route.types /\ home.status = "ACTIVE"
  <2>1. /\ Caller.status = "ACTIVE" /\ Caller.type \in route.types \ {"INTERNAL"}
        /\ Caller.role \in route.roles /\ route.auth = "jwt"
    BY <1>3, PortalAdmits, PortalsAreForPortals DEF ForPortal
  <2>2. token.at = "home" /\ token.role = home.role
    BY <1>1, <1>2, <2>1
  <2> QED  BY <1>1, <2>1, <2>2
<1>4. ASSUME route \in StaffRoutes
      PROVE  \E role \in route.roles : heldAgo[role] <= TokenTTL
  <2>1. route.auth = "jwt" /\ token.role \in route.roles /\ token.role \in Internal
    BY <1>1, <1>4, BackOfficeRoutes DEF ForStaff, canActivate, RolesGuard
  <2>2. home.role \notin Internal
    <3>1. <<home.role, home.type>>[1] = home.role /\ <<home.role, home.type>> \in Homes
      BY DEF TokenInv
    <3> HIDE DEF Homes, Internal
    <3> QED  BY <3>1, HomesAreNotStaff
  <2> QED  BY <1>2, <2>1, <2>2
<1> QED  BY <1>2, <1>3, <1>4

-----------------------------------------------------------------------------
(* The theorem. *)

RequestsInv == KeysTypeOK /\ LetInBounded /\ TokenInv /\ QuotaHolds

\* No token, no role of the staff, nothing used.
LEMMA RequestsStart == UsersInit /\ KeysInit => RequestsInv
<1> SUFFICES ASSUME UsersInit, KeysInit PROVE RequestsInv
  OBVIOUS
<1>1. KeysTypeOK
  BY RequestsAssumption DEF KeysInit, KeysTypeOK, Plans
<1>2. QuotaHolds
  BY DEF KeysInit, QuotaHolds
<1>3. TokenInv
  <2>1. PICK h \in Homes : home = [role |-> h[1], type |-> h[2], status |-> "ACTIVE"]
    BY DEF UsersInit
  <2>2. h = <<h[1], h[2]>>
    BY DEF Homes
  <2>3. staff = NoStaff /\ NoStaff.status = "none" /\ signing = NoClaims /\ token = NoToken
    BY DEF UsersInit, NoStaff
  <2>4. heldAgo \in [Internal -> 0..(TokenTTL + 1)]
    BY RequestsAssumption DEF UsersInit
  <2> HIDE DEF Homes
  <2> QED  BY <2>1, <2>2, <2>3, <2>4 DEF TokenInv
<1>5. LetInBounded
  BY RequestsAssumption DEF KeysInit, LetInBounded
<1> QED  BY <1>1, <1>2, <1>3, <1>5 DEF RequestsInv

\* It goes on from step to step.
LEMMA RequestsStep == RequestsInv /\ [UserNext \/ KeyNext]_requestVars => RequestsInv'
  BY KeysStep, LetInStep, TokenStep DEF RequestsInv

\* Roles are those of a membership, and what is counted of a day was let in.
LEMMA RequestsTyped == RequestsInv => RequestsTypeOK
<1> SUFFICES ASSUME RequestsInv PROVE RequestsTypeOK
  OBVIOUS
<1> USE RequestsAssumption
<1>1. home.role \in MembershipRole /\ home.type \in TenantType
  <2>1. <<home.role, home.type>>[1] = home.role /\ <<home.role, home.type>>[2] = home.type
        /\ <<home.role, home.type>> \in Homes
    BY DEF RequestsInv, TokenInv
  <2> HIDE DEF Homes
  <2> QED  BY <2>1, HomesAreNotStaff
<1>2. Internal \subseteq MembershipRole
  BY DEF Internal, Reviewers, MembershipRole
<1>3. /\ home \in [role: MembershipRole, type: TenantType, status: {"ACTIVE", "SUSPENDED"}]
      /\ staff \in [role: Internal, status: {"ACTIVE", "REMOVED"}] \union {NoStaff}
      /\ heldAgo \in [Internal -> 0..(TokenTTL + 1)]
  BY <1>1 DEF RequestsInv, TokenInv
<1>4. /\ signing \in [role: MembershipRole, at: {"home", "staff"}] \union {NoClaims}
      /\ token \in [role: MembershipRole, at: {"home", "staff"}, age: 0..TokenTTL] \union {NoToken}
  BY <1>1, <1>2 DEF RequestsInv, TokenInv, OwnClaims, StaffClaims
<1>5. apiKey.plan \in DOMAIN DAILY_LIMITS /\ day \in 1..Days /\ admitted \in 0..DoorBound
  BY DEF RequestsInv, KeysTypeOK, Plans, DAILY_LIMITS, LetInBounded
<1>6. ASSUME NEW d \in 1..Days
      PROVE  usage[d] + uncounted[d] <= DoorBound
  <2>1. /\ usage[d] \in Nat /\ uncounted[d] \in Nat /\ missed[d] \in Nat /\ letIn[d] \in Nat
        /\ usage[d] + uncounted[d] + missed[d] = letIn[d] /\ letIn[d] <= admitted
    BY DEF RequestsInv, KeysTypeOK, QuotaHolds, LetInBounded
  <2> QED  BY <1>5, <2>1, RequestsAssumption
<1> QED  BY <1>3, <1>4, <1>5, <1>6 DEF RequestsTypeOK

\* What the guards promise holds for any number of partners, any limits and any life of
\* a token: within a day a key lets in its limit and what was not counted in time; a
\* portal lets in only who has its role in its kind of active tenant, and the back office
\* only who held one of its roles no longer ago than a token lives, so a revoked role is
\* served until the token expires and no longer (ApiKeyGuard, RolesGuard, the tenant
\* guards, JwtStrategy, InternalAdminService).
THEOREM TheDoorHolds == RequestsSpec => []DoorHolds
<1>1. RequestsInv => DoorHolds
  BY StandingHolds DEF RequestsInv, DoorHolds
<1> QED  BY <1>1, RequestsStart, RequestsStep, PTL DEF RequestsSpec
=============================================================================
