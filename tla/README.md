# TLA+ models of the VIGISCAM backend

VIGISCAM is a NestJS API over PostgreSQL (Prisma), with Redis for queues and
cache invalidation, Azure Blob for files and Stripe for billing. Every HTTP
request runs a handler that is a *sequence* of database statements; with few
exceptions the statements do not share a transaction, several server processes
run at once, and a request may die between any two statements. The models keep
exactly that: one action per statement group that other requests can tell apart,
a `Fail` action wherever a handler can be interrupted, and the early returns of
the code as guards.

## 1. Inventory

| Component | State | Operations | What makes it hard | What makes it correct |
|---|---|---|---|---|
| Evidence Vault (`evidence-vault/evidence.service.ts`) | `evidence_events`, one hash chain per tenant and one for the system | `append`, `verifyChain` | concurrent appends, rollbacks, lock-key collisions, hash of the passed value against the stored one | one linear chain per tenant; untouched chains verify; tampered ones do not |
| Protection (`protection-settings`, `scamhold`, `giftcardguard`, `walletguard`, `claimverify`, `guardian-pause`, `trusted-contact-review`, `families/trusted-contacts`) | settings row, held actions and pauses, contacts, reviews with one-time tokens | check / decide, start / complete, update settings, request and decide a review, edit contacts | policy read, approval look-up and write are separate statements; failures between write and evidence | nothing passes that policy does not permit; decisions are backed by evidence; escalations reach a contact |
| Accounts and staff (`auth`, `internal-admin`) | users, memberships, refresh tokens, access tokens at large | register, login, refresh, logout, grant, change, revoke | role claims outlive the membership; check-then-update | there is always a SUPER_ADMIN; claims are current when issued; one usable refresh token per session |
| Billing (`billing`, `common/billing`) | subscription row, event log; at Stripe: customers, subscription, events | checkout, portal, manual invoice, webhook | duplicate, overlapping, reordered, failed deliveries | the row mirrors Stripe; entitlement is on record; every event is processed |
| Routes and guards (`*.controller.ts`, `common/guards`, `partner-api/api-key.guard.ts`) | none of their own; tokens, memberships, tenants, keys, daily usage | admit or refuse a request | claims outlive the role and the membership; usage read before it is counted | portals to their own members, the back office on a role held within a token's life; quota |
| Guardianship (`families/guardianship`) | consent links | request, grant, decline, revoke, summary | check-then-update, read after check | no access without consent |
| Cache (`common/cache`) | per-node entries | get, set, delete, broadcast | lossy broadcast, fill race, an alert that expires while its answer is cached | bounded staleness |
| Queues, notifications, webhooks | delivery rows, jobs | send, retry, publish | crash between provider and row, retries | every delivery is accounted for |
| Evidence files and exports | file rows, blobs, bundles | upload, share, hold, export | two stores, non-idempotent retry | file and checksum agree; custody is complete |
| Partner keys | keys, daily usage | issue, change plan, revoke, guard | quota read before increment | revoked keys stop |
| Signals and review queue | signals, queue items | intake with merging and triage, assign, review | find-then-write, queue item looked for before it is made | reports merge; suspicious signals are queued; decisions are on record |
| Registry, appeals, takedowns | entries, appeals, drafts | candidate, approve, publish, unpublish, reject, appeal | decisions beside each other, an appeal beside a publish | the public sees only what was approved; an upheld appeal keeps an entry off |
| Agency feeds | feeds, the agency's cursor | consume page by page | stamps before commits, ties at a page's end | the agency lacks nothing before its cursor |
| Clusters, fraud and identity graph, AI, OSINT | clusters, nodes, edges, embeddings | enrich a signal in phases, each best effort; suggest rules | find-or-create, read-then-count | peers connected, counts right |
| Alerts, rules, takedowns, feeds, keys, devices, policies | status machines | create, edit, move | check-then-update | only legal transitions; status, dates and evidence agree |
| Risk pipeline (risk events, sessions, freeze, ScamMirror, authenticity, fusion, models) | sessions, alerts, locks, simulations, checks | trigger, telemetry, analyse, fuse, simulate | several rows per event, lost requests | an intervention is never half made |
| Portals (bank, platform, enterprise, investigator) | cases and decisions | open, update, link, decide | check-then-update | closed cases stay closed |
| Scorers | none | score, level, recommendation | caps, bands, rules in order | bounded, and never milder for worse facts |

Interactions: nearly every handler calls `EvidenceService.append` after its
write; the five protection modules call `ProtectionEnforcementService`, which
reads the settings and asks `TrustedContactReviewService`; ScamHold and its
siblings start guardian pauses; access tokens issued by `AuthService` decide who
may call `InternalAdminService`; Stripe calls the billing webhook. Intake of a
signal enriches it (clusters, embeddings, graph, OSINT), best effort; a reviewed
signal becomes a registry candidate; publishing an entry or an alert invalidates
the caches of every node, calls the webhooks and drafts takedowns; an accepted
appeal calls `RegistryService.unpublish`.

The hazards this gives are listed, each at its line, in `PROJECT.json`.

## 2. Modules

| Module | Models | State and actions |
|---|---|---|
| `EvidenceVault` | `append` and `verifyChain` | `rows` is the committed table, `holder` the advisory locks, `pc`/`tx` the transactions. `Begin`, `Lock`, `ReadLast`, `Insert`, `Commit`, `Rollback`; `VerifyIntact` is the walk of `verifyChain`. |
| `EvidenceLog` | what the vault promises | `entries`, extended by one atomic `Append` |
| `EvidenceTamper` | the vault with one out-of-band change | `Alter`, `Remove` |
| `ProtectionPolicy` | `ProtectionPolicyService.evaluate` | pure operators |
| `HeldActions` | the five protection modules, settings, contacts, reviews | rows of the tables, `req` the requests with their statement. `DecideRead`, `getSettings`, `CreateSettings`, `CheckApproval`, `Update`, `Append`, `RouteReview` are `decide()`; `ReviewRead`, `ReviewWrite` are the contact's `decide()`; `Open`, `StartPause`, `updateSettings`, `SaveContact`, `RemoveContact`, `AskReview`; `Fail`. |
| `StaffAccess` | `AuthService`, `RolesGuard`, `InternalAdminService` | memberships, refresh tokens, `access` (who holds a token that claims SUPER_ADMIN). `login`, `refresh`, `ReadMembership`, `issueTokens`, `SpendOld`, `logout`; `grantRole`, `changeRole`, `revokeRole`, `assertNotLastSuperAdmin` and the three writes. |
| `Billing` | `BillingService`, `StripeService` | the row, the event log, `work` (deliveries), `call` (checkouts); Stripe as an external environment. `Receive`, `CreateLog`, `Apply`, `Mark`, `Fail`; `ensureCustomer`, `PersistCustomer`, `FailCall`, `setManualInvoice`. |
| `Access` | every controller's routes with the guards before them | pure operators: one record of routes per controller, and `canActivate` |
| `Requests` | `JwtAuthGuard`, `RolesGuard`, the tenant guards; `ApiKeyGuard` and the usage counter | a user's membership at `home` and in the internal tenant (`staff`), `signing` (what a login has read), `token`; `apiKey`, `usage` by day, `door` (requests between the read of the key and of the usage). `ReadMembership`, `issueTokens`, `SignInFails`, `grantRole`, `changeRole`, `revokeRole`, `SetTenantStatus`, `TokenTick`; `ReadKey`, `CheckUsage`, `CountUsage` (nobody waits for it), `ChangeKey`, `Midnight`. |
| `PublicReads` | `CacheService`, `CacheInvalidationBus`, the two cached public reads, `publish`/`unpublish`/`updateStatus` as far as the public sees them | the item's status and `expiresIn`, the time to its `expiresAt`; `store` and `fill` per node, `writer`, `bus`. `search`, `listPublic`, `set`, `Evict`; `CheckStatus`, `UpdateStatus`, `AppendEvent`, `deletePrefix`, `FailWriter`; `onMessage`, `LoseMessage`, `Tick`. |
| `Webhooks` | `WebhookService` | `sub`, `dlv` (the row and where `deliver` is). `createSubscription`, `revokeSubscription`, `publish`, `broadcastPublic`, `Persist`, `Post`, `RecordAnswer` and their failures, `Crash`. |
| `EvidenceFiles` | `EvidenceFileService`, `BlobService`, the export queue | `blob`, `file`, `bundle`, `custody`, `task`. `Upload`, `StoreBlob`, `CreateFile`; `exportBundle`, `requestExportBundle`, `ReadManifest`, `CreateBundle`; `setLegalHold`, `generateShareLinks`, `LogCustody`, `FailTask`. |
| `SignalReview` | `ScamSignalsService`, triage, `ReviewQueueService` | `signals`, `queue`, `call`. `intake`, `WriteSignal`, `Enrich`, `LookForItem`, `QueueSignal`; `assign`, `reviewSignal`, `WriteDecision`, `FindItem`, `CloseItem`; `FailCall`. |
| `Registry` | `RegistryService`, `AppealsService`, takedown automation | `entries`, `openItems`, `appeals`, `drafts`, `work`. `createCandidate`, `Decide` (approve, publish, unpublish, reject), `WriteEntry`, `markQueueComplete`, `tryAutomate`, `DraftTakedown`; `fileAppeal`, `startReview`, `decideAppeal` and the steps of its `unpublish`; `FailWork`. |
| `AgencyFeeds` | `AgencyFeedService` consumption | `entry` with `updatedAt`, `update` not committed yet, `cursor`, `seen` (the agency's copy). `SendUpdate`, `CommitUpdate`, `BeginConsume`, `QueryEntries`, `Answer`, `LoseAnswer`, `revokeFeed`, `Clock`. |
| `IntelGraph` | clusters, embeddings, `FraudGraphService`, `IdentityCollisionService`, OSINT, rule suggestions, campaigns | `clusters`, `clusterOf`, `embedded`, `similar`, `nodes`, `edges`, `crew`. One action per phase and statement of the enrichment, `PhaseFails`; `generateSuggestions`, `createSuggestion`; `addCampaignMember`, `removeCampaignMember`. |
| `Lifecycles` | every table with a status machine (21 kinds of row: guardianship links, alerts, rules, takedowns, feeds, keys, exports, cases, teller and grooming checks, bank and claim reviews, policies, integrations, devices, inbox, tenants, AI decisions) | one `Handler` record per service method: route, who, statuses it accepts, status it writes, dates it sets and clears, evidence it appends. `Admit` (guards, read, check), `WriteRow`/`RefuseRow`, `FetchSummary`, `logEvidence`, `LinkEvidence`, `Die`. |
| `Notifications` | `NotificationService`, the five adapters, the queue, the retry worker | `delivery`, `sender`, `job`. `Sending` and `Retrying` are the statements of `send` and of a job; `SenderDies`, `UpdateFails`, `Stall`. |
| `RiskPipeline` | risk events, telemetry, NLP analysis, sessions, FreezeLock, ScamMirror, authenticity, fusion, model registry | `session`, `sim`, `learned`, `fails`, `models`; `book`: each request with what it read, has to do and has done. One action per operation, then `SessionWrite`, `MirrorWrite`, `CheckWrite`, `ModelWrite`, `Record`; `Perish`. |
| `Scoring` | the point tables, caps, levels and recommendations of ten scorers | pure operators |
| `CaseScores` | a case whose facts turn worse | `scorer`, `facts`; `Worsen` |
| `EvidenceVaultProofs`, `HeldActionsProofs`, `StaffAccessProofs`, `BillingProofs` | theorems about the module of that name (the first also about `EvidenceTamper`) | |
| `PublicSideProofs` | theorems about `PublicReads`, `Webhooks`, `EvidenceFiles`, `SignalReview` | |
| `IntelligenceProofs` | theorems about `Registry`, `AgencyFeeds`, `IntelGraph` | |
| `CaseworkProofs` | theorems about `Lifecycles`, `Notifications`, `CaseScores` with `Scoring`, and `RiskPipeline` | |
| `RequestsProofs` | the theorem about `Requests` and the routes of `Access` | |
| `MC*` | instances for TLC | |

Definitions whose comment begins with *Mutant* are altered forms of the definition
below them. They are not used by the specifications: they show that each property
fails when the code behind it has a plausible bug.

Abstractions worth knowing:

* SHA-256 is collision-free: a hash is the tuple of what is hashed. Metadata is a
  record; `stableStringify` writes an undefined property as null and JSONB storage
  drops it, and this difference is kept.
* A protection module's decisions are CONTINUE, RELEASE, ESCALATE and STOP, which
  is what enforcement tells apart. The five modules are records of one parameter
  set (what pauses, what is offered, what is enforced, whether the amount is
  passed on), each taken from its service.
* The scorers in `Scoring` are tables at the edges of their bands; what a text says
  is the set of patterns it matches. A chain of `if` becomes nested `IF`s, or a `CASE`
  whose guards exclude each other, since `CASE` chooses among the guards that hold. `HeldActions` takes the resulting risk level as
  an input, since enforcement tells only the levels apart.
* `Lifecycles` keeps one row of one kind (`kind`); the handlers of a row differ only
  in the values of the `Handler` record, which is where they are translated.
  `RiskPipeline` does the same with `area`.
* The cluster key of a signal is the constant `KeyOf`, and whether OSINT knows its
  type of indicator the constant `Enrichable`. Which texts
  are similar is the constant `Alike`; whether a signal has text at all is chosen anew
  each time it is handed in.
* BullMQ, Redis, the mail, SMS and push providers, partner endpoints, blob storage
  and Stripe are external: modelled by what the code can observe of them.
* History variables record what happened and no action of the code reads them:
  `failed`, `unrouted`, `overlapped`, `raced`, `split`, `disordered`, `applied`, the
  fields `permitted` and `held`; `excused`, `age` (`PublicReads`); `arrived`
  (`Webhooks`); `stored` (`EvidenceFiles`); `mixed`, `broken`, `reports`
  (`SignalReview`); `met`, `torn`, `upheld`, `refused` (`Registry`); `heldAgo`,
  `missed`, `letIn`, `admitted`, `plans`, `burst` (`Requests`); `missedBy`
  (`AgencyFeeds`); `processed`, `spoilt` (`IntelGraph`); `path`, `unlogged`
  (`Lifecycles`); `accepted`, `dead` (`Notifications`); `clashed` (`RiskPipeline`).
* A call that is refused, or finds nothing to write, is no step. What it is refused for
  is sometimes outside the module: in `Lifecycles` the registry entry of a takedown (it
  exists and is not REJECTED), the kind of the tenant a key is issued to, the plan a key
  already has.
* An alert's `expiresAt` is `expiresIn` ticks away from the start: `listPublic` hides
  the alert when it passes, and nothing else in the code takes notice.
* In `Requests` a user has a membership at home, which no code changes (tenants are only
  suspended), and may have one in the internal tenant. The checks of grant, change and
  revoke among several administrators are in `StaffAccess`; here overlapping ones write
  what they would write one after another. Whether a user is admitted is a state
  predicate, `canActivate(route, Caller)`, looked at in every state and for every route.
  Time is counted in ticks longer than a login takes, so a role read for the claims and
  revoked before they are signed is served one token's life from then, not two.
* A request that only reads and returns is not a step, except where what it read is
  the question (public reads, feeds, the guardian's summary, the guards).

## 3. Runs

| Run | Shows | Bounds |
|---|---|---|
| `evidence_vault` | linear chains, untouched chains verify, fresh reads, append-only, `append()` ends, refinement of the log | 2 tenants with one lock key and the system chain, 2 requests, 4 appends: two requests meet in every state of each other's transaction, and chains reach length 4 |
| `evidence_tamper` | any single alteration, renumbering, re-linking or removal below the newest event is detected from then on | 1 tenant and the system chain, 4 appends |
| `evidence_spread` | *violation*: metadata with an undefined property | 3 appends |
| `protection` | nothing passes unpermitted, decisions backed, escalations routed, tightening is safe | 1 held action and 1 pause, 2 requests, 1 review, 1 contact, 1 change of settings or contacts, risks HIGH and CRITICAL, an amount at the stricter threshold and below the other; the held action is a SCAMHOLD one (all four modules together run past five minutes), the theorems of `HeldActionsProofs` hold for every module |
| `review_token_race` | *violation*: a token used twice at once | as above |
| `staff_access` | a SUPER_ADMIN remains, claims current, sessions linear | 2 users, 2 refresh tokens, 2 requests, 2 internal roles |
| `last_super_admin` | *violation*: two admins removing each other | two admins to begin with |
| `billing` | entitlement on record, row mirrors Stripe, one customer, every event processed | 3 events, 2 overlapping deliveries, 1 call, 1 failure, 1 manual invoice |
| `billing_redelivery` | *violation*: an event applied twice | as above |
| `public_side` | cached reads are stale for a TTL at most, webhook deliveries, files and reviews are accounted for | reads: 2 nodes, 2 writers, TTL 1, 2 changes, alerts without an expiry or up to 2 ticks from it; webhooks: 2 subscriptions of 2 tenants, 2 events, 1 crash; files: 1 owner, 1 name, 2 contents, 2 at a time, 3 requests, 2 files and bundles; signals: 2 callers, 3 reports, 2 reviews, 1 fault |
| `casework` | status, dates and evidence agree, guardrails hold under any interleaving, interventions are whole, deliveries settle, no score falls | tables: each of the 21 kinds, 2 desks, 9 people, 4 requests, 1 death; notifications: an EMAIL and an IN_APP message, 3 attempts, 1 stall, 2 deaths; scores: every scorer, up to 3 facts turning worse; pipeline: each of 4 areas, 3 requests, 1 loss, 2 model versions |
| `intelligence` | only reviewed entries are public, quota and standing hold, feeds and graph lack only what the properties name | registry: 2 staff, 2 entries, 1 appeal, 6 requests, 1 break; guards: every kind of tenant and every internal role, token life 1; keys: limits 1 and 2, 2 days, 2 partners, 3 let in; feeds: 2 entries, page of 1, 3 updates, 3 ticks; graph: 2 signals of one cluster and a campaign, 2 workers, 2 runs, 1 mishap |

Two of everything that can overlap is enough for the races looked for: each is
between two requests on one row. The proofs below lift the bounds where they
exist. Symmetry is used only in runs without liveness properties (`protection`,
`staff_access`, `public_side`, `intelligence`). Deadlock is not
checked: in every model the bounds let the system come to rest with nothing left
to do, and a stuck request would show in the liveness properties.

The last three runs hold several components each. The components of such a run
share no variables: each carries the rows it needs, so interleaving them would only
multiply the states. The variable `part` picks the one that moves, and the others
keep an initial state. What one component does to another is inside the module that
needs it: publication and its cache invalidation in `PublicReads`, an appeal that
unpublishes and the takedowns in `Registry`, the guards before a handler in
`Lifecycles` (through `Access`), alert and freeze of a risk event in `RiskPipeline`.

Their properties, and the exceptions each one states, are these. An exception is
exactly what the code does not prevent; a mutant of the code breaks the rest.

| Property | Parts | Excepted |
|---|---|---|
| `ReadsFresh` | `StalenessBounded`: behind the status and the expiry never longer than the TTL. `StaleOnlyInTransit`: behind at all only while a change or its message is under way | the second: a lost message, a handler that died after its write, a fill that crossed a change, an answer stored before the alert's `expiresAt` that still lists it after |
| `DeliveriesOnRecord` | what reached a partner is on record, once; PENDING only while running | PENDING after a crash |
| `FilesAccounted` | `FilesVerifiable`: bytes match the stored hash. `CustodyComplete`: files, bundles and holds have their events | a name used twice; a failure between row and event, overlapping changes of a hold |
| `ReviewSound` | `HighRiskQueued`, `ReportsMerged`, `DecisionOnRecord` | a failure half way; intake beside review; two intakes; two reviews |
| `RegistryHonest` | `PublishedWasApproved`, `CandidatesQueued`, `OneDraft` | decisions taken beside each other, and for the queue item a failure |
| `AppealHonoured` | an upheld appeal keeps the entry off until published anew | a publish in progress meanwhile |
| `DoorHolds` | `QuotaHolds`: limit plus failed counts plus counts under way. `ServedWithStanding`: a portal admits its own members while their tenant is active, the back office whoever held a role of the route within a token's life | a revoked or demoted member of the staff until the token expires: tokens are not looked up, so this is a bound and no refusal |
| `FeedComplete` | everything before the cursor was delivered in its latest version | an update stamped before a page and committed after it; a tie at the end of a page |
| `GraphSound` | `PeersConnected`, `CountsRight` | counts and scores: overlaps and failed phases |
| `StampsAgree` | dates and status tell one story | that no other date is set: overlaps |
| `Guardrails` | activation only after testing and by the right roles, consent only by the protected user, terminal statuses | a final status left by an overlapping request |
| `Accounted` | `LogTellsStatus`, `ViewsOnRecord` | a death before the entry; overlaps |
| `PipelineSound` | `InterventionComplete`, `SimulationKept`, `FusionCounts`, `ModelsGoverned` | lost requests, overlapping ends, turns or activations, a version registered as ACTIVE |
| `DeliverySettles` | `[]SentWasSent`, and every delivery opened is settled or its attempts are used up | a `send()` that died |
| `ScoresClimb` | worse facts never lower score, level or recommendation | the fusion's victim rules, CONFUSED before TRUSTING |

### Fairness

* `EvidenceVault`: an open transaction runs on (`WF` of its statements), and
  PostgreSQL queues the waiters of an advisory lock, so a waiter is served
  although others come and go (`SF` of `Lock`). Rollback needs no fairness.
* `Billing`: Stripe repeats a delivery until it is answered and a running handler
  goes on (`WF` of their disjunction). Nothing is assumed of failures except that
  they are finitely many (`FailBound`).
* `Notifications`: a running `send()` goes on, and BullMQ runs a waiting job and
  takes up a stalled one (`WF` of both). Deaths are finitely many (`DeathBound`), and
  a `send()` that dies is not resumed by anything: the property excepts it.

### Disagreements between the code and what it says

1. `evidence_spread`. `investigator-portal.service.ts` `updateCase` appends
   `changes: { ...dto }`. With the validation pipe's transform the DTO instance has
   every declared property, undefined where it was not sent; the hash covers them
   as null, the stored JSON lacks them, and `verifyChain` reports an event nobody
   touched as altered, against the comment on `stableStringify`.
2. `review_token_race`. `decide()` in `trusted-contact-review.service.ts` burns the
   token "so the link can't be replayed", but checks and update are separate: two
   overlapping uses both succeed and the second replaces the decision.
3. `last_super_admin`. "The last active SUPER_ADMIN can never be removed or
   demoted" fails when two of them act on each other at once. Without overlapping
   staff changes it holds (`SuperAdminSurvives`).
4. `billing_redelivery`. The webhook handler is "idempotent [...] a redelivery
   short-circuits", but only once `processedAt` is set, after the effect.

Observed while modelling, without a run of their own: the route of the contact's
decision is public, so `JwtAuthGuard` never authenticates it and the logged-in
owner or admin its comment mentions is never seen; an escalation through
`decide()` takes the row out of PENDING, so the approval it asks for can no longer
release it; CONTINUE stays refused after an approval although the schema comment on
the setting says "until a trusted contact approves"; a manual invoice is
overwritten by the next Stripe event while `manualInvoice` stays set.

## 4. Proofs

Each proof module extends the specifications it is about; its theorems hold for every
value of the constants under the named assumptions. Those of the last three runs extend
the run's `MC` module, because the last theorem of each is about its `Spec`; the sets an
`MC` module defines (`MCPeople` and its like) are used by no proof. Most assumptions say
that a parameter is a number, a finite set (`Callers` of `SignalReview` and `Crew` of
`IntelGraph` among them: requests in progress can be counted) or a function of the right
type. The others are:

* the value that stands for "no row" or "no request" is none of the records
  (`NoRowAssumption`, `NoValueAssumption`, `NoRecordAssumption`, `NoneAssumption` and
  their like): model values for TLC, null in the code;
* `StatusAssumption` and `PlanAssumption` of `Billing`: Stripe's other statuses are not
  "none" or "canceled", and FREE cannot be bought, as in `billing.types.ts`.

Two theorems have a hypothesis of their own, because the code needs it:
`EveryPropertyDefined` (no metadata property is undefined; the run `evidence_spread`
shows what happens otherwise) in `UntouchedVerifies` and `TamperingIsDetected`, and
distinct host names in `PublicReadsAreFresh`: the bus drops messages that carry the
receiver's own `HOSTNAME`, so that two processes of one host never tell each other.
`StalenessIsBounded` needs no such thing. An expiry needs no message either: each node's
own query and the TTL of its entries are what hides a lapsed alert.

`EvidenceVaultProofs`. Chain linearity is not inductive: a commit keeps it only if
what the transaction read is still the end of the chain. The inductive invariant
`IInv` therefore adds that a transaction past `Lock` holds the lock of its chain
alone, and that the last event it read is the chain's last. From it follow
`ChainIsLinear`, `ReadsStayFresh`, `TableAppendOnly` and, through a simulation of
each step, `Refinement`. `TamperingIsDetected` keeps, from the one change on, a place
of the chain where the walk of `verifyChain` must stop, and shows that appends, which
only link to the end, never repair it.

`HeldActionsProofs`. `NothingPasses` rests on `PolicyInv`: the types, `Tracked`
(the history field of a request covers what policy permits now) and `Guarded` (a
request that is past enforcement was permitted). The step that matters is
`EnforcedIsPermitted`: what `enforceDecision` lets through, the settings it read
permit. `DecisionsAreBacked` and `EscalationsAreRouted` are inductive together with
the types. `TighteningIsSafe` follows from the monotonicity of the policy
(`PolicyMonotone`).

`StaffAccessProofs`. Every property rests on `TypeInv`: the types, at most one primary
membership, and `Refers` (a staff change names a membership that exists).
`ClaimsAreCurrent` adds `HeldCurrent`: the history field of a login or refresh holds the
account's present role. `SuperAdminStays` adds what an admin alone has counted: if it is
about to write to an active SUPER_ADMIN, there is another. `SessionsAreLinear` adds,
token family by token family (`OneAtATime`), what a refresh under way may still spend
and hand out, for the families no two requests used at once.

`BillingProofs`. `TypeInv` says that what a delivery works on was emitted.
`EntitlementsOnRecord` adds that a delivery past its first statement has its event in
the log. `OneCustomerPerTenant` adds that without an overlap or a failure in between a
customer not stored yet belongs to the one call under way. `RowMirrorsStripe` adds three
facts: Stripe's events are in the order of its states (`EmittedShape`), deliveries in
order leave no gap in the log (`OrderInv`), and a processed event is mirrored by the row
unless its successor already is (`MirrorInv`).

`PublicSideProofs`. `DeliveriesAreOnRecord`: the row, the place of `deliver` and what
arrived fit together (`DeliveryShape`). `StalenessIsBounded`: the age of what a node
holds and the time its entry has left add up to the TTL at most (`AgesAddUp`); a query
that has read and not yet stored is young. The age starts anew when an alert's
`expiresAt` passes, and the entries have lost a tick by then. `PublicReadsAreFresh` adds
that behind each stale entry there is a message, a writer, an accident, or an expiry that
came after the entry was stored. `StoredFilesVerify` and
`FilesStayAccounted`: the bytes of a name stored once are kept through every retry, and
each row without its event has a task under way or a named failure. `SignalsAreReviewed`
is proved in four parts: overlaps are noted by the requests they hit, counts follow the
reports, decisions follow the reviews, and a suspicious signal without an item has a
request that will look for one. `PublicSideKeepsTypes` bounds the counters as well: that
no signal counts more reports than were handed in needs the intakes that have not
written yet (`SignalBounds`: reports taken in and intakes still writing stay within the
bound).

`IntelligenceProofs`. `FeedsAreComplete`: versions grow, and a page covers what lay
between the cursor and its end when it was read (`PageCovers`). `RegistryInvariance` is
the inductive invariant of the registry: types and references (an appeal is about an
entry that was approved), `MeetingsNoted` (requests that ran beside each other are
recorded), and then the four promises in the form each step keeps: `RefusalsStand`,
`AppealsStand`, `QueueHolds`, `DraftsApart`. `RegistryIsHonest` and
`AppealsAreHonoured` follow. `GraphIsSound` rests on `WorkersFit` and `ClustersFit` (a
request past a phase that did not fail finds its signal linked, clustered, with a node)
and on `PeersMeet`: two signals owed an edge have it, or the request of one of them is
still to read its peers or to link the other. A node is written before peers are read, so
whichever request is later sees the earlier. `AlikeMeet` says the same of similar texts;
`CountsFit`, `RisksFit` and `DraftsFit` say what a count, a risk and a draft that were
read are worth until they are written. `IntelligenceKeepsTypes` adds `RunsCounted`: the
count of a node, together with the requests of its signal that have not passed the node
phase, is one more than the enrichments begun at most.

`CaseworkProofs`. The interleavings of the 21 tables are one argument: `HandlersFit`
shows, table by table, what each handler guarantees (`Facts`: its dates, the statuses it
leads from and to, who may call it, its entry), and the steps are then proved once.
`RequestsInv` ties a request under way to what it was admitted for. `StampsInv`
strengthens `StampsAgree` by the dates a status must lack, including those of an end
still ahead (`Absent`); without it the step from DISABLED back to ACTIVE could inherit
them. `GuardsInv` replaces "this status was reached through that one" by "a status
beyond a gate was reached only after the gate" (`Beyond`, `Gate`), which a handler that
changes no status keeps as well. `LogInv` adds the request that has written and not yet
appended (`Recording`). `TablesKeepTypes` adds that every entry under way or in the trail
is one of a handler of the row's kind with a status the row has had (`TablesTyped`).

Notifications: `NotificationsInv` follows a message from hand to hand. Who holds the
answer "ok" (the sender, the job or the row) has it from a provider that took the
message, and a message whose adapter skips was taken by none (`AnswerInv`); attempts are
counted against the one of `send`, the failed and stalled runs of the job and the one
under way (`RowInv`). `WhatWasSentWasSent` and the bounds of `NotificationsTyped` follow.

The risk pipeline: a request is the list of what it still has to do and the set of what
it has done. `Program` writes down the statements of each operation in order, and the
invariant `PipelineInv` says that a request is at one place of its program: what is to do
is the rest of it and what is done is the part before it (a freeze that flags no session,
since it was told of none or of another, notes that instead).
The four promises of `PipelineSound` then each add what a statement leaves behind, for
instance that "intervening" is the last of eight and nothing before it may be missing,
or that of two ACTIVE versions of a model one was registered as such or two activations
overlapped.

The scorers: `ScorersClimb` is about sums over a set of factors, which `MapThenSumSet`
defines by recursion over the parts of the set. Induction theorems take an operator and
cannot be used, so `TallyExists` and `TallyClimbs` look at the smallest part of the set
for which the claim would fail (`LeastNumber`, from well-foundedness of `<`): one element
less and it holds. `PointsClimb` gives each sum; `TellerVerdict` and `GroomingVerdict`
take caps and single-fact escalations one by one; `JourneyIs`, `StateIs` and `RulesClimb`
do the fusion's rules in their order. TLC takes up to three facts for the worse,
the theorem any number. Where points only add up, the property is near at hand; it says
something of the caps, the hard stops and escalations of the teller and grooming scores,
the maximum the scam check takes and the order of the fusion's rules.

`SideBySide` shows that the run's `Spec` implements the specification of each of the four
components; `CaseworkKeepsTypes` and `CaseworkIsSound` join their theorems.

`RequestsProofs`. The quota is inductive with the types: who is let in found the usage
below the limit of his plan, and the rest of what was let in is being counted
(`burst`) or was lost (`missed`). What is let in on any day stays within the bound of the
run by `LetInBounded`: it is no more than `admitted`, the count over all days. For the
users, `TokenInv` says that claims being signed are those of the home membership or of an
internal role held since the last tick, and that a token names the home role, or an
internal role that was last held no longer ago than the token is old. A token that is
older than `TokenTTL` is gone, which bounds how long a revoked role is served. What
remains is about the routes: those of a portal ask for its kind of tenant, those of the
back office for internal roles, which `PortalsAreForPortals` and `BackOfficeRoutes`
go through the tables of `Access` controller by controller.

Model-checked only:

* Liveness (`AppendEnds`, `EventsProcessed`, and of `DeliverySettles` that a delivery is
  settled in the end): the prover does not handle fairness. The other half of
  `DeliverySettles`, `[]SentWasSent`, is the theorem `WhatWasSentWasSent`.
* The properties of the four violation runs, which are false there:
  `UntouchedChainVerifies` where metadata may be undefined, `TokenSpentOnce`,
  `SuperAdminAlways`, `AppliedOnce`.

## 5. Plan

The models and the proofs planned are there: every invariant and action property of the
passing runs is a theorem, and so is the refinement of `EvidenceLog`. What a change of
the source asks for:

1. A new route or handler is a line of `Access` or a `Handler` record of `Lifecycles`;
   `HandlersFit` then has one case more.
2. A new statement of a pipeline request is an element of `Program`.
3. A new factor of a scorer needs only `FactorsPointed` and `FactorsFinite`; a new rule
   of a verdict also the lemma of that scorer.

The conjunction properties are made of named parts so that each can be proved in the
module that defines it, without the composing `MC` module.

## 6. Not modelled

The components in `PROJECT.json` say of each part what is left out. In short:

* Framework wiring, configuration, request validation, rate limits, health and
  generated types have no state of their own that the properties could be about.
* Single statements with nothing to interfere with: creating a takedown template or a
  campaign, marking an in-app notification as read, `delete` and `clear` of the cache.
* Variants of what is modelled: rule suggestions from NLP tactics (the same look-up
  and create over another grouping), `recordNode` of other callers, `exportCluster`
  (reads and one evidence event).
* External model services and the JSON they answer with; OSINT sources; the patterns
  of text analysis beyond the set of patterns that matched; the language gate on
  public text, which is an input of `Registry`.
* Reads that only answer: lists, dashboards, queues of the portals, the timeline.
