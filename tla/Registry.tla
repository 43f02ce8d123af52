------------------------------- MODULE Registry -------------------------------
(***************************************************************************)
(* RegistryService, RegistryAppealService and TakedownAutomationService    *)
(* around one verified signal: candidate, public-safe approval, publishing,*)
(* appeals, and the takedown drafts that publishing makes.  A request reads*)
(* and checks the status, then writes without a condition on it.           *)
(***************************************************************************)
EXTENDS Naturals, FiniteSets

CONSTANTS
    Staff,              \* requests that can be in progress at once
    IndicatorTypes,     \* of the signals that become candidates
    Registrar,          \* what the OSINT row names as registrar, or NoName
    Templates,          \* enabled takedown templates: [type, provider, name, priority]
    NoName,
    EntryBound, AppealBound, RequestBound, BreakBound

ASSUME RegistryAssumption ==
    /\ \A t, u \in Templates : t.type = u.type /\ t.priority = u.priority => t = u
    /\ {EntryBound, AppealBound, RequestBound, BreakBound} \subseteq Nat

VARIABLES
    verified,   \* the source signal is VERIFIED_SCAM_INTELLIGENCE
    entries,    \* registry entries of the signal
    openItems,  \* entries with an open item in the review queue
    appeals,
    drafts,     \* takedown requests drafted by the automation: <<entry, provider, n>>
    work,       \* the requests in progress
    taken,      \* requests so far
    breaks,
    met,        \* history: pairs of kinds of requests that were in progress together
    torn,       \* history: kinds of the requests that failed
    upheld,     \* history: entries an accepted appeal took down, not published since
    refused     \* history: entries that were rejected

registryVars == <<verified, entries, openItems, appeals, drafts, work, taken,
                  breaks, met, torn, upheld, refused>>

Idle == [kind |-> "idle"]
NoEntry == [status |-> "none", type |-> "none", approvedAt |-> FALSE, publishedAt |-> FALSE]
NoAppeal == [status |-> "none", entry |-> 0]

\* The rows of the two tables, and the requests in progress.
EntryRows ==
    [status : {"CANDIDATE", "APPROVED_PUBLIC_SAFE", "PUBLISHED", "REJECTED"}, type : IndicatorTypes,
     approvedAt : BOOLEAN, publishedAt : BOOLEAN]
AppealRows == [status : {"SUBMITTED", "UNDER_REVIEW", "ACCEPTED", "REJECTED"}, entry : 1..EntryBound]

Decisions == {"approve", "publish", "unpublish", "reject"}
CreateWork ==
    [kind : {"create"}, at : {"write", "queue"}, entry : 0..EntryBound, type : IndicatorTypes]
DecisionWork == [kind : Decisions, at : {"write", "after", "draft"}, entry : 1..EntryBound]
FilingWork == [kind : {"appeal"}, at : {"write"}, entry : 1..EntryBound]
StartWork == [kind : {"start"}, at : {"write"}, appeal : 1..AppealBound]
AppealWork ==
    [kind : {"decide"}, at : {"entry", "unpublish", "takedown", "record"}, appeal : 1..AppealBound,
     accepted : BOOLEAN, unpublish : BOOLEAN]
WorkRecords == CreateWork \union DecisionWork \union FilingWork \union StartWork \union AppealWork

RegistryInit ==
    /\ verified = TRUE
    /\ entries = [e \in 1..EntryBound |-> NoEntry]
    /\ openItems = {}
    /\ appeals = [a \in 1..AppealBound |-> NoAppeal]
    /\ drafts = {}
    /\ work = [w \in Staff |-> Idle]
    /\ taken = 0 /\ breaks = 0
    /\ met = {} /\ torn = {} /\ upheld = {} /\ refused = {}

BeginWork(w, r) ==
    /\ work[w] = Idle
    /\ taken < RequestBound
    /\ taken' = taken + 1
    /\ work' = [work EXCEPT ![w] = r]
    /\ met' = met \union {{r.kind, work[v].kind} : v \in {x \in Staff : work[x] # Idle}}
    /\ UNCHANGED <<verified, entries, openItems, appeals, drafts, breaks, torn, refused>>

GoOn(w, at) == work' = [work EXCEPT ![w].at = at]
EndWork(w) == work' = [work EXCEPT ![w] = Idle]
At(w, kind, at) == work[w].kind = kind /\ work[w].at = at

\* The signal's status moves with later reports and reviews (SignalReview).
SignalMoves ==
    /\ verified /\ verified' = FALSE
    /\ UNCHANGED <<entries, openItems, appeals, drafts, work, taken, breaks, met, torn, upheld, refused>>

----------------------------------------------------------------------------
(* Candidates.                                                             *)

\* A verified signal that has no entry yet (the text passed the language gate).
createCandidate(w) ==
    /\ verified
    /\ \A e \in DOMAIN entries : entries[e] = NoEntry
    /\ \E t \in IndicatorTypes : BeginWork(w, [kind |-> "create", at |-> "write", entry |-> 0, type |-> t])
    /\ UNCHANGED upheld

CreateEntry(w) ==
    /\ At(w, "create", "write")
    /\ \E e \in DOMAIN entries :
          /\ entries[e] = NoEntry /\ \A f \in 1..(e - 1) : entries[f] # NoEntry
          /\ entries' = [entries EXCEPT ![e] = [NoEntry EXCEPT !.status = "CANDIDATE",
                                                              !.type = work[w].type]]
          /\ work' = [work EXCEPT ![w].at = "queue", ![w].entry = e]
    /\ UNCHANGED <<verified, openItems, appeals, drafts, taken, breaks, met, torn, upheld, refused>>

QueueCandidate(w) ==
    /\ At(w, "create", "queue")
    /\ openItems' = openItems \union {work[w].entry}
    /\ EndWork(w)
    /\ UNCHANGED <<verified, entries, appeals, drafts, taken, breaks, met, torn, upheld, refused>>

----------------------------------------------------------------------------
(* Decisions on an entry: requireStatus, then the write.                   *)

\* Mutant: a rejected entry may be published.
requireStatusLoosely(kind) ==
    CASE kind = "approve"   -> {"CANDIDATE", "UNDER_REVIEW"}
      [] kind = "publish"   -> {"APPROVED_PUBLIC_SAFE", "REJECTED"}
      [] kind = "unpublish" -> {"PUBLISHED"}
      [] kind = "reject"    -> {"CANDIDATE", "UNDER_REVIEW", "APPROVED_PUBLIC_SAFE"}

requireStatus(kind) ==
    CASE kind = "approve"   -> {"CANDIDATE", "UNDER_REVIEW"}
      [] kind = "publish"   -> {"APPROVED_PUBLIC_SAFE"}
      [] kind = "unpublish" -> {"PUBLISHED"}
      [] kind = "reject"    -> {"CANDIDATE", "UNDER_REVIEW", "APPROVED_PUBLIC_SAFE"}

Decide(w, kind) ==
    \E e \in DOMAIN entries :
        /\ entries[e].status \in requireStatus(kind)
        /\ BeginWork(w, [kind |-> kind, at |-> "write", entry |-> e])
        /\ upheld' = IF kind = "publish" THEN upheld \ {e} ELSE upheld

\* What each decision writes over the row, whatever it holds by now.
Decided(kind, row) ==
    CASE kind = "approve"   -> [row EXCEPT !.status = "APPROVED_PUBLIC_SAFE", !.approvedAt = TRUE]
      [] kind = "publish"   -> [row EXCEPT !.status = "PUBLISHED", !.publishedAt = TRUE]
      [] kind = "unpublish" -> [row EXCEPT !.status = "APPROVED_PUBLIC_SAFE", !.publishedAt = FALSE]
      [] kind = "reject"    -> [row EXCEPT !.status = "REJECTED"]

WriteEntry(w) ==
    LET r == work[w] IN
    /\ r.kind \in Decisions /\ r.at = "write"
    /\ entries' = [entries EXCEPT ![r.entry] = Decided(r.kind, @)]
    /\ refused' = IF r.kind = "reject" THEN refused \union {r.entry} ELSE refused
    /\ GoOn(w, "after")
    /\ UNCHANGED <<verified, openItems, appeals, drafts, taken, breaks, met, torn, upheld>>

\* approve and reject close every open item of the entry, then log.
markQueueComplete(w) ==
    /\ At(w, "approve", "after") \/ At(w, "reject", "after")
    /\ openItems' = openItems \ {work[w].entry}
    /\ EndWork(w)
    /\ UNCHANGED <<verified, entries, appeals, drafts, taken, breaks, met, torn, upheld, refused>>

\* unpublish logs, drops the cached searches and notifies the partner.
FinishUnpublish(w) ==
    /\ At(w, "unpublish", "after")
    /\ EndWork(w)
    /\ UNCHANGED <<verified, entries, openItems, appeals, drafts, taken, breaks, met, torn, upheld, refused>>

----------------------------------------------------------------------------
(* publish ends with tryAutomate.                                          *)

TYPE_TO_PROVIDER ==
    [type \in {"DOMAIN", "URL", "EMAIL", "PHONE", "CRYPTO_WALLET", "SOCIAL_PROFILE"} |->
        CASE type \in {"DOMAIN", "URL"} -> "DOMAIN_REGISTRAR"
          [] type = "EMAIL" -> "EMAIL_PROVIDER"
          [] type = "PHONE" -> "TELECOM_CARRIER"
          [] type = "CRYPTO_WALLET" -> "PAYMENT_PROVIDER"
          [] type = "SOCIAL_PROFILE" -> "SOCIAL_PLATFORM"]

\* Only registrars are read from the enrichment.
extractDetectedName(providerType) ==
    IF providerType = "DOMAIN_REGISTRAR" THEN Registrar ELSE NoName

matches(type) ==
    IF type \notin DOMAIN TYPE_TO_PROVIDER THEN {}
    ELSE {t \in Templates : /\ t.type = TYPE_TO_PROVIDER[type]
                            /\ t.name = extractDetectedName(t.type)}

\* The provider of the matching template with the highest priority.
Chosen(type) ==
    (CHOOSE t \in matches(type) : \A u \in matches(type) : u.priority <= t.priority).provider

\* No template, or a request to that provider is there already: nothing to do.
tryAutomate(w) ==
    LET e == work[w].entry
        type == entries[e].type
    IN  /\ At(w, "publish", "after")
        /\ IF matches(type) = {} \/ \E d \in drafts : d[1] = e /\ d[2] = Chosen(type)
           THEN EndWork(w) ELSE GoOn(w, "draft")
        /\ UNCHANGED <<verified, entries, openItems, appeals, drafts, taken, breaks, met, torn, upheld, refused>>

DraftTakedown(w) ==
    LET e == work[w].entry IN
    /\ At(w, "publish", "draft")
    /\ drafts' = drafts \union {<<e, Chosen(entries[e].type), Cardinality(drafts) + 1>>}
    /\ EndWork(w)
    /\ UNCHANGED <<verified, entries, openItems, appeals, taken, breaks, met, torn, upheld, refused>>

----------------------------------------------------------------------------
(* Appeals.                                                                *)

\* Anyone may contest an entry that is published.
fileAppeal(w) ==
    /\ \E e \in DOMAIN entries :
          /\ entries[e].status = "PUBLISHED"
          /\ BeginWork(w, [kind |-> "appeal", at |-> "write", entry |-> e])
    /\ UNCHANGED upheld

CreateAppeal(w) ==
    /\ At(w, "appeal", "write")
    /\ \E a \in DOMAIN appeals :
          /\ appeals[a] = NoAppeal /\ \A b \in 1..(a - 1) : appeals[b] # NoAppeal
          /\ appeals' = [appeals EXCEPT ![a] = [status |-> "SUBMITTED", entry |-> work[w].entry]]
    /\ EndWork(w)
    /\ UNCHANGED <<verified, entries, openItems, drafts, taken, breaks, met, torn, upheld, refused>>

startReview(w) ==
    /\ \E a \in DOMAIN appeals :
          /\ appeals[a].status = "SUBMITTED"
          /\ BeginWork(w, [kind |-> "start", at |-> "write", appeal |-> a])
    /\ UNCHANGED upheld

WriteReview(w) ==
    /\ At(w, "start", "write")
    /\ appeals' = [appeals EXCEPT ![work[w].appeal].status = "UNDER_REVIEW"]
    /\ EndWork(w)
    /\ UNCHANGED <<verified, entries, openItems, drafts, taken, breaks, met, torn, upheld, refused>>

\* The appeal is open; accepted, it may ask for the entry to be taken down.
decideAppeal(w) ==
    /\ \E a \in DOMAIN appeals, accepted, unpublish \in BOOLEAN :
          /\ appeals[a].status \in {"SUBMITTED", "UNDER_REVIEW"}
          /\ BeginWork(w, [kind |-> "decide", appeal |-> a, accepted |-> accepted,
                           unpublish |-> accepted /\ unpublish,
                           at |-> IF accepted /\ unpublish THEN "entry" ELSE "record"])
    /\ UNCHANGED upheld

\* Mutant: the entry is left as it is.
LeaveContested(w) ==
    /\ At(w, "decide", "entry")
    /\ GoOn(w, "record")
    /\ UNCHANGED <<verified, entries, openItems, appeals, drafts, taken, breaks, met, torn, upheld, refused>>

\* The entry is read: a published one goes through unpublish, which checks again.
ReadContested(w) ==
    /\ At(w, "decide", "entry")
    /\ GoOn(w, IF entries[appeals[work[w].appeal].entry].status = "PUBLISHED" THEN "unpublish" ELSE "record")
    /\ UNCHANGED <<verified, entries, openItems, appeals, drafts, taken, breaks, met, torn, upheld, refused>>

CheckContested(w) ==
    /\ At(w, "decide", "unpublish")
    /\ IF entries[appeals[work[w].appeal].entry].status = "PUBLISHED" THEN GoOn(w, "takedown") ELSE EndWork(w)
    /\ UNCHANGED <<verified, entries, openItems, appeals, drafts, taken, breaks, met, torn, upheld, refused>>

UnpublishContested(w) ==
    /\ At(w, "decide", "takedown")
    /\ entries' = [entries EXCEPT ![appeals[work[w].appeal].entry] = Decided("unpublish", @)]
    /\ GoOn(w, "record")
    /\ UNCHANGED <<verified, openItems, appeals, drafts, taken, breaks, met, torn, upheld, refused>>

RecordDecision(w) ==
    LET r == work[w] IN
    /\ At(w, "decide", "record")
    /\ appeals' = [appeals EXCEPT ![r.appeal].status = IF r.accepted THEN "ACCEPTED" ELSE "REJECTED"]
    /\ upheld' = IF r.unpublish THEN upheld \union {appeals[r.appeal].entry} ELSE upheld
    /\ EndWork(w)
    /\ UNCHANGED <<verified, entries, openItems, drafts, taken, breaks, met, torn, refused>>

----------------------------------------------------------------------------
FailWork(w) ==
    /\ work[w] # Idle
    /\ breaks < BreakBound
    /\ breaks' = breaks + 1
    /\ torn' = torn \union {work[w].kind}
    /\ EndWork(w)
    /\ UNCHANGED <<verified, entries, openItems, appeals, drafts, taken, met, upheld, refused>>

RegistryNext ==
    \/ SignalMoves
    \/ \E w \in Staff :
        \/ createCandidate(w) \/ CreateEntry(w) \/ QueueCandidate(w)
        \/ Decide(w, "approve") \/ Decide(w, "publish") \/ Decide(w, "unpublish") \/ Decide(w, "reject")
        \/ WriteEntry(w) \/ markQueueComplete(w) \/ FinishUnpublish(w)
        \/ tryAutomate(w) \/ DraftTakedown(w)
        \/ fileAppeal(w) \/ CreateAppeal(w) \/ startReview(w) \/ WriteReview(w)
        \/ decideAppeal(w) \/ ReadContested(w) \/ CheckContested(w) \/ UnpublishContested(w)
        \/ RecordDecision(w) \/ FailWork(w)

RegistrySpec == RegistryInit /\ [][RegistryNext]_registryVars

----------------------------------------------------------------------------
RegistryTypeOK ==
    /\ verified \in BOOLEAN
    /\ entries \in [1..EntryBound -> EntryRows \union {NoEntry}]
    /\ openItems \subseteq 1..EntryBound
    /\ appeals \in [1..AppealBound -> AppealRows \union {NoAppeal}]
    /\ work \in [Staff -> WorkRecords \union {Idle}]
    /\ \A d \in drafts : d[1] \in 1..EntryBound
    /\ taken \in 0..RequestBound /\ breaks \in 0..BreakBound
    /\ upheld \subseteq 1..EntryBound /\ refused \subseteq 1..EntryBound

Calm(kinds) == \A m \in met : m \intersect kinds = {}
AtRest(kinds) == \A w \in Staff : work[w].kind \notin kinds
Whole(kinds) == torn \intersect kinds = {}

(* What the public sees went through review: a published entry was approved*)
(* and carries its time of publishing, and one that was rejected is never  *)
(* published, unless a decision on it was taken beside another.            *)
PublishedWasApproved ==
    \A e \in DOMAIN entries :
        /\ entries[e].status = "PUBLISHED" => entries[e].approvedAt
        /\ Calm(Decisions) /\ entries[e].status = "PUBLISHED" =>
              entries[e].publishedAt /\ e \notin refused

(* An accepted appeal that asks for it keeps the entry off the registry    *)
(* until it is published anew, unless a publish was in progress meanwhile. *)
AppealHonoured ==
    Calm({"publish"}) => \A e \in upheld : entries[e].status # "PUBLISHED"

(* An entry waits for review exactly while it is a candidate, unless       *)
(* its creation or its decision failed half way, or overlapped another.    *)
CandidatesQueued ==
    AtRest({"create", "approve", "reject"}) /\ Whole({"create", "approve", "reject"})
        /\ Calm({"create", "approve", "reject"}) =>
        \A e \in DOMAIN entries : e \in openItems <=> entries[e].status = "CANDIDATE"

(* Publishing an entry again drafts no second takedown for it, unless two  *)
(* publications overlapped (nothing but the look-up prevents it).          *)
OneDraft ==
    Calm({"publish"}) => \A d1, d2 \in drafts : d1[1] = d2[1] /\ d1[2] = d2[2] => d1 = d2

(* The registry holds what its review decided: what is published was        *)
(* approved, what waits is in the queue, and one takedown is drafted.        *)
RegistryHonest == PublishedWasApproved /\ CandidatesQueued /\ OneDraft
=============================================================================
