----------------------------- MODULE HeldActions -----------------------------
(***************************************************************************)
(* The protection modules of one user: ScamHold, GiftCardGuard,            *)
(* WalletGuard, ClaimVerify and Guardian Pause hold a risky action, and    *)
(* the user decides it through ProtectionEnforcementService, which reads   *)
(* the protection settings and the trusted-contact reviews.  A request is  *)
(* a sequence of database statements with no transaction around it, so     *)
(* requests, settings changes and review decisions interleave between any  *)
(* two of them, and a request may fail at any of them.                     *)
(*                                                                         *)
(* The modules' decision names are abstracted to what enforcement tells    *)
(* apart: CONTINUE, RELEASE, ESCALATE (to a trusted contact) and STOP (the *)
(* others).  The risk score is an input.  The Evidence Vault is the set of *)
(* decision events appended to it (see EvidenceVault); the other evidence  *)
(* events and the risk_events feed, which no handler here reads, are left  *)
(* out.                                                                    *)
(***************************************************************************)
EXTENDS ProtectionPolicy, FiniteSets

CONSTANTS
    Actions,          \* ids of held actions
    Pauses,           \* ids of guardian pauses
    Reviews,          \* ids of trusted-contact reviews
    Contacts,         \* ids of trusted contacts
    Requests,         \* concurrent requests
    ElderModeEnabled, \* User.elderModeEnabled: no code in the repository writes it
    DefaultSettings,  \* the column defaults of protection_settings
    SavedSettings,    \* settings the user saves
    FirstContacts,    \* what the user's contacts may do at first
    Opened,           \* the checking modules the user calls
    Risks, Amounts,   \* what a check finds
    NoHold, NoReview, NoRequest,
    Deleted,          \* a row that is gone; ids are never used again
    EditBound         \* bound on the changes of settings and contacts

Holds == Actions \union Pauses

ASSUME DefaultAssumption == DefaultSettings \in SettingsRecords
ASSUME SavedAssumption == SavedSettings \subseteq SettingsRecords
ASSUME ElderAssumption == ElderModeEnabled \in BOOLEAN
ASSUME FirstAssumption == FirstContacts \subseteq {"none", "approver", "alerts", "silent"}
ASSUME OpenedAssumption ==
    Opened \subseteq {"SCAMHOLD", "GIFTCARDGUARD", "WALLETGUARD", "CLAIMVERIFY"}
ASSUME RiskAssumption == Risks \subseteq RiskLevels
ASSUME AmountAssumption == Amounts \subseteq SUBSET Nat

VARIABLES
    settings,   \* the user's protection_settings row: {} or {row}
    contacts,   \* the user's trusted contacts and what each may do
    hold,       \* the rows of the five modules' tables
    review,     \* trusted_contact_reviews
    req,        \* requests in flight
    edits,      \* changes of settings and contacts so far
    trail,      \* decision events in the Evidence Vault
    failed,     \* history: holds with a request that failed after its write
    unrouted    \* history: escalated holds for which no contact was eligible

rows == <<settings, contacts, hold, review>>
history == <<failed, unrouted>>
vars == <<settings, contacts, hold, review, req, edits, trail,
          failed, unrouted>>

(***************************************************************************)
(* What each module's check does with a risk level, and what its decide    *)
(* offers, enforces and passes to the enforcement as the amount.           *)
(***************************************************************************)
ScamHoldCheck  == [pausesAt |-> {"CRITICAL"}]
GiftCardScan   == [pausesAt |-> HIGH_OR_CRITICAL]
WalletCheck    == [pausesAt |-> HIGH_OR_CRITICAL]
ClaimVerify    == [pausesAt |-> HIGH_OR_CRITICAL]

ScamHoldDecide == [offers |-> {"CONTINUE", "RELEASE", "ESCALATE", "STOP"},
                   enforces |-> {"CONTINUE", "RELEASE", "ESCALATE", "STOP"},
                   passesAmount |-> TRUE]
GiftCardDecide == [offers |-> {"CONTINUE", "ESCALATE", "STOP"},
                   enforces |-> {"CONTINUE", "ESCALATE", "STOP"},
                   passesAmount |-> TRUE]
WalletDecide   == [offers |-> {"CONTINUE", "RELEASE", "ESCALATE", "STOP"},
                   enforces |-> {"CONTINUE", "RELEASE", "ESCALATE", "STOP"},
                   passesAmount |-> FALSE]
ClaimDecide    == [offers |-> {"CONTINUE", "RELEASE", "ESCALATE", "STOP"},
                   enforces |-> {"CONTINUE", "RELEASE", "ESCALATE", "STOP"},
                   passesAmount |-> FALSE]
PauseComplete  == [offers |-> {"CONTINUE", "STOP"},
                   enforces |-> {"CONTINUE"},
                   passesAmount |-> FALSE]

Check == [SCAMHOLD |-> ScamHoldCheck, GIFTCARDGUARD |-> GiftCardScan,
          WALLETGUARD |-> WalletCheck, CLAIMVERIFY |-> ClaimVerify]

Decide == [SCAMHOLD |-> ScamHoldDecide, GIFTCARDGUARD |-> GiftCardDecide,
           WALLETGUARD |-> WalletDecide, CLAIMVERIFY |-> ClaimDecide,
           GUARDIAN_PAUSE |-> PauseComplete]

Modules == DOMAIN Decide
Abilities == {"approver", "alerts", "silent"}
Decisions == {"PENDING", "CONTINUE", "RELEASE", "ESCALATE", "STOP"}
ReviewDecisions == {"APPROVE", "REJECT"}

HoldRecords ==
    [module : Modules, risk : RiskLevels, amount : SUBSET Nat,
     decision : Decisions, review : SUBSET Reviews]

ReviewRecords ==
    [event : Holds, contact : Contacts, status : {"PENDING", "DECIDED"},
     decision : ReviewDecisions \union {"none"}, token : BOOLEAN]

HoldRequests ==
    [kind : {"hold"}, target : Holds, decision : Decisions,
     pc : {"settings", "create", "approval", "update", "append", "route"},
     permitted : BOOLEAN]

ReviewRequests ==
    [kind : {"review"}, target : Reviews, decision : ReviewDecisions, pc : {"write"}]

ASSUME NoRowAssumption ==
    /\ NoHold \notin HoldRecords
    /\ NoReview \notin ReviewRecords
    /\ Deleted \notin ReviewRecords \union {NoReview}
    /\ NoRequest \notin HoldRequests \union ReviewRequests

NewHold(m, risk, amount) ==
    [module |-> m, risk |-> risk, amount |-> amount, decision |-> "PENDING",
     review |-> {}]

Free(f, none) == {x \in DOMAIN f : f[x] = none}

-----------------------------------------------------------------------------
(***************************************************************************)
(* Policy as it stands for request x under settings row S (the defaults    *)
(* are what a missing row will be created with) and reviews R.             *)
(***************************************************************************)
InForce(S) == IF S = {} THEN DefaultSettings ELSE CHOOSE s \in S : TRUE

AmountPassed(h) == IF Decide[h.module].passesAmount THEN h.amount ELSE {}

\* Mutant: any approved review releases the hold, not only its own.
hasAnyApprovedReview(R, h) ==
    \E v \in Reviews : /\ R[v] \notin {NoReview, Deleted}
                       /\ R[v].status = "DECIDED"
                       /\ R[v].decision = "APPROVE"

hasApprovedReview(R, h) ==
    \E v \in Reviews : /\ R[v] \notin {NoReview, Deleted}
                       /\ R[v].event = h
                       /\ R[v].status = "DECIDED"
                       /\ R[v].decision = "APPROVE"

Approved(R, h) ==
    \E v \in Reviews : R[v] \notin {NoReview, Deleted} /\ R[v].event = h /\ R[v].decision = "APPROVE"

Permits(S, R, h, d) ==
    LET s == InForce(S)
        a == AmountPassed(hold[h])
    IN  CASE d = "CONTINUE" -> continueAnywayAllowed(s, ElderModeEnabled, hold[h].risk, a)
          [] d = "RELEASE"  -> \/ ~trustedContactReviewRequired(s, hold[h].risk, a)
                               \/ Approved(R, h)
          [] OTHER          -> TRUE

\* A request remembers whether policy has permitted its decision since it began:
\* a history field, kept up to date at every change of settings and reviews.
Observed(S, R) ==
    [r \in Requests |->
        IF req[r] # NoRequest /\ req[r].kind = "hold"
        THEN [req[r] EXCEPT !.permitted =
                 @ \/ Permits(S, R, req[r].target, req[r].decision)]
        ELSE req[r]]

-----------------------------------------------------------------------------
Init ==
    /\ settings \in {{}} \union {{s} : s \in SavedSettings}
    /\ contacts \in [Contacts -> FirstContacts]
    /\ hold = [h \in Holds |-> NoHold]
    /\ review = [v \in Reviews |-> NoReview]
    /\ req = [r \in Requests |-> NoRequest]
    /\ edits = 0
    /\ trail = {}
    /\ failed = {}
    /\ unrouted = {}

(***************************************************************************)
(* check(), scan(), verify() and start().  Nobody else knows the new row   *)
(* before the handler returns, so the handler is one step; when it fails   *)
(* half-way the row stays, without its pause.                              *)
(***************************************************************************)
Open(m, h) ==
    \E risk \in Risks, amount \in Amounts :
        /\ hold[h] = NoHold
        /\ \/ /\ risk \in Check[m].pausesAt
              /\ \E p \in Pauses :
                    /\ hold[p] = NoHold
                    /\ hold' = [hold EXCEPT ![h] = NewHold(m, risk, amount),
                                            ![p] = NewHold("GUARDIAN_PAUSE", risk, {})]
           \/ hold' = [hold EXCEPT ![h] = NewHold(m, risk, amount)]
        /\ UNCHANGED <<settings, contacts, review, req, edits, trail, history>>

\* GuardianPauseService.start, called by the user.
StartPause(p) ==
    /\ hold[p] = NoHold
    /\ \E risk \in Risks :
          hold' = [hold EXCEPT ![p] = NewHold("GUARDIAN_PAUSE", risk, {})]
    /\ UNCHANGED <<settings, contacts, review, req, edits, trail, history>>

Edit == edits < EditBound /\ edits' = edits + 1

\* PATCH of the settings: an upsert of the row.
updateSettings(s) ==
    /\ Edit
    /\ settings' = {s}
    /\ req' = Observed({s}, review)
    /\ UNCHANGED <<contacts, hold, review, trail, failed, unrouted>>

\* TrustedContactsService.create and update.
SaveContact(c, may) ==
    /\ Edit
    /\ contacts[c] # "removed"
    /\ contacts' = [contacts EXCEPT ![c] = may]
    /\ UNCHANGED <<settings, hold, review, req, trail, history>>

\* TrustedContactsService.remove: the reviews of the contact go with it.
RemoveContact(c) ==
    /\ Edit
    /\ contacts[c] \notin {"none", "removed"}
    /\ contacts' = [contacts EXCEPT ![c] = "removed"]
    /\ review' = [v \in Reviews |->
          IF review[v] \notin {NoReview, Deleted} /\ review[v].contact = c
          THEN Deleted ELSE review[v]]
    /\ UNCHANGED <<settings, hold, req, trail, history>>

-----------------------------------------------------------------------------
(* decide() and complete(), statement by statement. *)

At(r, kind, pc) == req[r] # NoRequest /\ req[r].kind = kind /\ req[r].pc = pc
Goto(r, pc) == req' = [req EXCEPT ![r].pc = pc]
End(r) == req' = [req EXCEPT ![r] = NoRequest]

\* Bound: an id is kept for every escalation under way.
ReviewIdsLeft ==
    Cardinality({r \in Requests : req[r] # NoRequest /\ req[r].decision = "ESCALATE"})
        < Cardinality(Free(review, NoReview))

\* The row is read; a row that is not PENDING ends the request.
DecideRead(r, h, d) ==
    /\ req[r] = NoRequest
    /\ hold[h] # NoHold
    /\ hold[h].decision = "PENDING"
    /\ d \in Decide[hold[h].module].offers
    /\ d = "ESCALATE" => ReviewIdsLeft
    /\ req' = [req EXCEPT ![r] =
          [kind |-> "hold", target |-> h, decision |-> d,
           pc |-> IF d \in Decide[hold[h].module].enforces THEN "settings" ELSE "update",
           permitted |-> Permits(settings, review, h, d)]]
    /\ UNCHANGED <<rows, edits, trail, failed, unrouted>>

\* Mutant: a required review does not hold back a release.
enforceContinueOnly(r, s) ==
    LET h == hold[req[r].target] IN
    IF /\ req[r].decision = "CONTINUE"
       /\ ~continueAnywayAllowed(s, ElderModeEnabled, h.risk, AmountPassed(h))
    THEN End(r) ELSE Goto(r, "update")

\* evaluate() with settings row s, and what enforceDecision makes of it: a refused
\* request ends, a release that needs a review goes on to look for it.
enforceDecision(r, s) ==
    LET h == hold[req[r].target]
        mayContinue == continueAnywayAllowed(s, ElderModeEnabled, h.risk, AmountPassed(h))
        needsReview == trustedContactReviewRequired(s, h.risk, AmountPassed(h))
        refused == req[r].decision = "CONTINUE" /\ ~mayContinue
        waits == req[r].decision = "RELEASE" /\ needsReview
    IN  \/ refused /\ End(r)
        \/ waits /\ Goto(r, "approval")
        \/ ~refused /\ ~waits /\ Goto(r, "update")

getSettings(r) ==
    /\ At(r, "hold", "settings")
    /\ \/ settings = {} /\ Goto(r, "create")
       \/ \E s \in settings : enforceDecision(r, s)
    /\ UNCHANGED <<rows, edits, trail, history>>

\* Mutant: no unique index on userId, so two requests both create a row.
CreateSettingsTwice(r) ==
    /\ At(r, "hold", "create")
    /\ settings' = settings \union {DefaultSettings}
    /\ enforceDecision(r, DefaultSettings)
    /\ UNCHANGED <<contacts, hold, review, edits, trail, history>>

\* The lazy create; when another request created the row first, the unique
\* userId makes this one fail.
CreateSettings(r) ==
    /\ At(r, "hold", "create")
    /\ \/ /\ settings = {}
          /\ settings' = {DefaultSettings}
          /\ enforceDecision(r, DefaultSettings)
       \/ /\ settings # {}
          /\ End(r)
          /\ UNCHANGED settings
    /\ UNCHANGED <<contacts, hold, review, edits, trail, history>>

CheckApproval(r) ==
    /\ At(r, "hold", "approval")
    /\ \/ /\ hasApprovedReview(review, req[r].target)
          /\ Goto(r, "update")
       \/ /\ ~hasApprovedReview(review, req[r].target)
          /\ End(r)
    /\ UNCHANGED <<rows, edits, trail, history>>

\* The row is written whatever it holds by now.
Update(r) ==
    /\ At(r, "hold", "update")
    /\ hold' = [hold EXCEPT ![req[r].target].decision = req[r].decision]
    /\ Goto(r, "append")
    /\ UNCHANGED <<settings, contacts, review, edits, trail, history>>

\* Mutant: only a continue is recorded in the Evidence Vault.
AppendContinueOnly(r) ==
    /\ At(r, "hold", "append")
    /\ trail' = IF req[r].decision = "CONTINUE"
                THEN trail \union {<<req[r].target, req[r].decision>>} ELSE trail
    /\ End(r)
    /\ UNCHANGED <<rows, edits, history>>

Append(r) ==
    /\ At(r, "hold", "append")
    /\ trail' = trail \union {<<req[r].target, req[r].decision>>}
    /\ IF req[r].decision = "ESCALATE" THEN Goto(r, "route") ELSE End(r)
    /\ UNCHANGED <<rows, edits, history>>

\* A request fails: an error of a statement, a crash of the process.
Fail(r) ==
    /\ req[r] # NoRequest
    /\ End(r)
    /\ failed' = IF req[r].kind = "hold" /\ req[r].pc \in {"append", "route"}
                 THEN failed \union {req[r].target} ELSE failed
    /\ UNCHANGED <<rows, edits, trail, unrouted>>

-----------------------------------------------------------------------------
(* TrustedContactReviewService. *)

Approvers == {c \in Contacts : contacts[c] = "approver"}
AlertCapable == {c \in Contacts : contacts[c] \in {"approver", "alerts"}}
resolveContact == IF Approvers # {} THEN Approvers ELSE AlertCapable

\* The row with its token.  The notifications that carry the token may not reach
\* the contact (no address, a failed delivery is only logged): nothing in the
\* model makes the contact use it.
NewReview(h, c) ==
    [event |-> h, contact |-> c, status |-> "PENDING", decision |-> "none",
     token |-> TRUE]

RequestReview(v, h, c) ==
    /\ review[v] = NoReview
    /\ review' = [review EXCEPT ![v] = NewReview(h, c)]

\* The end of decide() for an escalation.
RouteReview(r) ==
    /\ At(r, "hold", "route")
    /\ End(r)
    /\ \/ /\ resolveContact = {}
          /\ unrouted' = unrouted \union {req[r].target}
          /\ UNCHANGED <<hold, review>>
       \/ \E c \in resolveContact, v \in Reviews :
             /\ RequestReview(v, req[r].target, c)
             /\ hold' = [hold EXCEPT ![req[r].target].review = {v}]
             /\ UNCHANGED unrouted
    /\ UNCHANGED <<settings, contacts, edits, trail, failed>>

\* POST /trusted-contacts/review-request, for the named ACTIVE contact or the
\* default one.
AskReview(v, h) ==
    /\ hold[h] # NoHold
    /\ \E c \in {x \in Contacts : contacts[x] \in Abilities} :
          RequestReview(v, h, c)
    /\ ReviewIdsLeft
    /\ UNCHANGED <<settings, contacts, hold, req, edits, trail, history>>

Pending(v) == review[v] \notin {NoReview, Deleted} /\ review[v].status = "PENDING"

\* JwtAuthGuard lets a @Public route through without authenticating: decide()
\* sees no caller, whoever sends the request.
CallerSeen(by) == "nobody"

Accepts(v, by) ==
    \/ CallerSeen(by) = "owner"
    \/ review[v].token /\ by = "contact"

ReviewRead(r, v, d, by) ==
    /\ req[r] = NoRequest
    /\ Pending(v)
    /\ Accepts(v, by)
    /\ req' = [req EXCEPT ![r] =
          [kind |-> "review", target |-> v, decision |-> d, pc |-> "write"]]
    /\ UNCHANGED <<rows, edits, trail, history>>

\* The unconditional update and the evidence event; the review may be gone.
ReviewWrite(r) ==
    LET v == req[r].target IN
    /\ At(r, "review", "write")
    /\ \/ /\ review[v] = Deleted
          /\ End(r)
          /\ UNCHANGED review
       \/ /\ review[v] # Deleted
          /\ review' = [review EXCEPT ![v].status = "DECIDED",
                                      ![v].decision = req[r].decision,
                                      ![v].token = FALSE]
          /\ req' = [Observed(settings, review') EXCEPT ![r] = NoRequest]
    /\ UNCHANGED <<settings, contacts, hold, edits, trail, history>>

-----------------------------------------------------------------------------
Step(r) ==
    \/ getSettings(r) \/ CreateSettings(r) \/ CheckApproval(r)
    \/ Update(r) \/ Append(r) \/ RouteReview(r) \/ ReviewWrite(r)

Next ==
    \/ \E m \in Opened, h \in Actions : Open(m, h)
    \/ \E p \in Pauses : StartPause(p)
    \/ \E s \in SavedSettings : updateSettings(s)
    \/ \E c \in Contacts, may \in Abilities : SaveContact(c, may)
    \/ \E c \in Contacts : RemoveContact(c)
    \/ \E v \in Reviews, h \in Holds : AskReview(v, h)
    \/ \E r \in Requests :
          \/ \E h \in Holds, d \in Decisions : DecideRead(r, h, d)
          \/ \E v \in Reviews, d \in ReviewDecisions, by \in {"contact", "owner"} :
                ReviewRead(r, v, d, by)
          \/ Step(r)
          \/ Fail(r)

Spec == Init /\ [][Next]_vars

-----------------------------------------------------------------------------
SettingsType == settings = {} \/ \E s \in settings : s \in SettingsRecords /\ settings = {s}

TargetsExist ==
    \A r \in Requests :
        req[r] # NoRequest =>
            IF req[r].kind = "hold" THEN hold[req[r].target] # NoHold
                                    ELSE review[req[r].target] # NoReview

\* The tables and the requests in flight have their types, and the user never has
\* two protection_settings rows however many requests create the missing one.
TypeOK ==
    /\ SettingsType
    /\ contacts \in [Contacts -> Abilities \union {"none", "removed"}]
    /\ hold \in [Holds -> HoldRecords \union {NoHold}]
    /\ review \in [Reviews -> ReviewRecords \union {NoReview, Deleted}]
    /\ req \in [Requests -> HoldRequests \union ReviewRequests \union {NoRequest}]
    /\ TargetsExist
    /\ edits \in Nat

\* No held action is continued or released against the policy: when a decision
\* is written, the settings in force and the reviews of that hold permitted it
\* at some moment since the request began, however the user's settings, the
\* contact's review and other requests interleaved with it.
NothingPassesUnpermitted ==
    \A r \in Requests : At(r, "hold", "update") => req[r].permitted

\* Every decision a row shows is in the Evidence Vault, or its request is about
\* to append it, or a request on that row failed after its write.
DecisionBacked ==
    \A h \in Holds :
        hold[h] # NoHold /\ hold[h].decision # "PENDING" =>
            \/ <<h, hold[h].decision>> \in trail
            \/ \E r \in Requests : /\ At(r, "hold", "append")
                                   /\ req[r].target = h
                                   /\ req[r].decision = hold[h].decision
            \/ h \in failed

\* Making the settings stricter never lets through what they held back before.
TighteningNeverUnblocks ==
    [][\A h \in Holds, d \in {"CONTINUE", "RELEASE"} :
          /\ hold[h] # NoHold /\ UNCHANGED <<hold, review>>
          /\ AtLeastAsStrict(InForce(settings'), InForce(settings))
          /\ Permits(settings', review, h, d)
          => Permits(settings, review, h, d)]_vars

\* An escalated hold has its review, or the request that escalated it is on the
\* way to open one, or the user had no eligible contact, or a request failed.
EscalationRouted ==
    \A h \in Holds :
        hold[h] # NoHold /\ hold[h].decision = "ESCALATE" =>
            \/ hold[h].review # {}
            \/ \E r \in Requests : /\ At(r, "hold", "append") \/ At(r, "hold", "route")
                                   /\ req[r].target = h
                                   /\ req[r].decision = "ESCALATE"
            \/ h \in failed \union unrouted

\* "Burn the token on use so the link can't be replayed" (decide()): once a
\* review is decided, its decision does not change.
TokenSpentOnce ==
    [][\A v \in Reviews :
          review[v] \notin {NoReview, Deleted} /\ review[v].status = "DECIDED"
              => review'[v] \in {review[v], Deleted}]_vars
=============================================================================
