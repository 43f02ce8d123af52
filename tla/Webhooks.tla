------------------------------- MODULE Webhooks -------------------------------
(***************************************************************************)
(* WebhookService: subscriptions of partner tenants, and the delivery of   *)
(* an event to those that match.  publish() reads the ACTIVE subscriptions *)
(* and starts one deliver() for each without waiting for it; there is no   *)
(* retry.  The partner's server is external: it may answer well, badly, or *)
(* not in time although the event arrived.                                 *)
(***************************************************************************)
EXTENDS Naturals, FiniteSets

CONSTANTS
    Subscriptions,
    SubTenant,      \* the tenant a subscription belongs to
    SubTenants,
    NoTenant,       \* the event of a signal without an owning tenant
    PublishBound,   \* bound on the events
    LossBound       \* bound on the failures of the process or the database

ASSUME WebhooksAssumption ==
    /\ SubTenant \in [Subscriptions -> SubTenants]
    /\ NoTenant \notin SubTenants
    /\ PublishBound \in Nat /\ LossBound \in Nat

VARIABLES
    sub,        \* status of the subscriptions
    revoked,    \* revoke requests past their look-up
    published,  \* events so far
    dlv,        \* deliveries, by event and subscription: where deliver() is, its row
    arrived,    \* history: what reached the partner, by event and subscription
    losses

hookVars == <<sub, revoked, published, dlv, arrived, losses>>

HookEvents == 1..PublishBound
NoDelivery == [at |-> "none", status |-> "none", answer |-> "none"]

WebhooksInit ==
    /\ sub = [s \in Subscriptions |-> "none"]
    /\ revoked = {}
    /\ published = 0
    /\ dlv = [k \in HookEvents \X Subscriptions |-> NoDelivery]
    /\ arrived = [k \in HookEvents \X Subscriptions |-> 0]
    /\ losses = 0

\* The row is made; evidence and the secret shown once are left out.
createSubscription(s) ==
    /\ sub[s] = "none"
    /\ sub' = [sub EXCEPT ![s] = "ACTIVE"]
    /\ UNCHANGED <<revoked, published, dlv, arrived, losses>>

\* The look-up; a subscription that is REVOKED is returned as it is.
RevokeRead(s) ==
    /\ sub[s] = "ACTIVE"
    /\ s \notin revoked
    /\ revoked' = revoked \union {s}
    /\ UNCHANGED <<sub, published, dlv, arrived, losses>>

revokeSubscription(s) ==
    /\ s \in revoked
    /\ sub' = [sub EXCEPT ![s] = "REVOKED"]
    /\ revoked' = revoked \ {s}
    /\ UNCHANGED <<published, dlv, arrived, losses>>

Start(audience) ==
    /\ published < PublishBound
    /\ published' = published + 1
    /\ dlv' = [k \in DOMAIN dlv |->
                  IF k[1] = published + 1 /\ k[2] \in audience
                  THEN [NoDelivery EXCEPT !.at = "started"] ELSE dlv[k]]
    /\ UNCHANGED <<sub, revoked, arrived, losses>>

\* An event of one tenant; nothing happens for an event that has none.
publish(t) ==
    /\ t # NoTenant
    /\ Start({s \in Subscriptions : sub[s] = "ACTIVE" /\ SubTenant[s] = t})

\* A public alert goes to every tenant that subscribed.
broadcastPublic == Start({s \in Subscriptions : sub[s] = "ACTIVE"})

----------------------------------------------------------------------------
(* deliver(): the row, the POST, the outcome.                              *)

Persist(k) ==
    /\ dlv[k].at = "started"
    /\ dlv' = [dlv EXCEPT ![k].at = "persisted", ![k].status = "PENDING"]
    /\ UNCHANGED <<sub, revoked, published, arrived, losses>>

\* The row cannot be written: nothing is posted.
PersistFails(k) ==
    /\ dlv[k].at = "started"
    /\ losses < LossBound
    /\ losses' = losses + 1
    /\ dlv' = [dlv EXCEPT ![k].at = "ended"]
    /\ UNCHANGED <<sub, revoked, published, arrived>>

\* fetch: a good answer, a bad one, or none before DELIVERY_TIMEOUT_MS.
Post(k) ==
    /\ dlv[k].at = "persisted"
    /\ \E answer \in {"ok", "bad", "timeout"} :
       \E got \in IF answer = "timeout" THEN {0, 1} ELSE {1} :
          /\ dlv' = [dlv EXCEPT ![k].at = "posted", ![k].answer = answer]
          /\ arrived' = [arrived EXCEPT ![k] = @ + got]
    /\ UNCHANGED <<sub, revoked, published, losses>>

\* Mutant: any answer counts as a success.
RecordAnyAnswer(k) ==
    /\ dlv[k].at = "posted"
    /\ dlv' = [dlv EXCEPT ![k].at = "ended", ![k].status = "SUCCEEDED"]
    /\ UNCHANGED <<sub, revoked, published, arrived, losses>>

RecordAnswer(k) ==
    /\ dlv[k].at = "posted"
    /\ dlv' = [dlv EXCEPT ![k].at = "ended",
                          ![k].status = IF dlv[k].answer = "ok" THEN "SUCCEEDED" ELSE "FAILED"]
    /\ UNCHANGED <<sub, revoked, published, arrived, losses>>

\* The update fails: the catch writes FAILED, whatever the partner answered.
RecordFails(k) ==
    /\ dlv[k].at = "posted"
    /\ losses < LossBound
    /\ losses' = losses + 1
    /\ dlv' = [dlv EXCEPT ![k].at = "ended", ![k].status = "FAILED"]
    /\ UNCHANGED <<sub, revoked, published, arrived>>

\* The process dies with deliveries under way, or the second update fails too.
Crash(k) ==
    /\ dlv[k].at \in {"started", "persisted", "posted"}
    /\ losses < LossBound
    /\ losses' = losses + 1
    /\ dlv' = [dlv EXCEPT ![k].at = "lost"]
    /\ UNCHANGED <<sub, revoked, published, arrived>>

WebhooksNext ==
    \/ \E s \in Subscriptions : createSubscription(s) \/ RevokeRead(s) \/ revokeSubscription(s)
    \/ \E t \in SubTenants \union {NoTenant} : publish(t)
    \/ broadcastPublic
    \/ \E k \in DOMAIN dlv : Persist(k) \/ PersistFails(k) \/ Post(k) \/ RecordAnswer(k)
                             \/ RecordFails(k) \/ Crash(k)

WebhooksSpec == WebhooksInit /\ [][WebhooksNext]_hookVars

----------------------------------------------------------------------------
WebhooksTypeOK ==
    /\ sub \in [Subscriptions -> {"none", "ACTIVE", "REVOKED"}]
    /\ revoked \subseteq Subscriptions
    /\ published \in 0..PublishBound
    /\ dlv \in [HookEvents \X Subscriptions ->
                   [at: {"none", "started", "persisted", "posted", "ended", "lost"},
                    status: {"none", "PENDING", "SUCCEEDED", "FAILED"},
                    answer: {"none", "ok", "bad", "timeout"}]]
    /\ arrived \in [HookEvents \X Subscriptions -> 0..1]
    /\ losses \in 0..LossBound

\* What reached a partner is on record, a row that says SUCCEEDED was received,
\* and a row stays PENDING only while its delivery runs or after a crash; a partner
\* gets an event once at most (webhook.service.ts deliver).
DeliveriesOnRecord ==
    \A k \in DOMAIN dlv :
        /\ arrived[k] > 0 => dlv[k].status # "none"
        /\ dlv[k].status = "SUCCEEDED" => arrived[k] = 1
        /\ dlv[k].status = "PENDING" => dlv[k].at \in {"persisted", "posted", "lost"}
=============================================================================
