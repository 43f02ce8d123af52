------------------------------- MODULE Billing -------------------------------
(***************************************************************************)
(* BillingService for one tenant: checkout and portal, which find or       *)
(* create the tenant's Stripe customer, the manual invoice of an admin,    *)
(* and the webhook handler that turns Stripe's events into the tenant's    *)
(* subscription row.  Every handler is a sequence of statements without a  *)
(* transaction.  Stripe (external) delivers an event until it is answered, *)
(* several times at once if it likes, in any order.                        *)
(*                                                                         *)
(* Left out: the stub mode, price ids (an event names its plan), period    *)
(* ends, the evidence and audit entries (the latter best-effort).          *)
(***************************************************************************)
EXTENDS Naturals, Sequences, FiniteSets

CONSTANTS
    PURCHASABLE_PLANS,
    StripeStatuses,     \* statuses a subscription takes at Stripe before it is canceled
    Calls,              \* concurrent checkout and portal requests
    Deliveries,         \* concurrent deliveries of events
    NoRow, NoCall, Idle,
    CustomerBound,      \* bound on the customers created at Stripe
    EventBound,         \* bound on the events Stripe emits
    FailBound,          \* bound on the handlers that fail half-way
    ManualBound         \* bound on the manual invoices

ASSUME BoundAssumption == {CustomerBound, EventBound, FailBound, ManualBound} \subseteq Nat
ASSUME PlanAssumption == "FREE" \notin PURCHASABLE_PLANS
ASSUME StatusAssumption == StripeStatuses \intersect {"none", "canceled"} = {}

BILLING_PLANS == PURCHASABLE_PLANS \union {"FREE"}
SUBSCRIPTION_STATUSES == {"INACTIVE", "TRIALING", "ACTIVE", "PAST_DUE", "CANCELED", "MANUAL"}
ENTITLED_STATUSES == {"TRIALING", "ACTIVE", "MANUAL"}

Rows(customer) == [plan : BILLING_PLANS, status : SUBSCRIPTION_STATUSES,
                   customer : SUBSET customer, manualInvoice : BOOLEAN]

CallRecords == [op : {"checkout", "portal"}, existing : SUBSET Nat, customer : SUBSET Nat]

WorkRecords == [event : Nat, pc : {"create", "apply", "mark"}]

ASSUME NoValueAssumption ==
    NoRow \notin Rows(Nat) /\ NoCall \notin CallRecords /\ Idle \notin WorkRecords

\* Mutant: Stripe's status is stored as it comes.
storeStripeStatus(s) == s

mapStripeStatus(s) ==
    CASE s = "trialing" -> "TRIALING"
      [] s = "active" -> "ACTIVE"
      [] s \in {"past_due", "unpaid"} -> "PAST_DUE"
      [] s \in {"canceled", "incomplete_expired"} -> "CANCELED"
      [] OTHER -> "INACTIVE"

VARIABLES
    row,        \* the tenant's subscription row
    log,        \* billing_events, by event: none, logged, processed
    work,       \* deliveries in progress
    call,       \* checkout and portal requests in flight
    customers,  \* how many customers Stripe created for the tenant: their ids are 1..customers
    sessions,   \* customers with a checkout session open
    stripe,     \* the tenant's subscription at Stripe: its last state
    emitted,    \* the events Stripe has emitted
    fails, manuals,
    applied,    \* history: events whose effect was written
    disordered, \* history: deliveries overlapped or came out of order
    split       \* history: two calls overlapped, or one failed half-way

ours == <<row, log, work, call>>
theirs == <<customers, sessions, stripe, emitted>>
bounds == <<fails, manuals>>
history == <<applied, disordered, split>>
vars == <<row, log, work, call, customers, sessions, stripe, emitted, fails, manuals,
          applied, disordered, split>>

Events == 1..EventBound
Emitted == 1..Len(emitted)

Init ==
    /\ row = NoRow
    /\ log = [e \in Events |-> "none"]
    /\ work = [d \in Deliveries |-> Idle]
    /\ call = [c \in Calls |-> NoCall]
    /\ customers = 0
    /\ sessions = {}
    /\ stripe = [state |-> "none", plan |-> "FREE", customer |-> {}]
    /\ emitted = <<>>
    /\ fails = 0
    /\ manuals = 0
    /\ applied = {}
    /\ disordered = FALSE
    /\ split = FALSE

-----------------------------------------------------------------------------
(* The row. *)

EmptyRow == [plan |-> "FREE", status |-> "INACTIVE", customer |-> {}, manualInvoice |-> FALSE]

\* The row with the fields of `data` set, created when it is missing.
upsertSubscription(data) ==
    LET old == IF row = NoRow THEN EmptyRow ELSE row
    IN  [f \in DOMAIN old |-> IF f \in DOMAIN data THEN data[f] ELSE old[f]]

resolveEffectivePlan(r) ==
    IF r = NoRow \/ r.status \notin ENTITLED_STATUSES THEN "FREE" ELSE r.plan

CustomerOf(r) == IF r = NoRow THEN {} ELSE r.customer

\* setManualInvoice; the evidence and audit entries that follow change no row.
setManualInvoice(plan) ==
    /\ manuals < ManualBound
    /\ manuals' = manuals + 1
    /\ row' = upsertSubscription([plan |-> plan, status |-> "MANUAL", manualInvoice |-> TRUE])
    /\ UNCHANGED <<log, work, call, theirs, fails, history>>

-----------------------------------------------------------------------------
(* startCheckout and openPortal. *)

Started(c, op, customer) ==
    /\ call[c] = NoCall
    /\ call' = [call EXCEPT ![c] = [op |-> op, existing |-> CustomerOf(row), customer |-> customer]]
    /\ split' = (split \/ \E d \in Calls : call[d] # NoCall)
    /\ UNCHANGED <<row, log, work, sessions, stripe, emitted, bounds, applied, disordered>>

\* Mutant: a customer is created although the row has one.
ensureNewCustomer(c, op) ==
    /\ customers < CustomerBound
    /\ customers' = customers + 1
    /\ Started(c, op, {customers + 1})

\* The customer the row names, or a new one at Stripe.  No one sees the new
\* customer before it is stored, so the read and the create are one step.
ensureCustomer(c, op) ==
    \/ /\ CustomerOf(row) # {}
       /\ Started(c, op, CustomerOf(row))
       /\ UNCHANGED customers
    \/ /\ CustomerOf(row) = {}
       /\ customers < CustomerBound
       /\ customers' = customers + 1
       /\ Started(c, op, {customers + 1})

\* A checkout creates its session and stores the customer; the portal stores the
\* customer when the row had none.
PersistCustomer(c) ==
    /\ call[c] # NoCall
    /\ IF call[c].op = "portal" /\ call[c].existing # {}
       THEN UNCHANGED row
       ELSE row' = upsertSubscription([customer |-> call[c].customer])
    /\ sessions' = IF call[c].op = "checkout" THEN sessions \union call[c].customer ELSE sessions
    /\ call' = [call EXCEPT ![c] = NoCall]
    /\ UNCHANGED <<log, work, customers, stripe, emitted, bounds, history>>

\* Stripe or the database fails before the customer is stored.
FailCall(c) ==
    /\ call[c] # NoCall
    /\ fails < FailBound
    /\ fails' = fails + 1
    /\ split' = TRUE
    /\ call' = [call EXCEPT ![c] = NoCall]
    /\ UNCHANGED <<row, log, work, theirs, manuals, applied, disordered>>

-----------------------------------------------------------------------------
(* Stripe: the tenant pays a checkout, and the subscription changes and ends. *)

Room(n) == Len(emitted) + n <= EventBound

Event(type, deleted, s) ==
    [type |-> type, deleted |-> deleted, state |-> s.state, plan |-> s.plan,
     customer |-> s.customer]

Subscribe(cu, plan) ==
    LET s == [state |-> "active", plan |-> plan, customer |-> {cu}] IN
    /\ Room(2)
    /\ cu \in sessions
    /\ stripe.state \in {"none", "canceled"}
    /\ stripe' = s
    /\ sessions' = sessions \ {cu}
    /\ emitted' = emitted \o <<Event("customer.subscription", FALSE, s),
                               Event("checkout.session.completed", FALSE, s)>>
    /\ UNCHANGED <<ours, customers, bounds, history>>

ChangeSubscription(status, plan) ==
    LET s == [stripe EXCEPT !.state = status, !.plan = plan] IN
    /\ Room(1)
    /\ stripe.state \notin {"none", "canceled"}
    /\ s # stripe
    /\ stripe' = s
    /\ emitted' = Append(emitted, Event("customer.subscription", FALSE, s))
    /\ UNCHANGED <<ours, customers, sessions, bounds, history>>

\* An event of a type the handler does not know, such as a paid invoice.
OtherEvent ==
    /\ Room(1)
    /\ stripe.state # "none"
    /\ emitted' = Append(emitted, Event("other", FALSE, stripe))
    /\ UNCHANGED <<ours, customers, sessions, stripe, bounds, history>>

EndSubscription ==
    LET s == [stripe EXCEPT !.state = "canceled"] IN
    /\ Room(1)
    /\ stripe.state \notin {"none", "canceled"}
    /\ stripe' = s
    /\ emitted' = Append(emitted, Event("customer.subscription", TRUE, s))
    /\ UNCHANGED <<ours, customers, sessions, bounds, history>>

-----------------------------------------------------------------------------
(* handleWebhook. *)

At(d, pc) == work[d] # Idle /\ work[d].pc = pc
Goto(d, pc) == work' = [work EXCEPT ![d].pc = pc]
End(d) == work' = [work EXCEPT ![d] = Idle]

InProgress == {d \in Deliveries : work[d] # Idle}
Unprocessed == {e \in Emitted : log[e] # "processed"}

\* Mutant: an event that is known, processed or not, counts as a redelivery.
ReceiveUnknown(d, e) ==
    /\ e \in Emitted
    /\ work[d] = Idle
    /\ log[e] = "none"
    /\ work' = [work EXCEPT ![d] = [event |-> e, pc |-> "create"]]
    /\ disordered' = (disordered \/ InProgress # {} \/ \E f \in Unprocessed : f < e)
    /\ UNCHANGED <<row, log, call, theirs, bounds, applied, split>>

\* The event is looked up.  A processed one is answered at once (no step of the
\* model).
Receive(d, e) ==
    /\ e \in Emitted
    /\ work[d] = Idle
    /\ log[e] # "processed"
    /\ work' = [work EXCEPT ![d] =
          [event |-> e, pc |-> IF log[e] = "none" THEN "create" ELSE "apply"]]
    /\ disordered' = (disordered \/ InProgress # {} \/ \E f \in Unprocessed : f < e)
    /\ UNCHANGED <<row, log, call, theirs, bounds, applied, split>>

\* Mutant: the event is not logged before it is applied.
CreateLogLater(d) ==
    /\ At(d, "create")
    /\ Goto(d, "apply")
    /\ UNCHANGED <<row, log, call, theirs, bounds, history>>

\* The create fails on the unique event id when another delivery was faster.
CreateLog(d) ==
    LET e == work[d].event IN
    /\ At(d, "create")
    /\ \/ /\ log[e] = "none"
          /\ log' = [log EXCEPT ![e] = "logged"]
          /\ Goto(d, "apply")
       \/ /\ log[e] # "none"
          /\ End(d)
          /\ UNCHANGED log
    /\ UNCHANGED <<row, call, theirs, bounds, history>>

\* Mutant: a deleted subscription keeps its plan and status.
applyIgnoringDeleted(ev) ==
    upsertSubscription([plan |-> ev.plan,
                        status |-> IF ev.deleted THEN "ACTIVE" ELSE mapStripeStatus(ev.state)])

applySubscriptionState(ev) ==
    upsertSubscription(
        [plan |-> IF ev.deleted THEN "FREE" ELSE ev.plan,
         status |-> IF ev.deleted THEN "CANCELED" ELSE mapStripeStatus(ev.state)])

Effect(ev) ==
    CASE ev.type = "checkout.session.completed" ->
            upsertSubscription([customer |-> ev.customer, status |-> "ACTIVE"])
      [] ev.type = "customer.subscription" -> applySubscriptionState(ev)
      [] OTHER -> row

Apply(d) ==
    /\ At(d, "apply")
    /\ row' = Effect(emitted[work[d].event])
    /\ applied' = applied \union {work[d].event}
    /\ Goto(d, "mark")
    /\ UNCHANGED <<log, call, theirs, bounds, disordered, split>>

Mark(d) ==
    /\ At(d, "mark")
    /\ log' = [log EXCEPT ![work[d].event] = "processed"]
    /\ End(d)
    /\ UNCHANGED <<row, call, theirs, bounds, history>>

\* An error or a crash: Stripe gets no answer and delivers the event again.
Fail(d) ==
    /\ work[d] # Idle
    /\ fails < FailBound
    /\ fails' = fails + 1
    /\ End(d)
    /\ UNCHANGED <<row, log, call, theirs, manuals, history>>

-----------------------------------------------------------------------------
Handle(d) == CreateLog(d) \/ Apply(d) \/ Mark(d)

Next ==
    \/ \E plan \in PURCHASABLE_PLANS : setManualInvoice(plan)
    \/ \E c \in Calls :
          \/ \E op \in {"checkout", "portal"} : ensureCustomer(c, op)
          \/ PersistCustomer(c)
          \/ FailCall(c)
    \/ \E cu \in 1..CustomerBound, plan \in PURCHASABLE_PLANS : Subscribe(cu, plan)
    \/ \E s \in StripeStatuses, plan \in PURCHASABLE_PLANS : ChangeSubscription(s, plan)
    \/ EndSubscription
    \/ OtherEvent
    \/ \E d \in Deliveries :
          \/ \E e \in Events : Receive(d, e)
          \/ Handle(d)
          \/ Fail(d)

Spec == Init /\ [][Next]_vars

\* Stripe repeats a delivery until it is answered, and a handler that runs gets
\* through its statements.
Deliver == \E d \in Deliveries : Handle(d) \/ \E e \in Events : Receive(d, e)

FairSpec == Spec /\ WF_vars(Deliver)

-----------------------------------------------------------------------------
\* The row, the log and the work in progress have their types.
TypeOK ==
    /\ row \in Rows(1..customers) \union {NoRow}
    /\ Cardinality(CustomerOf(row)) <= 1
    /\ log \in [Events -> {"none", "logged", "processed"}]
    /\ \A d \in InProgress : work[d] \in [event : Emitted, pc : {"create", "apply", "mark"}]

\* What the tenant is entitled to comes from a Stripe event on record in
\* billing_events or from a manual invoice: handleWebhook logs an event before it
\* touches the row.
EntitlementOnRecord ==
    resolveEffectivePlan(row) # "FREE" =>
        \/ row.manualInvoice
        \/ \E e \in Emitted : log[e] # "none" /\ emitted[e].plan = row.plan

\* With events handled one at a time in the order of their emission, repeated
\* after failures or not, the row ends up as Stripe has the subscription: its
\* plan, its status and, unless two calls overlapped or one failed, its customer.
MirrorsStripe ==
    Unprocessed = {} /\ Emitted # {} /\ ~disordered /\ manuals = 0 =>
        /\ stripe.state = "canceled" => row.plan = "FREE" /\ row.status = "CANCELED"
        /\ stripe.state # "canceled" => /\ row.plan = stripe.plan
                                        /\ row.status = mapStripeStatus(stripe.state)
        /\ split \/ row.customer = stripe.customer

\* Every event is processed in the end, whatever deliveries fail on the way.
EventsProcessed == \A e \in Events : e \in Emitted ~> log[e] = "processed"

\* The two halves of a tenant's billing meet: one customer per tenant, unless two
\* calls overlapped or one failed half-way ("Find-or-create a Stripe customer for a tenant").
OneCustomer == split \/ customers <= 1

\* "Idempotent webhook handler [...] a redelivery short-circuits": the effect of
\* an event that was applied before is not written a second time.
AppliedOnce ==
    [][\A d \in Deliveries : Apply(d) /\ work[d].event \in applied => row' = row]_vars
=============================================================================
