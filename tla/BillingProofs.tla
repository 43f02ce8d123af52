----------------------------- MODULE BillingProofs -----------------------------
(* Proofs about Billing, for every value of its constants. *)
EXTENDS Billing, FiniteSetTheorems, TLAPS

\* A customer that is known, as the model writes it.
One == {{cu} : cu \in 1..customers}

StripeStates == StripeStatuses \union {"none", "active", "canceled"}
EventTypes == {"checkout.session.completed", "customer.subscription", "other"}

TypedRows == [plan : BILLING_PLANS, status : SUBSCRIPTION_STATUSES,
              customer : One \union {{}}, manualInvoice : BOOLEAN]

TypedCalls == [op : {"checkout", "portal"}, existing : One \union {{}}, customer : One]

TypedEvents == [type : EventTypes, deleted : BOOLEAN, state : StripeStates \ {"none"},
                plan : BILLING_PLANS, customer : One]

\* The types TypeOK states, those of the rest of the state, and that no event is
\* logged before Stripe emits it.
TypeInv ==
    /\ customers \in Nat /\ fails \in Nat /\ manuals \in Nat
    /\ row \in TypedRows \union {NoRow}
    /\ log \in [Events -> {"none", "logged", "processed"}]
    /\ work \in [Deliveries -> [event : Emitted, pc : {"create", "apply", "mark"}] \union {Idle}]
    /\ call \in [Calls -> TypedCalls \union {NoCall}]
    /\ sessions \subseteq 1..customers
    /\ stripe \in [state : StripeStates, plan : BILLING_PLANS, customer : One \union {{}}]
    /\ stripe.state # "none" => stripe.customer \in One
    /\ emitted \in Seq(TypedEvents)
    /\ Len(emitted) <= EventBound
    /\ \A e \in Events \ Emitted : log[e] = "none"

-----------------------------------------------------------------------------
(* The row. *)

\* The row a write starts from: the one that is there or an empty one.
Old == IF row = NoRow THEN EmptyRow ELSE row

\* It has the type of a row.
LEMMA OldType ==
    ASSUME TypeInv
    PROVE  Old \in TypedRows
  BY DEF Old, TypeInv, EmptyRow, TypedRows, BILLING_PLANS, SUBSCRIPTION_STATUSES

\* A write of the customer keeps the rest of the row.
LEMMA UpsertCustomer ==
    ASSUME Old \in TypedRows, NEW cu
    PROVE  upsertSubscription([customer |-> cu]) =
              [plan |-> Old.plan, status |-> Old.status, customer |-> cu,
               manualInvoice |-> Old.manualInvoice]
  BY DEF upsertSubscription, Old, TypedRows

\* A completed checkout writes the customer and the status.
LEMMA UpsertCheckout ==
    ASSUME Old \in TypedRows, NEW cu, NEW s
    PROVE  upsertSubscription([customer |-> cu, status |-> s]) =
              [plan |-> Old.plan, status |-> s, customer |-> cu,
               manualInvoice |-> Old.manualInvoice]
  BY DEF upsertSubscription, Old, TypedRows

\* A subscription event writes the plan and the status.
LEMMA UpsertState ==
    ASSUME Old \in TypedRows, NEW p, NEW s
    PROVE  upsertSubscription([plan |-> p, status |-> s]) =
              [plan |-> p, status |-> s, customer |-> Old.customer,
               manualInvoice |-> Old.manualInvoice]
  BY DEF upsertSubscription, Old, TypedRows

\* A manual invoice writes all but the customer.
LEMMA UpsertManual ==
    ASSUME Old \in TypedRows, NEW p, NEW s
    PROVE  upsertSubscription([plan |-> p, status |-> s, manualInvoice |-> TRUE]) =
              [plan |-> p, status |-> s, customer |-> Old.customer, manualInvoice |-> TRUE]
<1> DEFINE data == [plan |-> p, status |-> s, manualInvoice |-> TRUE]
<1>1. /\ DOMAIN data = {"plan", "status", "manualInvoice"}
      /\ data["plan"] = p /\ data["status"] = s /\ data["manualInvoice"] = TRUE
  OBVIOUS
<1>2. DOMAIN Old = {"plan", "status", "customer", "manualInvoice"}
  BY DEF TypedRows
<1>3. upsertSubscription(data) = [f \in DOMAIN Old |-> IF f \in DOMAIN data THEN data[f] ELSE Old[f]]
  BY DEF upsertSubscription, Old
<1> HIDE DEF data
<1>4. upsertSubscription(data) =
        [plan |-> p, status |-> s, customer |-> Old.customer, manualInvoice |-> TRUE]
  BY <1>1, <1>2, <1>3
<1> QED  BY <1>4 DEF data

\* Every status of Stripe has one of ours.
LEMMA MapType ==
    ASSUME NEW s
    PROVE  mapStripeStatus(s) \in SUBSCRIPTION_STATUSES
  BY DEF mapStripeStatus, SUBSCRIPTION_STATUSES

\* What an event writes, field by field.
LEMMA EffectWrites ==
    ASSUME TypeInv, NEW ev \in TypedEvents
    PROVE  /\ Effect(ev) \in TypedRows \union {NoRow}
           /\ ev.type = "checkout.session.completed" =>
                 /\ Effect(ev) \in TypedRows
                 /\ Effect(ev).plan = Old.plan /\ Effect(ev).status = "ACTIVE"
                 /\ Effect(ev).customer = ev.customer
                 /\ Effect(ev).manualInvoice = Old.manualInvoice
           /\ ev.type = "customer.subscription" =>
                 /\ Effect(ev) \in TypedRows
                 /\ Effect(ev).plan = (IF ev.deleted THEN "FREE" ELSE ev.plan)
                 /\ Effect(ev).status = (IF ev.deleted THEN "CANCELED" ELSE mapStripeStatus(ev.state))
                 /\ Effect(ev).customer = Old.customer
                 /\ Effect(ev).manualInvoice = Old.manualInvoice
           /\ ev.type = "other" => Effect(ev) = row
<1>1. CASE ev.type = "checkout.session.completed"
  <2>1. Effect(ev) = [plan |-> Old.plan, status |-> "ACTIVE", customer |-> ev.customer,
                      manualInvoice |-> Old.manualInvoice]
    BY <1>1, OldType, UpsertCheckout DEF Effect
  <2>2. Effect(ev) \in TypedRows
    BY <2>1, OldType DEF TypedRows, TypedEvents, SUBSCRIPTION_STATUSES
  <2> QED  BY <1>1, <2>1, <2>2
<1>2. CASE ev.type = "customer.subscription"
  <2> DEFINE p == IF ev.deleted THEN "FREE" ELSE ev.plan
             s == IF ev.deleted THEN "CANCELED" ELSE mapStripeStatus(ev.state)
  <2>1. Effect(ev) = [plan |-> p, status |-> s, customer |-> Old.customer,
                      manualInvoice |-> Old.manualInvoice]
    BY <1>2, OldType, UpsertState DEF Effect, applySubscriptionState
  <2>2. p \in BILLING_PLANS /\ s \in SUBSCRIPTION_STATUSES
    BY MapType DEF TypedEvents, BILLING_PLANS, SUBSCRIPTION_STATUSES
  <2> HIDE DEF p, s
  <2>3. Effect(ev) \in TypedRows
    BY <2>1, <2>2, OldType DEF TypedRows
  <2>4. /\ Effect(ev).plan = p /\ Effect(ev).status = s
        /\ Effect(ev).customer = Old.customer /\ Effect(ev).manualInvoice = Old.manualInvoice
    BY <2>1
  <2> QED  BY <1>2, <2>3, <2>4 DEF p, s
<1>3. CASE ev.type = "other"
  BY <1>3 DEF Effect, TypeInv
<1> QED  BY <1>1, <1>2, <1>3 DEF TypedEvents, EventTypes

\* A row or a call that is there is not the value that stands for none.
LEMMA NotNone ==
    ASSUME customers \in Nat
    PROVE  /\ NoRow \notin TypedRows /\ NoCall \notin TypedCalls
           /\ Idle \notin [event : Emitted, pc : {"create", "apply", "mark"}]
<1>1. 1..customers \subseteq Nat /\ Emitted \subseteq Nat
  BY DEF Emitted
<1>2. One \union {{}} \subseteq SUBSET Nat
  BY <1>1 DEF One
<1>3. TypedRows \subseteq Rows(Nat)
  BY <1>2 DEF TypedRows, Rows
<1>4. TypedCalls \subseteq CallRecords
  BY <1>2 DEF TypedCalls, CallRecords
<1>5. [event : Emitted, pc : {"create", "apply", "mark"}] \subseteq WorkRecords
  BY <1>1 DEF WorkRecords
<1> QED  BY <1>3, <1>4, <1>5, NoValueAssumption

-----------------------------------------------------------------------------
(* Types. *)

\* The tenant pays, changes or ends its subscription at Stripe, or another event.
StripeStep ==
    \/ \E cu \in 1..CustomerBound, plan \in PURCHASABLE_PLANS : Subscribe(cu, plan)
    \/ \E s \in StripeStatuses, plan \in PURCHASABLE_PLANS : ChangeSubscription(s, plan)
    \/ EndSubscription
    \/ OtherEvent

\* A step of Stripe leaves ours alone and only adds events.
LEMMA StripeEmits ==
    ASSUME TypeInv, StripeStep
    PROVE  /\ UNCHANGED <<ours, customers, bounds, history>>
           /\ sessions' \subseteq sessions
           /\ stripe' \in [state : StripeStates, plan : BILLING_PLANS, customer : One \union {{}}]
           /\ stripe'.state # "none" /\ stripe'.customer \in One
           /\ emitted' \in Seq(TypedEvents)
           /\ Len(emitted) < Len(emitted') /\ Len(emitted') <= EventBound
           /\ \A e \in Emitted : emitted'[e] = emitted[e]
<1> USE DEF TypeInv
<1>0. emitted \in Seq(TypedEvents) /\ Len(emitted) \in Nat /\ EventBound \in Nat
  BY BoundAssumption
<1>1. ASSUME NEW ev \in TypedEvents, emitted' = Append(emitted, ev), Room(1)
      PROVE  /\ emitted' \in Seq(TypedEvents)
             /\ Len(emitted) < Len(emitted') /\ Len(emitted') <= EventBound
             /\ \A e \in Emitted : emitted'[e] = emitted[e]
  BY <1>0, <1>1 DEF Room, Emitted
<1>2. ASSUME NEW s \in [state : StripeStates \ {"none"}, plan : BILLING_PLANS, customer : One],
             NEW type \in EventTypes, NEW deleted \in BOOLEAN
      PROVE  Event(type, deleted, s) \in TypedEvents
  BY DEF Event, TypedEvents
<1>3. stripe.state # "none" =>
         stripe \in [state : StripeStates \ {"none"}, plan : BILLING_PLANS, customer : One]
  OBVIOUS
<1>4. ASSUME NEW cu \in 1..CustomerBound, NEW plan \in PURCHASABLE_PLANS, Subscribe(cu, plan)
      PROVE  /\ UNCHANGED <<ours, customers, bounds, history>>
             /\ sessions' \subseteq sessions
             /\ stripe' \in [state : StripeStates \ {"none"}, plan : BILLING_PLANS, customer : One]
             /\ emitted' \in Seq(TypedEvents)
             /\ Len(emitted) < Len(emitted') /\ Len(emitted') <= EventBound
             /\ \A e \in Emitted : emitted'[e] = emitted[e]
  <2> DEFINE s == [state |-> "active", plan |-> plan, customer |-> {cu}]
             a == Event("customer.subscription", FALSE, s)
             b == Event("checkout.session.completed", FALSE, s)
  <2>1. {cu} \in One
    BY <1>4 DEF Subscribe, One
  <2>2. s \in [state : StripeStates \ {"none"}, plan : BILLING_PLANS, customer : One]
    BY <2>1 DEF StripeStates, BILLING_PLANS
  <2>3. a \in TypedEvents /\ b \in TypedEvents
    BY <1>2, <2>2 DEF EventTypes
  <2>4. stripe' = s /\ emitted' = emitted \o <<a, b>> /\ Len(emitted) + 2 <= EventBound
        /\ sessions' \subseteq sessions /\ UNCHANGED <<ours, customers, bounds, history>>
    BY <1>4 DEF Subscribe, Room
  <2> HIDE DEF s, a, b
  <2>5. <<a, b>> \in Seq(TypedEvents) /\ Len(<<a, b>>) = 2
    BY <2>3
  <2>6. emitted' \in Seq(TypedEvents) /\ Len(emitted') = Len(emitted) + 2
        /\ \A e \in Emitted : emitted'[e] = emitted[e]
    BY <1>0, <2>4, <2>5 DEF Emitted
  <2>7. Len(emitted) < Len(emitted') /\ Len(emitted') <= EventBound
    BY <1>0, <2>4, <2>6
  <2> QED  BY <2>2, <2>4, <2>6, <2>7
<1>5. ASSUME NEW status \in StripeStatuses, NEW plan \in PURCHASABLE_PLANS,
             ChangeSubscription(status, plan)
      PROVE  /\ UNCHANGED <<ours, customers, bounds, history, sessions>>
             /\ stripe' \in [state : StripeStates \ {"none"}, plan : BILLING_PLANS, customer : One]
             /\ \E ev \in TypedEvents : emitted' = Append(emitted, ev) /\ Room(1)
  <2> DEFINE s == [stripe EXCEPT !.state = status, !.plan = plan]
  <2>1. s \in [state : StripeStates \ {"none"}, plan : BILLING_PLANS, customer : One]
    BY <1>3, <1>5, StatusAssumption DEF ChangeSubscription, StripeStates, BILLING_PLANS
  <2>2. Event("customer.subscription", FALSE, s) \in TypedEvents
    BY <1>2, <2>1 DEF EventTypes
  <2> QED  BY <1>5, <2>1, <2>2 DEF ChangeSubscription
<1>6. ASSUME EndSubscription
      PROVE  /\ UNCHANGED <<ours, customers, bounds, history, sessions>>
             /\ stripe' \in [state : StripeStates \ {"none"}, plan : BILLING_PLANS, customer : One]
             /\ \E ev \in TypedEvents : emitted' = Append(emitted, ev) /\ Room(1)
  <2> DEFINE s == [stripe EXCEPT !.state = "canceled"]
  <2>1. s \in [state : StripeStates \ {"none"}, plan : BILLING_PLANS, customer : One]
    BY <1>3, <1>6 DEF EndSubscription, StripeStates
  <2>2. Event("customer.subscription", TRUE, s) \in TypedEvents
    BY <1>2, <2>1 DEF EventTypes
  <2> QED  BY <1>6, <2>1, <2>2 DEF EndSubscription
<1>7. ASSUME OtherEvent
      PROVE  /\ UNCHANGED <<ours, customers, bounds, history, sessions>>
             /\ stripe' \in [state : StripeStates \ {"none"}, plan : BILLING_PLANS, customer : One]
             /\ \E ev \in TypedEvents : emitted' = Append(emitted, ev) /\ Room(1)
  <2>1. Event("other", FALSE, stripe) \in TypedEvents
    BY <1>2, <1>3, <1>7 DEF EventTypes, OtherEvent
  <2> QED  BY <1>3, <1>7, <2>1 DEF OtherEvent
<1>8. ASSUME UNCHANGED <<ours, customers, bounds, history>>, sessions' \subseteq sessions,
             stripe' \in [state : StripeStates \ {"none"}, plan : BILLING_PLANS, customer : One]
      PROVE  /\ stripe' \in [state : StripeStates, plan : BILLING_PLANS, customer : One \union {{}}]
             /\ stripe'.state # "none" /\ stripe'.customer \in One
  BY <1>8
<1> QED  BY <1>1, <1>4, <1>5, <1>6, <1>7, <1>8 DEF StripeStep

\* With more customers there are more values of each type.
LEMMA TypesGrow ==
    ASSUME customers \in Nat, customers' \in Nat, customers <= customers'
    PROVE  /\ One \subseteq One' /\ TypedRows \subseteq TypedRows'
           /\ TypedCalls \subseteq TypedCalls' /\ Seq(TypedEvents) \subseteq Seq(TypedEvents')
<1>1. One \subseteq One'
  BY DEF One
<1>2. TypedEvents \subseteq TypedEvents'
  BY <1>1 DEF TypedEvents
<1>3. Seq(TypedEvents) \subseteq Seq(TypedEvents')
  BY <1>2
<1> QED  BY <1>1, <1>3 DEF TypedRows, TypedCalls

\* And the same values while no customer comes.
LEMMA TypesKept ==
    ASSUME UNCHANGED customers
    PROVE  /\ One' = One /\ TypedRows' = TypedRows /\ TypedCalls' = TypedCalls
           /\ TypedEvents' = TypedEvents
  BY DEF One, TypedRows, TypedCalls, TypedEvents

\* Steps of a checkout or portal call and the manual invoice.
LEMMA CallTypeInv ==
    ASSUME TypeInv,
           \/ \E plan \in PURCHASABLE_PLANS : setManualInvoice(plan)
           \/ \E c \in Calls : \/ \E op \in {"checkout", "portal"} : ensureCustomer(c, op)
                               \/ PersistCustomer(c) \/ FailCall(c)
    PROVE  TypeInv'
<1> USE DEF TypeInv
<1>1. ASSUME NEW plan \in PURCHASABLE_PLANS, setManualInvoice(plan)
      PROVE  TypeInv'
  <2>1. row' = [plan |-> plan, status |-> "MANUAL", customer |-> Old.customer, manualInvoice |-> TRUE]
    BY <1>1, OldType, UpsertManual DEF setManualInvoice
  <2>2. row' \in TypedRows
    BY <2>1, OldType DEF TypedRows, BILLING_PLANS, SUBSCRIPTION_STATUSES
  <2>3. UNCHANGED <<log, work, call, theirs, fails>> /\ manuals' \in Nat
    BY <1>1 DEF setManualInvoice
  <2> QED  BY <2>2, <2>3, TypesKept DEF theirs, Emitted
<1>2. ASSUME NEW c \in Calls, NEW op \in {"checkout", "portal"}, ensureCustomer(c, op)
      PROVE  TypeInv'
  <2>1. PICK cu : /\ Started(c, op, cu)
                  /\ \/ customers' = customers + 1 /\ cu = {customers + 1}
                     \/ customers' = customers /\ cu \in One
    BY <1>2 DEF ensureCustomer, CustomerOf, TypedRows
  <2>2. customers' \in Nat /\ customers <= customers' /\ cu \in One'
    BY <2>1 DEF One
  <2>3. CustomerOf(row) \in One \union {{}}
    BY DEF CustomerOf, TypedRows
  <2>4. [op |-> op, existing |-> CustomerOf(row), customer |-> cu] \in TypedCalls'
    BY <2>2, <2>3, TypesGrow DEF TypedCalls
  <2>5. call' \in [Calls -> TypedCalls' \union {NoCall}]
    BY <2>1, <2>2, <2>4, TypesGrow DEF Started
  <2>6. 1..customers \subseteq 1..customers' /\ sessions \subseteq 1..customers'
    BY <2>2
  <2>7. UNCHANGED <<row, log, work, sessions, stripe, emitted, bounds>>
    BY <2>1 DEF Started
  <2>8. stripe' \in [state : StripeStates, plan : BILLING_PLANS, customer : One' \union {{}}]
        /\ (stripe'.state # "none" => stripe'.customer \in One')
    BY <2>2, <2>7, TypesGrow
  <2> QED  BY <2>2, <2>5, <2>6, <2>7, <2>8, TypesGrow DEF Emitted, bounds, StripeStates
<1>3. ASSUME NEW c \in Calls, PersistCustomer(c)
      PROVE  TypeInv'
  <2>1. call[c] \in TypedCalls /\ call[c].customer \in One
    BY <1>3 DEF PersistCustomer, TypedCalls
  <2>2. row' = row \/ row' = [plan |-> Old.plan, status |-> Old.status, customer |-> call[c].customer,
                              manualInvoice |-> Old.manualInvoice]
    BY <1>3, OldType, UpsertCustomer DEF PersistCustomer
  <2>3. row' \in TypedRows \union {NoRow}
    BY <2>1, <2>2, OldType DEF TypedRows
  <2>4. sessions' \subseteq 1..customers
    BY <1>3, <2>1 DEF PersistCustomer, One
  <2> QED  BY <1>3, <2>3, <2>4 DEF PersistCustomer, bounds, Emitted, One, TypedRows, TypedCalls, TypedEvents
<1>4. ASSUME NEW c \in Calls, FailCall(c)
      PROVE  TypeInv'
  <2>1. UNCHANGED <<row, log, work, theirs, manuals>> /\ fails' \in Nat
    BY <1>4 DEF FailCall
  <2>2. call' \in [Calls -> TypedCalls \union {NoCall}]
    BY <1>4 DEF FailCall
  <2> QED  BY <2>1, <2>2, TypesKept DEF theirs, Emitted
<1> QED  BY <1>1, <1>2, <1>3, <1>4

\* A delivery that starts, goes on or ends.
DeliveryStep ==
    \E d \in Deliveries : (\E e \in Events : Receive(d, e)) \/ Handle(d) \/ Fail(d)

\* Steps of Stripe and of the deliveries.
LEMMA EventTypeInv ==
    ASSUME TypeInv, StripeStep \/ DeliveryStep
    PROVE  TypeInv'
<1> USE DEF TypeInv
<1>1. CASE StripeStep
  <2>1. /\ UNCHANGED <<row, log, work, call, customers, fails, manuals>>
        /\ sessions' \subseteq sessions
        /\ stripe' \in [state : StripeStates, plan : BILLING_PLANS, customer : One \union {{}}]
        /\ stripe'.state # "none" /\ stripe'.customer \in One
        /\ emitted' \in Seq(TypedEvents)
        /\ Len(emitted) < Len(emitted') /\ Len(emitted') <= EventBound
    BY <1>1, StripeEmits DEF ours, bounds
  <2>2. Emitted \subseteq Emitted'
    BY <2>1 DEF Emitted
  <2>3. work' \in [Deliveries -> [event : Emitted', pc : {"create", "apply", "mark"}] \union {Idle}]
    BY <2>1, <2>2
  <2> QED  BY <2>1, <2>2, <2>3 DEF One, TypedRows, TypedCalls, TypedEvents
<1>2. ASSUME NEW d \in Deliveries, UNCHANGED <<call, theirs, manuals>>, fails' \in Nat,
             row' \in TypedRows \union {NoRow},
             work' \in [Deliveries -> [event : Emitted, pc : {"create", "apply", "mark"}] \union {Idle}],
             log' \in [Events -> {"none", "logged", "processed"}],
             \A e \in Events \ Emitted : log'[e] = "none"
      PROVE  TypeInv'
  BY <1>2 DEF theirs, Emitted, One, TypedRows, TypedCalls, TypedEvents
<1>3. ASSUME NEW d \in Deliveries, NEW e \in Events, Receive(d, e)
      PROVE  TypeInv'
  <2>1. work' \in [Deliveries -> [event : Emitted, pc : {"create", "apply", "mark"}] \union {Idle}]
    BY <1>3 DEF Receive
  <2> QED  BY <1>2, <1>3, <2>1 DEF Receive, bounds
<1>4. \A d \in Deliveries : work[d] # Idle =>
         /\ work[d].event \in Emitted
         /\ \A pc \in {"apply", "mark"} :
               [work[d] EXCEPT !.pc = pc] \in [event : Emitted, pc : {"create", "apply", "mark"}]
  OBVIOUS
<1>5. \A e \in Emitted : e \in Events /\ emitted[e] \in TypedEvents
  BY BoundAssumption DEF Emitted, Events
<1>6. ASSUME NEW d \in Deliveries, CreateLog(d)
      PROVE  TypeInv'
  <2>1. log' = log \/ log' = [log EXCEPT ![work[d].event] = "logged"]
    BY <1>6 DEF CreateLog
  <2>2. work' \in [Deliveries -> [event : Emitted, pc : {"create", "apply", "mark"}] \union {Idle}]
    BY <1>4, <1>6 DEF CreateLog, At, Goto, End
  <2> QED  BY <1>2, <1>4, <1>5, <1>6, <2>1, <2>2 DEF CreateLog, At, bounds
<1>7. ASSUME NEW d \in Deliveries, Apply(d)
      PROVE  TypeInv'
  <2>1. emitted[work[d].event] \in TypedEvents
    BY <1>4, <1>5, <1>7 DEF Apply, At
  <2>2. row' \in TypedRows \union {NoRow}
    BY <1>7, <2>1, EffectWrites DEF Apply
  <2>3. work' \in [Deliveries -> [event : Emitted, pc : {"create", "apply", "mark"}] \union {Idle}]
    BY <1>4, <1>7 DEF Apply, At, Goto
  <2> QED  BY <1>2, <1>7, <2>2, <2>3 DEF Apply, bounds
<1>8. ASSUME NEW d \in Deliveries, Mark(d) \/ Fail(d)
      PROVE  TypeInv'
  <2>1. work' = [work EXCEPT ![d] = Idle] /\ UNCHANGED <<row, call, theirs, manuals>> /\ fails' \in Nat
    BY <1>8 DEF Mark, Fail, End, bounds
  <2>2. log' = log \/ (work[d] # Idle /\ log' = [log EXCEPT ![work[d].event] = "processed"])
    BY <1>8 DEF Mark, Fail, At
  <2> QED  BY <1>2, <1>4, <1>5, <2>1, <2>2
<1> QED  BY <1>1, <1>3, <1>6, <1>7, <1>8 DEF DeliveryStep, Handle

\* Every step keeps the types.
LEMMA TypeStep == TypeInv /\ [Next]_vars => TypeInv'
<1>1. ASSUME TypeInv, UNCHANGED vars
      PROVE  TypeInv'
  BY <1>1 DEF vars, TypeInv, Emitted, One, TypedRows, TypedCalls, TypedEvents
<1> QED  BY <1>1, CallTypeInv, EventTypeInv DEF Next, StripeStep, DeliveryStep

\* No row, no call, nothing emitted.
LEMMA InitTypeInv == Init => TypeInv
  BY BoundAssumption DEF Init, TypeInv, Emitted, StripeStates, BILLING_PLANS, Events

\* The handlers find what they read, whatever Stripe sends in whatever order.
THEOREM Invariance == Spec => []TypeInv
  BY InitTypeInv, TypeStep, PTL DEF Spec

\* A row holds a plan, a status of ours and at most one customer; an event in
\* progress is one that Stripe emitted (applySubscriptionState, mapStripeStatus).
THEOREM TypeCorrect == Spec => []TypeOK
<1>1. TypeInv => TypeOK
  <2> SUFFICES ASSUME TypeInv PROVE TypeOK
    OBVIOUS
  <2>1. One \union {{}} \subseteq SUBSET (1..customers)
    BY DEF One
  <2>2. row \in Rows(1..customers) \union {NoRow}
    BY <2>1 DEF TypeInv, TypedRows, Rows
  <2>3. CustomerOf(row) \in One \union {{}}
    BY DEF TypeInv, CustomerOf, TypedRows
  <2>4. Cardinality(CustomerOf(row)) <= 1
    BY <2>3, FS_EmptySet, FS_Singleton DEF One
  <2> QED  BY <2>2, <2>4 DEF TypeInv, TypeOK, InProgress
<1> QED  BY <1>1, Invariance, PTL

-----------------------------------------------------------------------------
(* Entitlement. *)

\* A plan in the row has an invoice or a logged event behind it, and a delivery
\* that has come to its effect has logged its event.
RecordInv ==
    /\ row # NoRow /\ row.plan # "FREE" =>
          \/ row.manualInvoice
          \/ \E e \in Emitted : log[e] # "none" /\ emitted[e].plan = row.plan
    /\ \A d \in InProgress : work[d].pc # "create" => log[work[d].event] # "none"

\* Logs and events only grow, and only a logged event reaches the row.
LEMMA RecordStep == TypeInv /\ RecordInv /\ [Next]_vars => RecordInv'
<1> SUFFICES ASSUME TypeInv, RecordInv, [Next]_vars
             PROVE  RecordInv'
  OBVIOUS
<1>1. row # NoRow => row.plan = Old.plan /\ row.manualInvoice = Old.manualInvoice
  BY DEF Old
<1>2. row = NoRow => Old.plan = "FREE"
  BY DEF Old, EmptyRow
<1>3. ASSUME UNCHANGED <<log, work, emitted>>,
             \/ UNCHANGED row
             \/ row' \in TypedRows /\ row'.manualInvoice
             \/ row' \in TypedRows /\ row'.plan = Old.plan /\ row'.manualInvoice = Old.manualInvoice
      PROVE  RecordInv'
  BY <1>1, <1>2, <1>3 DEF RecordInv, InProgress, Emitted
<1>4. ASSUME NEW plan \in PURCHASABLE_PLANS, setManualInvoice(plan)
      PROVE  RecordInv'
  <2>1. row' = [plan |-> plan, status |-> "MANUAL", customer |-> Old.customer, manualInvoice |-> TRUE]
    BY <1>4, OldType, UpsertManual DEF setManualInvoice
  <2>2. row' \in TypedRows /\ row'.manualInvoice
    BY <2>1, OldType DEF TypedRows, BILLING_PLANS, SUBSCRIPTION_STATUSES
  <2> QED  BY <1>3, <1>4, <2>2 DEF setManualInvoice, theirs
<1>5. ASSUME NEW c \in Calls, PersistCustomer(c)
      PROVE  RecordInv'
  <2>1. call[c].customer \in One
    BY <1>5 DEF PersistCustomer, TypeInv, TypedCalls
  <2>2. row' = row \/ row' = [plan |-> Old.plan, status |-> Old.status, customer |-> call[c].customer,
                              manualInvoice |-> Old.manualInvoice]
    BY <1>5, OldType, UpsertCustomer DEF PersistCustomer
  <2>3. \/ row' = row
        \/ row' \in TypedRows /\ row'.plan = Old.plan /\ row'.manualInvoice = Old.manualInvoice
    BY <2>1, <2>2, OldType DEF TypedRows
  <2> QED  BY <1>3, <1>5, <2>3 DEF PersistCustomer
<1>6. ASSUME NEW c \in Calls, FailCall(c) \/ \E op \in {"checkout", "portal"} : ensureCustomer(c, op)
      PROVE  RecordInv'
  BY <1>3, <1>6 DEF FailCall, ensureCustomer, Started, theirs
<1>7. CASE StripeStep
  <2>1. /\ UNCHANGED <<row, log, work>>
        /\ Len(emitted) < Len(emitted')
        /\ \A e \in Emitted : emitted'[e] = emitted[e]
    BY <1>7, StripeEmits DEF ours
  <2>2. Emitted \subseteq Emitted' /\ InProgress' = InProgress
    BY <2>1 DEF Emitted, InProgress, TypeInv
  <2> QED  BY <2>1, <2>2 DEF RecordInv
<1>8. ASSUME NEW d \in Deliveries, UNCHANGED emitted,
             \A e \in Emitted : log[e] # "none" => log'[e] # "none",
             \A x \in Deliveries \ {d} : work'[x] = work[x],
             work'[d] # Idle /\ work'[d].pc # "create" => log'[work'[d].event] # "none",
             UNCHANGED row \/ \E e \in Emitted : log[e] # "none" /\ row' = Effect(emitted[e])
      PROVE  RecordInv'
  <2>1. \A x \in InProgress' : work'[x].pc # "create" => log'[work'[x].event] # "none"
    BY <1>8 DEF RecordInv, InProgress, TypeInv
  <2>2. CASE UNCHANGED row
    BY <1>8, <2>1, <2>2 DEF RecordInv, Emitted
  <2>3. ASSUME NEW e \in Emitted, log[e] # "none", row' = Effect(emitted[e])
        PROVE  RecordInv'
    <3>1. emitted[e] \in TypedEvents
      BY DEF TypeInv, Emitted
    <3>2. \/ row' = row
          \/ row'.plan = Old.plan /\ row'.manualInvoice = Old.manualInvoice
          \/ row'.plan \in {"FREE", emitted[e].plan}
      BY <2>3, <3>1, EffectWrites DEF TypedEvents, EventTypes
    <3> QED  BY <1>1, <1>2, <1>8, <2>1, <2>3, <3>2 DEF RecordInv, Emitted
  <2> QED  BY <1>8, <2>2, <2>3
<1>9. \A d \in InProgress : work[d].event \in Emitted /\ work[d].event \in Events
  BY BoundAssumption DEF TypeInv, InProgress, Emitted, Events
<1>10. ASSUME NEW d \in Deliveries, NEW e \in Events, Receive(d, e)
       PROVE  RecordInv'
  <2>1. /\ \A x \in Deliveries \ {d} : work'[x] = work[x]
        /\ work'[d].event = e /\ work'[d].pc = (IF log[e] = "none" THEN "create" ELSE "apply")
    BY <1>10 DEF Receive, TypeInv
  <2> QED  BY <1>8, <1>10, <2>1 DEF Receive, theirs
<1>11. ASSUME NEW d \in Deliveries, CreateLog(d)
       PROVE  RecordInv'
  <2>1. d \in InProgress /\ work[d].event \in Emitted /\ work[d].event \in Events
    BY <1>9, <1>11 DEF CreateLog, At, InProgress
  <2>2. \A x \in Deliveries \ {d} : work'[x] = work[x]
    BY <1>11 DEF CreateLog, Goto, End, TypeInv
  <2> DEFINE e == work[d].event
  <2>3. log' = log \/ log' = [log EXCEPT ![e] = "logged"]
    BY <1>11 DEF CreateLog
  <2>6. e \in Events /\ \A x \in Emitted : x \in Events
    BY <2>1, BoundAssumption DEF TypeInv, Emitted, Events
  <2> HIDE DEF e
  <2>4. \A x \in Emitted : log[x] # "none" => log'[x] # "none"
    BY <2>3, <2>6 DEF TypeInv
  <2>5. work'[d] = Idle \/ (work'[d].event = e /\ log'[e] = "logged")
    <3>1. CASE log' = [log EXCEPT ![e] = "logged"] /\ Goto(d, "apply")
      <4>1. log'[e] = "logged"
        BY <2>6, <3>1 DEF TypeInv
      <4>2. work'[d].event = e
        BY <2>1, <3>1 DEF e, Goto, TypeInv, InProgress
      <4> QED  BY <4>1, <4>2
    <3>2. CASE End(d)
      <4>1. work' = [work EXCEPT ![d] = Idle]
        BY <3>2 DEF End
      <4>2. work'[d] = Idle
        BY <4>1 DEF TypeInv
      <4> QED  BY <4>2
    <3> QED  BY <1>11, <3>1, <3>2 DEF CreateLog, e
  <2> QED  BY <1>8, <1>11, <2>2, <2>4, <2>5 DEF CreateLog, theirs
<1>12. ASSUME NEW d \in Deliveries, Apply(d)
       PROVE  RecordInv'
  <2>1. d \in InProgress /\ work[d].event \in Emitted /\ log[work[d].event] # "none"
    BY <1>9, <1>12 DEF Apply, At, InProgress, RecordInv
  <2>2. /\ \A x \in Deliveries \ {d} : work'[x] = work[x]
        /\ work'[d].event = work[d].event
    BY <1>12, <2>1 DEF Apply, Goto, TypeInv, InProgress
  <2> QED  BY <1>8, <1>12, <2>1, <2>2 DEF Apply, theirs
<1>13. ASSUME NEW d \in Deliveries, Mark(d) \/ Fail(d)
       PROVE  RecordInv'
  <2>1. \A x \in Deliveries \ {d} : work'[x] = work[x]
    BY <1>13 DEF Mark, Fail, End, TypeInv
  <2>2. work'[d] = Idle
    BY <1>13 DEF Mark, Fail, End, TypeInv
  <2>3. \A e \in Emitted : log[e] # "none" => log'[e] # "none"
    <3>1. log' = log \/ log' = [log EXCEPT ![work[d].event] = "processed"]
      BY <1>13 DEF Mark, Fail
    <3>2. \A e \in Emitted : e \in Events
      BY BoundAssumption DEF TypeInv, Emitted, Events
    <3> QED  BY <3>1, <3>2 DEF TypeInv
  <2> QED  BY <1>8, <1>13, <2>1, <2>2, <2>3 DEF Mark, Fail, theirs
<1>14. CASE UNCHANGED vars
  BY <1>3, <1>14 DEF vars
<1> QED  BY <1>4, <1>5, <1>6, <1>7, <1>10, <1>11, <1>12, <1>13, <1>14 DEF Next, StripeStep, Handle

\* A tenant has a paid plan because of an event on record or a manual invoice,
\* whatever overlaps, fails or comes twice (handleWebhook logs before it writes).
THEOREM EntitlementsOnRecord == Spec => []EntitlementOnRecord
<1>1. Init => RecordInv
  BY DEF Init, RecordInv, InProgress
<1>2. RecordInv => EntitlementOnRecord
  BY DEF RecordInv, EntitlementOnRecord, resolveEffectivePlan
<1> QED  BY <1>1, <1>2, RecordStep, Invariance, PTL DEF Spec

-----------------------------------------------------------------------------
(* Customers. *)

Busy == {c \in Calls : call[c] # NoCall}

\* While no two calls have met and none has failed, the one customer is in the row
\* or in the hands of the call that will store it; and what Stripe was given to
\* charge is in the row for good.
CustomerInv ==
    /\ sessions # {} \/ stripe.state # "none" => CustomerOf(row) # {}
    /\ ~split =>
          /\ customers <= 1
          /\ \A c, d \in Busy : c = d
          /\ customers = 1 /\ CustomerOf(row) = {} =>
                \E c \in Busy : call[c].op = "checkout" \/ call[c].existing = {}

\* A call that finds no customer is the only one, and there was none.
LEMMA CustomerStep == TypeInv /\ CustomerInv /\ [Next]_vars => CustomerInv'
<1> SUFFICES ASSUME TypeInv, CustomerInv, [Next]_vars
             PROVE  CustomerInv'
  OBVIOUS
<1>1. CustomerOf(Old) = CustomerOf(row) /\ (row # NoRow => Old = row)
      /\ CustomerOf(Old) = Old.customer
  BY OldType, NotNone DEF Old, CustomerOf, EmptyRow, TypeInv
<1>0. \A cu \in One : cu # {}
  BY DEF One
<1>2. ASSUME UNCHANGED <<customers, call, split>>, sessions' \subseteq sessions,
             CustomerOf(row)' # {} \/ CustomerOf(row)' = CustomerOf(row),
             UNCHANGED stripe \/ CustomerOf(row)' # {}
      PROVE  CustomerInv'
  BY <1>2 DEF CustomerInv, Busy
<1>3. ASSUME NEW plan \in PURCHASABLE_PLANS, setManualInvoice(plan)
      PROVE  CustomerInv'
  <2>1. row' = [plan |-> plan, status |-> "MANUAL", customer |-> Old.customer, manualInvoice |-> TRUE]
    BY <1>3, OldType, UpsertManual DEF setManualInvoice
  <2>2. row' \in TypedRows /\ row'.customer = Old.customer
    BY <2>1, OldType DEF TypedRows, BILLING_PLANS, SUBSCRIPTION_STATUSES
  <2>3. CustomerOf(row)' = CustomerOf(row)
    BY <1>1, <2>2, NotNone DEF CustomerOf, TypeInv
  <2> QED  BY <1>2, <1>3, <2>3 DEF setManualInvoice, theirs, history
<1>4. ASSUME NEW c \in Calls, NEW op \in {"checkout", "portal"}, ensureCustomer(c, op)
      PROVE  CustomerInv'
  <2>1. PICK cu : /\ Started(c, op, cu)
                  /\ \/ CustomerOf(row) = {} /\ customers' = customers + 1
                     \/ CustomerOf(row) # {} /\ customers' = customers
    BY <1>4 DEF ensureCustomer
  <2>2. UNCHANGED <<row, sessions, stripe>> /\ split' = (split \/ Busy # {})
        /\ call[c] = NoCall
    BY <2>1 DEF Started, Busy
  <2>3. /\ \A x \in Calls \ {c} : call'[x] = call[x]
        /\ call'[c].existing = CustomerOf(row)
        /\ call'[c] # NoCall
    <3>1. [op |-> op, existing |-> CustomerOf(row), customer |-> cu].existing = CustomerOf(row)
      OBVIOUS
    <3>2. call'[c] = [op |-> op, existing |-> CustomerOf(row), customer |-> cu]
          /\ \A x \in Calls \ {c} : call'[x] = call[x]
      BY <2>1 DEF Started, TypeInv
    <3>3. TypeInv' /\ customers' \in Nat
      BY CallTypeInv, <1>4 DEF TypeInv
    <3>4. call'[c] # NoCall
      <4>1. cu \in SUBSET Nat /\ CustomerOf(row) \in SUBSET Nat
        BY <1>4, <2>1, <3>2 DEF ensureCustomer, CustomerOf, TypeInv, TypedRows, One, Started
      <4>2. [op |-> op, existing |-> CustomerOf(row), customer |-> cu] \in CallRecords
        BY <4>1 DEF CallRecords
      <4> QED  BY <3>2, <4>2, NoValueAssumption
    <3> QED  BY <3>1, <3>2, <3>4
  <2>4. CustomerOf(row)' = CustomerOf(row)
    BY <2>2 DEF CustomerOf
  <2>5. ASSUME ~split'
        PROVE  /\ customers' <= 1
               /\ \A x, y \in Busy' : x = y
               /\ customers' = 1 /\ CustomerOf(row) = {} => c \in Busy' /\ call'[c].existing = {}
    <3>1. ~split /\ Busy = {} /\ Busy' = {c}
      BY <2>2, <2>3, <2>5 DEF Busy
    <3>2. CustomerOf(row) = {} => customers = 0
      BY <3>1 DEF CustomerInv, TypeInv
    <3>3. customers' <= 1
      BY <2>1, <3>1, <3>2 DEF CustomerInv, TypeInv
    <3> QED  BY <2>3, <3>1, <3>3
  <2> QED  BY <2>2, <2>4, <2>5 DEF CustomerInv
<1>5. ASSUME NEW c \in Calls, PersistCustomer(c)
      PROVE  CustomerInv'
  <2>1. call[c] \in TypedCalls /\ call[c].customer \in One /\ call[c].customer # {} /\ c \in Busy
    BY <1>0, <1>5 DEF PersistCustomer, TypeInv, TypedCalls, Busy
  <2>2. Busy' \subseteq Busy \ {c} /\ UNCHANGED <<customers, stripe, split>>
    BY <1>5 DEF PersistCustomer, Busy, TypeInv, history
  <2>3. CASE call[c].op = "portal" /\ call[c].existing # {}
    <3>1. UNCHANGED <<row, sessions>> /\ CustomerOf(row)' = CustomerOf(row)
      BY <1>5, <2>3 DEF PersistCustomer, CustomerOf
    <3>2. ~split /\ customers = 1 => CustomerOf(row) # {}
      BY <2>1, <2>3 DEF CustomerInv
    <3> QED  BY <2>2, <3>1, <3>2 DEF CustomerInv
  <2>4. CASE ~(call[c].op = "portal" /\ call[c].existing # {})
    <3>1. row' = [plan |-> Old.plan, status |-> Old.status, customer |-> call[c].customer,
                  manualInvoice |-> Old.manualInvoice]
      BY <1>5, <2>4, OldType, UpsertCustomer DEF PersistCustomer
    <3>2. row' \in TypedRows /\ row'.customer = call[c].customer
      BY <2>1, <3>1, OldType DEF TypedRows
    <3>3. CustomerOf(row)' # {}
      BY <2>1, <3>2, NotNone DEF CustomerOf, TypeInv
    <3> QED  BY <2>2, <3>3 DEF CustomerInv
  <2> QED  BY <2>3, <2>4
<1>6. ASSUME NEW c \in Calls, FailCall(c)
      PROVE  CustomerInv'
  BY <1>6 DEF FailCall, CustomerInv, theirs, CustomerOf
<1>7. CASE StripeStep
  <2>1. UNCHANGED <<row, call, customers, split>> /\ sessions' \subseteq sessions
        /\ CustomerOf(row)' = CustomerOf(row)
    BY <1>7, StripeEmits DEF ours, history, CustomerOf
  <2>2. CustomerOf(row) # {}
    BY <1>7 DEF StripeStep, Subscribe, ChangeSubscription, EndSubscription, OtherEvent, CustomerInv
  <2> QED  BY <1>2, <2>1, <2>2
<1>8. CASE DeliveryStep
  <2>1. UNCHANGED <<call, theirs, split>>
    BY <1>8 DEF DeliveryStep, Receive, Handle, CreateLog, Apply, Mark, Fail, history
  <2>2. row' = row \/ \E e \in Emitted : row' = Effect(emitted[e])
    <3>1. \A d \in Deliveries : work[d] # Idle => work[d].event \in Emitted
      BY DEF TypeInv
    <3> QED  BY <1>8, <3>1 DEF DeliveryStep, Receive, Handle, CreateLog, Apply, Mark, Fail, At
  <2>3. ASSUME NEW e \in Emitted, row' = Effect(emitted[e])
        PROVE  CustomerOf(row)' # {} \/ CustomerOf(row)' = CustomerOf(row)
    <3>1. emitted[e] \in TypedEvents /\ emitted[e].customer # {}
      <4>1. emitted[e] \in TypedEvents
        BY DEF TypeInv, Emitted
      <4>2. emitted[e].customer \in One
        BY <4>1 DEF TypedEvents
      <4> QED  BY <1>0, <4>1, <4>2
    <3>2. \/ row' = row
          \/ row' \in TypedRows /\ row'.customer \in {emitted[e].customer, Old.customer}
      BY <2>3, <3>1, EffectWrites DEF TypedEvents, EventTypes
    <3> QED  BY <1>1, <3>1, <3>2, NotNone DEF CustomerOf, TypeInv
  <2> QED  BY <1>2, <2>1, <2>2, <2>3 DEF theirs, CustomerOf
<1>9. CASE UNCHANGED vars
  BY <1>2, <1>9 DEF vars, CustomerOf
<1> QED  BY <1>3, <1>4, <1>5, <1>6, <1>7, <1>8, <1>9 DEF Next, StripeStep, DeliveryStep

\* "Find-or-create a Stripe customer for a tenant": one customer at most, as long
\* as no two calls overlap and none fails before it stores what it created.
THEOREM OneCustomerPerTenant == Spec => []OneCustomer
<1>1. Init => CustomerInv
  BY DEF Init, CustomerInv, Busy
<1>2. CustomerInv => OneCustomer
  BY DEF CustomerInv, OneCustomer
<1> QED  BY <1>1, <1>2, CustomerStep, Invariance, PTL DEF Spec

-----------------------------------------------------------------------------
(* The row mirrors the subscription. *)

SameState(a, b) == a.state = b.state /\ a.plan = b.plan

\* The last event carries what Stripe has; one that is not of the subscription
\* itself carries what the event before it carried.
EmittedShape ==
    /\ stripe.state = "none" <=> Len(emitted) = 0
    /\ Len(emitted) > 0 => SameState(emitted[Len(emitted)], stripe)
    /\ \A e \in Emitted :
          /\ emitted[e].type = "customer.subscription" =>
                (emitted[e].deleted <=> emitted[e].state = "canceled")
          /\ emitted[e].type # "customer.subscription" =>
                e > 1 /\ SameState(emitted[e - 1], emitted[e])
          /\ emitted[e].type = "checkout.session.completed" => emitted[e].state = "active"

\* Deliveries that neither overlap nor come early: events are processed from the
\* first on, and the one in progress is the first that is not.
OrderInv ==
    ~disordered =>
        /\ \A c, d \in InProgress : c = d
        /\ \A e, f \in Emitted : e < f /\ log[e] # "processed" => log[f] = "none"
        /\ \A d \in InProgress :
              /\ log[work[d].event] # "processed"
              /\ \A f \in Emitted : f < work[d].event => log[f] = "processed"
              /\ work[d].pc = "create" => log[work[d].event] = "none"

\* The row says what the state s of a subscription says.
Mirrors(s) ==
    /\ row # NoRow
    /\ s.state = "canceled" => row.plan = "FREE" /\ row.status = "CANCELED"
    /\ s.state # "canceled" => row.plan = s.plan /\ row.status = mapStripeStatus(s.state)

\* The row says what the last processed event says, or already the next one, which
\* was applied and not yet marked.
MirrorInv ==
    ~disordered /\ manuals = 0 =>
        /\ \A e \in Emitted : log[e] = "processed" =>
              \/ Mirrors(emitted[e])
              \/ e + 1 \in Emitted /\ log[e + 1] = "processed"
              \/ e + 1 \in Emitted /\ log[e + 1] = "logged" /\ Mirrors(emitted[e + 1])
        /\ \A d \in InProgress : work[d].pc = "mark" => Mirrors(emitted[work[d].event])

\* Only Stripe adds events, and their order is that of its states.
LEMMA ShapeStep == TypeInv /\ EmittedShape /\ [Next]_vars => EmittedShape'
<1> SUFFICES ASSUME TypeInv, EmittedShape, [Next]_vars
             PROVE  EmittedShape'
  OBVIOUS
<1>0. emitted \in Seq(TypedEvents) /\ Len(emitted) \in Nat /\ Emitted = 1..Len(emitted)
  BY DEF TypeInv, Emitted
<1>1. CASE UNCHANGED <<stripe, emitted>>
  BY <1>1 DEF EmittedShape, Emitted
<1>2. ASSUME NEW ev, emitted' = Append(emitted, ev), SameState(ev, stripe'),
             stripe'.state # "none",
             ev.type = "customer.subscription" => (ev.deleted <=> ev.state = "canceled"),
             ev.type # "customer.subscription" =>
                ev.type = "other" /\ Len(emitted) > 0 /\ SameState(emitted[Len(emitted)], ev)
      PROVE  EmittedShape'
  <2>1. /\ Len(emitted') = Len(emitted) + 1
        /\ emitted'[Len(emitted) + 1] = ev
        /\ \A e \in Emitted : emitted'[e] = emitted[e]
        /\ Emitted' = 1..(Len(emitted) + 1)
    BY <1>0, <1>2 DEF Emitted
  <2>2. ASSUME NEW e \in Emitted'
        PROVE  /\ emitted'[e].type = "customer.subscription" =>
                     (emitted'[e].deleted <=> emitted'[e].state = "canceled")
               /\ emitted'[e].type # "customer.subscription" =>
                     e > 1 /\ SameState(emitted'[e - 1], emitted'[e])
               /\ emitted'[e].type = "checkout.session.completed" => emitted'[e].state = "active"
    <3>1. CASE e \in Emitted
      <4>1. emitted'[e] = emitted[e] /\ (e > 1 => emitted'[e - 1] = emitted[e - 1])
        BY <1>0, <2>1, <3>1
      <4> QED  BY <3>1, <4>1 DEF EmittedShape
    <3>2. CASE e = Len(emitted) + 1
      <4>1. Len(emitted) > 0 => emitted'[e - 1] = emitted[Len(emitted)]
        BY <1>0, <2>1, <3>2
      <4> QED  BY <1>0, <1>2, <2>1, <3>2, <4>1
    <3> QED  BY <1>0, <2>1, <2>2, <3>1, <3>2
  <2> QED  BY <1>0, <1>2, <2>1, <2>2 DEF EmittedShape
<1>3. ASSUME NEW cu \in 1..CustomerBound, NEW plan \in PURCHASABLE_PLANS, Subscribe(cu, plan)
      PROVE  EmittedShape'
  <2> DEFINE s == [state |-> "active", plan |-> plan, customer |-> {cu}]
             a == Event("customer.subscription", FALSE, s)
             b == Event("checkout.session.completed", FALSE, s)
             n == Len(emitted)
  <2>1. /\ s.state = "active" /\ SameState(a, s) /\ SameState(b, s) /\ SameState(a, b)
        /\ a.type = "customer.subscription" /\ a.deleted = FALSE /\ a.state = "active"
        /\ b.type = "checkout.session.completed" /\ b.state = "active"
    BY DEF Event, SameState
  <2>2. stripe' = s /\ emitted' = emitted \o <<a, b>>
    BY <1>3 DEF Subscribe
  <2> HIDE DEF s, a, b
  <2>3. /\ Len(emitted') = n + 2 /\ emitted'[n + 1] = a /\ emitted'[n + 2] = b
        /\ \A e \in Emitted : emitted'[e] = emitted[e]
        /\ Emitted' = 1..(n + 2)
    BY <1>0, <2>2 DEF Emitted
  <2>4. ASSUME NEW e \in Emitted'
        PROVE  /\ emitted'[e].type = "customer.subscription" =>
                     (emitted'[e].deleted <=> emitted'[e].state = "canceled")
               /\ emitted'[e].type # "customer.subscription" =>
                     e > 1 /\ SameState(emitted'[e - 1], emitted'[e])
               /\ emitted'[e].type = "checkout.session.completed" => emitted'[e].state = "active"
    <3>1. CASE e \in Emitted
      <4>1. emitted'[e] = emitted[e] /\ (e > 1 => emitted'[e - 1] = emitted[e - 1])
        BY <1>0, <2>3, <3>1
      <4> QED  BY <3>1, <4>1 DEF EmittedShape
    <3>2. CASE e = n + 1
      BY <2>1, <2>3, <3>2
    <3>3. CASE e = n + 2
      <4>1. e - 1 = n + 1 /\ e > 1
        BY <1>0, <3>3
      <4> QED  BY <2>1, <2>3, <3>3, <4>1
    <3> QED  BY <1>0, <2>3, <2>4, <3>1, <3>2, <3>3
  <2> QED  BY <1>0, <2>1, <2>2, <2>3, <2>4 DEF EmittedShape
<1>4. ASSUME NEW status \in StripeStatuses, NEW plan \in PURCHASABLE_PLANS,
             ChangeSubscription(status, plan)
      PROVE  EmittedShape'
  <2> DEFINE ev == Event("customer.subscription", FALSE, stripe')
  <2>1. /\ stripe' = [stripe EXCEPT !.state = status, !.plan = plan]
        /\ emitted' = Append(emitted, ev)
    BY <1>4 DEF ChangeSubscription
  <2>2. stripe'.state = status /\ status \notin {"none", "canceled"}
    BY <2>1, StatusAssumption DEF TypeInv
  <2>3. /\ SameState(ev, stripe') /\ ev.type = "customer.subscription" /\ ev.deleted = FALSE
        /\ ev.state = stripe'.state
    BY DEF Event, SameState
  <2> QED  BY <1>2, <2>1, <2>2, <2>3
<1>5. ASSUME EndSubscription
      PROVE  EmittedShape'
  <2> DEFINE ev == Event("customer.subscription", TRUE, stripe')
  <2>1. stripe' = [stripe EXCEPT !.state = "canceled"] /\ emitted' = Append(emitted, ev)
    BY <1>5 DEF EndSubscription
  <2>2. stripe'.state = "canceled"
    BY <2>1 DEF TypeInv
  <2>3. /\ SameState(ev, stripe') /\ ev.type = "customer.subscription" /\ ev.deleted = TRUE
        /\ ev.state = stripe'.state
    BY DEF Event, SameState
  <2> QED  BY <1>2, <2>1, <2>2, <2>3
<1>6. ASSUME OtherEvent
      PROVE  EmittedShape'
  <2> DEFINE ev == Event("other", FALSE, stripe)
  <2>1. stripe' = stripe /\ emitted' = Append(emitted, ev) /\ stripe.state # "none"
    BY <1>6 DEF OtherEvent
  <2>2. SameState(ev, stripe) /\ ev.type = "other"
    BY DEF Event, SameState
  <2> HIDE DEF ev
  <2>3. Len(emitted) > 0 /\ SameState(emitted[Len(emitted)], ev)
    <3>1. Len(emitted) > 0 /\ SameState(emitted[Len(emitted)], stripe)
      BY <1>0, <2>1 DEF EmittedShape
    <3> QED  BY <2>2, <3>1 DEF SameState
  <2> QED  BY <1>2, <2>1, <2>2, <2>3
<1>7. ASSUME Next, ~StripeStep
      PROVE  UNCHANGED <<stripe, emitted>>
  BY <1>7 DEF Next, StripeStep, setManualInvoice, ensureCustomer, Started, PersistCustomer, FailCall,
              Receive, Handle, CreateLog, Apply, Mark, Fail, theirs
<1> QED  BY <1>1, <1>3, <1>4, <1>5, <1>6, <1>7 DEF StripeStep, vars

\* A delivery that is in order takes the first event not processed.
LEMMA OrderStep == TypeInv /\ OrderInv /\ [Next]_vars => OrderInv'
<1> SUFFICES ASSUME TypeInv, OrderInv, [Next]_vars
             PROVE  OrderInv'
  OBVIOUS
<1>0. /\ Emitted \subseteq Events /\ Emitted \subseteq Nat
      /\ \A d \in InProgress : d \in Deliveries /\ work[d].event \in Emitted
  BY BoundAssumption DEF TypeInv, Emitted, Events, InProgress
<1>1. CASE UNCHANGED <<log, work, emitted, disordered>>
  BY <1>1 DEF OrderInv, InProgress, Emitted
<1>2. CASE StripeStep
  <2>1. UNCHANGED <<log, work, disordered>> /\ Len(emitted) < Len(emitted')
        /\ Len(emitted') <= EventBound /\ Len(emitted') \in Nat
    BY <1>2, StripeEmits DEF ours, history
  <2>2. \A f \in Emitted' : f \in Emitted \/ (f \in Events \ Emitted /\ f > Len(emitted))
    BY <2>1, BoundAssumption DEF Emitted, Events, TypeInv
  <2>3. \A f \in Emitted' : f \in Emitted \/ (log[f] = "none" /\ f > Len(emitted))
    BY <2>2 DEF TypeInv
  <2>4. InProgress' = InProgress /\ \A e \in Emitted : e <= Len(emitted)
    BY <2>1 DEF InProgress, Emitted
  <2>5. \A d \in InProgress : work[d].event \in Nat /\ work[d].event <= Len(emitted)
    BY <1>0, <2>4
  <2>6. Len(emitted) \in Nat /\ Emitted' \subseteq Nat
    BY DEF TypeInv, Emitted
  <2>7. ASSUME ~disordered, NEW e \in Emitted', NEW f \in Emitted', e < f, log[e] # "processed"
        PROVE  log[f] = "none"
    BY <1>0, <2>3, <2>4, <2>6, <2>7 DEF OrderInv
  <2>8. ASSUME ~disordered, NEW d \in InProgress, NEW f \in Emitted', f < work[d].event
        PROVE  log[f] = "processed"
    BY <1>0, <2>3, <2>5, <2>6, <2>8 DEF OrderInv
  <2> QED  BY <2>1, <2>4, <2>7, <2>8 DEF OrderInv
<1>3. ASSUME NEW d \in Deliveries, NEW e \in Events, Receive(d, e)
      PROVE  OrderInv'
  <2>1. /\ \A x \in Deliveries \ {d} : work'[x] = work[x]
        /\ work'[d].event = e /\ work'[d].pc = (IF log[e] = "none" THEN "create" ELSE "apply")
    BY <1>3 DEF Receive, TypeInv
  <2>2. UNCHANGED <<log, emitted>> /\ e \in Emitted /\ log[e] # "processed"
        /\ disordered' = (disordered \/ InProgress # {} \/ \E f \in Unprocessed : f < e)
    BY <1>3 DEF Receive, theirs
  <2>3. ASSUME ~disordered'
        PROVE  /\ ~disordered /\ InProgress' \subseteq {d}
               /\ \A f \in Emitted : f < e => log[f] = "processed"
    BY <2>1, <2>2, <2>3 DEF InProgress, Unprocessed
  <2> QED  BY <2>1, <2>2, <2>3 DEF OrderInv, Emitted
<1>4. ASSUME NEW d \in Deliveries, CreateLog(d)
      PROVE  OrderInv'
  <2> DEFINE e == work[d].event
  <2>1. d \in InProgress /\ e \in Emitted /\ e \in Events /\ e \in Nat
        /\ UNCHANGED <<emitted, disordered>> /\ work[d].pc = "create"
    BY <1>0, <1>4 DEF CreateLog, At, InProgress, theirs, history
  <2> HIDE DEF e
  <2>2. ASSUME ~disordered
        PROVE  /\ log' = [log EXCEPT ![e] = "logged"] /\ Goto(d, "apply")
               /\ InProgress = {d}
               /\ log[e] = "none"
    BY <1>4, <2>1, <2>2 DEF OrderInv, CreateLog, e
  <2>3. ASSUME ~disordered
        PROVE  /\ work'[d].event = e /\ work'[d].pc = "apply"
               /\ InProgress' \subseteq {d}
    BY <2>1, <2>2, <2>3 DEF Goto, TypeInv, InProgress, e
  <2>4. ASSUME ~disordered
        PROVE  log'[e] = "logged" /\ \A f \in Emitted \ {e} : log'[f] = log[f]
    BY <1>0, <2>1, <2>2, <2>4 DEF TypeInv
  <2>5. ASSUME ~disordered, NEW f \in Emitted, f < e
        PROVE  log[f] = "processed"
    BY <2>1, <2>5 DEF OrderInv, e
  <2>6. ASSUME ~disordered, NEW x \in Emitted, NEW f \in Emitted, x < f, log'[x] # "processed"
        PROVE  log'[f] = "none"
    <3>1. log[x] # "processed" /\ log[f] = "none"
      BY <2>2, <2>4, <2>6 DEF OrderInv
    <3>2. f # e
      BY <2>1, <2>5, <2>6, <3>1
    <3> QED  BY <2>4, <2>6, <3>1, <3>2
  <2> QED  BY <1>0, <2>1, <2>3, <2>4, <2>5, <2>6 DEF OrderInv, Emitted
<1>5. ASSUME NEW d \in Deliveries, Apply(d)
      PROVE  OrderInv'
  <2>1. d \in InProgress /\ UNCHANGED <<log, emitted, disordered>>
    BY <1>5 DEF Apply, At, InProgress, theirs
  <2>2. /\ \A x \in Deliveries \ {d} : work'[x] = work[x]
        /\ work'[d].event = work[d].event /\ work'[d].pc = "mark"
    BY <1>5, <2>1 DEF Apply, Goto, TypeInv, InProgress
  <2>3. \A x \in InProgress' : x \in InProgress /\ work'[x].event = work[x].event
                               /\ (work'[x].pc = "create" => work[x].pc = "create")
    BY <2>1, <2>2 DEF InProgress
  <2> QED  BY <2>1, <2>3 DEF OrderInv, Emitted
<1>6. ASSUME NEW d \in Deliveries, Mark(d)
      PROVE  OrderInv'
  <2> DEFINE e == work[d].event
  <2>1. d \in InProgress /\ e \in Emitted /\ e \in Events
        /\ UNCHANGED <<emitted, disordered>>
    BY <1>0, <1>6 DEF Mark, At, InProgress, theirs, history
  <2>2. log' = [log EXCEPT ![e] = "processed"] /\ work' = [work EXCEPT ![d] = Idle]
    BY <1>6 DEF Mark, End
  <2> HIDE DEF e
  <2>3. log'[e] = "processed" /\ \A f \in Emitted \ {e} : log'[f] = log[f]
    BY <1>0, <2>1, <2>2 DEF TypeInv
  <2>4. ~disordered => InProgress' = {}
    BY <2>1, <2>2 DEF OrderInv, InProgress, TypeInv
  <2>5. ASSUME ~disordered, NEW f \in Emitted, e < f
        PROVE  log[f] = "none"
    BY <2>1, <2>5 DEF OrderInv, e
  <2>6. ASSUME ~disordered, NEW x \in Emitted, NEW f \in Emitted, x < f, log'[x] # "processed"
        PROVE  log'[f] = "none"
    <3>1. x # e /\ log[x] # "processed" /\ log[f] = "none"
      BY <2>3, <2>6 DEF OrderInv
    <3>2. f # e
      BY <2>1, <2>6, <3>1 DEF OrderInv, e
    <3> QED  BY <2>3, <3>1, <3>2
  <2> QED  BY <2>1, <2>4, <2>6 DEF OrderInv, Emitted
<1>7. ASSUME NEW d \in Deliveries, Fail(d)
      PROVE  OrderInv'
  <2>1. UNCHANGED <<log, emitted, disordered>> /\ work' = [work EXCEPT ![d] = Idle]
    BY <1>7 DEF Fail, End, theirs, history
  <2>2. \A x \in InProgress' : x \in InProgress /\ work'[x] = work[x]
    BY <2>1 DEF InProgress, TypeInv
  <2> QED  BY <2>1, <2>2 DEF OrderInv, Emitted
<1>8. ASSUME Next, ~StripeStep, ~DeliveryStep
      PROVE  UNCHANGED <<log, work, emitted, disordered>>
  BY <1>8 DEF Next, StripeStep, DeliveryStep, setManualInvoice, ensureCustomer, Started,
              PersistCustomer, FailCall, theirs, history
<1> QED  BY <1>1, <1>2, <1>3, <1>4, <1>5, <1>6, <1>7, <1>8 DEF DeliveryStep, Handle, vars

\* The effect of the first event not processed leaves the row as that event says.
LEMMA AppliedMirrors ==
    ASSUME TypeInv, EmittedShape, OrderInv, MirrorInv, ~disordered, manuals = 0,
           NEW d \in InProgress, work[d].pc = "apply", row' = Effect(emitted[work[d].event]),
           UNCHANGED emitted, work'[d].event = work[d].event
    PROVE  Mirrors(emitted[work[d].event])'
<1> DEFINE e == work[d].event
           ev == emitted[e]
<1>1. e \in Emitted /\ e \in Nat /\ ev \in TypedEvents
  BY DEF TypeInv, InProgress, Emitted
<1>2. CASE ev.type = "customer.subscription"
  <2>1. /\ row' \in TypedRows
        /\ row'.plan = (IF ev.deleted THEN "FREE" ELSE ev.plan)
        /\ row'.status = (IF ev.deleted THEN "CANCELED" ELSE mapStripeStatus(ev.state))
    BY <1>1, <1>2, EffectWrites
  <2>2. ev.deleted <=> ev.state = "canceled"
    BY <1>1, <1>2 DEF EmittedShape
  <2>3. row' # NoRow
    BY <2>1, NotNone DEF TypeInv
  <2> QED  BY <2>1, <2>2, <2>3 DEF Mirrors
<1>3. CASE ev.type # "customer.subscription"
  <2>1. e > 1 /\ SameState(emitted[e - 1], ev) /\ e - 1 \in Emitted /\ e - 1 < e
    BY <1>1, <1>3 DEF EmittedShape, Emitted
  <2>2. log[e - 1] = "processed" /\ log[e] # "processed" /\ (e - 1) + 1 = e
    BY <1>1, <2>1 DEF OrderInv
  <2>3. Mirrors(emitted[e - 1]) \/ Mirrors(ev)
    BY <2>1, <2>2 DEF MirrorInv
  <2>4. Mirrors(ev)
    BY <2>1, <2>3 DEF Mirrors, SameState
  <2>5. CASE ev.type = "other"
    <3>1. row' = row
      BY <1>1, <2>5, EffectWrites
    <3> QED  BY <2>4, <3>1 DEF Mirrors
  <2>6. CASE ev.type = "checkout.session.completed"
    <3>1. /\ row' \in TypedRows /\ row'.plan = Old.plan /\ row'.status = "ACTIVE"
      BY <1>1, <2>6, EffectWrites
    <3>2. ev.state = "active"
      BY <1>1, <2>6 DEF EmittedShape
    <3>3. row' # NoRow /\ Old = row
      BY <2>4, <3>1, NotNone DEF TypeInv, Old, Mirrors
    <3>4. mapStripeStatus("active") = "ACTIVE"
      BY DEF mapStripeStatus
    <3> QED  BY <2>4, <3>1, <3>2, <3>3, <3>4 DEF Mirrors
  <2> QED  BY <1>1, <1>3, <2>5, <2>6 DEF TypedEvents, EventTypes
<1> QED  BY <1>2, <1>3

\* Every step keeps the row in line with the events.
LEMMA MirrorStep ==
    TypeInv /\ RecordInv /\ EmittedShape /\ OrderInv /\ MirrorInv /\ [Next]_vars => MirrorInv'
<1> SUFFICES ASSUME TypeInv, RecordInv, EmittedShape, OrderInv, MirrorInv, [Next]_vars
             PROVE  MirrorInv'
  OBVIOUS
<1>0. /\ Emitted \subseteq Events /\ Emitted \subseteq Nat
      /\ \A d \in InProgress : d \in Deliveries /\ work[d].event \in Emitted
  BY BoundAssumption DEF TypeInv, Emitted, Events, InProgress
<1>1. ASSUME UNCHANGED <<log, work, emitted, disordered, manuals>>,
             row # NoRow => row' # NoRow /\ row'.plan = row.plan /\ row'.status = row.status
      PROVE  MirrorInv'
  BY <1>1 DEF MirrorInv, Mirrors, InProgress, Emitted
<1>2. ASSUME NEW plan \in PURCHASABLE_PLANS, setManualInvoice(plan)
      PROVE  MirrorInv'
  BY <1>2 DEF setManualInvoice, MirrorInv, TypeInv
<1>3. ASSUME NEW c \in Calls,
             \/ PersistCustomer(c) \/ FailCall(c)
             \/ \E op \in {"checkout", "portal"} : ensureCustomer(c, op)
      PROVE  MirrorInv'
  <2>1. UNCHANGED <<log, work, emitted, disordered, manuals>>
    BY <1>3 DEF PersistCustomer, FailCall, ensureCustomer, Started, theirs, bounds, history
  <2>2. CASE row' = row
    BY <1>1, <2>1, <2>2
  <2>3. CASE row' = upsertSubscription([customer |-> call[c].customer]) /\ PersistCustomer(c)
    <3>1. row' = [plan |-> Old.plan, status |-> Old.status, customer |-> call[c].customer,
                  manualInvoice |-> Old.manualInvoice]
      BY <2>3, OldType, UpsertCustomer
    <3>2. call[c].customer \in One
      BY <2>3 DEF PersistCustomer, TypeInv, TypedCalls
    <3>3. row' \in TypedRows /\ row'.plan = Old.plan /\ row'.status = Old.status
      BY <3>1, <3>2, OldType DEF TypedRows
    <3>4. row' # NoRow
      BY <3>3, NotNone DEF TypeInv
    <3> QED  BY <1>1, <2>1, <3>3, <3>4 DEF Old
  <2> QED  BY <1>3, <2>2, <2>3 DEF PersistCustomer, FailCall, ensureCustomer, Started
<1>4. CASE StripeStep
  <2>1. UNCHANGED <<row, log, work, disordered, manuals>> /\ Len(emitted) < Len(emitted')
        /\ Len(emitted') <= EventBound /\ Len(emitted') \in Nat
        /\ \A e \in Emitted : emitted'[e] = emitted[e]
    BY <1>4, StripeEmits DEF ours, history, bounds
  <2>2. Emitted \subseteq Emitted' /\ Emitted' \subseteq Events
    BY <2>1, BoundAssumption DEF Emitted, Events, TypeInv
  <2>3. \A f \in Emitted' : f \in Emitted \/ log[f] = "none"
    BY <2>2 DEF TypeInv
  <2>4. InProgress' = InProgress
    BY <2>1 DEF InProgress
  <2> QED  BY <1>0, <2>1, <2>2, <2>3, <2>4 DEF MirrorInv, Mirrors
<1>5. ASSUME NEW d \in Deliveries, NEW e \in Events, Receive(d, e)
      PROVE  MirrorInv'
  <2>1. UNCHANGED <<row, log, emitted, manuals>> /\ disordered' = (disordered \/ disordered')
    BY <1>5 DEF Receive, theirs, bounds
  <2>2. /\ \A x \in Deliveries \ {d} : work'[x] = work[x]
        /\ work'[d].pc # "mark"
    BY <1>5 DEF Receive, TypeInv
  <2>3. \A x \in InProgress' : work'[x].pc = "mark" => x \in InProgress /\ work'[x] = work[x]
    BY <2>2 DEF InProgress
  <2> QED  BY <2>1, <2>3 DEF MirrorInv, Mirrors, Emitted
<1>6. ASSUME NEW d \in Deliveries, CreateLog(d)
      PROVE  MirrorInv'
  <2> DEFINE e == work[d].event
  <2>1. d \in InProgress /\ e \in Emitted /\ e \in Events
        /\ UNCHANGED <<row, emitted, disordered, manuals>>
    BY <1>0, <1>6 DEF CreateLog, At, InProgress, theirs, history, bounds
  <2>2. CASE log[e] # "none"
    <3>1. disordered
      BY <1>6, <2>1, <2>2 DEF OrderInv, CreateLog, At
    <3> QED  BY <2>1, <3>1 DEF MirrorInv
  <2>3. CASE log[e] = "none"
    <3>1. log' = [log EXCEPT ![e] = "logged"] /\ Goto(d, "apply")
      BY <1>6, <2>3 DEF CreateLog
    <3> HIDE DEF e
    <3>2. log'[e] = "logged" /\ \A f \in Emitted \ {e} : log'[f] = log[f]
      BY <1>0, <2>1, <3>1 DEF TypeInv
    <3>3. \A x \in InProgress' : work'[x].pc = "mark" => x \in InProgress /\ work'[x] = work[x]
      BY <2>1, <3>1 DEF InProgress, Goto, TypeInv
    <3>4. ASSUME ~disordered, manuals = 0, NEW x \in Emitted, log'[x] = "processed"
          PROVE  \/ Mirrors(emitted[x])
                 \/ x + 1 \in Emitted /\ log'[x + 1] = "processed"
                 \/ x + 1 \in Emitted /\ log'[x + 1] = "logged" /\ Mirrors(emitted[x + 1])
      <4>1. log[x] = "processed"
        BY <3>2, <3>4
      <4>2. \/ Mirrors(emitted[x])
            \/ x + 1 \in Emitted /\ log[x + 1] = "processed"
            \/ x + 1 \in Emitted /\ log[x + 1] = "logged" /\ Mirrors(emitted[x + 1])
        BY <3>4, <4>1 DEF MirrorInv
      <4>3. log[x + 1] # "none" => x + 1 # e
        BY <2>3
      <4> QED  BY <3>2, <4>2, <4>3
    <3>5. \A x \in InProgress' : work'[x].pc = "mark" =>
             x \in InProgress /\ work[x].pc = "mark" /\ work'[x].event = work[x].event
      BY <3>3
    <3>6. UNCHANGED <<row, emitted>> /\ Emitted' = Emitted
      BY <2>1 DEF Emitted
    <3> HIDE <3>2, <3>3
    <3> QED  BY <2>1, <3>4, <3>5, <3>6 DEF MirrorInv, Mirrors
  <2> QED  BY <2>2, <2>3
<1>7. ASSUME NEW d \in Deliveries, Apply(d)
      PROVE  MirrorInv'
  <2> DEFINE e == work[d].event
  <2>1. d \in InProgress /\ e \in Emitted /\ e \in Nat /\ work[d].pc = "apply"
        /\ UNCHANGED <<log, emitted, disordered, manuals>> /\ row' = Effect(emitted[e])
    BY <1>0, <1>7 DEF Apply, At, InProgress, theirs, bounds
  <2>2. /\ \A x \in Deliveries \ {d} : work'[x] = work[x]
        /\ work'[d].event = e
    BY <1>7, <2>1 DEF Apply, Goto, TypeInv, InProgress
  <2> SUFFICES ASSUME ~disordered, manuals = 0
               PROVE  /\ \A x \in Emitted : log[x] = "processed" =>
                            \/ x + 1 \in Emitted /\ log[x + 1] = "processed"
                            \/ x + 1 \in Emitted /\ log[x + 1] = "logged" /\ x + 1 = e
                      /\ InProgress' \subseteq {d}
                      /\ Mirrors(emitted[work[d].event])'
    BY <2>1, <2>2 DEF MirrorInv, Mirrors, Emitted
  <2>3. Mirrors(emitted[work[d].event])'
    BY <2>1, <2>2, AppliedMirrors
  <2>4. InProgress' \subseteq {d}
    BY <2>1, <2>2 DEF OrderInv, InProgress
  <2>5. /\ log[e] = "logged"
        /\ \A f \in Emitted : e < f => log[f] = "none"
    BY <1>0, <2>1 DEF OrderInv, RecordInv, TypeInv
  <2>6. ASSUME NEW x \in Emitted, log[x] = "processed", x + 1 \in Emitted => log[x + 1] # "processed"
        PROVE  x + 1 = e
    <3>1. x \in Nat /\ ~(e < x) /\ x # e
      BY <1>0, <2>5, <2>6
    <3>2. x < e
      BY <2>1, <3>1
    <3>3. x + 1 \in Emitted
      BY <2>1, <3>1, <3>2 DEF Emitted
    <3>4. x + 1 < e => log[x + 1] = "processed"
      BY <2>1, <3>3 DEF OrderInv
    <3> QED  BY <2>1, <2>6, <3>1, <3>2, <3>3, <3>4
  <2> QED  BY <2>1, <2>3, <2>4, <2>5, <2>6
<1>8. ASSUME NEW d \in Deliveries, Mark(d)
      PROVE  MirrorInv'
  <2> DEFINE e == work[d].event
  <2>1. d \in InProgress /\ e \in Emitted /\ e \in Events /\ work[d].pc = "mark"
        /\ UNCHANGED <<row, emitted, disordered, manuals>>
    BY <1>0, <1>8 DEF Mark, At, InProgress, theirs, history, bounds
  <2>2. log' = [log EXCEPT ![e] = "processed"] /\ work' = [work EXCEPT ![d] = Idle]
    BY <1>8 DEF Mark, End
  <2>3. \A x \in InProgress' : x \in InProgress /\ work'[x] = work[x]
    BY <2>2 DEF InProgress, TypeInv
  <2> HIDE DEF e
  <2>4. log'[e] = "processed" /\ \A f \in Emitted \ {e} : log'[f] = log[f]
    BY <1>0, <2>1, <2>2 DEF TypeInv
  <2>5. ASSUME ~disordered, manuals = 0, NEW x \in Emitted, log'[x] = "processed"
        PROVE  \/ Mirrors(emitted[x])
               \/ x + 1 \in Emitted /\ log'[x + 1] = "processed"
               \/ x + 1 \in Emitted /\ log'[x + 1] = "logged" /\ Mirrors(emitted[x + 1])
    <3>1. CASE x = e
      BY <2>1, <2>5, <3>1 DEF MirrorInv, e
    <3>2. CASE x # e /\ x + 1 = e
      BY <2>1, <2>4, <3>2
    <3>3. CASE x # e /\ x + 1 # e
      <4>1. \/ Mirrors(emitted[x])
            \/ x + 1 \in Emitted /\ log[x + 1] = "processed"
            \/ x + 1 \in Emitted /\ log[x + 1] = "logged" /\ Mirrors(emitted[x + 1])
        BY <2>4, <2>5, <3>3 DEF MirrorInv
      <4> QED  BY <2>4, <3>3, <4>1
    <3> QED  BY <3>1, <3>2, <3>3
  <2>6. UNCHANGED <<row, emitted>> /\ Emitted' = Emitted
    BY <2>1 DEF Emitted
  <2>7. \A x \in InProgress' : work'[x].pc = "mark" =>
           x \in InProgress /\ work[x].pc = "mark" /\ work'[x].event = work[x].event
    BY <2>3
  <2> HIDE <2>3, <2>4
  <2> QED  BY <2>1, <2>5, <2>6, <2>7 DEF MirrorInv, Mirrors
<1>9. ASSUME NEW d \in Deliveries, Fail(d)
      PROVE  MirrorInv'
  <2>1. UNCHANGED <<row, log, emitted, disordered, manuals>> /\ work' = [work EXCEPT ![d] = Idle]
    BY <1>9 DEF Fail, End, theirs, history
  <2>2. \A x \in InProgress' : x \in InProgress /\ work'[x] = work[x]
    BY <2>1 DEF InProgress, TypeInv
  <2> QED  BY <2>1, <2>2 DEF MirrorInv, Mirrors, Emitted
<1>10. CASE UNCHANGED vars
  BY <1>1, <1>10 DEF vars
<1> QED  BY <1>2, <1>3, <1>4, <1>5, <1>6, <1>7, <1>8, <1>9, <1>10 DEF Next, StripeStep, Handle

\* Once handleWebhook took the events one at a time in the order of their emission,
\* failing and repeating on the way or not, the row has Stripe's plan and status, and
\* its customer unless two calls overlapped or one failed.
THEOREM RowMirrorsStripe == Spec => []MirrorsStripe
<1> DEFINE I == TypeInv /\ RecordInv /\ CustomerInv /\ EmittedShape /\ OrderInv /\ MirrorInv
<1>1. Init => I
  BY InitTypeInv DEF Init, RecordInv, CustomerInv, EmittedShape, OrderInv, MirrorInv, InProgress,
                     Busy, Emitted
<1>2. I /\ [Next]_vars => I'
  BY TypeStep, RecordStep, CustomerStep, ShapeStep, OrderStep, MirrorStep
<1>3. I => MirrorsStripe
  <2> SUFFICES ASSUME I, Unprocessed = {}, Emitted # {}, ~disordered, manuals = 0
               PROVE  /\ stripe.state = "canceled" => row.plan = "FREE" /\ row.status = "CANCELED"
                      /\ stripe.state # "canceled" => /\ row.plan = stripe.plan
                                                      /\ row.status = mapStripeStatus(stripe.state)
                      /\ split \/ row.customer = stripe.customer
    BY DEF MirrorsStripe
  <2> DEFINE n == Len(emitted)
  <2>1. n \in Nat /\ n > 0 /\ n \in Emitted /\ n + 1 \notin Emitted
    BY DEF TypeInv, Emitted
  <2>2. log[n] = "processed"
    BY <2>1 DEF Unprocessed
  <2>3. Mirrors(emitted[n])
    BY <2>1, <2>2 DEF MirrorInv
  <2>4. SameState(emitted[n], stripe) /\ stripe.state # "none"
    BY <2>1 DEF EmittedShape
  <2>5. ASSUME ~split
        PROVE  row.customer = stripe.customer
    <3>1. row # NoRow /\ row.customer # {} /\ customers <= 1
      BY <2>3, <2>4, <2>5 DEF Mirrors, CustomerInv, CustomerOf
    <3>2. row.customer \in One /\ stripe.customer \in One
      BY <2>4, <3>1 DEF TypeInv, TypedRows
    <3>3. \A cu \in 1..customers : cu = 1
      BY <3>1 DEF TypeInv
    <3>4. \A x \in One : x = {1}
      BY <3>3 DEF One
    <3> QED  BY <3>2, <3>4
  <2> QED  BY <2>3, <2>4, <2>5 DEF Mirrors, SameState
<1> QED  BY <1>1, <1>2, <1>3, PTL DEF Spec
=============================================================================
