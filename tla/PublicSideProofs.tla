--------------------------- MODULE PublicSideProofs ---------------------------
(* Proofs about the components that face the public and the partners, for every *)
(* value of their constants.  They share no state: each theorem but the last is *)
(* about the specification of one, and the last about all of them.              *)
EXTENDS MCPublicSide, FiniteSetTheorems, TLAPS

-----------------------------------------------------------------------------
(* Webhooks. *)

\* A delivery by where deliver() is: no row before it is persisted, PENDING until
\* the answer is recorded, and nothing is posted twice; an event that was not
\* published has no delivery.
DeliveryShape(k) ==
    /\ k[1] > published => dlv[k].at = "none"
    /\ dlv[k].at \in {"none", "started"} => dlv[k].status = "none" /\ arrived[k] = 0
    /\ dlv[k].at = "persisted" => dlv[k].status = "PENDING" /\ arrived[k] = 0
    /\ dlv[k].at = "posted" => dlv[k].status = "PENDING" /\ (dlv[k].answer = "ok" => arrived[k] = 1)
    /\ dlv[k].at = "ended" => dlv[k].status # "PENDING"
    /\ dlv[k].at = "lost" => dlv[k].status \in {"none", "PENDING"}
    /\ dlv[k].status = "none" => arrived[k] = 0
    /\ dlv[k].status = "SUCCEEDED" => arrived[k] = 1

WebhooksInv == WebhooksTypeOK /\ \A k \in HookEvents \X Subscriptions : DeliveryShape(k)

DeliveryRecords ==
    [at: {"none", "started", "persisted", "posted", "ended", "lost"},
     status: {"none", "PENDING", "SUCCEEDED", "FAILED"},
     answer: {"none", "ok", "bad", "timeout"}]

\* Nothing published yet.
LEMMA InitWebhooksInv == WebhooksInit => WebhooksInv
<1> SUFFICES ASSUME WebhooksInit PROVE WebhooksInv
  OBVIOUS
<1> DEFINE K == HookEvents \X Subscriptions
<1>1. /\ dlv = [k \in K |-> NoDelivery] /\ arrived = [k \in K |-> 0] /\ published = 0
  BY DEF WebhooksInit
<1>2. \A k \in K : k[1] \in Nat
  BY WebhooksAssumption DEF HookEvents
<1>3. WebhooksTypeOK
  BY <1>1, WebhooksAssumption DEF WebhooksInit, WebhooksTypeOK, NoDelivery
<1>4. \A k \in K : DeliveryShape(k)
  BY <1>1, <1>2 DEF DeliveryShape, NoDelivery
<1> QED  BY <1>3, <1>4 DEF WebhooksInv

\* One delivery makes a step.
LEMMA DeliveryKeeps ==
    ASSUME WebhooksInv, NEW k \in HookEvents \X Subscriptions, NEW new \in DeliveryRecords,
           dlv' = [dlv EXCEPT ![k] = new], NEW got \in 0..1,
           arrived' = [arrived EXCEPT ![k] = got], losses' \in 0..LossBound,
           UNCHANGED <<sub, revoked, published>>, dlv[k].at # "none",
           /\ new.at \notin {"none", "started"}
           /\ new.at = "persisted" => new.status = "PENDING" /\ got = 0
           /\ new.at = "posted" => new.status = "PENDING" /\ (new.answer = "ok" => got = 1)
           /\ new.at = "ended" => new.status # "PENDING"
           /\ new.at = "lost" => new.status \in {"none", "PENDING"}
           /\ new.status = "none" => got = 0
           /\ new.status = "SUCCEEDED" => got = 1
    PROVE  WebhooksInv'
<1> DEFINE K == HookEvents \X Subscriptions
<1>1. /\ dlv \in [K -> DeliveryRecords] /\ arrived \in [K -> 0..1]
      /\ \A x \in K : DeliveryShape(x)
  BY DEF WebhooksInv, WebhooksTypeOK, DeliveryRecords
<1> HIDE DEF K
<1>2. /\ dlv' \in [K -> DeliveryRecords] /\ dlv'[k] = new
      /\ arrived' \in [K -> 0..1] /\ arrived'[k] = got
      /\ \A x \in K \ {k} : dlv'[x] = dlv[x] /\ arrived'[x] = arrived[x]
  BY <1>1 DEF K
<1>3. ~(k[1] > published)
  BY <1>1 DEF DeliveryShape, K
<1>4. \A x \in K : DeliveryShape(x)'
  BY <1>1, <1>2, <1>3 DEF DeliveryShape
<1>5. WebhooksTypeOK'
  BY <1>2 DEF WebhooksInv, WebhooksTypeOK, DeliveryRecords, K, HookEvents
<1> QED  BY <1>4, <1>5 DEF WebhooksInv, K, HookEvents

\* Every step of a delivery keeps the shape of all of them.
LEMMA WebhooksStep == WebhooksInv /\ [WebhooksNext]_hookVars => WebhooksInv'
<1> SUFFICES ASSUME WebhooksInv, [WebhooksNext]_hookVars
             PROVE  WebhooksInv'
  OBVIOUS
<1> DEFINE K == HookEvents \X Subscriptions
<1>0. /\ dlv \in [K -> DeliveryRecords] /\ arrived \in [K -> 0..1]
      /\ losses \in Nat /\ LossBound \in Nat /\ published \in Nat /\ PublishBound \in Nat
      /\ DOMAIN dlv = K
  BY WebhooksAssumption DEF WebhooksInv, WebhooksTypeOK, DeliveryRecords
<1>1. CASE UNCHANGED <<published, dlv, arrived>> /\ losses' = losses
           /\ sub' \in [Subscriptions -> {"none", "ACTIVE", "REVOKED"}]
           /\ revoked' \subseteq Subscriptions
  BY <1>1 DEF WebhooksInv, WebhooksTypeOK, DeliveryShape
<1>2. ASSUME NEW s \in Subscriptions, createSubscription(s) \/ RevokeRead(s) \/ revokeSubscription(s)
      PROVE  WebhooksInv'
  BY <1>1, <1>2 DEF createSubscription, RevokeRead, revokeSubscription, WebhooksInv, WebhooksTypeOK
<1>3. ASSUME NEW audience, Start(audience)
      PROVE  WebhooksInv'
  <2> DEFINE new == [NoDelivery EXCEPT !.at = "started"]
  <2>1. new \in DeliveryRecords /\ new.at = "started" /\ new.status = "none"
    BY DEF NoDelivery, DeliveryRecords
  <2>2. dlv' = [k \in K |-> IF k[1] = published + 1 /\ k[2] \in audience THEN new ELSE dlv[k]]
    BY <1>0, <1>3 DEF Start
  <2> HIDE DEF new
  <2>3. /\ published' = published + 1 /\ published < PublishBound
        /\ UNCHANGED <<sub, revoked, arrived, losses>>
    BY <1>3 DEF Start
  <2> HIDE DEF K
  <2>4. dlv' \in [K -> DeliveryRecords]
    BY <1>0, <2>1, <2>2
  <2>5. ASSUME NEW k \in K
        PROVE  DeliveryShape(k)'
    <3>1. DeliveryShape(k) /\ k[1] \in Nat
      BY WebhooksAssumption DEF WebhooksInv, K, HookEvents
    <3>2. CASE k[1] = published + 1 /\ k[2] \in audience
      <4>1. dlv'[k] = new
        BY <2>2, <3>2
      <4>2. arrived[k] = 0
        BY <1>0, <3>1, <3>2 DEF DeliveryShape
      <4> QED  BY <1>0, <2>1, <2>3, <3>1, <3>2, <4>1, <4>2 DEF DeliveryShape
    <3>3. CASE ~(k[1] = published + 1 /\ k[2] \in audience)
      <4>1. dlv'[k] = dlv[k]
        BY <2>2, <3>3
      <4> QED  BY <1>0, <2>3, <3>1, <4>1 DEF DeliveryShape
    <3> QED  BY <3>2, <3>3
  <2>6. WebhooksTypeOK'
    BY <1>0, <2>3, <2>4 DEF WebhooksInv, WebhooksTypeOK, DeliveryRecords, K, HookEvents
  <2> QED  BY <2>5, <2>6 DEF WebhooksInv, K, HookEvents
<1>4. ASSUME NEW k \in K, \/ Persist(k) \/ PersistFails(k) \/ Post(k) \/ RecordAnswer(k)
                          \/ RecordFails(k) \/ Crash(k)
      PROVE  WebhooksInv'
  <2>0. dlv[k] \in DeliveryRecords /\ DeliveryShape(k) /\ arrived[k] \in 0..1
        /\ arrived = [arrived EXCEPT ![k] = arrived[k]]
    BY <1>0 DEF WebhooksInv
  <2>1. losses' \in 0..LossBound
    BY <1>0, <1>4 DEF Persist, PersistFails, Post, RecordAnswer, RecordFails, Crash, WebhooksInv,
                      WebhooksTypeOK
  <2>2. UNCHANGED <<sub, revoked, published>> /\ dlv[k].at # "none"
    BY <1>4 DEF Persist, PersistFails, Post, RecordAnswer, RecordFails, Crash
  <2>3. CASE Persist(k)
    <3> DEFINE new == [dlv[k] EXCEPT !.at = "persisted", !.status = "PENDING"]
    <3>1. new \in DeliveryRecords /\ new.at = "persisted" /\ new.status = "PENDING"
      BY <2>0 DEF DeliveryRecords
    <3>2. dlv' = [dlv EXCEPT ![k] = new] /\ arrived[k] = 0 /\ UNCHANGED arrived
      BY <2>0, <2>3 DEF Persist, DeliveryShape
    <3> HIDE DEF new
    <3> QED  BY <2>0, <2>1, <2>2, <3>1, <3>2, DeliveryKeeps
  <2>4. CASE PersistFails(k)
    <3> DEFINE new == [dlv[k] EXCEPT !.at = "ended"]
    <3>1. new \in DeliveryRecords /\ new.at = "ended" /\ new.status = "none"
      BY <2>0, <2>4 DEF DeliveryRecords, PersistFails, DeliveryShape
    <3>2. dlv' = [dlv EXCEPT ![k] = new] /\ arrived[k] = 0 /\ UNCHANGED arrived
      BY <2>0, <2>4 DEF PersistFails, DeliveryShape
    <3> HIDE DEF new
    <3> QED  BY <2>0, <2>1, <2>2, <3>1, <3>2, DeliveryKeeps
  <2>5. CASE Post(k)
    <3>0. arrived[k] = 0
      BY <2>0, <2>5 DEF Post, DeliveryShape
    <3> PICK answer \in {"ok", "bad", "timeout"} :
          \E got \in IF answer = "timeout" THEN {0, 1} ELSE {1} :
             /\ dlv' = [dlv EXCEPT ![k].at = "posted", ![k].answer = answer]
             /\ arrived' = [arrived EXCEPT ![k] = @ + got]
      BY <2>5 DEF Post
    <3> PICK got \in IF answer = "timeout" THEN {0, 1} ELSE {1} :
          /\ dlv' = [dlv EXCEPT ![k].at = "posted", ![k].answer = answer]
          /\ arrived' = [arrived EXCEPT ![k] = @ + got]
      OBVIOUS
    <3> DEFINE new == [dlv[k] EXCEPT !.at = "posted", !.answer = answer]
    <3>1. /\ new \in DeliveryRecords /\ new.at = "posted" /\ new.status = "PENDING"
          /\ new.answer = answer
      BY <2>0, <2>5 DEF DeliveryRecords, Post, DeliveryShape
    <3>2. dlv' = [dlv EXCEPT ![k] = new]
      BY <2>0
    <3>3. got \in 0..1 /\ (answer = "ok" => got = 1) /\ 0 + got = got
      BY SMT
    <3> HIDE DEF new
    <3>4. arrived' = [arrived EXCEPT ![k] = got]
      BY <3>0, <3>3
    <3> QED  BY <2>0, <2>1, <2>2, <3>1, <3>2, <3>3, <3>4, DeliveryKeeps
  <2>6. CASE RecordAnswer(k) \/ RecordFails(k)
    <3> PICK status \in {"SUCCEEDED", "FAILED"} :
          /\ dlv' = [dlv EXCEPT ![k].at = "ended", ![k].status = status]
          /\ status = "SUCCEEDED" => dlv[k].answer = "ok"
      BY <2>6 DEF RecordAnswer, RecordFails
    <3> DEFINE new == [dlv[k] EXCEPT !.at = "ended", !.status = status]
    <3>1. new \in DeliveryRecords /\ new.at = "ended" /\ new.status = status
      BY <2>0 DEF DeliveryRecords
    <3>2. dlv' = [dlv EXCEPT ![k] = new] /\ UNCHANGED arrived
          /\ (status = "SUCCEEDED" => arrived[k] = 1)
      BY <2>0, <2>6 DEF RecordAnswer, RecordFails, DeliveryShape
    <3> HIDE DEF new
    <3> QED  BY <2>0, <2>1, <2>2, <3>1, <3>2, DeliveryKeeps
  <2>7. CASE Crash(k)
    <3> DEFINE new == [dlv[k] EXCEPT !.at = "lost"]
    <3>1. new \in DeliveryRecords /\ new.at = "lost" /\ new.status = dlv[k].status
      BY <2>0 DEF DeliveryRecords
    <3>2. dlv' = [dlv EXCEPT ![k] = new] /\ UNCHANGED arrived
          /\ dlv[k].status \in {"none", "PENDING"}
      BY <2>0, <2>7 DEF Crash, DeliveryShape
    <3> HIDE DEF new
    <3> QED  BY <2>0, <2>1, <2>2, <3>1, <3>2, DeliveryKeeps DEF DeliveryShape
  <2> QED  BY <1>4, <2>3, <2>4, <2>5, <2>6, <2>7
<1>5. CASE UNCHANGED hookVars
  BY <1>1, <1>5 DEF hookVars, WebhooksInv, WebhooksTypeOK
<1> QED  BY <1>0, <1>2, <1>3, <1>4, <1>5 DEF WebhooksNext, publish, broadcastPublic

\* What reached a partner is on record, a delivery that says SUCCEEDED was received,
\* and PENDING is left behind by a crash only (deliver, which never retries).
THEOREM DeliveriesAreOnRecord == WebhooksSpec => []DeliveriesOnRecord
<1>1. WebhooksInv => DeliveriesOnRecord
  <2> SUFFICES ASSUME WebhooksInv, NEW k \in HookEvents \X Subscriptions
               PROVE  /\ arrived[k] > 0 => dlv[k].status # "none"
                      /\ dlv[k].status = "SUCCEEDED" => arrived[k] = 1
                      /\ dlv[k].status = "PENDING" => dlv[k].at \in {"persisted", "posted", "lost"}
    BY DEF DeliveriesOnRecord, WebhooksInv, WebhooksTypeOK
  <2>1. DeliveryShape(k) /\ dlv[k] \in DeliveryRecords
    BY DEF WebhooksInv, WebhooksTypeOK, DeliveryRecords
  <2> QED  BY <2>1 DEF DeliveryShape, DeliveryRecords
<1> QED  BY <1>1, InitWebhooksInv, WebhooksStep, PTL DEF WebhooksSpec

-----------------------------------------------------------------------------
(* The cached reads of the public. *)

\* A stale answer was right when its time to live began: what is left of it and the
\* age of the change stay within one time to live; and no query spans a tick.
AgesAddUp ==
    /\ \A n \in Nodes : Stale(n) => age + store[n].left <= TTL
    /\ \A n \in Nodes : fill[n] # NoFill /\ fill[n].lists # Visible => age = 0

\* Nothing cached and nothing in progress.
LEMMA InitReads == ReadsInit => ReadsTypeOK /\ AgesAddUp /\ StaleOnlyInTransit
<1> SUFFICES ASSUME ReadsInit PROVE ReadsTypeOK /\ AgesAddUp /\ StaleOnlyInTransit
  OBVIOUS
<1>1. ReadsTypeOK
  BY ReadsAssumption DEF ReadsInit, ReadsTypeOK, RegistryMoves, ALERT_TRANSITIONS
<1>2. AgesAddUp /\ StaleOnlyInTransit
  BY DEF ReadsInit, AgesAddUp, StaleOnlyInTransit, Stale
<1> QED  BY <1>1, <1>2

\* What the types of the variables say of one node and one writer.
LEMMA ReadsTypes ==
    ASSUME ReadsTypeOK
    PROVE  /\ \A n \in Nodes : store[n] # Miss => store[n] \in Entries
           /\ \A n \in Nodes : fill[n] # NoFill => fill[n] \in Fills
           /\ \A w \in Writers : writer[w] # NoWriter =>
                 writer[w] \in WriterRecords /\ writer[w].to \in DOMAIN Moves
           /\ age \in Nat /\ TTL \in Nat /\ changes \in Nat /\ ChangeBound \in Nat
           /\ Visible \in BOOLEAN
  BY ReadsAssumption DEF ReadsTypeOK, Visible, Lapsed

\* A status the code moves to is a status of that kind of item.
LEMMA MovesStay == ReadsTypeOK => \A to \in Moves[item.status] : to \in DOMAIN Moves
  BY DEF ReadsTypeOK, Moves, RegistryMoves, ALERT_TRANSITIONS

\* Each action keeps the types.
LEMMA ReadsTypeStep == ReadsTypeOK /\ [ReadsNext]_readsVars => ReadsTypeOK'
<1> SUFFICES ASSUME ReadsTypeOK, [ReadsNext]_readsVars
             PROVE  ReadsTypeOK'
  OBVIOUS
<1> USE ReadsTypes, ReadsAssumption
<1>1. ASSUME NEW n \in Nodes, ReadRows(n)
      PROVE  ReadsTypeOK'
  <2>1. [lists |-> Visible] \in Fills
    BY DEF Fills
  <2> QED  BY <1>1, <2>1 DEF ReadRows, ReadsTypeOK, Moves
<1>2. ASSUME NEW n \in Nodes, set(n)
      PROVE  ReadsTypeOK'
  <2>1. [lists |-> fill[n].lists, left |-> TTL] \in Entries
    BY <1>2 DEF set, Fills, Entries
  <2> QED  BY <1>2, <2>1 DEF set, ReadsTypeOK, Moves
<1>3. ASSUME NEW n \in Nodes, Evict(n)
      PROVE  ReadsTypeOK'
  BY <1>3 DEF Evict, ReadsTypeOK, Moves
<1>4. ASSUME NEW w \in Writers, NEW n \in Nodes, NEW to \in Moves[item.status], CheckStatus(w, n, to)
      PROVE  ReadsTypeOK'
  <2> DEFINE new == [at |-> "checked", node |-> n, to |-> to]
  <2>1. to \in DOMAIN Moves /\ new.to = to /\ Moves' = Moves
    BY <1>4, MovesStay DEF CheckStatus, Moves
  <2>2. new \in WriterRecords
    BY <2>1 DEF WriterRecords, Moves, RegistryMoves, ALERT_TRANSITIONS
  <2>3. writer' = [writer EXCEPT ![w] = new] /\ changes' \in 0..ChangeBound
    BY <1>4 DEF CheckStatus
  <2> HIDE DEF new
  <2>4. writer' \in [Writers -> WriterRecords \union {NoWriter}]
    BY <2>2, <2>3 DEF ReadsTypeOK
  <2>5. \A x \in Writers : writer'[x] # NoWriter => writer'[x].to \in DOMAIN Moves
    BY <2>1, <2>3 DEF ReadsTypeOK
  <2> QED  BY <1>4, <2>1, <2>3, <2>4, <2>5 DEF CheckStatus, ReadsTypeOK
<1>5. ASSUME NEW w \in Writers, NEW new \in WriterRecords, writer[w] # NoWriter, new.to = writer[w].to,
             writer' = [writer EXCEPT ![w] = new],
             item' = item \/ item' = [item EXCEPT !.status = writer[w].to],
             expiresIn' \in {expiresIn} \union (IF item.kind = "alert" THEN {0} ELSE {}),
             UNCHANGED <<store, fill, bus, changes, excused>>, age' \in {0, age}
      PROVE  ReadsTypeOK'
  <2>1. writer[w].to \in DOMAIN Moves /\ Moves' = Moves
    BY <1>5 DEF ReadsTypeOK, Moves
  <2>2. item' \in [kind: {"registry"}, status: DOMAIN RegistryMoves]
                  \union [kind: {"alert"}, status: DOMAIN ALERT_TRANSITIONS]
    BY <1>5, <2>1 DEF ReadsTypeOK, Moves, RegistryMoves, ALERT_TRANSITIONS
  <2>3. writer' \in [Writers -> WriterRecords \union {NoWriter}]
    BY <1>5 DEF ReadsTypeOK
  <2>4. \A x \in Writers : writer'[x] # NoWriter => writer'[x].to \in DOMAIN Moves
    BY <1>5, <2>1 DEF ReadsTypeOK
  <2> QED  BY <1>5, <2>1, <2>2, <2>3, <2>4 DEF ReadsTypeOK
<1>6. ASSUME NEW w \in Writers, UpdateStatus(w) \/ AppendEvent(w)
      PROVE  ReadsTypeOK'
  <2> PICK at \in {"written", "logged"} : writer' = [writer EXCEPT ![w].at = at]
    BY <1>6 DEF UpdateStatus, AppendEvent
  <2>0. writer[w] \in WriterRecords /\ writer[w] # NoWriter
    BY <1>6 DEF UpdateStatus, AppendEvent
  <2> DEFINE new == [writer[w] EXCEPT !.at = at]
  <2>1. new \in WriterRecords /\ new.to = writer[w].to
    BY <2>0 DEF WriterRecords
  <2>2. writer' = [writer EXCEPT ![w] = new]
    OBVIOUS
  <2>3. /\ item' = item \/ item' = [item EXCEPT !.status = writer[w].to]
        /\ UNCHANGED <<store, fill, bus, changes, excused>> /\ age' \in {0, age}
    BY <1>6 DEF UpdateStatus, AppendEvent
  <2>4. expiresIn' \in {expiresIn} \union (IF item.kind = "alert" THEN {0} ELSE {})
    BY <1>6 DEF UpdateStatus, AppendEvent, ReadsTypeOK, Moves, RegistryMoves
  <2> HIDE DEF new
  <2> QED  BY <1>5, <2>0, <2>1, <2>2, <2>3, <2>4
<1>7. ASSUME NEW w \in Writers, FailWriter(w)
      PROVE  ReadsTypeOK'
  BY <1>7 DEF FailWriter, ReadsTypeOK, Moves
<1>8. ASSUME NEW w \in Writers, deletePrefix(w)
      PROVE  ReadsTypeOK'
  <2>1. writer[w].node \in Nodes
    BY <1>8 DEF deletePrefix, WriterRecords
  <2>2. [from: {HostOf[writer[w].node]}, to: Nodes] \subseteq [from: Hosts, to: Nodes]
    BY <2>1
  <2> QED  BY <1>8, <2>1, <2>2 DEF deletePrefix, ReadsTypeOK, Moves
<1>9. ASSUME NEW m \in bus, onMessage(m) \/ LoseMessage(m)
      PROVE  ReadsTypeOK'
  <2>1. m.to \in Nodes
    BY DEF ReadsTypeOK
  <2> QED  BY <1>9, <2>1 DEF onMessage, LoseMessage, ReadsTypeOK, Moves
<1>10. ASSUME Tick
       PROVE  ReadsTypeOK'
  <2>1. ASSUME NEW n \in Nodes, store[n] # Miss, store[n].left # 0
        PROVE  [store[n] EXCEPT !.left = @ - 1] \in Entries
    BY <2>1 DEF Entries
  <2>2. store' \in [Nodes -> Entries \union {Miss}]
    BY <1>10, <2>1 DEF Tick, Expired
  <2>3. age' \in 0..(TTL + 1)
    BY <1>10 DEF Tick, ReadsTypeOK
  <2>4. expiresIn' \in 0..ExpiryBound \union {NoExpiry} /\ (expiresIn = NoExpiry => expiresIn' = NoExpiry)
    BY <1>10 DEF Tick, ReadsTypeOK
  <2> QED  BY <1>10, <2>2, <2>3, <2>4 DEF Tick, ReadsTypeOK, Moves
<1>11. CASE UNCHANGED readsVars
  BY <1>11 DEF readsVars, ReadsTypeOK, Moves
<1> QED  BY <1>1, <1>2, <1>3, <1>4, <1>6, <1>7, <1>8, <1>9, <1>10, <1>11
         DEF ReadsNext, search, listPublic

\* Each action keeps the ages within one time to live.
LEMMA AgesStep == ReadsTypeOK /\ AgesAddUp /\ [ReadsNext]_readsVars => AgesAddUp'
<1> SUFFICES ASSUME ReadsTypeOK, AgesAddUp, [ReadsNext]_readsVars
             PROVE  AgesAddUp'
  OBVIOUS
<1> USE ReadsTypes, ReadsAssumption
<1>0. /\ \A n \in Nodes : store[n] # Miss => store[n].left \in 0..TTL
      /\ store \in [Nodes -> Entries \union {Miss}] /\ fill \in [Nodes -> Fills \union {NoFill}]
  BY DEF Entries, ReadsTypeOK
<1>1. CASE UNCHANGED <<item, expiresIn, age>>
           /\ (\A n \in Nodes : store'[n] = store[n] \/ store'[n] = Miss)
           /\ (\A n \in Nodes : fill'[n] = fill[n] \/ fill'[n] = NoFill)
  BY <1>1 DEF AgesAddUp, Stale, Visible, Lapsed
<1>2. ASSUME NEW n \in Nodes, ReadRows(n)
      PROVE  AgesAddUp'
  <2>1. \A x \in Nodes : fill'[x] = fill[x] \/ fill'[x].lists = Visible
    BY <1>0, <1>2 DEF ReadRows
  <2> QED  BY <1>2, <2>1 DEF ReadRows, AgesAddUp, Stale, Visible, Lapsed
<1>3. ASSUME NEW n \in Nodes, set(n)
      PROVE  AgesAddUp'
  <2> DEFINE new == [lists |-> fill[n].lists, left |-> TTL]
  <2>1. new.left = TTL /\ new.lists = fill[n].lists
    OBVIOUS
  <2>2. store' = [store EXCEPT ![n] = new] /\ fill' = [fill EXCEPT ![n] = NoFill]
    BY <1>3 DEF set
  <2>3. UNCHANGED <<item, expiresIn, age>> /\ fill[n] # NoFill
    BY <1>3 DEF set
  <2> HIDE DEF new
  <2>4. /\ store'[n] = new /\ \A x \in Nodes \ {n} : store'[x] = store[x]
        /\ \A x \in Nodes : fill'[x] = fill[x] \/ fill'[x] = NoFill
    BY <1>0, <2>2
  <2>5. Visible' = Visible
    BY <2>3 DEF Visible, Lapsed
  <2>6. new.lists # Visible => age = 0
    BY <2>1, <2>3 DEF AgesAddUp
  <2>7. ASSUME NEW x \in Nodes, Stale(x)'
        PROVE  age' + store'[x].left <= TTL
    <3>1. CASE x = n
      BY <2>1, <2>3, <2>4, <2>5, <2>6, <2>7, <3>1 DEF Stale
    <3>2. CASE x # n
      BY <2>3, <2>4, <2>5, <2>7, <3>2 DEF Stale, AgesAddUp
    <3> QED  BY <3>1, <3>2
  <2> QED  BY <2>3, <2>4, <2>5, <2>7 DEF AgesAddUp
<1>4. ASSUME NEW w \in Writers, UpdateStatus(w)
      PROVE  AgesAddUp'
  <2>1. UNCHANGED <<store, fill>> /\ age' = IF Visible' = Visible THEN age ELSE 0
    BY <1>4 DEF UpdateStatus
  <2>2. CASE Visible' = Visible
    BY <2>1, <2>2 DEF AgesAddUp, Stale
  <2>3. CASE Visible' # Visible
    BY <1>0, <2>1, <2>3 DEF AgesAddUp, Stale
  <2> QED  BY <2>2, <2>3
<1>5. ASSUME Tick
      PROVE  AgesAddUp'
  <2>1. /\ UNCHANGED fill /\ \A n \in Nodes : fill[n] = NoFill
        /\ age' = IF Visible' # Visible THEN 0 ELSE IF age > TTL THEN age ELSE age + 1
    BY <1>5 DEF Tick
  <2>2. ASSUME NEW n \in Nodes, store'[n] # Miss
        PROVE  /\ store[n] # Miss /\ store[n].left \in 1..TTL /\ store'[n].left = store[n].left - 1
               /\ store'[n].lists = store[n].lists
    BY <1>0, <1>5, <2>2 DEF Tick, Expired, Entries
  <2>3. ASSUME NEW n \in Nodes, Stale(n)'
        PROVE  age' + store'[n].left <= TTL
    <3>1. store'[n].left = store[n].left - 1 /\ store[n].left \in 1..TTL
      BY <2>2, <2>3 DEF Stale
    <3>2. CASE Visible' # Visible
      BY <2>1, <3>1, <3>2
    <3>3. CASE Visible' = Visible
      <4>1. age + store[n].left <= TTL
        BY <2>2, <2>3, <3>3 DEF Stale, AgesAddUp
      <4> QED  BY <2>1, <3>1, <3>3, <4>1
    <3> QED  BY <3>2, <3>3
  <2> QED  BY <2>1, <2>3 DEF AgesAddUp
<1>6. ASSUME NEW m \in bus, onMessage(m)
      PROVE  AgesAddUp'
  BY <1>0, <1>1, <1>6 DEF onMessage
<1>7. CASE UNCHANGED readsVars
  BY <1>1, <1>7 DEF readsVars
<1>8. ASSUME NEW n \in Nodes, Evict(n)
      PROVE  AgesAddUp'
  BY <1>0, <1>1, <1>8 DEF Evict
<1>9. ASSUME NEW w \in Writers, deletePrefix(w)
      PROVE  AgesAddUp'
  BY <1>0, <1>1, <1>9 DEF deletePrefix
<1>10. ASSUME NEW w \in Writers, AppendEvent(w) \/ FailWriter(w)
                                 \/ \E n \in Nodes : \E to \in Moves[item.status] : CheckStatus(w, n, to)
       PROVE  AgesAddUp'
  BY <1>1, <1>10 DEF AppendEvent, FailWriter, CheckStatus
<1>11. ASSUME NEW m \in bus, LoseMessage(m)
       PROVE  AgesAddUp'
  BY <1>1, <1>11 DEF LoseMessage
<1> QED  BY <1>2, <1>3, <1>4, <1>5, <1>6, <1>7, <1>8, <1>9, <1>10, <1>11
         DEF ReadsNext, search, listPublic

\* Each action keeps a stale node waiting for an invalidation, where no two processes
\* have the same HOSTNAME.
LEMMA TransitStep ==
    ASSUME \A a, b \in Nodes : HostOf[a] = HostOf[b] => a = b,
           ReadsTypeOK, StaleOnlyInTransit, [ReadsNext]_readsVars
    PROVE  StaleOnlyInTransit'
<1> USE ReadsTypes, ReadsAssumption
<1> DEFINE Coming(n) == \/ \E w \in Writers : writer[w] # NoWriter /\ writer[w].at # "checked"
                        \/ \E m \in bus : m.to = n /\ m.from # HostOf[n]
                        \/ Lapsed /\ store[n].lists /\ store[n].left < TTL
<1>0. /\ \A n \in Nodes : Stale(n) /\ n \notin excused => Coming(n)
      /\ store \in [Nodes -> Entries \union {Miss}]
      /\ writer \in [Writers -> WriterRecords \union {NoWriter}]
  BY DEF StaleOnlyInTransit, ReadsTypeOK
<1>1. SUFFICES ASSUME NEW n \in Nodes, Stale(n)', n \notin excused' PROVE Coming(n)'
  BY DEF StaleOnlyInTransit
<1>2. CASE UNCHANGED <<item, expiresIn, writer, bus>> /\ (Stale(n) /\ n \in excused => n \in excused')
           /\ (store'[n] = store[n] \/ store'[n] = Miss)
  BY <1>0, <1>1, <1>2 DEF Stale, Visible, Lapsed
<1>3. ASSUME NEW x \in Nodes, set(x)
      PROVE  Coming(n)'
  <2>1. CASE x = n
    <3>1. store'[n].lists = fill[n].lists /\ UNCHANGED <<item, expiresIn>>
      BY <1>0, <1>3, <2>1 DEF set
    <3>2. fill[n].lists # Visible
      BY <1>1, <3>1 DEF Stale, Visible, Lapsed
    <3> QED  BY <1>1, <1>3, <2>1, <3>2 DEF set
  <2>2. CASE x # n
    BY <1>0, <1>2, <1>3, <2>2 DEF set
  <2> QED  BY <2>1, <2>2
<1>4. ASSUME NEW w \in Writers, UpdateStatus(w) \/ AppendEvent(w)
      PROVE  Coming(n)'
  <2> PICK at \in {"written", "logged"} : writer' = [writer EXCEPT ![w].at = at]
    BY <1>4 DEF UpdateStatus, AppendEvent
  <2> DEFINE new == [writer[w] EXCEPT !.at = at]
  <2>1. new \in WriterRecords /\ new.at # "checked"
    BY <1>4 DEF UpdateStatus, AppendEvent, WriterRecords
  <2>2. writer' = [writer EXCEPT ![w] = new]
    OBVIOUS
  <2> HIDE DEF new
  <2>3. writer'[w] # NoWriter /\ writer'[w].at # "checked"
    BY <1>0, <2>1, <2>2, NoneAssumption
  <2> QED  BY <2>3
<1>5. ASSUME NEW w \in Writers, NEW x \in Nodes, NEW to \in Moves[item.status], CheckStatus(w, x, to)
      PROVE  Coming(n)'
  <2>1. /\ writer[w] = NoWriter /\ \A y \in Writers \ {w} : writer'[y] = writer[y]
        /\ UNCHANGED <<item, expiresIn, store, bus, excused>>
    BY <1>0, <1>5 DEF CheckStatus
  <2> QED  BY <1>0, <1>1, <2>1 DEF Stale, Visible, Lapsed
<1>6. ASSUME NEW w \in Writers, FailWriter(w)
      PROVE  Coming(n)'
  <2>1. /\ writer[w].at = "checked" /\ \A y \in Writers \ {w} : writer'[y] = writer[y]
        /\ UNCHANGED <<item, expiresIn, store, bus, excused>>
    BY <1>0, <1>1, <1>6 DEF FailWriter
  <2> QED  BY <1>0, <1>1, <2>1 DEF Stale, Visible, Lapsed
<1>7. ASSUME NEW w \in Writers, deletePrefix(w)
      PROVE  Coming(n)'
  <2> DEFINE h == writer[w].node
             m == [from |-> HostOf[h], to |-> n]
  <2>1. h \in Nodes /\ store' = [store EXCEPT ![h] = Miss]
        /\ bus' = bus \union [from: {HostOf[h]}, to: Nodes]
    BY <1>7 DEF deletePrefix, WriterRecords
  <2>2. n # h
    BY <1>0, <1>1, <2>1 DEF Stale
  <2>3. m \in bus' /\ m.to = n /\ m.from # HostOf[n]
    BY <2>1, <2>2
  <2> QED  BY <2>3
<1>8. ASSUME NEW m \in bus, onMessage(m)
      PROVE  Coming(n)'
  <2>1. m.to \in Nodes /\ UNCHANGED <<item, expiresIn, writer, excused>> /\ bus' = bus \ {m}
        /\ store' = IF m.from = HostOf[m.to] THEN store ELSE [store EXCEPT ![m.to] = Miss]
    BY <1>8 DEF onMessage, ReadsTypeOK
  <2>2. store'[n] = store[n] /\ ~(m.to = n /\ m.from # HostOf[n])
    BY <1>0, <1>1, <2>1 DEF Stale
  <2> QED  BY <1>0, <1>1, <2>1, <2>2 DEF Stale, Visible, Lapsed
<1>9. ASSUME NEW m \in bus, LoseMessage(m)
      PROVE  Coming(n)'
  <2>1. UNCHANGED <<item, expiresIn, store, writer>> /\ bus' = bus \ {m} /\ excused' = excused \union {m.to}
    BY <1>9 DEF LoseMessage
  <2> QED  BY <1>0, <1>1, <2>1 DEF Stale, Visible, Lapsed
<1>10. ASSUME Tick
       PROVE  Coming(n)'
  <2>1. /\ store[n] # Miss /\ store'[n].lists = store[n].lists /\ store[n].lists \in BOOLEAN
        /\ store[n].left \in 1..TTL /\ store'[n].left = store[n].left - 1
        /\ UNCHANGED <<item, writer, bus, excused>>
    BY <1>0, <1>1, <1>10 DEF Tick, Expired, Stale, Entries
  <2>2. expiresIn' = expiresIn \/ (expiresIn # 0 /\ expiresIn \in Nat)
    BY <1>10 DEF Tick
  <2>3. CASE Lapsed'
    BY <1>1, <2>1, <2>3 DEF Stale, Visible
  <2>4. CASE ~Lapsed'
    <3>1. ~Lapsed /\ Visible' = Visible
      BY <1>10, <2>1, <2>4, ReadsTypes DEF Tick, Lapsed, Visible, ReadsTypeOK
    <3> QED  BY <1>0, <1>1, <2>1, <2>4, <3>1 DEF Stale
  <2> QED  BY <2>3, <2>4
<1>11. ASSUME NEW x \in Nodes, ReadRows(x) \/ Evict(x)
       PROVE  Coming(n)'
  BY <1>0, <1>2, <1>11 DEF ReadRows, Evict
<1>12. CASE UNCHANGED readsVars
  BY <1>2, <1>12 DEF readsVars
<1> HIDE DEF Coming
<1> QED  BY <1>3, <1>4, <1>5, <1>6, <1>7, <1>8, <1>9, <1>10, <1>11, <1>12
         DEF ReadsNext, search, listPublic

\* Whatever messages are lost and whatever handlers die before they invalidate, no
\* node shows what was withdrawn or has expired, or hides what is published and has not,
\* for longer than the time to live of a cached answer (cache.service.ts get, set,
\* public-alert.service.ts listPublic).
THEOREM StalenessIsBounded == ReadsSpec => []StalenessBounded
<1>1. ReadsTypeOK /\ AgesAddUp => StalenessBounded
  <2> SUFFICES ASSUME ReadsTypeOK, AgesAddUp, NEW n \in Nodes, Stale(n)
               PROVE  age <= TTL
    BY DEF StalenessBounded
  <2>1. store[n].left \in Nat /\ age + store[n].left <= TTL /\ age \in Nat /\ TTL \in Nat
    BY ReadsTypes DEF Stale, AgesAddUp, Entries
  <2> QED  BY <2>1
<1> QED  BY <1>1, InitReads, ReadsTypeStep, AgesStep, PTL DEF ReadsSpec

\* Where each process has a HOSTNAME of its own, what the public reads is moreover
\* behind only while the change is being made, its message is under way, or one was
\* lost, a handler died or a query crossed the change (cache-invalidation-bus.ts), or
\* where an answer stored before an alert's expiresAt has outlived it (listPublic).
THEOREM PublicReadsAreFresh ==
    ASSUME \A a, b \in Nodes : HostOf[a] = HostOf[b] => a = b
    PROVE  ReadsSpec => []ReadsFresh
<1>1. ReadsTypeOK /\ StaleOnlyInTransit /\ [ReadsNext]_readsVars => StaleOnlyInTransit'
  BY TransitStep
<1> QED  BY <1>1, StalenessIsBounded, InitReads, ReadsTypeStep, PTL DEF ReadsSpec, ReadsFresh

-----------------------------------------------------------------------------
(* The evidence files and export bundles of an event. *)

\* File and bundle ids are given out one after another, and a hold is changed on a
\* file that exists.
IdsInOrder ==
    /\ Rows = 1..Cardinality(Rows)
    /\ DOMAIN bundle = 1..Cardinality(DOMAIN bundle) /\ Cardinality(DOMAIN bundle) \in Nat
    /\ \A t \in Tasks : task[t] \in HoldTasks => task[t].holds \in Rows

FilesTypeInv == FilesTypeOK /\ IdsInOrder

\* The bytes stored once under a name are those of the row, or of the upload that is
\* about to create it.
BytesKept ==
    azure.blob =>
        /\ \A f \in Rows : /\ stored[file[f].name] # 0
                           /\ stored[file[f].name] < 2 => blob[file[f].name] = file[f].sha256
        /\ \A t \in Tasks : TaskAt(t, "stored") =>
              /\ stored[task[t].name] # 0
              /\ stored[task[t].name] < 2 => blob[task[t].name] = task[t].bytes

\* A custody event is written or its task is about to write it.
Accounted(e) == e \in custody \/ \E t \in Tasks : TaskAt(t, "log") /\ task[t].event = e

CustodyFollows ==
    ~failed => /\ \A f \in Rows : Accounted(<<"UPLOADED", f>>)
               /\ \A k \in DOMAIN bundle : Accounted(<<"PERSISTED", k>>)

\* Without overlap one task at most changes a hold; the log agrees with the flag, or
\* that task has written the flag and is about to log it.
HoldFollows ==
    /\ \A f \in Files : holdLog[f] # "none" => f \in Rows
    /\ ~overlapped /\ ~failed =>
          /\ \A f \in Files : \A t, x \in Holding(f) : t = x
          /\ \A t \in Tasks : TaskAt(t, "holdlog") => file[task[t].holds].hold = task[t].hold
          /\ \A f \in Rows : \/ holdLog[f] = "none" \/ file[f].hold = (holdLog[f] = "SET")
                             \/ \E t \in Holding(f) : TaskAt(t, "holdlog")

\* What the stage of a task says of its record.
LEMMA TaskShape ==
    ASSUME NEW r \in TaskRecords
    PROVE  /\ r.at \in {"upload", "stored"} => r \in UploadTasks
           /\ r.at \in {"hold", "holdlog"} <=> r \in HoldTasks
           /\ "holds" \in DOMAIN r <=> r \in HoldTasks
           /\ r.at \in {"manifest", "bundle"} => r.left \in 1..ExportAttempts
           /\ r.at = "bundle" => r.manifest \in Manifests
           /\ r.at = "log" => r.event \in CustodyEvents
           /\ "left" \in DOMAIN r => r.left \in 1..ExportAttempts
<1>1. CASE r \in UploadTasks
  BY <1>1 DEF UploadTasks, HoldTasks
<1>2. CASE r \in LogTasks
  BY <1>2 DEF LogTasks, HoldTasks
<1>3. CASE r \in HoldTasks
  BY <1>3 DEF HoldTasks
<1>4. CASE r \in ExportTasks
  <2>1. r.left \in 1..ExportAttempts /\ r.at \in {"manifest", "bundle", "log"} /\ "holds" \notin DOMAIN r
    BY <1>4 DEF ExportTasks
  <2>2. r \notin HoldTasks
    BY <2>1 DEF HoldTasks
  <2>3. r.at = "bundle" => r.manifest \in Manifests
    BY <1>4 DEF ExportTasks
  <2>4. r.at = "log" => r.event \in CustodyEvents
    BY <1>4 DEF ExportTasks
  <2> QED  BY <2>1, <2>2, <2>3, <2>4
<1> QED  BY <1>1, <1>2, <1>3, <1>4 DEF TaskRecords

\* A new row gets the next id.
LEMMA NextId ==
    ASSUME NEW S, NEW T, NEW k, S = 1..Cardinality(S), Cardinality(S) \in Nat, k = Cardinality(S) + 1, T = S \union {k}
    PROVE  T = 1..Cardinality(T) /\ Cardinality(T) = k /\ k \notin S
<1>1. T = 1..k /\ k \in Nat /\ k \notin S
  OBVIOUS
<1>2. Cardinality(1..k) = k
  BY <1>1, FS_Interval
<1> QED  BY <1>1, <1>2

\* Files are finitely many.
LEMMA RowsCount == FilesTypeOK => Cardinality(Rows) \in Nat
<1> SUFFICES ASSUME FilesTypeOK PROVE Cardinality(Rows) \in Nat
  OBVIOUS
<1>1. IsFiniteSet(Files)
  BY FilesAssumption, FS_Interval DEF Files
<1>2. Rows \subseteq Files
  BY DEF Rows
<1> QED  BY <1>1, <1>2, FS_Subset, FS_CardinalityType

\* No file, bundle or request yet.
LEMMA InitFiles == FilesInit => FilesTypeInv /\ BytesKept /\ CustodyFollows /\ HoldFollows
<1> SUFFICES ASSUME FilesInit
             PROVE  FilesTypeInv /\ BytesKept /\ CustodyFollows /\ HoldFollows
  OBVIOUS
<1>1. Rows = {} /\ DOMAIN bundle = {} /\ \A t \in Tasks : task[t] = NoTask
  BY DEF FilesInit, Rows
<1>2. Cardinality({}) = 0 /\ 1..0 = {}
  BY FS_EmptySet
<1>3. FilesTypeOK
  <2>1. /\ blob \in [Names -> Bytes \union {NoBytes}] /\ stored \in [Names -> 0..2]
        /\ owner \in Owners \union {SystemOwned} /\ azure \in [blob: BOOLEAN, redis: BOOLEAN]
    BY DEF FilesInit
  <2>2. /\ file \in [Files -> FileRecords \union {NoFile}]
        /\ task \in [Tasks -> TaskRecords \union {NoTask}]
        /\ holdLog \in [Files -> {"none", "SET", "LIFTED"}]
    BY DEF FilesInit
  <2>3. begun = 0 /\ failed \in BOOLEAN /\ overlapped \in BOOLEAN
    BY DEF FilesInit
  <2>4. 0 \in 0..TaskBound
    BY FilesAssumption
  <2> QED  BY <1>1, <2>1, <2>2, <2>3, <2>4 DEF FilesTypeOK
<1>4. IdsInOrder
  BY <1>1, <1>2, NoRecordAssumption DEF IdsInOrder, TaskRecords
<1>5. BytesKept /\ CustodyFollows
  BY <1>1 DEF BytesKept, CustodyFollows, TaskAt
<1>6. HoldFollows
  BY <1>1 DEF FilesInit, HoldFollows, TaskAt, Holding
<1> QED  BY <1>3, <1>4, <1>5, <1>6 DEF FilesTypeInv

\* A task goes on, ends or begins, and the files and bundles stay: what is kept.
LEMMA TaskTypes ==
    ASSUME FilesTypeInv, NEW t \in Tasks, NEW r \in TaskRecords \union {NoTask},
           task' = [task EXCEPT ![t] = r], r \in HoldTasks => r.holds \in Rows,
           UNCHANGED <<owner, azure, file, bundle>>, begun' \in 0..TaskBound,
           blob' \in [Names -> Bytes \union {NoBytes}], stored' \in [Names -> 0..2],
           holdLog' \in [Files -> {"none", "SET", "LIFTED"}],
           failed' \in BOOLEAN, overlapped' \in BOOLEAN
    PROVE  FilesTypeInv'
<1>1. task' \in [Tasks -> TaskRecords \union {NoTask}]
  BY DEF FilesTypeInv, FilesTypeOK
<1>2. \A x \in Tasks : task'[x] = IF x = t THEN r ELSE task[x]
  BY DEF FilesTypeInv, FilesTypeOK
<1>3. Rows' = Rows
  BY DEF Rows
<1>4. FilesTypeOK'
  BY <1>1 DEF FilesTypeInv, FilesTypeOK
<1>5. IdsInOrder'
  BY <1>2, <1>3 DEF FilesTypeInv, IdsInOrder
<1> QED  BY <1>4, <1>5 DEF FilesTypeInv

\* A task of the action, and what it works on.
LEMMA TaskFacts ==
    ASSUME FilesTypeInv, NEW t \in Tasks
    PROVE  /\ task[t] \in TaskRecords \union {NoTask}
           /\ task[t] # NoTask => task[t] \in TaskRecords
           /\ task[t] \in HoldTasks => task[t].holds \in Rows
           /\ \A r : task' = [task EXCEPT ![t] = r] =>
                 task'[t] = r /\ \A x \in Tasks \ {t} : task'[x] = task[x]
           /\ begun \in 0..TaskBound /\ TaskBound \in Nat /\ Cardinality(Rows) \in Nat
           /\ failed \in BOOLEAN /\ overlapped \in BOOLEAN
           /\ Rows \subseteq Files /\ \A f \in Rows : file[f] \in FileRecords
           /\ file \in [Files -> FileRecords \union {NoFile}]
  BY FilesAssumption, RowsCount DEF FilesTypeInv, FilesTypeOK, IdsInOrder, Rows

\* The row of a file is created: its id is new, the other rows stay.
LEMMA CreateFileFacts ==
    ASSUME FilesTypeInv, NEW t \in Tasks, CreateFile(t)
    PROVE  \E f \in Files : LET row == [name |-> task[t].name, sha256 |-> task[t].bytes,
                                        hold |-> task[t].hold] IN
              /\ f \notin Rows /\ f = Cardinality(Rows) + 1
              /\ row \in FileRecords /\ file'[f] = row /\ Rows' = Rows \union {f}
              /\ file' \in [Files -> FileRecords \union {NoFile}]
              /\ \A x \in Files \ {f} : file'[x] = file[x]
              /\ task' = [task EXCEPT ![t] = [at |-> "log", event |-> <<"UPLOADED", f>>]]
              /\ [at |-> "log", event |-> <<"UPLOADED", f>>] \in LogTasks
<1> DEFINE row == [name |-> task[t].name, sha256 |-> task[t].bytes, hold |-> task[t].hold]
<1>1. task[t] \in UploadTasks
  BY TaskFacts, TaskShape DEF CreateFile, TaskAt
<1>2. row \in FileRecords
  BY <1>1 DEF UploadTasks, FileRecords
<1> DEFINE f == Cardinality(Rows) + 1
<1>3. /\ f \in Files /\ file' = [file EXCEPT ![f] = row]
      /\ task' = [task EXCEPT ![t] = [at |-> "log", event |-> <<"UPLOADED", f>>]]
  BY DEF CreateFile
<1> HIDE DEF row
<1>4. f \notin Rows /\ f \in Nat
  BY TaskFacts, NextId DEF FilesTypeInv, IdsInOrder
<1> HIDE DEF f
<1>5. /\ file' \in [Files -> FileRecords \union {NoFile}] /\ file'[f] = row
      /\ \A x \in Files \ {f} : file'[x] = file[x]
  BY <1>2, <1>3, TaskFacts
<1>6. Rows' = Rows \union {f}
  BY <1>2, <1>3, <1>5, NoRecordAssumption DEF Rows
<1>7. [at |-> "log", event |-> <<"UPLOADED", f>>] \in LogTasks
  BY <1>4 DEF LogTasks, CustodyEvents
<1> QED  BY <1>2, <1>3, <1>4, <1>5, <1>6, <1>7 DEF f, row

\* The same for a bundle.
LEMMA CreateBundleFacts ==
    ASSUME FilesTypeInv, NEW t \in Tasks, CreateBundle(t)
    PROVE  \E k \in Nat :
              /\ k = Cardinality(DOMAIN bundle) + 1
              /\ DOMAIN bundle' = DOMAIN bundle \union {k}
              /\ \A i \in DOMAIN bundle' : bundle'[i] \in Manifests
              /\ task' = [task EXCEPT ![t] = [at |-> "log", event |-> <<"PERSISTED", k>>,
                                              left |-> task[t].left]]
              /\ [at |-> "log", event |-> <<"PERSISTED", k>>, left |-> task[t].left] \in ExportTasks
<1> DEFINE k == Cardinality(DOMAIN bundle) + 1
<1>1. task[t].manifest \in Manifests /\ task[t].left \in 1..ExportAttempts
  BY TaskFacts, TaskShape DEF CreateBundle, TaskAt
<1>2. k \in Nat \ {0} /\ DOMAIN bundle = 1..(k - 1) /\ \A i \in DOMAIN bundle : bundle[i] \in Manifests
  BY DEF FilesTypeInv, FilesTypeOK, IdsInOrder
<1>3. /\ bundle' = [i \in 1..k |-> IF i = k THEN task[t].manifest ELSE bundle[i]]
      /\ task' = [task EXCEPT ![t] = [at |-> "log", event |-> <<"PERSISTED", k>>, left |-> @.left]]
  BY DEF CreateBundle
<1> HIDE DEF k
<1>4. /\ DOMAIN bundle' = DOMAIN bundle \union {k}
      /\ \A i \in DOMAIN bundle' : bundle'[i] \in Manifests
  <2>1. DOMAIN bundle' = 1..k
    BY <1>3
  <2>2. 1..k = 1..(k - 1) \union {k}
    BY <1>1, <1>2
  <2>3. ASSUME NEW i \in 1..k PROVE bundle'[i] \in Manifests
    <3>1. bundle'[i] = IF i = k THEN task[t].manifest ELSE bundle[i]
      BY <1>3
    <3>2. i # k => i \in DOMAIN bundle
      BY <1>2, <2>2
    <3> QED  BY <1>1, <1>2, <3>1, <3>2
  <2> QED  BY <1>2, <2>1, <2>2, <2>3
<1>5. [at |-> "log", event |-> <<"PERSISTED", k>>, left |-> task[t].left] \in ExportTasks
  BY <1>1, <1>2 DEF ExportTasks, CustodyEvents
<1>6. task' = [task EXCEPT ![t] = [at |-> "log", event |-> <<"PERSISTED", k>>, left |-> task[t].left]]
  BY <1>3
<1> QED  BY <1>2, <1>4, <1>5, <1>6 DEF k

\* A hold is set on the row of the file, and nothing else of it changes.
LEMMA SetHoldFacts ==
    ASSUME FilesTypeInv, NEW t \in Tasks, setLegalHold(t)
    PROVE  LET f == task[t].holds IN
              /\ task[t] \in HoldTasks /\ f \in Rows /\ Rows' = Rows
              /\ file' \in [Files -> FileRecords \union {NoFile}]
              /\ \A x \in Files \ {f} : file'[x] = file[x]
              /\ file'[f].hold = task[t].hold
              /\ file'[f].name = file[f].name /\ file'[f].sha256 = file[f].sha256
              /\ task' = [task EXCEPT ![t] = [at |-> "holdlog", holds |-> f, hold |-> task[t].hold]]
              /\ [at |-> "holdlog", holds |-> f, hold |-> task[t].hold] \in HoldTasks
<1> DEFINE f == task[t].holds
           row == [file[f] EXCEPT !.hold = task[t].hold]
           next == [at |-> "holdlog", holds |-> f, hold |-> task[t].hold]
<1>1. task[t] \in HoldTasks /\ f \in Rows /\ file[f] \in FileRecords /\ f \in Files
  BY TaskFacts, TaskShape DEF setLegalHold, TaskAt
<1>2. task[t].hold \in BOOLEAN /\ next \in HoldTasks /\ [task[t] EXCEPT !.at = "holdlog"] = next
  BY <1>1 DEF HoldTasks
<1>3. /\ row \in FileRecords /\ row.hold = task[t].hold
      /\ row.name = file[f].name /\ row.sha256 = file[f].sha256
  BY <1>1, <1>2 DEF FileRecords
<1>4. file' = [file EXCEPT ![f] = row] /\ task' = [task EXCEPT ![t] = next]
  BY <1>2 DEF setLegalHold, Goes
<1> HIDE DEF row, f
<1>5. /\ file' \in [Files -> FileRecords \union {NoFile}] /\ file'[f] = row
      /\ \A x \in Files \ {f} : file'[x] = file[x]
  BY <1>1, <1>3, <1>4, TaskFacts
<1>6. Rows' = Rows
  BY <1>1, <1>3, <1>5, NoRecordAssumption DEF Rows
<1> QED  BY <1>1, <1>2, <1>3, <1>4, <1>5, <1>6 DEF f

\* Each action keeps the types and the order of the ids.
LEMMA FilesTypeStep == FilesTypeInv /\ [FilesNext]_filesVars => FilesTypeInv'
<1> SUFFICES ASSUME FilesTypeInv, [FilesNext]_filesVars
             PROVE  FilesTypeInv'
  OBVIOUS
<1>0. /\ owner \in Owners \union {SystemOwned} /\ azure \in [blob: BOOLEAN, redis: BOOLEAN]
      /\ blob \in [Names -> Bytes \union {NoBytes}] /\ stored \in [Names -> 0..2]
      /\ holdLog \in [Files -> {"none", "SET", "LIFTED"}]
  BY DEF FilesTypeInv, FilesTypeOK
<1>1. CASE UNCHANGED filesVars
  <2>1. Rows' = Rows
    BY <1>1 DEF filesVars, Rows
  <2> QED  BY <1>1, <2>1 DEF filesVars, FilesTypeInv, FilesTypeOK, IdsInOrder
<1>2. ASSUME NEW t \in Tasks, NEW u \in Owners, NEW n \in Names, NEW b \in Bytes, NEW hold \in BOOLEAN,
             Upload(t, u, n, b, hold)
      PROVE  FilesTypeInv'
  <2> DEFINE r == [at |-> "upload", name |-> n, bytes |-> b, hold |-> hold]
  <2>1. r \in UploadTasks
    BY DEF UploadTasks
  <2>2. r \in TaskRecords /\ r \notin HoldTasks
    BY <2>1 DEF TaskRecords, HoldTasks
  <2>3. task' = [task EXCEPT ![t] = r] /\ begun' \in 0..TaskBound
    BY <1>2, TaskFacts DEF Upload, Begin
  <2> HIDE DEF r
  <2> QED  BY <1>0, <1>2, <2>2, <2>3, TaskTypes, TaskFacts DEF Upload
<1>3. ASSUME NEW t \in Tasks, NEW u \in Owners, generateShareLinks(t, u) \/ exportBundle(t, u)
      PROVE  FilesTypeInv'
  <2> PICK kind \in {"SHARED", "EXPORTED"} : Begin(t, u, [at |-> "log", event |-> <<kind, 0>>])
    BY <1>3 DEF generateShareLinks, exportBundle
  <2> DEFINE r == [at |-> "log", event |-> <<kind, 0>>]
  <2>1. r \in LogTasks
    BY DEF LogTasks, CustodyEvents
  <2>2. r \in TaskRecords /\ r \notin HoldTasks
    BY <2>1 DEF TaskRecords, HoldTasks
  <2>3. task' = [task EXCEPT ![t] = r] /\ begun' \in 0..TaskBound
    BY TaskFacts DEF Begin
  <2> HIDE DEF r
  <2>4. UNCHANGED <<owner, azure, blob, file, bundle, holdLog, stored, failed, overlapped>>
    BY <1>3 DEF generateShareLinks, exportBundle
  <2> QED  BY <1>0, <2>2, <2>3, <2>4, TaskTypes, TaskFacts
<1>4. ASSUME NEW t \in Tasks, NEW left \in 1..ExportAttempts,
             task' = [task EXCEPT ![t] = [at |-> "manifest", left |-> left]],
             UNCHANGED <<owner, azure, file, bundle, blob, stored, holdLog>>, begun' \in 0..TaskBound,
             failed' \in BOOLEAN, overlapped' \in BOOLEAN
      PROVE  FilesTypeInv'
  <2> DEFINE r == [at |-> "manifest", left |-> left]
  <2>1. r \in ExportTasks
    BY DEF ExportTasks
  <2>2. r \in TaskRecords /\ r \notin HoldTasks
    BY <2>1 DEF TaskRecords, HoldTasks
  <2>3. task' = [task EXCEPT ![t] = r]
    BY <1>4
  <2> HIDE DEF r
  <2> QED  BY <1>0, <1>4, <2>2, <2>3, TaskTypes
<1>5. ASSUME NEW t \in Tasks, NEW u \in Owners, requestExportBundle(t, u)
      PROVE  FilesTypeInv'
  <2> DEFINE left == IF azure.redis THEN ExportAttempts ELSE 1
  <2>1. left \in 1..ExportAttempts
    BY FilesAssumption
  <2>2. task' = [task EXCEPT ![t] = [at |-> "manifest", left |-> left]] /\ begun' \in 0..TaskBound
    BY <1>5, TaskFacts DEF requestExportBundle, Begin
  <2> HIDE DEF left
  <2> QED  BY <1>4, <1>5, <2>1, <2>2, TaskFacts DEF requestExportBundle
<1>6. ASSUME NEW t \in Tasks, NEW f \in Files, NEW u \in Owners, NEW hold \in BOOLEAN, ReadHold(t, u, f, hold)
      PROVE  FilesTypeInv'
  <2> DEFINE r == [at |-> "hold", holds |-> f, hold |-> hold]
  <2>1. r \in HoldTasks /\ r.holds = f
    BY DEF HoldTasks
  <2>2. r \in TaskRecords
    BY <2>1 DEF TaskRecords
  <2>3. task' = [task EXCEPT ![t] = r] /\ begun' \in 0..TaskBound /\ f \in Rows
    BY <1>6, TaskFacts DEF ReadHold, Begin
  <2>4. overlapped' \in BOOLEAN
    BY <1>6 DEF ReadHold
  <2> HIDE DEF r
  <2> QED  BY <1>0, <1>6, <2>1, <2>2, <2>3, <2>4, TaskTypes, TaskFacts DEF ReadHold
<1>7. ASSUME NEW t \in Tasks, StoreBlob(t)
      PROVE  FilesTypeInv'
  <2>1. task[t] \in UploadTasks
    BY <1>7, TaskFacts, TaskShape DEF StoreBlob, TaskAt
  <2> DEFINE r == [task[t] EXCEPT !.at = "stored"]
  <2>2. r \in UploadTasks /\ task[t].name \in Names /\ task[t].bytes \in Bytes
    BY <2>1 DEF UploadTasks
  <2>3. r \in TaskRecords /\ r \notin HoldTasks
    BY <2>2 DEF TaskRecords, UploadTasks, HoldTasks
  <2>4. task' = [task EXCEPT ![t] = r]
    BY <1>7 DEF StoreBlob, Goes
  <2> HIDE DEF r
  <2>5. blob' \in [Names -> Bytes \union {NoBytes}]
    BY <1>0, <1>7, <2>2 DEF StoreBlob
  <2>6. stored' \in [Names -> 0..2]
    BY <1>0, <1>7, <2>2 DEF StoreBlob
  <2> QED  BY <1>0, <1>7, <2>3, <2>4, <2>5, <2>6, TaskTypes, TaskFacts DEF StoreBlob
<1>8. ASSUME NEW t \in Tasks, CreateFile(t)
      PROVE  FilesTypeInv'
  <2> PICK f \in Files :
         /\ f \notin Rows /\ f = Cardinality(Rows) + 1 /\ Rows' = Rows \union {f}
         /\ file' \in [Files -> FileRecords \union {NoFile}]
         /\ task' = [task EXCEPT ![t] = [at |-> "log", event |-> <<"UPLOADED", f>>]]
         /\ [at |-> "log", event |-> <<"UPLOADED", f>>] \in LogTasks
    BY <1>8, CreateFileFacts
  <2> DEFINE r == [at |-> "log", event |-> <<"UPLOADED", f>>]
  <2>1. r \in TaskRecords /\ r \notin HoldTasks
    BY DEF TaskRecords, HoldTasks
  <2>2. task' = [task EXCEPT ![t] = r]
    OBVIOUS
  <2> HIDE DEF r
  <2>3. UNCHANGED <<owner, azure, begun, blob, bundle, custody, holdLog, stored, failed, overlapped>>
    BY <1>8 DEF CreateFile
  <2>4. Rows' = 1..Cardinality(Rows')
    BY NextId, TaskFacts DEF FilesTypeInv, IdsInOrder
  <2>5. task'[t] = r /\ \A x \in Tasks \ {t} : task'[x] = task[x]
    BY <2>2, TaskFacts
  <2>6. task' \in [Tasks -> TaskRecords \union {NoTask}]
    BY <2>1, <2>2 DEF FilesTypeInv, FilesTypeOK
  <2>7. IdsInOrder'
    BY <2>1, <2>3, <2>4, <2>5 DEF FilesTypeInv, IdsInOrder
  <2> QED  BY <2>3, <2>6, <2>7 DEF FilesTypeInv, FilesTypeOK
<1>9. ASSUME NEW t \in Tasks, ReadManifest(t)
      PROVE  FilesTypeInv'
  <2> DEFINE manifest == {[id |-> f, sha256 |-> file[f].sha256] : f \in Rows}
             r == [at |-> "bundle", left |-> task[t].left, manifest |-> manifest]
  <2>1. \A f \in Rows : file[f].sha256 \in Bytes /\ f \in Files
    BY TaskFacts DEF FileRecords
  <2>2. manifest \in Manifests
    BY <2>1 DEF Manifests
  <2>3. task' = [task EXCEPT ![t] = r]
    BY <1>9 DEF ReadManifest
  <2> HIDE DEF manifest
  <2>4. task[t].left \in 1..ExportAttempts
    BY <1>9, TaskFacts, TaskShape DEF ReadManifest, TaskAt
  <2>5. r \in ExportTasks
    BY <2>2, <2>4 DEF ExportTasks
  <2>6. r \in TaskRecords /\ r \notin HoldTasks
    BY <2>5 DEF TaskRecords, HoldTasks
  <2> HIDE DEF r
  <2> QED  BY <1>0, <1>9, <2>3, <2>6, TaskTypes, TaskFacts DEF ReadManifest
<1>10. ASSUME NEW t \in Tasks, CreateBundle(t)
       PROVE  FilesTypeInv'
  <2> PICK k \in Nat :
         /\ k = Cardinality(DOMAIN bundle) + 1 /\ DOMAIN bundle' = DOMAIN bundle \union {k}
         /\ \A i \in DOMAIN bundle' : bundle'[i] \in Manifests
         /\ task' = [task EXCEPT ![t] = [at |-> "log", event |-> <<"PERSISTED", k>>, left |-> task[t].left]]
         /\ [at |-> "log", event |-> <<"PERSISTED", k>>, left |-> task[t].left] \in ExportTasks
    BY <1>10, CreateBundleFacts
  <2> DEFINE r == [at |-> "log", event |-> <<"PERSISTED", k>>, left |-> task[t].left]
  <2>1. r \in TaskRecords /\ r \notin HoldTasks
    BY DEF TaskRecords, HoldTasks
  <2>2. task' = [task EXCEPT ![t] = r]
    OBVIOUS
  <2> HIDE DEF r
  <2>3. UNCHANGED <<owner, azure, begun, blob, file, custody, holdLog, stored, failed, overlapped>>
    BY <1>10 DEF CreateBundle
  <2>4. /\ DOMAIN bundle' = 1..Cardinality(DOMAIN bundle') /\ Cardinality(DOMAIN bundle') \in Nat
    BY NextId DEF FilesTypeInv, IdsInOrder
  <2>5. Rows' = Rows
    BY <2>3 DEF Rows
  <2>6. task' \in [Tasks -> TaskRecords \union {NoTask}] /\ task'[t] = r
        /\ \A x \in Tasks \ {t} : task'[x] = task[x]
    BY <2>1, <2>2 DEF FilesTypeInv, FilesTypeOK
  <2>7. IdsInOrder'
    BY <2>1, <2>4, <2>5, <2>6 DEF FilesTypeInv, IdsInOrder
  <2> QED  BY <2>3, <2>6, <2>7 DEF FilesTypeInv, FilesTypeOK
<1>11. ASSUME NEW t \in Tasks, setLegalHold(t)
       PROVE  FilesTypeInv'
  <2> DEFINE r == [at |-> "holdlog", holds |-> task[t].holds, hold |-> task[t].hold]
  <2>1. /\ Rows' = Rows /\ task[t].holds \in Rows /\ file' \in [Files -> FileRecords \union {NoFile}]
        /\ task' = [task EXCEPT ![t] = r] /\ r \in HoldTasks /\ r.holds = task[t].holds
    BY <1>11, SetHoldFacts
  <2> HIDE DEF r
  <2>2. UNCHANGED <<owner, azure, begun, blob, bundle, custody, holdLog, stored, failed, overlapped>>
    BY <1>11 DEF setLegalHold
  <2>3. r \in TaskRecords
    BY <2>1 DEF TaskRecords
  <2>4. task' \in [Tasks -> TaskRecords \union {NoTask}] /\ task'[t] = r
        /\ \A x \in Tasks \ {t} : task'[x] = task[x]
    BY <2>1, <2>3 DEF FilesTypeInv, FilesTypeOK
  <2>5. IdsInOrder'
    BY <2>1, <2>2, <2>4 DEF FilesTypeInv, IdsInOrder
  <2> QED  BY <2>1, <2>2, <2>4, <2>5 DEF FilesTypeInv, FilesTypeOK
<1>12. ASSUME NEW t \in Tasks, LogHold(t) \/ LogCustody(t)
       PROVE  FilesTypeInv'
  <2>1. task' = [task EXCEPT ![t] = NoTask] /\ NoTask \notin HoldTasks
    BY <1>12, NoRecordAssumption DEF LogHold, LogCustody, Ends, TaskRecords
  <2>2. holdLog' \in [Files -> {"none", "SET", "LIFTED"}]
    BY <1>0, <1>12 DEF LogHold, LogCustody
  <2>3. UNCHANGED <<owner, azure, begun, blob, file, bundle, stored, failed, overlapped>>
    BY <1>12 DEF LogHold, LogCustody
  <2> QED  BY <1>0, <2>1, <2>2, <2>3, TaskTypes, TaskFacts
<1>13. ASSUME NEW t \in Tasks, FailTask(t)
       PROVE  FilesTypeInv'
  <2>1. UNCHANGED <<owner, azure, begun, blob, file, bundle, custody, holdLog, stored, overlapped>>
        /\ failed' \in BOOLEAN
    BY <1>13 DEF FailTask
  <2>2. CASE task' = [task EXCEPT ![t] = NoTask]
    <3>1. NoTask \notin HoldTasks
      BY NoRecordAssumption DEF TaskRecords
    <3> QED  BY <1>0, <2>1, <2>2, <3>1, TaskTypes, TaskFacts
  <2>3. CASE "left" \in DOMAIN task[t] /\ task[t].left > 1
             /\ task' = [task EXCEPT ![t] = [at |-> "manifest", left |-> task[t].left - 1]]
    <3>1. task[t].left \in 1..ExportAttempts
      BY <1>13, <2>3, TaskFacts, TaskShape DEF FailTask, IdleTask
    <3>2. task[t].left - 1 \in 1..ExportAttempts
      BY <2>3, <3>1, FilesAssumption
    <3> QED  BY <1>4, <2>1, <2>3, <3>2, TaskFacts
  <2> QED  BY <1>13, <2>2, <2>3 DEF FailTask
<1> QED  BY <1>1, <1>2, <1>3, <1>5, <1>6, <1>7, <1>8, <1>9, <1>10, <1>11, <1>12, <1>13 DEF FilesNext

\* Where a request begins: its task was idle and is now at its first stage.
LEMMA Begins ==
    ASSUME FilesTypeInv, NEW t \in Tasks,
           \/ \E u \in Owners : \/ \E n \in Names, b \in Bytes, hold \in BOOLEAN : Upload(t, u, n, b, hold)
                                \/ generateShareLinks(t, u) \/ exportBundle(t, u)
                                \/ requestExportBundle(t, u)
    PROVE  \E r : /\ task' = [task EXCEPT ![t] = r] /\ task[t] = NoTask
                  /\ r.at \in {"upload", "log", "manifest"} /\ r \notin HoldTasks
                  /\ UNCHANGED <<azure, blob, file, bundle, custody, holdLog, stored, failed, overlapped>>
<1>1. ASSUME NEW u \in Owners, NEW n \in Names, NEW b \in Bytes, NEW hold \in BOOLEAN, Upload(t, u, n, b, hold)
      PROVE  \E r : /\ task' = [task EXCEPT ![t] = r] /\ task[t] = NoTask
                    /\ r.at \in {"upload", "log", "manifest"} /\ r \notin HoldTasks
                    /\ UNCHANGED <<azure, blob, file, bundle, custody, holdLog, stored, failed, overlapped>>
  <2> WITNESS [at |-> "upload", name |-> n, bytes |-> b, hold |-> hold]
  <2> QED  BY <1>1 DEF Upload, Begin, IdleTask, HoldTasks
<1>2. ASSUME NEW u \in Owners, generateShareLinks(t, u)
      PROVE  \E r : /\ task' = [task EXCEPT ![t] = r] /\ task[t] = NoTask
                    /\ r.at \in {"upload", "log", "manifest"} /\ r \notin HoldTasks
                    /\ UNCHANGED <<azure, blob, file, bundle, custody, holdLog, stored, failed, overlapped>>
  <2> WITNESS [at |-> "log", event |-> <<"SHARED", 0>>]
  <2> QED  BY <1>2 DEF generateShareLinks, Begin, IdleTask, HoldTasks
<1>3. ASSUME NEW u \in Owners, exportBundle(t, u)
      PROVE  \E r : /\ task' = [task EXCEPT ![t] = r] /\ task[t] = NoTask
                    /\ r.at \in {"upload", "log", "manifest"} /\ r \notin HoldTasks
                    /\ UNCHANGED <<azure, blob, file, bundle, custody, holdLog, stored, failed, overlapped>>
  <2> WITNESS [at |-> "log", event |-> <<"EXPORTED", 0>>]
  <2> QED  BY <1>3 DEF exportBundle, Begin, IdleTask, HoldTasks
<1>4. ASSUME NEW u \in Owners, requestExportBundle(t, u)
      PROVE  \E r : /\ task' = [task EXCEPT ![t] = r] /\ task[t] = NoTask
                    /\ r.at \in {"upload", "log", "manifest"} /\ r \notin HoldTasks
                    /\ UNCHANGED <<azure, blob, file, bundle, custody, holdLog, stored, failed, overlapped>>
  <2> WITNESS [at |-> "manifest", left |-> IF azure.redis THEN ExportAttempts ELSE 1]
  <2> QED  BY <1>4 DEF requestExportBundle, Begin, IdleTask, HoldTasks
<1> QED  BY <1>1, <1>2, <1>3, <1>4

\* A task that gives up is gone, or is a job that starts again; nothing is written.
LEMMA Fails ==
    ASSUME FilesTypeInv, NEW t \in Tasks, FailTask(t)
    PROVE  \E r : /\ task' = [task EXCEPT ![t] = r] /\ (r = NoTask \/ r.at = "manifest")
                  /\ r \notin HoldTasks
                  /\ UNCHANGED <<azure, blob, file, bundle, custody, holdLog, stored, overlapped>>
                  /\ task[t] \in TaskRecords
                  /\ failed' \/ (failed' = failed /\ task[t].at \notin {"log", "holdlog"})
<1> DEFINE r == IF "left" \in DOMAIN task[t] /\ task[t].left > 1
                THEN [at |-> "manifest", left |-> task[t].left - 1] ELSE NoTask
<1>1. task' = [task EXCEPT ![t] = r] /\ (r = NoTask \/ r.at = "manifest")
  BY DEF FailTask
<1>2. r \notin HoldTasks
  BY NoRecordAssumption DEF HoldTasks, TaskRecords
<1> HIDE DEF r
<1>3. failed' \/ (failed' = failed /\ task[t].at \notin {"log", "holdlog"})
  BY TaskFacts DEF FailTask
<1> QED  BY <1>1, <1>2, <1>3, TaskFacts DEF FailTask, IdleTask

\* Each action keeps the bytes of the rows and of the uploads under way.
LEMMA BytesStep == FilesTypeInv /\ BytesKept /\ [FilesNext]_filesVars => BytesKept'
<1> SUFFICES ASSUME FilesTypeInv, BytesKept, [FilesNext]_filesVars
             PROVE  BytesKept'
  OBVIOUS
<1>1. ASSUME NEW t \in Tasks, NEW r, task' = [task EXCEPT ![t] = r], r = NoTask \/ r.at # "stored",
             UNCHANGED <<azure, blob, stored>>, Rows' = Rows,
             \A f \in Rows : file'[f].name = file[f].name /\ file'[f].sha256 = file[f].sha256
      PROVE  BytesKept'
  <2>1. task'[t] = r /\ \A x \in Tasks \ {t} : task'[x] = task[x]
    BY <1>1, TaskFacts
  <2>2. \A x \in Tasks : TaskAt(x, "stored")' => x # t /\ TaskAt(x, "stored")
    BY <1>1, <2>1 DEF TaskAt
  <2> QED  BY <1>1, <2>1, <2>2 DEF BytesKept
<1>2. CASE UNCHANGED filesVars
  <2>1. Rows' = Rows /\ \A x \in Tasks : TaskAt(x, "stored")' <=> TaskAt(x, "stored")
    BY <1>2 DEF filesVars, Rows, TaskAt
  <2> QED  BY <1>2, <2>1 DEF filesVars, BytesKept
<1>3. ASSUME NEW t \in Tasks,
             \E u \in Owners : \/ \E n \in Names, b \in Bytes, hold \in BOOLEAN : Upload(t, u, n, b, hold)
                               \/ generateShareLinks(t, u) \/ exportBundle(t, u)
                               \/ requestExportBundle(t, u)
      PROVE  BytesKept'
  <2> PICK r : /\ task' = [task EXCEPT ![t] = r] /\ r.at \in {"upload", "log", "manifest"}
               /\ UNCHANGED <<azure, blob, file, stored>>
    BY <1>3, Begins
  <2>1. Rows' = Rows
    BY DEF Rows
  <2> QED  BY <1>1, <2>1
<1>4. ASSUME NEW t \in Tasks, NEW u \in Owners, NEW f \in Files, NEW hold \in BOOLEAN, ReadHold(t, u, f, hold)
      PROVE  BytesKept'
  <2>1. Rows' = Rows
    BY <1>4 DEF ReadHold, Rows
  <2> DEFINE r == [at |-> "hold", holds |-> f, hold |-> hold]
  <2>2. task' = [task EXCEPT ![t] = r] /\ r.at # "stored"
    BY <1>4 DEF ReadHold, Begin
  <2> HIDE DEF r
  <2> QED  BY <1>1, <1>4, <2>1, <2>2 DEF ReadHold
<1>5. ASSUME NEW t \in Tasks, FailTask(t)
      PROVE  BytesKept'
  <2> PICK r : /\ task' = [task EXCEPT ![t] = r] /\ (r = NoTask \/ r.at = "manifest")
               /\ UNCHANGED <<azure, blob, file, stored>>
    BY <1>5, Fails
  <2>1. Rows' = Rows
    BY DEF Rows
  <2> QED  BY <1>1, <2>1
<1>6. ASSUME NEW t \in Tasks, ReadManifest(t) \/ CreateBundle(t) \/ LogHold(t) \/ LogCustody(t)
      PROVE  BytesKept'
  <2>1. Rows' = Rows
    BY <1>6 DEF ReadManifest, CreateBundle, LogHold, LogCustody, Rows
  <2>2. \E r : task' = [task EXCEPT ![t] = r] /\ (r = NoTask \/ r.at \in {"bundle", "log"})
    BY <1>6 DEF ReadManifest, CreateBundle, LogHold, LogCustody, Ends
  <2>3. UNCHANGED <<azure, blob, file, stored>>
    BY <1>6 DEF ReadManifest, CreateBundle, LogHold, LogCustody
  <2> QED  BY <1>1, <2>1, <2>2, <2>3
<1>7. ASSUME NEW t \in Tasks, setLegalHold(t)
      PROVE  BytesKept'
  <2> DEFINE f == task[t].holds
             r == [at |-> "holdlog", holds |-> f, hold |-> task[t].hold]
  <2>1. /\ Rows' = Rows /\ \A x \in Files \ {f} : file'[x] = file[x]
        /\ file'[f].name = file[f].name /\ file'[f].sha256 = file[f].sha256
        /\ task' = [task EXCEPT ![t] = r] /\ r.at # "stored"
    BY <1>7, SetHoldFacts
  <2> HIDE DEF r
  <2>2. \A x \in Rows : file'[x].name = file[x].name /\ file'[x].sha256 = file[x].sha256
    BY <2>1, TaskFacts
  <2> QED  BY <1>1, <1>7, <2>1, <2>2 DEF setLegalHold
<1>8. ASSUME NEW t \in Tasks, CreateFile(t)
      PROVE  BytesKept'
  <2> DEFINE row == [name |-> task[t].name, sha256 |-> task[t].bytes, hold |-> task[t].hold]
  <2> PICK f \in Files :
         /\ f \notin Rows /\ file'[f] = row /\ Rows' = Rows \union {f}
         /\ \A x \in Files \ {f} : file'[x] = file[x]
         /\ task' = [task EXCEPT ![t] = [at |-> "log", event |-> <<"UPLOADED", f>>]]
    BY <1>8, CreateFileFacts
  <2>1. row.name = task[t].name /\ row.sha256 = task[t].bytes
    OBVIOUS
  <2> HIDE DEF row
  <2>2. UNCHANGED <<azure, blob, stored>> /\ TaskAt(t, "stored")
    BY <1>8 DEF CreateFile
  <2>3. /\ task'[t] = [at |-> "log", event |-> <<"UPLOADED", f>>]
        /\ \A x \in Tasks \ {t} : task'[x] = task[x]
    BY TaskFacts
  <2>4. \A x \in Tasks : TaskAt(x, "stored")' => x # t /\ TaskAt(x, "stored")
    BY <2>3 DEF TaskAt
  <2>5. \A x \in Rows : file'[x] = file[x]
    BY TaskFacts
  <2> QED  BY <2>1, <2>2, <2>3, <2>4, <2>5 DEF BytesKept
<1>9. ASSUME NEW t \in Tasks, StoreBlob(t)
      PROVE  BytesKept'
  <2> SUFFICES ASSUME azure.blob
               PROVE  BytesKept'
    BY <1>9 DEF BytesKept, StoreBlob
  <2> DEFINE n == task[t].name
  <2>1. task[t] \in UploadTasks /\ task[t] # NoTask
    BY <1>9, TaskFacts, TaskShape DEF StoreBlob, TaskAt
  <2> DEFINE r == [task[t] EXCEPT !.at = "stored"]
  <2>2. r.name = n /\ r.bytes = task[t].bytes /\ n \in Names
    BY <2>1 DEF UploadTasks
  <2>3. task'[t] = r /\ \A x \in Tasks \ {t} : task'[x] = task[x]
    BY <1>9, TaskFacts DEF StoreBlob, Goes
  <2>4. /\ blob \in [Names -> Bytes \union {NoBytes}] /\ stored \in [Names -> 0..2]
        /\ blob' = [blob EXCEPT ![n] = task[t].bytes]
        /\ stored' = [stored EXCEPT ![n] = IF stored[n] = 2 THEN 2 ELSE stored[n] + 1]
    BY <1>9 DEF StoreBlob, FilesTypeInv, FilesTypeOK
  <2>5. UNCHANGED <<file, azure>> /\ Rows' = Rows
    BY <1>9 DEF StoreBlob, Rows
  <2> HIDE DEF r, n
  <2>6. /\ blob'[n] = task[t].bytes /\ stored'[n] # 0 /\ (stored[n] # 0 => ~(stored'[n] < 2))
        /\ \A m \in Names \ {n} : blob'[m] = blob[m] /\ stored'[m] = stored[m]
    BY <2>2, <2>4
  <2>7. ASSUME NEW f \in Rows
        PROVE  /\ stored'[file[f].name] # 0
               /\ stored'[file[f].name] < 2 => blob'[file[f].name] = file[f].sha256
    <3>1. file[f].name \in Names /\ stored[file[f].name] # 0
          /\ (stored[file[f].name] < 2 => blob[file[f].name] = file[f].sha256)
      BY TaskFacts DEF FileRecords, BytesKept
    <3> QED  BY <2>6, <3>1
  <2>8. ASSUME NEW x \in Tasks, TaskAt(x, "stored")'
        PROVE  /\ stored'[task'[x].name] # 0
               /\ stored'[task'[x].name] < 2 => blob'[task'[x].name] = task'[x].bytes
    <3>1. CASE x = t
      BY <2>2, <2>3, <2>6, <3>1
    <3>2. CASE x # t
      <4>1. task'[x] = task[x] /\ TaskAt(x, "stored")
        BY <2>3, <2>8, <3>2 DEF TaskAt
      <4>2. task[x].name \in Names
        BY <4>1, TaskFacts, TaskShape DEF TaskAt, UploadTasks
      <4>3. /\ stored[task[x].name] # 0
            /\ stored[task[x].name] < 2 => blob[task[x].name] = task[x].bytes
        BY <4>1 DEF BytesKept
      <4> QED  BY <2>6, <4>1, <4>2, <4>3
    <3> QED  BY <3>1, <3>2
  <2> QED  BY <2>5, <2>7, <2>8 DEF BytesKept
<1> QED  BY <1>2, <1>3, <1>4, <1>5, <1>6, <1>7, <1>8, <1>9 DEF FilesNext

\* Each action keeps every row and every bundle accounted for.
LEMMA CustodyStep == FilesTypeInv /\ CustodyFollows /\ [FilesNext]_filesVars => CustodyFollows'
<1> SUFFICES ASSUME FilesTypeInv, CustodyFollows, [FilesNext]_filesVars, ~failed'
             PROVE  /\ \A f \in Rows' : Accounted(<<"UPLOADED", f>>)'
                    /\ \A k \in DOMAIN bundle' : Accounted(<<"PERSISTED", k>>)'
  BY DEF CustodyFollows
<1> DEFINE Goal == /\ \A f \in Rows' : Accounted(<<"UPLOADED", f>>)'
                   /\ \A k \in DOMAIN bundle' : Accounted(<<"PERSISTED", k>>)'
<1>1. ASSUME NEW t \in Tasks, NEW r, task' = [task EXCEPT ![t] = r], ~TaskAt(t, "log"),
             UNCHANGED custody, NEW e, Accounted(e)
      PROVE  Accounted(e)'
  BY <1>1, TaskFacts DEF Accounted, TaskAt
<1>2. ASSUME NEW t \in Tasks, NEW r, task' = [task EXCEPT ![t] = r], ~TaskAt(t, "log"),
             UNCHANGED <<custody, bundle>>, Rows' = Rows, ~failed
      PROVE  Goal
  BY <1>1, <1>2 DEF CustodyFollows
<1>3. CASE UNCHANGED filesVars
  <2>1. Rows' = Rows /\ ~failed /\ bundle' = bundle
    BY <1>3 DEF filesVars, Rows
  <2>2. \A e : Accounted(e) => Accounted(e)'
    BY <1>3 DEF filesVars, Accounted, TaskAt
  <2> QED  BY <2>1, <2>2 DEF CustodyFollows
<1>4. ASSUME NEW t \in Tasks,
             \E u \in Owners : \/ \E n \in Names, b \in Bytes, hold \in BOOLEAN : Upload(t, u, n, b, hold)
                               \/ generateShareLinks(t, u) \/ exportBundle(t, u)
                               \/ requestExportBundle(t, u)
      PROVE  Goal
  <2> PICK r : /\ task' = [task EXCEPT ![t] = r] /\ task[t] = NoTask
               /\ UNCHANGED <<file, bundle, custody, failed>>
    BY <1>4, Begins
  <2>1. Rows' = Rows /\ ~TaskAt(t, "log")
    BY DEF Rows, TaskAt
  <2> QED  BY <1>2, <2>1
<1>5. ASSUME NEW t \in Tasks, NEW u \in Owners, NEW f \in Files, NEW hold \in BOOLEAN, ReadHold(t, u, f, hold)
      PROVE  Goal
  <2>1. Rows' = Rows /\ ~TaskAt(t, "log")
    BY <1>5 DEF ReadHold, Rows, TaskAt, Begin, IdleTask
  <2>2. \E r : task' = [task EXCEPT ![t] = r]
    BY <1>5 DEF ReadHold, Begin
  <2> QED  BY <1>2, <1>5, <2>1, <2>2 DEF ReadHold
<1>6. ASSUME NEW t \in Tasks, FailTask(t)
      PROVE  Goal
  <2> PICK r : /\ task' = [task EXCEPT ![t] = r] /\ UNCHANGED <<file, bundle, custody>>
               /\ (failed' \/ (failed' = failed /\ task[t].at \notin {"log", "holdlog"}))
    BY <1>6, Fails
  <2>1. Rows' = Rows /\ ~TaskAt(t, "log") /\ ~failed
    BY DEF Rows, TaskAt
  <2> QED  BY <1>2, <2>1
<1>7. ASSUME NEW t \in Tasks, StoreBlob(t) \/ ReadManifest(t) \/ LogHold(t)
      PROVE  Goal
  <2>1. Rows' = Rows /\ UNCHANGED <<bundle, custody, failed>>
    BY <1>7 DEF StoreBlob, ReadManifest, LogHold, Rows
  <2>2. ~TaskAt(t, "log")
    BY <1>7 DEF StoreBlob, ReadManifest, LogHold, TaskAt
  <2>3. \E r : task' = [task EXCEPT ![t] = r]
    BY <1>7 DEF StoreBlob, ReadManifest, LogHold, Goes, Ends
  <2> QED  BY <1>2, <2>1, <2>2, <2>3
<1>8. ASSUME NEW t \in Tasks, setLegalHold(t)
      PROVE  Goal
  <2>1. Rows' = Rows /\ \E r : task' = [task EXCEPT ![t] = r]
    BY <1>8, SetHoldFacts
  <2>2. ~TaskAt(t, "log") /\ UNCHANGED <<bundle, custody, failed>>
    BY <1>8 DEF setLegalHold, TaskAt
  <2> QED  BY <1>2, <2>1, <2>2
<1>9. ASSUME NEW t \in Tasks, CreateFile(t)
      PROVE  Goal
  <2> PICK f \in Files :
         /\ Rows' = Rows \union {f}
         /\ task' = [task EXCEPT ![t] = [at |-> "log", event |-> <<"UPLOADED", f>>]]
         /\ [at |-> "log", event |-> <<"UPLOADED", f>>] \in LogTasks
    BY <1>9, CreateFileFacts
  <2> DEFINE r == [at |-> "log", event |-> <<"UPLOADED", f>>]
  <2>1. r.at = "log" /\ r.event = <<"UPLOADED", f>> /\ task' = [task EXCEPT ![t] = r] /\ r # NoTask
    BY NoRecordAssumption DEF TaskRecords
  <2> HIDE DEF r
  <2>2. ~TaskAt(t, "log") /\ UNCHANGED <<bundle, custody, failed>>
    BY <1>9 DEF CreateFile, TaskAt
  <2>3. Accounted(<<"UPLOADED", f>>)'
    <3>1. task'[t] = r
      BY <2>1, TaskFacts
    <3> QED  BY <2>1, <3>1 DEF Accounted, TaskAt
  <2> QED  BY <1>1, <2>1, <2>2, <2>3 DEF CustodyFollows
<1>10. ASSUME NEW t \in Tasks, CreateBundle(t)
       PROVE  Goal
  <2> PICK k \in Nat :
         /\ DOMAIN bundle' = DOMAIN bundle \union {k}
         /\ task' = [task EXCEPT ![t] = [at |-> "log", event |-> <<"PERSISTED", k>>, left |-> task[t].left]]
         /\ [at |-> "log", event |-> <<"PERSISTED", k>>, left |-> task[t].left] \in ExportTasks
    BY <1>10, CreateBundleFacts
  <2> DEFINE r == [at |-> "log", event |-> <<"PERSISTED", k>>, left |-> task[t].left]
  <2>1. r.at = "log" /\ r.event = <<"PERSISTED", k>> /\ task' = [task EXCEPT ![t] = r] /\ r # NoTask
    BY NoRecordAssumption DEF TaskRecords
  <2> HIDE DEF r
  <2>2. ~TaskAt(t, "log") /\ Rows' = Rows /\ UNCHANGED <<custody, failed>>
    BY <1>10 DEF CreateBundle, TaskAt, Rows
  <2>3. Accounted(<<"PERSISTED", k>>)'
    <3>1. task'[t] = r
      BY <2>1, TaskFacts
    <3> QED  BY <2>1, <3>1 DEF Accounted, TaskAt
  <2> QED  BY <1>1, <2>1, <2>2, <2>3 DEF CustodyFollows
<1>11. ASSUME NEW t \in Tasks, LogCustody(t)
       PROVE  Goal
  <2>1. /\ Rows' = Rows /\ UNCHANGED <<bundle, failed>> /\ custody' = custody \union {task[t].event}
        /\ task' = [task EXCEPT ![t] = NoTask]
    BY <1>11 DEF LogCustody, Ends, Rows
  <2>2. \A e : Accounted(e) => Accounted(e)'
    BY <2>1, TaskFacts DEF Accounted, TaskAt
  <2> QED  BY <2>1, <2>2 DEF CustodyFollows
<1> QED  BY <1>3, <1>4, <1>5, <1>6, <1>7, <1>8, <1>9, <1>10, <1>11 DEF FilesNext

\* The tasks that hold a file, in terms of their records.
LEMMA HoldingIs ==
    ASSUME FilesTypeInv
    PROVE  \A f, t : t \in Holding(f) <=> t \in Tasks /\ task[t] \in HoldTasks /\ task[t].holds = f
  BY TaskFacts, TaskShape, NoRecordAssumption DEF Holding, TaskRecords

\* Each action keeps flag and log of a hold together.
LEMMA HoldStep == FilesTypeInv /\ FilesTypeInv' /\ HoldFollows /\ [FilesNext]_filesVars => HoldFollows'
<1> SUFFICES ASSUME FilesTypeInv, FilesTypeInv', HoldFollows, [FilesNext]_filesVars
             PROVE  HoldFollows'
  OBVIOUS
<1>0. /\ \A f, t : t \in Holding(f) <=> t \in Tasks /\ task[t] \in HoldTasks /\ task[t].holds = f
      /\ \A f, t : t \in Holding(f)' <=> t \in Tasks /\ task'[t] \in HoldTasks /\ task'[t].holds = f
  <2>1. \A t \in Tasks : task'[t] \in TaskRecords \union {NoTask}
    BY DEF FilesTypeInv, FilesTypeOK
  <2>2. NoTask \notin HoldTasks
    BY NoRecordAssumption DEF TaskRecords
  <2>3. ASSUME NEW f, NEW t
        PROVE  t \in Holding(f)' <=> t \in Tasks /\ task'[t] \in HoldTasks /\ task'[t].holds = f
    BY <2>1, <2>2, TaskShape DEF Holding
  <2> QED  BY <2>3, HoldingIs
<1>1. ASSUME NEW t \in Tasks, NEW r, task' = [task EXCEPT ![t] = r], r \notin HoldTasks,
             failed' \/ (failed' = failed /\ ~TaskAt(t, "holdlog")), UNCHANGED <<holdLog, overlapped>>,
             Rows \subseteq Rows', Rows' \subseteq Files,
             \A f \in Rows : file'[f] = file[f]
      PROVE  HoldFollows'
  <2>1. task'[t] = r /\ \A x \in Tasks \ {t} : task'[x] = task[x]
    BY <1>1, TaskFacts
  <2>2. \A f, x : x \in Holding(f)' => x # t /\ x \in Holding(f)
    BY <1>0, <1>1, <2>1
  <2>3. \A x \in Tasks : TaskAt(x, "holdlog")' => x # t /\ TaskAt(x, "holdlog") /\ task'[x] \in HoldTasks
    <3> SUFFICES ASSUME NEW x \in Tasks, task'[x] # NoTask, task'[x].at = "holdlog"
                 PROVE  x # t /\ TaskAt(x, "holdlog") /\ task'[x] \in HoldTasks
      BY DEF TaskAt
    <3>1. task'[x] \in TaskRecords
      BY DEF FilesTypeInv, FilesTypeOK
    <3>2. task'[x] \in HoldTasks
      BY <3>1, TaskShape
    <3> QED  BY <1>1, <2>1, <3>2 DEF TaskAt
  <2>4. \A f \in Files : holdLog'[f] # "none" => f \in Rows'
    BY <1>1 DEF HoldFollows
  <2> SUFFICES ASSUME ~overlapped', ~failed'
               PROVE  /\ \A f \in Files : \A a, x \in Holding(f)' : a = x
                      /\ \A a \in Tasks : TaskAt(a, "holdlog")' => file'[task'[a].holds].hold = task'[a].hold
                      /\ \A f \in Rows' : \/ holdLog'[f] = "none" \/ file'[f].hold = (holdLog'[f] = "SET")
                                          \/ \E a \in Holding(f)' : TaskAt(a, "holdlog")'
    BY <2>4 DEF HoldFollows
  <2>5. ~overlapped /\ ~failed /\ ~TaskAt(t, "holdlog")
    BY <1>1
  <2>6. \A a \in Tasks : TaskAt(a, "holdlog")' => file'[task'[a].holds].hold = task'[a].hold
    <3> SUFFICES ASSUME NEW a \in Tasks, TaskAt(a, "holdlog")'
                 PROVE  file'[task'[a].holds].hold = task'[a].hold
      OBVIOUS
    <3>1. TaskAt(a, "holdlog") /\ task'[a] = task[a] /\ task[a] \in HoldTasks
      BY <2>1, <2>3
    <3>2. task[a].holds \in Rows /\ file[task[a].holds].hold = task[a].hold
      BY <2>5, <3>1, TaskFacts DEF HoldFollows
    <3> QED  BY <1>1, <3>1, <3>2
  <2>7. ASSUME NEW f \in Rows'
        PROVE  \/ holdLog'[f] = "none" \/ file'[f].hold = (holdLog'[f] = "SET")
               \/ \E a \in Holding(f)' : TaskAt(a, "holdlog")'
    <3>1. CASE f \in Rows
      <4>1. CASE \E a \in Holding(f) : TaskAt(a, "holdlog")
        <5> PICK a \in Holding(f) : TaskAt(a, "holdlog")
          BY <4>1
        <5>1. a # t /\ a \in Tasks
          BY <1>0, <2>5
        <5>2. a \in Holding(f)' /\ TaskAt(a, "holdlog")'
          BY <1>0, <2>1, <5>1 DEF TaskAt
        <5> QED  BY <5>2
      <4> QED  BY <1>1, <2>5, <3>1, <4>1 DEF HoldFollows
    <3>2. CASE f \notin Rows
      <4>1. holdLog[f] = "none"
        BY <1>1, <3>2 DEF HoldFollows
      <4> QED  BY <1>1, <4>1
    <3> QED  BY <3>1, <3>2
  <2>8. \A f \in Files : \A a, x \in Holding(f)' : a = x
    BY <2>2, <2>5 DEF HoldFollows
  <2> QED  BY <2>6, <2>7, <2>8
<1>2. CASE UNCHANGED filesVars
  <2>1. Rows' = Rows /\ \A x \in Tasks : TaskAt(x, "holdlog")' <=> TaskAt(x, "holdlog")
    BY <1>2 DEF filesVars, Rows, TaskAt
  <2>2. \A f : Holding(f)' = Holding(f)
    BY <1>2 DEF filesVars, Holding
  <2> QED  BY <1>0, <1>2, <2>1, <2>2 DEF filesVars, HoldFollows
<1>3. ASSUME NEW t \in Tasks,
             \E u \in Owners : \/ \E n \in Names, b \in Bytes, hold \in BOOLEAN : Upload(t, u, n, b, hold)
                               \/ generateShareLinks(t, u) \/ exportBundle(t, u)
                               \/ requestExportBundle(t, u)
      PROVE  HoldFollows'
  <2> PICK r : /\ task' = [task EXCEPT ![t] = r] /\ task[t] = NoTask /\ r \notin HoldTasks
               /\ UNCHANGED <<file, holdLog, failed, overlapped>>
    BY <1>3, Begins
  <2>1. Rows' = Rows /\ ~TaskAt(t, "holdlog")
    BY DEF Rows, TaskAt
  <2> QED  BY <2>1, <1>1, TaskFacts
<1>4. ASSUME NEW t \in Tasks, FailTask(t)
      PROVE  HoldFollows'
  <2> PICK r : /\ task' = [task EXCEPT ![t] = r] /\ r \notin HoldTasks
               /\ UNCHANGED <<file, holdLog, overlapped>>
               /\ (failed' \/ (failed' = failed /\ task[t].at \notin {"log", "holdlog"}))
    BY <1>4, Fails
  <2>1. Rows' = Rows /\ (failed' \/ (failed' = failed /\ ~TaskAt(t, "holdlog")))
    BY DEF Rows, TaskAt
  <2> QED  BY <2>1, <1>1, TaskFacts

<1>5. ASSUME NEW t \in Tasks, StoreBlob(t) \/ ReadManifest(t) \/ CreateBundle(t) \/ LogCustody(t)
      PROVE  HoldFollows'
  <2>1. /\ Rows' = Rows /\ UNCHANGED <<file, holdLog, failed, overlapped>>
        /\ ~TaskAt(t, "holdlog")
    BY <1>5 DEF StoreBlob, ReadManifest, CreateBundle, LogCustody, Rows, TaskAt
  <2>2. \E r : task' = [task EXCEPT ![t] = r] /\ (r = NoTask \/ r.at \in {"stored", "bundle", "log"})
    <3>1. CASE StoreBlob(t)
      <4>1. task[t] \in UploadTasks
        BY <3>1, TaskFacts, TaskShape DEF StoreBlob, TaskAt
      <4>2. [task[t] EXCEPT !.at = "stored"].at = "stored"
        BY <4>1 DEF UploadTasks
      <4> QED  BY <3>1, <4>2 DEF StoreBlob, Goes
    <3>2. CASE ReadManifest(t) \/ CreateBundle(t) \/ LogCustody(t)
      BY <3>2 DEF ReadManifest, CreateBundle, LogCustody, Ends
    <3> QED  BY <1>5, <3>1, <3>2
  <2> PICK r : task' = [task EXCEPT ![t] = r] /\ (r = NoTask \/ r.at \in {"stored", "bundle", "log"})
    BY <2>2
  <2>3. r \notin HoldTasks
    BY NoRecordAssumption DEF HoldTasks, TaskRecords
  <2> QED  BY <1>1, <2>1, <2>3, TaskFacts
<1>6. ASSUME NEW t \in Tasks, CreateFile(t)
      PROVE  HoldFollows'
  <2> PICK f \in Files :
         /\ f \notin Rows /\ Rows' = Rows \union {f}
         /\ \A x \in Files \ {f} : file'[x] = file[x]
         /\ task' = [task EXCEPT ![t] = [at |-> "log", event |-> <<"UPLOADED", f>>]]
    BY <1>6, CreateFileFacts
  <2> DEFINE r == [at |-> "log", event |-> <<"UPLOADED", f>>]
  <2>1. r \notin HoldTasks /\ task' = [task EXCEPT ![t] = r]
    BY DEF HoldTasks
  <2> HIDE DEF r
  <2>2. UNCHANGED <<holdLog, failed, overlapped>> /\ ~TaskAt(t, "holdlog")
    BY <1>6 DEF CreateFile, TaskAt
  <2>3. Rows \subseteq Rows' /\ Rows' \subseteq Files /\ \A x \in Rows : file'[x] = file[x]
    BY TaskFacts
  <2> QED  BY <1>1, <2>1, <2>2, <2>3
\* A task that begins to hold a file, or goes on holding it.
<1>7. ASSUME NEW t \in Tasks, NEW u \in Owners, NEW f \in Files, NEW hold \in BOOLEAN, ReadHold(t, u, f, hold)
      PROVE  HoldFollows'
  <2> DEFINE r == [at |-> "hold", holds |-> f, hold |-> hold]
  <2>1. r \in HoldTasks /\ r.holds = f /\ r.at = "hold"
    BY DEF HoldTasks
  <2>2. /\ task' = [task EXCEPT ![t] = r] /\ task[t] = NoTask /\ UNCHANGED <<file, holdLog, failed>>
        /\ overlapped' = (overlapped \/ Holding(f) # {}) /\ Rows' = Rows
    BY <1>7 DEF ReadHold, Begin, IdleTask, Rows
  <2> HIDE DEF r
  <2>3. task'[t] = r /\ \A x \in Tasks \ {t} : task'[x] = task[x]
    BY <2>2, TaskFacts
  <2>4. NoTask \notin HoldTasks
    BY NoRecordAssumption DEF TaskRecords
  <2>5. \A g, x : x \in Holding(g)' <=> x \in Holding(g) \/ (x = t /\ g = f)
    BY <1>0, <2>1, <2>2, <2>3, <2>4
  <2>6. \A x \in Tasks : TaskAt(x, "holdlog")' <=> TaskAt(x, "holdlog")
    BY <2>1, <2>2, <2>3 DEF TaskAt
  <2>7. \A x \in Tasks : TaskAt(x, "holdlog") => task'[x] = task[x]
    BY <2>2, <2>3 DEF TaskAt
  <2> SUFFICES ASSUME ~overlapped', ~failed'
               PROVE  /\ \A g \in Files : \A a, x \in Holding(g)' : a = x
                      /\ \A a \in Tasks : TaskAt(a, "holdlog")' => file'[task'[a].holds].hold = task'[a].hold
                      /\ \A g \in Rows' : \/ holdLog'[g] = "none" \/ file'[g].hold = (holdLog'[g] = "SET")
                                          \/ \E a \in Holding(g)' : TaskAt(a, "holdlog")'
    BY <2>2 DEF HoldFollows
  <2>8. ~overlapped /\ Holding(f) = {} /\ ~failed
    BY <2>2
  <2>9. \A g \in Files : \A a, x \in Holding(g)' : a = x
    BY <2>5, <2>8 DEF HoldFollows
  <2>10. \A a \in Tasks : TaskAt(a, "holdlog")' => file'[task'[a].holds].hold = task'[a].hold
    BY <2>2, <2>6, <2>7, <2>8 DEF HoldFollows
  <2>11. \A g \in Rows' : \/ holdLog'[g] = "none" \/ file'[g].hold = (holdLog'[g] = "SET")
                          \/ \E a \in Holding(g)' : TaskAt(a, "holdlog")'
    <3> SUFFICES ASSUME NEW g \in Rows
                 PROVE  \/ holdLog[g] = "none" \/ file[g].hold = (holdLog[g] = "SET")
                        \/ \E a \in Holding(g)' : TaskAt(a, "holdlog")'
      BY <2>2
    <3>1. \/ holdLog[g] = "none" \/ file[g].hold = (holdLog[g] = "SET")
          \/ \E a \in Holding(g) : TaskAt(a, "holdlog")
      BY <2>8 DEF HoldFollows
    <3>2. ASSUME NEW a \in Holding(g), TaskAt(a, "holdlog")
          PROVE  a \in Holding(g)' /\ TaskAt(a, "holdlog")'
      BY <1>0, <2>5, <2>6, <3>2
    <3> QED  BY <3>1, <3>2
  <2> QED  BY <2>9, <2>10, <2>11
<1>8. ASSUME NEW t \in Tasks, setLegalHold(t)
      PROVE  HoldFollows'
  <2> DEFINE f == task[t].holds
             r == [at |-> "holdlog", holds |-> f, hold |-> task[t].hold]
  <2>1. /\ task[t] \in HoldTasks /\ f \in Rows /\ Rows' = Rows
        /\ \A x \in Files \ {f} : file'[x] = file[x]
        /\ file'[f].hold = task[t].hold
        /\ task' = [task EXCEPT ![t] = r] /\ r \in HoldTasks
        /\ r.holds = f /\ r.hold = task[t].hold /\ r.at = "holdlog"
    BY <1>8, SetHoldFacts
  <2>2. UNCHANGED <<holdLog, failed, overlapped>>
    BY <1>8 DEF setLegalHold
  <2> HIDE DEF r, f
  <2>3. task'[t] = r /\ \A x \in Tasks \ {t} : task'[x] = task[x]
    BY <2>1, TaskFacts
  <2>4. r # NoTask
    BY <2>1, NoRecordAssumption DEF TaskRecords
  <2>5. \A g, x : x \in Holding(g)' <=> x \in Holding(g)
    BY <1>0, <2>1, <2>3 DEF f
  <2>6. \A x \in Tasks : TaskAt(x, "holdlog")' <=> TaskAt(x, "holdlog") \/ x = t
    BY <2>1, <2>3, <2>4 DEF TaskAt
  <2>7. t \in Holding(f)
    BY <1>0, <2>1 DEF f
  <2> SUFFICES ASSUME ~overlapped', ~failed'
               PROVE  /\ \A g \in Files : \A a, x \in Holding(g)' : a = x
                      /\ \A a \in Tasks : TaskAt(a, "holdlog")' => file'[task'[a].holds].hold = task'[a].hold
                      /\ \A g \in Rows' : \/ holdLog'[g] = "none" \/ file'[g].hold = (holdLog'[g] = "SET")
                                          \/ \E a \in Holding(g)' : TaskAt(a, "holdlog")'
    BY <2>1, <2>2 DEF HoldFollows
  <2>8. ~overlapped /\ ~failed /\ f \in Files
    BY <2>1, <2>2, TaskFacts
  <2>9. \A g \in Files : \A a, x \in Holding(g)' : a = x
    BY <2>5, <2>8 DEF HoldFollows
  <2>10. ASSUME NEW a \in Tasks, TaskAt(a, "holdlog")'
         PROVE  file'[task'[a].holds].hold = task'[a].hold
    <3>1. CASE a = t
      BY <2>1, <2>3, <3>1
    <3>2. CASE a # t
      <4>1. TaskAt(a, "holdlog") /\ task'[a] = task[a]
        BY <2>3, <2>6, <2>10, <3>2
      <4>2. task[a] \in HoldTasks
        BY <4>1, TaskFacts, TaskShape DEF TaskAt
      <4>3. a \in Holding(task[a].holds) /\ task[a].holds \in Rows /\ task[a].holds \in Files
        BY <1>0, <4>2, TaskFacts
      <4>4. task[a].holds # f
        BY <2>7, <2>8, <3>2, <4>3 DEF HoldFollows
      <4>5. file[task[a].holds].hold = task[a].hold
        BY <2>8, <4>1 DEF HoldFollows
      <4> QED  BY <2>1, <4>1, <4>3, <4>4, <4>5
    <3> QED  BY <3>1, <3>2
  <2>11. ASSUME NEW g \in Rows'
         PROVE  \/ holdLog'[g] = "none" \/ file'[g].hold = (holdLog'[g] = "SET")
                \/ \E a \in Holding(g)' : TaskAt(a, "holdlog")'
    <3>1. CASE g = f
      BY <2>5, <2>6, <2>7, <3>1, <1>8
    <3>2. CASE g # f
      <4>1. /\ g \in Rows /\ g \in Files /\ file'[g] = file[g] /\ holdLog'[g] = holdLog[g]
        BY <2>1, <2>2, <3>2, TaskFacts
      <4>2. \/ holdLog[g] = "none" \/ file[g].hold = (holdLog[g] = "SET")
            \/ \E a \in Holding(g) : TaskAt(a, "holdlog")
        BY <2>8, <4>1 DEF HoldFollows
      <4>3. ASSUME NEW a \in Holding(g), TaskAt(a, "holdlog")
            PROVE  a \in Holding(g)' /\ TaskAt(a, "holdlog")'
        BY <1>0, <2>5, <2>6, <4>3
      <4> QED  BY <4>1, <4>2, <4>3
    <3> QED  BY <3>1, <3>2
  <2> QED  BY <2>9, <2>10, <2>11
<1>9. ASSUME NEW t \in Tasks, LogHold(t)
      PROVE  HoldFollows'
  <2> DEFINE f == task[t].holds
             log == IF task[t].hold THEN "SET" ELSE "LIFTED"
  <2>1. task[t] \in HoldTasks /\ f \in Rows /\ f \in Files /\ TaskAt(t, "holdlog")
    BY <1>9, TaskFacts, TaskShape DEF LogHold, TaskAt
  <2>2. /\ task' = [task EXCEPT ![t] = NoTask] /\ holdLog' = [holdLog EXCEPT ![f] = log]
        /\ UNCHANGED <<file, failed, overlapped>> /\ Rows' = Rows
    BY <1>9 DEF LogHold, Ends, Rows
  <2>3. task[t].hold \in BOOLEAN /\ (task[t].hold = (log = "SET")) /\ log # "none"
    BY <2>1 DEF HoldTasks
  <2> HIDE DEF log, f
  <2>4. task'[t] = NoTask /\ (\A x \in Tasks \ {t} : task'[x] = task[x]) /\ NoTask \notin HoldTasks
    BY <2>2, TaskFacts, NoRecordAssumption DEF TaskRecords
  <2>5. holdLog'[f] = log /\ \A g \in Files \ {f} : holdLog'[g] = holdLog[g]
    BY <2>1, <2>2 DEF FilesTypeInv, FilesTypeOK
  <2>6. \A g, x : x \in Holding(g)' <=> x \in Holding(g) /\ x # t
    BY <1>0, <2>4
  <2>7. \A x \in Tasks : TaskAt(x, "holdlog")' <=> TaskAt(x, "holdlog") /\ x # t
    BY <2>4 DEF TaskAt
  <2>8. \A g \in Files : holdLog'[g] # "none" => g \in Rows'
    BY <2>1, <2>2, <2>5 DEF HoldFollows
  <2> SUFFICES ASSUME ~overlapped', ~failed'
               PROVE  /\ \A g \in Files : \A a, x \in Holding(g)' : a = x
                      /\ \A a \in Tasks : TaskAt(a, "holdlog")' => file'[task'[a].holds].hold = task'[a].hold
                      /\ \A g \in Rows' : \/ holdLog'[g] = "none" \/ file'[g].hold = (holdLog'[g] = "SET")
                                          \/ \E a \in Holding(g)' : TaskAt(a, "holdlog")'
    BY <2>8 DEF HoldFollows
  <2>9. ~overlapped /\ ~failed
    BY <2>2
  <2>10. \A g \in Files : \A a, x \in Holding(g)' : a = x
    BY <2>6, <2>9 DEF HoldFollows
  <2>11. \A a \in Tasks : TaskAt(a, "holdlog")' => file'[task'[a].holds].hold = task'[a].hold
    BY <2>2, <2>4, <2>7, <2>9 DEF HoldFollows
  <2>12. ASSUME NEW g \in Rows'
         PROVE  \/ holdLog'[g] = "none" \/ file'[g].hold = (holdLog'[g] = "SET")
                \/ \E a \in Holding(g)' : TaskAt(a, "holdlog")'
    <3>1. CASE g = f
      <4>1. file[f].hold = task[t].hold
        BY <2>1, <2>9 DEF HoldFollows, f
      <4> QED  BY <2>2, <2>3, <2>5, <3>1, <4>1
    <3>2. CASE g # f
      <4>1. g \in Rows /\ g \in Files /\ holdLog'[g] = holdLog[g] /\ file'[g] = file[g]
        BY <2>2, <2>5, <3>2, TaskFacts
      <4>2. \/ holdLog[g] = "none" \/ file[g].hold = (holdLog[g] = "SET")
            \/ \E a \in Holding(g) : TaskAt(a, "holdlog")
        BY <2>9, <4>1 DEF HoldFollows
      <4>3. ASSUME NEW a \in Holding(g), TaskAt(a, "holdlog")
            PROVE  a \in Holding(g)' /\ TaskAt(a, "holdlog")'
        <5>1. a # t /\ a \in Tasks
          BY <1>0, <3>2, <4>3 DEF f
        <5> QED  BY <2>6, <2>7, <4>3, <5>1
      <4> QED  BY <4>1, <4>2, <4>3
    <3> QED  BY <3>1, <3>2
  <2> QED  BY <2>10, <2>11, <2>12
<1> QED  BY <1>2, <1>3, <1>4, <1>5, <1>6, <1>7, <1>8, <1>9 DEF FilesNext

\* However uploads overlap and fail, the bytes stored once under the name of a file
\* are those its row has the hash of (evidence-file.service.ts upload).
THEOREM StoredFilesVerify == FilesSpec => []FilesVerifiable
<1>1. BytesKept => FilesVerifiable
  BY DEF BytesKept, FilesVerifiable
<1> QED  BY <1>1, InitFiles, FilesTypeStep, BytesStep, PTL DEF FilesSpec

\* The same, and at rest the custody log has every file and bundle and the present
\* value of every hold, unless a step failed between a row and its event or two
\* changes of one hold overlapped (upload, requestExportBundle, setLegalHold).
THEOREM FilesStayAccounted == FilesSpec => []FilesAccounted
<1>1. FilesTypeInv /\ CustodyFollows /\ HoldFollows => CustodyComplete
  <2> SUFFICES ASSUME FilesTypeInv, CustodyFollows, HoldFollows, Quiet, ~failed
               PROVE  /\ \A f \in Rows : <<"UPLOADED", f>> \in custody
                      /\ \A k \in DOMAIN bundle : <<"PERSISTED", k>> \in custody
                      /\ ~overlapped => \A f \in Rows :
                            holdLog[f] # "none" => file[f].hold = (holdLog[f] = "SET")
    BY DEF CustodyComplete
  <2>1. \A t \in Tasks : task[t] = NoTask
    BY DEF Quiet, IdleTask
  <2>2. \A e : Accounted(e) => e \in custody
    BY <2>1 DEF Accounted, TaskAt
  <2>3. \A f : Holding(f) = {}
    BY <2>1 DEF Holding
  <2> QED  BY <2>2, <2>3 DEF CustodyFollows, HoldFollows
<1>2. BytesKept => FilesVerifiable
  BY DEF BytesKept, FilesVerifiable
<1> QED  BY <1>1, <1>2, InitFiles, FilesTypeStep, BytesStep, CustodyStep, HoldStep, PTL
         DEF FilesSpec, FilesAccounted

-----------------------------------------------------------------------------
(* The intake and the review of signals. *)

\* A request names rows that exist; a reviewer's item is one of the signal.
CallRefers(c) ==
    LET r == call[c] IN
    /\ r \in IntakeCalls =>
          /\ r.at = "write" => (r.signal = 0 \/ (r.signal \in DOMAIN signals /\ r.row \in SignalRows))
          /\ r.at # "write" => r.signal \in DOMAIN signals
    /\ r \in ClaimCalls => r.item \in DOMAIN queue
    /\ r \in ReviewCalls => r.signal \in DOMAIN signals /\ r.item \in {0} \union ItemsOf(r.signal)

SignalTypeInv ==
    /\ signals \in Seq(SignalRows) /\ queue \in Seq(QueueRows) /\ reports \in Nat
    /\ \A i \in DOMAIN queue : queue[i].signal \in DOMAIN signals
    /\ call \in [Callers -> CallRecords \union {NoCall}]
    /\ \A c \in Callers : CallRefers(c)

\* Requests that are in progress together were noted.
OverlapsNoted ==
    \A c, d \in Callers : c # d /\ call[c] # NoCall /\ call[d] # NoCall =>
        {call[c].kind, call[d].kind} \in mixed

\* An intake that has not written yet read the count as it still is.
CountsFollow ==
    {"intake"} \notin mixed =>
        /\ Len(signals) <= 1
        /\ signals = <<>> => reports = 0
        /\ \A s \in DOMAIN signals : signals[s].count = reports
        /\ \A c \in Callers : call[c] \in IntakeCalls /\ call[c].at = "write" =>
              \/ call[c].signal = 0 /\ signals = <<>>
              \/ call[c].signal = 1 /\ call[c].row.count = reports

Deciding(c) == call[c] \in ReviewCalls /\ call[c].at \in {"look", "close"}
Matches(i, status) ==
    queue[i].decision \in DOMAIN DECISION_STATUS /\ DECISION_STATUS[queue[i].decision] = status

\* A decision is on record, or the review that took it is about to record it.
DecisionsFollow ==
    {"review"} \notin mixed /\ "review" \notin broken =>
        /\ \A s \in DOMAIN signals : signals[s].status \notin Triage =>
              \/ \E i \in ItemsOf(s) : Matches(i, signals[s].status)
              \/ \E c \in Callers : /\ Deciding(c) /\ call[c].signal = s
                                    /\ DECISION_STATUS[call[c].decision] = signals[s].status
        /\ \A c \in Callers : Deciding(c) =>
              signals[call[c].signal].status \in Triage \union {DECISION_STATUS[call[c].decision]}

\* An intake that is about to put its signal into the queue.
Queueing(c, s) ==
    /\ call[c] \in IntakeCalls /\ call[c].signal = s
    /\ call[c].at \in {"look", "queue"} \/ (call[c].at = "append" /\ call[c].status \in HighRisk)

\* A suspicious signal has an open item or an intake that is about to make one; a
\* reviewer that closes items has decided, and no intake ran since.
QueueFollows ==
    {"intake", "review"} \notin mixed /\ "intake" \notin broken =>
        /\ \A s \in DOMAIN signals : signals[s].status \in HighRisk =>
              (\E i \in ItemsOf(s) : Open(i)) \/ \E c \in Callers : Queueing(c, s)
        /\ \A c \in Callers : Deciding(c) => signals[call[c].signal].status \notin HighRisk

\* A row at the end of a table.
LEMMA AppendKeeps ==
    ASSUME NEW S, NEW q \in Seq(S), NEW e \in S
    PROVE  /\ Append(q, e) \in Seq(S) /\ Len(q) \in Nat /\ Len(q) + 1 \notin DOMAIN q
           /\ DOMAIN Append(q, e) = DOMAIN q \union {Len(q) + 1}
           /\ Append(q, e)[Len(q) + 1] = e
           /\ \A i \in DOMAIN q : Append(q, e)[i] = q[i] /\ i \in Nat \ {0} /\ i <= Len(q)
           /\ Len(Append(q, e)) = Len(q) + 1
  OBVIOUS

\* A row of a table is written over.
LEMMA ExceptKeeps ==
    ASSUME NEW S, NEW q \in Seq(S), NEW i \in DOMAIN q, NEW e \in S
    PROVE  /\ [q EXCEPT ![i] = e] \in Seq(S) /\ DOMAIN [q EXCEPT ![i] = e] = DOMAIN q
           /\ [q EXCEPT ![i] = e][i] = e /\ Len([q EXCEPT ![i] = e]) = Len(q)
           /\ \A j \in DOMAIN q \ {i} : [q EXCEPT ![i] = e][j] = q[j]
  OBVIOUS

\* The kind of a request says which record it is.
LEMMA CallShape ==
    ASSUME SignalTypeInv, NEW c \in Callers
    PROVE  /\ call[c] # NoCall => call[c] \in CallRecords
           /\ call[c] # NoCall /\ call[c].kind = "intake" => call[c] \in IntakeCalls
           /\ call[c] # NoCall /\ call[c].kind = "assign" => call[c] \in ClaimCalls
           /\ call[c] # NoCall /\ call[c].kind = "review" => call[c] \in ReviewCalls
           /\ CallRefers(c)
           /\ \A r : call' = [call EXCEPT ![c] = r] =>
                 call'[c] = r /\ \A d \in Callers \ {c} : call'[d] = call[d]
<1>1. call \in [Callers -> CallRecords \union {NoCall}] /\ CallRefers(c)
  BY DEF SignalTypeInv
<1>2. ASSUME call[c] # NoCall
      PROVE  /\ call[c] \in CallRecords
             /\ call[c].kind = "intake" => call[c] \in IntakeCalls
             /\ call[c].kind = "assign" => call[c] \in ClaimCalls
             /\ call[c].kind = "review" => call[c] \in ReviewCalls
  BY <1>1, <1>2 DEF CallRecords, IntakeCalls, ClaimCalls, ReviewCalls
<1> QED  BY <1>1, <1>2

\* One request moves; the tables keep their rows, and grow.
LEMMA SignalTypesKept ==
    ASSUME SignalTypeInv, NEW c \in Callers, NEW r \in CallRecords \union {NoCall},
           call' = [call EXCEPT ![c] = r],
           signals' \in Seq(SignalRows), queue' \in Seq(QueueRows), reports' \in Nat,
           DOMAIN signals \subseteq DOMAIN signals',
           \A i \in DOMAIN queue' : queue'[i].signal \in DOMAIN signals',
           \A i \in DOMAIN queue : i \in DOMAIN queue' /\ queue'[i].signal = queue[i].signal,
           r \in IntakeCalls =>
              /\ r.at = "write" => (r.signal = 0 \/ (r.signal \in DOMAIN signals' /\ r.row \in SignalRows))
              /\ r.at # "write" => r.signal \in DOMAIN signals',
           r \in ClaimCalls => r.item \in DOMAIN queue',
           r \in ReviewCalls =>
              /\ r.signal \in DOMAIN signals'
              /\ r.item = 0 \/ (r.item \in DOMAIN queue' /\ queue'[r.item].signal = r.signal)
    PROVE  SignalTypeInv' /\ \A s : ItemsOf(s) \subseteq {i \in DOMAIN queue' : queue'[i].signal = s}
<1>1. \A s : ItemsOf(s) \subseteq {i \in DOMAIN queue' : queue'[i].signal = s}
  BY DEF ItemsOf
<1>2. call' \in [Callers -> CallRecords \union {NoCall}] /\ call'[c] = r
      /\ \A d \in Callers \ {c} : call'[d] = call[d]
  BY DEF SignalTypeInv
<1>3. ASSUME NEW d \in Callers
      PROVE  CallRefers(d)'
  <2>1. CASE d = c
    BY <1>2, <2>1 DEF CallRefers, ItemsOf
  <2>2. CASE d # c
    <3>1. CallRefers(d) /\ call'[d] = call[d]
      BY <1>2, <2>2 DEF SignalTypeInv
    <3>2. \A s : s \in DOMAIN signals => s \in DOMAIN signals'
      OBVIOUS
    <3> QED  BY <1>1, <3>1, <3>2 DEF CallRefers, ItemsOf
  <2> QED  BY <2>1, <2>2
<1> QED  BY <1>1, <1>2, <1>3 DEF SignalTypeInv

\* What the public or a partner reports about an indicator nobody reported.
LEMMA InitSignals ==
    SignalReviewInit =>
        SignalTypeInv /\ OverlapsNoted /\ CountsFollow /\ DecisionsFollow /\ QueueFollows
<1> SUFFICES ASSUME SignalReviewInit
             PROVE  SignalTypeInv /\ OverlapsNoted /\ CountsFollow /\ DecisionsFollow /\ QueueFollows
  OBVIOUS
<1>1. /\ signals = <<>> /\ queue = <<>> /\ reports = 0 /\ \A c \in Callers : call[c] = NoCall
      /\ call \in [Callers -> CallRecords \union {NoCall}]
  BY DEF SignalReviewInit
<1>2. <<>> \in Seq(SignalRows) /\ <<>> \in Seq(QueueRows) /\ Len(<<>>) = 0 /\ DOMAIN <<>> = {}
  OBVIOUS
<1>3. NoCall \notin IntakeCalls /\ NoCall \notin ClaimCalls /\ NoCall \notin ReviewCalls
  BY NoCallAssumption DEF CallRecords
<1>4. SignalTypeInv
  BY <1>1, <1>2, <1>3 DEF SignalTypeInv, CallRefers
<1>5. OverlapsNoted
  BY <1>1 DEF OverlapsNoted
<1>6. CountsFollow /\ DecisionsFollow /\ QueueFollows
  BY <1>1, <1>2, <1>3 DEF CountsFollow, DecisionsFollow, QueueFollows, Deciding
<1> QED  BY <1>4, <1>5, <1>6

\* How the requests begin.
LEMMA IntakeFacts ==
    ASSUME SignalTypeInv, NEW c \in Callers, intake(c)
    PROVE  \E r \in IntakeCalls :
              /\ call' = [call EXCEPT ![c] = r] /\ call[c] = NoCall /\ r.at = "write"
              /\ \/ r.signal = 0 /\ signals = <<>>
                 \/ r.signal = 1 /\ 1 \in DOMAIN signals /\ r.row = signals[1] /\ r.row \in SignalRows
              /\ mixed \subseteq mixed'
              /\ \A d \in Callers : call[d] # NoCall => {r.kind, call[d].kind} \in mixed'
              /\ UNCHANGED <<signals, queue, reports, broken>>
<1> PICK base \in Bases, dto \in Reports :
       BeginCall(c, [kind |-> "intake", at |-> "write", base |-> base, dto |-> dto,
                     signal |-> IF signals = <<>> THEN 0 ELSE 1,
                     row |-> IF signals = <<>> THEN NoSignal ELSE signals[1], status |-> "none"])
  BY DEF intake
<1> DEFINE signal == IF signals = <<>> THEN 0 ELSE 1
           row == IF signals = <<>> THEN NoSignal ELSE signals[1]
           r == [kind |-> "intake", at |-> "write", base |-> base, dto |-> dto, signal |-> signal,
                 row |-> row, status |-> "none"]
<1>1. base \in 0..100
  <2> PICK t : base = BaseOf(t)
    BY DEF Bases
  <2>1. t \in DOMAIN Profiles => BaseOf(t) \in 0..100
    BY SignalReviewAssumption DEF BaseOf
  <2>2. t \notin DOMAIN Profiles => BaseOf(t) = 35
    BY DEF BaseOf
  <2>3. 35 \in 0..100
    BY SMT
  <2> QED  BY <2>1, <2>2, <2>3
<1>2. signals # <<>> => 1 \in DOMAIN signals /\ signals[1] \in SignalRows
  BY DEF SignalTypeInv
<1>3. signal \in Nat /\ row \in SignalRows \union {NoSignal}
      /\ \/ signal = 0 /\ signals = <<>>
         \/ signal = 1 /\ 1 \in DOMAIN signals /\ row = signals[1] /\ row \in SignalRows
  BY <1>2
<1>4. BeginCall(c, r)
  OBVIOUS
<1> HIDE DEF signal, row
<1>5. r \in IntakeCalls /\ r.kind = "intake" /\ r.at = "write" /\ r.signal = signal /\ r.row = row
  BY <1>1, <1>3 DEF IntakeCalls
<1> HIDE DEF r
<1> QED  BY <1>3, <1>4, <1>5 DEF BeginCall, intake

\* assign() takes an item of the queue and meets every call under way.
LEMMA AssignFacts ==
    ASSUME SignalTypeInv, NEW c \in Callers, assign(c)
    PROVE  \E r \in ClaimCalls :
              /\ call' = [call EXCEPT ![c] = r] /\ call[c] = NoCall /\ r.item \in DOMAIN queue
              /\ mixed \subseteq mixed'
              /\ \A d \in Callers : call[d] # NoCall => {r.kind, call[d].kind} \in mixed'
              /\ UNCHANGED <<signals, queue, reports, broken>>
<1> PICK i \in DOMAIN queue : BeginCall(c, [kind |-> "assign", at |-> "write", item |-> i])
  BY DEF assign
<1> DEFINE r == [kind |-> "assign", at |-> "write", item |-> i]
<1>1. i \in Nat
  BY DEF SignalTypeInv
<1>2. r \in ClaimCalls /\ r.kind = "assign" /\ r.item = i
  BY <1>1 DEF ClaimCalls
<1>3. BeginCall(c, r)
  OBVIOUS
<1> HIDE DEF r
<1> QED  BY <1>2, <1>3 DEF BeginCall, assign

\* reviewSignal() takes a signal and a decision and meets every call under way.
LEMMA ReviewFacts ==
    ASSUME SignalTypeInv, NEW c \in Callers, reviewSignal(c)
    PROVE  \E r \in ReviewCalls :
              /\ call' = [call EXCEPT ![c] = r] /\ call[c] = NoCall /\ r.at = "write"
              /\ r.signal \in DOMAIN signals /\ r.item = 0
              /\ mixed \subseteq mixed'
              /\ \A d \in Callers : call[d] # NoCall => {r.kind, call[d].kind} \in mixed'
              /\ UNCHANGED <<signals, queue, reports, broken>>
<1> PICK s \in DOMAIN signals, d \in DOMAIN DECISION_STATUS :
       BeginCall(c, [kind |-> "review", at |-> "write", signal |-> s, decision |-> d,
                     candidate |-> signals[s].candidate, item |-> 0])
  BY DEF reviewSignal
<1> DEFINE candidate == signals[s].candidate
           r == [kind |-> "review", at |-> "write", signal |-> s, decision |-> d,
                 candidate |-> candidate, item |-> 0]
<1>1. s \in Nat /\ signals[s] \in SignalRows
  BY DEF SignalTypeInv
<1>2. candidate \in BOOLEAN
  BY <1>1 DEF SignalRows
<1>3. BeginCall(c, r)
  OBVIOUS
<1> HIDE DEF candidate
<1>4. r \in ReviewCalls /\ r.kind = "review" /\ r.at = "write" /\ r.signal = s /\ r.item = 0
  BY <1>1, <1>2 DEF ReviewCalls
<1> HIDE DEF r
<1> QED  BY <1>3, <1>4 DEF BeginCall, reviewSignal

\* The write of an intake: one row is new or counted up, with a status of the triage.
WritesSignal(c, s, new, r) ==
    /\ call[c] \in IntakeCalls /\ call[c].at = "write"
    /\ call' = [call EXCEPT ![c] = r]
    /\ r.at = "append" /\ r.signal = s /\ r.status = new.status /\ new.status \in Triage
    /\ signals' \in Seq(SignalRows) /\ DOMAIN signals' = DOMAIN signals \union {s}
    /\ signals'[s] = new /\ \A x \in DOMAIN signals \ {s} : signals'[x] = signals[x]
    /\ call[c].signal = 0 =>
          s = Len(signals) + 1 /\ new.count = 1 /\ Len(signals') = Len(signals) + 1
    /\ call[c].signal # 0 =>
          /\ s = call[c].signal /\ s \in DOMAIN signals /\ Len(signals') = Len(signals)
          /\ new.count = call[c].row.count + 1
    /\ UNCHANGED <<queue, mixed, broken>> /\ reports' = reports + 1

\* The write of an intake is the creation or the count described above.
LEMMA WriteSignalFacts ==
    ASSUME SignalTypeInv, NEW c \in Callers, WriteSignal(c)
    PROVE  \E s \in Nat, new \in SignalRows, r \in IntakeCalls : WritesSignal(c, s, new, r)
<1> DEFINE r == call[c]
           known == r.signal # 0
           old == IF known THEN r.row ELSE NoSignal
           candidate == known /\ signals[r.signal].candidate
           desc == old.desc \/ r.dto.desc
           raw == old.raw \/ r.dto.raw
           cat == old.cat \/ r.dto.cat
           row == [count |-> old.count + 1, desc |-> desc, raw |-> raw, cat |-> cat,
                   status |-> "none", candidate |-> candidate]
           status == deriveStatus(row.count, scoreSignal(r.base, row))
           new == [row EXCEPT !.status = status]
           s == IF known THEN r.signal ELSE Len(signals) + 1
           next == [r EXCEPT !.at = "append", !.status = status, !.signal = s]
<1>1. r \in IntakeCalls /\ r.at = "write" /\ CallRefers(c)
  BY CallShape DEF WriteSignal
<1>2. known => r.signal \in DOMAIN signals /\ r.row \in SignalRows
  BY <1>1 DEF CallRefers
<1>3. r.dto.desc \in BOOLEAN /\ r.dto.raw \in BOOLEAN /\ r.dto.cat \in BOOLEAN
  BY <1>1, SignalReviewAssumption DEF IntakeCalls
<1>4. old.count \in Nat /\ old.desc \in BOOLEAN /\ old.raw \in BOOLEAN /\ old.cat \in BOOLEAN
      /\ (~known => old.count = 0) /\ (known => old.count = r.row.count)
  BY <1>2 DEF SignalRows, NoSignal
<1>5. status \in Triage
  BY DEF deriveStatus, Triage
<1>6. signals' = IF known THEN [signals EXCEPT ![r.signal] = new] ELSE Append(signals, new)
  BY DEF WriteSignal
<1>7. /\ call' = [call EXCEPT ![c].at = "append", ![c].status = status,
                              ![c].signal = IF known THEN @ ELSE Len(signals) + 1]
      /\ reports' = reports + 1 /\ UNCHANGED <<queue, mixed, broken>>
  BY DEF WriteSignal
<1>8. call' = [call EXCEPT ![c] = next]
  BY <1>1, <1>7 DEF IntakeCalls
<1> HIDE DEF status
<1>9. candidate \in BOOLEAN /\ desc \in BOOLEAN /\ raw \in BOOLEAN /\ cat \in BOOLEAN
  OBVIOUS
<1>10. new \in SignalRows /\ new.count = old.count + 1 /\ new.status = status
  <2> HIDE DEF candidate, desc, raw, cat, old, r
  <2> QED  BY <1>4, <1>5, <1>9 DEF SignalRows, SignalStatuses
<1>11. Len(signals) \in Nat /\ signals \in Seq(SignalRows)
  BY DEF SignalTypeInv
<1>12. s \in Nat
  BY <1>1, <1>11 DEF IntakeCalls
<1>13. /\ next \in IntakeCalls /\ next.at = "append" /\ next.signal = s /\ next.status = status
  <2> HIDE DEF s
  <2> QED  BY <1>1, <1>5, <1>12 DEF IntakeCalls, SignalStatuses
<1> HIDE DEF new, next
<1>14. /\ signals' \in Seq(SignalRows) /\ DOMAIN signals' = DOMAIN signals \union {s}
       /\ signals'[s] = new /\ \A x \in DOMAIN signals \ {s} : signals'[x] = signals[x]
       /\ (~known => Len(signals') = Len(signals) + 1) /\ (known => Len(signals') = Len(signals))
  <2>1. CASE known
    <3>1. s \in DOMAIN signals /\ signals' = [signals EXCEPT ![s] = new]
      BY <1>2, <1>6, <2>1
    <3>2. DOMAIN signals = DOMAIN signals \union {s}
      BY <3>1
    <3> HIDE DEF s
    <3> QED  BY <1>10, <1>11, <2>1, <3>1, <3>2, ExceptKeeps
  <2>2. CASE ~known
    <3>1. s = Len(signals) + 1 /\ signals' = Append(signals, new)
      BY <1>6, <2>2
    <3> HIDE DEF s
    <3> QED  BY <1>10, <1>11, <2>2, <3>1, AppendKeeps
  <2> QED  BY <2>1, <2>2
<1>15. /\ ~known => new.count = 1
       /\ known => new.count = call[c].row.count + 1 /\ s \in DOMAIN signals
  BY <1>2, <1>4, <1>10
<1>16. /\ ~known => s = Len(signals) + 1
       /\ known => s = call[c].signal
  OBVIOUS
<1> HIDE DEF s
<1>17. known <=> call[c].signal # 0
  OBVIOUS
<1> HIDE DEF known
<1>18. WritesSignal(c, s, new, next)
  BY <1>1, <1>5, <1>7, <1>8, <1>10, <1>13, <1>14, <1>15, <1>16, <1>17 DEF WritesSignal
<1> QED  BY <1>10, <1>12, <1>13, <1>18

\* After its write an intake ends, or goes on to the queue with its signal.
LEMMA IntakeGoesOn ==
    ASSUME SignalTypeInv, NEW c \in Callers, Enrich(c) \/ LookForItem(c)
    PROVE  \E r \in IntakeCalls \union {NoCall} :
              /\ call[c] \in IntakeCalls /\ call[c].at # "write" /\ call' = [call EXCEPT ![c] = r]
              /\ r # NoCall => r.at \in {"look", "queue"} /\ r.signal = call[c].signal
              /\ UNCHANGED <<signals, queue, reports, mixed, broken>>
              /\ Enrich(c) =>
                    /\ call[c].at = "append"
                    /\ \E status \in {call[c].status, signals[call[c].signal].status} :
                          status \in HighRisk <=> r # NoCall
              /\ LookForItem(c) => (r = NoCall => \E i \in ItemsOf(call[c].signal) : Open(i))
<1>1. call[c] \in IntakeCalls /\ call[c].at # "write" /\ call[c].signal \in DOMAIN signals
  BY CallShape DEF Enrich, LookForItem, CallRefers
<1>2. UNCHANGED <<signals, queue, reports, mixed, broken>>
  BY DEF Enrich, LookForItem
<1>3. CASE Enrich(c)
  <2> PICK status \in {call[c].status, signals[call[c].signal].status} :
         IF status \in HighRisk
         THEN call' = [call EXCEPT ![c].at = "look", ![c].status = status] ELSE EndCall(c)
    BY <1>3 DEF Enrich
  <2>1. call[c].at = "append" /\ status \in SignalStatuses \union {"none"}
    <3>1. call[c].status \in SignalStatuses \union {"none"}
      BY <1>1 DEF IntakeCalls
    <3>2. signals[call[c].signal] \in SignalRows
      BY <1>1 DEF SignalTypeInv
    <3>3. signals[call[c].signal].status \in SignalStatuses
      BY <3>2 DEF SignalRows
    <3> QED  BY <1>3, <3>1, <3>3 DEF Enrich
  <2>2. CASE status \in HighRisk
    <3> DEFINE r == [call[c] EXCEPT !.at = "look", !.status = status]
    <3>0. r \in IntakeCalls /\ r.at = "look" /\ r.signal = call[c].signal
      BY <1>1, <2>1 DEF IntakeCalls
    <3>1. r # NoCall
      BY <3>0, NoCallAssumption DEF CallRecords
    <3>2. call' = [call EXCEPT ![c] = r]
      BY <2>2
    <3> HIDE DEF r
    <3>3. ~LookForItem(c)
      BY <2>1 DEF LookForItem
    <3> QED  BY <1>1, <1>2, <2>1, <2>2, <3>0, <3>1, <3>2, <3>3
  <2>3. CASE status \notin HighRisk
    <3>1. ~LookForItem(c)
      BY <2>1 DEF LookForItem
    <3>2. call' = [call EXCEPT ![c] = NoCall]
      BY <2>3 DEF EndCall
    <3> QED  BY <1>1, <1>2, <2>1, <2>3, <3>1, <3>2
  <2> QED  BY <2>2, <2>3
<1>4. CASE LookForItem(c)
  <2>1. call[c].at = "look" /\ ~Enrich(c)
    BY <1>4 DEF LookForItem, Enrich
  <2>2. CASE \E i \in ItemsOf(call[c].signal) : Open(i)
    <3>1. call' = [call EXCEPT ![c] = NoCall]
      BY <1>4, <2>2 DEF LookForItem, EndCall
    <3> QED  BY <1>1, <1>2, <2>1, <2>2, <3>1
  <2>3. CASE ~ \E i \in ItemsOf(call[c].signal) : Open(i)
    <3> DEFINE r == [call[c] EXCEPT !.at = "queue"]
    <3>1. r \in IntakeCalls /\ r.at = "queue" /\ r.signal = call[c].signal /\ r # NoCall
      BY <1>1, NoCallAssumption DEF IntakeCalls, CallRecords
    <3>2. call' = [call EXCEPT ![c] = r]
      BY <1>4, <2>3 DEF LookForItem, MoveTo
    <3> HIDE DEF r
    <3> QED  BY <1>1, <1>2, <2>1, <3>1, <3>2
  <2> QED  BY <2>2, <2>3
<1> QED  BY <1>3, <1>4

\* The item of an intake.
LEMMA QueueFacts ==
    ASSUME SignalTypeInv, NEW c \in Callers, QueueSignal(c)
    PROVE  \E i \in Nat, new \in QueueRows :
              /\ call[c] \in IntakeCalls /\ call[c].at = "queue" /\ call[c].signal \in DOMAIN signals
              /\ call' = [call EXCEPT ![c] = NoCall]
              /\ new.signal = call[c].signal /\ new.status = "PENDING"
              /\ queue' \in Seq(QueueRows) /\ DOMAIN queue' = DOMAIN queue \union {i} /\ i \notin DOMAIN queue
              /\ queue'[i] = new /\ \A x \in DOMAIN queue : queue'[x] = queue[x]
              /\ UNCHANGED <<signals, reports, mixed, broken>>
<1> DEFINE new == [signal |-> call[c].signal, status |-> "PENDING", decision |-> "none"]
           i == Len(queue) + 1
<1>1. call[c] \in IntakeCalls /\ call[c].at = "queue" /\ call[c].signal \in DOMAIN signals
  BY CallShape DEF QueueSignal, CallRefers
<1>2. new \in QueueRows /\ new.signal = call[c].signal /\ new.status = "PENDING"
  BY <1>1 DEF IntakeCalls, QueueRows
<1>3. queue' = Append(queue, new) /\ call' = [call EXCEPT ![c] = NoCall]
      /\ UNCHANGED <<signals, reports, mixed, broken>> /\ queue \in Seq(QueueRows)
  BY DEF QueueSignal, EndCall, SignalTypeInv
<1> HIDE DEF new
<1>4. i \in Nat /\ queue' \in Seq(QueueRows) /\ DOMAIN queue' = DOMAIN queue \union {i} /\ i \notin DOMAIN queue
      /\ queue'[i] = new /\ \A x \in DOMAIN queue : queue'[x] = queue[x]
  BY <1>2, <1>3, AppendKeeps
<1> HIDE DEF i
<1> QED  BY <1>1, <1>2, <1>3, <1>4

\* A claim leaves the item open.
LEMMA ClaimFacts ==
    ASSUME SignalTypeInv, NEW c \in Callers, WriteClaim(c)
    PROVE  \E i \in DOMAIN queue, new \in QueueRows :
              /\ call[c] \in ClaimCalls /\ call' = [call EXCEPT ![c] = NoCall]
              /\ new.signal = queue[i].signal /\ new.decision = queue[i].decision /\ new.status = "IN_REVIEW"
              /\ queue' \in Seq(QueueRows) /\ DOMAIN queue' = DOMAIN queue
              /\ queue'[i] = new /\ \A x \in DOMAIN queue \ {i} : queue'[x] = queue[x]
              /\ UNCHANGED <<signals, reports, mixed, broken>>
<1> DEFINE i == call[c].item
           new == [queue[i] EXCEPT !.status = "IN_REVIEW"]
<1>1. call[c] \in ClaimCalls /\ i \in DOMAIN queue
  BY CallShape DEF WriteClaim, CallRefers
<1>2. queue[i] \in QueueRows /\ queue \in Seq(QueueRows)
  BY <1>1 DEF SignalTypeInv
<1>3. /\ new \in QueueRows /\ new.signal = queue[i].signal /\ new.decision = queue[i].decision
      /\ new.status = "IN_REVIEW"
  BY <1>2 DEF QueueRows
<1>4. queue' = [queue EXCEPT ![i] = new] /\ call' = [call EXCEPT ![c] = NoCall]
      /\ UNCHANGED <<signals, reports, mixed, broken>>
  BY DEF WriteClaim, EndCall
<1> HIDE DEF new, i
<1>5. queue' \in Seq(QueueRows) /\ DOMAIN queue' = DOMAIN queue
      /\ queue'[i] = new /\ \A x \in DOMAIN queue \ {i} : queue'[x] = queue[x]
  BY <1>1, <1>2, <1>3, <1>4, ExceptKeeps
<1> QED  BY <1>1, <1>3, <1>4, <1>5

\* The decision is written over the status, whatever it is by now.
LEMMA DecisionFacts ==
    ASSUME SignalTypeInv, NEW c \in Callers, WriteDecision(c)
    PROVE  \E s \in DOMAIN signals, new \in SignalRows, r \in ReviewCalls :
              /\ call[c] \in ReviewCalls /\ call[c].at = "write" /\ call' = [call EXCEPT ![c] = r]
              /\ s = call[c].signal /\ r.signal = s /\ r.at = "look" /\ r.item = call[c].item
              /\ new.status = DECISION_STATUS[r.decision] /\ new.count = signals[s].count
              /\ signals' \in Seq(SignalRows) /\ DOMAIN signals' = DOMAIN signals
              /\ Len(signals') = Len(signals)
              /\ signals'[s] = new /\ \A x \in DOMAIN signals \ {s} : signals'[x] = signals[x]
              /\ UNCHANGED <<queue, reports, mixed, broken>>
<1> DEFINE s == call[c].signal
           status == DECISION_STATUS[call[c].decision]
           candidate == (call[c].decision = "PROMOTE_TO_VERIFIED") \/ call[c].candidate
           new == [signals[s] EXCEPT !.status = status, !.candidate = candidate]
           r == [call[c] EXCEPT !.at = "look"]
<1>1. call[c] \in ReviewCalls /\ call[c].at = "write" /\ s \in DOMAIN signals
  BY CallShape DEF WriteDecision, CallRefers
<1>2. signals[s] \in SignalRows /\ signals \in Seq(SignalRows)
  BY <1>1 DEF SignalTypeInv
<1>3. call[c].decision \in DOMAIN DECISION_STATUS
  BY <1>1 DEF ReviewCalls
<1>4. status \in SignalStatuses
  BY <1>3 DEF SignalStatuses
<1>5. r \in ReviewCalls /\ r.signal = s /\ r.at = "look" /\ r.item = call[c].item
      /\ r.decision = call[c].decision
  BY <1>1 DEF ReviewCalls
<1>6. signals' = [signals EXCEPT ![s] = new] /\ call' = [call EXCEPT ![c] = r]
      /\ UNCHANGED <<queue, reports, mixed, broken>>
  BY DEF WriteDecision, MoveTo
<1>7. candidate \in BOOLEAN
  BY <1>1 DEF ReviewCalls
<1> HIDE DEF status, candidate, r, s
<1>8. new \in SignalRows /\ new.status = status /\ new.count = signals[s].count
  BY <1>2, <1>4, <1>7 DEF SignalRows
<1> HIDE DEF new
<1>9. signals' \in Seq(SignalRows) /\ DOMAIN signals' = DOMAIN signals /\ Len(signals') = Len(signals)
      /\ signals'[s] = new /\ \A x \in DOMAIN signals \ {s} : signals'[x] = signals[x]
  BY <1>1, <1>2, <1>6, <1>8, ExceptKeeps
<1>10. new.status = DECISION_STATUS[r.decision] /\ s = call[c].signal
  BY <1>5, <1>8 DEF status, s
<1>11. s \in DOMAIN signals /\ new \in SignalRows /\ r \in ReviewCalls /\ r.signal = s /\ r.at = "look"
       /\ r.item = call[c].item /\ new.count = signals[s].count
  BY <1>1, <1>5, <1>8
<1> QED  BY <1>1, <1>6, <1>9, <1>10, <1>11

\* The look-up of the open item after a decision finds one of this signal, or none.
LEMMA FindFacts ==
    ASSUME SignalTypeInv, NEW c \in Callers, FindItem(c)
    PROVE  \E r \in ReviewCalls :
              /\ call[c] \in ReviewCalls /\ call[c].at = "look" /\ call' = [call EXCEPT ![c] = r]
              /\ r.signal = call[c].signal /\ r.at = "close" /\ r.decision = call[c].decision
              /\ r.signal \in DOMAIN signals
              /\ r.item = 0 \/ (r.item \in DOMAIN queue /\ queue[r.item].signal = r.signal)
              /\ UNCHANGED <<signals, queue, reports, mixed, broken>>
<1> DEFINE open == {i \in ItemsOf(call[c].signal) : Open(i)}
<1>1. call[c] \in ReviewCalls /\ call[c].at = "look" /\ call[c].signal \in DOMAIN signals
  BY CallShape DEF FindItem, CallRefers
<1> PICK newest \in open \union {0} : call' = [call EXCEPT ![c].at = "close", ![c].item = newest]
  BY DEF FindItem
<1> DEFINE r == [call[c] EXCEPT !.at = "close", !.item = newest]
<1>2. newest \in Nat /\ (newest = 0 \/ (newest \in DOMAIN queue /\ queue[newest].signal = call[c].signal))
  BY DEF ItemsOf, SignalTypeInv
<1>3. r \in ReviewCalls /\ r.signal = call[c].signal /\ r.at = "close" /\ r.decision = call[c].decision
      /\ r.item = newest
  BY <1>1, <1>2 DEF ReviewCalls
<1>4. call' = [call EXCEPT ![c] = r] /\ UNCHANGED <<signals, queue, reports, mixed, broken>>
  BY DEF FindItem
<1> HIDE DEF r
<1> QED  BY <1>1, <1>2, <1>3, <1>4

\* One item of the signal, an old one or a new one, gets the decision.
LEMMA CloseFacts ==
    ASSUME SignalTypeInv, NEW c \in Callers, CloseItem(c)
    PROVE  \E i \in Nat, new \in QueueRows :
              /\ call[c] \in ReviewCalls /\ call[c].at = "close" /\ call[c].signal \in DOMAIN signals
              /\ call' = [call EXCEPT ![c] = NoCall]
              /\ new.signal = call[c].signal /\ new.decision = call[c].decision
              /\ i \in DOMAIN queue => queue[i].signal = call[c].signal
              /\ queue' \in Seq(QueueRows) /\ DOMAIN queue' = DOMAIN queue \union {i}
              /\ queue'[i] = new /\ \A x \in DOMAIN queue \ {i} : queue'[x] = queue[x]
              /\ UNCHANGED <<signals, reports, mixed, broken>>
<1> DEFINE new == [signal |-> call[c].signal, status |-> "COMPLETED", decision |-> call[c].decision]
           i == IF call[c].item # 0 THEN call[c].item ELSE Len(queue) + 1
<1>1. call[c] \in ReviewCalls /\ call[c].at = "close" /\ call[c].signal \in DOMAIN signals
      /\ call[c].item \in {0} \union ItemsOf(call[c].signal)
  BY CallShape DEF CloseItem, CallRefers
<1>2. new \in QueueRows /\ new.signal = call[c].signal /\ new.decision = call[c].decision
  BY <1>1 DEF ReviewCalls, QueueRows
<1>3. /\ queue' = IF call[c].item # 0 THEN [queue EXCEPT ![call[c].item] = new] ELSE Append(queue, new)
      /\ call' = [call EXCEPT ![c] = NoCall] /\ UNCHANGED <<signals, reports, mixed, broken>>
      /\ queue \in Seq(QueueRows)
  BY DEF CloseItem, EndCall, SignalTypeInv
<1> HIDE DEF new
<1>4. CASE call[c].item # 0
  <2>1. i = call[c].item /\ i \in DOMAIN queue /\ queue[i].signal = call[c].signal
    BY <1>1, <1>4 DEF ItemsOf
  <2>2. queue' = [queue EXCEPT ![i] = new]
    BY <1>3, <1>4, <2>1
  <2> HIDE DEF i
  <2>4. i \in Nat
    BY <1>3, <2>1
  <2>5. DOMAIN queue = DOMAIN queue \union {i}
    BY <2>1
  <2>3. queue' \in Seq(QueueRows) /\ DOMAIN queue' = DOMAIN queue \union {i}
        /\ queue'[i] = new /\ \A x \in DOMAIN queue \ {i} : queue'[x] = queue[x]
    BY <1>2, <1>3, <2>1, <2>2, <2>5, ExceptKeeps
  <2> QED  BY <1>1, <1>2, <1>3, <2>1, <2>3, <2>4
<1>5. CASE call[c].item = 0
  <2>1. i = Len(queue) + 1 /\ queue' = Append(queue, new)
    BY <1>3, <1>5
  <2> HIDE DEF i
  <2>2. queue' \in Seq(QueueRows) /\ DOMAIN queue' = DOMAIN queue \union {i} /\ i \notin DOMAIN queue
        /\ queue'[i] = new /\ (\A x \in DOMAIN queue \ {i} : queue'[x] = queue[x]) /\ i \in Nat
    BY <1>2, <1>3, <2>1, AppendKeeps
  <2> QED  BY <1>1, <1>2, <1>3, <2>2
<1> QED  BY <1>4, <1>5

\* A request that begins was noted with those it overlaps; one that goes on was.
LEMMA OverlapKept ==
    ASSUME SignalTypeInv, OverlapsNoted, NEW c \in Callers, NEW r, call' = [call EXCEPT ![c] = r],
           mixed \subseteq mixed',
           r # NoCall => \/ call[c] # NoCall /\ r.kind = call[c].kind
                         \/ \A d \in Callers : call[d] # NoCall => {r.kind, call[d].kind} \in mixed'
    PROVE  OverlapsNoted'
<1>1. call'[c] = r /\ \A d \in Callers \ {c} : call'[d] = call[d]
  BY CallShape
<1> SUFFICES ASSUME NEW a \in Callers, NEW b \in Callers, a # b, call'[a] # NoCall, call'[b] # NoCall
             PROVE  {call'[a].kind, call'[b].kind} \in mixed'
  BY DEF OverlapsNoted
<1>2. \A x, y : {x, y} = {y, x}
  OBVIOUS
<1>3. CASE a # c /\ b # c
  BY <1>1, <1>3 DEF OverlapsNoted
<1>4. ASSUME NEW d \in Callers, d # c, r # NoCall, call[d] # NoCall
      PROVE  {r.kind, call[d].kind} \in mixed'
  BY <1>4 DEF OverlapsNoted
<1>5. CASE a = c
  BY <1>1, <1>4, <1>5
<1>6. CASE b = c
  <2>1. {call'[b].kind, call'[a].kind} \in mixed'
    BY <1>1, <1>4, <1>6
  <2> QED  BY <1>2, <2>1
<1> QED  BY <1>3, <1>5, <1>6

\* The three kinds of requests, and none.
LEMMA CallKinds ==
      /\ \A r \in IntakeCalls : r.kind = "intake" /\ r \in CallRecords /\ r \notin ClaimCalls /\ r \notin ReviewCalls
      /\ \A r \in ClaimCalls : r.kind = "assign" /\ r \in CallRecords /\ r \notin IntakeCalls /\ r \notin ReviewCalls
      /\ \A r \in ReviewCalls : r.kind = "review" /\ r \in CallRecords /\ r \notin IntakeCalls /\ r \notin ClaimCalls
      /\ NoCall \notin IntakeCalls /\ NoCall \notin ClaimCalls /\ NoCall \notin ReviewCalls
<1>1. \A r \in IntakeCalls : r.kind = "intake"
  BY DEF IntakeCalls
<1>2. \A r \in ClaimCalls : r.kind = "assign"
  BY DEF ClaimCalls
<1>3. \A r \in ReviewCalls : r.kind = "review"
  BY DEF ReviewCalls
<1> QED  BY <1>1, <1>2, <1>3, NoCallAssumption DEF CallRecords

\* Two requests in progress together: which pair of kinds was noted.
LEMMA Overlapping ==
    ASSUME SignalTypeInv, OverlapsNoted, NEW c \in Callers, NEW d \in Callers, c # d
    PROVE  /\ call[c] \in IntakeCalls /\ call[d] \in IntakeCalls => {"intake"} \in mixed
           /\ call[c] \in ReviewCalls /\ call[d] \in ReviewCalls => {"review"} \in mixed
           /\ call[c] \in IntakeCalls /\ call[d] \in ReviewCalls => {"intake", "review"} \in mixed
<1>1. call[c] # NoCall /\ call[d] # NoCall => {call[c].kind, call[d].kind} \in mixed
  BY DEF OverlapsNoted
<1>2. \A x : {x, x} = {x}
  OBVIOUS
<1> QED  BY <1>1, <1>2, CallKinds

\* Each action keeps the types of the tables and requests, and notes the overlaps.
LEMMA SignalTypeStep ==
    SignalTypeInv /\ OverlapsNoted /\ [SignalReviewNext]_signalVars => SignalTypeInv' /\ OverlapsNoted'
<1> SUFFICES ASSUME SignalTypeInv, OverlapsNoted, [SignalReviewNext]_signalVars
             PROVE  SignalTypeInv' /\ OverlapsNoted'
  OBVIOUS
<1>0. /\ signals \in Seq(SignalRows) /\ queue \in Seq(QueueRows) /\ reports \in Nat
      /\ \A i \in DOMAIN queue : queue[i].signal \in DOMAIN signals
  BY DEF SignalTypeInv
<1>1. ASSUME NEW c \in Callers, intake(c)
      PROVE  SignalTypeInv' /\ OverlapsNoted'
  <2> PICK r \in IntakeCalls :
         /\ call' = [call EXCEPT ![c] = r] /\ call[c] = NoCall /\ r.at = "write"
         /\ r.signal = 0 \/ (r.signal = 1 /\ 1 \in DOMAIN signals /\ r.row \in SignalRows)
         /\ mixed \subseteq mixed'
         /\ \A d \in Callers : call[d] # NoCall => {r.kind, call[d].kind} \in mixed'
         /\ UNCHANGED <<signals, queue, reports, broken>>
    BY <1>1, IntakeFacts
  <2> QED  BY <1>0, CallKinds, SignalTypesKept, OverlapKept
<1>2. ASSUME NEW c \in Callers, assign(c)
      PROVE  SignalTypeInv' /\ OverlapsNoted'
  <2> PICK r \in ClaimCalls :
         /\ call' = [call EXCEPT ![c] = r] /\ r.item \in DOMAIN queue
         /\ mixed \subseteq mixed'
         /\ \A d \in Callers : call[d] # NoCall => {r.kind, call[d].kind} \in mixed'
         /\ UNCHANGED <<signals, queue, reports, broken>>
    BY <1>2, AssignFacts
  <2> QED  BY <1>0, CallKinds, SignalTypesKept, OverlapKept
<1>3. ASSUME NEW c \in Callers, reviewSignal(c)
      PROVE  SignalTypeInv' /\ OverlapsNoted'
  <2> PICK r \in ReviewCalls :
         /\ call' = [call EXCEPT ![c] = r] /\ r.signal \in DOMAIN signals /\ r.item = 0
         /\ mixed \subseteq mixed'
         /\ \A d \in Callers : call[d] # NoCall => {r.kind, call[d].kind} \in mixed'
         /\ UNCHANGED <<signals, queue, reports, broken>>
    BY <1>3, ReviewFacts
  <2> QED  BY <1>0, CallKinds, SignalTypesKept, OverlapKept
<1>4. ASSUME NEW c \in Callers, WriteSignal(c)
      PROVE  SignalTypeInv' /\ OverlapsNoted'
  <2> PICK s \in Nat, new \in SignalRows, r \in IntakeCalls : WritesSignal(c, s, new, r)
    BY <1>4, WriteSignalFacts
  <2>0. /\ call[c] \in IntakeCalls /\ call' = [call EXCEPT ![c] = r] /\ r.at = "append" /\ r.signal = s
        /\ signals' \in Seq(SignalRows) /\ DOMAIN signals' = DOMAIN signals \union {s}
        /\ UNCHANGED <<queue, mixed, broken>> /\ reports' = reports + 1
    BY DEF WritesSignal
  <2>1. /\ s \in DOMAIN signals' /\ DOMAIN signals \subseteq DOMAIN signals' /\ reports' \in Nat
        /\ r.kind = call[c].kind /\ call[c] # NoCall /\ r.at # "write"
    BY <1>0, CallKinds, <2>0
  <2> QED  BY <1>0, CallKinds, <2>0, <2>1, SignalTypesKept, OverlapKept
<1>5. ASSUME NEW c \in Callers, Enrich(c) \/ LookForItem(c)
      PROVE  SignalTypeInv' /\ OverlapsNoted'
  <2> PICK r \in IntakeCalls \union {NoCall} :
         /\ call[c] \in IntakeCalls /\ call[c].at # "write" /\ call' = [call EXCEPT ![c] = r]
         /\ r # NoCall => r.at \in {"look", "queue"} /\ r.signal = call[c].signal
         /\ UNCHANGED <<signals, queue, reports, mixed, broken>>
    BY <1>5, IntakeGoesOn
  <2>1. call[c].signal \in DOMAIN signals
    BY CallShape DEF CallRefers
  <2>2. CASE r = NoCall
    BY <1>0, CallKinds, <2>2, SignalTypesKept, OverlapKept
  <2>3. CASE r # NoCall
    <3>1. r \in IntakeCalls /\ r.at # "write" /\ r.signal \in DOMAIN signals
      BY <2>1, <2>3
    <3>2. r.kind = call[c].kind /\ call[c] # NoCall
      BY CallKinds, <3>1
    <3> QED  BY <1>0, CallKinds, <3>1, <3>2, SignalTypesKept, OverlapKept
  <2> QED  BY <2>2, <2>3
<1>6. ASSUME NEW c \in Callers, QueueSignal(c)
      PROVE  SignalTypeInv' /\ OverlapsNoted'
  <2> PICK i \in Nat, new \in QueueRows :
         /\ call[c].signal \in DOMAIN signals /\ call' = [call EXCEPT ![c] = NoCall]
         /\ new.signal = call[c].signal
         /\ queue' \in Seq(QueueRows) /\ DOMAIN queue' = DOMAIN queue \union {i} /\ i \notin DOMAIN queue
         /\ queue'[i] = new /\ \A x \in DOMAIN queue : queue'[x] = queue[x]
         /\ UNCHANGED <<signals, reports, mixed, broken>>
    BY <1>6, QueueFacts
  <2> QED  BY <1>0, CallKinds, SignalTypesKept, OverlapKept
<1>7. ASSUME NEW c \in Callers, WriteClaim(c)
      PROVE  SignalTypeInv' /\ OverlapsNoted'
  <2> PICK i \in DOMAIN queue, new \in QueueRows :
         /\ call' = [call EXCEPT ![c] = NoCall] /\ new.signal = queue[i].signal
         /\ queue' \in Seq(QueueRows) /\ DOMAIN queue' = DOMAIN queue
         /\ queue'[i] = new /\ \A x \in DOMAIN queue \ {i} : queue'[x] = queue[x]
         /\ UNCHANGED <<signals, reports, mixed, broken>>
    BY <1>7, ClaimFacts
  <2>1. \A x \in DOMAIN queue : queue'[x].signal = queue[x].signal
    OBVIOUS
  <2> QED  BY <1>0, CallKinds, <2>1, SignalTypesKept, OverlapKept
<1>8. ASSUME NEW c \in Callers, WriteDecision(c)
      PROVE  SignalTypeInv' /\ OverlapsNoted'
  <2> PICK s \in DOMAIN signals, new \in SignalRows, r \in ReviewCalls :
         /\ call[c] \in ReviewCalls /\ call' = [call EXCEPT ![c] = r]
         /\ s = call[c].signal /\ r.signal = s /\ r.item = call[c].item
         /\ signals' \in Seq(SignalRows) /\ DOMAIN signals' = DOMAIN signals
         /\ UNCHANGED <<queue, reports, mixed, broken>>
    BY <1>8, DecisionFacts
  <2>1. r.item = 0 \/ (r.item \in DOMAIN queue /\ queue[r.item].signal = r.signal)
    BY CallShape DEF CallRefers, ItemsOf
  <2>2. r.kind = call[c].kind /\ call[c] # NoCall
    BY CallKinds
  <2> QED  BY <1>0, CallKinds, <2>1, <2>2, SignalTypesKept, OverlapKept
<1>9. ASSUME NEW c \in Callers, FindItem(c)
      PROVE  SignalTypeInv' /\ OverlapsNoted'
  <2> PICK r \in ReviewCalls :
         /\ call[c] \in ReviewCalls /\ call' = [call EXCEPT ![c] = r]
         /\ r.signal \in DOMAIN signals
         /\ r.item = 0 \/ (r.item \in DOMAIN queue /\ queue[r.item].signal = r.signal)
         /\ UNCHANGED <<signals, queue, reports, mixed, broken>>
    BY <1>9, FindFacts
  <2>1. r.kind = call[c].kind /\ call[c] # NoCall
    BY CallKinds
  <2> QED  BY <1>0, CallKinds, <2>1, SignalTypesKept, OverlapKept
<1>10. ASSUME NEW c \in Callers, CloseItem(c)
       PROVE  SignalTypeInv' /\ OverlapsNoted'
  <2> PICK i \in Nat, new \in QueueRows :
         /\ call[c].signal \in DOMAIN signals /\ call' = [call EXCEPT ![c] = NoCall]
         /\ new.signal = call[c].signal
         /\ i \in DOMAIN queue => queue[i].signal = call[c].signal
         /\ queue' \in Seq(QueueRows) /\ DOMAIN queue' = DOMAIN queue \union {i}
         /\ queue'[i] = new /\ \A x \in DOMAIN queue \ {i} : queue'[x] = queue[x]
         /\ UNCHANGED <<signals, reports, mixed, broken>>
    BY <1>10, CloseFacts
  <2>1. \A x \in DOMAIN queue : x \in DOMAIN queue' /\ queue'[x].signal = queue[x].signal
    OBVIOUS
  <2>2. \A x \in DOMAIN queue' : queue'[x].signal \in DOMAIN signals'
    BY <1>0
  <2> QED  BY <1>0, CallKinds, <2>1, <2>2, SignalTypesKept, OverlapKept
<1>11. ASSUME NEW c \in Callers, FailCall(c)
       PROVE  SignalTypeInv' /\ OverlapsNoted'
  <2>1. call' = [call EXCEPT ![c] = NoCall] /\ UNCHANGED <<signals, queue, reports, mixed>>
    BY <1>11 DEF FailCall, EndCall
  <2> QED  BY <1>0, CallKinds, <2>1, SignalTypesKept, OverlapKept
<1>12. CASE UNCHANGED signalVars
  BY <1>12 DEF signalVars, SignalTypeInv, OverlapsNoted, CallRefers, ItemsOf
<1> QED  BY <1>1, <1>2, <1>3, <1>4, <1>5, <1>6, <1>7, <1>8, <1>9, <1>10, <1>11, <1>12 DEF SignalReviewNext

\* A step that is no intake's: the counts stay.
LEMMA CountsKept ==
    ASSUME SignalTypeInv, CountsFollow, NEW c \in Callers, NEW r, call' = [call EXCEPT ![c] = r],
           r \in IntakeCalls => r.at # "write",
           signals' \in Seq(SignalRows), Len(signals') = Len(signals),
           \A s \in DOMAIN signals : signals'[s].count = signals[s].count,
           reports' = reports, mixed \subseteq mixed'
    PROVE  CountsFollow'
<1>1. call'[c] = r /\ \A d \in Callers \ {c} : call'[d] = call[d]
  BY CallShape
<1>2. DOMAIN signals' = DOMAIN signals /\ (signals' = <<>> <=> signals = <<>>)
  BY DEF SignalTypeInv
<1> QED  BY <1>1, <1>2 DEF CountsFollow

\* The count of the row stays the number of reports while intakes do not overlap.
LEMMA CountsStep ==
    SignalTypeInv /\ OverlapsNoted /\ CountsFollow /\ [SignalReviewNext]_signalVars => CountsFollow'
<1> SUFFICES ASSUME SignalTypeInv, OverlapsNoted, CountsFollow, [SignalReviewNext]_signalVars
             PROVE  CountsFollow'
  OBVIOUS
<1>0. signals \in Seq(SignalRows) /\ reports \in Nat
  BY DEF SignalTypeInv
<1>1. ASSUME NEW c \in Callers, intake(c)
      PROVE  CountsFollow'
  <2> PICK r \in IntakeCalls :
         /\ call' = [call EXCEPT ![c] = r]
         /\ \/ r.signal = 0 /\ signals = <<>>
            \/ r.signal = 1 /\ 1 \in DOMAIN signals /\ r.row = signals[1]
         /\ mixed \subseteq mixed' /\ UNCHANGED <<signals, queue, reports, broken>>
    BY <1>1, IntakeFacts
  <2>1. call'[c] = r /\ \A d \in Callers \ {c} : call'[d] = call[d]
    BY CallShape
  <2> QED  BY <2>1 DEF CountsFollow
<1>2. ASSUME NEW c \in Callers, WriteSignal(c)
      PROVE  CountsFollow'
  <2> PICK s \in Nat, new \in SignalRows, r \in IntakeCalls : WritesSignal(c, s, new, r)
    BY <1>2, WriteSignalFacts
  <2> SUFFICES ASSUME {"intake"} \notin mixed
               PROVE  CountsFollow'
    BY DEF WritesSignal, CountsFollow
  <2>1. call[c] \in IntakeCalls /\ call[c].at = "write" /\ call' = [call EXCEPT ![c] = r] /\ r.at = "append"
    BY DEF WritesSignal
  <2>2. call'[c] = r /\ \A d \in Callers \ {c} : call'[d] = call[d]
    BY <2>1, CallShape
  <2>3. \A d \in Callers : ~(call'[d] \in IntakeCalls /\ call'[d].at = "write")
    BY <2>1, <2>2, Overlapping
  <2>4. CASE call[c].signal = 0 /\ signals = <<>>
    <3>1. reports = 0 /\ DOMAIN signals = {} /\ Len(signals) = 0
      BY <2>4 DEF CountsFollow
    <3>2. s = 1 /\ new.count = 1 /\ reports' = 1 /\ Len(signals') = 1 /\ DOMAIN signals' = {1}
          /\ signals'[1] = new
      BY <2>4, <3>1 DEF WritesSignal
    <3> QED  BY <2>3, <3>2 DEF CountsFollow
  <2>5. CASE call[c].signal = 1 /\ call[c].row.count = reports
    <3>1. s = 1 /\ new.count = reports + 1 /\ reports' = reports + 1 /\ Len(signals') = Len(signals)
          /\ s \in DOMAIN signals /\ DOMAIN signals' = DOMAIN signals \union {s} /\ signals'[s] = new
      BY <2>5 DEF WritesSignal
    <3>2. Len(signals) <= 1
      BY DEF CountsFollow
    <3>3. DOMAIN signals = {1} /\ Len(signals') = 1 /\ signals' # <<>>
      BY <1>0, <3>1, <3>2
    <3> QED  BY <2>3, <3>1, <3>3 DEF CountsFollow
  <2> QED  BY <2>1, <2>4, <2>5 DEF CountsFollow
<1>3. ASSUME NEW c \in Callers, assign(c)
      PROVE  CountsFollow'
  BY <1>0, <1>3, AssignFacts, CallKinds, CountsKept
<1>4. ASSUME NEW c \in Callers, reviewSignal(c)
      PROVE  CountsFollow'
  BY <1>0, <1>4, ReviewFacts, CallKinds, CountsKept
<1>5. ASSUME NEW c \in Callers, Enrich(c) \/ LookForItem(c)
      PROVE  CountsFollow'
  <2> PICK r \in IntakeCalls \union {NoCall} :
         /\ call' = [call EXCEPT ![c] = r] /\ (r # NoCall => r.at \in {"look", "queue"})
         /\ UNCHANGED <<signals, queue, reports, mixed, broken>>
    BY <1>5, IntakeGoesOn
  <2> QED  BY <1>0, CallKinds, CountsKept
<1>6. ASSUME NEW c \in Callers, QueueSignal(c)
      PROVE  CountsFollow'
  <2>1. call' = [call EXCEPT ![c] = NoCall] /\ UNCHANGED <<signals, reports, mixed>>
    BY <1>6, QueueFacts
  <2> QED  BY <1>0, <2>1, CallKinds, CountsKept
<1>7. ASSUME NEW c \in Callers, WriteClaim(c)
      PROVE  CountsFollow'
  <2>1. call' = [call EXCEPT ![c] = NoCall] /\ UNCHANGED <<signals, reports, mixed>>
    BY <1>7, ClaimFacts
  <2> QED  BY <1>0, <2>1, CallKinds, CountsKept
<1>8. ASSUME NEW c \in Callers, WriteDecision(c)
      PROVE  CountsFollow'
  <2> PICK s \in DOMAIN signals, new \in SignalRows, r \in ReviewCalls :
         /\ call' = [call EXCEPT ![c] = r] /\ new.count = signals[s].count
         /\ signals' \in Seq(SignalRows) /\ Len(signals') = Len(signals)
         /\ signals'[s] = new /\ \A x \in DOMAIN signals \ {s} : signals'[x] = signals[x]
         /\ UNCHANGED <<queue, reports, mixed, broken>>
    BY <1>8, DecisionFacts
  <2>1. \A x \in DOMAIN signals : signals'[x].count = signals[x].count
    OBVIOUS
  <2> QED  BY <2>1, CallKinds, CountsKept
<1>9. ASSUME NEW c \in Callers, FindItem(c)
      PROVE  CountsFollow'
  <2> PICK r \in ReviewCalls :
         call' = [call EXCEPT ![c] = r] /\ UNCHANGED <<signals, queue, reports, mixed, broken>>
    BY <1>9, FindFacts
  <2> QED  BY <1>0, CallKinds, CountsKept
<1>10. ASSUME NEW c \in Callers, CloseItem(c)
       PROVE  CountsFollow'
  <2>1. call' = [call EXCEPT ![c] = NoCall] /\ UNCHANGED <<signals, reports, mixed>>
    BY <1>10, CloseFacts
  <2> QED  BY <1>0, <2>1, CallKinds, CountsKept
<1>11. ASSUME NEW c \in Callers, FailCall(c)
       PROVE  CountsFollow'
  <2>1. call' = [call EXCEPT ![c] = NoCall] /\ UNCHANGED <<signals, reports, mixed>>
    BY <1>11 DEF FailCall, EndCall
  <2> QED  BY <1>0, <2>1, CallKinds, CountsKept
<1>12. CASE UNCHANGED signalVars
  BY <1>12 DEF signalVars, CountsFollow
<1> QED  BY <1>1, <1>2, <1>3, <1>4, <1>5, <1>6, <1>7, <1>8, <1>9, <1>10, <1>11, <1>12 DEF SignalReviewNext

\* What a decision makes of a signal is no status of the triage.
LEMMA DecidedIsNotTriage ==
    \A d \in DOMAIN DECISION_STATUS : DECISION_STATUS[d] \in SignalStatuses \ Triage
                                      /\ DECISION_STATUS[d] \notin HighRisk
  BY DEF DECISION_STATUS, SignalStatuses, Triage, HighRisk

\* A step that decides nothing and writes no decision's status: what was decided
\* stays on record, or the review that records it goes on.
LEMMA DecisionsKept ==
    ASSUME SignalTypeInv, DecisionsFollow, NEW c \in Callers, NEW r, call' = [call EXCEPT ![c] = r],
           \/ r \in ReviewCalls /\ call[c] \in ReviewCalls /\ r.at \in {"look", "close"}
              /\ call[c].at \in {"look", "close"}
              /\ r.signal = call[c].signal /\ r.decision = call[c].decision
           \/ r \notin ReviewCalls /\ (Deciding(c) => "review" \in broken')
           \/ r \in ReviewCalls /\ r.at = "write" /\ ~Deciding(c),
           DOMAIN signals \subseteq DOMAIN signals',
           \A s \in DOMAIN signals' :
              signals'[s].status \in Triage
              \/ (s \in DOMAIN signals /\ signals'[s].status = signals[s].status),
           \A i \in DOMAIN queue : /\ i \in DOMAIN queue' /\ queue'[i].signal = queue[i].signal
                                   /\ queue'[i].decision = queue[i].decision,
           mixed \subseteq mixed', broken \subseteq broken'
    PROVE  DecisionsFollow'
<1> SUFFICES ASSUME {"review"} \notin mixed', "review" \notin broken'
             PROVE  DecisionsFollow'
  BY DEF DecisionsFollow
<1>1. call'[c] = r /\ (\A d \in Callers \ {c} : call'[d] = call[d]) /\ CallRefers(c)
  BY CallShape
<1>2. \A d \in Callers : Deciding(d)' <=> Deciding(d)
  BY <1>1 DEF Deciding
<1>3. \A d \in Callers : Deciding(d) =>
         /\ call'[d].signal = call[d].signal /\ call'[d].decision = call[d].decision
         /\ call[d].signal \in DOMAIN signals
  BY <1>1 DEF Deciding, SignalTypeInv, CallRefers
<1>4. \A s : \A i \in ItemsOf(s) : i \in ItemsOf(s)' /\ queue'[i].decision = queue[i].decision
  BY DEF ItemsOf
<1>5. ASSUME NEW s \in DOMAIN signals', signals'[s].status \notin Triage
      PROVE  \/ \E i \in ItemsOf(s)' : /\ queue'[i].decision \in DOMAIN DECISION_STATUS
                                       /\ DECISION_STATUS[queue'[i].decision] = signals'[s].status
             \/ \E d \in Callers : /\ Deciding(d)' /\ call'[d].signal = s
                                   /\ DECISION_STATUS[call'[d].decision] = signals'[s].status
  <2>1. s \in DOMAIN signals /\ signals'[s].status = signals[s].status
    BY <1>5
  <2>2. \/ \E i \in ItemsOf(s) : Matches(i, signals[s].status)
        \/ \E d \in Callers : /\ Deciding(d) /\ call[d].signal = s
                              /\ DECISION_STATUS[call[d].decision] = signals[s].status
    BY <1>5, <2>1 DEF DecisionsFollow
  <2>3. CASE \E i \in ItemsOf(s) : Matches(i, signals[s].status)
    BY <1>4, <2>1, <2>3 DEF Matches
  <2>4. CASE \E d \in Callers : /\ Deciding(d) /\ call[d].signal = s
                                /\ DECISION_STATUS[call[d].decision] = signals[s].status
    BY <1>2, <1>3, <2>1, <2>4
  <2> QED  BY <2>2, <2>3, <2>4
<1>6. ASSUME NEW d \in Callers, Deciding(d)'
      PROVE  signals'[call'[d].signal].status \in Triage \union {DECISION_STATUS[call'[d].decision]}
  <2>1. Deciding(d) /\ call[d].signal \in DOMAIN signals'
    BY <1>2, <1>3, <1>6
  <2>2. signals[call[d].signal].status \in Triage \union {DECISION_STATUS[call[d].decision]}
    BY <2>1 DEF DecisionsFollow
  <2>3. call'[d].signal = call[d].signal /\ call'[d].decision = call[d].decision
    BY <1>3, <2>1
  <2> QED  BY <2>1, <2>2, <2>3
<1> QED  BY <1>5, <1>6 DEF DecisionsFollow, Matches

\* What a reviewer decided stays on record, or on its way to it, while reviews do
\* not overlap and none fails half way.
LEMMA DecisionsStep ==
    SignalTypeInv /\ OverlapsNoted /\ DecisionsFollow /\ [SignalReviewNext]_signalVars => DecisionsFollow'
<1> SUFFICES ASSUME SignalTypeInv, OverlapsNoted, DecisionsFollow, [SignalReviewNext]_signalVars
             PROVE  DecisionsFollow'
  OBVIOUS
<1>1. ASSUME NEW c \in Callers, intake(c)
      PROVE  DecisionsFollow'
  <2> PICK r \in IntakeCalls : /\ call' = [call EXCEPT ![c] = r] /\ call[c] = NoCall
                               /\ mixed \subseteq mixed' /\ UNCHANGED <<signals, queue, reports, broken>>
    BY <1>1, IntakeFacts
  <2>1. r \notin ReviewCalls /\ ~Deciding(c)
    BY CallKinds DEF Deciding
  <2> QED  BY <2>1, DecisionsKept
<1>2. ASSUME NEW c \in Callers, WriteSignal(c)
      PROVE  DecisionsFollow'
  <2> PICK s \in Nat, new \in SignalRows, r \in IntakeCalls : WritesSignal(c, s, new, r)
    BY <1>2, WriteSignalFacts
  <2>1. /\ call[c] \in IntakeCalls /\ call' = [call EXCEPT ![c] = r] /\ new.status \in Triage
        /\ DOMAIN signals' = DOMAIN signals \union {s}
        /\ signals'[s] = new /\ \A x \in DOMAIN signals \ {s} : signals'[x] = signals[x]
        /\ UNCHANGED <<queue, mixed, broken>>
    BY DEF WritesSignal
  <2>2. r \notin ReviewCalls /\ ~Deciding(c)
    BY <2>1, CallKinds DEF Deciding
  <2> QED  BY <2>1, <2>2, DecisionsKept
<1>3. ASSUME NEW c \in Callers, assign(c)
      PROVE  DecisionsFollow'
  <2> PICK r \in ClaimCalls : /\ call' = [call EXCEPT ![c] = r] /\ call[c] = NoCall
                              /\ mixed \subseteq mixed' /\ UNCHANGED <<signals, queue, reports, broken>>
    BY <1>3, AssignFacts
  <2>1. r \notin ReviewCalls /\ ~Deciding(c)
    BY CallKinds DEF Deciding
  <2> QED  BY <2>1, DecisionsKept
<1>4. ASSUME NEW c \in Callers, reviewSignal(c)
      PROVE  DecisionsFollow'
  <2> PICK r \in ReviewCalls : /\ call' = [call EXCEPT ![c] = r] /\ call[c] = NoCall /\ r.at = "write"
                               /\ mixed \subseteq mixed' /\ UNCHANGED <<signals, queue, reports, broken>>
    BY <1>4, ReviewFacts
  <2>1. ~Deciding(c)
    BY CallKinds DEF Deciding
  <2> QED  BY <2>1, DecisionsKept
<1>5. ASSUME NEW c \in Callers, Enrich(c) \/ LookForItem(c)
      PROVE  DecisionsFollow'
  <2> PICK r \in IntakeCalls \union {NoCall} :
         /\ call[c] \in IntakeCalls /\ call' = [call EXCEPT ![c] = r]
         /\ UNCHANGED <<signals, queue, reports, mixed, broken>>
    BY <1>5, IntakeGoesOn
  <2>1. r \notin ReviewCalls /\ ~Deciding(c)
    BY CallKinds DEF Deciding
  <2> QED  BY <2>1, DecisionsKept
<1>6. ASSUME NEW c \in Callers, QueueSignal(c)
      PROVE  DecisionsFollow'
  <2> PICK i \in Nat, new \in QueueRows :
         /\ call[c] \in IntakeCalls /\ call' = [call EXCEPT ![c] = NoCall]
         /\ DOMAIN queue' = DOMAIN queue \union {i} /\ i \notin DOMAIN queue
         /\ \A x \in DOMAIN queue : queue'[x] = queue[x]
         /\ UNCHANGED <<signals, reports, mixed, broken>>
    BY <1>6, QueueFacts
  <2>1. NoCall \notin ReviewCalls /\ ~Deciding(c)
    BY CallKinds DEF Deciding
  <2> QED  BY <2>1, DecisionsKept
<1>7. ASSUME NEW c \in Callers, WriteClaim(c)
      PROVE  DecisionsFollow'
  <2> PICK i \in DOMAIN queue, new \in QueueRows :
         /\ call[c] \in ClaimCalls /\ call' = [call EXCEPT ![c] = NoCall]
         /\ new.signal = queue[i].signal /\ new.decision = queue[i].decision
         /\ DOMAIN queue' = DOMAIN queue
         /\ queue'[i] = new /\ \A x \in DOMAIN queue \ {i} : queue'[x] = queue[x]
         /\ UNCHANGED <<signals, reports, mixed, broken>>
    BY <1>7, ClaimFacts
  <2>1. NoCall \notin ReviewCalls /\ ~Deciding(c)
    BY CallKinds DEF Deciding
  <2>2. \A x \in DOMAIN queue : queue'[x].signal = queue[x].signal /\ queue'[x].decision = queue[x].decision
    OBVIOUS
  <2> QED  BY <2>1, <2>2, DecisionsKept
<1>8. ASSUME NEW c \in Callers, WriteDecision(c)
      PROVE  DecisionsFollow'
  <2> PICK s \in DOMAIN signals, new \in SignalRows, r \in ReviewCalls :
         /\ call[c] \in ReviewCalls /\ call[c].at = "write" /\ call' = [call EXCEPT ![c] = r]
         /\ s = call[c].signal /\ r.signal = s /\ r.at = "look"
         /\ new.status = DECISION_STATUS[r.decision]
         /\ DOMAIN signals' = DOMAIN signals
         /\ signals'[s] = new /\ \A x \in DOMAIN signals \ {s} : signals'[x] = signals[x]
         /\ UNCHANGED <<queue, reports, mixed, broken>>
    BY <1>8, DecisionFacts
  <2> SUFFICES ASSUME {"review"} \notin mixed, "review" \notin broken
               PROVE  DecisionsFollow'
    BY DEF DecisionsFollow
  <2>1. call'[c] = r /\ \A d \in Callers \ {c} : call'[d] = call[d]
    BY CallShape
  <2>2. \A d \in Callers \ {c} : ~Deciding(d) /\ ~Deciding(d)'
    BY <2>1, Overlapping DEF Deciding
  <2>3. Deciding(c)' /\ ~Deciding(c)
    BY <2>1 DEF Deciding
  <2>4. ASSUME NEW x \in DOMAIN signals', signals'[x].status \notin Triage
        PROVE  \/ \E i \in ItemsOf(x)' : /\ queue'[i].decision \in DOMAIN DECISION_STATUS
                                         /\ DECISION_STATUS[queue'[i].decision] = signals'[x].status
               \/ \E d \in Callers : /\ Deciding(d)' /\ call'[d].signal = x
                                     /\ DECISION_STATUS[call'[d].decision] = signals'[x].status
    <3>1. CASE x = s
      BY <2>1, <2>3, <3>1
    <3>2. CASE x # s
      <4>1. x \in DOMAIN signals /\ signals'[x] = signals[x]
        BY <3>2
      <4>2. \E i \in ItemsOf(x) : Matches(i, signals[x].status)
        BY <2>2, <2>3, <2>4, <4>1 DEF DecisionsFollow
      <4> QED  BY <4>1, <4>2 DEF Matches, ItemsOf
    <3> QED  BY <3>1, <3>2
  <2>5. ASSUME NEW d \in Callers, Deciding(d)'
        PROVE  signals'[call'[d].signal].status \in Triage \union {DECISION_STATUS[call'[d].decision]}
    <3>1. d = c
      BY <2>2, <2>5
    <3> QED  BY <2>1, <3>1
  <2> QED  BY <2>4, <2>5 DEF DecisionsFollow, Matches
<1>9. ASSUME NEW c \in Callers, FindItem(c)
      PROVE  DecisionsFollow'
  <2> PICK r \in ReviewCalls :
         /\ call[c] \in ReviewCalls /\ call[c].at = "look" /\ call' = [call EXCEPT ![c] = r]
         /\ r.signal = call[c].signal /\ r.at = "close" /\ r.decision = call[c].decision
         /\ UNCHANGED <<signals, queue, reports, mixed, broken>>
    BY <1>9, FindFacts
  <2> QED  BY DecisionsKept
<1>10. ASSUME NEW c \in Callers, CloseItem(c)
       PROVE  DecisionsFollow'
  <2> PICK i \in Nat, new \in QueueRows :
         /\ call[c] \in ReviewCalls /\ call[c].at = "close" /\ call[c].signal \in DOMAIN signals
         /\ call' = [call EXCEPT ![c] = NoCall]
         /\ new.signal = call[c].signal /\ new.decision = call[c].decision
         /\ i \in DOMAIN queue => queue[i].signal = call[c].signal
         /\ DOMAIN queue' = DOMAIN queue \union {i}
         /\ queue'[i] = new /\ \A x \in DOMAIN queue \ {i} : queue'[x] = queue[x]
         /\ UNCHANGED <<signals, reports, mixed, broken>>
    BY <1>10, CloseFacts
  <2> SUFFICES ASSUME {"review"} \notin mixed, "review" \notin broken
               PROVE  DecisionsFollow'
    BY DEF DecisionsFollow
  <2> DEFINE s == call[c].signal
  <2>1. call'[c] = NoCall /\ \A d \in Callers \ {c} : call'[d] = call[d]
    BY CallShape
  <2>2. Deciding(c) /\ \A d \in Callers \ {c} : ~Deciding(d) /\ ~Deciding(d)'
    BY <2>1, Overlapping DEF Deciding
  <2>3. ~Deciding(c)'
    BY <2>1, CallKinds DEF Deciding
  <2>4. signals[s].status \in Triage \union {DECISION_STATUS[call[c].decision]}
    BY <2>2 DEF DecisionsFollow
  <2>5. i \in DOMAIN queue' /\ queue'[i].signal = s /\ new.decision \in DOMAIN DECISION_STATUS
    <3>1. call[c].decision \in DOMAIN DECISION_STATUS
      BY DEF ReviewCalls
    <3> QED  BY <3>1
  <2>6. ASSUME NEW x \in DOMAIN signals', signals'[x].status \notin Triage
        PROVE  \E j \in ItemsOf(x)' : /\ queue'[j].decision \in DOMAIN DECISION_STATUS
                                      /\ DECISION_STATUS[queue'[j].decision] = signals'[x].status
    <3>1. CASE x = s
      <4>1. DECISION_STATUS[queue'[i].decision] = signals'[x].status
        BY <2>4, <2>6, <3>1
      <4>2. queue'[i].decision \in DOMAIN DECISION_STATUS
        BY <2>5
      <4> QED  BY <2>5, <3>1, <4>1, <4>2 DEF ItemsOf
    <3>2. CASE x # s
      <4>1. \E j \in ItemsOf(x) : Matches(j, signals[x].status)
        BY <2>2, <2>6, <3>2 DEF DecisionsFollow
      <4>2. \A j \in ItemsOf(x) : j # i /\ j \in ItemsOf(x)' /\ queue'[j] = queue[j]
        BY <3>2 DEF ItemsOf
      <4> QED  BY <4>1, <4>2 DEF Matches
    <3> QED  BY <3>1, <3>2
  <2> QED  BY <2>2, <2>3, <2>6 DEF DecisionsFollow, Matches
<1>11. ASSUME NEW c \in Callers, FailCall(c)
       PROVE  DecisionsFollow'
  <2>1. /\ call[c] # NoCall /\ call' = [call EXCEPT ![c] = NoCall]
        /\ UNCHANGED <<signals, queue, reports, mixed>> /\ broken' = broken \union {call[c].kind}
    BY <1>11 DEF FailCall, EndCall
  <2>2. NoCall \notin ReviewCalls /\ (Deciding(c) => "review" \in broken')
    BY <2>1, CallKinds DEF Deciding
  <2> QED  BY <2>1, <2>2, DecisionsKept
<1>12. CASE UNCHANGED signalVars
  BY <1>12 DEF signalVars, DecisionsFollow, Deciding, Matches, ItemsOf
<1> QED  BY <1>1, <1>2, <1>3, <1>4, <1>5, <1>6, <1>7, <1>8, <1>9, <1>10, <1>11, <1>12 DEF SignalReviewNext

\* A step that makes no signal suspicious and closes no item of a suspicious one: what
\* waited for a reviewer still does.
LEMMA QueueKept ==
    ASSUME SignalTypeInv, QueueFollows, NEW c \in Callers, NEW r, call' = [call EXCEPT ![c] = r],
           r \in ReviewCalls /\ r.at \in {"look", "close"} =>
              \/ Deciding(c) /\ r.signal = call[c].signal /\ signals' = signals
              \/ signals'[r.signal].status \notin HighRisk,
           \A s \in DOMAIN signals' : signals'[s].status \in HighRisk =>
              s \in DOMAIN signals /\ signals'[s].status = signals[s].status,
           DOMAIN signals \subseteq DOMAIN signals',
           \A s : \A i \in ItemsOf(s) : s \in DOMAIN signals /\ signals[s].status \in HighRisk /\ Open(i) =>
              i \in DOMAIN queue' /\ queue'[i].signal = s /\ queue'[i].status # "COMPLETED",
           \A s : Queueing(c, s) /\ s \in DOMAIN signals /\ signals[s].status \in HighRisk
                  /\ "intake" \notin broken' =>
              \/ r \in IntakeCalls /\ r.signal = s /\ r.at \in {"look", "queue"}
              \/ \E i \in DOMAIN queue' : queue'[i].signal = s /\ queue'[i].status # "COMPLETED",
           mixed \subseteq mixed', broken \subseteq broken'
    PROVE  QueueFollows'
<1> SUFFICES ASSUME {"intake", "review"} \notin mixed', "intake" \notin broken'
             PROVE  QueueFollows'
  BY DEF QueueFollows
<1>1. call'[c] = r /\ \A d \in Callers \ {c} : call'[d] = call[d]
  BY CallShape
<1>2. \A d \in Callers \ {c} : \A s : Queueing(d, s) => Queueing(d, s)'
  BY <1>1 DEF Queueing
<1>3. ASSUME NEW s \in DOMAIN signals', signals'[s].status \in HighRisk
      PROVE  \/ \E i \in DOMAIN queue' : queue'[i].signal = s /\ queue'[i].status # "COMPLETED"
             \/ \E d \in Callers : Queueing(d, s)'
  <2>1. s \in DOMAIN signals /\ signals[s].status \in HighRisk
    BY <1>3
  <2>2. CASE \E i \in ItemsOf(s) : Open(i)
    BY <2>1, <2>2
  <2>3. CASE \E d \in Callers \ {c} : Queueing(d, s)
    BY <1>2, <2>3
  <2>4. CASE Queueing(c, s)
    BY <1>1, <2>1, <2>4 DEF Queueing
  <2> QED  BY <2>1, <2>2, <2>3, <2>4 DEF QueueFollows
<1>4. ASSUME NEW d \in Callers, Deciding(d)'
      PROVE  signals'[call'[d].signal].status \notin HighRisk
  <2>1. \A e \in Callers : Deciding(e) =>
           call[e].signal \in DOMAIN signals /\ signals[call[e].signal].status \notin HighRisk
    BY CallShape DEF QueueFollows, Deciding, CallRefers
  <2>2. CASE d = c
    BY <1>1, <1>4, <2>1, <2>2 DEF Deciding
  <2>3. CASE d # c
    <3>1. call'[d] = call[d] /\ Deciding(d)
      BY <1>1, <1>4, <2>3 DEF Deciding
    <3>2. call[d].signal \in DOMAIN signals' /\ signals[call[d].signal].status \notin HighRisk
      BY <2>1, <3>1
    <3> QED  BY <3>1, <3>2
  <2> QED  BY <2>2, <2>3
<1> QED  BY <1>3, <1>4 DEF QueueFollows, ItemsOf, Open

\* A suspicious signal waits for a reviewer, or for the intake that queues it, while
\* intakes and reviews do not overlap and no intake fails half way.
LEMMA QueueStep ==
    SignalTypeInv /\ OverlapsNoted /\ QueueFollows /\ [SignalReviewNext]_signalVars => QueueFollows'
<1> SUFFICES ASSUME SignalTypeInv, OverlapsNoted, QueueFollows, [SignalReviewNext]_signalVars
             PROVE  QueueFollows'
  OBVIOUS
<1>0. /\ \A s : \A i \in ItemsOf(s) : i \in DOMAIN queue /\ queue[i].signal = s
      /\ \A i \in DOMAIN queue : Open(i) <=> queue[i].status # "COMPLETED"
      /\ \A d \in Callers : \A s : Queueing(d, s) => call[d] \in IntakeCalls /\ call[d].signal = s
  BY DEF ItemsOf, Open, Queueing
<1>1. ASSUME NEW c \in Callers, intake(c)
      PROVE  QueueFollows'
  <2> PICK r \in IntakeCalls : /\ call' = [call EXCEPT ![c] = r] /\ call[c] = NoCall
                               /\ mixed \subseteq mixed' /\ UNCHANGED <<signals, queue, reports, broken>>
    BY <1>1, IntakeFacts
  <2>1. r \notin ReviewCalls /\ \A s : ~Queueing(c, s)
    BY <1>0, CallKinds
  <2> QED  BY <1>0, <2>1, QueueKept
<1>2. ASSUME NEW c \in Callers, WriteSignal(c)
      PROVE  QueueFollows'
  <2> PICK s \in Nat, new \in SignalRows, r \in IntakeCalls : WritesSignal(c, s, new, r)
    BY <1>2, WriteSignalFacts
  <2>1. /\ call[c] \in IntakeCalls /\ call[c].at = "write" /\ call' = [call EXCEPT ![c] = r]
        /\ r.at = "append" /\ r.signal = s /\ r.status = new.status
        /\ DOMAIN signals' = DOMAIN signals \union {s}
        /\ signals'[s] = new /\ \A x \in DOMAIN signals \ {s} : signals'[x] = signals[x]
        /\ UNCHANGED <<queue, mixed, broken>>
    BY DEF WritesSignal
  <2> SUFFICES ASSUME {"intake", "review"} \notin mixed, "intake" \notin broken
               PROVE  QueueFollows'
    BY <2>1 DEF QueueFollows
  <2>2. call'[c] = r /\ \A d \in Callers \ {c} : call'[d] = call[d]
    BY <2>1, CallShape
  <2>3. \A d \in Callers : ~Deciding(d)'
    BY <2>1, <2>2, CallKinds, Overlapping DEF Deciding
  <2>4. \A d \in Callers \ {c} : \A x : Queueing(d, x) => Queueing(d, x)'
    BY <2>2 DEF Queueing
  <2>5. ASSUME NEW x \in DOMAIN signals', signals'[x].status \in HighRisk
        PROVE  \/ \E i \in DOMAIN queue' : queue'[i].signal = x /\ queue'[i].status # "COMPLETED"
               \/ \E d \in Callers : Queueing(d, x)'
    <3>1. CASE x = s
      <4>1. Queueing(c, x)'
        BY <2>1, <2>2, <2>5, <3>1 DEF Queueing
      <4> QED  BY <4>1
    <3>2. CASE x # s
      <4>1. x \in DOMAIN signals /\ signals[x].status \in HighRisk
        BY <2>1, <2>5, <3>2
      <4>2. (\E i \in ItemsOf(x) : Open(i)) \/ \E d \in Callers : Queueing(d, x)
        BY <4>1 DEF QueueFollows
      <4>3. ~Queueing(c, x)
        BY <2>1 DEF Queueing
      <4> QED  BY <1>0, <2>1, <2>4, <4>2, <4>3
    <3> QED  BY <3>1, <3>2
  <2> QED  BY <2>3, <2>5 DEF QueueFollows, ItemsOf, Open
<1>3. ASSUME NEW c \in Callers, assign(c)
      PROVE  QueueFollows'
  <2> PICK r \in ClaimCalls : /\ call' = [call EXCEPT ![c] = r] /\ call[c] = NoCall
                              /\ mixed \subseteq mixed' /\ UNCHANGED <<signals, queue, reports, broken>>
    BY <1>3, AssignFacts
  <2>1. r \notin ReviewCalls /\ \A s : ~Queueing(c, s)
    BY <1>0, CallKinds
  <2> QED  BY <1>0, <2>1, QueueKept
<1>4. ASSUME NEW c \in Callers, reviewSignal(c)
      PROVE  QueueFollows'
  <2> PICK r \in ReviewCalls : /\ call' = [call EXCEPT ![c] = r] /\ call[c] = NoCall /\ r.at = "write"
                               /\ mixed \subseteq mixed' /\ UNCHANGED <<signals, queue, reports, broken>>
    BY <1>4, ReviewFacts
  <2>1. \A s : ~Queueing(c, s)
    BY <1>0, CallKinds
  <2> QED  BY <1>0, <2>1, QueueKept
<1>5. ASSUME NEW c \in Callers, Enrich(c) \/ LookForItem(c)
      PROVE  QueueFollows'
  <2> PICK r \in IntakeCalls \union {NoCall} :
         /\ call[c] \in IntakeCalls /\ call' = [call EXCEPT ![c] = r]
         /\ r # NoCall => r.at \in {"look", "queue"} /\ r.signal = call[c].signal
         /\ UNCHANGED <<signals, queue, reports, mixed, broken>>
         /\ Enrich(c) =>
               /\ call[c].at = "append"
               /\ \E status \in {call[c].status, signals[call[c].signal].status} :
                     status \in HighRisk <=> r # NoCall
         /\ LookForItem(c) => (r = NoCall => \E i \in ItemsOf(call[c].signal) : Open(i))
    BY <1>5, IntakeGoesOn
  <2>1. r \notin ReviewCalls
    BY CallKinds
  <2>2. ASSUME NEW s, Queueing(c, s), s \in DOMAIN signals, signals[s].status \in HighRisk
        PROVE  \/ r \in IntakeCalls /\ r.signal = s /\ r.at \in {"look", "queue"}
               \/ \E i \in DOMAIN queue' : queue'[i].signal = s /\ queue'[i].status # "COMPLETED"
    <3>1. call[c].signal = s
      BY <1>0, <2>2
    <3>2. CASE Enrich(c)
      <4>1. call[c].status \in HighRisk
        BY <2>2, <3>2 DEF Queueing
      <4>2. r # NoCall
        BY <2>2, <3>1, <3>2, <4>1
      <4> QED  BY <3>1, <4>2
    <3>3. CASE LookForItem(c)
      BY <1>0, <3>1, <3>3
    <3> QED  BY <1>5, <3>2, <3>3
  <2>3. \A s : \A x \in ItemsOf(s) : s \in DOMAIN signals /\ signals[s].status \in HighRisk /\ Open(x) =>
           x \in DOMAIN queue' /\ queue'[x].signal = s /\ queue'[x].status # "COMPLETED"
    BY <1>0
  <2>4. /\ r \in ReviewCalls /\ r.at \in {"look", "close"} => signals'[r.signal].status \notin HighRisk
        /\ \A s \in DOMAIN signals' : signals'[s].status \in HighRisk =>
              s \in DOMAIN signals /\ signals'[s].status = signals[s].status
        /\ DOMAIN signals \subseteq DOMAIN signals' /\ mixed \subseteq mixed' /\ broken \subseteq broken'
    BY <2>1
  <2>5. \A s : Queueing(c, s) /\ s \in DOMAIN signals /\ signals[s].status \in HighRisk =>
           \/ r \in IntakeCalls /\ r.signal = s /\ r.at \in {"look", "queue"}
           \/ \E i \in DOMAIN queue' : queue'[i].signal = s /\ queue'[i].status # "COMPLETED"
    BY <2>2
  <2> QED  BY <2>3, <2>4, <2>5, QueueKept
<1>6. ASSUME NEW c \in Callers, QueueSignal(c)
      PROVE  QueueFollows'
  <2> PICK i \in Nat, new \in QueueRows :
         /\ call[c] \in IntakeCalls /\ call' = [call EXCEPT ![c] = NoCall]
         /\ new.signal = call[c].signal /\ new.status = "PENDING"
         /\ DOMAIN queue' = DOMAIN queue \union {i} /\ i \notin DOMAIN queue
         /\ queue'[i] = new /\ \A x \in DOMAIN queue : queue'[x] = queue[x]
         /\ UNCHANGED <<signals, reports, mixed, broken>>
    BY <1>6, QueueFacts
  <2>1. NoCall \notin ReviewCalls
    BY CallKinds
  <2>2. \A s : Queueing(c, s) => queue'[i].signal = s /\ queue'[i].status # "COMPLETED"
    BY <1>0
  <2>3. \A s : \A x \in ItemsOf(s) : s \in DOMAIN signals /\ signals[s].status \in HighRisk /\ Open(x) =>
           x \in DOMAIN queue' /\ queue'[x].signal = s /\ queue'[x].status # "COMPLETED"
    BY <1>0
  <2>4. \A s : Queueing(c, s) => \E x \in DOMAIN queue' : queue'[x].signal = s /\ queue'[x].status # "COMPLETED"
    BY <2>2
  <2> QED  BY <2>1, <2>3, <2>4, QueueKept
<1>7. ASSUME NEW c \in Callers, WriteClaim(c)
      PROVE  QueueFollows'
  <2> PICK i \in DOMAIN queue, new \in QueueRows :
         /\ call[c] \in ClaimCalls /\ call' = [call EXCEPT ![c] = NoCall]
         /\ new.signal = queue[i].signal /\ new.status = "IN_REVIEW"
         /\ DOMAIN queue' = DOMAIN queue
         /\ queue'[i] = new /\ \A x \in DOMAIN queue \ {i} : queue'[x] = queue[x]
         /\ UNCHANGED <<signals, reports, mixed, broken>>
    BY <1>7, ClaimFacts
  <2>1. NoCall \notin ReviewCalls /\ \A s : ~Queueing(c, s)
    BY <1>0, CallKinds
  <2>2. \A x \in DOMAIN queue : queue'[x].signal = queue[x].signal
                                /\ (queue[x].status # "COMPLETED" => queue'[x].status # "COMPLETED")
    OBVIOUS
  <2>3. \A s : \A x \in ItemsOf(s) : s \in DOMAIN signals /\ signals[s].status \in HighRisk /\ Open(x) =>
           x \in DOMAIN queue' /\ queue'[x].signal = s /\ queue'[x].status # "COMPLETED"
    BY <1>0, <2>2
  <2> QED  BY <2>1, <2>3, QueueKept
<1>8. ASSUME NEW c \in Callers, WriteDecision(c)
      PROVE  QueueFollows'
  <2> PICK s \in DOMAIN signals, new \in SignalRows, r \in ReviewCalls :
         /\ call[c] \in ReviewCalls /\ call' = [call EXCEPT ![c] = r]
         /\ r.signal = s /\ new.status = DECISION_STATUS[r.decision]
         /\ DOMAIN signals' = DOMAIN signals
         /\ signals'[s] = new /\ \A x \in DOMAIN signals \ {s} : signals'[x] = signals[x]
         /\ UNCHANGED <<queue, reports, mixed, broken>>
    BY <1>8, DecisionFacts
  <2>1. signals'[s].status \notin HighRisk
    <3>1. r.decision \in DOMAIN DECISION_STATUS
      BY DEF ReviewCalls
    <3> QED  BY <3>1, DecidedIsNotTriage
  <2>2. \A x : ~Queueing(c, x)
    BY <1>0, CallKinds
  <2> QED  BY <1>0, <2>1, <2>2, QueueKept
<1>9. ASSUME NEW c \in Callers, FindItem(c)
      PROVE  QueueFollows'
  <2> PICK r \in ReviewCalls :
         /\ call[c] \in ReviewCalls /\ call[c].at = "look" /\ call' = [call EXCEPT ![c] = r]
         /\ r.signal = call[c].signal /\ UNCHANGED <<signals, queue, reports, mixed, broken>>
    BY <1>9, FindFacts
  <2>1. Deciding(c) /\ \A s : ~Queueing(c, s)
    BY <1>0, CallKinds DEF Deciding
  <2> QED  BY <1>0, <2>1, QueueKept
<1>10. ASSUME NEW c \in Callers, CloseItem(c)
       PROVE  QueueFollows'
  <2> PICK i \in Nat, new \in QueueRows :
         /\ call[c] \in ReviewCalls /\ call[c].at = "close"
         /\ call' = [call EXCEPT ![c] = NoCall]
         /\ i \in DOMAIN queue => queue[i].signal = call[c].signal
         /\ DOMAIN queue' = DOMAIN queue \union {i}
         /\ \A x \in DOMAIN queue \ {i} : queue'[x] = queue[x]
         /\ UNCHANGED <<signals, reports, mixed, broken>>
    BY <1>10, CloseFacts
  <2> SUFFICES ASSUME {"intake", "review"} \notin mixed, "intake" \notin broken
               PROVE  QueueFollows'
    BY DEF QueueFollows
  <2>1. NoCall \notin ReviewCalls /\ \A s : ~Queueing(c, s)
    BY <1>0, CallKinds
  <2>2. signals[call[c].signal].status \notin HighRisk
    BY DEF QueueFollows, Deciding
  <2>3. \A s : \A x \in ItemsOf(s) : signals[s].status \in HighRisk => x # i
    BY <1>0, <2>2
  <2>4. \A s : \A x \in ItemsOf(s) : s \in DOMAIN signals /\ signals[s].status \in HighRisk /\ Open(x) =>
           x \in DOMAIN queue' /\ queue'[x].signal = s /\ queue'[x].status # "COMPLETED"
    BY <1>0, <2>3
  <2> QED  BY <2>1, <2>4, QueueKept
<1>11. ASSUME NEW c \in Callers, FailCall(c)
       PROVE  QueueFollows'
  <2>1. /\ call[c] # NoCall /\ call' = [call EXCEPT ![c] = NoCall]
        /\ UNCHANGED <<signals, queue, reports, mixed>> /\ broken' = broken \union {call[c].kind}
    BY <1>11 DEF FailCall, EndCall
  <2>2. NoCall \notin ReviewCalls /\ \A s : Queueing(c, s) => "intake" \in broken'
    BY <1>0, <2>1, CallKinds
  <2> QED  BY <1>0, <2>1, <2>2, QueueKept
<1>12. CASE UNCHANGED signalVars
  BY <1>12 DEF signalVars, QueueFollows, Deciding, Queueing, Open, ItemsOf
<1> QED  BY <1>1, <1>2, <1>3, <1>4, <1>5, <1>6, <1>7, <1>8, <1>9, <1>10, <1>11, <1>12 DEF SignalReviewNext

\* The intakes that have not written their row yet.
Writing == {d \in Callers : call[d] # NoCall /\ call[d].kind = "intake" /\ call[d].at = "write"}

\* A row counts reports that were taken in, and so does the row an intake has read;
\* every report that is taken in or under way fits the bound.
SignalBounds ==
    /\ reports + Cardinality(Writing) <= ReportBound
    /\ \A s \in DOMAIN signals : signals[s].count <= reports
    /\ \A c \in Writing : call[c].signal # 0 => call[c].row.count <= reports
    /\ reviews \in 0..ReviewBound /\ faults \in 0..FaultBound

\* A part of the requests in progress is a finite set, no larger than the whole.
LEMMA FewerCallers ==
    ASSUME NEW T \in SUBSET Callers, NEW S \in SUBSET T
    PROVE  /\ Cardinality(S) \in Nat /\ Cardinality(T) \in Nat /\ Cardinality(S) <= Cardinality(T)
           /\ \A c \in Callers : /\ Cardinality(S \union {c}) <= Cardinality(S) + 1
                                 /\ c \in S => Cardinality(S \ {c}) = Cardinality(S) - 1
                                 /\ Cardinality(S \union {c}) \in Nat /\ Cardinality(S \ {c}) \in Nat
<1>1. IsFiniteSet(Callers)
  BY SignalReviewAssumption
<1>2. IsFiniteSet(T)
  BY <1>1, FS_Subset
<1>3. IsFiniteSet(S) /\ Cardinality(S) <= Cardinality(T)
  BY <1>2, FS_Subset
<1>4. Cardinality(S) \in Nat /\ Cardinality(T) \in Nat
  BY <1>2, <1>3, FS_CardinalityType
<1>5. ASSUME NEW c \in Callers
      PROVE  /\ Cardinality(S \union {c}) <= Cardinality(S) + 1
             /\ c \in S => Cardinality(S \ {c}) = Cardinality(S) - 1
             /\ Cardinality(S \union {c}) \in Nat /\ Cardinality(S \ {c}) \in Nat
  <2>1. /\ IsFiniteSet(S \union {c})
        /\ Cardinality(S \union {c}) = IF c \in S THEN Cardinality(S) ELSE Cardinality(S) + 1
    BY <1>3, FS_AddElement
  <2>2. /\ IsFiniteSet(S \ {c})
        /\ Cardinality(S \ {c}) = IF c \in S THEN Cardinality(S) - 1 ELSE Cardinality(S)
    BY <1>3, FS_RemoveElement
  <2>3. Cardinality(S \union {c}) \in Nat /\ Cardinality(S \ {c}) \in Nat
    BY <2>1, <2>2, FS_CardinalityType
  <2> QED  BY <1>4, <2>1, <2>2, <2>3
<1> QED  BY <1>3, <1>4, <1>5

\* No signal yet, and no request.
LEMMA InitBounds == SignalReviewInit => SignalBounds
<1> SUFFICES ASSUME SignalReviewInit PROVE SignalBounds
  OBVIOUS
<1>1. Writing = {} /\ DOMAIN signals = {} /\ reports = 0 /\ reviews = 0 /\ faults = 0
  BY DEF SignalReviewInit, Writing
<1>2. Cardinality(Writing) = 0
  BY <1>1, FS_EmptySet
<1>3. ReportBound \in Nat /\ ReviewBound \in Nat /\ FaultBound \in Nat
  BY SignalReviewAssumption
<1> QED  BY <1>1, <1>2, <1>3 DEF SignalBounds

\* What a step must leave alone for the bounds on the reports to stay.
LEMMA BoundsKept ==
    ASSUME SignalTypeInv, SignalBounds, NEW c \in Callers, NEW r,
           call' = [call EXCEPT ![c] = r], r \in CallRecords => r.kind # "intake" \/ r.at # "write",
           r \in CallRecords \union {NoCall}, reports' = reports,
           \A s \in DOMAIN signals' : s \in DOMAIN signals /\ signals'[s].count = signals[s].count
    PROVE  /\ (reports + Cardinality(Writing) <= ReportBound)'
           /\ (\A s \in DOMAIN signals : signals[s].count <= reports)'
           /\ (\A d \in Writing : call[d].signal # 0 => call[d].row.count <= reports)'
<1>1. call'[c] = r /\ \A d \in Callers \ {c} : call'[d] = call[d]
  BY CallShape
<1>2. Writing' \subseteq Writing /\ \A d \in Writing' : call'[d] = call[d]
  BY <1>1 DEF Writing
<1>3. Writing \in SUBSET Callers
  BY DEF Writing
<1>4. Cardinality(Writing') <= Cardinality(Writing) /\ Cardinality(Writing') \in Nat /\ Cardinality(Writing) \in Nat
  BY <1>2, <1>3, FewerCallers
<1>5. reports \in Nat /\ ReportBound \in Nat /\ reports + Cardinality(Writing) <= ReportBound
  BY SignalReviewAssumption DEF SignalTypeInv, SignalBounds
<1>6. reports + Cardinality(Writing') <= ReportBound
  BY <1>4, <1>5
<1> QED  BY <1>2, <1>6 DEF SignalBounds

\* Each action keeps the bounds.
LEMMA BoundsStep == SignalTypeInv /\ SignalBounds /\ [SignalReviewNext]_signalVars => SignalBounds'
<1> SUFFICES ASSUME SignalTypeInv, SignalBounds, [SignalReviewNext]_signalVars PROVE SignalBounds'
  OBVIOUS
<1> DEFINE Reported ==
      /\ reports + Cardinality(Writing) <= ReportBound
      /\ \A s \in DOMAIN signals : signals[s].count <= reports
      /\ \A d \in Writing : call[d].signal # 0 => call[d].row.count <= reports
<1>0. /\ reports \in Nat /\ reviews \in Nat /\ faults \in Nat /\ ReportBound \in Nat /\ ReviewBound \in Nat
      /\ FaultBound \in Nat /\ reports + Cardinality(Writing) <= ReportBound
      /\ reviews <= ReviewBound /\ faults <= FaultBound
      /\ \A s \in DOMAIN signals : signals[s].count \in Nat /\ signals[s].count <= reports
  <2>1. \A s \in DOMAIN signals : signals[s] \in SignalRows
    BY DEF SignalTypeInv
  <2>2. \A s \in DOMAIN signals : signals[s].count \in Nat
    BY <2>1 DEF SignalRows
  <2> QED  BY <2>2, SignalReviewAssumption DEF SignalTypeInv, SignalBounds
<1>1. ASSUME NEW c \in Callers, intake(c)
      PROVE  Reported' /\ UNCHANGED <<reviews, faults>>
  <2> DEFINE Intakes == {d \in Callers : call[d] # NoCall /\ call[d].kind = "intake"}
  <2> PICK r \in IntakeCalls :
         /\ call' = [call EXCEPT ![c] = r] /\ call[c] = NoCall /\ r.at = "write"
         /\ \/ r.signal = 0 /\ signals = <<>>
            \/ r.signal = 1 /\ 1 \in DOMAIN signals /\ r.row = signals[1] /\ r.row \in SignalRows
         /\ UNCHANGED <<signals, queue, reports, broken>>
    BY <1>1, IntakeFacts
  <2>1. call'[c] = r /\ \A d \in Callers \ {c} : call'[d] = call[d]
    BY CallShape
  <2>2. Writing' = Writing \union {c}
    BY <2>1, CallKinds DEF Writing
  <2>3. Writing \in SUBSET Intakes /\ Intakes \in SUBSET Callers
    BY DEF Writing
  <2>4. reports + Cardinality(Intakes) < ReportBound /\ UNCHANGED <<reviews, faults>>
    BY <1>1 DEF intake
  <2> HIDE DEF Intakes
  <2>5. /\ Cardinality(Writing) \in Nat /\ Cardinality(Intakes) \in Nat
        /\ Cardinality(Writing) <= Cardinality(Intakes)
        /\ Cardinality(Writing') <= Cardinality(Writing) + 1 /\ Cardinality(Writing') \in Nat
    BY <2>2, <2>3, FewerCallers
  <2>6. reports' + Cardinality(Writing') <= ReportBound
    BY <1>0, <2>4, <2>5
  <2>7. \A d \in Writing' : call'[d].signal # 0 => call'[d].row.count <= reports'
    <3>1. r.signal # 0 => r.row.count <= reports
      BY <1>0
    <3> QED  BY <2>1, <2>2, <3>1 DEF SignalBounds, Writing
  <2> QED  BY <1>0, <2>4, <2>6, <2>7
<1>2. ASSUME NEW c \in Callers, WriteSignal(c)
      PROVE  Reported' /\ UNCHANGED <<reviews, faults>>
  <2> PICK s \in Nat, new \in SignalRows, r \in IntakeCalls : WritesSignal(c, s, new, r)
    BY <1>2, WriteSignalFacts
  <2>1. call'[c] = r /\ \A d \in Callers \ {c} : call'[d] = call[d]
    BY CallShape DEF WritesSignal
  <2>2. c \in Writing /\ Writing' = Writing \ {c}
    BY <2>1, CallKinds DEF Writing, WritesSignal
  <2>3. Writing \in SUBSET Callers
    BY DEF Writing
  <2>4. /\ Cardinality(Writing) \in Nat /\ Cardinality(Writing') \in Nat
        /\ Cardinality(Writing') = Cardinality(Writing) - 1
    BY <2>2, <2>3, FewerCallers
  <2>5. reports' = reports + 1 /\ UNCHANGED <<reviews, faults>>
    BY <1>2 DEF WriteSignal
  <2>6. reports' + Cardinality(Writing') <= ReportBound
    BY <1>0, <2>4, <2>5
  <2>7. new.count <= reports + 1 /\ call[c].row.count + 1 = call[c].row.count + 1
    <3>1. CASE call[c].signal = 0
      BY <1>0, <3>1 DEF WritesSignal
    <3>2. CASE call[c].signal # 0
      <4>1. call[c].row.count <= reports /\ new.count = call[c].row.count + 1
        BY <2>2, <3>2 DEF SignalBounds, WritesSignal
      <4>2. call[c] \in IntakeCalls /\ CallRefers(c) /\ call[c].at = "write"
        BY CallShape DEF WritesSignal, SignalTypeInv
      <4>3. call[c].row \in SignalRows
        BY <3>2, <4>2 DEF CallRefers
      <4>4. call[c].row.count \in Nat
        BY <4>3 DEF SignalRows
      <4> QED  BY <1>0, <4>1, <4>4
    <3> QED  BY <3>1, <3>2
  <2>8. \A x \in DOMAIN signals' : signals'[x].count <= reports'
    <3>1. /\ DOMAIN signals' = DOMAIN signals \union {s} /\ signals'[s] = new
          /\ \A x \in DOMAIN signals \ {s} : signals'[x] = signals[x]
      BY DEF WritesSignal
    <3> QED  BY <1>0, <2>5, <2>7, <3>1
  <2>9. \A d \in Writing' : call'[d].signal # 0 => call'[d].row.count <= reports'
    <3> SUFFICES ASSUME NEW d \in Writing', call'[d].signal # 0
                 PROVE  call'[d].row.count <= reports'
      OBVIOUS
    <3>1. d \in Writing /\ d \in Callers /\ call'[d] = call[d]
      BY <2>1, <2>2 DEF Writing
    <3>2. call[d].row.count <= reports
      BY <3>1 DEF SignalBounds
    <3>3. call[d] \in IntakeCalls /\ CallRefers(d) /\ call[d].at = "write"
      BY <3>1, CallShape DEF Writing, SignalTypeInv
    <3>4. call[d].row \in SignalRows
      BY <3>1, <3>3 DEF CallRefers
    <3>5. call[d].row.count \in Nat
      BY <3>4 DEF SignalRows
    <3> QED  BY <1>0, <2>5, <3>1, <3>2, <3>5
  <2> QED  BY <2>5, <2>6, <2>8, <2>9
<1>3. ASSUME NEW c \in Callers, Enrich(c) \/ LookForItem(c)
      PROVE  Reported' /\ UNCHANGED <<reviews, faults>>
  <2> PICK r \in IntakeCalls \union {NoCall} :
         /\ call' = [call EXCEPT ![c] = r] /\ (r # NoCall => r.at \in {"look", "queue"})
         /\ UNCHANGED <<signals, queue, reports, mixed, broken>>
    BY <1>3, IntakeGoesOn
  <2>1. UNCHANGED <<reviews, faults>>
    BY <1>3 DEF Enrich, LookForItem
  <2> QED  BY <2>1, BoundsKept, CallKinds, NoCallAssumption
<1>4. ASSUME NEW c \in Callers, QueueSignal(c) \/ WriteClaim(c) \/ CloseItem(c)
      PROVE  Reported' /\ UNCHANGED <<reviews, faults>>
  <2>1. call' = [call EXCEPT ![c] = NoCall] /\ UNCHANGED <<signals, reports, reviews, faults>>
    BY <1>4 DEF QueueSignal, WriteClaim, CloseItem, EndCall
  <2> QED  BY <2>1, BoundsKept, NoCallAssumption
<1>5. ASSUME NEW c \in Callers, assign(c)
      PROVE  Reported' /\ reviews' = reviews + 1 /\ reviews < ReviewBound /\ UNCHANGED faults
  <2> PICK r \in ClaimCalls :
         call' = [call EXCEPT ![c] = r] /\ UNCHANGED <<signals, queue, reports, broken>>
    BY <1>5, AssignFacts
  <2>1. reviews' = reviews + 1 /\ reviews < ReviewBound /\ UNCHANGED faults
    BY <1>5 DEF assign
  <2> QED  BY <2>1, BoundsKept, CallKinds
<1>6. ASSUME NEW c \in Callers, reviewSignal(c)
      PROVE  Reported' /\ reviews' = reviews + 1 /\ reviews < ReviewBound /\ UNCHANGED faults
  <2> PICK r \in ReviewCalls :
         call' = [call EXCEPT ![c] = r] /\ UNCHANGED <<signals, queue, reports, broken>>
    BY <1>6, ReviewFacts
  <2>1. reviews' = reviews + 1 /\ reviews < ReviewBound /\ UNCHANGED faults
    BY <1>6 DEF reviewSignal
  <2> QED  BY <2>1, BoundsKept, CallKinds
<1>7. ASSUME NEW c \in Callers, WriteDecision(c)
      PROVE  Reported' /\ UNCHANGED <<reviews, faults>>
  <2> PICK s \in DOMAIN signals, new \in SignalRows, r \in ReviewCalls :
         /\ call' = [call EXCEPT ![c] = r] /\ new.count = signals[s].count
         /\ DOMAIN signals' = DOMAIN signals
         /\ signals'[s] = new /\ \A x \in DOMAIN signals \ {s} : signals'[x] = signals[x]
         /\ UNCHANGED <<queue, reports, mixed, broken>>
    BY <1>7, DecisionFacts
  <2>1. UNCHANGED <<reviews, faults>>
    BY <1>7 DEF WriteDecision
  <2>2. \A x \in DOMAIN signals' : x \in DOMAIN signals /\ signals'[x].count = signals[x].count
    OBVIOUS
  <2> QED  BY <2>1, <2>2, BoundsKept, CallKinds
<1>8. ASSUME NEW c \in Callers, FindItem(c)
      PROVE  Reported' /\ UNCHANGED <<reviews, faults>>
  <2> PICK r \in ReviewCalls :
         call' = [call EXCEPT ![c] = r] /\ UNCHANGED <<signals, queue, reports, mixed, broken>>
    BY <1>8, FindFacts
  <2>1. UNCHANGED <<reviews, faults>>
    BY <1>8 DEF FindItem
  <2> QED  BY <2>1, BoundsKept, CallKinds
<1>9. ASSUME NEW c \in Callers, FailCall(c)
      PROVE  Reported' /\ faults' = faults + 1 /\ faults < FaultBound /\ UNCHANGED reviews
  <2>1. /\ call' = [call EXCEPT ![c] = NoCall] /\ UNCHANGED <<signals, reports, reviews>>
        /\ faults' = faults + 1 /\ faults < FaultBound
    BY <1>9 DEF FailCall, EndCall
  <2> QED  BY <2>1, BoundsKept, NoCallAssumption
<1>10. CASE UNCHANGED signalVars
  BY <1>10 DEF signalVars, SignalBounds, Writing
<1>11. Reported' /\ (UNCHANGED <<reviews, faults>>) => SignalBounds'
  BY DEF SignalBounds
<1>12. Reported' /\ reviews' = reviews + 1 /\ reviews < ReviewBound /\ faults' = faults => SignalBounds'
  <2>1. reviews < ReviewBound => reviews + 1 \in 0..ReviewBound
    BY <1>0
  <2> QED  BY <2>1 DEF SignalBounds
<1>13. Reported' /\ faults' = faults + 1 /\ faults < FaultBound /\ reviews' = reviews => SignalBounds'
  <2>1. faults < FaultBound => faults + 1 \in 0..FaultBound
    BY <1>0
  <2> QED  BY <2>1 DEF SignalBounds
<1> HIDE DEF Reported
<1> QED  BY <1>1, <1>2, <1>3, <1>4, <1>5, <1>6, <1>7, <1>8, <1>9, <1>10, <1>11, <1>12, <1>13
         DEF SignalReviewNext

\* Once no request is half way, the three promises of the intake and the review hold:
\* a suspicious signal has an open item, the reports of the indicator are one row with
\* their count, a decision is on record (ScamSignalsService.intake, ReviewQueueService).
THEOREM SignalsAreReviewed == SignalReviewSpec => []ReviewSound
<1>1. SignalTypeInv /\ CountsFollow => ReportsMerged
  BY DEF CountsFollow, ReportsMerged
<1>2. SignalTypeInv /\ DecisionsFollow => DecisionOnRecord
  <2> SUFFICES ASSUME SignalTypeInv, DecisionsFollow, ~Busy({"review"}), "review" \notin broken,
                      {"review"} \notin mixed, NEW s \in DOMAIN signals, signals[s].status \notin Triage
               PROVE  \E i \in ItemsOf(s) : Matches(i, signals[s].status)
    BY DEF DecisionOnRecord, Matches
  <2>1. \A c \in Callers : ~Deciding(c)
    BY CallKinds DEF Busy, Deciding
  <2> QED  BY <2>1 DEF DecisionsFollow
<1>3. SignalTypeInv /\ QueueFollows => HighRiskQueued
  <2> SUFFICES ASSUME SignalTypeInv, QueueFollows, ~Busy({"intake", "review"}), "intake" \notin broken,
                      {"intake", "review"} \notin mixed, NEW s \in DOMAIN signals,
                      signals[s].status \in HighRisk
               PROVE  \E i \in ItemsOf(s) : Open(i)
    BY DEF HighRiskQueued
  <2>1. \A c \in Callers : ~Queueing(c, s)
    BY CallKinds DEF Busy, Queueing
  <2> QED  BY <2>1 DEF QueueFollows
<1> QED  BY <1>1, <1>2, <1>3, InitSignals, SignalTypeStep, CountsStep, DecisionsStep, QueueStep, PTL
         DEF SignalReviewSpec, ReviewSound

-----------------------------------------------------------------------------
(* The components side by side, as MCPublicSide runs them. *)

\* The components share nothing: the one that moves keeps its types and the others
\* stay where they are (MCPublicSide's part).
THEOREM PublicSideKeepsTypes == Spec => []TypeOK
<1> DEFINE I == /\ WebhooksInv /\ ReadsTypeOK /\ FilesTypeInv
                /\ SignalTypeInv /\ OverlapsNoted /\ SignalBounds
<1>1. Init => I
  BY InitWebhooksInv, InitReads, InitFiles, InitSignals, InitBounds DEF Init
<1>2. [Next]_Vars => /\ [ReadsNext]_readsVars /\ [WebhooksNext]_hookVars
                     /\ [FilesNext]_filesVars /\ [SignalReviewNext]_signalVars
  BY DEF Next, Vars
<1>3. I /\ [Next]_Vars => I'
  BY <1>2, WebhooksStep, ReadsTypeStep, FilesTypeStep, SignalTypeStep, BoundsStep
<1>4. I => TypeOK
  <2> SUFFICES ASSUME I PROVE TypeOK
    OBVIOUS
  <2>1. reports \in 0..ReportBound /\ \A s \in DOMAIN signals : signals[s].count <= ReportBound
    <3>1. Cardinality(Writing) \in Nat
      BY FewerCallers DEF Writing
    <3>2. reports \in Nat /\ reports + Cardinality(Writing) <= ReportBound /\ ReportBound \in Nat
      BY SignalReviewAssumption DEF SignalTypeInv, SignalBounds
    <3>3. \A s \in DOMAIN signals : signals[s] \in SignalRows /\ signals[s].count <= reports
      BY DEF SignalTypeInv, SignalBounds
    <3>4. \A s \in DOMAIN signals : signals[s].count \in Nat
      BY <3>3 DEF SignalRows
    <3> QED  BY <3>1, <3>2, <3>3, <3>4
  <2>2. SignalReviewTypeOK
    BY <2>1 DEF SignalReviewTypeOK, SignalTypeInv, SignalBounds
  <2> QED  BY <2>2 DEF TypeOK, WebhooksInv, FilesTypeInv
<1> HIDE DEF I
<1> QED  BY <1>1, <1>3, <1>4, PTL DEF Spec
=============================================================================
