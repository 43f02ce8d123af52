-------------------------- MODULE HeldActionsProofs --------------------------
(* Proofs about HeldActions, for every value of its constants. *)
EXTENDS HeldActions, TLAPS

\* ProtectionPolicyService.evaluate is monotone: stricter settings keep every
\* review that was required and allow no continue that was refused.
LEMMA PolicyMonotone ==
    ASSUME NEW s \in SettingsRecords, NEW t \in SettingsRecords,
           AtLeastAsStrict(t, s),
           NEW risk, NEW amount \in SUBSET Nat, NEW elder \in BOOLEAN
    PROVE  /\ trustedContactReviewRequired(s, risk, amount)
                => trustedContactReviewRequired(t, risk, amount)
           /\ continueAnywayAllowed(t, elder, risk, amount)
                => continueAnywayAllowed(s, elder, risk, amount)
<1>1. overThreshold(s, amount) => overThreshold(t, amount)
  BY SMT DEF overThreshold, AtLeastAsStrict, SettingsRecords
<1>2. trustedContactReviewRequired(s, risk, amount)
        => trustedContactReviewRequired(t, risk, amount)
  BY <1>1 DEF trustedContactReviewRequired, AtLeastAsStrict, SettingsRecords
<1>3. QED
  BY <1>2 DEF continueAnywayAllowed, AtLeastAsStrict, SettingsRecords

\* The settings evaluate() reads are those of the one row, or the defaults.
LEMMA InForceIsTheRow ==
    ASSUME NEW S, S = {} \/ \E s \in S : s \in SettingsRecords /\ S = {s}
    PROVE  /\ InForce(S) \in SettingsRecords
           /\ \A s \in S : InForce(S) = s
           /\ S = {} => InForce(S) = DefaultSettings
  BY DefaultAssumption DEF InForce

\* What a hold passes to the policy as the amount is an optional amount.
LEMMA AmountType ==
    ASSUME NEW h \in HoldRecords
    PROVE  AmountPassed(h) \in SUBSET Nat
  BY DEF AmountPassed, HoldRecords

\* Recording what policy permits keeps the type of the requests and everything
\* but the history field.
LEMMA ObservedType ==
    ASSUME TypeOK, NEW S, NEW R
    PROVE  /\ Observed(S, R) \in [Requests -> HoldRequests \union ReviewRequests \union {NoRequest}]
           /\ \A r \in Requests :
                 /\ Observed(S, R)[r] = NoRequest <=> req[r] = NoRequest
                 /\ req[r] # NoRequest =>
                       /\ Observed(S, R)[r].kind = req[r].kind
                       /\ Observed(S, R)[r].target = req[r].target
                       /\ Observed(S, R)[r].decision = req[r].decision
                       /\ Observed(S, R)[r].pc = req[r].pc
                 /\ req[r] # NoRequest /\ req[r].kind = "hold" =>
                       (Observed(S, R)[r].permitted <=>
                          req[r].permitted \/ Permits(S, R, req[r].target, req[r].decision))
<1>1. \A r \in Requests :
        IF req[r] # NoRequest /\ req[r].kind = "hold"
        THEN /\ req[r] \in HoldRequests
             /\ Observed(S, R)[r] = [req[r] EXCEPT !.permitted =
                    @ \/ Permits(S, R, req[r].target, req[r].decision)]
        ELSE Observed(S, R)[r] = req[r]
  BY DEF Observed, TypeOK, HoldRequests, ReviewRequests
<1>2. \A r \in Requests :
        req[r] # NoRequest /\ req[r].kind = "hold" =>
           Observed(S, R)[r] \in HoldRequests
  <2> SUFFICES ASSUME NEW r \in Requests, req[r] # NoRequest, req[r].kind = "hold"
               PROVE  Observed(S, R)[r] \in HoldRequests
    OBVIOUS
  <2> DEFINE p == req[r].permitted \/ Permits(S, R, req[r].target, req[r].decision)
  <2>1. p \in BOOLEAN
    OBVIOUS
  <2> HIDE DEF p
  <2>2. Observed(S, R)[r] = [req[r] EXCEPT !.permitted = p]
    BY <1>1 DEF p
  <2> QED  BY <1>1, <2>1, <2>2 DEF HoldRequests
<1>3. NoRequest \notin HoldRequests
  BY NoRowAssumption
<1>4. Observed(S, R) \in [Requests -> HoldRequests \union ReviewRequests \union {NoRequest}]
  BY <1>1, <1>2 DEF Observed, TypeOK
<1> QED
  <2> DEFINE Same(r) ==
                 /\ Observed(S, R)[r] = NoRequest <=> req[r] = NoRequest
                 /\ req[r] # NoRequest =>
                       /\ Observed(S, R)[r].kind = req[r].kind
                       /\ Observed(S, R)[r].target = req[r].target
                       /\ Observed(S, R)[r].decision = req[r].decision
                       /\ Observed(S, R)[r].pc = req[r].pc
                 /\ req[r] # NoRequest /\ req[r].kind = "hold" =>
                       (Observed(S, R)[r].permitted <=>
                          req[r].permitted \/ Permits(S, R, req[r].target, req[r].decision))
  <2> SUFFICES ASSUME NEW r \in Requests PROVE Same(r)
    <3> HIDE DEF Same
    <3>1. \A r \in Requests : Same(r)
      OBVIOUS
    <3> QED  BY <1>4, <3>1, Zenon DEF Same
  <2>1. CASE req[r] # NoRequest /\ req[r].kind = "hold"
    <3> DEFINE p == req[r].permitted \/ Permits(S, R, req[r].target, req[r].decision)
    <3>0. p \in BOOLEAN
      OBVIOUS
    <3> HIDE DEF p
    <3>1. req[r] \in HoldRequests /\ Observed(S, R)[r] = [req[r] EXCEPT !.permitted = p]
      BY <1>1, <2>1 DEF p
    <3>2. Observed(S, R)[r].permitted = p
      BY <3>1 DEF HoldRequests
    <3>3. /\ Observed(S, R)[r] # NoRequest
          /\ Observed(S, R)[r].kind = req[r].kind
          /\ Observed(S, R)[r].target = req[r].target
          /\ Observed(S, R)[r].decision = req[r].decision
          /\ Observed(S, R)[r].pc = req[r].pc
      BY <3>1, <1>2, <1>3, <2>1 DEF HoldRequests
    <3> QED  BY <2>1, <3>2, <3>3 DEF p
  <2>2. CASE ~(req[r] # NoRequest /\ req[r].kind = "hold")
    BY <1>1, <2>2
  <2> QED  BY <2>1, <2>2

-----------------------------------------------------------------------------
(* Types. *)

\* The rows a user starts with have their types.
LEMMA InitTypeOK == Init => TypeOK
  BY FirstAssumption, SavedAssumption DEF Init, TypeOK, Abilities, SettingsType, TargetsExist

\* The row requestReview creates.
LEMMA NewReviewType ==
    ASSUME NEW h \in Holds, NEW c \in Contacts
    PROVE  NewReview(h, c) \in ReviewRecords /\ NewReview(h, c) # NoReview
<1>1. NewReview(h, c) \in ReviewRecords
  BY DEF NewReview, ReviewRecords
<1> QED  BY <1>1, NoRowAssumption

\* A step of the user outside any request keeps the types.
LEMMA UserType ==
    ASSUME TypeOK,
           \/ \E m \in Opened, h \in Actions : Open(m, h)
           \/ \E p \in Pauses : StartPause(p)
           \/ \E s \in SavedSettings : updateSettings(s)
           \/ \E c \in Contacts, may \in Abilities : SaveContact(c, may)
           \/ \E c \in Contacts : RemoveContact(c)
           \/ \E v \in Reviews, h \in Holds : AskReview(v, h)
    PROVE  TypeOK'
<1>0. /\ \A m \in Modules, risk \in RiskLevels, a \in SUBSET Nat :
            NewHold(m, risk, a) \in HoldRecords
      /\ NoHold \notin HoldRecords
      /\ Opened \subseteq Modules /\ "GUARDIAN_PAUSE" \in Modules
  BY NoRowAssumption, OpenedAssumption
  DEF NewHold, HoldRecords, Modules, Decide, Decisions
<1>1. ASSUME NEW m \in Opened, NEW h \in Actions, Open(m, h)
      PROVE  TypeOK'
  <2> PICK risk \in Risks, amount \in Amounts :
        /\ \/ \E p \in Pauses :
                 hold' = [hold EXCEPT ![h] = NewHold(m, risk, amount),
                                      ![p] = NewHold("GUARDIAN_PAUSE", risk, {})]
           \/ hold' = [hold EXCEPT ![h] = NewHold(m, risk, amount)]
        /\ UNCHANGED <<settings, contacts, review, req, edits, trail, history>>
    BY <1>1 DEF Open
  <2>1. /\ NewHold(m, risk, amount) \in HoldRecords
        /\ NewHold("GUARDIAN_PAUSE", risk, {}) \in HoldRecords
    BY <1>0, RiskAssumption, AmountAssumption
  <2>2. hold' \in [Holds -> HoldRecords \union {NoHold}]
        /\ \A x \in Holds : hold[x] # NoHold => hold'[x] # NoHold
    BY <2>1, <1>0 DEF TypeOK, Holds
  <2> QED  BY <2>2 DEF TypeOK, SettingsType, TargetsExist, HoldRequests, ReviewRequests
<1>2. ASSUME NEW p \in Pauses, StartPause(p)
      PROVE  TypeOK'
  <2> PICK risk \in Risks :
        /\ hold' = [hold EXCEPT ![p] = NewHold("GUARDIAN_PAUSE", risk, {})]
        /\ UNCHANGED <<settings, contacts, review, req, edits, trail, history>>
    BY <1>2 DEF StartPause
  <2>1. NewHold("GUARDIAN_PAUSE", risk, {}) \in HoldRecords
    BY <1>0, RiskAssumption
  <2>2. hold' \in [Holds -> HoldRecords \union {NoHold}]
        /\ \A x \in Holds : hold[x] # NoHold => hold'[x] # NoHold
    BY <2>1, <1>0 DEF TypeOK, Holds
  <2> QED  BY <2>2 DEF TypeOK, SettingsType, TargetsExist, HoldRequests, ReviewRequests
<1>3. ASSUME NEW s \in SavedSettings, updateSettings(s)
      PROVE  TypeOK'
  <2>1. req' \in [Requests -> HoldRequests \union ReviewRequests \union {NoRequest}]
        /\ TargetsExist'
    BY <1>3, ObservedType DEF updateSettings, TypeOK, TargetsExist
  <2> QED  BY <1>3, <2>1, SavedAssumption DEF updateSettings, Edit, TypeOK, SettingsType
<1>4. ASSUME NEW c \in Contacts, NEW may \in Abilities, SaveContact(c, may)
      PROVE  TypeOK'
  BY <1>4
  DEF SaveContact, Edit, TypeOK, SettingsType, TargetsExist, history
<1>5. ASSUME NEW c \in Contacts, RemoveContact(c)
      PROVE  TypeOK'
  BY <1>5, NoRowAssumption
  DEF RemoveContact, Edit, TypeOK, SettingsType, TargetsExist, history,
      HoldRequests, ReviewRequests
<1>6. ASSUME NEW v \in Reviews, NEW h \in Holds, AskReview(v, h)
      PROVE  TypeOK'
  <2> PICK c \in Contacts : RequestReview(v, h, c)
    BY <1>6 DEF AskReview
  <2>1. NewReview(h, c) \in ReviewRecords /\ NewReview(h, c) # NoReview
    BY NewReviewType
  <2> QED  BY <1>6, <2>1 DEF AskReview, RequestReview, TypeOK, SettingsType, TargetsExist, history
<1> QED  BY <1>1, <1>2, <1>3, <1>4, <1>5, <1>6

\* A step of a request keeps the types.
LEMMA StepType ==
    ASSUME TypeOK, NEW r \in Requests,
           \/ \E h \in Holds, d \in Decisions : DecideRead(r, h, d)
           \/ \E v \in Reviews, d \in ReviewDecisions, by \in {"contact", "owner"} :
                 ReviewRead(r, v, d, by)
           \/ Step(r)
           \/ Fail(r)
    PROVE  TypeOK'
<1>0. /\ End(r) => /\ req' \in [Requests -> HoldRequests \union ReviewRequests \union {NoRequest}]
                   /\ \A x \in Requests : req'[x] \in {req[x], NoRequest}
  BY DEF End, TypeOK
<1>a. ASSUME req[r] # NoRequest, req[r].kind = "hold",
             NEW pc \in {"settings", "create", "approval", "update", "append", "route"},
             Goto(r, pc)
      PROVE  /\ req' \in [Requests -> HoldRequests \union ReviewRequests \union {NoRequest}]
             /\ \A x \in Requests :
                   /\ req'[x] # NoRequest <=> req[x] # NoRequest
                   /\ req[x] # NoRequest =>
                         req'[x].kind = req[x].kind /\ req'[x].target = req[x].target
  <2>1. req[r] \in HoldRequests
    BY <1>a DEF TypeOK, HoldRequests, ReviewRequests
  <2>2. /\ [req[r] EXCEPT !.pc = pc] \in HoldRequests
        /\ [req[r] EXCEPT !.pc = pc].kind = req[r].kind
        /\ [req[r] EXCEPT !.pc = pc].target = req[r].target
    BY <2>1 DEF HoldRequests
  <2>3. req' = [req EXCEPT ![r] = [req[r] EXCEPT !.pc = pc]]
    BY <1>a DEF Goto
  <2> QED  BY <2>1, <2>2, <2>3, NoRowAssumption DEF TypeOK
<1>1. ASSUME NEW h \in Holds, NEW d \in Decisions, DecideRead(r, h, d)
      PROVE  TypeOK'
  <2> DEFINE p == Permits(settings, review, h, d)
             new == [kind |-> "hold", target |-> h, decision |-> d,
                     pc |-> IF d \in Decide[hold[h].module].enforces THEN "settings" ELSE "update",
                     permitted |-> p]
  <2>1. p \in BOOLEAN
    BY DEF Permits, continueAnywayAllowed, trustedContactReviewRequired
  <2>2. new \in HoldRequests /\ new.kind = "hold" /\ new.target = h
    <3> HIDE DEF p
    <3> QED  BY <2>1 DEF HoldRequests
  <2>3. req' = [req EXCEPT ![r] = new] /\ hold[h] # NoHold /\ UNCHANGED <<rows, edits>>
    BY <1>1 DEF DecideRead
  <2> HIDE DEF new
  <2> QED  BY <2>2, <2>3 DEF TypeOK, SettingsType, TargetsExist, rows
<1>2. ASSUME NEW v \in Reviews, NEW d \in ReviewDecisions, NEW by, ReviewRead(r, v, d, by)
      PROVE  TypeOK'
  BY <1>2 DEF ReviewRead, Pending, TypeOK, SettingsType, TargetsExist, rows, ReviewRequests
<1>e. ASSUME NEW s, enforceDecision(r, s), req[r] # NoRequest, req[r].kind = "hold"
      PROVE  \/ End(r)
             \/ \E pc \in {"approval", "update"} : Goto(r, pc)
  BY <1>e DEF enforceDecision
<1>3. CASE getSettings(r)
  BY <1>3, <1>0, <1>a, <1>e DEF getSettings, At, TypeOK, SettingsType, TargetsExist, rows
<1>4. CASE CreateSettings(r)
  <2>1. SettingsType'
    BY <1>4, DefaultAssumption DEF CreateSettings, TypeOK, SettingsType
  <2> QED  BY <1>4, <2>1, <1>0, <1>a, <1>e DEF CreateSettings, At, TypeOK, TargetsExist
<1>5. CASE CheckApproval(r)
  BY <1>5, <1>0, <1>a DEF CheckApproval, At, TypeOK, SettingsType, TargetsExist, rows
<1>6. CASE Update(r)
  <2>1. req[r] \in HoldRequests
    BY <1>6 DEF Update, At, TypeOK, HoldRequests, ReviewRequests
  <2>2. hold[req[r].target] \in HoldRecords
    BY <2>1, <1>6 DEF Update, At, TypeOK, TargetsExist, HoldRequests
  <2>3. [hold[req[r].target] EXCEPT !.decision = req[r].decision] \in HoldRecords
    BY <2>1, <2>2 DEF HoldRecords, HoldRequests
  <2>4. /\ hold' \in [Holds -> HoldRecords \union {NoHold}]
        /\ \A x \in Holds : hold[x] # NoHold => hold'[x] # NoHold
    BY <2>1, <2>3, <1>6, NoRowAssumption DEF Update, TypeOK, HoldRequests
  <2> QED  BY <1>6, <2>4, <1>a DEF Update, At, TypeOK, SettingsType, TargetsExist, HoldRequests, ReviewRequests
<1>7. CASE Append(r)
  BY <1>7, <1>0, <1>a DEF Append, At, TypeOK, SettingsType, TargetsExist, rows
<1>8. CASE RouteReview(r)
  <2>1. req[r] \in HoldRequests
    BY <1>8 DEF RouteReview, At, TypeOK, HoldRequests, ReviewRequests
  <2>2. hold[req[r].target] \in HoldRecords
    BY <2>1, <1>8 DEF RouteReview, At, TypeOK, TargetsExist, HoldRequests
  <2>3. CASE UNCHANGED <<hold, review>>
    BY <1>8, <2>3, <1>0 DEF RouteReview, TypeOK, SettingsType, TargetsExist
  <2>4. ASSUME NEW c \in Contacts, NEW v \in Reviews, RequestReview(v, req[r].target, c),
               hold' = [hold EXCEPT ![req[r].target].review = {v}]
        PROVE  TypeOK'
    <3>1. [hold[req[r].target] EXCEPT !.review = {v}] \in HoldRecords
      BY <2>2 DEF HoldRecords
    <3>2. /\ hold' \in [Holds -> HoldRecords \union {NoHold}]
          /\ \A x \in Holds : hold[x] # NoHold => hold'[x] # NoHold
      BY <2>1, <3>1, <2>4, NoRowAssumption DEF TypeOK, HoldRequests
    <3>3. NewReview(req[r].target, c) \in ReviewRecords
          /\ NewReview(req[r].target, c) # NoReview
      BY <2>1, NewReviewType DEF HoldRequests
    <3> QED  BY <1>8, <1>0, <2>4, <3>2, <3>3
             DEF RouteReview, RequestReview, TypeOK, SettingsType, TargetsExist,
                 HoldRequests, ReviewRequests
  <2> QED  BY <1>8, <2>3, <2>4 DEF RouteReview, resolveContact, Approvers, AlertCapable
<1>9. CASE ReviewWrite(r)
  <2>1. req[r] \in ReviewRequests
    BY <1>9 DEF ReviewWrite, At, TypeOK, HoldRequests, ReviewRequests
  <2>2. CASE End(r) /\ UNCHANGED review
    BY <1>9, <2>2, <1>0 DEF ReviewWrite, TypeOK, SettingsType, TargetsExist
  <2>3. CASE ~(End(r) /\ UNCHANGED review)
    <3> DEFINE v == req[r].target
               new == [review[v] EXCEPT !.status = "DECIDED", !.decision = req[r].decision,
                                        !.token = FALSE]
    <3>1. review[v] \in ReviewRecords /\ v \in Reviews
      BY <1>9, <2>1, <2>3 DEF ReviewWrite, At, TypeOK, TargetsExist, ReviewRequests
    <3>2. new \in ReviewRecords
      BY <3>1, <2>1 DEF ReviewRecords, ReviewRequests
    <3>3. review' = [review EXCEPT ![v] = new]
      BY <1>9, <2>3 DEF ReviewWrite
    <3>4. /\ review' \in [Reviews -> ReviewRecords \union {NoReview, Deleted}]
          /\ \A x \in Reviews : review[x] # NoReview => review'[x] # NoReview
      <4> HIDE DEF new, v
      <4> QED  BY <3>1, <3>2, <3>3, NoRowAssumption DEF TypeOK
    <3>5. req' = [Observed(settings, review') EXCEPT ![r] = NoRequest]
          /\ UNCHANGED <<settings, contacts, hold, edits>>
      BY <1>9, <2>3 DEF ReviewWrite
    <3>6. req' \in [Requests -> HoldRequests \union ReviewRequests \union {NoRequest}]
          /\ TargetsExist'
      BY <3>4, <3>5, ObservedType DEF TypeOK, TargetsExist, HoldRequests, ReviewRequests
    <3> QED  BY <3>4, <3>5, <3>6 DEF TypeOK, SettingsType
  <2> QED  BY <2>2, <2>3
<1>10. CASE Fail(r)
  BY <1>10, <1>0 DEF Fail, TypeOK, SettingsType, TargetsExist, rows
<1> QED  BY <1>1, <1>2, <1>3, <1>4, <1>5, <1>6, <1>7, <1>8, <1>9, <1>10 DEF Step

\* Every step keeps the types.
LEMMA TypeStep == TypeOK /\ [Next]_vars => TypeOK'
<1> SUFFICES ASSUME TypeOK, [Next]_vars PROVE TypeOK'
  OBVIOUS
<1>1. CASE UNCHANGED vars
  BY <1>1 DEF vars, TypeOK, SettingsType, TargetsExist
<1>2. CASE Next
  BY <1>2, UserType, StepType DEF Next
<1> QED  BY <1>1, <1>2

\* The tables and requests of HeldActions have their types, and the user has at
\* most one protection_settings row (getSettings' lazy create races with itself
\* and with updateSettings).
THEOREM TypeCorrect == Spec => []TypeOK
  BY InitTypeOK, TypeStep, PTL DEF Spec

-----------------------------------------------------------------------------
(* No decision is written that policy never permitted while it was made. *)

HoldRequest(r) == req[r] # NoRequest /\ req[r].kind = "hold"

\* The inductive part: a request's history field is up to date.
Tracked ==
    \A r \in Requests :
        HoldRequest(r) /\ Permits(settings, review, req[r].target, req[r].decision)
            => req[r].permitted

\* A request in front of its update was permitted, and only a release looks for
\* an approval.
Guarded ==
    \A r \in Requests :
        /\ At(r, "hold", "update") => req[r].permitted
        /\ At(r, "hold", "approval") => req[r].decision = "RELEASE"

PolicyInv == TypeOK /\ Tracked /\ Guarded

\* What a hold's row says of the action itself never changes.
SameAction(h) ==
    /\ hold'[h].module = hold[h].module
    /\ hold'[h].risk = hold[h].risk
    /\ hold'[h].amount = hold[h].amount

\* Policy permits no more when the settings in force stay and no review of the
\* hold is newly approved.
LEMMA PermitsNoMore ==
    ASSUME NEW h, NEW d, SameAction(h),
           InForce(settings') = InForce(settings),
           Approved(review', h) => Approved(review, h),
           Permits(settings, review, h, d)'
    PROVE  Permits(settings, review, h, d)
<1>1. AmountPassed(hold[h])' = AmountPassed(hold[h])
  BY DEF AmountPassed, SameAction
<1>2. InForce(settings)' = InForce(settings)
  BY DEF InForce
<1>3. Approved(review, h)' => Approved(review, h)
  BY DEF Approved
<1>4. CASE d = "CONTINUE"
  BY <1>1, <1>2, <1>4 DEF Permits, SameAction
<1>5. CASE d = "RELEASE"
  BY <1>1, <1>2, <1>3, <1>5 DEF Permits, SameAction
<1>6. CASE d \notin {"CONTINUE", "RELEASE"}
  BY <1>6 DEF Permits
<1> QED  BY <1>4, <1>5, <1>6

\* A step that starts no decision and lets policy permit no more keeps the
\* histories up to date.
LEMMA TrackedFrame ==
    ASSUME TypeOK, Tracked,
           \A r \in Requests : HoldRequest(r)' =>
               /\ HoldRequest(r)
               /\ req'[r].target = req[r].target
               /\ req'[r].decision = req[r].decision
               /\ req'[r].permitted = req[r].permitted,
           InForce(settings') = InForce(settings),
           \A h \in Holds : Approved(review', h) => Approved(review, h),
           \A h \in Holds : hold[h] # NoHold => SameAction(h)
    PROVE  Tracked'
<1> SUFFICES ASSUME NEW r \in Requests, HoldRequest(r)',
                    Permits(settings, review, req[r].target, req[r].decision)'
             PROVE  req'[r].permitted
  BY DEF Tracked
<1>1. /\ HoldRequest(r)
      /\ req'[r].target = req[r].target
      /\ req'[r].decision = req[r].decision
      /\ req'[r].permitted = req[r].permitted
  OBVIOUS
<1>2. req[r].target \in Holds /\ hold[req[r].target] # NoHold
  BY <1>1 DEF HoldRequest, TypeOK, TargetsExist, HoldRequests, ReviewRequests
<1>3. Permits(settings, review, req[r].target, req[r].decision)'
        => Permits(settings, review, req[r].target, req[r].decision)
  <2> DEFINE h == req[r].target
             d == req[r].decision
  <2>1. h' = h /\ d' = d
    BY <1>1
  <2> HIDE DEF h, d
  <2>2. PICK hh, dd : hh = h /\ dd = d
    OBVIOUS
  <2>3. Permits(settings, review, hh, dd)' => Permits(settings, review, hh, dd)
    BY <1>2, <2>2, PermitsNoMore DEF h
  <2>4. Permits(settings, review, h, d)' = Permits(settings, review, hh, dd)'
    BY <2>1, <2>2 DEF Permits, Approved
  <2> QED  BY <2>2, <2>3, <2>4 DEF h, d
<1> QED  BY <1>1, <1>3 DEF Tracked

\* Recording what policy permits after a change keeps the histories up to date.
LEMMA TrackedObserved ==
    ASSUME TypeOK, UNCHANGED hold,
           \A r \in Requests : HoldRequest(r)' =>
               req'[r] = Observed(settings', review')[r]
    PROVE  Tracked'
<1> SUFFICES ASSUME NEW r \in Requests, HoldRequest(r)',
                    Permits(settings, review, req[r].target, req[r].decision)'
             PROVE  req'[r].permitted
  BY DEF Tracked
<1> DEFINE h == req[r].target
           d == req[r].decision
<1>1. req'[r] = Observed(settings', review')[r]
  OBVIOUS
<1>2. HoldRequest(r) /\ h' = h /\ d' = d
  BY <1>1, ObservedType DEF HoldRequest
<1>3. Permits(settings, review, h, d)' = Permits(settings', review', h, d)
  BY <1>2 DEF Permits, InForce, Approved, AmountPassed
<1> QED  BY <1>1, <1>2, <1>3, ObservedType DEF HoldRequest

\* A request that moves on keeps its target, its decision and its history.
LEMMA GotoKeeps ==
    ASSUME TypeOK, NEW r \in Requests, HoldRequest(r), NEW pc, Goto(r, pc)
    PROVE  /\ \A x \in Requests : HoldRequest(x)' =>
                 /\ HoldRequest(x)
                 /\ req'[x].target = req[x].target
                 /\ req'[x].decision = req[x].decision
                 /\ req'[x].permitted = req[x].permitted
           /\ \A x \in Requests \ {r} : req'[x] = req[x]
           /\ req'[r].pc = pc
<1>1. req[r] \in HoldRequests
  BY DEF HoldRequest, TypeOK, HoldRequests, ReviewRequests
<1>2. req' = [req EXCEPT ![r] = [req[r] EXCEPT !.pc = pc]]
  BY DEF Goto
<1>3. req'[r] = [req[r] EXCEPT !.pc = pc] /\ \A x \in Requests \ {r} : req'[x] = req[x]
  BY <1>2 DEF TypeOK
<1>4. /\ req'[r].target = req[r].target
      /\ req'[r].decision = req[r].decision
      /\ req'[r].permitted = req[r].permitted
      /\ req'[r].kind = req[r].kind
      /\ req'[r].pc = pc
  BY <1>1, <1>3 DEF HoldRequests
<1> QED  BY <1>3, <1>4 DEF HoldRequest

\* A request that ends leaves the others as they are.
LEMMA EndKeeps ==
    ASSUME TypeOK, NEW r \in Requests, End(r)
    PROVE  \A x \in Requests : req'[x] # NoRequest => x # r /\ req'[x] = req[x]
  BY DEF End, TypeOK

\* Steps of the user outside any request.
LEMMA UserPolicy ==
    ASSUME PolicyInv,
           \/ \E m \in Opened, h \in Actions : Open(m, h)
           \/ \E p \in Pauses : StartPause(p)
           \/ \E s \in SavedSettings : updateSettings(s)
           \/ \E c \in Contacts, may \in Abilities : SaveContact(c, may)
           \/ \E c \in Contacts : RemoveContact(c)
           \/ \E v \in Reviews, h \in Holds : AskReview(v, h)
    PROVE  Tracked' /\ Guarded'
<1> USE DEF PolicyInv
<1>s. UNCHANGED req => Guarded'
  BY DEF Guarded, At
<1>1. ASSUME NEW m \in Opened, NEW h \in Actions, Open(m, h)
      PROVE  Tracked' /\ Guarded'
  <2>1. UNCHANGED <<settings, review, req>>
        /\ \A x \in Holds : hold[x] # NoHold => SameAction(x)
    BY <1>1 DEF Open, SameAction, TypeOK, Holds
  <2> QED  BY <2>1, <1>s, TrackedFrame DEF HoldRequest
<1>2. ASSUME NEW p \in Pauses, StartPause(p)
      PROVE  Tracked' /\ Guarded'
  <2>1. UNCHANGED <<settings, review, req>>
        /\ \A x \in Holds : hold[x] # NoHold => SameAction(x)
    BY <1>2 DEF StartPause, SameAction, TypeOK, Holds
  <2> QED  BY <2>1, <1>s, TrackedFrame DEF HoldRequest
<1>3. ASSUME NEW s \in SavedSettings, updateSettings(s)
      PROVE  Tracked' /\ Guarded'
  <2>1. req' = Observed(settings', review') /\ UNCHANGED hold
    BY <1>3 DEF updateSettings
  <2>2. Tracked'
    BY <2>1, TrackedObserved
  <2>3. Guarded'
    BY <2>1, ObservedType DEF Guarded, At
  <2> QED  BY <2>2, <2>3
<1>4. ASSUME NEW c \in Contacts, NEW may \in Abilities, SaveContact(c, may)
      PROVE  Tracked' /\ Guarded'
  <2>1. UNCHANGED <<settings, review, req, hold>>
    BY <1>4 DEF SaveContact
  <2> QED  BY <2>1, <1>s, TrackedFrame DEF HoldRequest, SameAction
<1>5. ASSUME NEW c \in Contacts, RemoveContact(c)
      PROVE  Tracked' /\ Guarded'
  <2>1. UNCHANGED <<settings, req, hold>>
        /\ \A h \in Holds : Approved(review', h) => Approved(review, h)
    BY <1>5 DEF RemoveContact, Approved
  <2> QED  BY <2>1, <1>s, TrackedFrame DEF HoldRequest, SameAction
<1>6. ASSUME NEW v \in Reviews, NEW g \in Holds, AskReview(v, g)
      PROVE  Tracked' /\ Guarded'
  <2>1. UNCHANGED <<settings, req, hold>>
        /\ \A h \in Holds : Approved(review', h) => Approved(review, h)
    BY <1>6 DEF AskReview, RequestReview, NewReview, Approved, TypeOK
  <2> QED  BY <2>1, <1>s, TrackedFrame DEF HoldRequest, SameAction
<1> QED  BY <1>1, <1>2, <1>3, <1>4, <1>5, <1>6

\* What enforceDecision lets through, the settings it read permit.
LEMMA EnforcedIsPermitted ==
    ASSUME NEW r, NEW s, InForce(settings) = s, enforceDecision(r, s)
    PROVE  \/ End(r)
           \/ Goto(r, "approval") /\ req[r].decision = "RELEASE"
           \/ /\ Goto(r, "update")
              /\ Permits(settings, review, req[r].target, req[r].decision)
<1>1. CASE req[r].decision = "CONTINUE"
  BY <1>1 DEF enforceDecision, Permits
<1>2. CASE req[r].decision = "RELEASE"
  BY <1>2 DEF enforceDecision, Permits
<1>3. CASE req[r].decision \notin {"CONTINUE", "RELEASE"}
  BY <1>3 DEF enforceDecision, Permits
<1> QED  BY <1>1, <1>2, <1>3

\* A request that moves on, into the update only with policy's permission.
LEMMA GotoPolicy ==
    ASSUME PolicyInv, NEW r \in Requests, HoldRequest(r), NEW pc, Goto(r, pc),
           pc = "update" => Permits(settings, review, req[r].target, req[r].decision),
           pc = "approval" => req[r].decision = "RELEASE"
    PROVE  Guarded'
<1> SUFFICES ASSUME NEW x \in Requests, HoldRequest(x)'
             PROVE  /\ req'[x].pc = "update" => req'[x].permitted
                    /\ req'[x].pc = "approval" => req'[x].decision = "RELEASE"
  BY DEF Guarded, At, HoldRequest
<1>2. CASE x = r
  BY <1>2, GotoKeeps DEF PolicyInv, Tracked
<1>3. CASE x # r
  BY <1>3, GotoKeeps DEF PolicyInv, Guarded, At, HoldRequest
<1> QED  BY <1>2, <1>3

\* A request that ends.
LEMMA EndPolicy ==
    ASSUME PolicyInv, NEW r \in Requests, End(r)
    PROVE  Guarded'
  BY EndKeeps DEF PolicyInv, Guarded, At

\* Steps of a request.
LEMMA StepPolicy ==
    ASSUME PolicyInv, NEW r \in Requests,
           \/ \E h \in Holds, d \in Decisions : DecideRead(r, h, d)
           \/ \E v \in Reviews, d \in ReviewDecisions, by \in {"contact", "owner"} :
                 ReviewRead(r, v, d, by)
           \/ Step(r)
           \/ Fail(r)
    PROVE  Tracked' /\ Guarded'
<1>t. TypeOK /\ Tracked /\ Guarded
  BY DEF PolicyInv
<1>e. ASSUME End(r), InForce(settings') = InForce(settings),
             \A h \in Holds : Approved(review', h) => Approved(review, h),
             \A h \in Holds : hold[h] # NoHold => SameAction(h)
      PROVE  Tracked' /\ Guarded'
  <2>1. \A x \in Requests : HoldRequest(x)' => HoldRequest(x) /\ req'[x] = req[x]
    BY <1>e, <1>t, EndKeeps DEF HoldRequest
  <2> QED  BY <1>e, <1>t, <2>1, TrackedFrame, EndPolicy
<1>g. ASSUME HoldRequest(r), NEW pc, Goto(r, pc),
             pc = "update" => Permits(settings, review, req[r].target, req[r].decision),
             pc = "approval" => req[r].decision = "RELEASE",
             InForce(settings') = InForce(settings),
             UNCHANGED review,
             \A h \in Holds : hold[h] # NoHold => SameAction(h)
      PROVE  Tracked' /\ Guarded'
  BY <1>g, <1>t, GotoKeeps, TrackedFrame, GotoPolicy
<1>k. UNCHANGED hold => \A h \in Holds : hold[h] # NoHold => SameAction(h)
  BY DEF SameAction
<1>1. ASSUME NEW h \in Holds, NEW d \in Decisions, DecideRead(r, h, d)
      PROVE  Tracked' /\ Guarded'
  <2> DEFINE p == Permits(settings, review, h, d)
             pc == IF d \in Decide[hold[h].module].enforces THEN "settings" ELSE "update"
             new == [kind |-> "hold", target |-> h, decision |-> d, pc |-> pc, permitted |-> p]
  <2>1. /\ req' = [req EXCEPT ![r] = new] /\ UNCHANGED <<settings, review, hold>>
        /\ d \in Decide[hold[h].module].offers
        /\ hold[h] # NoHold
    BY <1>1 DEF DecideRead, rows
  <2>2. new.target = h /\ new.decision = d /\ new.permitted = p /\ new.pc = pc
    <3> HIDE DEF p
    <3> QED  OBVIOUS
  <2>3. req'[r] = new /\ \A x \in Requests \ {r} : req'[x] = req[x]
    BY <2>1, <1>t DEF TypeOK
  <2>4. Permits(settings, review, h, d)' = p
    BY <2>1 DEF Permits, InForce, Approved, AmountPassed
  <2>5. (pc = "update" => p) /\ pc # "approval"
    <3>1. hold[h].module \in Modules
      BY <2>1, <1>t DEF TypeOK, HoldRecords
    <3>2. pc = "update" => d \notin {"CONTINUE", "RELEASE"}
      BY <3>1, <2>1 DEF Modules, Decide, ScamHoldDecide, GiftCardDecide, WalletDecide,
                        ClaimDecide, PauseComplete
    <3>3. pc # "approval"
      OBVIOUS
    <3> QED  BY <3>2, <3>3 DEF Permits
  <2> HIDE DEF new, p, pc
  <2>6. Guarded'
    BY <2>2, <2>3, <2>5, <1>t DEF Guarded, At
  <2>7. Tracked'
    <3> SUFFICES ASSUME NEW x \in Requests, HoldRequest(x)',
                        Permits(settings, review, req[x].target, req[x].decision)'
                 PROVE  req'[x].permitted
      BY DEF Tracked
    <3>1. CASE x = r
      <4>1. Permits(settings, review, req[x].target, req[x].decision)'
              = Permits(settings, review, h, d)'
        BY <3>1, <2>2, <2>3 DEF Permits, Approved
      <4> QED  BY <3>1, <4>1, <2>2, <2>3, <2>4
    <3>2. CASE x # r
      <4>1. req'[x] = req[x]
        BY <3>2, <2>3
      <4>2. Permits(settings, review, req[x].target, req[x].decision)'
              = Permits(settings, review, req[x].target, req[x].decision)
        BY <4>1, <2>1 DEF Permits, InForce, Approved, AmountPassed
      <4> QED  BY <4>1, <4>2, <1>t DEF Tracked, HoldRequest
    <3> QED  BY <3>1, <3>2
  <2> QED  BY <2>6, <2>7
<1>2. ASSUME NEW v \in Reviews, NEW d \in ReviewDecisions, NEW by, ReviewRead(r, v, d, by)
      PROVE  Tracked' /\ Guarded'
  <2>1. /\ UNCHANGED <<settings, review, hold>>
        /\ req'[r].kind = "review"
        /\ \A x \in Requests \ {r} : req'[x] = req[x]
    BY <1>2, <1>t DEF ReviewRead, rows, TypeOK
  <2>2. \A x \in Requests : HoldRequest(x)' => HoldRequest(x) /\ req'[x] = req[x]
    BY <2>1 DEF HoldRequest
  <2>3. Guarded'
    BY <2>2, <1>t DEF Guarded, At, HoldRequest
  <2> QED  BY <2>1, <2>2, <2>3, <1>k, <1>t, TrackedFrame
<1>f. \A s \in settings : InForce(settings) = s
  BY <1>t, InForceIsTheRow DEF TypeOK, SettingsType
<1>3. CASE getSettings(r)
  <2>1. UNCHANGED <<settings, review, hold>> /\ HoldRequest(r)
    BY <1>3 DEF getSettings, rows, At, HoldRequest
  <2>2. CASE Goto(r, "create")
    BY <2>1, <2>2, <1>g, <1>k
  <2>3. ASSUME NEW s \in settings, enforceDecision(r, s)
        PROVE  Tracked' /\ Guarded'
    <3>1. InForce(settings) = s
      BY <2>3, <1>f
    <3>2. \/ End(r)
          \/ Goto(r, "approval") /\ req[r].decision = "RELEASE"
          \/ /\ Goto(r, "update")
             /\ Permits(settings, review, req[r].target, req[r].decision)
      BY <2>3, <3>1, EnforcedIsPermitted
    <3> QED  BY <2>1, <3>2, <1>e, <1>g, <1>k
  <2> QED  BY <1>3, <2>2, <2>3 DEF getSettings
<1>4. CASE CreateSettings(r)
  <2>1. UNCHANGED <<review, hold>> /\ HoldRequest(r)
    BY <1>4 DEF CreateSettings, At, HoldRequest
  <2>2. CASE settings # {}
    <3>1. End(r) /\ UNCHANGED settings
      BY <1>4, <2>2 DEF CreateSettings
    <3> QED  BY <3>1, <2>1, <1>e, <1>k
  <2>3. CASE settings = {}
    <3>1. settings' = {DefaultSettings} /\ enforceDecision(r, DefaultSettings)
      BY <1>4, <2>3 DEF CreateSettings
    <3>2. InForce(settings) = DefaultSettings /\ InForce(settings') = DefaultSettings
      BY <2>3, <3>1, InForceIsTheRow, DefaultAssumption
    <3>3. \/ End(r)
          \/ Goto(r, "approval") /\ req[r].decision = "RELEASE"
          \/ /\ Goto(r, "update")
             /\ Permits(settings, review, req[r].target, req[r].decision)
      BY <3>1, <3>2, EnforcedIsPermitted
    <3> QED  BY <2>1, <3>2, <3>3, <1>e, <1>g, <1>k
  <2> QED  BY <2>2, <2>3
<1>5. CASE CheckApproval(r)
  <2>1. UNCHANGED <<settings, review, hold>> /\ HoldRequest(r) /\ req[r].pc = "approval"
    BY <1>5 DEF CheckApproval, rows, At, HoldRequest
  <2>2. hasApprovedReview(review, req[r].target) => Approved(review, req[r].target)
    BY DEF hasApprovedReview, Approved
  <2>3. \/ End(r)
        \/ Goto(r, "update") /\ Approved(review, req[r].target)
    BY <1>5, <2>2 DEF CheckApproval
  <2>4. req[r].decision = "RELEASE"
    BY <1>5, <1>t DEF CheckApproval, Guarded
  <2>5. Approved(review, req[r].target)
          => Permits(settings, review, req[r].target, req[r].decision)
    BY <2>4 DEF Permits
  <2> QED  BY <2>1, <2>3, <2>4, <2>5, <1>e, <1>g, <1>k
<1>6. CASE Update(r)
  <2>1. UNCHANGED <<settings, review>> /\ HoldRequest(r) /\ Goto(r, "append")
    BY <1>6 DEF Update, At, HoldRequest
  <2>2. \A h \in Holds : hold[h] # NoHold => SameAction(h)
    BY <1>6, <1>t DEF Update, SameAction, TypeOK, HoldRecords
  <2> QED  BY <2>1, <2>2, <1>g
<1>7. CASE Append(r)
  <2>1. UNCHANGED <<settings, review, hold>> /\ HoldRequest(r)
        /\ (End(r) \/ Goto(r, "route"))
    BY <1>7 DEF Append, At, HoldRequest, rows
  <2> QED  BY <2>1, <1>e, <1>g, <1>k
<1>8. CASE RouteReview(r)
  <2>1. UNCHANGED settings /\ End(r)
    BY <1>8 DEF RouteReview
  <2>2. CASE UNCHANGED <<hold, review>>
    BY <2>1, <2>2, <1>e, <1>k
  <2>3. ASSUME NEW c \in Contacts, NEW v \in Reviews, RequestReview(v, req[r].target, c),
               hold' = [hold EXCEPT ![req[r].target].review = {v}]
        PROVE  Tracked' /\ Guarded'
    <3>1. \A h \in Holds : hold[h] # NoHold => SameAction(h)
      BY <2>3, <1>t DEF SameAction, TypeOK, HoldRecords
    <3>2. \A h \in Holds : Approved(review', h) => Approved(review, h)
      BY <2>3, <1>t DEF RequestReview, NewReview, Approved, TypeOK
    <3> QED  BY <2>1, <3>1, <3>2, <1>e
  <2> QED  BY <1>8, <2>2, <2>3 DEF RouteReview, resolveContact, Approvers, AlertCapable
<1>9. CASE ReviewWrite(r)
  <2>1. UNCHANGED <<settings, hold>>
    BY <1>9 DEF ReviewWrite
  <2>2. CASE End(r) /\ UNCHANGED review
    BY <2>1, <2>2, <1>e, <1>k
  <2>3. CASE req' = [Observed(settings, review') EXCEPT ![r] = NoRequest]
    <3>1. \A x \in Requests : req'[x] # NoRequest =>
             req'[x] = Observed(settings', review')[x]
      BY <2>1, <2>3, <1>t, ObservedType
    <3>2. Tracked'
      BY <2>1, <3>1, <1>t, TrackedObserved DEF HoldRequest
    <3>3. Guarded'
      BY <3>1, <1>t, ObservedType DEF Guarded, At
    <3> QED  BY <3>2, <3>3
  <2> QED  BY <1>9, <2>2, <2>3 DEF ReviewWrite
<1>10. CASE Fail(r)
  <2>1. UNCHANGED <<settings, review, hold>> /\ End(r)
    BY <1>10 DEF Fail, rows
  <2> QED  BY <2>1, <1>e, <1>k
<1> QED  BY <1>1, <1>2, <1>3, <1>4, <1>5, <1>6, <1>7, <1>8, <1>9, <1>10 DEF Step

\* The strengthened invariant is inductive.
LEMMA PolicyStep == PolicyInv /\ [Next]_vars => PolicyInv'
<1> SUFFICES ASSUME PolicyInv, [Next]_vars PROVE PolicyInv'
  OBVIOUS
<1>1. TypeOK'
  BY TypeStep DEF PolicyInv
<1>2. CASE UNCHANGED vars
  BY <1>1, <1>2 DEF vars, PolicyInv, Tracked, Guarded, HoldRequest, At,
                    Permits, InForce, Approved, AmountPassed
<1>3. CASE Next
  BY <1>1, <1>3, UserPolicy, StepPolicy DEF Next, PolicyInv
<1> QED  BY <1>2, <1>3

\* No module continues or releases a held action that the policy did not permit
\* at some moment while the request was made: for any number of holds, requests,
\* contacts and reviews, any settings and any interleaving.
THEOREM NothingPasses == Spec => []NothingPassesUnpermitted
<1>1. Init => PolicyInv
  BY InitTypeOK DEF Init, PolicyInv, Tracked, Guarded, HoldRequest, At
<1>2. PolicyInv => NothingPassesUnpermitted
  BY DEF PolicyInv, Guarded, NothingPassesUnpermitted
<1> QED  BY <1>1, <1>2, PolicyStep, PTL DEF Spec

-----------------------------------------------------------------------------
(* Decisions and their evidence. *)

\* A row's decision is in the Evidence Vault, or the request that wrote it is in
\* front of its append, or a request of the row failed after its write
\* (the update and EvidenceService.append are not one transaction).
THEOREM DecisionsAreBacked == Spec => []DecisionBacked
<1>1. Init => DecisionBacked
  BY DEF Init, DecisionBacked
<1>2. ASSUME TypeOK, DecisionBacked, [Next]_vars
      PROVE  DecisionBacked'
  <2> USE <1>2
  <2> DEFINE Backed(h) == \/ <<h, hold[h].decision>> \in trail
                          \/ \E r \in Requests : /\ At(r, "hold", "append")
                                                 /\ req[r].target = h
                                                 /\ req[r].decision = hold[h].decision
                          \/ h \in failed
  <2> SUFFICES ASSUME NEW h \in Holds, hold'[h] # NoHold, hold'[h].decision # "PENDING"
               PROVE  Backed(h)'
    BY DEF DecisionBacked
  \* A step that neither writes the row nor moves a request from its append.
  <2>f. ASSUME hold[h] # NoHold, hold'[h].decision = hold[h].decision,
               trail \subseteq trail', failed \subseteq failed',
               \A r \in Requests : At(r, "hold", "append") /\ req[r].target = h =>
                    \/ /\ At(r, "hold", "append")'
                       /\ req'[r].target = h
                       /\ req'[r].decision = req[r].decision
                    \/ <<h, req[r].decision>> \in trail'
                    \/ h \in failed'
        PROVE  Backed(h)'
    <3>1. Backed(h)
      BY <2>f DEF DecisionBacked
    <3> QED  BY <2>f, <3>1
  <2>h. hold'[h] = hold[h] => hold[h] # NoHold /\ hold'[h].decision = hold[h].decision
    OBVIOUS
  <2> HIDE DEF Backed
  <2>s. ASSUME NEW r \in Requests, hold'[h] = hold[h], UNCHANGED <<trail, failed>>,
               ~At(r, "hold", "append"),
               \A x \in Requests \ {r} : req'[x] = req[x]
        PROVE  Backed(h)'
    <3>1. \A x \in Requests : At(x, "hold", "append") =>
             At(x, "hold", "append")' /\ req'[x] = req[x]
      BY <2>s DEF At
    <3> QED  BY <2>s, <3>1, <2>f, <2>h
  <2>q. ASSUME hold'[h] = hold[h], UNCHANGED <<trail, failed, req>>
        PROVE  Backed(h)'
    BY <2>q, <2>f, <2>h DEF At
  <2>1. CASE UNCHANGED vars
    BY <2>1, <2>q DEF vars
  <2>2. ASSUME NEW m \in Opened, NEW g \in Actions, Open(m, g)
        PROVE  Backed(h)'
    <3>1. hold'[h] = hold[h] \/ hold'[h].decision = "PENDING"
      BY <2>2 DEF Open, NewHold, TypeOK, Holds
    <3> QED  BY <2>2, <3>1, <2>q DEF Open, history
  <2>3. ASSUME NEW p \in Pauses, StartPause(p)
        PROVE  Backed(h)'
    <3>1. hold'[h] = hold[h] \/ hold'[h].decision = "PENDING"
      BY <2>3 DEF StartPause, NewHold, TypeOK, Holds
    <3> QED  BY <2>3, <3>1, <2>q DEF StartPause, history
  <2>4. ASSUME NEW s \in SavedSettings, updateSettings(s)
        PROVE  Backed(h)'
    <3>1. \A x \in Requests : At(x, "hold", "append") =>
             /\ At(x, "hold", "append")'
             /\ req'[x].target = req[x].target
             /\ req'[x].decision = req[x].decision
      BY <2>4, ObservedType DEF updateSettings, At
    <3> QED  BY <2>4, <3>1, <2>f, <2>h DEF updateSettings
  <2>5. ASSUME NEW c \in Contacts, NEW may \in Abilities, SaveContact(c, may)
        PROVE  Backed(h)'
    BY <2>5, <2>q DEF SaveContact, history
  <2>6. ASSUME NEW c \in Contacts, RemoveContact(c)
        PROVE  Backed(h)'
    BY <2>6, <2>q DEF RemoveContact, history
  <2>7. ASSUME NEW v \in Reviews, NEW g \in Holds, AskReview(v, g)
        PROVE  Backed(h)'
    BY <2>7, <2>q DEF AskReview, history
  <2>8. ASSUME NEW r \in Requests,
               \/ \E g \in Holds, d \in Decisions : DecideRead(r, g, d)
               \/ \E v \in Reviews, d \in ReviewDecisions, by \in {"contact", "owner"} :
                     ReviewRead(r, v, d, by)
               \/ getSettings(r) \/ CreateSettings(r) \/ CheckApproval(r)
        PROVE  Backed(h)'
    <3>1. UNCHANGED <<hold, trail, failed>>
      BY <2>8 DEF DecideRead, ReviewRead, getSettings, CreateSettings, CheckApproval, rows, history
    <3>2. ~At(r, "hold", "append")
      BY <2>8 DEF DecideRead, ReviewRead, getSettings, CreateSettings, CheckApproval, At
    <3>3. \A x \in Requests \ {r} : req'[x] = req[x]
      BY <2>8 DEF DecideRead, ReviewRead, getSettings, CreateSettings, CheckApproval,
                  enforceDecision, Goto, End, TypeOK
    <3> QED  BY <3>1, <3>2, <3>3, <2>s
  <2>9. ASSUME NEW r \in Requests, Update(r)
        PROVE  Backed(h)'
    <3>1. /\ HoldRequest(r) /\ Goto(r, "append") /\ UNCHANGED <<trail, failed>>
          /\ req[r].pc = "update"
          /\ hold' = [hold EXCEPT ![req[r].target].decision = req[r].decision]
      BY <2>9 DEF Update, At, HoldRequest, history
    <3>2. At(r, "hold", "append")' /\ req'[r].target = req[r].target
          /\ req'[r].decision = req[r].decision
      BY <3>1, GotoKeeps, NoRowAssumption
      DEF Goto, At, HoldRequest, TypeOK, HoldRequests, ReviewRequests
    <3>3. CASE h = req[r].target
      <4>1. hold[h] \in HoldRecords
        BY <3>1, <3>3 DEF TypeOK, TargetsExist, HoldRequest
      <4>2. hold'[h].decision = req[r].decision
        BY <3>1, <3>3, <4>1 DEF TypeOK, HoldRecords
      <4> QED  BY <3>2, <3>3, <4>2 DEF Backed
    <3>4. CASE h # req[r].target
      <4>1. hold'[h] = hold[h]
        BY <3>1, <3>4 DEF TypeOK
      <4>2. ~At(r, "hold", "append") /\ \A x \in Requests \ {r} : req'[x] = req[x]
        BY <3>1, GotoKeeps DEF At
      <4> QED  BY <3>1, <4>1, <4>2, <2>s
    <3> QED  BY <3>3, <3>4
  <2>10. ASSUME NEW r \in Requests, Append(r)
         PROVE  Backed(h)'
    <3>1. /\ trail' = trail \union {<<req[r].target, req[r].decision>>}
          /\ UNCHANGED <<hold, failed>> /\ \A x \in Requests \ {r} : req'[x] = req[x]
      BY <2>10 DEF Append, rows, history, End, Goto, TypeOK
    <3>2. \A x \in Requests \ {r} : At(x, "hold", "append") =>
             At(x, "hold", "append")' /\ req'[x] = req[x]
      BY <3>1 DEF At
    <3> QED  BY <3>1, <3>2, <2>f, <2>h
  <2>11. ASSUME NEW r \in Requests, RouteReview(r)
         PROVE  Backed(h)'
    <3>1. /\ End(r) /\ UNCHANGED <<trail, failed>> /\ ~At(r, "hold", "append")
          /\ \/ UNCHANGED hold
             \/ \E v \in Reviews : hold' = [hold EXCEPT ![req[r].target].review = {v}]
          /\ HoldRequest(r)
      BY <2>11 DEF RouteReview, At, HoldRequest
    <3>2. \A x \in Requests : At(x, "hold", "append") =>
             At(x, "hold", "append")' /\ req'[x] = req[x]
      BY <3>1 DEF End, At, TypeOK
    <3>3. hold[req[r].target] \in HoldRecords
      BY <3>1 DEF HoldRequest, TypeOK, TargetsExist, HoldRequests, ReviewRequests
    <3>4. hold[h] # NoHold /\ hold'[h].decision = hold[h].decision
      <4>1. CASE hold'[h] = hold[h]
        BY <4>1
      <4>2. CASE hold'[h] # hold[h]
        <5>1. PICK v \in Reviews : hold' = [hold EXCEPT ![req[r].target].review = {v}]
          BY <3>1, <4>2
        <5>2. h = req[r].target
          BY <4>2, <5>1 DEF TypeOK
        <5>3. hold'[h] = [hold[h] EXCEPT !.review = {v}]
          BY <5>1, <5>2 DEF TypeOK
        <5>4. hold[h] # NoHold
          BY <3>3, <5>2, NoRowAssumption
        <5> QED  BY <3>3, <5>2, <5>3, <5>4 DEF HoldRecords
      <4> QED  BY <4>1, <4>2
    <3> QED  BY <3>1, <3>2, <3>4, <2>f
  <2>12. ASSUME NEW r \in Requests, ReviewWrite(r)
         PROVE  Backed(h)'
    <3>1. UNCHANGED <<hold, trail, failed>> /\ req[r].kind = "review" /\ req[r] # NoRequest
      BY <2>12 DEF ReviewWrite, At, history
    <3>2. \A x \in Requests : At(x, "hold", "append") =>
             /\ At(x, "hold", "append")'
             /\ req'[x].target = req[x].target
             /\ req'[x].decision = req[x].decision
      <4>1. CASE End(r)
        BY <3>1, <4>1 DEF End, At, TypeOK
      <4>2. CASE req' = [Observed(settings, review') EXCEPT ![r] = NoRequest]
        BY <3>1, <4>2, ObservedType DEF At
      <4> QED  BY <2>12, <4>1, <4>2 DEF ReviewWrite
    <3> QED  BY <3>1, <3>2, <2>f, <2>h
  <2>13. ASSUME NEW r \in Requests, Fail(r)
         PROVE  Backed(h)'
    <3>1. /\ UNCHANGED <<hold, trail>> /\ failed \subseteq failed' /\ End(r)
          /\ At(r, "hold", "append") => req[r].target \in failed'
      BY <2>13 DEF Fail, rows, At
    <3>2. \A x \in Requests \ {r} : At(x, "hold", "append") =>
             At(x, "hold", "append")' /\ req'[x] = req[x]
      BY <3>1 DEF End, At, TypeOK
    <3> QED  BY <3>1, <3>2, <2>f, <2>h
  <2> QED  BY <2>1, <2>2, <2>3, <2>4, <2>5, <2>6, <2>7, <2>8, <2>9, <2>10, <2>11, <2>12,
              <2>13, <1>2 DEF Next, Step
<1> QED  BY <1>1, <1>2, TypeCorrect, PTL DEF Spec

-----------------------------------------------------------------------------
(* Escalations and their reviews. *)

\* A hold the user escalated has its trusted-contact review, or a request is
\* still on its way from the write of the row to routeReview, or the user had no
\* eligible contact at that moment, or a request of the hold failed after its
\* write: decide() opens the review only after the row and its evidence.
THEOREM EscalationsAreRouted == Spec => []EscalationRouted
<1>1. Init => EscalationRouted
  BY DEF Init, EscalationRouted
<1>2. ASSUME TypeOK, EscalationRouted, [Next]_vars
      PROVE  EscalationRouted'
  <2> USE <1>2
  <2> DEFINE OnTheWay(r, h) == /\ At(r, "hold", "append") \/ At(r, "hold", "route")
                               /\ req[r].target = h
                               /\ req[r].decision = "ESCALATE"
             Routed(h) == \/ hold[h].review # {}
                          \/ \E r \in Requests : OnTheWay(r, h)
                          \/ h \in failed \union unrouted
  <2> SUFFICES ASSUME NEW h \in Holds, hold'[h] # NoHold, hold'[h].decision = "ESCALATE"
               PROVE  Routed(h)'
    BY DEF EscalationRouted
  \* A step that neither escalates the row nor loses a request on its way.
  <2>f. ASSUME hold[h] # NoHold, hold[h].decision = "ESCALATE",
               hold[h].review # {} => hold'[h].review # {},
               failed \subseteq failed', unrouted \subseteq unrouted',
               \A r \in Requests : OnTheWay(r, h) => OnTheWay(r, h)' \/ Routed(h)'
        PROVE  Routed(h)'
    <3>1. Routed(h)
      BY <2>f DEF EscalationRouted
    <3>2. CASE \E r \in Requests : OnTheWay(r, h)
      <4>1. PICK r \in Requests : OnTheWay(r, h)
        BY <3>2
      <4>2. OnTheWay(r, h)' \/ Routed(h)'
        BY <2>f, <4>1
      <4> QED  BY <4>2
    <3>3. CASE hold[h].review # {} \/ h \in failed \union unrouted
      BY <2>f, <3>3
    <3> QED  BY <3>1, <3>2, <3>3
  <2>h. hold'[h] = hold[h] =>
           /\ hold[h] # NoHold /\ hold[h].decision = "ESCALATE"
           /\ hold[h].review # {} => hold'[h].review # {}
    OBVIOUS
  <2>w. \A r \in Requests : req'[r] = req[r] /\ OnTheWay(r, h) => OnTheWay(r, h)'
    BY DEF At
  <2>v. \A r \in Requests : OnTheWay(r, h)' => Routed(h)'
    OBVIOUS
  <2>u. hold'[h].review # {} \/ h \in failed' \union unrouted' => Routed(h)'
    OBVIOUS
  <2> HIDE DEF Routed
  <2>s. ASSUME NEW r \in Requests, hold'[h] = hold[h], UNCHANGED <<failed, unrouted>>,
               ~OnTheWay(r, h),
               \A x \in Requests \ {r} : req'[x] = req[x]
        PROVE  Routed(h)'
    <3>1. \A x \in Requests : OnTheWay(x, h) => OnTheWay(x, h)'
      BY <2>s, <2>w
    <3> HIDE DEF OnTheWay
    <3> QED  BY <2>s, <3>1, <2>f, <2>h
  <2>q. ASSUME hold'[h] = hold[h], UNCHANGED <<failed, unrouted, req>>
        PROVE  Routed(h)'
    BY <2>q, <2>w, <2>f, <2>h
  <2>1. CASE UNCHANGED vars
    BY <2>1, <2>q DEF vars
  <2>2. ASSUME NEW m \in Opened, NEW g \in Actions, Open(m, g)
        PROVE  Routed(h)'
    <3>1. hold'[h] = hold[h] \/ hold'[h].decision = "PENDING"
      BY <2>2 DEF Open, NewHold, TypeOK, Holds
    <3> QED  BY <2>2, <3>1, <2>q DEF Open, history
  <2>3. ASSUME NEW p \in Pauses, StartPause(p)
        PROVE  Routed(h)'
    <3>1. hold'[h] = hold[h] \/ hold'[h].decision = "PENDING"
      BY <2>3 DEF StartPause, NewHold, TypeOK, Holds
    <3> QED  BY <2>3, <3>1, <2>q DEF StartPause, history
  <2>4. ASSUME NEW s \in SavedSettings, updateSettings(s)
        PROVE  Routed(h)'
    <3>1. \A x \in Requests : OnTheWay(x, h) => OnTheWay(x, h)'
      BY <2>4, ObservedType DEF updateSettings, At
    <3>2. UNCHANGED <<hold, failed, unrouted>>
      BY <2>4 DEF updateSettings
    <3> HIDE DEF OnTheWay
    <3> QED  BY <3>1, <3>2, <2>f, <2>h
  <2>5. ASSUME NEW c \in Contacts, NEW may \in Abilities, SaveContact(c, may)
        PROVE  Routed(h)'
    BY <2>5, <2>q DEF SaveContact, history
  <2>6. ASSUME NEW c \in Contacts, RemoveContact(c)
        PROVE  Routed(h)'
    BY <2>6, <2>q DEF RemoveContact, history
  <2>7. ASSUME NEW v \in Reviews, NEW g \in Holds, AskReview(v, g)
        PROVE  Routed(h)'
    BY <2>7, <2>q DEF AskReview, history
  <2>8. ASSUME NEW r \in Requests,
               \/ \E g \in Holds, d \in Decisions : DecideRead(r, g, d)
               \/ \E v \in Reviews, d \in ReviewDecisions, by \in {"contact", "owner"} :
                     ReviewRead(r, v, d, by)
               \/ getSettings(r) \/ CreateSettings(r) \/ CheckApproval(r)
        PROVE  Routed(h)'
    <3>1. UNCHANGED <<hold, failed, unrouted>>
      BY <2>8 DEF DecideRead, ReviewRead, getSettings, CreateSettings, CheckApproval, rows, history
    <3>2. ~OnTheWay(r, h)
      BY <2>8 DEF DecideRead, ReviewRead, getSettings, CreateSettings, CheckApproval, At
    <3>3. \A x \in Requests \ {r} : req'[x] = req[x]
      BY <2>8 DEF DecideRead, ReviewRead, getSettings, CreateSettings, CheckApproval,
                  enforceDecision, Goto, End, TypeOK
    <3> HIDE DEF OnTheWay
    <3> QED  BY <3>1, <3>2, <3>3, <2>s
  <2>9. ASSUME NEW r \in Requests, Update(r)
        PROVE  Routed(h)'
    <3>1. /\ HoldRequest(r) /\ Goto(r, "append") /\ UNCHANGED <<failed, unrouted>>
          /\ req[r].pc = "update"
          /\ hold' = [hold EXCEPT ![req[r].target].decision = req[r].decision]
      BY <2>9 DEF Update, At, HoldRequest, history
    <3>2. At(r, "hold", "append")' /\ req'[r].target = req[r].target
          /\ req'[r].decision = req[r].decision
      BY <3>1, GotoKeeps, NoRowAssumption
      DEF Goto, At, HoldRequest, TypeOK, HoldRequests, ReviewRequests
    <3>3. CASE h = req[r].target
      <4>1. hold[h] \in HoldRecords
        BY <3>1, <3>3 DEF TypeOK, TargetsExist, HoldRequest
      <4>2. hold'[h].decision = req[r].decision
        BY <3>1, <3>3, <4>1 DEF TypeOK, HoldRecords
      <4>3. OnTheWay(r, h)'
        BY <3>2, <3>3, <4>2
      <4> HIDE DEF OnTheWay
      <4> QED  BY <4>3, <2>v
    <3>4. CASE h # req[r].target
      <4>1. hold'[h] = hold[h]
        BY <3>1, <3>4 DEF TypeOK
      <4>2. ~OnTheWay(r, h) /\ \A x \in Requests \ {r} : req'[x] = req[x]
        BY <3>1, <3>4, GotoKeeps DEF At
      <4> HIDE DEF OnTheWay
      <4> QED  BY <3>1, <4>1, <4>2, <2>s
    <3> QED  BY <3>3, <3>4
  <2>10. ASSUME NEW r \in Requests, Append(r)
         PROVE  Routed(h)'
    <3>1. /\ UNCHANGED <<hold, failed, unrouted>>
          /\ \A x \in Requests \ {r} : req'[x] = req[x]
      BY <2>10 DEF Append, rows, history, End, Goto, TypeOK
    <3>2. OnTheWay(r, h) => OnTheWay(r, h)'
      <4> SUFFICES ASSUME OnTheWay(r, h) PROVE OnTheWay(r, h)'
        OBVIOUS
      <4>1. HoldRequest(r) /\ Goto(r, "route")
        BY <2>10 DEF Append, At, HoldRequest
      <4>2. At(r, "hold", "route")' /\ req'[r].target = req[r].target
            /\ req'[r].decision = req[r].decision
        BY <4>1, GotoKeeps, NoRowAssumption
        DEF Goto, At, HoldRequest, TypeOK, HoldRequests, ReviewRequests
      <4> QED  BY <4>2
    <3>3. \A x \in Requests : OnTheWay(x, h) => OnTheWay(x, h)'
      BY <3>1, <3>2, <2>w
    <3> HIDE DEF OnTheWay
    <3> QED  BY <3>1, <3>3, <2>f, <2>h
  <2>11. ASSUME NEW r \in Requests, RouteReview(r)
         PROVE  Routed(h)'
    <3>1. /\ End(r) /\ UNCHANGED failed /\ HoldRequest(r)
          /\ \/ UNCHANGED hold /\ unrouted' = unrouted \union {req[r].target}
             \/ /\ \E v \in Reviews : hold' = [hold EXCEPT ![req[r].target].review = {v}]
                /\ UNCHANGED unrouted
      BY <2>11 DEF RouteReview, At, HoldRequest
    <3>2. \A x \in Requests \ {r} : req'[x] = req[x]
      BY <3>1 DEF End, TypeOK
    <3>3. hold[req[r].target] \in HoldRecords
      BY <3>1 DEF HoldRequest, TypeOK, TargetsExist, HoldRequests, ReviewRequests
    <3>4. CASE UNCHANGED hold /\ unrouted' = unrouted \union {req[r].target}
      <4>1. OnTheWay(r, h) => Routed(h)'
        BY <3>4, <2>u
      <4>2. \A x \in Requests : OnTheWay(x, h) => OnTheWay(x, h)' \/ Routed(h)'
        BY <3>2, <4>1, <2>w
      <4> HIDE DEF OnTheWay
      <4> QED  BY <3>1, <3>4, <4>2, <2>f, <2>h
    <3>5. CASE /\ \E v \in Reviews : hold' = [hold EXCEPT ![req[r].target].review = {v}]
               /\ UNCHANGED unrouted
      <4>1. PICK v \in Reviews : hold' = [hold EXCEPT ![req[r].target].review = {v}]
        BY <3>5
      <4>2. CASE h = req[r].target
        <5>1. hold'[h].review = {v}
          BY <3>3, <4>1, <4>2 DEF TypeOK, HoldRecords
        <5> QED  BY <5>1, <2>u
      <4>3. CASE h # req[r].target
        <5>1. hold'[h] = hold[h] /\ ~OnTheWay(r, h)
          BY <4>1, <4>3 DEF TypeOK
        <5> HIDE DEF OnTheWay
        <5> QED  BY <3>1, <3>2, <3>5, <5>1, <2>s
      <4> QED  BY <4>2, <4>3
    <3> QED  BY <3>1, <3>4, <3>5
  <2>12. ASSUME NEW r \in Requests, ReviewWrite(r)
         PROVE  Routed(h)'
    <3>1. UNCHANGED <<hold, failed, unrouted>> /\ req[r].kind = "review" /\ req[r] # NoRequest
      BY <2>12 DEF ReviewWrite, At, history
    <3>2. \A x \in Requests : OnTheWay(x, h) => OnTheWay(x, h)'
      <4>1. CASE End(r)
        BY <3>1, <4>1 DEF End, At, TypeOK
      <4>2. CASE req' = [Observed(settings, review') EXCEPT ![r] = NoRequest]
        BY <3>1, <4>2, ObservedType DEF At
      <4> QED  BY <2>12, <4>1, <4>2 DEF ReviewWrite
    <3> HIDE DEF OnTheWay
    <3> QED  BY <3>1, <3>2, <2>f, <2>h
  <2>13. ASSUME NEW r \in Requests, Fail(r)
         PROVE  Routed(h)'
    <3>1. /\ UNCHANGED <<hold, unrouted>> /\ failed \subseteq failed' /\ End(r)
          /\ OnTheWay(r, h) => h \in failed'
      BY <2>13 DEF Fail, rows, At
    <3>2. \A x \in Requests \ {r} : req'[x] = req[x]
      BY <3>1 DEF End, TypeOK
    <3>3. \A x \in Requests : OnTheWay(x, h) => OnTheWay(x, h)' \/ Routed(h)'
      BY <3>1, <3>2, <2>u, <2>w
    <3> HIDE DEF OnTheWay
    <3> QED  BY <3>1, <3>3, <2>f, <2>h
  <2> QED  BY <2>1, <2>2, <2>3, <2>4, <2>5, <2>6, <2>7, <2>8, <2>9, <2>10, <2>11, <2>12,
              <2>13, <1>2 DEF Next, Step
<1> QED  BY <1>1, <1>2, TypeCorrect, PTL DEF Spec

-----------------------------------------------------------------------------
\* Stricter protection settings never let through what the settings before held
\* back: policy evaluation is monotone and updateSettings changes nothing else.
THEOREM TighteningIsSafe == Spec => TighteningNeverUnblocks
<1>1. ASSUME TypeOK, TypeOK',
             NEW h \in Holds, NEW d \in {"CONTINUE", "RELEASE"},
             hold[h] # NoHold, UNCHANGED <<hold, review>>,
             AtLeastAsStrict(InForce(settings'), InForce(settings)),
             Permits(settings', review, h, d)
      PROVE  Permits(settings, review, h, d)
  <2>1. InForce(settings) \in SettingsRecords
    BY <1>1, InForceIsTheRow DEF TypeOK, SettingsType
  <2>2. InForce(settings') \in SettingsRecords
    BY <1>1, InForceIsTheRow DEF TypeOK, SettingsType
  <2>3. AmountPassed(hold[h]) \in SUBSET Nat
    BY <1>1, AmountType DEF TypeOK
  <2>4. /\ trustedContactReviewRequired(InForce(settings), hold[h].risk, AmountPassed(hold[h]))
             => trustedContactReviewRequired(InForce(settings'), hold[h].risk, AmountPassed(hold[h]))
        /\ continueAnywayAllowed(InForce(settings'), ElderModeEnabled, hold[h].risk, AmountPassed(hold[h]))
             => continueAnywayAllowed(InForce(settings), ElderModeEnabled, hold[h].risk, AmountPassed(hold[h]))
    BY <1>1, <2>1, <2>2, <2>3, PolicyMonotone, ElderAssumption
  <2>5. CASE d = "CONTINUE"
    BY <1>1, <2>4, <2>5 DEF Permits
  <2>6. CASE d = "RELEASE"
    BY <1>1, <2>4, <2>6 DEF Permits
  <2> QED  BY <1>1, <2>5, <2>6
<1>2. TypeOK /\ TypeOK' =>
        [\A h \in Holds, d \in {"CONTINUE", "RELEASE"} :
            /\ hold[h] # NoHold /\ UNCHANGED <<hold, review>>
            /\ AtLeastAsStrict(InForce(settings'), InForce(settings))
            /\ Permits(settings', review, h, d)
            => Permits(settings, review, h, d)]_vars
  BY <1>1
<1> QED  BY <1>2, TypeCorrect, PTL DEF TighteningNeverUnblocks
=============================================================================
