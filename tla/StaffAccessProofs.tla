-------------------------- MODULE StaffAccessProofs --------------------------
(* Proofs about StaffAccess, for every value of its constants. *)
EXTENDS StaffAccess, FiniteSetTheorems, TLAPS

AnyRequest == AuthRequests \union AdminRequests \union {NoRequest}

\* What a login or refresh under way refers to is there: the token it came with,
\* and the token it has made.
Refers ==
    \A r \in InFlight("auth") :
        /\ req[r].old # NoToken => token[req[r].old] # NoToken
        /\ req[r].pc = "revoke" =>
              req[r].old # NoToken /\ req[r].new # NoToken /\ token[req[r].new] # NoToken

TypeInv == TypeOK /\ Refers

-----------------------------------------------------------------------------
(* Requests. *)

\* A request in flight is of the record type its kind says.
LEMMA KindOf ==
    ASSUME TypeOK, NEW r \in Requests, req[r] # NoRequest
    PROVE  /\ req[r].kind = "auth" => req[r] \in AuthRequests
           /\ req[r].kind = "admin" => req[r] \in AdminRequests
           /\ req[r].kind \in {"auth", "admin"}
  BY DEF TypeOK, AuthRequests, AdminRequests

\* The role an account is entitled to is one of the roles.
LEMMA RoleOfType ==
    ASSUME NEW m \in MemberRecords \union {NoMembership}
    PROVE  RoleOf(m) \in Roles
  BY DEF RoleOf, ActiveMember, MemberRecords, Roles

\* A change of a membership only adds to what the logins of its user may have read.
LEMMA ObservedKeeps ==
    ASSUME TypeOK, NEW u \in Users, NEW m \in MemberRecords
    PROVE  /\ Observed(req, u, m) \in [Requests -> AnyRequest]
           /\ \A r \in Requests :
                 /\ Observed(req, u, m)[r] = NoRequest <=> req[r] = NoRequest
                 /\ req[r] # NoRequest /\ req[r].kind = "admin" => Observed(req, u, m)[r] = req[r]
                 /\ req[r] # NoRequest /\ req[r].kind = "auth" =>
                       /\ Observed(req, u, m)[r].kind = "auth"
                       /\ Observed(req, u, m)[r].user = req[r].user
                       /\ Observed(req, u, m)[r].old = req[r].old
                       /\ Observed(req, u, m)[r].new = req[r].new
                       /\ Observed(req, u, m)[r].role = req[r].role
                       /\ Observed(req, u, m)[r].pc = req[r].pc
                       /\ req[r].held \subseteq Observed(req, u, m)[r].held
                       /\ req[r].user = u => RoleOf(m) \in Observed(req, u, m)[r].held
<1>1. RoleOf(m) \in Roles
  BY RoleOfType
<1>2. \A r \in Requests :
        IF req[r] # NoRequest /\ req[r].kind = "auth" /\ req[r].user = u
        THEN /\ req[r] \in AuthRequests
             /\ Observed(req, u, m)[r] = [req[r] EXCEPT !.held = req[r].held \union {RoleOf(m)}]
        ELSE Observed(req, u, m)[r] = req[r]
  BY KindOf DEF Observed
<1>3. ASSUME NEW r \in Requests, req[r] # NoRequest, req[r].kind = "auth", req[r].user = u
      PROVE  /\ Observed(req, u, m)[r] \in AuthRequests
             /\ Observed(req, u, m)[r].user = req[r].user
             /\ Observed(req, u, m)[r].old = req[r].old
             /\ Observed(req, u, m)[r].new = req[r].new
             /\ Observed(req, u, m)[r].role = req[r].role
             /\ Observed(req, u, m)[r].pc = req[r].pc
             /\ Observed(req, u, m)[r].held = req[r].held \union {RoleOf(m)}
  <2>1. req[r] \in AuthRequests
        /\ Observed(req, u, m)[r] = [req[r] EXCEPT !.held = req[r].held \union {RoleOf(m)}]
    BY <1>2, <1>3
  <2>2. req[r].held \union {RoleOf(m)} \in SUBSET Roles
    BY <2>1, <1>1 DEF AuthRequests
  <2> QED  BY <2>1, <2>2 DEF AuthRequests
<1>4. \A x \in AuthRequests : x.kind = "auth"
  BY DEF AuthRequests
<1>5. Observed(req, u, m) \in [Requests -> AnyRequest]
  <2>1. \A r \in Requests : Observed(req, u, m)[r] \in AnyRequest
    BY <1>2, <1>3 DEF TypeOK, AnyRequest
  <2> QED  BY <2>1 DEF Observed
<1>6. ASSUME NEW r \in Requests
      PROVE  /\ Observed(req, u, m)[r] = NoRequest <=> req[r] = NoRequest
             /\ req[r] # NoRequest /\ req[r].kind = "admin" => Observed(req, u, m)[r] = req[r]
             /\ req[r] # NoRequest /\ req[r].kind = "auth" =>
                   /\ Observed(req, u, m)[r].kind = "auth"
                   /\ Observed(req, u, m)[r].user = req[r].user
                   /\ Observed(req, u, m)[r].old = req[r].old
                   /\ Observed(req, u, m)[r].new = req[r].new
                   /\ Observed(req, u, m)[r].role = req[r].role
                   /\ Observed(req, u, m)[r].pc = req[r].pc
                   /\ req[r].held \subseteq Observed(req, u, m)[r].held
                   /\ req[r].user = u => RoleOf(m) \in Observed(req, u, m)[r].held
  <2>1. CASE req[r] # NoRequest /\ req[r].kind = "auth" /\ req[r].user = u
    BY <2>1, <1>3, <1>4, NoRowAssumption
  <2>2. CASE ~(req[r] # NoRequest /\ req[r].kind = "auth" /\ req[r].user = u)
    BY <2>2, <1>2
  <2> QED  BY <2>1, <2>2
<1> QED  BY <1>5, <1>6

\* A write of a membership: the row, the request that wrote it, and every other.
LEMMA SetMemberKeeps ==
    ASSUME TypeOK, NEW r \in Requests, At(r, "admin", "write"),
           NEW m \in MemberRecords, SetMember(r, m)
    PROVE  /\ req[r] \in AdminRequests /\ req[r].target \in Users
           /\ member' = [member EXCEPT ![req[r].target] = m]
           /\ req' \in [Requests -> AnyRequest]
           /\ req'[r] = [req[r] EXCEPT !.pc = "append"]
           /\ \A x \in Requests \ {r} : req'[x] = Observed(req, req[r].target, m)[x]
           /\ InFlight("admin")' = InFlight("admin")
           /\ InFlight("auth")' = InFlight("auth")
<1>1. req[r] \in AdminRequests /\ req[r].target \in Users
  BY KindOf DEF At, AdminRequests
<1> DEFINE O == Observed(req, req[r].target, m)
<1>2. /\ O \in [Requests -> AnyRequest]
      /\ O[r] = req[r]
      /\ \A x \in Requests : (O[x] = NoRequest <=> req[x] = NoRequest)
                             /\ (req[x] # NoRequest => O[x].kind = req[x].kind)
  BY <1>1, ObservedKeeps, KindOf DEF At
<1>3. req' = [O EXCEPT ![r].pc = "append"]
  BY DEF SetMember
<1> HIDE DEF O
<1>4. [req[r] EXCEPT !.pc = "append"] \in AdminRequests
      /\ [req[r] EXCEPT !.pc = "append"].kind = "admin"
  BY <1>1 DEF AdminRequests
<1>5. /\ req' \in [Requests -> AnyRequest]
      /\ req'[r] = [req[r] EXCEPT !.pc = "append"]
      /\ \A x \in Requests \ {r} : req'[x] = O[x]
  BY <1>2, <1>3, <1>4 DEF AnyRequest
<1>6. \A x \in Requests : (req'[x] = NoRequest <=> req[x] = NoRequest)
                          /\ (req[x] # NoRequest => req'[x].kind = req[x].kind)
  BY <1>2, <1>4, <1>5, NoRowAssumption DEF At
<1>7. InFlight("admin")' = InFlight("admin") /\ InFlight("auth")' = InFlight("auth")
  BY <1>6 DEF InFlight
<1> QED  BY <1>1, <1>5, <1>7 DEF SetMember, O

\* The end of a request leaves the others as they are.
LEMMA EndKeeps ==
    ASSUME TypeOK, NEW r \in Requests, End(r)
    PROVE  /\ req' \in [Requests -> AnyRequest]
           /\ \A x \in Requests \ {r} : req'[x] = req[x]
           /\ req'[r] = NoRequest
           /\ InFlight("admin")' = InFlight("admin") \ {r}
           /\ InFlight("auth")' = InFlight("auth") \ {r}
<1>1. /\ req' \in [Requests -> AnyRequest]
      /\ \A x \in Requests \ {r} : req'[x] = req[x]
      /\ req'[r] = NoRequest
  BY DEF End, TypeOK, AnyRequest
<1> QED  BY <1>1 DEF InFlight

\* A request that begins, or goes on as a request of its kind.
LEMMA GoOnKeeps ==
    ASSUME TypeOK, NEW r \in Requests, NEW q \in AuthRequests \union AdminRequests,
           req' = [req EXCEPT ![r] = q], req[r] = NoRequest \/ q.kind = req[r].kind
    PROVE  /\ req' \in [Requests -> AnyRequest]
           /\ \A x \in Requests \ {r} : req'[x] = req[x]
           /\ req'[r] = q /\ q # NoRequest
           /\ InFlight("admin")' = IF q.kind = "admin" THEN InFlight("admin") \union {r} ELSE InFlight("admin")
           /\ InFlight("auth")' = IF q.kind = "auth" THEN InFlight("auth") \union {r} ELSE InFlight("auth")
<1>1. /\ req' \in [Requests -> AnyRequest]
      /\ \A x \in Requests \ {r} : req'[x] = req[x]
      /\ req'[r] = q /\ q # NoRequest
  BY NoRowAssumption DEF TypeOK, AnyRequest
<1> QED  BY <1>1 DEF InFlight

-----------------------------------------------------------------------------
(* Types. *)

\* The bootstrap admins and nothing else.
LEMMA InitTypeInv == Init => TypeInv
<1> SUFFICES ASSUME Init PROVE TypeInv
  OBVIOUS
<1>1. [role |-> "SUPER_ADMIN", status |-> "ACTIVE", isPrimary |-> TRUE] \in MemberRecords
  BY RolesAssumption DEF MemberRecords
<1>2. \A u \in Users : member[u] \in MemberRecords \union {NoMembership}
  BY <1>1 DEF Init
<1>3. \A k : InFlight(k) = {}
  BY DEF Init, InFlight
<1>4. OnePrimary
  BY <1>1 DEF Init, OnePrimary, ActiveMember
<1>5. TypeOK
  BY <1>2, <1>3, <1>4, AdminsAssumption DEF Init, TypeOK
<1> QED  BY <1>3, <1>5 DEF TypeInv, Refers

\* The parts of TypeOK that a step of AuthService leaves alone.
LEMMA StaffPartKept ==
    ASSUME TypeOK, UNCHANGED staffVars,
           registered' \subseteq Users, access' \subseteq Users,
           token' \in [Tokens -> TokenRecords \union {NoToken}],
           req' \in [Requests -> AnyRequest],
           \A r \in InFlight("admin")' : r \in InFlight("admin") /\ req'[r] = req[r]
    PROVE  TypeOK'
  BY DEF TypeOK, staffVars, AnyRequest, OnePrimary

\* Steps of AuthService outside a login or refresh under way.
LEMMA AccountTypeInv ==
    ASSUME TypeInv,
           \/ \E u \in Users, t \in Tokens : register(u, t)
           \/ \E t \in Tokens : logout(t) \/ ExpireRefresh(t)
    PROVE  TypeInv'
<1>1. ASSUME NEW u \in Users, NEW t \in Tokens, register(u, t)
      PROVE  TypeInv'
  <2> DEFINE new == [user |-> u, family |-> t, state |-> "live", known |-> TRUE]
  <2>0. new \in TokenRecords
    BY DEF TokenRecords
  <2>1. new \in TokenRecords /\ new # NoToken
    BY <2>0, NoRowAssumption
  <2> HIDE DEF new
  <2>2. /\ token' \in [Tokens -> TokenRecords \union {NoToken}]
        /\ \A x \in Tokens : token[x] # NoToken => token'[x] # NoToken
    BY <1>1, <2>1 DEF register, new, TypeInv, TypeOK
  <2>3. TypeOK'
    BY <1>1, <2>2 DEF register, TypeInv, TypeOK, staffVars, OnePrimary, InFlight, ActiveMember
  <2>4. Refers'
    BY <1>1, <2>2 DEF register, TypeInv, TypeOK, Refers, InFlight, AuthRequests, AdminRequests
  <2> QED  BY <2>3, <2>4 DEF TypeInv
<1>2. ASSUME NEW t \in Tokens, logout(t) \/ ExpireRefresh(t)
      PROVE  TypeInv'
  <2> PICK s \in {"live", "dead"} : token' = [token EXCEPT ![t] = [token[t] EXCEPT !.state = s]]
    BY <1>2 DEF logout, ExpireRefresh, TypeInv, TypeOK, TokenRecords
  <2>1. token[t] \in TokenRecords
    BY <1>2 DEF logout, ExpireRefresh, TypeInv, TypeOK
  <2>2. [token[t] EXCEPT !.state = s] \in TokenRecords
    BY <2>1 DEF TokenRecords
  <2>3. /\ token' \in [Tokens -> TokenRecords \union {NoToken}]
        /\ \A x \in Tokens : token[x] # NoToken => token'[x] # NoToken
    BY <2>2, NoRowAssumption DEF TypeInv, TypeOK
  <2>4. UNCHANGED <<registered, access, req, staffVars>>
    BY <1>2 DEF logout, ExpireRefresh
  <2>5. TypeOK'
    BY <2>3, <2>4 DEF TypeInv, TypeOK, staffVars, OnePrimary, InFlight, ActiveMember
  <2>6. Refers'
    BY <2>3, <2>4 DEF TypeInv, TypeOK, Refers, InFlight, AuthRequests, AdminRequests
  <2> QED  BY <2>5, <2>6 DEF TypeInv
<1> QED  BY <1>1, <1>2

\* A step of a login or refresh.
LEMMA AuthTypeInv ==
    ASSUME TypeInv, NEW r \in Requests, AuthStep(r)
    PROVE  TypeInv'
<1> USE DEF TypeInv
<1>0. \A x \in AuthRequests : x.kind = "auth"
  BY DEF AuthRequests
<1>b. ASSUME NEW u \in Users, NEW old \in Tokens \union {NoToken}, req[r] = NoRequest,
             Begin(r, u, old), old # NoToken => token[old] # NoToken,
             UNCHANGED <<registered, token, access, staffVars>>
      PROVE  TypeInv'
  <2> DEFINE q == [kind |-> "auth", user |-> u, old |-> old, new |-> NoToken, role |-> "INDIVIDUAL",
                   pc |-> "membership", held |-> {RoleOf(member[u])}]
  <2>1. q \in AuthRequests
    <3>1. RoleOf(member[u]) \in Roles
      BY RoleOfType DEF TypeOK
    <3> QED  BY <3>1 DEF AuthRequests, Roles
  <2>2. q.old = old /\ q.pc = "membership"
    OBVIOUS
  <2>3. req' = [req EXCEPT ![r] = q]
    BY <1>b DEF Begin
  <2> HIDE DEF q
  <2>4. /\ req' \in [Requests -> AnyRequest]
        /\ \A x \in Requests \ {r} : req'[x] = req[x]
        /\ req'[r] = q
        /\ InFlight("admin")' = InFlight("admin")
        /\ InFlight("auth")' = InFlight("auth") \union {r}
    BY <1>0, <1>b, <2>1, <2>3, GoOnKeeps
  <2>5. r \notin InFlight("admin")
    BY <1>b DEF InFlight
  <2>6. TypeOK'
    BY <1>b, <2>4, <2>5, StaffPartKept DEF TypeOK, InFlight
  <2>7. Refers'
    BY <1>b, <2>2, <2>4 DEF Refers, InFlight
  <2> QED  BY <2>6, <2>7
<1>1. ASSUME NEW u \in Users, login(r, u)
      PROVE  TypeInv'
  BY <1>1, <1>b DEF login, authVars
<1>2. ASSUME NEW t \in Tokens, refresh(r, t)
      PROVE  TypeInv'
  <2>1. token[t].user \in Users /\ token[t] # NoToken
    BY <1>2 DEF refresh, TypeOK, TokenRecords
  <2> QED  BY <1>2, <1>b, <2>1 DEF refresh
<1>3. ASSUME NEW t \in Tokens, issueTokens(r, t)
      PROVE  TypeInv'
  <2> DEFINE family == IF req[r].old = NoToken THEN t ELSE token[req[r].old].family
             new == [user |-> req[r].user, family |-> family, state |-> "live",
                     known |-> req[r].old = NoToken]
             q == [req[r] EXCEPT !.pc = "revoke", !.new = t]
  <2>1. req[r] \in AuthRequests /\ r \in InFlight("auth") /\ r \notin InFlight("admin")
    BY <1>3, KindOf DEF issueTokens, At, InFlight
  <2>2. family \in Tokens
    BY <2>1, NoRowAssumption DEF Refers, TypeOK, TokenRecords, AuthRequests
  <2>3. new \in TokenRecords
    <3>1. (req[r].old = NoToken) \in BOOLEAN
      OBVIOUS
    <3> HIDE DEF family
    <3> QED  BY <2>1, <2>2, <3>1 DEF TokenRecords, AuthRequests
  <2>4. token' = [token EXCEPT ![t] = new] /\ UNCHANGED <<registered, staffVars>>
    BY <1>3 DEF issueTokens
  <2>5. q \in AuthRequests /\ q.old = req[r].old /\ q.new = t /\ q.kind = "auth"
    BY <2>1 DEF AuthRequests
  <2> HIDE DEF new, family, q
  <2>6. /\ token' \in [Tokens -> TokenRecords \union {NoToken}]
        /\ token'[t] # NoToken
        /\ \A x \in Tokens : token[x] # NoToken => token'[x] # NoToken
    BY <2>3, <2>4, NoRowAssumption DEF TypeOK
  <2>7. access' \subseteq Users
    BY <1>3, <2>1 DEF issueTokens, Sign, TypeOK, AuthRequests
  <2>8. CASE End(r)
    <3>1. /\ req' \in [Requests -> AnyRequest]
          /\ \A x \in Requests \ {r} : req'[x] = req[x]
          /\ InFlight("admin")' = InFlight("admin") \ {r}
          /\ InFlight("auth")' = InFlight("auth") \ {r}
      BY <2>8, EndKeeps
    <3>2. TypeOK'
      BY <2>1, <2>4, <2>6, <2>7, <3>1, StaffPartKept DEF TypeOK, InFlight
    <3>3. Refers'
      BY <2>6, <3>1 DEF Refers, TypeOK, InFlight, AnyRequest, AuthRequests, AdminRequests
    <3> QED  BY <3>2, <3>3
  <2>9. CASE req[r].old # NoToken /\ req' = [req EXCEPT ![r].pc = "revoke", ![r].new = t]
    <3>0. req' = [req EXCEPT ![r] = q]
      BY <2>9 DEF q
    <3>1. /\ req' \in [Requests -> AnyRequest]
          /\ \A x \in Requests \ {r} : req'[x] = req[x]
          /\ req'[r] = q
          /\ InFlight("admin")' = InFlight("admin")
          /\ InFlight("auth")' = InFlight("auth")
      <4>1. q.kind = req[r].kind
        BY <1>0, <2>1, <2>5
      <4>2. /\ req' \in [Requests -> AnyRequest]
            /\ \A x \in Requests \ {r} : req'[x] = req[x]
            /\ req'[r] = q
            /\ InFlight("admin")' = InFlight("admin")
            /\ InFlight("auth")' = InFlight("auth") \union {r}
        BY <2>5, <3>0, <4>1, GoOnKeeps
      <4> QED  BY <2>1, <4>2
    <3>2. TypeOK'
      BY <2>1, <2>4, <2>6, <2>7, <3>1, StaffPartKept DEF TypeOK, InFlight
    <3>3. ASSUME NEW x \in InFlight("auth")'
          PROVE  /\ req'[x].old # NoToken => token'[req'[x].old] # NoToken
                 /\ req'[x].pc = "revoke" =>
                       req'[x].old # NoToken /\ req'[x].new # NoToken /\ token'[req'[x].new] # NoToken
      <4>1. CASE x = r
        BY <2>1, <2>5, <2>6, <2>9, <3>1, <4>1, NoRowAssumption DEF Refers, AuthRequests
      <4>2. CASE x # r
        <5>1. x \in InFlight("auth") /\ req'[x] = req[x] /\ req[x] \in AuthRequests
          BY <3>1, <3>3, <4>2, KindOf DEF InFlight
        <5> QED  BY <2>6, <5>1 DEF Refers, AuthRequests
      <4> QED  BY <4>1, <4>2
    <3>4. Refers'
      BY <3>3 DEF Refers
    <3> QED  BY <3>2, <3>4
  <2> QED  BY <1>3, <2>8, <2>9 DEF issueTokens
<1>4. CASE ReadMembership(r)
  <2>1. req[r] \in AuthRequests /\ r \in InFlight("auth") /\ r \notin InFlight("admin")
    BY <1>4, KindOf DEF ReadMembership, At, InFlight
  <2> PICK role \in getPrimaryMembership(req[r].user) :
        req' = [req EXCEPT ![r].role = role, ![r].pc = "issue"]
    BY <1>4 DEF ReadMembership
  <2>2. role \in Roles
    <3>1. req[r].user \in Users
      BY <2>1 DEF AuthRequests
    <3>2. ActiveMember(member[req[r].user]) => member[req[r].user].role \in Roles
      BY <3>1 DEF ActiveMember, TypeOK, MemberRecords, Roles
    <3> QED  BY <3>2 DEF getPrimaryMembership, Roles
  <2> DEFINE q == [req[r] EXCEPT !.role = role, !.pc = "issue"]
  <2>3. q \in AuthRequests /\ q.kind = "auth" /\ q.old = req[r].old /\ q.pc = "issue"
    BY <2>1, <2>2 DEF AuthRequests
  <2>4. req' = [req EXCEPT ![r] = q] /\ UNCHANGED <<authVars, staffVars>>
    BY <1>4 DEF ReadMembership
  <2> HIDE DEF q
  <2>5. /\ req' \in [Requests -> AnyRequest]
        /\ \A x \in Requests \ {r} : req'[x] = req[x]
        /\ req'[r] = q
        /\ InFlight("admin")' = InFlight("admin")
        /\ InFlight("auth")' = InFlight("auth")
    <3>1. q.kind = req[r].kind
      BY <1>0, <2>1, <2>3
    <3>2. /\ req' \in [Requests -> AnyRequest]
          /\ \A x \in Requests \ {r} : req'[x] = req[x]
          /\ req'[r] = q
          /\ InFlight("admin")' = InFlight("admin")
          /\ InFlight("auth")' = InFlight("auth") \union {r}
      <4>1. q \in AuthRequests \union AdminRequests /\ q.kind = "auth"
        BY <2>3
      <4>2. req' = [req EXCEPT ![r] = q]
        BY <2>4
      <4> HIDE <2>1, <2>2, <2>3, <2>4
      <4> QED  BY <3>1, <4>1, <4>2, GoOnKeeps
    <3> QED  BY <2>1, <3>2
  <2>6. TypeOK'
    BY <2>1, <2>4, <2>5, StaffPartKept DEF TypeOK, InFlight, authVars
  <2>7. Refers'
    BY <2>1, <2>3, <2>4, <2>5 DEF Refers, authVars, InFlight
  <2> QED  BY <2>6, <2>7
<1>5. CASE SpendOld(r)
  <2>1. req[r] \in AuthRequests /\ r \in InFlight("auth")
    BY <1>5, KindOf DEF SpendOld, At, InFlight
  <2>2. /\ req[r].old \in Tokens /\ token[req[r].old] \in TokenRecords
        /\ req[r].new \in Tokens /\ token[req[r].new] \in TokenRecords
    BY <1>5, <2>1 DEF SpendOld, At, Refers, AuthRequests, TypeOK
  <2> DEFINE dead == [token[req[r].old] EXCEPT !.state = "dead"]
             T == [token EXCEPT ![req[r].old] = dead]
  <2>3. dead \in TokenRecords
    BY <2>2 DEF TokenRecords
  <2>4. token' = [T EXCEPT ![req[r].new].known = TRUE]
        /\ UNCHANGED <<registered, staffVars>> /\ End(r)
    BY <1>5 DEF SpendOld
  <2> HIDE DEF dead
  <2>5. /\ T \in [Tokens -> TokenRecords \union {NoToken}]
        /\ T[req[r].new] \in TokenRecords
        /\ \A x \in Tokens : token[x] # NoToken => T[x] # NoToken
    BY <2>2, <2>3, NoRowAssumption DEF TypeOK
  <2> HIDE DEF T
  <2>6. [T[req[r].new] EXCEPT !.known = TRUE] \in TokenRecords
    BY <2>5 DEF TokenRecords
  <2>7. /\ token' \in [Tokens -> TokenRecords \union {NoToken}]
        /\ \A x \in Tokens : token[x] # NoToken => token'[x] # NoToken
    BY <2>2, <2>4, <2>5, <2>6, NoRowAssumption
  <2>8. access' \subseteq Users
    BY <1>5, <2>1 DEF SpendOld, Sign, TypeOK, AuthRequests
  <2>9. /\ req' \in [Requests -> AnyRequest]
        /\ \A x \in Requests \ {r} : req'[x] = req[x]
        /\ InFlight("admin")' = InFlight("admin") \ {r}
        /\ InFlight("auth")' = InFlight("auth") \ {r}
    BY <2>4, EndKeeps
  <2>10. TypeOK'
    BY <2>4, <2>7, <2>8, <2>9, StaffPartKept DEF TypeOK, InFlight
  <2>11. Refers'
    BY <2>7, <2>9 DEF Refers, TypeOK, InFlight, AnyRequest, AuthRequests, AdminRequests
  <2> QED  BY <2>10, <2>11
<1> QED  BY <1>1, <1>2, <1>3, <1>4, <1>5 DEF AuthStep

\* A staff change begins: its request, and nothing else but the history.
LEMMA CallKeeps ==
    ASSUME TypeOK, NEW r \in Requests, NEW op \in {"grant", "change", "revoke"},
           NEW a \in Users, NEW u \in Users, NEW role \in InternalRoles, NEW pc \in {"count", "write"},
           Call(r, op, a, u, role, pc)
    PROVE  /\ req' \in [Requests -> AnyRequest]
           /\ \A x \in Requests \ {r} : req'[x] = req[x]
           /\ r \notin InFlight("admin") /\ r \notin InFlight("auth")
           /\ InFlight("admin")' = InFlight("admin") \union {r}
           /\ InFlight("auth")' = InFlight("auth")
           /\ req'[r] \in AdminRequests
           /\ req'[r].op = op /\ req'[r].target = u /\ req'[r].role = role /\ req'[r].pc = pc
           /\ overlapped' = (overlapped \/ InFlight("admin") # {})
           /\ UNCHANGED <<authVars, personalPrimary, member>>
<1> DEFINE q == [kind |-> "admin", op |-> op, admin |-> a, target |-> u, role |-> role,
                 existed |-> member[u] # NoMembership, pc |-> pc]
<1>2. (member[u] # NoMembership) \in BOOLEAN
  OBVIOUS
<1>3. q \in AdminRequests
  BY <1>2 DEF AdminRequests
<1>4. q.kind = "admin" /\ q.op = op /\ q.target = u /\ q.role = role /\ q.pc = pc
  OBVIOUS
<1>5. req' = [req EXCEPT ![r] = q] /\ req[r] = NoRequest
  BY DEF Call
<1> HIDE DEF q
<1>6. /\ req' \in [Requests -> AnyRequest]
      /\ \A x \in Requests \ {r} : req'[x] = req[x]
      /\ req'[r] = q
      /\ InFlight("admin")' = InFlight("admin") \union {r}
      /\ InFlight("auth")' = InFlight("auth")
  BY <1>3, <1>4, <1>5, GoOnKeeps
<1>7. r \notin InFlight("admin") /\ r \notin InFlight("auth")
  BY <1>5 DEF InFlight
<1> QED  BY <1>3, <1>4, <1>6, <1>7 DEF Call

\* What the three ways to begin a staff change have checked.
LEMMA BeginningsAreCalls ==
    ASSUME TypeOK, NEW r \in Requests, NEW a \in Users, NEW u \in Users,
           \/ revokeRole(r, a, u)
           \/ \E role \in InternalRoles : grantRole(r, a, u, role) \/ changeRole(r, a, u, role)
    PROVE  \E op \in {"grant", "change", "revoke"}, role \in InternalRoles, pc \in {"count", "write"} :
              /\ Call(r, op, a, u, role, pc)
              /\ op # "grant" => member[u] # NoMembership
              /\ pc = "write" => u \notin ActiveSuperAdmins
<1>1. ASSUME revokeRole(r, a, u)
      PROVE  \E role \in InternalRoles, pc \in {"count", "write"} :
                /\ Call(r, "revoke", a, u, role, pc)
                /\ member[u] # NoMembership
                /\ pc = "write" => u \notin ActiveSuperAdmins
  <2>1. member[u] # NoMembership /\ member[u].role \in InternalRoles
    BY <1>1 DEF revokeRole, ActiveMember, TypeOK, MemberRecords
  <2> QED  BY <1>1, <2>1 DEF revokeRole, ActiveSuperAdmins
<1>2. ASSUME NEW role \in InternalRoles, grantRole(r, a, u, role)
      PROVE  Call(r, "grant", a, u, role, "write") /\ u \notin ActiveSuperAdmins
  BY <1>2 DEF grantRole, ActiveSuperAdmins
<1>3. ASSUME NEW role \in InternalRoles, changeRole(r, a, u, role)
      PROVE  \E pc \in {"count", "write"} :
                /\ Call(r, "change", a, u, role, pc)
                /\ member[u] # NoMembership
                /\ pc = "write" => u \notin ActiveSuperAdmins
  BY <1>3 DEF changeRole, ActiveSuperAdmins
<1> QED  BY <1>1, <1>2, <1>3

\* The three writes of a staff change put a member record in the row.
LEMMA WritesSetMember ==
    ASSUME TypeInv, NEW r \in Requests, GrantWrite(r) \/ ChangeWrite(r) \/ RevokeWrite(r)
    PROVE  /\ At(r, "admin", "write")
           /\ UNCHANGED <<authVars, overlapped>>
           /\ \/ End(r) /\ UNCHANGED <<personalPrimary, member>>
              \/ \E m \in MemberRecords :
                    /\ SetMember(r, m)
                    /\ req[r].op = "grant" =>
                          /\ personalPrimary' = [personalPrimary EXCEPT ![req[r].target] = FALSE]
                          /\ m.isPrimary
                    /\ req[r].op # "grant" =>
                          /\ UNCHANGED personalPrimary
                          /\ member[req[r].target] \in MemberRecords
                          /\ m.status = "ACTIVE" =>
                                /\ member[req[r].target].status = "ACTIVE"
                                /\ m.isPrimary = member[req[r].target].isPrimary
<1> USE DEF TypeInv
<1>1. At(r, "admin", "write") /\ UNCHANGED <<authVars, overlapped>>
  BY DEF GrantWrite, ChangeWrite, RevokeWrite
<1>2. /\ req[r] \in AdminRequests /\ r \in InFlight("admin")
      /\ req[r].target \in Users /\ req[r].role \in InternalRoles
  BY <1>1, KindOf DEF At, InFlight, AdminRequests
<1>3. req[r].op # "grant" => member[req[r].target] \in MemberRecords
  BY <1>2 DEF TypeOK
<1>4. CASE GrantWrite(r)
  <2>1. [role |-> req[r].role, status |-> "ACTIVE", isPrimary |-> TRUE] \in MemberRecords
    BY <1>2 DEF MemberRecords
  <2>2. [role |-> req[r].role, status |-> "ACTIVE", isPrimary |-> TRUE].isPrimary
    OBVIOUS
  <2> QED  BY <1>1, <1>4, <2>1, <2>2, Zenon DEF GrantWrite
<1>5. CASE ChangeWrite(r)
  <2> DEFINE m == [member[req[r].target] EXCEPT !.role = req[r].role]
  <2>1. req[r].op # "grant" /\ SetMember(r, m) /\ UNCHANGED personalPrimary
    BY <1>5 DEF ChangeWrite
  <2>2. /\ m \in MemberRecords /\ m.status = member[req[r].target].status
        /\ m.isPrimary = member[req[r].target].isPrimary
    BY <1>2, <1>3, <2>1 DEF MemberRecords
  <2> QED  BY <1>1, <1>3, <2>1, <2>2
<1>6. CASE RevokeWrite(r)
  <2> DEFINE m == [member[req[r].target] EXCEPT !.status = "REMOVED", !.isPrimary = FALSE]
  <2>1. req[r].op # "grant" /\ SetMember(r, m) /\ UNCHANGED personalPrimary
    BY <1>6 DEF RevokeWrite
  <2>2. m \in MemberRecords /\ m.status = "REMOVED"
    BY <1>3, <2>1 DEF MemberRecords
  <2> QED  BY <1>1, <1>3, <2>1, <2>2
<1> QED  BY <1>4, <1>5, <1>6

\* A step of a staff change, and a request that fails.
LEMMA AdminTypeInv ==
    ASSUME TypeInv, NEW r \in Requests, AdminStep(r) \/ Fail(r)
    PROVE  TypeInv'
<1> USE DEF TypeInv
<1>e. ASSUME End(r), UNCHANGED <<authVars, staffVars>>
      PROVE  TypeInv'
  <2>1. /\ req' \in [Requests -> AnyRequest]
        /\ \A x \in Requests \ {r} : req'[x] = req[x]
        /\ InFlight("admin")' = InFlight("admin") \ {r}
        /\ InFlight("auth")' = InFlight("auth") \ {r}
    BY <1>e, EndKeeps
  <2>2. TypeOK'
    BY <1>e, <2>1, StaffPartKept DEF TypeOK, InFlight, authVars
  <2>3. Refers'
    BY <1>e, <2>1 DEF Refers, InFlight, authVars
  <2> QED  BY <2>2, <2>3
<1>1. ASSUME NEW a \in Users, NEW u \in Users,
             \/ revokeRole(r, a, u)
             \/ \E role \in InternalRoles : grantRole(r, a, u, role) \/ changeRole(r, a, u, role)
      PROVE  TypeInv'
  <2>0. \E op \in {"grant", "change", "revoke"}, role \in InternalRoles, pc \in {"count", "write"} :
        /\ Call(r, op, a, u, role, pc)
        /\ op # "grant" => member[u] # NoMembership
    BY <1>1, BeginningsAreCalls
  <2> PICK op \in {"grant", "change", "revoke"}, role \in InternalRoles, pc \in {"count", "write"} :
        /\ Call(r, op, a, u, role, pc)
        /\ op # "grant" => member[u] # NoMembership
    BY <2>0
  <2>1. /\ req' \in [Requests -> AnyRequest]
        /\ \A x \in Requests \ {r} : req'[x] = req[x]
        /\ r \notin InFlight("admin") /\ r \notin InFlight("auth")
        /\ InFlight("admin")' = InFlight("admin") \union {r}
        /\ InFlight("auth")' = InFlight("auth")
        /\ req'[r].op = op /\ req'[r].target = u
        /\ overlapped' = (overlapped \/ InFlight("admin") # {})
        /\ UNCHANGED <<authVars, personalPrimary, member>>
    <3>1. Call(r, op, a, u, role, pc)
      OBVIOUS
    <3>2. TypeOK
      OBVIOUS
    <3> QED  BY <3>1, <3>2, CallKeeps
  <2>2. TypeOK'
    <3>1. \A x \in InFlight("admin")' : req'[x].op # "grant" => member'[req'[x].target] # NoMembership
      BY <2>1 DEF TypeOK, InFlight
    <3>2. OnePrimary'
      BY <2>1 DEF TypeOK, OnePrimary
    <3>3. overlapped' \in BOOLEAN
      BY <2>1 DEF TypeOK
    <3> QED  BY <2>1, <3>1, <3>2, <3>3 DEF TypeOK, AnyRequest, authVars
  <2>3. Refers'
    BY <2>1 DEF Refers, InFlight, authVars
  <2> QED  BY <2>2, <2>3
<1>2. CASE assertNotLastSuperAdmin(r)
  <2>1. CASE End(r)
    BY <1>2, <1>e, <2>1 DEF assertNotLastSuperAdmin
  <2>2. CASE req' = [req EXCEPT ![r].pc = "write"]
    <3> DEFINE q == [req[r] EXCEPT !.pc = "write"]
    <3>1. req[r] \in AdminRequests /\ r \in InFlight("admin")
      BY <1>2, KindOf DEF assertNotLastSuperAdmin, At, InFlight
    <3>2. /\ q \in AdminRequests /\ q.kind = "admin" /\ q.kind = req[r].kind
          /\ q.op = req[r].op /\ q.target = req[r].target
      BY <3>1 DEF AdminRequests
    <3>3. req' = [req EXCEPT ![r] = q] /\ UNCHANGED <<authVars, staffVars>>
      BY <1>2, <2>2 DEF assertNotLastSuperAdmin
    <3> HIDE DEF q
    <3>4. /\ req' \in [Requests -> AnyRequest]
          /\ \A x \in Requests \ {r} : req'[x] = req[x]
          /\ req'[r] = q
          /\ InFlight("admin")' = InFlight("admin") \union {r}
          /\ InFlight("auth")' = InFlight("auth")
      BY <3>2, <3>3, GoOnKeeps
    <3>5. TypeOK'
      <4>1. \A x \in InFlight("admin")' : req'[x].op # "grant" => member'[req'[x].target] # NoMembership
        BY <3>1, <3>2, <3>3, <3>4 DEF TypeOK, InFlight, staffVars
      <4> QED  BY <3>3, <3>4, <4>1 DEF TypeOK, OnePrimary, AnyRequest, authVars, staffVars
    <3>6. Refers'
      BY <3>1, <3>3, <3>4 DEF Refers, InFlight, authVars
    <3> QED  BY <3>5, <3>6
  <2> QED  BY <1>2, <2>1, <2>2 DEF assertNotLastSuperAdmin
<1>3. CASE GrantWrite(r) \/ ChangeWrite(r) \/ RevokeWrite(r)
  <2>1. At(r, "admin", "write") /\ UNCHANGED <<authVars, overlapped>>
    BY <1>3, WritesSetMember
  <2>2. CASE End(r) /\ UNCHANGED <<personalPrimary, member>>
    BY <1>e, <2>1, <2>2 DEF staffVars
  <2>3. ASSUME NEW m \in MemberRecords, SetMember(r, m),
               req[r].op = "grant" =>
                   /\ personalPrimary' = [personalPrimary EXCEPT ![req[r].target] = FALSE]
                   /\ m.isPrimary,
               req[r].op # "grant" =>
                   /\ UNCHANGED personalPrimary
                   /\ member[req[r].target] \in MemberRecords
                   /\ m.status = "ACTIVE" =>
                         /\ member[req[r].target].status = "ACTIVE"
                         /\ m.isPrimary = member[req[r].target].isPrimary
        PROVE  TypeInv'
    <3> DEFINE u == req[r].target
    <3>1. /\ req[r] \in AdminRequests /\ u \in Users
          /\ member' = [member EXCEPT ![u] = m]
          /\ req' \in [Requests -> AnyRequest]
          /\ req'[r] = [req[r] EXCEPT !.pc = "append"]
          /\ \A x \in Requests \ {r} : req'[x] = Observed(req, u, m)[x]
          /\ InFlight("admin")' = InFlight("admin")
          /\ InFlight("auth")' = InFlight("auth")
      BY <2>1, <2>3, SetMemberKeeps
    <3>2. m # NoMembership
      BY NoRowAssumption
    <3>3. /\ member' \in [Users -> MemberRecords \union {NoMembership}]
          /\ member'[u] = m
          /\ \A x \in Users \ {u} : member'[x] = member[x]
      BY <3>1 DEF TypeOK
    <3>4. personalPrimary' \in [Users -> BOOLEAN]
      BY <2>3, <3>1 DEF TypeOK
    <3>5. OnePrimary'
      <4>1. ASSUME NEW x \in Users, ActiveMember(member'[x])
            PROVE  member'[x].isPrimary /\ ~personalPrimary'[x]
        <5>1. CASE x # u
          BY <2>3, <3>3, <4>1, <5>1 DEF TypeOK, OnePrimary
        <5>2. CASE x = u /\ req[r].op = "grant"
          BY <2>3, <3>1, <3>3, <5>2 DEF TypeOK
        <5>3. CASE x = u /\ req[r].op # "grant"
          <6>1. ActiveMember(member[u])
            BY <2>3, <3>3, <4>1, <5>3, NoRowAssumption DEF ActiveMember
          <6>2. member[u].isPrimary /\ ~personalPrimary[u]
            BY <3>1, <6>1 DEF TypeOK, OnePrimary
          <6>3. m.status = "ACTIVE"
            BY <3>3, <4>1, <5>3 DEF ActiveMember
          <6> QED  BY <2>3, <3>3, <5>3, <6>2, <6>3
        <5> QED  BY <5>1, <5>2, <5>3
      <4> QED  BY <4>1 DEF OnePrimary, ActiveMember
    <3>6. \A x \in InFlight("admin")' : req'[x].op # "grant" => member'[req'[x].target] # NoMembership
      <4> SUFFICES ASSUME NEW x \in InFlight("admin"), req'[x].op # "grant"
                   PROVE  member'[req'[x].target] # NoMembership
        BY <3>1
      <4>1. x \in Requests /\ req[x] \in AdminRequests
        BY KindOf DEF InFlight
      <4>2. req'[x].op = req[x].op /\ req'[x].target = req[x].target /\ req[x].target \in Users
        <5>1. CASE x = r
          BY <3>1, <5>1 DEF AdminRequests
        <5>2. CASE x # r
          <6>1. Observed(req, u, m)[x] = req[x]
            BY <3>1, <4>1, ObservedKeeps DEF InFlight
          <6> QED  BY <3>1, <4>1, <5>2, <6>1 DEF AdminRequests
        <5> QED  BY <5>1, <5>2
      <4> QED  BY <3>2, <3>3, <4>2 DEF TypeOK
    <3>7. TypeOK'
      BY <2>1, <3>1, <3>3, <3>4, <3>5, <3>6 DEF TypeOK, AnyRequest, authVars
    <3>8. Refers'
      <4> SUFFICES ASSUME NEW x \in InFlight("auth")
                   PROVE  /\ req'[x].old = req[x].old
                          /\ req'[x].new = req[x].new
                          /\ req'[x].pc = req[x].pc
        BY <2>1, <3>1 DEF Refers, authVars
      <4>1. x \in Requests /\ x # r
        BY <2>1 DEF InFlight, At
      <4> QED  BY <3>1, <4>1, ObservedKeeps DEF InFlight
    <3> QED  BY <3>7, <3>8
  <2> QED  BY <1>3, <2>1, <2>2, <2>3, WritesSetMember
<1>4. CASE logEvidence(r) \/ Fail(r)
  BY <1>4, <1>e DEF logEvidence, Fail
<1> QED  BY <1>1, <1>2, <1>3, <1>4 DEF AdminStep

\* Every step keeps the types and what requests refer to.
LEMMA TypeStep == TypeInv /\ [Next]_vars => TypeInv'
<1> SUFFICES ASSUME TypeInv, [Next]_vars PROVE TypeInv'
  OBVIOUS
<1>1. CASE UNCHANGED vars
  BY <1>1 DEF vars, TypeInv, TypeOK, Refers, OnePrimary, InFlight, ActiveMember
<1>2. CASE Next
  BY <1>2, AccountTypeInv, AuthTypeInv, AdminTypeInv DEF Next
<1> QED  BY <1>1, <1>2

\* What login, refresh and the staff changes read is there when they use it.
THEOREM Invariance == Spec => []TypeInv
  BY InitTypeInv, TypeStep, PTL DEF Spec

\* Accounts, memberships, tokens and requests have their types, a staff change names
\* a membership that exists, and no account has two primary memberships
\* (grantRole demotes the others in its transaction).
THEOREM TypeCorrect == Spec => []TypeOK
<1>1. TypeInv => TypeOK
  BY DEF TypeInv
<1> QED  BY <1>1, Invariance, PTL

-----------------------------------------------------------------------------
(* What a step of one service leaves alone of the other. *)

\* A login, a refresh, a logout or an expiry is no staff change.
LEMMA AccountsLeaveStaff ==
    ASSUME TypeInv,
           \/ \E u \in Users, t \in Tokens : register(u, t)
           \/ \E t \in Tokens : logout(t) \/ ExpireRefresh(t)
           \/ \E r \in Requests : AuthStep(r)
    PROVE  /\ UNCHANGED staffVars
           /\ InFlight("admin")' = InFlight("admin")
           /\ \A x \in InFlight("admin") : req'[x] = req[x]
<1> USE DEF TypeInv
<1>1. CASE UNCHANGED <<req, staffVars>>
  BY <1>1 DEF InFlight
<1>2. ASSUME NEW r \in Requests, AuthStep(r)
      PROVE  /\ UNCHANGED staffVars
             /\ \A x \in Requests \ {r} : req'[x] = req[x]
             /\ req[r] = NoRequest \/ req[r].kind = "auth"
             /\ req'[r] = NoRequest \/ req'[r].kind = "auth"
  <2>1. ASSUME NEW u \in Users, NEW old, Begin(r, u, old)
        PROVE  (\A x \in Requests \ {r} : req'[x] = req[x]) /\ req'[r].kind = "auth"
    BY <2>1 DEF Begin, TypeOK
  <2>2. CASE \E u \in Users : login(r, u)
    BY <2>1, <2>2 DEF login
  <2>3. CASE \E t \in Tokens : refresh(r, t)
    <3> PICK t \in Tokens : refresh(r, t)
      BY <2>3
    <3>1. token[t].user \in Users
      BY DEF refresh, TypeOK, TokenRecords
    <3> QED  BY <2>1, <3>1 DEF refresh
  <2>4. CASE \E t \in Tokens : issueTokens(r, t)
    <3> PICK t \in Tokens : issueTokens(r, t)
      BY <2>4
    <3>1. req[r].kind = "auth" /\ req[r] \in AuthRequests
      BY KindOf DEF issueTokens, At
    <3>2. [req[r] EXCEPT !.pc = "revoke", !.new = t].kind = "auth"
      BY <3>1 DEF AuthRequests
    <3> QED  BY <3>1, <3>2 DEF issueTokens, End, TypeOK
  <2>5. CASE ReadMembership(r)
    <3>1. req[r].kind = "auth" /\ req[r] \in AuthRequests
      BY <2>5, KindOf DEF ReadMembership, At
    <3> PICK role : req' = [req EXCEPT ![r].role = role, ![r].pc = "issue"]
      BY <2>5 DEF ReadMembership
    <3>2. [req[r] EXCEPT !.role = role, !.pc = "issue"].kind = "auth"
      BY <3>1 DEF AuthRequests
    <3> QED  BY <2>5, <3>1, <3>2 DEF ReadMembership, TypeOK
  <2>6. CASE SpendOld(r)
    BY <2>6 DEF SpendOld, At, End, TypeOK
  <2> QED  BY <1>2, <2>2, <2>3, <2>4, <2>5, <2>6 DEF AuthStep
<1>3. ASSUME NEW r \in Requests, AuthStep(r)
      PROVE  /\ UNCHANGED staffVars
             /\ InFlight("admin")' = InFlight("admin")
             /\ \A x \in InFlight("admin") : req'[x] = req[x]
  BY <1>2, <1>3 DEF InFlight
<1> QED  BY <1>1, <1>3 DEF register, logout, ExpireRefresh

\* A staff change, or the end of a request, leaves the tokens and what the logins
\* under way hold, but adds the role it gives to what they may have read.
StaffLeavesLogins ==
    /\ UNCHANGED authVars
    /\ \A x \in InFlight("auth")' :
          /\ x \in InFlight("auth")
          /\ req'[x].user = req[x].user /\ req'[x].role = req[x].role
          /\ req'[x].old = req[x].old /\ req'[x].new = req[x].new /\ req'[x].pc = req[x].pc
          /\ req[x].held \subseteq req'[x].held
          /\ \/ member'[req[x].user] = member[req[x].user]
             \/ RoleOf(member'[req[x].user]) \in req'[x].held

\* The staff changes keep out of the way of logins.
LEMMA StaffLeaves ==
    ASSUME TypeInv, NEW r \in Requests, AdminStep(r) \/ Fail(r)
    PROVE  StaffLeavesLogins
<1> USE DEF TypeInv
<1>e. ASSUME End(r), UNCHANGED <<authVars, staffVars>>
      PROVE  StaffLeavesLogins
  <2>1. /\ \A x \in Requests \ {r} : req'[x] = req[x]
        /\ InFlight("auth")' = InFlight("auth") \ {r}
    BY <1>e, EndKeeps
  <2> QED  BY <1>e, <2>1 DEF StaffLeavesLogins, InFlight, staffVars
<1>1. ASSUME NEW a \in Users, NEW u \in Users,
             \/ revokeRole(r, a, u)
             \/ \E role \in InternalRoles : grantRole(r, a, u, role) \/ changeRole(r, a, u, role)
      PROVE  StaffLeavesLogins
  <2>0. \E op \in {"grant", "change", "revoke"}, role \in InternalRoles, pc \in {"count", "write"} :
        Call(r, op, a, u, role, pc)
    BY <1>1, BeginningsAreCalls
  <2> PICK op \in {"grant", "change", "revoke"}, role \in InternalRoles, pc \in {"count", "write"} :
        Call(r, op, a, u, role, pc)
    BY <2>0
  <2>1. /\ \A x \in Requests \ {r} : req'[x] = req[x]
        /\ r \notin InFlight("auth")
        /\ InFlight("auth")' = InFlight("auth")
        /\ UNCHANGED <<authVars, member>>
    BY CallKeeps
  <2> QED  BY <2>1 DEF StaffLeavesLogins, InFlight
<1>2. CASE assertNotLastSuperAdmin(r)
  <2>1. CASE End(r)
    BY <1>2, <1>e, <2>1 DEF assertNotLastSuperAdmin
  <2>2. CASE req' = [req EXCEPT ![r].pc = "write"]
    <3>1. req[r] # NoRequest /\ req[r].kind = "admin" /\ req[r] \in AdminRequests
      BY <1>2, KindOf DEF assertNotLastSuperAdmin, At
    <3>2. [req[r] EXCEPT !.pc = "write"].kind = "admin"
      BY <3>1 DEF AdminRequests
    <3>3. /\ req'[r].kind = "admin"
          /\ \A x \in Requests \ {r} : req'[x] = req[x]
      BY <2>2, <3>2 DEF TypeOK
    <3>4. UNCHANGED <<authVars, member>>
      BY <1>2 DEF assertNotLastSuperAdmin, staffVars
    <3> QED  BY <3>3, <3>4 DEF StaffLeavesLogins, InFlight
  <2> QED  BY <1>2, <2>1, <2>2 DEF assertNotLastSuperAdmin
<1>3. CASE GrantWrite(r) \/ ChangeWrite(r) \/ RevokeWrite(r)
  <2>1. At(r, "admin", "write") /\ UNCHANGED <<authVars, overlapped>>
    BY <1>3, WritesSetMember
  <2>2. CASE End(r) /\ UNCHANGED <<personalPrimary, member>>
    BY <1>e, <2>1, <2>2 DEF staffVars
  <2>3. ASSUME NEW m \in MemberRecords, SetMember(r, m)
        PROVE  StaffLeavesLogins
    <3> DEFINE u == req[r].target
    <3>1. /\ u \in Users
          /\ member' = [member EXCEPT ![u] = m]
          /\ \A x \in Requests \ {r} : req'[x] = Observed(req, u, m)[x]
          /\ InFlight("auth")' = InFlight("auth")
      BY <2>1, <2>3, SetMemberKeeps
    <3>2. r \notin InFlight("auth")
      BY <2>1 DEF At, InFlight
    <3>3. ASSUME NEW x \in InFlight("auth")
          PROVE  /\ req'[x].user = req[x].user /\ req'[x].role = req[x].role
                 /\ req'[x].old = req[x].old /\ req'[x].new = req[x].new /\ req'[x].pc = req[x].pc
                 /\ req[x].held \subseteq req'[x].held
                 /\ \/ member'[req[x].user] = member[req[x].user]
                    \/ RoleOf(member'[req[x].user]) \in req'[x].held
      <4>1. x \in Requests \ {r} /\ req[x] # NoRequest /\ req[x].kind = "auth"
            /\ req[x].user \in Users
        BY <3>2, KindOf DEF InFlight, AuthRequests
      <4>2. /\ req'[x].user = req[x].user /\ req'[x].role = req[x].role
            /\ req'[x].old = req[x].old /\ req'[x].new = req[x].new /\ req'[x].pc = req[x].pc
            /\ req[x].held \subseteq req'[x].held
            /\ req[x].user = u => RoleOf(m) \in req'[x].held
        BY <3>1, <4>1, ObservedKeeps
      <4>3. IF req[x].user = u THEN member'[req[x].user] = m
                               ELSE member'[req[x].user] = member[req[x].user]
        BY <3>1, <4>1 DEF TypeOK
      <4> QED  BY <4>2, <4>3
    <3> QED  BY <2>1, <3>1, <3>3 DEF StaffLeavesLogins
  <2> QED  BY <1>3, <2>1, <2>2, <2>3, WritesSetMember
<1>4. CASE logEvidence(r) \/ Fail(r)
  BY <1>4, <1>e DEF logEvidence, Fail
<1> QED  BY <1>1, <1>2, <1>3, <1>4 DEF AdminStep

-----------------------------------------------------------------------------
(* The claims of a token pair. *)

\* What a login or refresh under way may still read is among what it is allowed to
\* have read: the write of a membership adds the role it gives to every login of
\* that user, so the role held now is never missing.
HeldCurrent == \A r \in InFlight("auth") : RoleOf(member[req[r].user]) \in req[r].held

ClaimsInv == ClaimsCurrent /\ HeldCurrent

\* The membership a login reads is the one that counts: the active internal one is
\* primary and the personal one is not.
LEMMA PrimaryIsCurrent ==
    ASSUME TypeOK, NEW u \in Users, NEW role \in getPrimaryMembership(u)
    PROVE  role = RoleOf(member[u])
  BY DEF TypeOK, OnePrimary, getPrimaryMembership, RoleOf

\* A request that begins has read nothing yet; one that reads takes the role held.
LEMMA ClaimsStep == TypeInv /\ ClaimsInv /\ [Next]_vars => ClaimsInv'
<1> SUFFICES ASSUME TypeInv, ClaimsInv, [Next]_vars
             PROVE  ClaimsInv'
  OBVIOUS
<1> USE DEF TypeInv
<1>1. CASE UNCHANGED <<req, member>>
  BY <1>1 DEF ClaimsInv, ClaimsCurrent, HeldCurrent, InFlight
<1>2. CASE \/ \E u \in Users, t \in Tokens : register(u, t)
           \/ \E t \in Tokens : logout(t) \/ ExpireRefresh(t)
  BY <1>1, <1>2 DEF register, logout, ExpireRefresh, staffVars
<1>3. ASSUME NEW r \in Requests, AdminStep(r) \/ Fail(r)
      PROVE  ClaimsInv'
  <2>1. StaffLeavesLogins
    BY <1>3, StaffLeaves
  <2> QED  BY <2>1 DEF StaffLeavesLogins, ClaimsInv, ClaimsCurrent, HeldCurrent
<1>4. ASSUME NEW r \in Requests, AuthStep(r)
      PROVE  ClaimsInv'
  <2>1. UNCHANGED member
    BY <1>4, AccountsLeaveStaff DEF staffVars
  <2>2. ASSUME \A x \in Requests \ {r} : req'[x] = req[x],
               r \in InFlight("auth")' =>
                  /\ RoleOf(member[req'[r].user]) \in req'[r].held
                  /\ req'[r].pc \in {"issue", "revoke"} => req'[r].role \in req'[r].held
        PROVE  ClaimsInv'
    <3>1. ASSUME NEW x \in InFlight("auth")'
          PROVE  /\ RoleOf(member[req'[x].user]) \in req'[x].held
                 /\ req'[x].pc \in {"issue", "revoke"} => req'[x].role \in req'[x].held
      BY <2>2, <3>1 DEF InFlight, ClaimsInv, ClaimsCurrent, HeldCurrent
    <3> QED  BY <2>1, <3>1 DEF ClaimsInv, ClaimsCurrent, HeldCurrent
  <2>3. ASSUME NEW u \in Users, NEW old, Begin(r, u, old)
        PROVE  ClaimsInv'
    BY <2>2, <2>3 DEF Begin, TypeOK
  <2>4. CASE \E u \in Users : login(r, u)
    BY <2>3, <2>4 DEF login
  <2>5. CASE \E t \in Tokens : refresh(r, t)
    <3> PICK t \in Tokens : refresh(r, t)
      BY <2>5
    <3>1. token[t].user \in Users
      BY DEF refresh, TypeOK, TokenRecords
    <3> QED  BY <2>3, <3>1 DEF refresh
  <2>6. ASSUME End(r)
        PROVE  ClaimsInv'
    BY <2>2, <2>6 DEF End, TypeOK, InFlight
  <2>7. CASE \E t \in Tokens : issueTokens(r, t)
    <3> PICK t \in Tokens : issueTokens(r, t)
      BY <2>7
    <3>1. req[r] \in AuthRequests /\ r \in InFlight("auth") /\ req[r].pc = "issue"
      BY KindOf DEF issueTokens, At, InFlight
    <3>2. CASE req' = [req EXCEPT ![r].pc = "revoke", ![r].new = t]
      <4>1. /\ req'[r].user = req[r].user /\ req'[r].role = req[r].role
            /\ req'[r].held = req[r].held
            /\ \A x \in Requests \ {r} : req'[x] = req[x]
        BY <3>1, <3>2 DEF TypeOK, AuthRequests
      <4> QED  BY <2>2, <3>1, <4>1 DEF ClaimsInv, ClaimsCurrent, HeldCurrent
    <3> QED  BY <2>6, <3>2 DEF issueTokens
  <2>8. CASE ReadMembership(r)
    <3>1. req[r] \in AuthRequests /\ r \in InFlight("auth") /\ req[r].user \in Users
      BY <2>8, KindOf DEF ReadMembership, At, InFlight, AuthRequests
    <3> PICK role \in getPrimaryMembership(req[r].user) :
          req' = [req EXCEPT ![r].role = role, ![r].pc = "issue"]
      BY <2>8 DEF ReadMembership
    <3>2. role = RoleOf(member[req[r].user])
      BY <3>1, PrimaryIsCurrent
    <3>3. /\ req'[r].user = req[r].user /\ req'[r].role = role
          /\ req'[r].held = req[r].held
          /\ \A x \in Requests \ {r} : req'[x] = req[x]
      BY <3>1 DEF TypeOK, AuthRequests
    <3> QED  BY <2>2, <3>1, <3>2, <3>3 DEF ClaimsInv, HeldCurrent
  <2>9. CASE SpendOld(r)
    BY <2>6, <2>9 DEF SpendOld
  <2> QED  BY <1>4, <2>4, <2>5, <2>7, <2>8, <2>9 DEF AuthStep
<1>5. CASE UNCHANGED vars
  BY <1>1, <1>5 DEF vars
<1> QED  BY <1>2, <1>3, <1>4, <1>5 DEF Next

\* The role in a new token pair is one the account held while the login or refresh
\* was under way, whatever staff changes ran beside it (loginAs, issueTokens).
THEOREM ClaimsAreCurrent == Spec => []ClaimsCurrent
<1>1. Init => ClaimsInv
  BY DEF Init, ClaimsInv, ClaimsCurrent, HeldCurrent, InFlight
<1>2. ClaimsInv => ClaimsCurrent
  BY DEF ClaimsInv
<1> QED  BY <1>1, <1>2, ClaimsStep, Invariance, PTL DEF Spec

-----------------------------------------------------------------------------
(* The last super admin. *)

\* While no two staff changes have met there is at most one, and what it counted
\* still holds when it writes: another super admin stays.
AloneInv ==
    ~overlapped =>
        /\ ActiveSuperAdmins # {}
        /\ \A r, s \in InFlight("admin") : r = s
        /\ \A r \in InFlight("admin") :
              req[r].pc = "write" /\ req[r].target \in ActiveSuperAdmins =>
                  ActiveSuperAdmins \ {req[r].target} # {}

\* A staff change alone writes what it has counted.
LEMMA AloneStep == TypeInv /\ AloneInv /\ [Next]_vars => AloneInv'
<1> SUFFICES ASSUME TypeInv, AloneInv, [Next]_vars
             PROVE  AloneInv'
  OBVIOUS
<1> USE DEF TypeInv
<1>1. ASSUME UNCHANGED staffVars, InFlight("admin")' \subseteq InFlight("admin"),
             \A x \in InFlight("admin")' : req'[x] = req[x]
      PROVE  AloneInv'
  BY <1>1 DEF AloneInv, ActiveSuperAdmins, ActiveMember, staffVars
<1>2. CASE \/ \E u \in Users, t \in Tokens : register(u, t)
           \/ \E t \in Tokens : logout(t) \/ ExpireRefresh(t)
           \/ \E r \in Requests : AuthStep(r)
  BY <1>1, <1>2, AccountsLeaveStaff
<1>3. ASSUME NEW r \in Requests, End(r), UNCHANGED staffVars
      PROVE  AloneInv'
  <2>1. /\ \A x \in Requests \ {r} : req'[x] = req[x]
        /\ InFlight("admin")' = InFlight("admin") \ {r}
    BY <1>3, EndKeeps
  <2> QED  BY <1>1, <1>3, <2>1 DEF InFlight
<1>4. ASSUME NEW r \in Requests, NEW a \in Users, NEW u \in Users,
             \/ revokeRole(r, a, u)
             \/ \E role \in InternalRoles : grantRole(r, a, u, role) \/ changeRole(r, a, u, role)
      PROVE  AloneInv'
  <2>0. \E op \in {"grant", "change", "revoke"}, role \in InternalRoles, pc \in {"count", "write"} :
        Call(r, op, a, u, role, pc) /\ (pc = "write" => u \notin ActiveSuperAdmins)
    BY <1>4, BeginningsAreCalls
  <2> PICK op \in {"grant", "change", "revoke"}, role \in InternalRoles, pc \in {"count", "write"} :
        Call(r, op, a, u, role, pc) /\ (pc = "write" => u \notin ActiveSuperAdmins)
    BY <2>0
  <2>1. /\ \A x \in Requests \ {r} : req'[x] = req[x]
        /\ InFlight("admin")' = InFlight("admin") \union {r}
        /\ req'[r].target = u /\ req'[r].pc = pc
        /\ overlapped' = (overlapped \/ InFlight("admin") # {})
        /\ UNCHANGED member
    BY CallKeeps
  <2>2. ActiveSuperAdmins' = ActiveSuperAdmins
    BY <2>1 DEF ActiveSuperAdmins, ActiveMember
  <2> QED  BY <2>1, <2>2 DEF AloneInv
<1>5. ASSUME NEW r \in Requests, assertNotLastSuperAdmin(r)
      PROVE  AloneInv'
  <2>1. CASE End(r)
    BY <1>3, <1>5, <2>1 DEF assertNotLastSuperAdmin
  <2>2. CASE ActiveSuperAdmins \ {req[r].target} # {} /\ req' = [req EXCEPT ![r].pc = "write"]
    <3>1. req[r] \in AdminRequests /\ r \in InFlight("admin")
      BY <1>5, KindOf DEF assertNotLastSuperAdmin, At, InFlight
    <3>2. /\ [req[r] EXCEPT !.pc = "write"].kind = "admin"
          /\ [req[r] EXCEPT !.pc = "write"].target = req[r].target
      BY <3>1 DEF AdminRequests
    <3>3. /\ req'[r].kind = "admin" /\ req'[r].target = req[r].target
          /\ \A x \in Requests \ {r} : req'[x] = req[x]
      BY <2>2, <3>2 DEF TypeOK
    <3>4. InFlight("admin")' \subseteq InFlight("admin")
      BY <3>1, <3>3 DEF InFlight
    <3>5. UNCHANGED <<overlapped, ActiveSuperAdmins>>
      BY <1>5 DEF assertNotLastSuperAdmin, staffVars, ActiveSuperAdmins, ActiveMember
    <3> QED  BY <2>2, <3>1, <3>3, <3>4, <3>5 DEF AloneInv
  <2> QED  BY <1>5, <2>1, <2>2 DEF assertNotLastSuperAdmin
<1>6. ASSUME NEW r \in Requests, GrantWrite(r) \/ ChangeWrite(r) \/ RevokeWrite(r)
      PROVE  AloneInv'
  <2>1. At(r, "admin", "write") /\ UNCHANGED overlapped
    BY <1>6, WritesSetMember
  <2>2. CASE End(r) /\ UNCHANGED <<personalPrimary, member>>
    BY <1>3, <2>1, <2>2 DEF staffVars
  <2>3. ASSUME NEW m \in MemberRecords, SetMember(r, m), ~overlapped
        PROVE  /\ ActiveSuperAdmins' # {}
               /\ \A x, y \in InFlight("admin")' : x = y
               /\ \A x \in InFlight("admin")' : req'[x].pc # "write"
    <3> DEFINE u == req[r].target
    <3>1. /\ req[r] \in AdminRequests /\ u \in Users
          /\ member' = [member EXCEPT ![u] = m]
          /\ req'[r] = [req[r] EXCEPT !.pc = "append"]
          /\ InFlight("admin")' = InFlight("admin")
      BY <2>1, <2>3, SetMemberKeeps
    <3>2. r \in InFlight("admin") /\ req[r].pc = "write" /\ req'[r].pc = "append"
      BY <2>1, <3>1 DEF At, InFlight, AdminRequests
    <3>3. InFlight("admin") = {r} /\ ActiveSuperAdmins \ {u} # {}
      BY <2>3, <3>2 DEF AloneInv
    <3>4. \A x \in Users \ {u} : member'[x] = member[x]
      BY <3>1 DEF TypeOK
    <3>5. ActiveSuperAdmins' # {}
      BY <3>3, <3>4 DEF ActiveSuperAdmins, ActiveMember
    <3>6. InFlight("admin")' = {r}
      BY <3>1, <3>3
    <3>7. /\ \A x, y \in InFlight("admin")' : x = y
          /\ \A x \in InFlight("admin")' : req'[x].pc # "write"
      BY <3>2, <3>6
    <3> QED  BY <3>5, <3>7
  <2> QED  BY <1>6, <2>1, <2>2, <2>3, WritesSetMember DEF AloneInv
<1>7. ASSUME NEW r \in Requests, AdminStep(r) \/ Fail(r)
      PROVE  AloneInv'
  BY <1>3, <1>4, <1>5, <1>6, <1>7 DEF AdminStep, logEvidence, Fail
<1>8. CASE UNCHANGED vars
  <2>1. UNCHANGED staffVars /\ InFlight("admin")' = InFlight("admin") /\ UNCHANGED req
    BY <1>8 DEF vars, staffVars, InFlight
  <2> QED  BY <1>1, <2>1
<1> QED  BY <1>2, <1>7, <1>8 DEF Next

\* "The last active SUPER_ADMIN can never be removed or demoted": as long as no two
\* staff changes overlap, for the count and the write are two statements.
THEOREM SuperAdminStays == Spec => []SuperAdminSurvives
<1>1. Init => AloneInv
  <2>1. ASSUME Init
        PROVE  AloneInv
    <3>1. PICK u : u \in FirstAdmins
      BY AdminsAssumption
    <3>2. u \in Users /\ member[u] = [role |-> "SUPER_ADMIN", status |-> "ACTIVE", isPrimary |-> TRUE]
      BY <2>1, <3>1, AdminsAssumption DEF Init
    <3>3. member[u] \in MemberRecords
      BY <3>2, RolesAssumption DEF MemberRecords
    <3>4. u \in ActiveSuperAdmins
      BY <3>2, <3>3, NoRowAssumption DEF ActiveSuperAdmins, ActiveMember
    <3>5. InFlight("admin") = {}
      BY <2>1 DEF Init, InFlight
    <3> QED  BY <3>4, <3>5 DEF AloneInv
  <2> QED  BY <2>1
<1>2. AloneInv => SuperAdminSurvives
  BY DEF AloneInv, SuperAdminSurvives
<1> QED  BY <1>1, <1>2, AloneStep, Invariance, PTL DEF Spec

-----------------------------------------------------------------------------
(* The tokens of a session. *)

\* The refreshes under way of the family f.
UsedBy(f) == Using(f, NoRequest)

\* A family is named by its first token, a logout only names one that exists, and
\* a refresh puts its new token in the family of the old one.
FamiliesStand ==
    /\ raced \subseteq Tokens
    /\ loggedOut \subseteq Tokens
    /\ \A t \in Tokens : token[t] # NoToken => token[token[t].family] # NoToken
    /\ \A f \in loggedOut : token[f] # NoToken
    /\ \A x \in InFlight("auth") :
          req[x].pc = "revoke" => token[req[x].new].family = token[req[x].old].family

\* A family that never raced has one usable token and one refresh at most, and the
\* refresh holds that token: there is no other to use until it has spent it.
OneAtATime(f) ==
    /\ \A s, t \in Usable(f) : s = t
    /\ \A x, y \in UsedBy(f) : x = y
    /\ \A x \in UsedBy(f) : Usable(f) \subseteq {req[x].old}
    /\ f \in loggedOut => Usable(f) = {} /\ UsedBy(f) = {}

SessionInv == FamiliesStand /\ \A f \in Tokens \ raced : OneAtATime(f)

\* The refreshes of a family, by the requests in flight.
LEMMA UsedByInFlight ==
    ASSUME NEW f
    PROVE  /\ UsedBy(f) = {x \in InFlight("auth") :
                              req[x].old # NoToken /\ token[req[x].old].family = f}
           /\ \A r : Using(f, r) = UsedBy(f) \ {r}
  BY NoRowAssumption DEF UsedBy, Using, InFlight

\* A refresh under way holds tokens that are there.
LEMMA HeldTokens ==
    ASSUME TypeInv, NEW x \in InFlight("auth")
    PROVE  /\ x \in Requests /\ req[x] \in AuthRequests
           /\ req[x].old # NoToken => req[x].old \in Tokens /\ token[req[x].old] \in TokenRecords
                                      /\ token[req[x].old].family \in Tokens
           /\ req[x].pc = "revoke" => /\ req[x].old # NoToken
                                      /\ req[x].new \in Tokens /\ token[req[x].new] \in TokenRecords
<1>1. x \in Requests /\ req[x] \in AuthRequests
  BY KindOf DEF InFlight, TypeInv
<1>2. /\ req[x].old \in Tokens \union {NoToken} /\ req[x].new \in Tokens \union {NoToken}
      /\ \A t \in Tokens : token[t] # NoToken => token[t] \in TokenRecords /\ token[t].family \in Tokens
  BY <1>1 DEF AuthRequests, TypeInv, TypeOK, TokenRecords
<1> QED  BY <1>1, <1>2 DEF TypeInv, Refers

\* Requests end and tokens die: nothing becomes usable, nobody starts to use.
LEMMA SessionShrinks ==
    ASSUME TypeInv, SessionInv, raced \subseteq raced', raced' \subseteq Tokens,
           \A x \in InFlight("auth")' :
              /\ x \in InFlight("auth")
              /\ req'[x].old = req[x].old /\ req'[x].new = req[x].new
              /\ req'[x].pc = "revoke" => req[x].pc = "revoke",
           \A t \in Tokens :
              /\ token'[t] = NoToken <=> token[t] = NoToken
              /\ token[t] # NoToken => token'[t].family = token[t].family,
           \A f \in Tokens \ raced' : Usable(f)' \subseteq Usable(f),
           loggedOut' \subseteq Tokens, loggedOut \subseteq loggedOut',
           \A f \in loggedOut' \ loggedOut :
              /\ token[f] # NoToken
              /\ f \in raced' \/ (Usable(f)' = {} /\ UsedBy(f) = {})
    PROVE  SessionInv'
<1>1. FamiliesStand'
  <2>1. \A t \in Tokens : token'[t] # NoToken =>
           token'[t].family = token[t].family /\ token[t].family \in Tokens
           /\ token[token[t].family] # NoToken
    BY DEF SessionInv, FamiliesStand, TypeInv, TypeOK, TokenRecords
  <2>2. \A f \in loggedOut' : token'[f] # NoToken
    BY DEF SessionInv, FamiliesStand
  <2>3. ASSUME NEW x \in InFlight("auth")', req'[x].pc = "revoke"
        PROVE  token'[req'[x].new].family = token'[req'[x].old].family
    BY <2>3, HeldTokens, NoRowAssumption DEF SessionInv, FamiliesStand
  <2> QED  BY <2>1, <2>2, <2>3 DEF FamiliesStand
<1>2. ASSUME NEW f \in Tokens \ raced'
      PROVE  OneAtATime(f)'
  <2>1. UsedBy(f)' \subseteq UsedBy(f)
    <3>1. \A x \in InFlight("auth")' : req'[x].old # NoToken =>
             token'[req'[x].old].family = token[req[x].old].family
      BY HeldTokens, NoRowAssumption
    <3>2. UsedBy(f)' = {x \in InFlight("auth")' :
                              req'[x].old # NoToken /\ token'[req'[x].old].family = f}
      BY NoRowAssumption DEF UsedBy, Using, InFlight
    <3> QED  BY <3>1, <3>2, UsedByInFlight
  <2>2. \A x \in UsedBy(f)' : req'[x].old = req[x].old
    BY NoRowAssumption DEF UsedBy, Using, InFlight
  <2>3. OneAtATime(f)
    BY DEF SessionInv
  <2>4. Usable(f)' \subseteq Usable(f)
    BY <1>2
  <2>5. f \in loggedOut' \ loggedOut => Usable(f)' = {} /\ UsedBy(f) = {}
    BY <1>2
  <2> QED  BY <2>1, <2>2, <2>3, <2>4, <2>5 DEF OneAtATime
<1> QED  BY <1>1, <1>2 DEF SessionInv

\* A login or a registration starts a family of its own.
LEMMA SessionStarts ==
    ASSUME TypeInv, SessionInv, NEW t \in Tokens, token[t] = NoToken,
           NEW new \in TokenRecords, new.family = t, token' = [token EXCEPT ![t] = new],
           \A x \in InFlight("auth")' : x \in InFlight("auth") /\ req'[x] = req[x],
           UNCHANGED <<raced, loggedOut>>
    PROVE  SessionInv'
<1>1. /\ token'[t] = new /\ new # NoToken
      /\ \A x \in Tokens \ {t} : token'[x] = token[x]
  BY NoRowAssumption DEF TypeInv, TypeOK
<1>2. \A x \in Tokens : token[x] # NoToken =>
         x # t /\ token[x].family \in Tokens /\ token[x].family # t
  BY DEF SessionInv, FamiliesStand, TypeInv, TypeOK, TokenRecords
<1>3. FamiliesStand'
  <2>1. \A x \in Tokens : token'[x] # NoToken => token'[token'[x].family] # NoToken
    BY <1>1, <1>2 DEF SessionInv, FamiliesStand
  <2>2. \A f \in loggedOut' : token'[f] # NoToken
    BY <1>1 DEF SessionInv, FamiliesStand
  <2>3. ASSUME NEW x \in InFlight("auth")', req'[x].pc = "revoke"
        PROVE  token'[req'[x].new].family = token'[req'[x].old].family
    BY <1>1, <1>2, <2>3, HeldTokens, NoRowAssumption DEF SessionInv, FamiliesStand
  <2> QED  BY <2>1, <2>2, <2>3 DEF SessionInv, FamiliesStand
<1>4. ASSUME NEW f \in Tokens \ raced
      PROVE  OneAtATime(f)'
  <2>2. UsedBy(f)' \subseteq UsedBy(f) /\ (f = t => UsedBy(f)' = {})
    <3>1. \A x \in InFlight("auth")' : req'[x].old # NoToken =>
             /\ token'[req'[x].old].family = token[req[x].old].family
             /\ token[req[x].old].family # t
      BY <1>1, <1>2, HeldTokens, NoRowAssumption
    <3>2. UsedBy(f)' = {x \in InFlight("auth")' :
                              req'[x].old # NoToken /\ token'[req'[x].old].family = f}
      BY NoRowAssumption DEF UsedBy, Using, InFlight
    <3> QED  BY <3>1, <3>2, UsedByInFlight
  <2>3. Usable(f)' \subseteq IF f = t THEN {t} ELSE Usable(f)
    BY <1>1, <1>2 DEF Usable
  <2>4. t \notin loggedOut
    BY DEF SessionInv, FamiliesStand
  <2>5. \A x \in UsedBy(f)' : req'[x].old = req[x].old
    BY NoRowAssumption DEF UsedBy, Using, InFlight
  <2>6. OneAtATime(f)
    BY DEF SessionInv
  <2>7. CASE f = t
    BY <2>2, <2>3, <2>4, <2>7 DEF OneAtATime
  <2>8. CASE f # t
    BY <2>2, <2>3, <2>5, <2>6, <2>8 DEF OneAtATime
  <2> QED  BY <2>7, <2>8
<1> QED  BY <1>3, <1>4 DEF SessionInv

\* A login begins with no token, a refresh with a usable one: when nobody uses its
\* family, it is the only usable one.
LEMMA SessionBegins ==
    ASSUME TypeInv, SessionInv, NEW r \in Requests, req[r] = NoRequest,
           NEW u \in Users, NEW old \in Tokens \union {NoToken}, Begin(r, u, old),
           IF old = NoToken
           THEN UNCHANGED raced
           ELSE /\ token[old] # NoToken /\ token[old].known /\ token[old].state = "live"
                /\ raced' = IF Using(token[old].family, r) # {}
                            THEN raced \union {token[old].family} ELSE raced,
           UNCHANGED <<token, loggedOut>>
    PROVE  SessionInv'
<1>1. /\ \A x \in Requests \ {r} : req'[x] = req[x]
      /\ req'[r] # NoRequest => req'[r].old = old /\ req'[r].pc = "membership"
  BY DEF Begin, TypeInv, TypeOK
<1>2. r \notin InFlight("auth") /\ InFlight("auth")' \subseteq InFlight("auth") \union {r}
  BY <1>1 DEF InFlight
<1>3. old # NoToken => token[old].family \in Tokens
  BY DEF TypeInv, TypeOK, TokenRecords
<1>4. FamiliesStand'
  <2>1. raced' \subseteq Tokens
    BY <1>3 DEF SessionInv, FamiliesStand
  <2>2. ASSUME NEW x \in InFlight("auth")', req'[x].pc = "revoke"
        PROVE  x \in InFlight("auth") /\ req'[x] = req[x]
    BY <1>1, <1>2, <2>2 DEF InFlight
  <2> QED  BY <2>1, <2>2 DEF SessionInv, FamiliesStand
<1>5. ASSUME NEW f \in Tokens \ raced'
      PROVE  OneAtATime(f)'
  <2>1. OneAtATime(f)
    BY DEF SessionInv
  <2>2. Usable(f)' = Usable(f)
    BY DEF Usable
  <2>3. UsedBy(f)' \subseteq UsedBy(f) \union {r}
        /\ (r \in UsedBy(f)' => old # NoToken /\ token[old].family = f)
    <3>1. UsedBy(f)' = {x \in InFlight("auth")' :
                              req'[x].old # NoToken /\ token[req'[x].old].family = f}
      BY NoRowAssumption DEF UsedBy, Using, InFlight
    <3> QED  BY <1>1, <1>2, <3>1, UsedByInFlight DEF InFlight
  <2>4. \A x \in UsedBy(f)' : x # r => req'[x] = req[x]
    BY <1>1, <2>3, UsedByInFlight DEF InFlight
  <2>5. CASE old # NoToken /\ token[old].family = f
    <3>1. Using(f, r) = {} /\ UsedBy(f) \subseteq {r}
      <4>1. raced' = IF Using(f, r) # {} THEN raced \union {f} ELSE raced
        BY <2>5
      <4>2. Using(f, r) = {}
        BY <4>1
      <4>3. Using(f, r) = UsedBy(f) \ {r}
        BY UsedByInFlight
      <4> QED  BY <4>2, <4>3
    <3>2. old \in Usable(f)
      BY <2>5 DEF Usable
    <3>3. UsedBy(f)' \subseteq {r} /\ (r \in UsedBy(f)' => req'[r].old = old)
      BY <1>1, <2>3, <3>1, NoRowAssumption DEF UsedBy, Using
    <3> QED  BY <2>1, <2>2, <3>2, <3>3 DEF OneAtATime
  <2>6. CASE ~(old # NoToken /\ token[old].family = f)
    <3>1. UsedBy(f)' \subseteq UsedBy(f) /\ r \notin UsedBy(f)'
      BY <2>3, <2>6
    <3> QED  BY <2>1, <2>2, <2>4, <3>1 DEF OneAtATime
  <2> QED  BY <2>5, <2>6
<1> QED  BY <1>4, <1>5 DEF SessionInv

\* A refresh makes its new token: the client does not know it yet.
LEMMA SessionIssues ==
    ASSUME TypeInv, SessionInv, NEW r \in Requests, NEW t \in Tokens,
           issueTokens(r, t), req[r].old # NoToken
    PROVE  SessionInv'
<1>1. r \in InFlight("auth")
  BY DEF issueTokens, At, InFlight
<1> DEFINE old == req[r].old
           new == [user |-> req[r].user, family |-> token[old].family, state |-> "live",
                   known |-> FALSE]
           q == [req[r] EXCEPT !.pc = "revoke", !.new = t]
<1>2. /\ req[r] \in AuthRequests /\ old \in Tokens /\ token[old] \in TokenRecords
      /\ token[old].family \in Tokens
  BY <1>1, HeldTokens
<1>3. new \in TokenRecords
  BY <1>2 DEF TokenRecords, AuthRequests
<1>4. new.family = token[old].family /\ new.known = FALSE
  OBVIOUS
<1>5. q.old = old /\ q.new = t /\ q.pc = "revoke" /\ q.kind = "auth"
  BY <1>2 DEF AuthRequests
<1>6. /\ token[t] = NoToken /\ token' = [token EXCEPT ![t] = new]
      /\ req' = [req EXCEPT ![r] = q]
      /\ UNCHANGED <<raced, loggedOut>>
  BY DEF issueTokens
<1> HIDE DEF new, q
<1>7. /\ token'[t] = new /\ new # NoToken
      /\ \A x \in Tokens \ {t} : token'[x] = token[x]
      /\ \A x \in Requests \ {r} : req'[x] = req[x]
      /\ req'[r] = q
  BY <1>3, <1>6, NoRowAssumption DEF TypeInv, TypeOK
<1>8. InFlight("auth")' \subseteq InFlight("auth")
  BY <1>1, <1>7 DEF InFlight
<1>9. \A x \in InFlight("auth")' :
         /\ req'[x].old = req[x].old
         /\ req[x].old # NoToken =>
               req[x].old \in Tokens \ {t} /\ token'[req[x].old] = token[req[x].old]
         /\ req'[x].pc = "revoke" /\ x # r =>
               req'[x].new = req[x].new /\ token'[req[x].new] = token[req[x].new]
  BY <1>5, <1>6, <1>7, <1>8, HeldTokens, NoRowAssumption
<1>10. FamiliesStand'
  <2>1. \A x \in Tokens : token[x] # NoToken => token[token[x].family] # NoToken
    BY DEF SessionInv, FamiliesStand
  <2>2. \A x \in Tokens : token'[x] # NoToken => token'[token'[x].family] # NoToken
    <3>1. \A x \in Tokens : token[x] # NoToken => token[x].family \in Tokens \ {t}
      BY <1>6, <2>1 DEF TypeInv, TypeOK, TokenRecords
    <3> QED  BY <1>2, <1>4, <1>6, <1>7, <2>1, <3>1, NoRowAssumption
  <2>3. \A f \in loggedOut' : token'[f] # NoToken
    BY <1>6, <1>7 DEF SessionInv, FamiliesStand
  <2>4. ASSUME NEW x \in InFlight("auth")', req'[x].pc = "revoke"
        PROVE  token'[req'[x].new].family = token'[req'[x].old].family
    <3>1. CASE x = r
      BY <1>2, <1>4, <1>5, <1>7, <1>9, <2>4, <3>1, NoRowAssumption
    <3>2. CASE x # r
      <4>1. x \in InFlight("auth") /\ req'[x] = req[x]
        BY <1>7, <1>8, <2>4, <3>2 DEF InFlight
      <4> QED  BY <1>9, <2>4, <3>2, <4>1, HeldTokens DEF SessionInv, FamiliesStand
    <3> QED  BY <3>1, <3>2
  <2> QED  BY <1>6, <2>2, <2>3, <2>4 DEF SessionInv, FamiliesStand
<1>11. ASSUME NEW f \in Tokens \ raced
       PROVE  OneAtATime(f)'
  <2>1. OneAtATime(f)
    BY DEF SessionInv
  <2>2. Usable(f)' \subseteq Usable(f)
    BY <1>4, <1>7 DEF Usable
  <2>3. UsedBy(f)' \subseteq UsedBy(f)
    <3>1. UsedBy(f)' = {x \in InFlight("auth")' :
                              req'[x].old # NoToken /\ token'[req'[x].old].family = f}
      BY NoRowAssumption DEF UsedBy, Using, InFlight
    <3> QED  BY <1>8, <1>9, <3>1, UsedByInFlight
  <2>4. \A x \in UsedBy(f)' : req'[x].old = req[x].old
    BY <1>9, NoRowAssumption DEF UsedBy, Using, InFlight
  <2> QED  BY <1>6, <2>1, <2>2, <2>3, <2>4 DEF OneAtATime
<1> QED  BY <1>6, <1>10, <1>11 DEF SessionInv

\* A refresh returns: the old token is spent when the new one is known.
LEMMA SessionSpends ==
    ASSUME TypeInv, SessionInv, NEW r \in Requests, SpendOld(r)
    PROVE  SessionInv'
<1> DEFINE old == req[r].old
           new == req[r].new
           T == [token EXCEPT ![old].state = "dead"]
<1>1. r \in InFlight("auth") /\ req[r].pc = "revoke"
  BY DEF SpendOld, At, InFlight
<1>2. /\ old \in Tokens /\ token[old] \in TokenRecords /\ token[old].family \in Tokens
      /\ new \in Tokens /\ token[new] \in TokenRecords
      /\ old # NoToken /\ token[new].family = token[old].family
  BY <1>1, HeldTokens, NoRowAssumption DEF SessionInv, FamiliesStand
<1>3. token' = [T EXCEPT ![new].known = TRUE] /\ UNCHANGED <<raced, loggedOut>>
  BY DEF SpendOld
<1>4. \A x \in Tokens \ {old} : T[x] = token[x]
  BY DEF TypeInv, TypeOK
<1>5. /\ T[old] = [token[old] EXCEPT !.state = "dead"]
      /\ T \in [Tokens -> TokenRecords \union {NoToken}]
  <2>1. [token[old] EXCEPT !.state = "dead"] \in TokenRecords
    BY <1>2 DEF TokenRecords
  <2> QED  BY <1>2, <2>1 DEF TypeInv, TypeOK
<1>6. T[old] \in TokenRecords /\ T[old].state = "dead" /\ T[old].family = token[old].family
      /\ T[old].known = token[old].known
  BY <1>2, <1>5 DEF TokenRecords
<1>7. T[new] \in TokenRecords /\ T[new].family = token[new].family
  BY <1>2, <1>4, <1>6
<1> HIDE DEF T
<1>8. /\ token'[new] = [T[new] EXCEPT !.known = TRUE]
      /\ \A x \in Tokens \ {new} : token'[x] = T[x]
  BY <1>2, <1>3, <1>5
<1>9. token'[new] \in TokenRecords /\ token'[new].family = token[new].family
      /\ token'[new].state = T[new].state
  BY <1>7, <1>8 DEF TokenRecords
<1>10. \A x \in Tokens :
          /\ token'[x] = NoToken <=> token[x] = NoToken
          /\ token[x] # NoToken => token'[x].family = token[x].family
  BY <1>2, <1>4, <1>6, <1>7, <1>8, <1>9, NoRowAssumption
<1>11. /\ InFlight("auth")' = InFlight("auth") \ {r}
       /\ \A x \in Requests \ {r} : req'[x] = req[x]
  BY EndKeeps DEF SpendOld, TypeInv
<1>12. FamiliesStand'
  <2>1. \A x \in Tokens : token'[x] # NoToken =>
           token'[x].family = token[x].family /\ token[x].family \in Tokens
           /\ token[token[x].family] # NoToken
    BY <1>10 DEF SessionInv, FamiliesStand, TypeInv, TypeOK, TokenRecords
  <2>2. \A f \in loggedOut : f \in Tokens /\ token'[f] # NoToken
    BY <1>10 DEF SessionInv, FamiliesStand
  <2>3. ASSUME NEW x \in InFlight("auth")', req'[x].pc = "revoke"
        PROVE  token'[req'[x].new].family = token'[req'[x].old].family
    <3>1. x \in InFlight("auth") /\ req'[x] = req[x]
      BY <1>11 DEF InFlight
    <3> QED  BY <1>10, <2>3, <3>1, HeldTokens, NoRowAssumption DEF SessionInv, FamiliesStand
  <2> QED  BY <1>3, <1>10, <2>1, <2>2, <2>3 DEF SessionInv, FamiliesStand
<1>13. ASSUME NEW f \in Tokens \ raced
       PROVE  OneAtATime(f)'
  <2>1. OneAtATime(f)
    BY DEF SessionInv
  <2>2. UsedBy(f)' = UsedBy(f) \ {r} /\ \A x \in UsedBy(f)' : req'[x] = req[x]
    <3>1. UsedBy(f)' = {x \in InFlight("auth")' :
                              req'[x].old # NoToken /\ token'[req'[x].old].family = f}
      BY NoRowAssumption DEF UsedBy, Using, InFlight
    <3>2. \A x \in InFlight("auth")' :
             /\ req'[x] = req[x]
             /\ req[x].old # NoToken => token'[req[x].old].family = token[req[x].old].family
      BY <1>10, <1>11, HeldTokens, NoRowAssumption DEF InFlight
    <3> QED  BY <1>11, <3>1, <3>2, UsedByInFlight
  <2>3. CASE token[old].family = f
    <3>1. r \in UsedBy(f)
      BY <1>1, <1>2, <2>3, UsedByInFlight
    <3>2. UsedBy(f) = {r} /\ Usable(f) \subseteq {old} /\ f \notin loggedOut
      BY <2>1, <3>1 DEF OneAtATime
    <3>3. UsedBy(f)' = {}
      BY <2>2, <3>2
    <3>4. Usable(f)' \subseteq {new}
      <4> SUFFICES ASSUME NEW x \in Usable(f)', x # new PROVE FALSE
        OBVIOUS
      <4>1. x \in Tokens \ {new} /\ token'[x] = T[x] /\ T[x] # NoToken /\ T[x].family = f
            /\ T[x].known /\ T[x].state = "live"
        BY <1>8 DEF Usable
      <4>2. x # old
        BY <1>6, <4>1
      <4>3. x \in Usable(f)
        BY <1>4, <4>1, <4>2 DEF Usable
      <4> QED  BY <3>2, <4>2, <4>3
    <3> QED  BY <1>3, <3>2, <3>3, <3>4 DEF OneAtATime
  <2>4. CASE token[old].family # f
    <3>1. Usable(f)' \subseteq Usable(f)
      <4> SUFFICES ASSUME NEW x \in Usable(f)' PROVE x \in Usable(f)
        OBVIOUS
      <4>1. x \in Tokens /\ token'[x] # NoToken /\ token'[x].family = f
            /\ token'[x].known /\ token'[x].state = "live"
        BY DEF Usable
      <4>2. x # new /\ x # old
        BY <1>2, <1>10, <2>4, <4>1
      <4> QED  BY <1>4, <1>8, <4>1, <4>2 DEF Usable
    <3> QED  BY <1>3, <2>1, <2>2, <3>1 DEF OneAtATime
  <2> QED  BY <2>3, <2>4
<1> QED  BY <1>3, <1>12, <1>13 DEF SessionInv

\* Every step keeps the sessions of the families that have not raced.
LEMMA SessionStep == TypeInv /\ SessionInv /\ [Next]_vars => SessionInv'
<1> SUFFICES ASSUME TypeInv, SessionInv, [Next]_vars
             PROVE  SessionInv'
  OBVIOUS
<1>0. raced \subseteq Tokens /\ loggedOut \subseteq Tokens
  BY DEF SessionInv, FamiliesStand
<1>1. ASSUME UNCHANGED <<token, raced, loggedOut>>,
             \A x \in InFlight("auth")' :
                /\ x \in InFlight("auth")
                /\ req'[x].old = req[x].old /\ req'[x].new = req[x].new
                /\ req'[x].pc = "revoke" => req[x].pc = "revoke"
      PROVE  SessionInv'
  <2>1. \A f : Usable(f)' = Usable(f)
    BY <1>1 DEF Usable
  <2> QED  BY <1>0, <1>1, <2>1, SessionShrinks
<1>2. ASSUME NEW r \in Requests, AdminStep(r) \/ Fail(r)
      PROVE  SessionInv'
  <2>1. StaffLeavesLogins
    BY <1>2, StaffLeaves
  <2> QED  BY <1>1, <2>1 DEF StaffLeavesLogins, authVars
<1>3. ASSUME NEW u \in Users, NEW t \in Tokens, register(u, t)
      PROVE  SessionInv'
  <2> DEFINE new == [user |-> u, family |-> t, state |-> "live", known |-> TRUE]
  <2>1. new \in TokenRecords /\ new.family = t
    BY DEF TokenRecords
  <2>2. token[t] = NoToken /\ token' = [token EXCEPT ![t] = new]
        /\ UNCHANGED <<req, raced, loggedOut>>
    BY <1>3 DEF register
  <2>3. \A x \in InFlight("auth")' : x \in InFlight("auth") /\ req'[x] = req[x]
    BY <2>2 DEF InFlight
  <2> HIDE DEF new
  <2> QED  BY <2>1, <2>2, <2>3, SessionStarts
<1>4. ASSUME NEW t \in Tokens, logout(t) \/ ExpireRefresh(t)
      PROVE  SessionInv'
  <2> DEFINE f == token[t].family
  <2>1. token[t] \in TokenRecords /\ f \in Tokens /\ token[f] # NoToken
    BY <1>4 DEF logout, ExpireRefresh, TypeInv, TypeOK, TokenRecords, SessionInv, FamiliesStand
  <2> PICK s \in {token[t].state, "dead"} : token' = [token EXCEPT ![t] = [token[t] EXCEPT !.state = s]]
    BY <1>4 DEF logout, ExpireRefresh, TypeInv, TypeOK, TokenRecords
  <2>2. LET new == [token[t] EXCEPT !.state = s] IN
           /\ new \in TokenRecords /\ new.family = f /\ new.known = token[t].known
           /\ new.state = s
    BY <2>1 DEF TokenRecords
  <2>3. \A x \in Tokens :
           /\ token'[x] = NoToken <=> token[x] = NoToken
           /\ token[x] # NoToken => token'[x].family = token[x].family
    BY <2>1, <2>2, NoRowAssumption DEF TypeInv, TypeOK
  <2>4. \A g : Usable(g)' \subseteq Usable(g)
    BY <2>1, <2>2, NoRowAssumption DEF Usable, TypeInv, TypeOK
  <2>5. UNCHANGED req
    BY <1>4 DEF logout, ExpireRefresh
  <2>6. \A x \in InFlight("auth")' : x \in InFlight("auth") /\ req'[x] = req[x]
    BY <2>5 DEF InFlight
  <2>7. CASE ExpireRefresh(t)
    BY <1>0, <2>3, <2>4, <2>6, <2>7, SessionShrinks DEF ExpireRefresh
  <2>8. CASE logout(t)
    <3>1. raced' = IF UsedBy(f) # {} THEN raced \union {f} ELSE raced
      BY <2>8 DEF logout, UsedBy, Using
    <3>2. loggedOut' = IF token[t].state = "live" THEN loggedOut \union {f} ELSE loggedOut
      BY <2>8 DEF logout
    <3>3. ASSUME token[t].state = "live", f \notin raced'
          PROVE  UsedBy(f) = {} /\ Usable(f)' = {}
      <4>1. UsedBy(f) = {} /\ f \notin raced
        BY <3>1, <3>3
      <4>2. t \in Usable(f)
        BY <2>8, <3>3 DEF logout, Usable
      <4>3. Usable(f) = {t}
        BY <2>1, <4>1, <4>2 DEF SessionInv, OneAtATime
      <4>4. t \notin Usable(f)'
        <5>1. token'[t].state = "dead"
          BY <2>1, <2>8, <3>3 DEF logout, TypeInv, TypeOK, TokenRecords
        <5> QED  BY <5>1 DEF Usable
      <4> QED  BY <2>4, <4>1, <4>3, <4>4
    <3>4. /\ raced \subseteq raced' /\ raced' \subseteq Tokens
          /\ loggedOut' \subseteq Tokens /\ loggedOut \subseteq loggedOut'
          /\ \A g \in loggedOut' \ loggedOut :
                token[g] # NoToken /\ (g \in raced' \/ (Usable(g)' = {} /\ UsedBy(g) = {}))
      BY <1>0, <2>1, <3>1, <3>2, <3>3
    <3> QED  BY <2>3, <2>4, <2>6, <3>4, SessionShrinks
  <2> QED  BY <1>4, <2>7, <2>8
<1>5. ASSUME NEW r \in Requests, AuthStep(r)
      PROVE  SessionInv'
  <2>1. CASE \E u \in Users : login(r, u)
    BY <2>1, SessionBegins DEF login, authVars
  <2>2. CASE \E t \in Tokens : refresh(r, t)
    <3> PICK t \in Tokens : refresh(r, t)
      BY <2>2
    <3>1. token[t].user \in Users /\ t # NoToken
      BY NoRowAssumption DEF refresh, TypeInv, TypeOK, TokenRecords
    <3> QED  BY <3>1, SessionBegins DEF refresh
  <2>3. ASSUME NEW t \in Tokens, issueTokens(r, t)
        PROVE  SessionInv'
    <3>1. CASE req[r].old # NoToken
      BY <2>3, <3>1, SessionIssues
    <3>2. CASE req[r].old = NoToken
      <4> DEFINE new == [user |-> req[r].user, family |-> t, state |-> "live", known |-> TRUE]
      <4>1. req[r].user \in Users
        BY <2>3, KindOf DEF issueTokens, At, AuthRequests, TypeInv
      <4>2. new \in TokenRecords /\ new.family = t
        BY <4>1 DEF TokenRecords
      <4>3. token[t] = NoToken /\ token' = [token EXCEPT ![t] = new] /\ End(r)
            /\ UNCHANGED <<raced, loggedOut>>
        BY <2>3, <3>2 DEF issueTokens
      <4>4. \A x \in InFlight("auth")' : x \in InFlight("auth") /\ req'[x] = req[x]
        BY <4>3, EndKeeps DEF InFlight, TypeInv
      <4> HIDE DEF new
      <4> QED  BY <4>2, <4>3, <4>4, SessionStarts
    <3> QED  BY <3>1, <3>2
  <2>4. CASE ReadMembership(r)
    <3>1. req[r] \in AuthRequests /\ r \in InFlight("auth")
      BY <2>4, KindOf DEF ReadMembership, At, InFlight, TypeInv
    <3> PICK role : req' = [req EXCEPT ![r].role = role, ![r].pc = "issue"]
      BY <2>4 DEF ReadMembership
    <3>2. /\ req'[r].old = req[r].old /\ req'[r].new = req[r].new /\ req'[r].pc = "issue"
          /\ \A x \in Requests \ {r} : req'[x] = req[x]
      BY <3>1 DEF TypeInv, TypeOK, AuthRequests
    <3>3. UNCHANGED <<token, raced, loggedOut>>
      BY <2>4 DEF ReadMembership, authVars
    <3> QED  BY <1>1, <3>1, <3>2, <3>3 DEF InFlight
  <2>5. CASE SpendOld(r)
    BY <2>5, SessionSpends
  <2> QED  BY <1>5, <2>1, <2>2, <2>3, <2>4, <2>5 DEF AuthStep
<1>6. CASE UNCHANGED vars
  <2>1. UNCHANGED <<token, raced, loggedOut, req>>
    BY <1>6 DEF vars
  <2> QED  BY <1>1, <2>1 DEF InFlight
<1> QED  BY <1>2, <1>3, <1>4, <1>5, <1>6 DEF Next

\* "Rotate a refresh token: validate it, issue a new pair, spend the old one": a
\* family that no two requests used at once has one usable token at most, and none
\* after its logout, wherever a refresh stops or fails.
THEOREM SessionsAreLinear == Spec => []SessionLinear
<1>1. Init => SessionInv
  BY DEF Init, SessionInv, FamiliesStand, OneAtATime, InFlight, Usable, UsedBy, Using
<1>2. SessionInv => SessionLinear
  <2> SUFFICES ASSUME SessionInv, NEW f \in Tokens \ raced
               PROVE  Cardinality(Usable(f)) <= 1 /\ (f \in loggedOut => Usable(f) = {})
    BY DEF SessionLinear
  <2>1. OneAtATime(f)
    BY DEF SessionInv
  <2>2. CASE Usable(f) = {}
    BY <2>2, FS_EmptySet
  <2>3. ASSUME NEW t \in Usable(f)
        PROVE  Usable(f) = {t} /\ Cardinality(Usable(f)) = 1
    <3>1. Usable(f) = {t}
      BY <2>1, <2>3 DEF OneAtATime
    <3> QED  BY <3>1, FS_Singleton
  <2> QED  BY <2>1, <2>2, <2>3 DEF OneAtATime
<1> QED  BY <1>1, <1>2, SessionStep, Invariance, PTL DEF Spec
=============================================================================
