----------------------------- MODULE StaffAccess -----------------------------
(***************************************************************************)
(* Accounts and internal staff: AuthService (register, login, refresh,     *)
(* logout), the access tokens JwtStrategy and RolesGuard accept, and       *)
(* InternalAdminService (grant, change and revoke of an internal role).    *)
(* A request is a sequence of database statements, one step each; only the *)
(* grant's writes share a transaction.  Nothing looks an account up again  *)
(* until its access token expires, so what matters of the access tokens is *)
(* who holds one that claims SUPER_ADMIN.  The event each staff change     *)
(* appends is EvidenceVault's matter: here the append is a step that may   *)
(* fail after the write.                                                   *)
(* Users are known by their account; User.status is ACTIVE, for no code    *)
(* writes it.                                                              *)
(***************************************************************************)
EXTENDS Naturals, FiniteSets

CONSTANTS
    Users, Tokens, Requests,
    InternalRoles,       \* internal roles, SUPER_ADMIN among them
    FirstAdmins,         \* accounts the bootstrap script promoted
    NoMembership, NoToken, NoRequest

ASSUME RolesAssumption == "SUPER_ADMIN" \in InternalRoles /\ "INDIVIDUAL" \notin InternalRoles
ASSUME AdminsAssumption == FirstAdmins \subseteq Users /\ FirstAdmins # {}

Roles == InternalRoles \union {"INDIVIDUAL"}

MemberRecords ==
    [role : InternalRoles, status : {"ACTIVE", "REMOVED"}, isPrimary : BOOLEAN]

TokenRecords ==
    [user : Users, family : Tokens, state : {"live", "dead"}, known : BOOLEAN]

AuthRequests ==
    [kind : {"auth"}, user : Users, old : Tokens \union {NoToken},
     new : Tokens \union {NoToken}, role : Roles, pc : {"membership", "issue", "revoke"},
     held : SUBSET Roles]

AdminRequests ==
    [kind : {"admin"}, op : {"grant", "change", "revoke"}, admin : Users, target : Users,
     role : InternalRoles, existed : BOOLEAN, pc : {"count", "write", "append"}]

ASSUME NoRowAssumption ==
    /\ NoMembership \notin MemberRecords
    /\ NoToken \notin TokenRecords \union Tokens
    /\ NoRequest \notin AuthRequests \union AdminRequests \union Requests

VARIABLES
    registered,       \* users with an account and its personal membership
    personalPrimary,  \* isPrimary of the personal membership
    member,           \* the membership on the INTERNAL tenant
    token,            \* refresh_tokens
    access,           \* users with an access token that claims SUPER_ADMIN
    req,              \* requests in flight
    overlapped,       \* history: two staff changes were in flight together
    raced,            \* history: families used by two requests at the same time
    loggedOut         \* history: families with a logout

authVars == <<registered, token, access, raced, loggedOut>>
staffVars == <<personalPrimary, member, overlapped>>
vars == <<registered, personalPrimary, member, token, access, req,
          overlapped, raced, loggedOut>>

-----------------------------------------------------------------------------
ActiveMember(m) == m # NoMembership /\ m.status = "ACTIVE"
ActiveSuperAdmins == {u \in Users : ActiveMember(member[u]) /\ member[u].role = "SUPER_ADMIN"}

\* What the account is entitled to: its internal role while it is active.
RoleOf(m) == IF ActiveMember(m) THEN m.role ELSE "INDIVIDUAL"

\* Mutant: a removed membership still counts.
getAnyPrimaryMembership(u) ==
    LET internal == IF member[u] # NoMembership THEN {member[u].role} ELSE {}
    IN  IF internal # {} /\ member[u].isPrimary THEN internal ELSE {"INDIVIDUAL"} \union internal

\* The first ACTIVE membership by isPrimary: the roles it may return.
getPrimaryMembership(u) ==
    LET internal == IF ActiveMember(member[u]) THEN {member[u].role} ELSE {}
        internalPrimary == internal # {} /\ member[u].isPrimary
    IN  IF internalPrimary # personalPrimary[u]
        THEN IF internalPrimary THEN internal ELSE {"INDIVIDUAL"}
        ELSE {"INDIVIDUAL"} \union internal

Init ==
    /\ registered = FirstAdmins
    /\ member = [u \in Users |->
          IF u \in FirstAdmins
          THEN [role |-> "SUPER_ADMIN", status |-> "ACTIVE", isPrimary |-> TRUE]
          ELSE NoMembership]
    /\ personalPrimary = [u \in Users |-> u \notin FirstAdmins]
    /\ token = [t \in Tokens |-> NoToken]
    /\ access = FirstAdmins
    /\ req = [r \in Requests |-> NoRequest]
    /\ overlapped = FALSE
    /\ raced = {}
    /\ loggedOut = {}

At(r, kind, pc) == req[r] # NoRequest /\ req[r].kind = kind /\ req[r].pc = pc
End(r) == req' = [req EXCEPT ![r] = NoRequest]

-----------------------------------------------------------------------------
(* AuthService. *)

\* Refresh requests on the tokens of family f, other than r.
Using(f, r) == {x \in Requests \ {r} : /\ req[x] # NoRequest
                                      /\ req[x].kind = "auth"
                                      /\ req[x].old # NoToken
                                      /\ token[req[x].old].family = f}

\* The account, its tenant, its membership and a first token pair.  A second
\* registration of the address stops at the check or at the unique index.  A
\* failure after the transaction leaves the account as if its token had expired.
register(u, t) ==
    /\ u \notin registered
    /\ token[t] = NoToken
    /\ registered' = registered \union {u}
    /\ token' = [token EXCEPT ![t] = [user |-> u, family |-> t, state |-> "live", known |-> TRUE]]
    /\ UNCHANGED <<access, staffVars, req, raced, loggedOut>>

Begin(r, u, old) ==
    req' = [req EXCEPT ![r] =
        [kind |-> "auth", user |-> u, old |-> old, new |-> NoToken, role |-> "INDIVIDUAL",
         pc |-> "membership", held |-> {RoleOf(member[u])}]]

login(r, u) ==
    /\ req[r] = NoRequest
    /\ u \in registered
    /\ Begin(r, u, NoToken)
    /\ UNCHANGED <<authVars, staffVars>>

\* The stored token is read; one that is revoked or expired ends the request.
refresh(r, t) ==
    /\ req[r] = NoRequest
    /\ token[t] # NoToken
    /\ token[t].known
    /\ token[t].state = "live"
    /\ Begin(r, token[t].user, t)
    /\ raced' = IF Using(token[t].family, r) # {} THEN raced \union {token[t].family} ELSE raced
    /\ UNCHANGED <<registered, token, access, loggedOut, staffVars>>

ReadMembership(r) ==
    /\ At(r, "auth", "membership")
    /\ \E role \in getPrimaryMembership(req[r].user) :
          req' = [req EXCEPT ![r].role = role, ![r].pc = "issue"]
    /\ UNCHANGED <<authVars, staffVars>>

Sign(r) == access' = IF req[r].role = "SUPER_ADMIN" THEN access \union {req[r].user} ELSE access

\* The new refresh token's row.  A login returns now, a refresh has the old token
\* to revoke first.
issueTokens(r, t) ==
    LET old == req[r].old
        family == IF old = NoToken THEN t ELSE token[old].family
    IN  /\ At(r, "auth", "issue")
        /\ token[t] = NoToken
        /\ token' = [token EXCEPT ![t] =
              [user |-> req[r].user, family |-> family, state |-> "live",
               known |-> old = NoToken]]
        /\ \/ /\ old = NoToken
              /\ Sign(r)
              /\ End(r)
           \/ /\ old # NoToken
              /\ req' = [req EXCEPT ![r].pc = "revoke", ![r].new = t]
              /\ UNCHANGED access
        /\ UNCHANGED <<registered, raced, loggedOut, staffVars>>

\* Mutant: the old token is not spent.
ReturnWithoutSpending(r) ==
    /\ At(r, "auth", "revoke")
    /\ token' = [token EXCEPT ![req[r].new].known = TRUE]
    /\ Sign(r)
    /\ End(r)
    /\ UNCHANGED <<registered, raced, loggedOut, staffVars>>

\* The old token is revoked and the new pair is returned.
SpendOld(r) ==
    /\ At(r, "auth", "revoke")
    /\ token' = [token EXCEPT ![req[r].old].state = "dead", ![req[r].new].known = TRUE]
    /\ Sign(r)
    /\ End(r)
    /\ UNCHANGED <<registered, raced, loggedOut, staffVars>>

\* One conditional update.
logout(t) ==
    /\ token[t] # NoToken
    /\ token[t].known
    /\ token' = [token EXCEPT ![t].state = IF @ = "live" THEN "dead" ELSE @]
    /\ loggedOut' = IF token[t].state = "live" THEN loggedOut \union {token[t].family}
                                               ELSE loggedOut
    /\ raced' = IF \E r \in Requests : r \in Using(token[t].family, NoRequest)
                THEN raced \union {token[t].family} ELSE raced
    /\ UNCHANGED <<registered, access, req, staffVars>>

\* Time passes the expiry of a refresh token.  That of an access token is left
\* out: it only takes callers away.
ExpireRefresh(t) ==
    /\ token[t] # NoToken
    /\ token[t].state = "live"
    /\ token' = [token EXCEPT ![t].state = "dead"]
    /\ UNCHANGED <<registered, access, raced, loggedOut, req, staffVars>>

-----------------------------------------------------------------------------
(* InternalAdminService, called with an access token that claims SUPER_ADMIN. *)

InFlight(kind) == {r \in Requests : req[r] # NoRequest /\ req[r].kind = kind}

\* Requests after u's membership became m: a login or refresh of u under way may
\* have read either role.
Observed(R, u, m) ==
    [r \in Requests |->
        IF R[r] # NoRequest /\ R[r].kind = "auth" /\ R[r].user = u
        THEN [R[r] EXCEPT !.held = @ \union {RoleOf(m)}] ELSE R[r]]

Call(r, op, a, u, role, pc) ==
    /\ req[r] = NoRequest
    /\ a \in access
    /\ req' = [req EXCEPT ![r] =
          [kind |-> "admin", op |-> op, admin |-> a, target |-> u, role |-> role,
           existed |-> member[u] # NoMembership, pc |-> pc]]
    /\ overlapped' = (overlapped \/ InFlight("admin") # {})
    /\ UNCHANGED <<authVars, personalPrimary, member>>

grantRole(r, a, u, role) ==
    /\ u \in registered
    /\ ~ActiveMember(member[u])
    /\ Call(r, "grant", a, u, role, "write")

\* Taking SUPER_ADMIN from a membership, active or not, counts the others first.
changeRole(r, a, u, role) ==
    /\ member[u] # NoMembership
    /\ member[u].role # role
    /\ u = a => role = "SUPER_ADMIN"
    /\ Call(r, "change", a, u, role,
            IF member[u].role = "SUPER_ADMIN" THEN "count" ELSE "write")

revokeRole(r, a, u) ==
    /\ u # a
    /\ ActiveMember(member[u])
    /\ Call(r, "revoke", a, u, member[u].role,
            IF member[u].role = "SUPER_ADMIN" THEN "count" ELSE "write")

\* Mutant: the membership to be changed is counted too.
assertAnySuperAdmin(r) ==
    /\ At(r, "admin", "count")
    /\ IF ActiveSuperAdmins # {}
       THEN req' = [req EXCEPT ![r].pc = "write"] ELSE End(r)
    /\ UNCHANGED <<authVars, staffVars>>

assertNotLastSuperAdmin(r) ==
    /\ At(r, "admin", "count")
    /\ \/ /\ ActiveSuperAdmins \ {req[r].target} # {}
          /\ req' = [req EXCEPT ![r].pc = "write"]
       \/ /\ ActiveSuperAdmins \ {req[r].target} = {}
          /\ End(r)
    /\ UNCHANGED <<authVars, staffVars>>

SetMember(r, m) ==
    /\ member' = [member EXCEPT ![req[r].target] = m]
    /\ req' = [Observed(req, req[r].target, m) EXCEPT ![r].pc = "append"]

\* Mutant: the account's other memberships stay primary.
GrantWriteKeepingPrimary(r) ==
    /\ At(r, "admin", "write")
    /\ req[r].op = "grant"
    /\ req[r].existed <=> member[req[r].target] # NoMembership
    /\ SetMember(r, [role |-> req[r].role, status |-> "ACTIVE", isPrimary |-> TRUE])
    /\ UNCHANGED <<authVars, personalPrimary, overlapped>>

\* The transaction of grantRole; its create fails when a row has appeared.
GrantWrite(r) ==
    LET u == req[r].target IN
    /\ At(r, "admin", "write")
    /\ req[r].op = "grant"
    /\ \/ /\ req[r].existed <=> member[u] # NoMembership
          /\ personalPrimary' = [personalPrimary EXCEPT ![u] = FALSE]
          /\ SetMember(r, [role |-> req[r].role, status |-> "ACTIVE", isPrimary |-> TRUE])
       \/ /\ ~req[r].existed /\ member[u] # NoMembership
          /\ End(r)
          /\ UNCHANGED <<personalPrimary, member>>
    /\ UNCHANGED <<authVars, overlapped>>

ChangeWrite(r) ==
    /\ At(r, "admin", "write")
    /\ req[r].op = "change"
    /\ SetMember(r, [member[req[r].target] EXCEPT !.role = req[r].role])
    /\ UNCHANGED <<authVars, personalPrimary, overlapped>>

RevokeWrite(r) ==
    /\ At(r, "admin", "write")
    /\ req[r].op = "revoke"
    /\ SetMember(r, [member[req[r].target] EXCEPT !.status = "REMOVED", !.isPrimary = FALSE])
    /\ UNCHANGED <<authVars, personalPrimary, overlapped>>

logEvidence(r) ==
    /\ At(r, "admin", "append")
    /\ End(r)
    /\ UNCHANGED <<authVars, staffVars>>

\* A request fails: an error of a statement, a crash of the process.
Fail(r) ==
    /\ req[r] # NoRequest
    /\ End(r)
    /\ UNCHANGED <<authVars, staffVars>>

-----------------------------------------------------------------------------
AuthStep(r) ==
    \/ \E u \in Users : login(r, u)
    \/ \E t \in Tokens : refresh(r, t) \/ issueTokens(r, t)
    \/ ReadMembership(r) \/ SpendOld(r)

AdminStep(r) ==
    \/ \E a, u \in Users :
          \/ revokeRole(r, a, u)
          \/ \E role \in InternalRoles : grantRole(r, a, u, role) \/ changeRole(r, a, u, role)
    \/ assertNotLastSuperAdmin(r)
    \/ GrantWrite(r) \/ ChangeWrite(r) \/ RevokeWrite(r)
    \/ logEvidence(r)

Next ==
    \/ \E u \in Users, t \in Tokens : register(u, t)
    \/ \E t \in Tokens : logout(t) \/ ExpireRefresh(t)
    \/ \E r \in Requests : AuthStep(r) \/ AdminStep(r) \/ Fail(r)

Spec == Init /\ [][Next]_vars

-----------------------------------------------------------------------------
\* An active staff membership is the account's only primary one.
OnePrimary ==
    \A u \in Users : ActiveMember(member[u]) => member[u].isPrimary /\ ~personalPrimary[u]

\* The tables and requests have their types, a request names rows that exist, and
\* no account has two primary memberships.
TypeOK ==
    /\ registered \subseteq Users
    /\ personalPrimary \in [Users -> BOOLEAN]
    /\ member \in [Users -> MemberRecords \union {NoMembership}]
    /\ token \in [Tokens -> TokenRecords \union {NoToken}]
    /\ access \subseteq Users
    /\ req \in [Requests -> AuthRequests \union AdminRequests \union {NoRequest}]
    /\ \A r \in InFlight("admin") : req[r].op # "grant" => member[req[r].target] # NoMembership
    /\ overlapped \in BOOLEAN
    /\ OnePrimary

\* "The last active SUPER_ADMIN can never be removed or demoted"
\* (InternalAdminService), as long as no two staff changes overlap.
SuperAdminSurvives == overlapped \/ ActiveSuperAdmins # {}

\* The same without the condition.
SuperAdminAlways == ActiveSuperAdmins # {}

\* A token pair carries the role the account held at some moment of the login or
\* refresh that returns it: a revoked role is gone, and a granted role is there,
\* from the next login or refresh on.
ClaimsCurrent ==
    \A r \in InFlight("auth") : req[r].pc \in {"issue", "revoke"} => req[r].role \in req[r].held

Usable(f) == {t \in Tokens : /\ token[t] # NoToken
                             /\ token[t].family = f
                             /\ token[t].known
                             /\ token[t].state = "live"}

\* "Rotate a refresh token: validate it, issue a new pair, spend the old one":
\* the tokens that descend from one login never leave the client with two usable
\* ones, and with none after a logout, unless two requests used them at once.
SessionLinear ==
    \A f \in Tokens \ raced :
        /\ Cardinality(Usable(f)) <= 1
        /\ f \in loggedOut => Usable(f) = {}
=============================================================================
