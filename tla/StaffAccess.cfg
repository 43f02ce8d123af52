SPECIFICATION Spec
CONSTANTS
    u1 = u1
    u2 = u2
    t1 = t1
    t2 = t2
    r1 = r1
    r2 = r2
    Users = {u1, u2}
    Tokens = {t1, t2}
    Requests = {r1, r2}
    InternalRoles = {"SUPER_ADMIN", "REVIEWER"}
    FirstAdmins = {u1}
    NoMembership = NoMembership
    NoToken = NoToken
    NoRequest = NoRequest
SYMMETRY MCSymmetry
INVARIANTS TypeOK SuperAdminSurvives ClaimsCurrent SessionLinear
CHECK_DEADLOCK FALSE
