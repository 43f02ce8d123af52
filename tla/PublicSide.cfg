SPECIFICATION Spec
CONSTANTS
    n1 = n1
    n2 = n2
    s1 = s1
    s2 = s2
    t1 = t1
    t2 = t2
    Nodes = {n1, n2}
    Hosts = {n1, n2}
    HostOf <- MCHostOf
    Writers = {w1, w2}
    TTL = 1
    ExpiryBound = 2
    ChangeBound = 2
    Miss = Miss
    NoFill = NoFill
    NoExpiry = NoExpiry
    NoWriter = NoWriter
    Subscriptions = {s1, s2}
    SubTenants = {t1, t2}
    SubTenant <- MCSubTenant
    NoTenant = NoTenant
    PublishBound = 2
    LossBound = 1
    Owners = {o1}
    SystemOwned = SystemOwned
    Names = {nm1}
    Bytes = {b1, b2}
    FileBound = 2
    Tasks = {k1, k2}
    ExportAttempts = 2
    BundleBound = 2
    TaskBound = 3
    NoBytes = NoBytes
    NoFile = NoFile
    NoTask = NoTask
    Callers = {c1, c2}
    Profiles <- MCProfiles
    TenantTypes = {"AGENCY", "PLATFORM"}
    Reports <- MCReports
    ReportBound = 3
    ReviewBound = 2
    FaultBound = 1
    NoCall = NoCall
SYMMETRY Symmetry
INVARIANTS
    TypeOK
    ReadsFresh
    DeliveriesOnRecord
    FilesAccounted
    ReviewSound
CHECK_DEADLOCK FALSE
