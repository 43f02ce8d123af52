SPECIFICATION Spec
CONSTANTS
    t1 = t1
    t2 = t2
    r1 = r1
    r2 = r2
    System = System
    Tenants = {t1, t2}
    Requests = {r1, r2}
    Metadata <- MCMetadataSpread
    LockOf <- MCLockOf
    AppendBound = 3
INVARIANTS UntouchedChainVerifies
CHECK_DEADLOCK FALSE
