SPECIFICATION TSpec
CONSTANTS
    t1 = t1
    r1 = r1
    r2 = r2
    System = System
    Tenants = {t1}
    Requests = {r1, r2}
    Metadata <- MCMetadata
    LockOf <- MCLockApart
    AppendBound = 4
INVARIANTS TamperDetected
CHECK_DEADLOCK FALSE
