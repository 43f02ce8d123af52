SPECIFICATION FairSpec
CONSTANTS
    t1 = t1
    t2 = t2
    r1 = r1
    r2 = r2
    System = System
    Tenants = {t1, t2}
    Requests = {r1, r2}
    Metadata <- MCMetadata
    LockOf <- MCLockOf
    AppendBound = 4
INVARIANTS TypeOK ChainLinear UntouchedChainVerifies ReadStaysFresh
PROPERTIES AppendOnly ImplementsLog AppendEnds
CHECK_DEADLOCK FALSE
