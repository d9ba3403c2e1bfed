SPECIFICATION Spec
CONSTANTS
    c1 = c1
    c2 = c2
    t1 = t1
    t2 = t2
    Callers <- MCCallers
    Txs <- MCTxs
    Ttl = 2
    Limit = 1
    MaxTime = 3
    MaxCalls = 3
SYMMETRY MCSymmetry
INVARIANTS
    TypeOK
    CacheBounded
    CountersAgree
PROPERTIES
    OkStaysRefused
    RefusedOnlyAfterOk
CHECK_DEADLOCK FALSE
