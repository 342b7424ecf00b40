SPECIFICATION ChainSpec
CONSTANTS
    t1 = t1
    t2 = t2
    t3 = t3
    Txns = {t1, t2, t3}
    Ids = {1, 2, 3, 4}
    Genesis = 0
    Nobody = Nobody
    NoEvent = NoEvent
    BatchSize = 2
    MaxTime = 2
SYMMETRY Interchangeable
INVARIANTS LinksResolve BreaksAreOutOfOrder
CHECK_DEADLOCK FALSE
