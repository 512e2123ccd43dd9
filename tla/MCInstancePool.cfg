SPECIFICATION Spec
CONSTANTS
    t1 = t1
    t2 = t2
    m1 = m1
    m2 = m2
    m3 = m3
    Threads <- MCThreads
    Names <- MCNames
    capacity = 2
    MaxAccess = 3
    MaxOverlaps = 1
    Sizes = {1, 2}
    MaxCreated = 2
INVARIANTS
    HandlesExclusive
    CacheSound
PROPERTIES
    PoolAccounts
SYMMETRY Symmetry
CHECK_DEADLOCK FALSE
