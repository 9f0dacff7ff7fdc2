SPECIFICATION Spec
CONSTANTS
    t1 = t1
    t2 = t2
    t3 = t3
    o1 = o1
    o2 = o2
    o3 = o3
    Threads = {t1, t2, t3}
    Objects = {o1, o2, o3}
    Sharings <- OneEachOrTwoShare
    Nobody = Nobody
INVARIANTS
    MatesExclude
PROPERTIES
    ImplementsLock
CHECK_DEADLOCK FALSE
