CONSTANTS
    a = a
    b = b
    t1 = t1
    t2 = t2
    t3 = t3
    Threads = {t1, t2, t3}
    Values = {a}
    NoValue = NoValue
    Capacity = 2
    Program <- Bridge
SPECIFICATION FairSpec
INVARIANT PopWakeups
PROPERTY PopBlocksOnlyUntilPush
CHECK_DEADLOCK TRUE
