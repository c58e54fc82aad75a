CONSTANTS
    a = a
    b = b
    t1 = t1
    t2 = t2
    t3 = t3
    Threads = {t1, t2, t3}
    Values = {a, b}
    NoValue = NoValue
    Capacity = 2
    Program <- AllOps
SPECIFICATION Spec
INVARIANTS RingInv PushWakeups
PROPERTY ImplementsFifo
CHECK_DEADLOCK TRUE
