\* Two operators, two threads, three locals
SPECIFICATION Spec
CONSTANTS
    o1 = o1
    o2 = o2
    t1 = t1
    t2 = t2
    l1 = l1
    l2 = l2
    l3 = l3
    Handle <- MCHandle
    Block = {b1, b2}
    NULL = NULL
    WordSize = 16
    Ops = {o1, o2}
    Threads = {t1, t2}
    Locals <- MCLocals
    AutoReconnect = FALSE
    MaxCopies = 2
INVARIANTS
    CountExact
    NoUseAfterFree
    NoLeak
    MemberAlive
CHECK_DEADLOCK FALSE
