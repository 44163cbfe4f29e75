CONSTANTS
    p1 = p1
    p2 = p2
    p3 = p3
    Procs = {p1, p2, p3}
    CPUs = {c1, c2}
    loader = loader
    MAX_PRIO = 3
    MAX_QUEUE_SIZE = 2
    prio <- MCPrio
    NULL = NULL
SPECIFICATION Spec
INVARIANT LockedInv
PROPERTIES
    ImplementsMLQScheduler
    LockReleased
