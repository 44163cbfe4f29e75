CONSTANTS
    p1 = p1
    p2 = p2
    p3 = p3
    p4 = p4
    Procs = {p1, p2, p3, p4}
    CPUs = {c1, c2}
    MAX_PRIO = 3
    MAX_QUEUE_SIZE = 2
    prio <- MCPrio
    NULL = NULL
SPECIFICATION OvertakingSpec
INVARIANTS
    SchedTypeOK
    QueuesSound
    OnePlace
    QuotaRespected
    NothingLost
    BoundedOvertaking
PROPERTIES
    NullOnlyOnSpentQuota
    NoStarvation
CHECK_DEADLOCK FALSE
