CONSTANTS
    p1 = p1
    p2 = p2
    p3 = p3
    p4 = p4
    Procs = {p1}
    CPUs = {c1}
    loader = loader
    Devices = {c1, loader}
    NULL = NULL
    MAX_PRIO = 2
    MAX_QUEUE_SIZE = 2
    TimeWrap = 9
    time_slot = 2
    prio <- SolePrio
    Order <- SoleOrder
    start_time <- SoleStart
    code <- SoleCode
SPECIFICATION Spec
INVARIANT NoneAbandoned
