CONSTANTS
    p1 = p1
    p2 = p2
    p3 = p3
    p4 = p4
    Procs = {p1, p2, p3, p4}
    CPUs = {c1, c2}
    loader = loader
    Devices = {c1, c2, loader}
    NULL = NULL
    MAX_PRIO = 3
    MAX_QUEUE_SIZE = 2
    TimeWrap = 9
    time_slot = 2
    prio <- MCPrio
    Order <- MCOrder
    start_time <- MCStart
    code <- MCCode
SPECIFICATION FairSpec
INVARIANTS
    TypeOK
    WholeSlices
    AbandonedShareLevel
PROPERTIES
    UsesScheduler
    OneInstructionPerSlot
    QueuedFinishes
    ClockAdvances
    BusyCPUStops
