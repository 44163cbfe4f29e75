CONSTANTS
    Procs = {p1, p2}
    Regs = {r1, r2}
    Sizes = {2}
    PAGESZ = 2
    MaxPgn = 2
    MaxBrk = 4
    Offsets = {0}
    NumFrames = 2
    NumSwap = 2
    Values = {0, 1}
    Garbage = {0, 1, 2}
    NULL = NULL
SPECIFICATION NoFreeSpec
CHECK_DEADLOCK FALSE
INVARIANT ReadBack
