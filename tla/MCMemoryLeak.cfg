CONSTANTS
    Procs = {p1, p2}
    Regs = {r1, r2}
    Sizes = {1, 3}
    PAGESZ = 2
    MaxPgn = 2
    MaxBrk = 4
    Offsets = {}
    NumFrames = 2
    NumSwap = 2
    Values = {0}
    Garbage = {0}
    NULL = NULL
    Self = p1
SPECIFICATION AllocFreeSpec
CHECK_DEADLOCK FALSE
INVARIANT NoFrameLeaks
