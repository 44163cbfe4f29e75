CONSTANTS
    Procs = {p1, p2, p3}
    Regs = {r1, r2}
    Sizes = {2, 3}
    PAGESZ = 2
    MaxPgn = 2
    MaxBrk = 4
    Offsets = {1, 2}
    NumFrames = 3
    NumSwap = 2
    Values = {0, 1}
    Garbage = {0}
    NULL = NULL
SPECIFICATION FittingSpec
SYMMETRY Symmetry
CHECK_DEADLOCK FALSE
INVARIANTS FramesConserved ReadBack
PROPERTY WrittenStaysMapped
