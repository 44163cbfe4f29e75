CONSTANTS
    Procs = {p1, p2}
    Regs = {r1}
    Sizes = {1, 3}
    PAGESZ = 2
    MaxPgn = 2
    MaxBrk = 4
    Offsets = {0}
    NumFrames = 2
    NumSwap = 2
    Values = {0}
    Garbage = {0, 2}
    NULL = NULL
    Self = p1
SPECIFICATION Spec
INVARIANTS TypeOK TrackedWhileSwapLasts
PROPERTIES PlacesKept ImplementsAddressSpace AllocationEnds
