CONSTANTS
    Regs = {r1, r2, r3}
    Sizes = {1, 2, 3}
    PAGESZ = 2
    MaxBrk = 8
SPECIFICATION ASSpec
CHECK_DEADLOCK FALSE
INVARIANTS ASTypeOK RegionsDisjoint
PROPERTIES GrowthServes FreeReturnsBytes
