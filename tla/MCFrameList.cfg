CONSTANTS
    n1 = n1
    n2 = n2
    n3 = n3
    n4 = n4
    Threads = {t1, t2, t3}
    NumFrames = 2
    Nodes = {n1, n2, n3, n4}
    FirstNode <- MCNodes
    NULL = NULL
SPECIFICATION Spec
SYMMETRY Symmetry
CHECK_DEADLOCK FALSE
INVARIANTS
    TypeOK
    NoFrameShared
PROPERTY ImplementsPool
