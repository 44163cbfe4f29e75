---------------------------- MODULE MCFrameList ----------------------------
\* Three threads, a device of two frames, two addresses more than it has at
\* first nodes.
EXTENDS FrameList, TLC

CONSTANTS n1, n2, n3, n4

MCNodes == (0 :> n1) @@ (1 :> n2)

Symmetry == Permutations(Threads)
=============================================================================
