---------------------------- MODULE MCMemoryData ----------------------------
\* The processes and the regions of a process are interchangeable.
EXTENDS MemoryData, TLC

Symmetry == Permutations(Procs) \cup Permutations(Regs)
=============================================================================
