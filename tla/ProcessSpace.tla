---------------------------- MODULE ProcessSpace ----------------------------
(***************************************************************************)
(* What one process, Self, sees of Memory: an address space of its own.    *)
(***************************************************************************)
EXTENDS Memory

CONSTANT Self

ASSUME SelfAssumption == Self \in Procs

\* While an allocation is under way the break is already moved.
OldBreak == IF request # NULL /\ request.proc = Self THEN request.old_end ELSE vm_end[Self]

AS == INSTANCE AddressSpace WITH
         vm_freerg_list <- vm_freerg_list[Self],
         symrgtbl <- symrgtbl[Self],
         vm_end <- OldBreak

\* Whatever the programs do, and whatever becomes of their pages, the
\* regions of every process are those of an address space of its own: an
\* allocation that runs out of memory half-way leaves no trace there.
ImplementsAddressSpace == AS!ASInit /\ [][AS!ASNext \/ UNCHANGED AS!asVars]_vars
=============================================================================
