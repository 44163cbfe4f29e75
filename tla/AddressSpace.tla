---------------------------- MODULE AddressSpace ----------------------------
(***************************************************************************)
(* The virtual address space of one process: what __alloc and __free of    *)
(* src/libmem.c promise about it, with physical memory left out.  Whether  *)
(* an allocation that needs new pages gets them is not decided here: when  *)
(* it does not, nothing of this state changes.                             *)
(*                                                                         *)
(* vma->sbrk always equals vma->vm_end, so that one variable stands for    *)
(* both.                                                                   *)
(***************************************************************************)
EXTENDS VmRegions

CONSTANTS Regs,     \* region IDs, the indices of symrgtbl
          Sizes,    \* the sizes programs ask for
          PAGESZ,   \* PAGING_PAGESZ
          MaxBrk    \* bound: the break stays at or below this address

ASSUME AddressSpaceAssumption ==
    /\ Sizes \subseteq Nat \ {0}
    /\ PAGESZ \in Nat \ {0}
    /\ MaxBrk \in Nat

VARIABLES vm_freerg_list,   \* vma->vm_freerg_list
          symrgtbl,         \* mm->symrgtbl
          vm_end            \* vma->vm_end and vma->sbrk

asVars == <<vm_freerg_list, symrgtbl, vm_end>>

Regions == [start : -1 .. MaxBrk, end : -1 .. MaxBrk]

ASTypeOK ==
    /\ vm_freerg_list \in Seq(Regions)
    /\ symrgtbl \in [Regs -> Regions]
    /\ vm_end \in 0 .. MaxBrk

\* init_mm: one empty region; the symbol table is all zero.
ASInit ==
    /\ vm_freerg_list = <<Region(0, 0)>>
    /\ symrgtbl = [r \in Regs |-> Region(0, 0)]
    /\ vm_end = 0

\* Variant: rounds down.
AlignDown(size) == (size \div PAGESZ) * PAGESZ

\* PAGING_PAGE_ALIGNSZ
AlignUp(size) == ((size + PAGESZ - 1) \div PAGESZ) * PAGESZ

\* The region of new pages that an allocation asks for.
NewPages(size) == Region(vm_end, vm_end + AlignUp(size))

BreakAfter(size) == NewPages(size).end

-----------------------------------------------------------------------------
(* __alloc                                                                 *)

\* A free region is large enough.
Reuse(r, size) ==
    /\ Fits(vm_freerg_list, size) # {}
    /\ symrgtbl' = [symrgtbl EXCEPT ![r] = TakenRegion(vm_freerg_list, size)]
    /\ vm_freerg_list' = AfterTaking(vm_freerg_list, size)
    /\ UNCHANGED vm_end

\* None is: inc_vma_limit puts new pages at the head of the list, and
\* get_free_vmrg_area is asked once more.
Grow(r, size) ==
    LET grown == enlist_vm_rg_node(vm_freerg_list, NewPages(size)) IN
    /\ Fits(vm_freerg_list, size) = {}
    /\ ~ Overlaps(vm_freerg_list, NewPages(size))
    /\ NewPages(size).end <= MaxBrk
    /\ vm_end' = BreakAfter(size)
    /\ IF Fits(grown, size) # {}
       THEN /\ symrgtbl' = [symrgtbl EXCEPT ![r] = TakenRegion(grown, size)]
            /\ vm_freerg_list' = AfterTaking(grown, size)
       ELSE /\ vm_freerg_list' = grown
            /\ UNCHANGED symrgtbl

(* __free                                                                  *)

\* A region never allocated is (0, 0): enlist_vm_freerg_list refuses it.
Free(r) ==
    /\ symrgtbl[r].start # -1
    /\ symrgtbl[r].start < symrgtbl[r].end
    /\ vm_freerg_list' = enlist_vm_freerg_list(vm_freerg_list, symrgtbl[r])
    /\ symrgtbl' = [symrgtbl EXCEPT ![r] = Freed]
    /\ UNCHANGED vm_end

ASNext == \E r \in Regs : Free(r) \/ \E size \in Sizes : Reuse(r, size) \/ Grow(r, size)

ASSpec == ASInit /\ [][ASNext]_asVars

-----------------------------------------------------------------------------
(* Correctness                                                             *)

\* No address belongs to two regions, whether both are free, both are held
\* by the program or one is free and one is held, and every region lies
\* below the break.
RegionsDisjoint ==
    /\ \A j, k \in DOMAIN vm_freerg_list :
          j # k => Bytes(vm_freerg_list[j]) \cap Bytes(vm_freerg_list[k]) = {}
    /\ \A r, s \in Regs : r # s => Bytes(symrgtbl[r]) \cap Bytes(symrgtbl[s]) = {}
    /\ \A r \in Regs : Bytes(symrgtbl[r]) \cap ListBytes(vm_freerg_list) = {}
    /\ ListBytes(vm_freerg_list) \cup UNION {Bytes(symrgtbl[r]) : r \in Regs}
          \subseteq 0 .. (vm_end - 1)

\* When new pages were obtained the second search of __alloc succeeds, and
\* the program gets the beginning of these pages.
GrowthServes ==
    [][\A r \in Regs, size \in Sizes :
          Grow(r, size) => symrgtbl'[r] = Region(vm_end, vm_end + size)]_asVars

\* Freeing a region makes exactly its addresses free, whatever merging
\* enlist_vm_freerg_list does.
FreeReturnsBytes ==
    [][\A r \in Regs :
          Free(r) => ListBytes(vm_freerg_list') = ListBytes(vm_freerg_list) \cup Bytes(symrgtbl[r])]_asVars
=============================================================================
