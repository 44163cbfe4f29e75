------------------------------- MODULE Memory -------------------------------
(***************************************************************************)
(* The paged memory of src/libmem.c, src/mm-vm.c, src/mm.c and             *)
(* src/mm-memphy.c: per process the address space and the page table, and, *)
(* shared by all, the RAM and the active swap device with their lists of   *)
(* free frames.                                                            *)
(*                                                                         *)
(* __alloc holds mmvm_lock; __free, __read and __write take no lock.  An   *)
(* allocation that needs new pages is therefore cut at every page          *)
(* alloc_pages_range obtains (request), so that the other processes' calls *)
(* come in between; every other call is one step.  Two calls that change   *)
(* a free list at the same instant are not modelled.                       *)
(*                                                                         *)
(* __sys_memmap returns 0 whatever the operation it dispatches to returns: *)
(* the tests of syscall(...) < 0 in libmem.c never succeed.                *)
(***************************************************************************)
EXTENDS VmRegions, FiniteSets, Functions

CONSTANTS Procs,        \* processes (struct pcb_t with its mm_struct)
          Regs, Sizes, PAGESZ, MaxBrk,   \* as in AddressSpace
          Offsets,      \* the offsets programs read and write at
          MaxPgn,       \* PAGING_MAX_PGN
          NumFrames,    \* frames of RAM
          NumSwap,      \* frames of the swap device
          Values,       \* what a byte can hold; 0 is one of them
          Garbage,      \* frame numbers an uninitialised PTE fpn field may show
          NULL

\* A page table entry holds either a frame number, in its bits 0 to 12, or a
\* swap offset, in its bits 5 to 25.
FpnRange == 8192
SwpShift == 32
SwpRange == 256 * FpnRange

\* An allocation between two pages that alloc_pages_range obtains.
Requests == [proc : Procs, reg : Regs, size : Sizes, old_end : Nat, pages : Nat, frames : Seq(Nat)]

\* With a single frame, MEMPHY_format leaves the list of free frames without
\* an end (mm-memphy.c:138).
ASSUME MemoryAssumption ==
    /\ Sizes \subseteq Nat \ {0}
    /\ PAGESZ \in Nat \ {0} /\ MaxPgn \in Nat \ {0}
    /\ MaxBrk = MaxPgn * PAGESZ
    /\ Offsets \subseteq Nat
    /\ NumFrames \in Nat \ {0, 1} /\ NumSwap \in Nat \ {0, 1}
    /\ 0 \in Values
    /\ Garbage # {} /\ Garbage \subseteq 0 .. (FpnRange - 1)
    /\ NULL \notin Procs \cup Requests

VARIABLES vm_freerg_list, symrgtbl, vm_end,   \* per process, as in AddressSpace
          pgd,        \* per process, the page table
          fifo_pgn,   \* per process, the mapped pages, newest first
          ram, swp,   \* contents: frame number -> offset -> value
          free_ram, free_swp,   \* the devices' free_fp_list, head first
          request     \* the allocation that holds mmvm_lock, or NULL

spaceVars == <<vm_freerg_list, symrgtbl, vm_end>>
pageVars == <<pgd, fifo_pgn>>
devVars == <<ram, swp, free_ram, free_swp>>
vars == <<spaceVars, pageVars, devVars, request>>

Pages == 0 .. (MaxPgn - 1)
PageContents == [0 .. (PAGESZ - 1) -> Values]

-----------------------------------------------------------------------------
(* Page table entries (mm.h, mm.c)                                         *)

NoPage == [present |-> FALSE, swapped |-> FALSE, low |-> 0]

FPN(pte) == pte.low % FpnRange     \* PAGING_PTE_FPN
SWP(pte) == pte.low \div SwpShift  \* PAGING_PTE_SWP

\* The bits above the frame number keep their value; a frame number or a swap
\* offset too large for its field is cut off (SETVAL).
pte_set_fpn(pte, fpn) ==
    [present |-> TRUE, swapped |-> FALSE, low |-> (pte.low - FPN(pte)) + (fpn % FpnRange)]

\* A page in swap is marked present, as one in RAM.
pte_set_swap(pte, off) ==
    [present |-> TRUE, swapped |-> TRUE, low |-> (off % SwpRange) * SwpShift]

PGN(addr) == (addr \div PAGESZ) % MaxPgn   \* PAGING_PGN: the bits above are masked
OFFST(addr) == addr % PAGESZ

-----------------------------------------------------------------------------
(* Devices (mm-memphy.c)                                                   *)

\* MEMPHY_write refuses an address outside the device.
Store(dev, f, off, v) == IF f \in DOMAIN dev THEN [dev EXCEPT ![f][off] = v] ELSE dev

\* __swap_cp_page: what dst may become.  Where MEMPHY_read refuses the
\* address, an uninitialised byte is written.
CopyPage(src, f, dst, g) ==
    LET contents == IF f \in DOMAIN src THEN {src[f]} ELSE PageContents IN
    IF g \in DOMAIN dst THEN {[dst EXCEPT ![g] = c] : c \in contents} ELSE {dst}

\* MEMPHY_format
AllFrames(n) == [k \in 1 .. n |-> k - 1]

\* Variant: the frame stays in the list.
StillListed(list) == list

\* MEMPHY_get_freefp hands out the head and leaves the rest.
MEMPHY_get_freefp(list) == Tail(list)

\* Variant: the frames take the place of the head.
PutOverHead(list, frames) ==
    IF list = <<>> \/ frames = <<>> THEN Reverse(frames) \o list ELSE Reverse(frames) \o Tail(list)

\* MEMPHY_put_freefp, for each frame in turn; the last one is listed first.
PutFrames(list, frames) == Reverse(frames) \o list

-----------------------------------------------------------------------------
Init ==
    /\ vm_freerg_list = [p \in Procs |-> <<Region(0, 0)>>]
    /\ symrgtbl = [p \in Procs |-> [r \in Regs |-> Region(0, 0)]]
    /\ vm_end = [p \in Procs |-> 0]
    /\ pgd = [p \in Procs |-> [n \in Pages |-> NoPage]]
    /\ fifo_pgn = [p \in Procs |-> <<>>]
    /\ ram = [f \in 0 .. (NumFrames - 1) |-> [o \in 0 .. (PAGESZ - 1) |-> 0]]
    /\ swp = [f \in 0 .. (NumSwap - 1) |-> [o \in 0 .. (PAGESZ - 1) |-> 0]]
    /\ free_ram = AllFrames(NumFrames)
    /\ free_swp = AllFrames(NumSwap)
    /\ request = NULL

\* A process runs one instruction at a time.
Idle(p) == request # NULL => request.proc # p

AlignUp(size) == ((size + PAGESZ - 1) \div PAGESZ) * PAGESZ

-----------------------------------------------------------------------------
(* __alloc                                                                 *)

\* The end of __alloc: region r gets the first free region that is large
\* enough for it.
Take(p, r, list, size) ==
    /\ symrgtbl' = [symrgtbl EXCEPT ![p][r] = TakenRegion(list, size)]
    /\ vm_freerg_list' = [vm_freerg_list EXCEPT ![p] = AfterTaking(list, size)]

AllocReuse(p, r, size) ==
    /\ request = NULL
    /\ Fits(vm_freerg_list[p], size) # {}
    /\ Take(p, r, vm_freerg_list[p], size)
    /\ UNCHANGED <<vm_end, pageVars, devVars, request>>

\* The pages that count against RAM in alloc_pages_range, those in swap
\* included.
UsedFrames(p) == Cardinality({n \in Pages : pgd[p][n].present})

\* inc_vma_limit moves the break and calls vm_map_ram; when the overlap
\* check or the size checks of alloc_pages_range refuse, __alloc changes
\* nothing.
AllocGrow(p, r, size) ==
    LET inc == AlignUp(size)
        pages == inc \div PAGESZ
    IN
    /\ request = NULL
    /\ Fits(vm_freerg_list[p], size) = {}
    /\ ~ Overlaps(vm_freerg_list[p], Region(vm_end[p], vm_end[p] + inc))
    /\ pages <= NumFrames
    /\ UsedFrames(p) + pages <= NumFrames
    /\ vm_end[p] + inc <= MaxBrk
    /\ vm_end' = [vm_end EXCEPT ![p] = @ + inc]
    /\ request' = [proc |-> p, reg |-> r, size |-> size, old_end |-> vm_end[p],
                   pages |-> pages, frames |-> <<>>]
    /\ UNCHANGED <<vm_freerg_list, symrgtbl, pageVars, devVars>>

\* alloc_pages_range obtains one more page of the request.
\* Variant: one page too many.
RequestedOneMore == request # NULL /\ Len(request.frames) <= request.pages
Requested == request # NULL /\ Len(request.frames) < request.pages
Obtain(fpn) == request' = [request EXCEPT !.frames = <<fpn>> \o @]

TakeFrame ==
    /\ Requested
    /\ free_ram # <<>>
    /\ Obtain(Head(free_ram))
    /\ free_ram' = MEMPHY_get_freefp(free_ram)
    /\ UNCHANGED <<spaceVars, pageVars, ram, swp, free_swp>>

\* find_victim_page: the oldest page leaves the list.
Victim(p) == Last(fifo_pgn[p])
WithoutVictim(p) == [fifo_pgn EXCEPT ![p] = Front(@)]

\* No frame is free: the victim's page goes to swap, but the request's new
\* framephy_struct is never told its frame.
TakeVictim ==
    LET p == request.proc IN
    /\ Requested
    /\ free_ram = <<>> /\ fifo_pgn[p] # <<>> /\ free_swp # <<>>
    /\ swp' \in CopyPage(ram, FPN(pgd[p][Victim(p)]), swp, Head(free_swp))
    /\ pgd' = [pgd EXCEPT ![p][Victim(p)] = pte_set_swap(@, Head(free_swp))]
    /\ fifo_pgn' = WithoutVictim(p)
    /\ free_swp' = MEMPHY_get_freefp(free_swp)
    /\ \E fpn \in Garbage : Obtain(fpn)
    /\ UNCHANGED <<spaceVars, ram, free_ram>>

\* Variant: a full swap device is not noticed.
NoVictim(p) == fifo_pgn[p] = <<>>
CannotSwap(p) == fifo_pgn[p] = <<>> \/ free_swp = <<>>

\* Variant: the break is not put back.
BreakStays == vm_end
BreakRestored == [vm_end EXCEPT ![request.proc] = request.old_end]

\* Nor is there a victim, or room for it in swap: the allocation fails, the
\* break returns, and the frames already obtained are forgotten.
OutOfMemory ==
    LET p == request.proc IN
    /\ Requested
    /\ free_ram = <<>> /\ CannotSwap(p)
    /\ fifo_pgn' = IF fifo_pgn[p] = <<>> THEN fifo_pgn ELSE WithoutVictim(p)
    /\ vm_end' = BreakRestored
    /\ request' = NULL
    /\ UNCHANGED <<vm_freerg_list, symrgtbl, pgd, devVars>>

\* vmap_page_range gives the first page the frame obtained last.
Mapped(p, first, frames) ==
    [n \in Pages |-> IF n - first \in 0 .. (Len(frames) - 1)
                     THEN pte_set_fpn(pgd[p][n], frames[n - first + 1])
                     ELSE pgd[p][n]]

\* Variant: the last page is not enlisted.
AllButLast(first, count) == [k \in 1 .. (count - 1) |-> first + count - 1 - k]

\* The pages first, first + 1, ... as enlist_pgn_node leaves them.
NewestFirst(first, count) == [k \in 1 .. count |-> first + count - k]

FinishGrowth ==
    LET p == request.proc
        first == PGN(request.old_end)
        grown == enlist_vm_rg_node(vm_freerg_list[p],
                     Region(request.old_end, request.old_end + request.pages * PAGESZ))
    IN
    /\ request # NULL /\ Len(request.frames) = request.pages
    /\ pgd' = [pgd EXCEPT ![p] = Mapped(p, first, request.frames)]
    /\ fifo_pgn' = [fifo_pgn EXCEPT ![p] = NewestFirst(first, request.pages) \o @]
    /\ Take(p, request.reg, grown, request.size)
    /\ request' = NULL
    /\ UNCHANGED <<vm_end, devVars>>

-----------------------------------------------------------------------------
(* __free                                                                  *)

\* Variant: to the page of the end, which is outside.
FreedPagesToEnd(p, rg) == {n \in PGN(rg.start) .. PGN(rg.end) : pgd[p][n].present}

\* From the page of the first address to the page of the last one.  For the
\* (0, 0) of a region never allocated the last address wraps around.
FreedPages(p, rg) == {n \in PGN(rg.start) .. PGN(rg.end - 1) : pgd[p][n].present}

Ascending(pages) ==
    CHOOSE order \in [1 .. Cardinality(pages) -> pages] :
        \A j, k \in DOMAIN order : j < k => order[j] < order[k]

FramesFreed(p, pages) ==
    LET order == Ascending(pages) IN [k \in DOMAIN order |-> FPN(pgd[p][order[k]])]

\* The pages are unmapped whether or not enlist_vm_freerg_list then takes the
\* region; they stay in fifo_pgn.
Free(p, r) ==
    LET rg == symrgtbl[p][r]
        pages == FreedPages(p, rg)
    IN
    /\ Idle(p)
    /\ rg.start # -1
    /\ free_ram' = PutFrames(free_ram, FramesFreed(p, pages))
    /\ pgd' = [pgd EXCEPT ![p] = [n \in Pages |-> IF n \in pages THEN NoPage ELSE @[n]]]
    /\ IF rg.start >= rg.end
       THEN UNCHANGED <<vm_freerg_list, symrgtbl>>
       ELSE /\ vm_freerg_list' = [vm_freerg_list EXCEPT ![p] = enlist_vm_freerg_list(@, rg)]
            /\ symrgtbl' = [symrgtbl EXCEPT ![p][r] = Freed]
    /\ UNCHANGED <<vm_end, fifo_pgn, ram, swp, free_swp, request>>

-----------------------------------------------------------------------------
(* __read and __write                                                      *)

\* pg_getpage for a page that is not present: the oldest page goes to swap,
\* and the page takes over its frame.  The second copy reads RAM and writes
\* the swap device, as the first one.
ReplacePage(p, n) ==
    LET victim == Victim(p)
        vicfpn == FPN(pgd[p][victim])
        tgtfpn == SWP(pgd[p][n])
        swpfpn == Head(free_swp)
        evicted == [pgd[p] EXCEPT ![victim] = pte_set_swap(@, swpfpn)]
    IN
    /\ fifo_pgn[p] # <<>> /\ free_swp # <<>>
    /\ \E out \in CopyPage(ram, vicfpn, swp, swpfpn) : swp' \in CopyPage(ram, tgtfpn, out, vicfpn)
    /\ pgd' = [pgd EXCEPT ![p] = [evicted EXCEPT ![n] = pte_set_fpn(@, vicfpn)]]
    /\ fifo_pgn' = [fifo_pgn EXCEPT ![p] = <<n>> \o Front(@)]
    /\ free_swp' = MEMPHY_get_freefp(free_swp)

\* Without a victim pg_getpage gives up at once; without a free swap frame
\* it does so after the victim has left fifo_pgn.
pg_getpage(p, n) ==
    \/ /\ pgd[p][n].present \/ fifo_pgn[p] = <<>>
       /\ UNCHANGED <<pageVars, swp, free_swp>>
    \/ /\ ~ pgd[p][n].present /\ fifo_pgn[p] # <<>> /\ free_swp = <<>>
       /\ fifo_pgn' = WithoutVictim(p)
       /\ UNCHANGED <<pgd, swp, free_swp>>
    \/ ~ pgd[p][n].present /\ ReplacePage(p, n)

\* No access is checked against the end of the region; that of a freed
\* region starts at -1.
Address(p, r, off) == symrgtbl[p][r].start + off

Read(p, r, off) ==
    /\ Idle(p)
    /\ pg_getpage(p, PGN(Address(p, r, off)))
    /\ UNCHANGED <<spaceVars, ram, free_ram, request>>

\* pg_getpage has failed when the page is still not present.
Write(p, r, off, v) ==
    LET addr == Address(p, r, off)
        pte == pgd'[p][PGN(addr)]
    IN
    /\ Idle(p)
    /\ pg_getpage(p, PGN(addr))
    /\ ram' = IF pte.present THEN Store(ram, FPN(pte), OFFST(addr), v) ELSE ram
    /\ UNCHANGED <<spaceVars, free_ram, request>>

-----------------------------------------------------------------------------
(* Specifications.  Spec is the program with any input; the others         *)
(* restrict what the simulated programs do, as their comments say.         *)

Alloc == \E p \in Procs, r \in Regs, size \in Sizes : AllocReuse(p, r, size) \/ AllocGrow(p, r, size)
Release == \E p \in Procs, r \in Regs : Free(p, r)
Growth == TakeFrame \/ TakeVictim \/ OutOfMemory \/ FinishGrowth

Next ==
    \/ Alloc
    \/ Growth
    \/ Release
    \/ \E p \in Procs, r \in Regs, off \in Offsets :
          Read(p, r, off) \/ \E v \in Values : Write(p, r, off, v)

\* The thread that holds mmvm_lock runs on.
Spec == Init /\ [][Next]_vars /\ WF_vars(Growth)

\* Programs that never read or write.
AllocFreeSpec == Init /\ [][Alloc \/ Growth \/ Release]_vars

-----------------------------------------------------------------------------
(* Correctness                                                             *)

Ptes == [present : BOOLEAN, swapped : BOOLEAN, low : 0 .. (SwpRange * SwpShift - 1)]

TypeOK ==
    /\ pgd \in [Procs -> [Pages -> Ptes]]
    /\ \A p \in Procs : Range(fifo_pgn[p]) \subseteq Pages
    /\ ram \in [0 .. (NumFrames - 1) -> PageContents]
    /\ swp \in [0 .. (NumSwap - 1) -> PageContents]
    /\ Range(free_ram) \subseteq 0 .. (NumFrames - 1) \cup 0 .. (FpnRange - 1)
    /\ Range(free_swp) \subseteq 0 .. (NumSwap - 1)
    /\ request # NULL => Len(request.frames) \in 0 .. request.pages

\* An allocation that holds mmvm_lock gets its pages or gives up, however
\* many frames, victims and swap frames are left and whatever the other
\* processes free or access meanwhile.
AllocationEnds == request # NULL ~> request = NULL

\* Where a frame is: how often it is listed as free, mapped by a page that is
\* not in swap, and held by the allocation under way.
Listed(f) == Cardinality({k \in DOMAIN free_ram : free_ram[k] = f})
InRam(p, n) == pgd[p][n].present /\ ~ pgd[p][n].swapped
MappedBy(f) == {pn \in Procs \X Pages :
                  InRam(pn[1], pn[2]) /\ FPN(pgd[pn[1]][pn[2]]) = f}
HeldBack(f) ==
    IF request = NULL THEN 0
    ELSE Cardinality({k \in DOMAIN request.frames : request.frames[k] = f})
Places(f) == Listed(f) + Cardinality(MappedBy(f)) + HeldBack(f)

\* While the swap device has a free frame, every page of a process that is in
\* RAM can still be chosen as a victim: it is in fifo_pgn.
TrackedWhileSwapLasts ==
    free_swp # <<>> =>
        \A p \in Procs, n \in Pages : InRam(p, n) => n \in Range(fifo_pgn[p])

\* No frame is lost and none serves two pages: each is free, mapped by one
\* page of one process, or on its way to one.
FramesConserved == \A f \in 0 .. (NumFrames - 1) : Places(f) = 1

\* Whatever the programs do, a step that loses a frame or lets it serve two
\* pages is one of these: the swapping of alloc_pages_range and its failure,
\* growth over a page that the process has accessed beyond its break, the
\* choice of a victim that is not in RAM, and the freeing of a page in swap.
GrowsOverPage ==
    /\ FinishGrowth
    /\ \E n \in Pages : /\ n - PGN(request.old_end) \in 0 .. (request.pages - 1)
                      /\ pgd[request.proc][n].present
EvictsNothing ==
    \E p \in Procs, n \in Pages : ReplacePage(p, n) /\ ~ InRam(p, Victim(p))
FreesSwapped ==
    \E p \in Procs, r \in Regs :
        Free(p, r) /\ \E n \in FreedPages(p, symrgtbl[p][r]) : pgd[p][n].swapped
PlacesKept ==
    [][\/ \A f \in 0 .. (NumFrames - 1) : Places(f)' = Places(f)
       \/ TakeVictim \/ OutOfMemory \/ GrowsOverPage \/ EvictsNothing \/ FreesSwapped]_vars

\* A failed allocation gives back every frame it had obtained
\* (mm.c:169, "Free all previously allocated frames to prevent memory
\* leaks").
NoFrameLeaks == \A f \in 0 .. (NumFrames - 1) : Places(f) >= 1
=============================================================================
