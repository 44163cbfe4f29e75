---------------------------- MODULE MemoryData ----------------------------
(***************************************************************************)
(* The paged memory with a history of what the programs wrote, to say that *)
(* a program reads its own data back.  The programs access only addresses  *)
(* of regions they hold.                                                   *)
(***************************************************************************)
EXTENDS Memory

VARIABLE written   \* per process and address, what it last wrote there since
                   \* the address became part of a region it holds, or NULL

dataVars == <<vars, written>>

Addresses == 0 .. (MaxBrk - 1)

DataInit == Init /\ written = [p \in Procs |-> [a \in Addresses |-> NULL]]

Held(p) == UNION {Bytes(symrgtbl[p][r]) : r \in Regs}

WrittenKept ==
    written' = [p \in Procs |-> [a \in Addresses |->
                   IF a \in Held(p) /\ a \in Held(p)' THEN written[p][a] ELSE NULL]]

Access(p, r, off) ==
    /\ Address(p, r, off) \in Bytes(symrgtbl[p][r])
    /\ \/ Read(p, r, off) /\ UNCHANGED written
       \/ \E v \in Values :
             /\ Write(p, r, off, v)
             /\ written' = [written EXCEPT ![p][Address(p, r, off)] = v]

\* Programs that never free a region.
NoFreeNext ==
    \/ (Alloc \/ Growth) /\ WrittenKept
    \/ \E p \in Procs, r \in Regs, off \in Offsets : Access(p, r, off)

NoFreeSpec == DataInit /\ [][NoFreeNext]_dataVars

\* Programs that do, but leave alone the pages __free has unmapped.
MappedNext ==
    \/ (Alloc \/ Growth \/ Release) /\ WrittenKept
    \/ \E p \in Procs, r \in Regs, off \in Offsets :
          pgd[p][PGN(Address(p, r, off))].present /\ Access(p, r, off)

MappedSpec == DataInit /\ [][MappedNext]_dataVars

\* Programs that, besides, never have more pages below their breaks, all
\* processes together, than there are frames.
PagesAsked == {pn \in Procs \X Pages : pn[2] * PAGESZ < vm_end[pn[1]]}
FitsInRam == Cardinality(PagesAsked) <= NumFrames

FittingSpec == DataInit /\ [][MappedNext /\ FitsInRam']_dataVars

\* An allocation under way never finds RAM's list empty.
RamLasts == Requested => free_ram # <<>>

\* What a program reads from a page of its own that is marked present is
\* what it wrote there last: the page table leads __read to the byte that
\* __write stored, in a frame that nobody else has written to since.
ReadBack ==
    \A p \in Procs, a \in Addresses :
        LET pte == pgd[p][PGN(a)] IN
        written[p][a] # NULL /\ pte.present =>
            FPN(pte) \in DOMAIN ram /\ ram[FPN(pte)][OFFST(a)] = written[p][a]

\* What a program wrote stays in mapped memory as long as it holds the
\* region, until it frees another region that lies in the same page, or one
\* that was never allocated (libmem.c:160).
WrittenStaysMapped ==
    [][\A p \in Procs, a \in Addresses :
          written[p][a] # NULL /\ written'[p][a] # NULL /\ pgd[p][PGN(a)].present =>
              \/ pgd'[p][PGN(a)].present
              \/ \E r \in Regs :
                    /\ Free(p, r)
                    /\ \/ symrgtbl[p][r] = Region(0, 0)
                       \/ PGN(a) \in {PGN(b) : b \in Bytes(symrgtbl[p][r])}]_dataVars
=============================================================================
