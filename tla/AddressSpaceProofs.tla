------------------------- MODULE AddressSpaceProofs -------------------------
(***************************************************************************)
(* Proofs about AddressSpace, for any set of region IDs, any sizes, any    *)
(* page size and any bound on the break.                                   *)
(***************************************************************************)
EXTENDS AddressSpace, VmRegionsProofs

-----------------------------------------------------------------------------
(* The invariant                                                           *)

\* RegionsDisjoint alone is not inductive: merging with a region that ends
\* before it starts would set addresses free that the program holds.
ASInv == ASTypeOK /\ WellFormed(vm_freerg_list) /\ RegionsDisjoint

LEMMA RegionsBounded == Regions = RegionsUpTo(MaxBrk) /\ MaxBrk \in Nat
  BY AddressSpaceAssumption DEF Regions, RegionsUpTo

\* RegionsDisjoint, in terms of the operators above.
LEMMA DisjointParts ==
    RegionsDisjoint <=>
        /\ Apart(vm_freerg_list)
        /\ \A r, s \in Regs : r # s => Bytes(symrgtbl[r]) \cap Bytes(symrgtbl[s]) = {}
        /\ \A r \in Regs : Bytes(symrgtbl[r]) \cap ListBytes(vm_freerg_list) = {}
        /\ ListBytes(vm_freerg_list) \subseteq 0 .. (vm_end - 1)
        /\ \A r \in Regs : Bytes(symrgtbl[r]) \subseteq 0 .. (vm_end - 1)
  BY DEF RegionsDisjoint, Apart

LEMMA AlignUpCovers ==
    ASSUME NEW size \in Sizes
    PROVE  AlignUp(size) \in Nat /\ size <= AlignUp(size) /\ size \in Nat \ {0}
  BY AddressSpaceAssumption DEF AlignUp

LEMMA BreakMoves ==
    \A a, b \in Int : 0 <= a /\ a <= b =>
        0 .. (a - 1) \subseteq 0 .. (b - 1) /\ a .. (b - 1) \subseteq 0 .. (b - 1)
  OBVIOUS

\* Held is given up, and free is what the list becomes: one region of the
\* symbol table changes together with the list.
LEMMA MoveBytes ==
    ASSUME ASInv, NEW r \in Regs, NEW rg \in Regions, NEW list \in Seq(Regions),
           WellFormed(list), Apart(list),
           symrgtbl' = [symrgtbl EXCEPT ![r] = rg], vm_freerg_list' = list,
           vm_end' \in vm_end .. MaxBrk,
           Bytes(rg) \cap ListBytes(list) = {},
           Bytes(rg) \cup ListBytes(list) \subseteq
               ListBytes(vm_freerg_list) \cup Bytes(symrgtbl[r]) \cup (vm_end .. (vm_end' - 1))
    PROVE  ASInv'
  <1>0. vm_end \in 0 .. MaxBrk /\ vm_end \in Int /\ 0 <= vm_end /\ vm_end' \in Int /\ vm_end <= vm_end'
        /\ vm_end' \in 0 .. MaxBrk
    BY AddressSpaceAssumption DEF ASInv, ASTypeOK
  <1>1. ASTypeOK'
    BY <1>0 DEF ASInv, ASTypeOK
  <1>2. /\ symrgtbl'[r] = rg
        /\ \A s \in Regs : s # r => symrgtbl'[s] = symrgtbl[s]
    BY DEF ASInv, ASTypeOK
  <1>3. /\ \A s, t \in Regs : s # t => Bytes(symrgtbl[s]) \cap Bytes(symrgtbl[t]) = {}
        /\ \A s \in Regs : Bytes(symrgtbl[s]) \cap ListBytes(vm_freerg_list) = {}
        /\ ListBytes(vm_freerg_list) \subseteq 0 .. (vm_end - 1)
        /\ \A s \in Regs : Bytes(symrgtbl[s]) \subseteq 0 .. (vm_end - 1)
    BY DisjointParts DEF ASInv
  <1>4. \A x \in vm_end .. (vm_end' - 1) : x \notin 0 .. (vm_end - 1)
    BY <1>0
  <1>5. ASSUME NEW s \in Regs, s # r
        PROVE  Bytes(symrgtbl[s]) \cap (Bytes(rg) \cup ListBytes(list)) = {}
    <2>1. ASSUME NEW x, x \in Bytes(symrgtbl[s])
          PROVE  /\ x \notin ListBytes(vm_freerg_list) /\ x \notin Bytes(symrgtbl[r])
                 /\ x \notin vm_end .. (vm_end' - 1)
      BY <1>3, <1>4, <1>5, <2>1
    <2> QED
      BY <2>1
  <1>6. /\ 0 .. (vm_end - 1) \subseteq 0 .. (vm_end' - 1)
        /\ vm_end .. (vm_end' - 1) \subseteq 0 .. (vm_end' - 1)
    BY <1>0, BreakMoves
  <1>7. /\ Apart(list)
        /\ \A s, t \in Regs : s # t => Bytes(symrgtbl'[s]) \cap Bytes(symrgtbl'[t]) = {}
        /\ \A s \in Regs : Bytes(symrgtbl'[s]) \cap ListBytes(list) = {}
        /\ ListBytes(list) \subseteq 0 .. (vm_end' - 1)
        /\ \A s \in Regs : Bytes(symrgtbl'[s]) \subseteq 0 .. (vm_end' - 1)
    BY <1>2, <1>3, <1>5, <1>6
  <1>8. RegionsDisjoint'
    BY <1>7 DEF RegionsDisjoint, Apart
  <1> QED
    BY <1>1, <1>8 DEF ASInv

\* What __alloc returns out of a list of free regions.
LEMMA TakeBytes ==
    ASSUME ASInv, NEW r \in Regs, NEW size \in Sizes, NEW list \in Seq(Regions),
           WellFormed(list), Apart(list), Fits(list, size) # {},
           vm_end' \in vm_end .. MaxBrk,
           ListBytes(list) \subseteq ListBytes(vm_freerg_list) \cup (vm_end .. (vm_end' - 1)),
           symrgtbl' = [symrgtbl EXCEPT ![r] = TakenRegion(list, size)],
           vm_freerg_list' = AfterTaking(list, size)
    PROVE  ASInv'
  <1> DEFINE taken == TakenRegion(list, size)
             left == AfterTaking(list, size)
  <1>1. /\ taken \in Regions /\ left \in Seq(Regions) /\ WellFormed(left) /\ Apart(left)
        /\ ListBytes(left) \subseteq ListBytes(list) /\ Bytes(taken) \subseteq ListBytes(list)
        /\ Bytes(taken) \cap ListBytes(left) = {}
    BY RegionsBounded, TakingFromList, AlignUpCovers
  <1>2. symrgtbl' = [symrgtbl EXCEPT ![r] = taken] /\ vm_freerg_list' = left
    OBVIOUS
  <1> HIDE DEF taken, left
  <1>3. Bytes(taken) \cup ListBytes(left) \subseteq
            ListBytes(vm_freerg_list) \cup Bytes(symrgtbl[r]) \cup (vm_end .. (vm_end' - 1))
    BY <1>1
  <1> QED
    BY <1>1, <1>2, <1>3, MoveBytes

LEMMA InitSpace == ASInit => ASInv
  <1> SUFFICES ASSUME ASInit PROVE ASInv
    OBVIOUS
  <1>1. Region(0, 0) \in Regions /\ Bytes(Region(0, 0)) = {} /\ Region(0, 0).start = Region(0, 0).end
    BY AddressSpaceAssumption DEF Regions, Region, Bytes
  <1>2. /\ vm_freerg_list \in Seq(Regions) /\ Len(vm_freerg_list) = 1
        /\ vm_freerg_list[1] = Region(0, 0) /\ DOMAIN vm_freerg_list = {1}
    BY <1>1 DEF ASInit
  <1>3. ASTypeOK
    BY <1>1, <1>2, AddressSpaceAssumption DEF ASInit, ASTypeOK
  <1>4. WellFormed(vm_freerg_list) /\ ListBytes(vm_freerg_list) = {} /\ Apart(vm_freerg_list)
    <2>1. Region(0, 0).start <= Region(0, 0).end
      BY <1>1, RegionsBounded, RegionFacts
    <2> QED
      BY <1>1, <1>2, <2>1 DEF WellFormed, ListBytes, Apart
  <1>5. \A r \in Regs : Bytes(symrgtbl[r]) = {}
    BY <1>1 DEF ASInit
  <1>6. RegionsDisjoint
    BY <1>4, <1>5, DisjointParts
  <1> QED
    BY <1>3, <1>4, <1>6 DEF ASInv

LEMMA ReuseKeepsInv ==
    ASSUME ASInv, NEW r \in Regs, NEW size \in Sizes, Reuse(r, size)
    PROVE  ASInv'
  <1>1. /\ vm_freerg_list \in Seq(Regions) /\ WellFormed(vm_freerg_list) /\ Apart(vm_freerg_list)
        /\ vm_end \in 0 .. MaxBrk
    BY DisjointParts DEF ASInv, ASTypeOK
  <1>2. vm_end' \in vm_end .. MaxBrk
    BY <1>1, AddressSpaceAssumption DEF Reuse
  <1>3. ListBytes(vm_freerg_list) \subseteq ListBytes(vm_freerg_list) \cup (vm_end .. (vm_end' - 1))
    OBVIOUS
  <1>4. /\ Fits(vm_freerg_list, size) # {}
        /\ symrgtbl' = [symrgtbl EXCEPT ![r] = TakenRegion(vm_freerg_list, size)]
        /\ vm_freerg_list' = AfterTaking(vm_freerg_list, size)
    BY DEF Reuse
  <1> QED
    BY <1>1, <1>2, <1>3, <1>4, TakeBytes

\* The new pages are at the head of the list and large enough: the second
\* search of __alloc finds them first.
LEMMA GrowKeepsInv ==
    ASSUME ASInv, NEW r \in Regs, NEW size \in Sizes, Grow(r, size)
    PROVE  ASInv' /\ symrgtbl'[r] = Region(vm_end, vm_end + size)
  <1> DEFINE list == vm_freerg_list
             pages == NewPages(size)
             grown == enlist_vm_rg_node(list, pages)
             brk == vm_end + AlignUp(size)
  <1>1. /\ list \in Seq(Regions) /\ WellFormed(list) /\ Apart(list)
        /\ vm_end \in 0 .. MaxBrk /\ ListBytes(list) \subseteq 0 .. (vm_end - 1)
    BY DisjointParts DEF ASInv, ASTypeOK
  <1>2. /\ AlignUp(size) \in Nat /\ size <= AlignUp(size) /\ size \in Nat \ {0}
        /\ vm_end \in Int /\ 0 <= vm_end /\ brk \in Int
    BY <1>1, AlignUpCovers
  <1>3. pages.start = vm_end /\ pages.end = brk /\ vm_end' = brk /\ brk <= MaxBrk
    BY DEF Grow, BreakAfter, NewPages, Region
  <1> HIDE DEF list, pages, brk
  <1>4. brk \in vm_end .. MaxBrk /\ brk \in -1 .. MaxBrk /\ vm_end \in -1 .. MaxBrk
    BY <1>1, <1>2, <1>3, AddressSpaceAssumption DEF brk
  <1>5. pages \in Regions /\ pages.start <= pages.end
    <2>1. pages = Region(vm_end, brk)
      BY DEF pages, NewPages, brk
    <2>2. vm_end <= brk
      BY <1>2, <1>4
    <2> QED
      BY <1>3, <1>4, <2>1, <2>2, RegionsBounded, RegionFacts
  <1>6. Bytes(pages) = vm_end .. (vm_end' - 1)
    BY <1>3 DEF Bytes
  <1>7. Bytes(pages) \cap ListBytes(list) = {}
    <2>1. \A x \in vm_end .. (brk - 1) : x \notin 0 .. (vm_end - 1)
      BY <1>2
    <2> QED
      BY <1>1, <1>3, <1>6, <2>1
  <1>8. grown = InsertAt(list, 1, pages) /\ grown[1] = pages
    BY <1>1, <1>5, RegionsBounded, HeadRegion
  <1>9. 1 \in 1 .. (Len(list) + 1)
    BY <1>1, RegionsBounded, ListFacts
  <1> HIDE DEF grown
  <1>10. /\ grown \in Seq(Regions) /\ WellFormed(grown) /\ Len(grown) = Len(list) + 1
         /\ ListBytes(grown) = ListBytes(list) \cup Bytes(pages) /\ Apart(grown)
    BY <1>1, <1>5, <1>7, <1>8, <1>9, RegionsBounded, InsertRegion
  <1>11. 1 \in Fits(grown, size)
    <2>1. pages.start + size <= pages.end
      BY <1>2, <1>3 DEF brk
    <2>2. 1 \in DOMAIN grown
      BY <1>9, <1>10, RegionsBounded, ListFacts
    <2> QED
      BY <1>8, <2>1, <2>2 DEF Fits
  <1>12. FirstFit(grown, size) = 1
    <2>1. /\ FirstFit(grown, size) \in 1 .. Len(grown)
          /\ FirstFit(grown, size) <= 1
      BY <1>10, <1>11, RegionsBounded, FirstFitIsFit
    <2>2. Len(grown) \in Nat
      BY <1>10, RegionsBounded, ListFacts
    <2> QED
      BY <2>1, <2>2
  <1>13. TakenRegion(grown, size) = Region(vm_end, vm_end + size)
    BY <1>3, <1>8, <1>12 DEF TakenRegion
  <1>14. /\ symrgtbl' = [symrgtbl EXCEPT ![r] = TakenRegion(grown, size)]
         /\ vm_freerg_list' = AfterTaking(grown, size)
    BY <1>11 DEF Grow, grown, list, pages
  <1>15. symrgtbl'[r] = Region(vm_end, vm_end + size)
    BY <1>13, <1>14 DEF ASInv, ASTypeOK
  <1>16. /\ Fits(grown, size) # {} /\ vm_end' \in vm_end .. MaxBrk
         /\ ListBytes(grown) \subseteq ListBytes(vm_freerg_list) \cup (vm_end .. (vm_end' - 1))
    BY <1>3, <1>4, <1>6, <1>10, <1>11 DEF list
  <1>17. ASInv'
    BY <1>10, <1>14, <1>16, TakeBytes
  <1> QED
    BY <1>15, <1>17

LEMMA FreeKeepsInv ==
    ASSUME ASInv, NEW r \in Regs, Free(r)
    PROVE  ASInv' /\ ListBytes(vm_freerg_list') = ListBytes(vm_freerg_list) \cup Bytes(symrgtbl[r])
  <1> DEFINE list == vm_freerg_list
             rg == symrgtbl[r]
             new == enlist_vm_freerg_list(list, rg)
  <1>1. /\ list \in Seq(Regions) /\ WellFormed(list) /\ Apart(list) /\ rg \in Regions
        /\ Bytes(rg) \cap ListBytes(list) = {} /\ vm_end \in 0 .. MaxBrk
    BY DisjointParts DEF ASInv, ASTypeOK
  <1>2. rg.start <= rg.end
    BY <1>1, RegionsBounded, RegionFacts DEF Free
  <1>3. /\ new \in Seq(Regions) /\ WellFormed(new) /\ Apart(new)
        /\ ListBytes(new) = ListBytes(list) \cup Bytes(rg)
    BY <1>1, <1>2, RegionsBounded, EnlistRegion
  <1>4. Freed \in Regions /\ Bytes(Freed) = {}
    BY AddressSpaceAssumption DEF Freed, Region, Regions, Bytes
  <1>5. /\ vm_freerg_list' = new /\ symrgtbl' = [symrgtbl EXCEPT ![r] = Freed]
        /\ vm_end' = vm_end
    BY DEF Free
  <1>6. vm_end' \in vm_end .. MaxBrk
    BY <1>1, <1>5, AddressSpaceAssumption
  <1> HIDE DEF new
  <1>7. /\ Bytes(Freed) \cap ListBytes(new) = {}
        /\ Bytes(Freed) \cup ListBytes(new) \subseteq
               ListBytes(vm_freerg_list) \cup Bytes(symrgtbl[r]) \cup (vm_end .. (vm_end' - 1))
    BY <1>3, <1>4
  <1>8. ASInv'
    BY <1>3, <1>4, <1>5, <1>6, <1>7, MoveBytes
  <1> QED
    BY <1>3, <1>5, <1>8

\* The invariant of the address space.
LEMMA AddressSpaceInvariant == ASSpec => []ASInv
  <1>1. ASInv /\ [ASNext]_asVars => ASInv'
    <2> SUFFICES ASSUME ASInv, [ASNext]_asVars PROVE ASInv'
      OBVIOUS
    <2>1. ASSUME NEW r \in Regs, Free(r) PROVE ASInv'
      BY <2>1, FreeKeepsInv
    <2>2. ASSUME NEW r \in Regs, NEW size \in Sizes, Reuse(r, size) PROVE ASInv'
      BY <2>2, ReuseKeepsInv
    <2>3. ASSUME NEW r \in Regs, NEW size \in Sizes, Grow(r, size) PROVE ASInv'
      BY <2>3, GrowKeepsInv
    <2>4. CASE UNCHANGED asVars
      BY <2>4 DEF asVars, ASInv, ASTypeOK, RegionsDisjoint
    <2> QED
      BY <2>1, <2>2, <2>3, <2>4 DEF ASNext
  <1> QED
    BY InitSpace, <1>1, PTL DEF ASSpec

-----------------------------------------------------------------------------
(* Theorems                                                                *)

\* Every region, free or held, keeps its two ends between -1 and the bound
\* on the break, whatever list splits and merges __alloc and __free make.
THEOREM AddressSpaceTypeCorrect == ASSpec => []ASTypeOK
  <1>1. ASInv => ASTypeOK
    BY DEF ASInv
  <1> QED
    BY <1>1, AddressSpaceInvariant, PTL

\* No address is both held and free, held twice or free twice, and none
\* lies beyond the break.
THEOREM RegionsDisjointCorrect == ASSpec => []RegionsDisjoint
  <1>1. ASInv => RegionsDisjoint
    BY DEF ASInv
  <1> QED
    BY <1>1, AddressSpaceInvariant, PTL

\* An allocation that obtained pages does not fail in its second search, and
\* returns their beginning.
THEOREM GrowthServesCorrect == ASSpec => GrowthServes
  <1>1. ASInv /\ [ASNext]_asVars
            => [\A r \in Regs, size \in Sizes :
                    Grow(r, size) => symrgtbl'[r] = Region(vm_end, vm_end + size)]_asVars
    BY GrowKeepsInv
  <1> QED
    BY <1>1, AddressSpaceInvariant, PTL DEF ASSpec, GrowthServes

\* Freeing a region frees exactly its addresses, whichever neighbours
\* enlist_vm_freerg_list merges it with.
THEOREM FreeReturnsBytesCorrect == ASSpec => FreeReturnsBytes
  <1>1. ASInv /\ [ASNext]_asVars
            => [\A r \in Regs :
                    Free(r) => ListBytes(vm_freerg_list')
                                   = ListBytes(vm_freerg_list) \cup Bytes(symrgtbl[r])]_asVars
    BY FreeKeepsInv
  <1> QED
    BY <1>1, AddressSpaceInvariant, PTL DEF ASSpec, FreeReturnsBytes
=============================================================================
