---------------------------- MODULE MemoryProofs ----------------------------
(***************************************************************************)
(* Proofs about Memory, ProcessSpace and MemoryData, for any processes,    *)
(* programs, page size and number of pages, frames and swap frames.        *)
(***************************************************************************)
EXTENDS ProcessSpace, MemoryData, VmRegionsProofs, FiniteSetTheorems

-----------------------------------------------------------------------------
(* Arithmetic                                                              *)

LEMMA Multiples ==
    /\ \A k \in Nat, P \in Nat \ {0} : (k * P) \div P = k
    /\ \A x \in Nat, k \in Nat, m \in Nat, P \in Nat \ {0} :
          x + k * P <= m * P => x \div P \in Nat /\ x \div P + k <= m
    /\ \A x \in Int, P \in Nat \ {0} : x % P \in 0 .. (P - 1) /\ x \div P \in Int
    /\ \A m \in Nat : \A x \in 0 .. (m - 1) : x % m = x
  <1>1. \A k \in Nat, P \in Nat \ {0} : (k * P) \div P = k
    OBVIOUS
  <1>2. \A x \in Nat, k \in Nat, m \in Nat, P \in Nat \ {0} : x + k * P <= m * P => x \div P + k <= m
    OBVIOUS
  <1>3. \A x \in Int, P \in Nat \ {0} : x % P \in 0 .. (P - 1) /\ x \div P \in Int
    OBVIOUS
  <1>4. \A x \in Nat, P \in Nat \ {0} : x \div P \in Nat
    OBVIOUS
  <1>5. \A m \in Nat : \A x \in 0 .. (m - 1) : x % m = x
    OBVIOUS
  <1> QED
    BY <1>1, <1>2, <1>3, <1>4, <1>5

\* The break moves by whole pages, at least one.
LEMMA WholePages ==
    ASSUME NEW size \in Sizes
    PROVE  /\ AlignUp(size) \in Nat /\ size <= AlignUp(size)
           /\ AlignUp(size) \div PAGESZ \in Nat \ {0}
           /\ (AlignUp(size) \div PAGESZ) * PAGESZ = AlignUp(size)
  <1> DEFINE k == (size + PAGESZ - 1) \div PAGESZ
  <1>1. size \in Nat \ {0} /\ PAGESZ \in Nat \ {0}
    BY MemoryAssumption
  <1>2. k \in Nat \ {0} /\ k * PAGESZ \in Nat /\ size <= k * PAGESZ
    BY <1>1
  <1>3. AlignUp(size) = k * PAGESZ
    BY DEF AlignUp
  <1> HIDE DEF k
  <1>4. (k * PAGESZ) \div PAGESZ = k
    BY <1>1, <1>2, Multiples
  <1> QED
    BY <1>2, <1>3, <1>4

\* Every address lies in a page, at one of its offsets.
LEMMA PageOfAddress ==
    \A addr \in Int : PGN(addr) \in Pages /\ OFFST(addr) \in 0 .. (PAGESZ - 1)
  BY MemoryAssumption, Multiples DEF PGN, OFFST, Pages

-----------------------------------------------------------------------------
(* Page table entries and lists                                            *)

\* Where a number's remainder by P is replaced, it stays below a multiple of P.
LEMMA ReplaceRemainder ==
    ASSUME NEW k \in Nat, NEW P \in Nat \ {0}, NEW x \in 0 .. (k * P - 1), NEW f \in 0 .. (P - 1)
    PROVE  /\ (x - (x % P)) + f \in 0 .. (k * P - 1)
           /\ ((x - (x % P)) + f) % P = f
  <1>1. \A y \in Nat, Q \in Nat \ {0} :
           y = (y \div Q) * Q + (y % Q) /\ y % Q \in 0 .. (Q - 1) /\ y \div Q \in Nat
    OBVIOUS
  <1>2. \A q, m \in Nat, Q \in Nat \ {0} : q * Q < m * Q => q * Q <= m * Q - Q
    OBVIOUS
  <1>3. \A q \in Nat, Q \in Nat \ {0} : \A r \in 0 .. (Q - 1) : (q * Q + r) % Q = r
    OBVIOUS
  <1>4. x \in Nat /\ k * P \in Nat
    OBVIOUS
  <1>5. PICK q \in Nat : q = x \div P
    BY <1>1, <1>4
  <1>6. x = q * P + (x % P) /\ x % P \in 0 .. (P - 1) /\ q * P \in Nat
    BY <1>1, <1>4, <1>5
  <1>7. q * P <= k * P - P
    BY <1>2, <1>4, <1>6
  <1>8. (x - (x % P)) + f = q * P + f
    BY <1>6
  <1>9. (q * P + f) % P = f
    BY <1>3
  <1> QED
    BY <1>4, <1>6, <1>7, <1>8, <1>9

LEMMA PteFacts ==
    /\ NoPage \in Ptes
    /\ \A pte \in Ptes : FPN(pte) \in 0 .. (FpnRange - 1) /\ SWP(pte) \in Nat
    /\ \A pte \in Ptes, fpn \in Nat :
          /\ pte_set_fpn(pte, fpn) \in Ptes
          /\ fpn \in 0 .. (FpnRange - 1) => FPN(pte_set_fpn(pte, fpn)) = fpn
    /\ \A pte \in Ptes, off \in Nat : pte_set_swap(pte, off) \in Ptes
  <1>1. FpnRange \in Nat \ {0}
    BY DEF FpnRange
  <1>0. PICK k \in Nat : SwpRange * SwpShift = k * FpnRange /\ k = 256 * 32
    <2>1. \A n \in Nat : (256 * n) * 32 = (256 * 32) * n
      OBVIOUS
    <2> QED
      BY <1>1, <2>1 DEF SwpRange, SwpShift
  <1> DEFINE Bits == 0 .. (k * FpnRange - 1)
  <1>2. Ptes = [present : BOOLEAN, swapped : BOOLEAN, low : Bits]
    BY <1>0 DEF Ptes
  <1>3. 0 \in Bits /\ \A x \in Bits : x \in Nat
    BY <1>1, <1>0
  <1>4. NoPage \in Ptes
    BY <1>2, <1>3 DEF NoPage
  <1>5. ASSUME NEW pte \in Ptes
        PROVE  pte.low \in Bits /\ FPN(pte) \in 0 .. (FpnRange - 1) /\ SWP(pte) \in Nat
    <2>1. pte.low \in Bits /\ pte.low \in Nat
      BY <1>2, <1>3
    <2>2. pte.low % FpnRange \in 0 .. (FpnRange - 1)
      <3>1. pte.low \in Int
        BY <2>1
      <3> QED
        BY <1>1, <3>1, Multiples
    <2>3. pte.low \div 32 \in Nat
      <3>1. \A x \in Nat : x \div 32 \in Nat
        OBVIOUS
      <3> QED
        BY <2>1, <3>1
    <2> QED
      BY <2>1, <2>2, <2>3 DEF FPN, SWP, SwpShift
  <1>6. ASSUME NEW pte \in Ptes, NEW fpn \in Nat
        PROVE  /\ pte_set_fpn(pte, fpn) \in Ptes
               /\ fpn \in 0 .. (FpnRange - 1) => FPN(pte_set_fpn(pte, fpn)) = fpn
    <2> DEFINE low == (pte.low - (pte.low % FpnRange)) + (fpn % FpnRange)
    <2>1. pte.low \in 0 .. (k * FpnRange - 1)
      BY <1>5
    <2>2. fpn % FpnRange \in 0 .. (FpnRange - 1)
      BY <1>1, Multiples
    <2>3. low \in 0 .. (k * FpnRange - 1) /\ low % FpnRange = fpn % FpnRange
      <3>1. PICK x \in 0 .. (k * FpnRange - 1), f \in 0 .. (FpnRange - 1) :
               x = pte.low /\ f = fpn % FpnRange
        BY <2>1, <2>2
      <3>2. /\ (x - (x % FpnRange)) + f \in 0 .. (k * FpnRange - 1)
            /\ ((x - (x % FpnRange)) + f) % FpnRange = f
        BY <1>0, <1>1, ReplaceRemainder
      <3> QED
        BY <3>1, <3>2, Zenon
    <2>4. pte_set_fpn(pte, fpn) = [present |-> TRUE, swapped |-> FALSE, low |-> low]
      BY DEF pte_set_fpn, FPN
    <2> HIDE DEF low
    <2>5. FPN(pte_set_fpn(pte, fpn)) = fpn % FpnRange
      BY <2>3, <2>4 DEF FPN
    <2>6. fpn \in 0 .. (FpnRange - 1) => fpn % FpnRange = fpn
      BY <1>1, Multiples
    <2> QED
      BY <1>2, <2>3, <2>4, <2>5, <2>6
  <1>7. ASSUME NEW pte \in Ptes, NEW off \in Nat PROVE pte_set_swap(pte, off) \in Ptes
    <2>1. off % SwpRange \in 0 .. (SwpRange - 1) /\ SwpRange = 256 * FpnRange
      BY <1>1, Multiples DEF SwpRange
    <2>2. (off % SwpRange) * 32 \in Bits
      <3>1. \A n \in Nat : \A x \in 0 .. (256 * n - 1) : x * 32 \in 0 .. ((256 * 32) * n - 1)
        OBVIOUS
      <3> QED
        BY <1>1, <1>0, <2>1, <3>1
    <2> QED
      BY <1>2, <2>2 DEF pte_set_swap, SwpShift
  <1> QED
    BY <1>4, <1>5, <1>6, <1>7

LEMMA FunctionIsSeq ==
    ASSUME NEW S, NEW n \in Nat, NEW f \in [1 .. n -> S]
    PROVE  f \in Seq(S) /\ Len(f) = n
  BY SeqDef, LenProperties

\* What find_victim_page takes from the end of fifo_pgn, and what it leaves.
LEMMA FrontLast ==
    ASSUME NEW S, NEW s \in Seq(S), s # <<>>
    PROVE  /\ Last(s) \in S /\ Front(s) \in Seq(S)
           /\ Range(s) = Range(Front(s)) \cup {Last(s)}
  <1>1. /\ Len(s) \in Nat \ {0} /\ DOMAIN s = 1 .. Len(s)
        /\ \A j \in 1 .. Len(s) : s[j] \in S
    BY LenProperties, ElementOfSeq, EmptySeq
  <1>2. /\ Front(s) \in Seq(S) /\ Len(Front(s)) = Len(s) - 1
        /\ \A j \in 1 .. (Len(s) - 1) : Front(s)[j] = s[j]
    <2>1. \A j \in 1 .. (Len(s) - 1) : s[j] \in S
      BY <1>1
    <2>2. /\ SubSeq(s, 1, Len(s) - 1) \in Seq(S)
          /\ Len(SubSeq(s, 1, Len(s) - 1)) = IF 1 <= Len(s) - 1 THEN (Len(s) - 1) - 1 + 1 ELSE 0
          /\ \A j \in 1 .. ((Len(s) - 1) - 1 + 1) : SubSeq(s, 1, Len(s) - 1)[j] = s[1 + j - 1]
      BY <1>1, <2>1, SubSeqProperties
    <2> QED
      BY <1>1, <2>2 DEF Front
  <1>3. DOMAIN Front(s) = 1 .. (Len(s) - 1)
    BY <1>2, LenProperties
  <1>6. Last(s) = s[Len(s)] /\ Len(s) \in 1 .. Len(s)
    BY <1>1 DEF Last
  <1>7. Range(s) = {s[j] : j \in 1 .. Len(s)} /\ Range(Front(s)) = {s[j] : j \in 1 .. (Len(s) - 1)}
    BY <1>1, <1>2, <1>3 DEF Range
  <1>8. 1 .. Len(s) = (1 .. (Len(s) - 1)) \cup {Len(s)}
    BY <1>1
  <1> QED
    BY <1>1, <1>2, <1>6, <1>7, <1>8

\* What MEMPHY_get_freefp takes from a list that is not empty.
LEMMA HeadRest ==
    ASSUME NEW S, NEW s \in Seq(S), s # <<>>
    PROVE  Head(s) \in S /\ MEMPHY_get_freefp(s) \in Seq(S)
  BY HeadTailProperties DEF MEMPHY_get_freefp

LEMMA ReverseIsSeq ==
    ASSUME NEW S, NEW s \in Seq(S)
    PROVE  Reverse(s) \in Seq(S) /\ Len(Reverse(s)) = Len(s)
  <1>1. Len(s) \in Nat /\ \A j \in 1 .. Len(s) : s[j] \in S
    BY LenProperties, ElementOfSeq
  <1>2. \A i \in 1 .. Len(s) : (Len(s) - i) + 1 \in 1 .. Len(s)
    BY <1>1
  <1>3. Reverse(s) \in [1 .. Len(s) -> S]
    BY <1>1, <1>2 DEF Reverse
  <1> QED
    BY <1>1, <1>3, FunctionIsSeq

\* The elements of two lists one behind the other.
LEMMA RangeOfBoth ==
    ASSUME NEW S, NEW s \in Seq(S), NEW t \in Seq(S)
    PROVE  /\ s \o t \in Seq(S) /\ Range(s \o t) = Range(s) \cup Range(t)
  <1>1. s \o t \in Seq(S)
    BY ConcatProperties
  <1>2. Range(s \o t) = Range(s) \cup Range(t)
    BY RangeConcatenation
  <1> QED
    BY <1>1, <1>2

\* Any finite set of numbers can be put in order.
LEMMA AscendingOrder ==
    ASSUME NEW S \in SUBSET Nat, IsFiniteSet(S)
    PROVE  /\ Cardinality(S) \in Nat /\ Ascending(S) \in [1 .. Cardinality(S) -> S]
           /\ \A j, k \in 1 .. Cardinality(S) : j < k => Ascending(S)[j] < Ascending(S)[k]
  <1> DEFINE Rising(o, n) == \A j, k \in 1 .. n : j < k => o[j] < o[k]
             Bad == {m \in Nat : \E T \in SUBSET Nat :
                        /\ IsFiniteSet(T) /\ Cardinality(T) = m
                        /\ ~ \E o \in [1 .. m -> T] : Rising(o, m)}
  <1>1. ASSUME Bad # {} PROVE FALSE
    <2>1. Bad \in SUBSET Nat
      OBVIOUS
    <2>2. PICK m \in Bad : \A j \in Bad : m <= j
      BY <1>1, <2>1, LeastExists, Zenon
    <2>3. PICK T \in SUBSET Nat : /\ IsFiniteSet(T) /\ Cardinality(T) = m
                                  /\ ~ \E o \in [1 .. m -> T] : Rising(o, m)
      BY <2>2
    <2>4. m \in Nat
      BY <2>2
    <2>5. CASE m = 0
      <3>1. 1 .. m = {}
        BY <2>5
      <3>2. [j \in 1 .. m |-> 0] \in [1 .. m -> T] /\ Rising([j \in 1 .. m |-> 0], m)
        BY <3>1
      <3> QED
        BY <2>3, <3>2
    <2>6. CASE m # 0
      <3>1. T # {}
        BY <2>3, <2>6, FS_EmptySet
      <3>2. PICK x \in T : \A y \in T : x <= y
        BY <3>1, LeastExists
      <3>3. /\ IsFiniteSet(T \ {x}) /\ Cardinality(T \ {x}) = m - 1
            /\ T \ {x} \in SUBSET Nat
        BY <2>3, FS_RemoveElement
      <3>4. m - 1 \in Nat /\ m - 1 \notin Bad
        BY <2>2, <2>4, <2>6
      <3>5. PICK o \in [1 .. (m - 1) -> T \ {x}] : Rising(o, m - 1)
        BY <3>3, <3>4
      <3> DEFINE all == [j \in 1 .. m |-> IF j = 1 THEN x ELSE o[j - 1]]
      <3>6. \A j \in 1 .. m : j # 1 => j - 1 \in 1 .. (m - 1)
        BY <2>4
      <3>7. all \in [1 .. m -> T]
        BY <3>5, <3>6
      <3>8. ASSUME NEW j \in 1 .. m, NEW k \in 1 .. m, j < k PROVE all[j] < all[k]
        <4>1. k # 1 /\ k - 1 \in 1 .. (m - 1) /\ all[k] = o[k - 1] /\ o[k - 1] \in T \ {x}
          BY <3>5, <3>6, <3>8
        <4>2. CASE j = 1
          <5>1. x \in Nat /\ o[k - 1] \in Nat /\ x <= o[k - 1] /\ x # o[k - 1]
            BY <3>2, <4>1
          <5>2. all[j] = x
            BY <4>2
          <5> QED
            BY <4>1, <5>1, <5>2
        <4>3. CASE j # 1
          <5>1. all[j] = o[j - 1] /\ j - 1 \in 1 .. (m - 1) /\ j - 1 < k - 1
            BY <3>6, <3>8, <4>3
          <5> QED
            BY <3>5, <4>1, <5>1
        <4> QED
          BY <4>2, <4>3
      <3>9. Rising(all, m)
        BY <3>8
      <3> QED
        BY <2>3, <3>7, <3>9
    <2> QED
      BY <2>5, <2>6
  <1>2. Cardinality(S) \in Nat
    BY FS_CardinalityType
  <1>3. PICK o \in [1 .. Cardinality(S) -> S] : Rising(o, Cardinality(S))
    BY <1>1, <1>2
  <1>4. \E order \in [1 .. Cardinality(S) -> S] :
           \A j, k \in DOMAIN order : j < k => order[j] < order[k]
    BY <1>3
  <1>5. /\ Ascending(S) \in [1 .. Cardinality(S) -> S]
        /\ \A j, k \in DOMAIN Ascending(S) : j < k => Ascending(S)[j] < Ascending(S)[k]
    BY <1>4 DEF Ascending
  <1> QED
    BY <1>2, <1>5

-----------------------------------------------------------------------------
(* The invariant                                                           *)

SpaceInv ==
    /\ vm_freerg_list \in [Procs -> Seq(RegionsUpTo(MaxBrk))]
    /\ \A p \in Procs : WellFormed(vm_freerg_list[p])
    /\ symrgtbl \in [Procs -> [Regs -> RegionsUpTo(MaxBrk)]]
    /\ vm_end \in [Procs -> 0 .. MaxBrk]

PageInv ==
    /\ pgd \in [Procs -> [Pages -> Ptes]]
    /\ fifo_pgn \in [Procs -> Seq(Pages)]

\* Frames that __free has read out of a page table entry are known by their
\* low bits only.
FrameNumbers == 0 .. (NumFrames - 1) \cup 0 .. (FpnRange - 1)

DeviceInv ==
    /\ ram \in [0 .. (NumFrames - 1) -> PageContents]
    /\ swp \in [0 .. (NumSwap - 1) -> PageContents]
    /\ free_ram \in Seq(FrameNumbers)
    /\ free_swp \in Seq(0 .. (NumSwap - 1))

\* While an allocation is under way, nothing that made it ask for new pages
\* changes: no region of its process fits, and its pages fit below the bound.
RequestInv ==
    request # NULL =>
        /\ request \in Requests /\ request.frames \in Seq(FrameNumbers)
        /\ Len(request.frames) <= request.pages
        /\ request.pages # 0 /\ request.pages * PAGESZ = AlignUp(request.size)
        /\ vm_end[request.proc] = request.old_end + request.pages * PAGESZ
        /\ Fits(vm_freerg_list[request.proc], request.size) = {}
        /\ ~ Overlaps(vm_freerg_list[request.proc],
                      Region(request.old_end, request.old_end + AlignUp(request.size)))

MemInv == SpaceInv /\ PageInv /\ DeviceInv /\ RequestInv

LEMMA TopBound == MaxBrk \in Nat /\ PAGESZ \in Nat \ {0} /\ MaxPgn \in Nat \ {0}
  BY MemoryAssumption

LEMMA FramesAreNumbers ==
    FrameNumbers \subseteq Nat /\ \A s \in Seq(FrameNumbers) : s \in Seq(Nat)
  <1>1. \A m \in Int : 0 .. (m - 1) \subseteq Nat
    OBVIOUS
  <1>2. NumFrames \in Int /\ FpnRange \in Int
    BY MemoryAssumption DEF FpnRange
  <1>3. 0 .. (NumFrames - 1) \subseteq Nat /\ 0 .. (FpnRange - 1) \subseteq Nat
    BY <1>1, <1>2
  <1>4. FrameNumbers \subseteq Nat
    BY <1>3 DEF FrameNumbers
  <1>5. ASSUME NEW s \in Seq(FrameNumbers) PROVE s \in Seq(Nat)
    <2>1. Len(s) \in Nat /\ \A j \in 1 .. Len(s) : s[j] \in Nat
      BY <1>4, LenProperties, ElementOfSeq
    <2>2. s \in [1 .. Len(s) -> Nat]
      BY <2>1, LenProperties
    <2> QED
      BY <2>1, <2>2, SeqDef
  <1> QED
    BY <1>4, <1>5

LEMMA InitMemory == Init => MemInv
  <1> SUFFICES ASSUME Init PROVE MemInv
    OBVIOUS
  <1>1. SpaceInv
    <2>1. Region(0, 0) \in RegionsUpTo(MaxBrk) /\ Region(0, 0).start <= Region(0, 0).end
      BY TopBound DEF RegionsUpTo, Region
    <2>2. <<Region(0, 0)>> \in Seq(RegionsUpTo(MaxBrk)) /\ WellFormed(<<Region(0, 0)>>)
      BY <2>1 DEF WellFormed
    <2> QED
      BY <2>1, <2>2, TopBound DEF Init, SpaceInv
  <1>2. PageInv
    BY PteFacts DEF Init, PageInv
  <1>3. DeviceInv
    <2>1. [o \in 0 .. (PAGESZ - 1) |-> 0] \in PageContents
      BY MemoryAssumption DEF PageContents
    <2>2. /\ NumFrames \in Nat /\ NumSwap \in Nat
          /\ AllFrames(NumFrames) \in [1 .. NumFrames -> FrameNumbers]
          /\ AllFrames(NumSwap) \in [1 .. NumSwap -> 0 .. (NumSwap - 1)]
      BY MemoryAssumption DEF AllFrames, FrameNumbers
    <2>3. AllFrames(NumFrames) \in Seq(FrameNumbers) /\ AllFrames(NumSwap) \in Seq(0 .. (NumSwap - 1))
      BY <2>2, FunctionIsSeq
    <2> QED
      BY <2>1, <2>3 DEF Init, DeviceInv
  <1>4. RequestInv
    BY DEF Init, RequestInv
  <1> QED
    BY <1>1, <1>2, <1>3, <1>4 DEF MemInv

-----------------------------------------------------------------------------
(* The steps                                                               *)

\* Whoever does not touch the address spaces leaves their part alone.
LEMMA SpacesKept ==
    ASSUME SpaceInv, UNCHANGED spaceVars
    PROVE  SpaceInv'
  BY DEF SpaceInv, spaceVars

\* __alloc takes a region out of the list it is given.
LEMMA TakeKeepsSpaces ==
    ASSUME SpaceInv, NEW p \in Procs, NEW r \in Regs, NEW size \in Sizes,
           NEW list \in Seq(RegionsUpTo(MaxBrk)), WellFormed(list), Fits(list, size) # {},
           Take(p, r, list, size), UNCHANGED vm_end
    PROVE  SpaceInv'
  <1>1. size \in Nat \ {0} /\ MaxBrk \in Nat
    BY MemoryAssumption
  <1>2. /\ TakenRegion(list, size) \in RegionsUpTo(MaxBrk)
        /\ AfterTaking(list, size) \in Seq(RegionsUpTo(MaxBrk))
        /\ WellFormed(AfterTaking(list, size))
    BY <1>1, TakingFromList
  <1> QED
    BY <1>2 DEF SpaceInv, Take

LEMMA AllocReuseKeepsInv ==
    ASSUME MemInv, NEW p \in Procs, NEW r \in Regs, NEW size \in Sizes, AllocReuse(p, r, size)
    PROVE  MemInv'
  <1>1. SpaceInv'
    BY TakeKeepsSpaces DEF MemInv, SpaceInv, AllocReuse
  <1>2. PageInv' /\ DeviceInv' /\ RequestInv'
    BY DEF MemInv, PageInv, DeviceInv, RequestInv, AllocReuse, pageVars, devVars
  <1> QED
    BY <1>1, <1>2 DEF MemInv

LEMMA AllocGrowKeepsInv ==
    ASSUME MemInv, NEW p \in Procs, NEW r \in Regs, NEW size \in Sizes, AllocGrow(p, r, size)
    PROVE  MemInv'
  <1> DEFINE inc == AlignUp(size)
             pages == inc \div PAGESZ
             brk == vm_end[p] + inc
  <1>1. /\ inc \in Nat /\ pages \in Nat \ {0} /\ pages * PAGESZ = inc
    BY WholePages
  <1>2. vm_end[p] \in 0 .. MaxBrk /\ brk <= MaxBrk /\ MaxBrk \in Nat
    BY TopBound DEF MemInv, SpaceInv, AllocGrow
  <1>3. brk \in 0 .. MaxBrk
    BY <1>1, <1>2
  <1>4. vm_end' = [vm_end EXCEPT ![p] = brk]
    BY DEF AllocGrow
  <1> HIDE DEF brk
  <1>5. SpaceInv'
    BY <1>3, <1>4 DEF MemInv, SpaceInv, AllocGrow
  <1>6. PageInv' /\ DeviceInv'
    BY DEF MemInv, PageInv, DeviceInv, AllocGrow, pageVars, devVars
  <1>7. request' = [proc |-> p, reg |-> r, size |-> size, old_end |-> vm_end[p],
                    pages |-> pages, frames |-> <<>>]
    BY DEF AllocGrow
  <1>8. /\ ~ Overlaps(vm_freerg_list[p], Region(vm_end[p], vm_end[p] + AlignUp(size)))
        /\ Fits(vm_freerg_list[p], size) = {} /\ vm_freerg_list' = vm_freerg_list
    BY DEF AllocGrow
  <1>9. vm_end'[p] = vm_end[p] + pages * PAGESZ
    BY <1>1, <1>4 DEF brk, MemInv, SpaceInv
  <1> HIDE DEF inc, pages
  <1>10. RequestInv'
    <2>1. request' \in Requests /\ request'.frames \in Seq(FrameNumbers)
      BY <1>1, <1>2, <1>7 DEF Requests
    <2>2. Len(request'.frames) <= request'.pages
      BY <1>1, <1>7
    <2> QED
      BY <1>1, <1>7, <1>8, <1>9, <2>1, <2>2 DEF RequestInv, inc
  <1> QED
    BY <1>5, <1>6, <1>10 DEF MemInv

\* alloc_pages_range obtains one more page.
LEMMA ObtainKeepsRequest ==
    ASSUME MemInv, NEW fpn \in FrameNumbers, Requested, Obtain(fpn), UNCHANGED spaceVars
    PROVE  RequestInv' /\ request' # NULL
  <1>1. /\ request \in Requests /\ request # NULL /\ Len(request.frames) < request.pages
        /\ request.pages # 0 /\ request.pages * PAGESZ = AlignUp(request.size)
        /\ vm_end[request.proc] = request.old_end + request.pages * PAGESZ
        /\ Fits(vm_freerg_list[request.proc], request.size) = {}
        /\ ~ Overlaps(vm_freerg_list[request.proc],
                      Region(request.old_end, request.old_end + AlignUp(request.size)))
    BY DEF MemInv, RequestInv, Requested
  <1>2. request.frames \in Seq(FrameNumbers) /\ request.pages \in Nat
    BY <1>1 DEF MemInv, RequestInv, Requests
  <1>3. /\ <<fpn>> \o request.frames \in Seq(FrameNumbers)
        /\ Len(<<fpn>> \o request.frames) = 1 + Len(request.frames)
    <2>1. <<fpn>> \in Seq(FrameNumbers) /\ Len(<<fpn>>) = 1
      OBVIOUS
    <2> QED
      BY <1>2, <2>1, ConcatProperties
  <1>4. request' = [request EXCEPT !.frames = <<fpn>> \o request.frames]
    BY DEF Obtain
  <1>5. <<fpn>> \o request.frames \in Seq(Nat)
    BY <1>3, FramesAreNumbers
  <1>6. /\ request' \in Requests /\ request'.frames = <<fpn>> \o request.frames
        /\ request'.proc = request.proc /\ request'.size = request.size
        /\ request'.old_end = request.old_end /\ request'.pages = request.pages
    BY <1>1, <1>5, <1>4 DEF Requests
  <1>7. Len(request'.frames) <= request'.pages
    BY <1>1, <1>2, <1>3, <1>6, LenProperties
  <1> QED
    BY <1>1, <1>3, <1>6, <1>7, MemoryAssumption DEF RequestInv, spaceVars

LEMMA ObtainsNumber ==
    ASSUME MemInv, TakeFrame \/ TakeVictim
    PROVE  \E fpn \in FrameNumbers : Obtain(fpn)
  <1>1. CASE TakeFrame
    <2>1. Head(free_ram) \in FrameNumbers
      BY <1>1, HeadRest DEF MemInv, DeviceInv, TakeFrame
    <2> QED
      BY <1>1, <2>1 DEF TakeFrame
  <1>2. CASE TakeVictim
    BY <1>2, MemoryAssumption DEF TakeVictim, FrameNumbers
  <1> QED
    BY <1>1, <1>2

LEMMA TakeFrameKeepsInv ==
    ASSUME MemInv, TakeFrame
    PROVE  MemInv'
  <1>1. Head(free_ram) \in FrameNumbers /\ MEMPHY_get_freefp(free_ram) \in Seq(FrameNumbers)
    BY HeadRest DEF MemInv, DeviceInv, TakeFrame
  <1>3. RequestInv'
    BY ObtainsNumber, ObtainKeepsRequest DEF TakeFrame
  <1>4. SpaceInv' /\ PageInv'
    BY SpacesKept DEF MemInv, PageInv, TakeFrame, pageVars
  <1>5. DeviceInv'
    BY <1>1 DEF MemInv, DeviceInv, TakeFrame
  <1> QED
    BY <1>3, <1>4, <1>5 DEF MemInv

\* __swap_cp_page copies a page, or what an uninitialised byte holds.
LEMMA CopyKeepsPages ==
    ASSUME NEW m \in Nat, NEW n \in Nat, NEW src \in [0 .. (m - 1) -> PageContents],
           NEW dst \in [0 .. (n - 1) -> PageContents], NEW f, NEW g,
           NEW new \in CopyPage(src, f, dst, g)
    PROVE  new \in [0 .. (n - 1) -> PageContents]
  BY DEF CopyPage

LEMMA TakeVictimKeepsInv ==
    ASSUME MemInv, TakeVictim
    PROVE  MemInv'
  <1> DEFINE p == request.proc
             victim == Victim(p)
  <1>1. request # NULL /\ request \in Requests /\ p \in Procs
    BY DEF TakeVictim, Requested, MemInv, RequestInv, Requests
  <1>2. /\ fifo_pgn[p] \in Seq(Pages) /\ fifo_pgn[p] # <<>>
        /\ free_swp \in Seq(0 .. (NumSwap - 1)) /\ free_swp # <<>>
    BY <1>1 DEF MemInv, PageInv, DeviceInv, TakeVictim
  <1>3. victim \in Pages /\ Front(fifo_pgn[p]) \in Seq(Pages)
    BY <1>2, FrontLast DEF Victim
  <1>4. /\ Head(free_swp) \in 0 .. (NumSwap - 1)
        /\ MEMPHY_get_freefp(free_swp) \in Seq(0 .. (NumSwap - 1))
    BY <1>2, HeadRest
  <1>5. PageInv'
    <2>1. pte_set_swap(pgd[p][victim], Head(free_swp)) \in Ptes
      <3>1. pgd[p][victim] \in Ptes /\ Head(free_swp) \in Nat
        BY <1>1, <1>3, <1>4 DEF MemInv, PageInv
      <3> QED
        BY <3>1, PteFacts
    <2>2. pgd' = [pgd EXCEPT ![p][victim] = pte_set_swap(pgd[p][victim], Head(free_swp))]
      BY DEF TakeVictim
    <2>3. fifo_pgn' = [fifo_pgn EXCEPT ![p] = Front(fifo_pgn[p])]
      BY DEF TakeVictim, WithoutVictim
    <2> HIDE DEF p, victim
    <2> QED
      BY <1>1, <1>3, <2>1, <2>2, <2>3 DEF MemInv, PageInv
  <1>6. DeviceInv'
    <2>1. swp' \in CopyPage(ram, FPN(pgd[p][victim]), swp, Head(free_swp))
      BY DEF TakeVictim
    <2>2. NumFrames \in Nat /\ NumSwap \in Nat
      BY MemoryAssumption
    <2>3. ram \in [0 .. (NumFrames - 1) -> PageContents] /\ swp \in [0 .. (NumSwap - 1) -> PageContents]
      BY DEF MemInv, DeviceInv
    <2>4. swp' \in [0 .. (NumSwap - 1) -> PageContents]
      BY <2>1, <2>2, <2>3, CopyKeepsPages
    <2> QED
      BY <1>4, <2>4 DEF MemInv, DeviceInv, TakeVictim
  <1>7. SpaceInv'
    BY SpacesKept DEF MemInv, TakeVictim
  <1>8. RequestInv'
    BY ObtainsNumber, ObtainKeepsRequest DEF TakeVictim
  <1> QED
    BY <1>5, <1>6, <1>7, <1>8 DEF MemInv

LEMMA OutOfMemoryKeepsInv ==
    ASSUME MemInv, OutOfMemory
    PROVE  MemInv'
  <1> DEFINE p == request.proc
  <1>1. /\ request # NULL /\ request \in Requests /\ p \in Procs
        /\ request.old_end \in Nat /\ request.pages \in Nat
        /\ vm_end[p] = request.old_end + request.pages * PAGESZ
    BY DEF OutOfMemory, Requested, MemInv, RequestInv, Requests
  <1>2. request.old_end \in 0 .. MaxBrk
    <2>1. vm_end[p] \in 0 .. MaxBrk
      BY <1>1 DEF MemInv, SpaceInv
    <2>2. \A k \in Nat, P \in Nat : k * P \in Nat
      OBVIOUS
    <2>3. request.pages * PAGESZ \in Nat
      BY <1>1, <2>2, TopBound
    <2> QED
      BY <1>1, <2>1, <2>3, TopBound
  <1>3. SpaceInv'
    BY <1>2 DEF MemInv, SpaceInv, OutOfMemory, BreakRestored
  <1>4. PageInv'
    <2>1. CASE fifo_pgn[p] = <<>>
      BY <2>1 DEF MemInv, PageInv, OutOfMemory
    <2>2. CASE fifo_pgn[p] # <<>>
      <3>1. Front(fifo_pgn[p]) \in Seq(Pages)
        BY <1>1, <2>2, FrontLast DEF MemInv, PageInv
      <3>2. fifo_pgn' = [fifo_pgn EXCEPT ![p] = Front(fifo_pgn[p])] /\ pgd' = pgd
        BY <2>2 DEF OutOfMemory, WithoutVictim
      <3> QED
        BY <3>1, <3>2 DEF MemInv, PageInv
    <2> QED
      BY <2>1, <2>2
  <1>5. DeviceInv' /\ RequestInv'
    BY DEF MemInv, DeviceInv, RequestInv, OutOfMemory, devVars
  <1> QED
    BY <1>3, <1>4, <1>5 DEF MemInv

\* The list FinishGrowth takes from: the new pages, at its head, fit.
LEMMA GrownList ==
    ASSUME MemInv, request # NULL
    PROVE  LET grown == enlist_vm_rg_node(vm_freerg_list[request.proc],
                            Region(request.old_end, request.old_end + request.pages * PAGESZ))
           IN  /\ grown \in Seq(RegionsUpTo(MaxBrk)) /\ WellFormed(grown)
               /\ Fits(grown, request.size) # {}
  <1> DEFINE list == vm_freerg_list[request.proc]
             brk == request.old_end + request.pages * PAGESZ
             new == Region(request.old_end, brk)
             grown == enlist_vm_rg_node(list, new)
  <1>1. /\ request \in Requests /\ request.proc \in Procs /\ request.size \in Sizes
        /\ request.old_end \in Nat /\ request.pages \in Nat
        /\ request.pages * PAGESZ = AlignUp(request.size) /\ vm_end[request.proc] = brk
    BY DEF MemInv, RequestInv, Requests
  <1>2. list \in Seq(RegionsUpTo(MaxBrk)) /\ WellFormed(list) /\ brk \in 0 .. MaxBrk
    BY <1>1 DEF MemInv, SpaceInv
  <1>3. /\ AlignUp(request.size) \in Nat /\ request.size <= AlignUp(request.size)
        /\ request.size \in Nat
    BY <1>1, WholePages, MemoryAssumption
  <1>4. brk = request.old_end + AlignUp(request.size)
    BY <1>1
  <1> HIDE DEF brk, list
  <1>5. /\ request.old_end \in -1 .. MaxBrk /\ brk \in -1 .. MaxBrk
        /\ request.old_end <= brk /\ request.old_end + request.size <= brk
    BY <1>1, <1>2, <1>3, <1>4, TopBound
  <1>6. /\ new \in RegionsUpTo(MaxBrk) /\ new.start = request.old_end /\ new.end = brk
    BY <1>5, TopBound, RegionFacts
  <1>7. new.start <= new.end /\ new.start + request.size <= new.end
    BY <1>5, <1>6
  <1> HIDE DEF new
  <1>8. grown = InsertAt(list, 1, new) /\ grown[1] = new
    BY <1>2, <1>6, TopBound, HeadRegion
  <1>9. 1 \in 1 .. (Len(list) + 1)
    BY <1>2, TopBound, ListFacts
  <1> HIDE DEF grown
  <1>10. grown \in Seq(RegionsUpTo(MaxBrk)) /\ WellFormed(grown) /\ Len(grown) = Len(list) + 1
    BY <1>2, <1>6, <1>7, <1>8, <1>9, TopBound, InsertRegion
  <1>11. 1 \in Fits(grown, request.size)
    <2>1. 1 \in DOMAIN grown
      BY <1>9, <1>10, TopBound, ListFacts
    <2> QED
      BY <1>7, <1>8, <2>1 DEF Fits
  <1> QED
    BY <1>10, <1>11 DEF grown, new, list, brk

\* The pages of an allocation lie within the page table.
LEMMA NewPagesFit ==
    ASSUME MemInv, request # NULL
    PROVE  /\ PGN(request.old_end) \in Pages /\ request.pages \in Nat
           /\ PGN(request.old_end) + request.pages <= MaxPgn
  <1>1. /\ request \in Requests /\ request.proc \in Procs
        /\ request.old_end \in Nat /\ request.pages \in Nat /\ request.pages # 0
        /\ vm_end[request.proc] = request.old_end + request.pages * PAGESZ
    BY DEF MemInv, RequestInv, Requests
  <1>2. request.old_end + request.pages * PAGESZ <= MaxPgn * PAGESZ
    BY <1>1, MemoryAssumption DEF MemInv, SpaceInv
  <1>3. /\ request.old_end \div PAGESZ \in Nat
        /\ (request.old_end \div PAGESZ) + request.pages <= MaxPgn
    BY <1>1, <1>2, TopBound, Multiples
  <1>4. request.old_end \div PAGESZ \in 0 .. (MaxPgn - 1)
    BY <1>1, <1>3, TopBound
  <1>5. PGN(request.old_end) = request.old_end \div PAGESZ
    BY <1>4, TopBound, Multiples DEF PGN
  <1> QED
    BY <1>1, <1>3, <1>4, <1>5 DEF Pages

LEMMA NewestFirstIsSeq ==
    ASSUME NEW first \in Pages, NEW count \in Nat, first + count <= MaxPgn
    PROVE  /\ NewestFirst(first, count) \in Seq(Pages)
           /\ \A n \in Pages : n - first \in 0 .. (count - 1) => n \in Range(NewestFirst(first, count))
  <1>1. first \in Nat /\ MaxPgn \in Nat
    BY TopBound DEF Pages
  <1>2. \A k \in 1 .. count : first + count - k \in Pages
    BY <1>1 DEF Pages
  <1>3. NewestFirst(first, count) \in [1 .. count -> Pages]
    BY <1>2 DEF NewestFirst
  <1>4. ASSUME NEW n \in Pages, n - first \in 0 .. (count - 1)
        PROVE  n \in Range(NewestFirst(first, count))
    <2>1. /\ first + count - n \in 1 .. count
          /\ first + count - (first + count - n) = n
      BY <1>1, <1>4 DEF Pages
    <2>2. NewestFirst(first, count)[first + count - n] = n
      BY <2>1 DEF NewestFirst
    <2> QED
      BY <1>3, <2>1, <2>2 DEF Range
  <1> QED
    BY <1>3, <1>4, FunctionIsSeq

LEMMA FinishGrowthKeepsInv ==
    ASSUME MemInv, FinishGrowth
    PROVE  MemInv'
  <1> DEFINE p == request.proc
             first == PGN(request.old_end)
  <1>1. /\ request # NULL /\ request \in Requests /\ p \in Procs /\ request.reg \in Regs
        /\ request.size \in Sizes /\ request.frames \in Seq(Nat)
        /\ Len(request.frames) = request.pages
    BY DEF FinishGrowth, MemInv, RequestInv, Requests
  <1>2. first \in Pages /\ request.pages \in Nat /\ first + request.pages <= MaxPgn
    BY <1>1, NewPagesFit
  <1>3. SpaceInv'
    <2> DEFINE grown == enlist_vm_rg_node(vm_freerg_list[p],
                            Region(request.old_end, request.old_end + request.pages * PAGESZ))
    <2>1. /\ grown \in Seq(RegionsUpTo(MaxBrk)) /\ WellFormed(grown)
          /\ Fits(grown, request.size) # {}
      BY <1>1, GrownList
    <2>2. Take(p, request.reg, grown, request.size) /\ UNCHANGED vm_end
      BY DEF FinishGrowth
    <2> HIDE DEF grown, p
    <2>3. SpaceInv
      BY DEF MemInv
    <2> QED
      BY <1>1, <2>1, <2>2, <2>3, TakeKeepsSpaces
  <1>4. Mapped(p, first, request.frames) \in [Pages -> Ptes]
    <2>1. \A k \in 1 .. Len(request.frames) : request.frames[k] \in Nat
      BY <1>1, ElementOfSeq
    <2>2. ASSUME NEW n \in Pages, n - first \in 0 .. (Len(request.frames) - 1)
          PROVE  request.frames[n - first + 1] \in Nat
      <3>1. n - first + 1 \in 1 .. Len(request.frames)
        BY <1>1, <1>2, <2>2 DEF Pages
      <3> QED
        BY <2>1, <3>1
    <2>3. \A n \in Pages : pgd[p][n] \in Ptes
      BY <1>1 DEF MemInv, PageInv
    <2> HIDE DEF p, first
    <2>4. \A n \in Pages : n - first \in 0 .. (Len(request.frames) - 1)
             => pte_set_fpn(pgd[p][n], request.frames[n - first + 1]) \in Ptes
      BY <2>2, <2>3, PteFacts
    <2> QED
      BY <2>3, <2>4 DEF Mapped
  <1>5. NewestFirst(first, request.pages) \o fifo_pgn[p] \in Seq(Pages)
    <2>1. NewestFirst(first, request.pages) \in Seq(Pages)
      BY <1>2, NewestFirstIsSeq
    <2>2. fifo_pgn[p] \in Seq(Pages)
      BY <1>1 DEF MemInv, PageInv
    <2> QED
      BY <2>1, <2>2, RangeOfBoth
  <1>6. PageInv'
    <2>1. /\ pgd' = [pgd EXCEPT ![p] = Mapped(p, first, request.frames)]
          /\ fifo_pgn' = [fifo_pgn EXCEPT ![p] = NewestFirst(first, request.pages) \o fifo_pgn[p]]
      BY DEF FinishGrowth
    <2> HIDE DEF p, first
    <2> QED
      BY <1>1, <1>4, <1>5, <2>1 DEF MemInv, PageInv
  <1>7. DeviceInv' /\ RequestInv'
    BY DEF MemInv, DeviceInv, RequestInv, FinishGrowth, devVars
  <1> QED
    BY <1>3, <1>6, <1>7 DEF MemInv

\* What __free unmaps, and what it returns to RAM's list: what the entries of
\* the pages show.
LEMMA FreedPagesInTable ==
    ASSUME MemInv, NEW p \in Procs, NEW rg \in RegionsUpTo(MaxBrk)
    PROVE  /\ FreedPages(p, rg) \subseteq Pages
           /\ FreedPages(p, rg) \in SUBSET Nat /\ IsFiniteSet(FreedPages(p, rg))
  <1> DEFINE pages == FreedPages(p, rg)
  <1>1. rg.start \in Int /\ rg.end - 1 \in Int
    BY TopBound, RegionFacts
  <1>2. PGN(rg.start) \in Pages /\ PGN(rg.end - 1) \in Pages
    BY <1>1, PageOfAddress
  <1>3. pages \subseteq PGN(rg.start) .. PGN(rg.end - 1)
    BY DEF FreedPages
  <1> HIDE DEF pages
  <1>4. \A a, b \in Pages : a .. b \subseteq Pages /\ a \in Int /\ b \in Int
    BY TopBound DEF Pages
  <1>5. IsFiniteSet(PGN(rg.start) .. PGN(rg.end - 1))
    BY <1>2, <1>4, FS_Interval
  <1>6. pages \subseteq Pages
    BY <1>2, <1>3, <1>4
  <1>7. Pages \subseteq Nat
    BY DEF Pages
  <1> QED
    BY <1>3, <1>5, <1>6, <1>7, FS_Subset DEF pages

LEMMA FramesOfPages ==
    ASSUME MemInv, NEW p \in Procs, NEW rg \in RegionsUpTo(MaxBrk), NEW S,
           \A n \in FreedPages(p, rg) : FPN(pgd[p][n]) \in S
    PROVE  FramesFreed(p, FreedPages(p, rg)) \in Seq(S)
  <1> DEFINE pages == FreedPages(p, rg)
             order == Ascending(pages)
  <1>1. pages \in SUBSET Nat /\ IsFiniteSet(pages)
    BY FreedPagesInTable
  <1> HIDE DEF pages, order
  <1>2. Cardinality(pages) \in Nat /\ order \in [1 .. Cardinality(pages) -> pages]
    BY <1>1, AscendingOrder DEF order
  <1>3. \A k \in 1 .. Cardinality(pages) : FPN(pgd[p][order[k]]) \in S
    BY <1>2 DEF pages
  <1>4. FramesFreed(p, pages) \in [1 .. Cardinality(pages) -> S]
    BY <1>2, <1>3 DEF FramesFreed, order
  <1> QED
    BY <1>2, <1>4, FunctionIsSeq DEF pages

LEMMA FreedPagesAndFrames ==
    ASSUME MemInv, NEW p \in Procs, NEW rg \in RegionsUpTo(MaxBrk)
    PROVE  /\ FreedPages(p, rg) \subseteq Pages
           /\ FramesFreed(p, FreedPages(p, rg)) \in Seq(FrameNumbers)
  <1>1. FreedPages(p, rg) \subseteq Pages
    BY FreedPagesInTable
  <1>2. \A n \in FreedPages(p, rg) : FPN(pgd[p][n]) \in FrameNumbers
    BY <1>1, PteFacts DEF MemInv, PageInv, FrameNumbers
  <1> QED
    BY <1>1, <1>2, FramesOfPages

LEMMA FreeKeepsInv ==
    ASSUME MemInv, NEW p \in Procs, NEW r \in Regs, Free(p, r)
    PROVE  MemInv'
  <1> DEFINE rg == symrgtbl[p][r]
             pages == FreedPages(p, rg)
             frames == FramesFreed(p, pages)
  <1>1. /\ rg \in RegionsUpTo(MaxBrk) /\ vm_freerg_list[p] \in Seq(RegionsUpTo(MaxBrk))
        /\ WellFormed(vm_freerg_list[p])
    BY DEF MemInv, SpaceInv
  <1>2. pages \subseteq Pages /\ frames \in Seq(FrameNumbers)
    BY <1>1, FreedPagesAndFrames
  <1>3. /\ free_ram' = PutFrames(free_ram, frames)
        /\ pgd' = [pgd EXCEPT ![p] = [n \in Pages |-> IF n \in pages THEN NoPage ELSE pgd[p][n]]]
        /\ UNCHANGED <<vm_end, fifo_pgn, ram, swp, free_swp, request>>
    BY DEF Free
  <1>4. PutFrames(free_ram, frames) \in Seq(FrameNumbers)
    BY <1>2, ReverseIsSeq, RangeOfBoth DEF PutFrames, MemInv, DeviceInv
  <1>5. DeviceInv'
    BY <1>3, <1>4 DEF MemInv, DeviceInv
  <1> HIDE DEF frames, pages
  <1>6. PageInv'
    BY <1>3, PteFacts DEF MemInv, PageInv
  <1>7. CASE rg.start >= rg.end
    <2>1. UNCHANGED spaceVars
      BY <1>3, <1>7 DEF Free, spaceVars
    <2>2. SpaceInv' /\ RequestInv'
      BY <1>3, <2>1, SpacesKept DEF MemInv, RequestInv, spaceVars
    <2> QED
      BY <1>5, <1>6, <2>2 DEF MemInv
  <1>8. CASE ~ (rg.start >= rg.end)
    <2> DEFINE list == enlist_vm_freerg_list(vm_freerg_list[p], rg)
    <2>1. /\ vm_freerg_list' = [vm_freerg_list EXCEPT ![p] = list]
          /\ symrgtbl' = [symrgtbl EXCEPT ![p][r] = Freed]
      BY <1>8 DEF Free
    <2>2. rg.start <= rg.end
      BY <1>1, <1>8, TopBound, RegionFacts
    <2>3. list \in Seq(RegionsUpTo(MaxBrk)) /\ WellFormed(list)
      BY <1>1, <2>2, TopBound, EnlistRegion
    <2>4. Freed \in RegionsUpTo(MaxBrk)
      BY TopBound DEF Freed, Region, RegionsUpTo
    <2> HIDE DEF list
    <2>5. SpaceInv'
      BY <1>3, <2>1, <2>3, <2>4 DEF MemInv, SpaceInv
    <2>6. request # NULL => request.proc # p
      BY DEF Free, Idle
    <2>7. request # NULL => vm_freerg_list'[request.proc] = vm_freerg_list[request.proc]
      BY <2>1, <2>6 DEF MemInv, RequestInv, Requests, SpaceInv
    <2>8. RequestInv'
      BY <1>3, <2>7 DEF MemInv, RequestInv
    <2> QED
      BY <1>5, <1>6, <2>5, <2>8 DEF MemInv
  <1> QED
    BY <1>7, <1>8

\* pg_getpage for any page of the table.
LEMMA GetPageKeepsPages ==
    ASSUME PageInv, DeviceInv, NEW p \in Procs, NEW n \in Pages, pg_getpage(p, n)
    PROVE  /\ PageInv'
           /\ swp' \in [0 .. (NumSwap - 1) -> PageContents]
           /\ free_swp' \in Seq(0 .. (NumSwap - 1))
  <1>1. /\ fifo_pgn[p] \in Seq(Pages) /\ pgd[p] \in [Pages -> Ptes]
        /\ ram \in [0 .. (NumFrames - 1) -> PageContents]
        /\ swp \in [0 .. (NumSwap - 1) -> PageContents]
        /\ free_swp \in Seq(0 .. (NumSwap - 1))
    BY DEF PageInv, DeviceInv
  <1>2. CASE UNCHANGED <<pageVars, swp, free_swp>>
    BY <1>1, <1>2 DEF PageInv, pageVars
  <1>3. CASE /\ ~ pgd[p][n].present /\ fifo_pgn[p] # <<>> /\ free_swp = <<>>
             /\ fifo_pgn' = WithoutVictim(p)
             /\ UNCHANGED <<pgd, swp, free_swp>>
    <2>1. Front(fifo_pgn[p]) \in Seq(Pages)
      BY <1>1, <1>3, FrontLast
    <2> QED
      BY <1>1, <1>3, <2>1 DEF PageInv, WithoutVictim
  <1>4. CASE ReplacePage(p, n)
    <2> DEFINE victim == Victim(p)
               vicfpn == FPN(pgd[p][victim])
               tgtfpn == SWP(pgd[p][n])
               swpfpn == Head(free_swp)
               evicted == [pgd[p] EXCEPT ![victim] = pte_set_swap(pgd[p][victim], swpfpn)]
               table == [evicted EXCEPT ![n] = pte_set_fpn(evicted[n], vicfpn)]
    <2>1. fifo_pgn[p] # <<>> /\ free_swp # <<>>
      BY <1>4 DEF ReplacePage
    <2>2. victim \in Pages /\ Front(fifo_pgn[p]) \in Seq(Pages)
      BY <1>1, <2>1, FrontLast DEF Victim
    <2>3. swpfpn \in 0 .. (NumSwap - 1) /\ MEMPHY_get_freefp(free_swp) \in Seq(0 .. (NumSwap - 1))
      BY <1>1, <2>1, HeadRest
    <2>4. vicfpn \in Nat
      <3>1. pgd[p][victim] \in Ptes
        BY <1>1, <2>2
      <3>2. FPN(pgd[p][victim]) \in 0 .. (FpnRange - 1)
        BY <3>1, PteFacts
      <3>3. 0 .. (FpnRange - 1) \subseteq Nat
        BY DEF FpnRange
      <3> QED
        BY <3>2, <3>3
    <2>5. pgd' = [pgd EXCEPT ![p] = table] /\ free_swp' = MEMPHY_get_freefp(free_swp)
          /\ fifo_pgn' = [fifo_pgn EXCEPT ![p] = <<n>> \o Front(fifo_pgn[p])]
      BY <1>4 DEF ReplacePage
    <2>6. \E out \in CopyPage(ram, vicfpn, swp, swpfpn) : swp' \in CopyPage(ram, tgtfpn, out, vicfpn)
      BY <1>4 DEF ReplacePage
    <2> HIDE DEF vicfpn, tgtfpn, swpfpn, victim
    <2>7. evicted \in [Pages -> Ptes]
      <3>1. pgd[p][victim] \in Ptes /\ swpfpn \in Nat
        BY <1>1, <2>2, <2>3
      <3>2. pte_set_swap(pgd[p][victim], swpfpn) \in Ptes
        BY <3>1, PteFacts
      <3> QED
        BY <1>1, <3>2
    <2> HIDE DEF evicted
    <2>8. table \in [Pages -> Ptes]
      BY <2>4, <2>7, PteFacts
    <2> HIDE DEF table
    <2>9. <<n>> \o Front(fifo_pgn[p]) \in Seq(Pages)
      <3>1. <<n>> \in Seq(Pages)
        OBVIOUS
      <3> QED
        BY <2>2, <3>1, RangeOfBoth
    <2>10. PageInv'
      BY <2>5, <2>8, <2>9 DEF PageInv
    <2>11. swp' \in [0 .. (NumSwap - 1) -> PageContents]
      <3>1. NumFrames \in Nat /\ NumSwap \in Nat
        BY MemoryAssumption
      <3>2. PICK out \in CopyPage(ram, vicfpn, swp, swpfpn) : swp' \in CopyPage(ram, tgtfpn, out, vicfpn)
        BY <2>6
      <3>3. out \in [0 .. (NumSwap - 1) -> PageContents]
        BY <1>1, <3>1, CopyKeepsPages
      <3> QED
        BY <1>1, <3>1, <3>2, <3>3, CopyKeepsPages
    <2> QED
      BY <2>3, <2>5, <2>10, <2>11
  <1> QED
    BY <1>2, <1>3, <1>4 DEF pg_getpage

\* An access leaves the address spaces, RAM's list and the allocation under
\* way alone.
LEMMA AddressIsInt ==
    ASSUME MemInv, NEW p \in Procs, NEW r \in Regs, NEW off \in Offsets
    PROVE  Address(p, r, off) \in Int
  <1>1. symrgtbl[p][r] \in RegionsUpTo(MaxBrk) /\ off \in Nat
    BY MemoryAssumption DEF MemInv, SpaceInv
  <1>2. symrgtbl[p][r].start \in Int
    BY <1>1, TopBound, RegionFacts
  <1> QED
    BY <1>1, <1>2 DEF Address

LEMMA ReadKeepsInv ==
    ASSUME MemInv, NEW p \in Procs, NEW r \in Regs, NEW off \in Offsets, Read(p, r, off)
    PROVE  MemInv'
  <1>1. PGN(Address(p, r, off)) \in Pages
    BY AddressIsInt, PageOfAddress
  <1>2. pg_getpage(p, PGN(Address(p, r, off))) /\ UNCHANGED <<spaceVars, ram, free_ram, request>>
    BY DEF Read
  <1>3. /\ PageInv' /\ swp' \in [0 .. (NumSwap - 1) -> PageContents]
        /\ free_swp' \in Seq(0 .. (NumSwap - 1))
    BY <1>1, <1>2, GetPageKeepsPages DEF MemInv
  <1>4. SpaceInv' /\ RequestInv' /\ DeviceInv'
    BY <1>2, <1>3, SpacesKept DEF MemInv, RequestInv, DeviceInv, spaceVars
  <1> QED
    BY <1>3, <1>4 DEF MemInv

LEMMA WriteKeepsInv ==
    ASSUME MemInv, NEW p \in Procs, NEW r \in Regs, NEW off \in Offsets, NEW v \in Values,
           Write(p, r, off, v)
    PROVE  MemInv'
  <1> DEFINE addr == Address(p, r, off)
             pte == pgd'[p][PGN(addr)]
  <1>1. PGN(addr) \in Pages /\ OFFST(addr) \in 0 .. (PAGESZ - 1)
    BY AddressIsInt, PageOfAddress
  <1>2. /\ pg_getpage(p, PGN(addr)) /\ UNCHANGED <<spaceVars, free_ram, request>>
        /\ ram' = IF pte.present THEN Store(ram, FPN(pte), OFFST(addr), v) ELSE ram
    BY DEF Write
  <1>3. /\ PageInv' /\ swp' \in [0 .. (NumSwap - 1) -> PageContents]
        /\ free_swp' \in Seq(0 .. (NumSwap - 1))
    BY <1>1, <1>2, GetPageKeepsPages DEF MemInv
  <1> HIDE DEF pte, addr
  <1>4. ram' \in [0 .. (NumFrames - 1) -> PageContents]
    BY <1>1, <1>2 DEF MemInv, DeviceInv, Store, PageContents
  <1>5. SpaceInv' /\ RequestInv' /\ DeviceInv'
    BY <1>2, <1>3, <1>4, SpacesKept DEF MemInv, RequestInv, DeviceInv, spaceVars
  <1> QED
    BY <1>3, <1>5 DEF MemInv

\* Everything a reader of the state may rely on in every step.
LEMMA NextKeepsInv ==
    ASSUME MemInv, [Next]_vars
    PROVE  MemInv'
  <1>1. CASE Alloc
    BY <1>1, AllocReuseKeepsInv, AllocGrowKeepsInv DEF Alloc
  <1>2. CASE Growth
    BY <1>2, TakeFrameKeepsInv, TakeVictimKeepsInv, OutOfMemoryKeepsInv, FinishGrowthKeepsInv DEF Growth
  <1>3. CASE Release
    BY <1>3, FreeKeepsInv DEF Release
  <1>4. ASSUME NEW p \in Procs, NEW r \in Regs, NEW off \in Offsets,
               Read(p, r, off) \/ \E v \in Values : Write(p, r, off, v)
        PROVE  MemInv'
    BY <1>4, ReadKeepsInv, WriteKeepsInv
  <1>5. CASE UNCHANGED vars
    BY <1>5 DEF vars, spaceVars, pageVars, devVars,
                MemInv, SpaceInv, PageInv, DeviceInv, RequestInv
  <1> QED
    BY <1>1, <1>2, <1>3, <1>4, <1>5 DEF Next

LEMMA MemoryInvariant == Spec => []MemInv
  BY InitMemory, NextKeepsInv, PTL DEF Spec

\* Page tables, fifo lists, contents and free lists stay within their types,
\* whatever the processes do to each other: no page outside the table is ever
\* mapped or chosen as a victim, no frame outside the devices is written
\* (vmap_page_range, find_victim_page and MEMPHY_write check none of this).
THEOREM MemoryTypeCorrect == Spec => []TypeOK
  <1>1. MemInv => TypeOK
    <2> SUFFICES ASSUME MemInv PROVE TypeOK
      OBVIOUS
    <2>1. \A S : \A s \in Seq(S) : Range(s) \subseteq S
      BY LenProperties, ElementOfSeq DEF Range
    <2>2. request # NULL => Len(request.frames) \in 0 .. request.pages
      BY LenProperties DEF MemInv, RequestInv, Requests
    <2> QED
      BY <2>1, <2>2 DEF MemInv, PageInv, DeviceInv, TypeOK, FrameNumbers
  <1> QED
    BY <1>1, MemoryInvariant, PTL

-----------------------------------------------------------------------------
(* Victims                                                                 *)

Tracked == \A p \in Procs, n \in Pages : InRam(p, n) => n \in Range(fifo_pgn[p])

\* A page that leaves the end of the list goes to swap in the same step.
LEMMA TakeVictimKeepsTracked ==
    ASSUME MemInv, Tracked, TakeVictim
    PROVE  Tracked'
  <1> DEFINE p == request.proc
             victim == Victim(p)
             pte == pte_set_swap(pgd[p][victim], Head(free_swp))
  <1>1. p \in Procs /\ fifo_pgn[p] \in Seq(Pages) /\ fifo_pgn[p] # <<>>
    BY DEF TakeVictim, Requested, MemInv, RequestInv, Requests, PageInv
  <1>2. victim \in Pages /\ Range(fifo_pgn[p]) = Range(Front(fifo_pgn[p])) \cup {victim}
    BY <1>1, FrontLast DEF Victim
  <1>3. pte.swapped
    BY DEF pte_set_swap
  <1>4. /\ pgd' = [pgd EXCEPT ![p][victim] = pte]
        /\ fifo_pgn' = [fifo_pgn EXCEPT ![p] = Front(fifo_pgn[p])]
    BY DEF TakeVictim, WithoutVictim
  <1>5. pgd \in [Procs -> [Pages -> Ptes]] /\ fifo_pgn \in [Procs -> Seq(Pages)]
    BY DEF MemInv, PageInv
  <1> HIDE DEF p, victim, pte
  <1>6. ASSUME NEW q \in Procs, NEW n \in Pages, InRam(q, n)'
        PROVE  n \in Range(fifo_pgn'[q])
    <2>1. CASE q = p /\ n = victim
      <3>1. pgd'[q][n] = pte
        BY <1>1, <1>2, <1>4, <1>5, <2>1
      <3> QED
        BY <1>3, <1>6, <3>1 DEF InRam
    <2>2. CASE q = p /\ n # victim
      <3>1. pgd'[q][n] = pgd[q][n] /\ fifo_pgn'[q] = Front(fifo_pgn[q])
        BY <1>1, <1>2, <1>4, <1>5, <2>2
      <3>2. n \in Range(fifo_pgn[q])
        BY <1>6, <3>1 DEF InRam, Tracked
      <3> QED
        BY <1>2, <2>2, <3>1, <3>2
    <2>3. CASE q # p
      <3>1. pgd'[q] = pgd[q] /\ fifo_pgn'[q] = fifo_pgn[q]
        BY <1>4, <1>5, <2>3
      <3> QED
        BY <1>6, <3>1 DEF InRam, Tracked
    <2> QED
      BY <2>1, <2>2, <2>3
  <1> QED
    BY <1>6 DEF Tracked

\* The pages of an allocation are enlisted with being mapped.
LEMMA FinishGrowthKeepsTracked ==
    ASSUME MemInv, Tracked, FinishGrowth
    PROVE  Tracked'
  <1> DEFINE p == request.proc
             first == PGN(request.old_end)
             new == NewestFirst(first, request.pages)
             table == Mapped(p, first, request.frames)
  <1>1. /\ request # NULL /\ p \in Procs /\ Len(request.frames) = request.pages
        /\ fifo_pgn[p] \in Seq(Pages)
    BY DEF FinishGrowth, MemInv, RequestInv, Requests, PageInv
  <1>2. first \in Pages /\ request.pages \in Nat /\ first + request.pages <= MaxPgn
    BY <1>1, NewPagesFit
  <1>3. /\ new \in Seq(Pages)
        /\ \A n \in Pages : n - first \in 0 .. (request.pages - 1) => n \in Range(new)
    BY <1>2, NewestFirstIsSeq
  <1>4. Range(new \o fifo_pgn[p]) = Range(new) \cup Range(fifo_pgn[p])
    BY <1>1, <1>3, RangeOfBoth
  <1>5. /\ pgd' = [pgd EXCEPT ![p] = table]
        /\ fifo_pgn' = [fifo_pgn EXCEPT ![p] = new \o fifo_pgn[p]]
    BY DEF FinishGrowth
  <1>6. \A n \in Pages : ~ (n - first \in 0 .. (request.pages - 1)) => table[n] = pgd[p][n]
    BY <1>1 DEF Mapped
  <1>7. pgd \in [Procs -> [Pages -> Ptes]] /\ fifo_pgn \in [Procs -> Seq(Pages)]
    BY DEF MemInv, PageInv
  <1> HIDE DEF p, first, new, table
  <1>8. ASSUME NEW q \in Procs, NEW n \in Pages, InRam(q, n)'
        PROVE  n \in Range(fifo_pgn'[q])
    <2>1. CASE q = p
      <3>1. pgd'[q][n] = table[n] /\ fifo_pgn'[q] = new \o fifo_pgn[p]
        BY <1>1, <1>5, <1>7, <2>1
      <3>2. CASE n - first \in 0 .. (request.pages - 1)
        BY <1>3, <1>4, <3>1, <3>2
      <3>3. CASE ~ (n - first \in 0 .. (request.pages - 1))
        <4>1. pgd'[q][n] = pgd[q][n]
          BY <1>6, <2>1, <3>1, <3>3
        <4>2. n \in Range(fifo_pgn[q])
          BY <1>8, <4>1 DEF InRam, Tracked
        <4> QED
          BY <1>4, <2>1, <3>1, <4>2
      <3> QED
        BY <3>2, <3>3
    <2>2. CASE q # p
      <3>1. pgd'[q] = pgd[q] /\ fifo_pgn'[q] = fifo_pgn[q]
        BY <1>5, <1>7, <2>2
      <3> QED
        BY <1>8, <3>1 DEF InRam, Tracked
    <2> QED
      BY <2>1, <2>2
  <1> QED
    BY <1>8 DEF Tracked

\* Unmapped pages are not in RAM.
LEMMA FreeKeepsTracked ==
    ASSUME MemInv, Tracked, NEW p \in Procs, NEW r \in Regs, Free(p, r)
    PROVE  Tracked'
  <1> DEFINE pages == FreedPages(p, symrgtbl[p][r])
  <1>1. /\ pgd' = [pgd EXCEPT ![p] = [n \in Pages |-> IF n \in pages THEN NoPage ELSE pgd[p][n]]]
        /\ fifo_pgn' = fifo_pgn
    BY DEF Free
  <1>2. pgd \in [Procs -> [Pages -> Ptes]]
    BY DEF MemInv, PageInv
  <1> HIDE DEF pages
  <1>3. ASSUME NEW q \in Procs, NEW n \in Pages, InRam(q, n)' PROVE InRam(q, n)
    <2>1. pgd'[q][n] = NoPage \/ pgd'[q][n] = pgd[q][n]
      BY <1>1, <1>2
    <2> QED
      BY <1>3, <2>1 DEF InRam, NoPage
  <1> QED
    BY <1>1, <1>3 DEF Tracked

\* The page that takes over the victim's frame takes over a place in the list.
LEMMA ReplacePageKeepsTracked ==
    ASSUME PageInv, DeviceInv, Tracked, NEW p \in Procs, NEW n \in Pages, ReplacePage(p, n)
    PROVE  Tracked'
  <1> DEFINE victim == Victim(p)
             pte == pte_set_swap(pgd[p][victim], Head(free_swp))
             evicted == [pgd[p] EXCEPT ![victim] = pte]
             table == [evicted EXCEPT ![n] = pte_set_fpn(evicted[n], FPN(pgd[p][victim]))]
  <1>1. fifo_pgn[p] \in Seq(Pages) /\ fifo_pgn[p] # <<>>
    BY DEF ReplacePage, PageInv
  <1>2. /\ victim \in Pages /\ Range(fifo_pgn[p]) = Range(Front(fifo_pgn[p])) \cup {victim}
        /\ Front(fifo_pgn[p]) \in Seq(Pages)
    BY <1>1, FrontLast DEF Victim
  <1>3. pte.swapped
    BY DEF pte_set_swap
  <1>4. /\ pgd' = [pgd EXCEPT ![p] = table]
        /\ fifo_pgn' = [fifo_pgn EXCEPT ![p] = <<n>> \o Front(fifo_pgn[p])]
    BY DEF ReplacePage
  <1>5. pgd \in [Procs -> [Pages -> Ptes]] /\ fifo_pgn \in [Procs -> Seq(Pages)]
    BY DEF PageInv
  <1>6. Range(<<n>> \o Front(fifo_pgn[p])) = {n} \cup Range(Front(fifo_pgn[p]))
    <2>1. PICK one \in Seq(Pages) : one = <<n>>
      <3>1. <<n>> \in Seq(Pages)
        OBVIOUS
      <3> QED
        BY <3>1, Zenon
    <2>2. Range(one) = {n}
      <3>1. DOMAIN one = 1 .. 1 /\ one[1] = n
        BY <2>1
      <3> QED
        BY <3>1 DEF Range
    <2>3. Range(one \o Front(fifo_pgn[p])) = Range(one) \cup Range(Front(fifo_pgn[p]))
      BY <1>2, RangeOfBoth
    <2> QED
      BY <2>1, <2>2, <2>3
  <1>7. \A m \in Pages : m # n => table[m] = IF m = victim THEN pte ELSE pgd[p][m]
    <2> HIDE DEF pte, victim
    <2> QED
      BY <1>5
  <1> HIDE DEF victim, pte, table
  <1>8. ASSUME NEW q \in Procs, NEW m \in Pages, InRam(q, m)'
        PROVE  m \in Range(fifo_pgn'[q])
    <2>1. CASE q = p /\ m = n
      BY <1>4, <1>5, <1>6, <2>1
    <2>2. CASE q = p /\ m # n
      <3>1. fifo_pgn'[q] = <<n>> \o Front(fifo_pgn[q]) /\ pgd'[q][m] = table[m]
        BY <1>4, <1>5, <2>2
      <3>2. m # victim
        BY <1>3, <1>7, <1>8, <2>2, <3>1 DEF InRam
      <3>3. m \in Range(fifo_pgn[q])
        BY <1>7, <1>8, <2>2, <3>1, <3>2 DEF InRam, Tracked
      <3> QED
        BY <1>2, <1>6, <2>2, <3>1, <3>2, <3>3
    <2>3. CASE q # p
      <3>1. pgd'[q] = pgd[q] /\ fifo_pgn'[q] = fifo_pgn[q]
        BY <1>4, <1>5, <2>3
      <3> QED
        BY <1>8, <3>1 DEF InRam, Tracked
    <2> QED
      BY <2>1, <2>2, <2>3
  <1> QED
    BY <1>8 DEF Tracked

\* Only pg_getpage without room in swap drops a victim and swaps nothing.
LEMMA GetPageKeepsTracked ==
    ASSUME PageInv, DeviceInv, TrackedWhileSwapLasts, NEW p \in Procs, NEW n \in Pages, pg_getpage(p, n)
    PROVE  TrackedWhileSwapLasts'
  <1>1. CASE UNCHANGED <<pageVars, swp, free_swp>>
    BY <1>1 DEF TrackedWhileSwapLasts, InRam, pageVars
  <1>2. CASE free_swp = <<>> /\ UNCHANGED free_swp
    BY <1>2 DEF TrackedWhileSwapLasts
  <1>3. CASE ReplacePage(p, n)
    <2>1. free_swp # <<>>
      BY <1>3 DEF ReplacePage
    <2>2. Tracked
      BY <2>1 DEF TrackedWhileSwapLasts, Tracked
    <2> QED
      BY <1>3, <2>2, ReplacePageKeepsTracked DEF TrackedWhileSwapLasts, Tracked
  <1> QED
    BY <1>1, <1>2, <1>3 DEF pg_getpage

\* No page in RAM escapes find_victim_page as long as the swap device has a
\* free frame: __free, the growth of another process, and the victims of
\* alloc_pages_range and pg_getpage keep fifo_pgn complete.  (Once the device
\* is full, a victim is taken off the list and stays in RAM.)
THEOREM TrackedWhileSwapLastsCorrect == Spec => []TrackedWhileSwapLasts
  <1>1. Init => TrackedWhileSwapLasts
    BY DEF Init, TrackedWhileSwapLasts, InRam, NoPage
  <1>2. ASSUME MemInv, TrackedWhileSwapLasts, [Next]_vars PROVE TrackedWhileSwapLasts'
    <2>1. CASE Alloc \/ TakeFrame \/ UNCHANGED vars
      <3>1. UNCHANGED <<pgd, fifo_pgn, free_swp>>
        BY <2>1 DEF Alloc, AllocReuse, AllocGrow, TakeFrame, vars, pageVars, devVars
      <3> QED
        BY <1>2, <3>1 DEF TrackedWhileSwapLasts, InRam
    <2>2. CASE TakeVictim
      <3>1. Tracked
        BY <1>2, <2>2 DEF TakeVictim, TrackedWhileSwapLasts, Tracked
      <3> QED
        BY <1>2, <2>2, <3>1, TakeVictimKeepsTracked DEF TrackedWhileSwapLasts, Tracked
    <2>3. CASE OutOfMemory
      <3>1. /\ UNCHANGED <<pgd, free_swp>>
            /\ fifo_pgn' = fifo_pgn \/ free_swp = <<>>
        BY <2>3 DEF OutOfMemory, CannotSwap, devVars
      <3> QED
        BY <1>2, <3>1 DEF TrackedWhileSwapLasts, InRam
    <2>4. CASE FinishGrowth
      <3>1. UNCHANGED free_swp
        BY <2>4 DEF FinishGrowth, devVars
      <3>2. Tracked => Tracked'
        BY <1>2, <2>4, FinishGrowthKeepsTracked
      <3> QED
        BY <1>2, <3>1, <3>2 DEF TrackedWhileSwapLasts, Tracked
    <2>5. CASE Release
      <3>1. PICK p \in Procs, r \in Regs : Free(p, r)
        BY <2>5 DEF Release
      <3>2. Tracked => Tracked'
        BY <1>2, <3>1, FreeKeepsTracked
      <3>3. UNCHANGED free_swp
        BY <3>1 DEF Free
      <3> QED
        BY <1>2, <3>2, <3>3 DEF TrackedWhileSwapLasts, Tracked
    <2>6. ASSUME NEW p \in Procs, NEW r \in Regs, NEW off \in Offsets,
                 Read(p, r, off) \/ \E v \in Values : Write(p, r, off, v)
          PROVE  TrackedWhileSwapLasts'
      <3>1. pg_getpage(p, PGN(Address(p, r, off)))
        BY <2>6 DEF Read, Write
      <3>2. PGN(Address(p, r, off)) \in Pages
        BY <1>2, AddressIsInt, PageOfAddress
      <3> QED
        BY <1>2, <3>1, <3>2, GetPageKeepsTracked DEF MemInv
    <2> QED
      BY <1>2, <2>1, <2>2, <2>3, <2>4, <2>5, <2>6 DEF Next, Growth
  <1> QED
    BY <1>1, <1>2, MemoryInvariant, PTL DEF Spec

-----------------------------------------------------------------------------
(* The break of a process                                                  *)

\* An allocation under way has moved the break already; here it moves when
\* the allocation ends.
EndOf(p) == IF request # NULL /\ request.proc = p THEN request.old_end ELSE vm_end[p]

LEMMA SelfsEnd == OldBreak = EndOf(Self) /\ OldBreak' = EndOf(Self)'
  BY DEF OldBreak, EndOf

LEMMA AllocGrowKeepsEnds ==
    ASSUME MemInv, NEW p \in Procs, NEW r \in Regs, NEW size \in Sizes, AllocGrow(p, r, size),
           NEW q \in Procs
    PROVE  EndOf(q)' = EndOf(q)
  <1>1. /\ request = NULL
        /\ vm_end' = [vm_end EXCEPT ![p] = @ + AlignUp(size)]
        /\ request' = [proc |-> p, reg |-> r, size |-> size, old_end |-> vm_end[p],
                       pages |-> AlignUp(size) \div PAGESZ, frames |-> <<>>]
    BY DEF AllocGrow
  <1>2. request' # NULL
    <2>1. vm_end[p] \in Nat /\ AlignUp(size) \div PAGESZ \in Nat
      BY WholePages, TopBound DEF MemInv, SpaceInv
    <2>2. request' \in Requests
      BY <1>1, <2>1 DEF Requests
    <2> QED
      BY <2>2, MemoryAssumption
  <1>3. EndOf(q) = vm_end[q]
    BY <1>1 DEF EndOf
  <1>4. EndOf(q)' = IF request'.proc = q THEN request'.old_end ELSE vm_end'[q]
    BY <1>2 DEF EndOf
  <1>5. request'.proc = p /\ request'.old_end = vm_end[p]
    BY <1>1
  <1>6. p # q => vm_end'[q] = vm_end[q]
    BY <1>1 DEF MemInv, SpaceInv
  <1> QED
    BY <1>3, <1>4, <1>5, <1>6

LEMMA ObtainKeepsEnds ==
    ASSUME MemInv, TakeFrame \/ TakeVictim, NEW q \in Procs
    PROVE  EndOf(q)' = EndOf(q)
  <1>1. PICK fpn \in FrameNumbers : Obtain(fpn)
    BY ObtainsNumber
  <1>2. request # NULL /\ request \in Requests /\ UNCHANGED spaceVars
    BY DEF TakeFrame, TakeVictim, Requested, MemInv, RequestInv
  <1>3. request'.proc = request.proc /\ request'.old_end = request.old_end
    BY <1>1, <1>2 DEF Obtain, Requests
  <1>4. request' # NULL
    BY <1>1, <1>2, ObtainKeepsRequest DEF TakeFrame, TakeVictim
  <1> QED
    BY <1>2, <1>3, <1>4 DEF EndOf, spaceVars

\* The break returns to where it was.
LEMMA OutOfMemoryKeepsEnds ==
    ASSUME MemInv, OutOfMemory, NEW q \in Procs
    PROVE  EndOf(q)' = EndOf(q)
  <1>1. /\ request # NULL /\ request' = NULL
        /\ vm_end' = [vm_end EXCEPT ![request.proc] = request.old_end]
    BY DEF OutOfMemory, Requested, BreakRestored
  <1>2. EndOf(q)' = vm_end'[q]
    BY <1>1 DEF EndOf
  <1>3. EndOf(q) = IF request.proc = q THEN request.old_end ELSE vm_end[q]
    BY <1>1 DEF EndOf
  <1>4. vm_end'[q] = IF request.proc = q THEN request.old_end ELSE vm_end[q]
    BY <1>1 DEF MemInv, SpaceInv
  <1> QED
    BY <1>2, <1>3, <1>4

LEMMA FinishGrowthMovesEnd ==
    ASSUME MemInv, FinishGrowth, NEW q \in Procs
    PROVE  /\ EndOf(q) = IF q = request.proc THEN request.old_end ELSE vm_end[q]
           /\ EndOf(q)' = vm_end[q]
  <1>1. request # NULL /\ request' = NULL /\ vm_end' = vm_end
    BY DEF FinishGrowth
  <1> QED
    BY <1>1 DEF EndOf

-----------------------------------------------------------------------------
(* One process's address space                                             *)

\* The address space's operators are those of the memory.
LEMMA SameOperators ==
    /\ \A list, size : AS!Fits(list, size) = Fits(list, size)
    /\ \A list, size : AS!TakenRegion(list, size) = TakenRegion(list, size)
    /\ \A list, size : AS!AfterTaking(list, size) = AfterTaking(list, size)
    /\ \A list, rg : AS!Overlaps(list, rg) = Overlaps(list, rg)
    /\ \A list, rg : AS!enlist_vm_rg_node(list, rg) = enlist_vm_rg_node(list, rg)
    /\ \A list, rg : AS!enlist_vm_freerg_list(list, rg) = enlist_vm_freerg_list(list, rg)
    /\ \A a, b : AS!Region(a, b) = Region(a, b)
    /\ \A size : AS!AlignUp(size) = AlignUp(size)
    /\ AS!Freed = Freed
  <1>1. \A list, size : AS!Fits(list, size) = Fits(list, size)
    BY DEF AS!Fits, Fits
  <1>2. \A list, size : AS!FirstFit(list, size) = FirstFit(list, size)
    BY DEF AS!FirstFit, FirstFit, AS!Fits, Fits
  <1>3. \A a, b : AS!Region(a, b) = Region(a, b)
    BY DEF AS!Region, Region
  <1>4. \A list, size : AS!TakenRegion(list, size) = TakenRegion(list, size)
    BY <1>2, <1>3, Zenon DEF AS!TakenRegion, TakenRegion
  <1>5. \A list, size : AS!AfterTaking(list, size) = AfterTaking(list, size)
    BY <1>2, Zenon DEF AS!AfterTaking, AfterTaking
  <1>6. \A list, rg : AS!Overlaps(list, rg) = Overlaps(list, rg)
    BY Zenon DEF AS!Overlaps, Overlaps
  <1>7. \A list, rg : AS!enlist_vm_rg_node(list, rg) = enlist_vm_rg_node(list, rg)
    BY DEF AS!enlist_vm_rg_node, enlist_vm_rg_node
  <1>8. \A list, rg : AS!enlist_vm_freerg_list(list, rg) = enlist_vm_freerg_list(list, rg)
    <2>1. \A list, k, rg : AS!InsertAt(list, k, rg) = InsertAt(list, k, rg)
      BY Zenon DEF AS!InsertAt, InsertAt
    <2>2. \A list, k : AS!RemoveAt(list, k) = RemoveAt(list, k)
      BY Zenon DEF AS!RemoveAt, RemoveAt
    <2>3. \A list, rg : AS!Position(list, rg) = Position(list, rg)
      BY Zenon DEF AS!Position, Position
    <2>4. \A list, k : AS!MergeNext(list, k) = MergeNext(list, k)
      BY <2>2, Zenon DEF AS!MergeNext, MergeNext
    <2>5. \A list, k : AS!MergePrevious(list, k) = MergePrevious(list, k)
      BY <2>2, Zenon DEF AS!MergePrevious, MergePrevious
    <2> QED
      BY <2>1, <2>3, <2>4, <2>5, Zenon DEF AS!enlist_vm_freerg_list, enlist_vm_freerg_list
  <1>9. \A size : AS!AlignUp(size) = AlignUp(size)
    BY DEF AS!AlignUp, AlignUp
  <1>10. AS!Freed = Freed
    BY <1>3 DEF AS!Freed, Freed
  <1> QED
    BY <1>1, <1>3, <1>4, <1>5, <1>6, <1>7, <1>8, <1>9, <1>10

LEMMA InitImplements == Init => AS!ASInit
  BY SelfAssumption DEF Init, AS!ASInit, AS!Region, Region, OldBreak

\* A step that leaves Self's part alone is no step of its address space.
LEMMA OthersStutter ==
    ASSUME vm_freerg_list'[Self] = vm_freerg_list[Self], symrgtbl'[Self] = symrgtbl[Self],
           OldBreak' = OldBreak
    PROVE  UNCHANGED AS!asVars
  BY DEF AS!asVars

LEMMA AllocReuseImplements ==
    ASSUME MemInv, NEW p \in Procs, NEW r \in Regs, NEW size \in Sizes, AllocReuse(p, r, size)
    PROVE  AS!ASNext \/ UNCHANGED AS!asVars
  <1>1. /\ vm_freerg_list' = [vm_freerg_list EXCEPT ![p] = AfterTaking(vm_freerg_list[p], size)]
        /\ symrgtbl' = [symrgtbl EXCEPT ![p][r] = TakenRegion(vm_freerg_list[p], size)]
        /\ OldBreak' = OldBreak /\ Fits(vm_freerg_list[p], size) # {}
    BY DEF AllocReuse, Take, OldBreak
  <1>2. /\ vm_freerg_list \in [Procs -> Seq(RegionsUpTo(MaxBrk))]
        /\ symrgtbl \in [Procs -> [Regs -> RegionsUpTo(MaxBrk)]]
    BY DEF MemInv, SpaceInv
  <1>3. CASE p = Self
    <2>1. /\ vm_freerg_list'[Self] = AfterTaking(vm_freerg_list[Self], size)
          /\ symrgtbl'[Self] = [symrgtbl[Self] EXCEPT ![r] = TakenRegion(vm_freerg_list[Self], size)]
          /\ Fits(vm_freerg_list[Self], size) # {}
      BY <1>1, <1>2, <1>3
    <2>2. AS!Reuse(r, size)
      BY <1>1, <2>1, SameOperators DEF AS!Reuse
    <2> QED
      BY <2>2 DEF AS!ASNext
  <1>4. CASE p # Self
    <2>1. vm_freerg_list'[Self] = vm_freerg_list[Self] /\ symrgtbl'[Self] = symrgtbl[Self]
      BY <1>1, <1>2, <1>4, SelfAssumption
    <2> QED
      BY <1>1, <2>1, OthersStutter
  <1> QED
    BY <1>3, <1>4

\* Nothing of an address space changes before the pages of an allocation are
\* mapped, or when it fails.
LEMMA GrowthStutters ==
    ASSUME MemInv,
           \/ \E p \in Procs, r \in Regs, size \in Sizes : AllocGrow(p, r, size)
           \/ TakeFrame \/ TakeVictim \/ OutOfMemory
    PROVE  UNCHANGED AS!asVars
  <1>1. vm_freerg_list' = vm_freerg_list /\ symrgtbl' = symrgtbl
    BY DEF AllocGrow, TakeFrame, TakeVictim, OutOfMemory, spaceVars
  <1>2. OldBreak' = OldBreak
    BY SelfAssumption, SelfsEnd, AllocGrowKeepsEnds, ObtainKeepsEnds, OutOfMemoryKeepsEnds
  <1> QED
    BY <1>1, <1>2, OthersStutter

\* The end of a growth is the growth of the process's address space: what
\* __alloc had found when it asked for pages still holds.
LEMMA FinishGrowthImplements ==
    ASSUME MemInv, FinishGrowth
    PROVE  AS!ASNext \/ UNCHANGED AS!asVars
  <1> DEFINE p == request.proc
             r == request.reg
             size == request.size
             new == Region(request.old_end, request.old_end + request.pages * PAGESZ)
             grown == enlist_vm_rg_node(vm_freerg_list[p], new)
  <1>1. /\ request # NULL /\ request \in Requests /\ p \in Procs /\ r \in Regs /\ size \in Sizes
        /\ request.pages * PAGESZ = AlignUp(size)
        /\ vm_end[p] = request.old_end + request.pages * PAGESZ
        /\ Fits(vm_freerg_list[p], size) = {}
        /\ ~ Overlaps(vm_freerg_list[p], Region(request.old_end, request.old_end + AlignUp(size)))
    BY DEF FinishGrowth, MemInv, RequestInv, Requests
  <1>2. /\ vm_freerg_list' = [vm_freerg_list EXCEPT ![p] = AfterTaking(grown, size)]
        /\ symrgtbl' = [symrgtbl EXCEPT ![p][r] = TakenRegion(grown, size)]
        /\ request' = NULL /\ UNCHANGED vm_end
    BY DEF FinishGrowth, Take
  <1>3. Fits(grown, size) # {}
    BY <1>1, GrownList
  <1>4. /\ vm_freerg_list \in [Procs -> Seq(RegionsUpTo(MaxBrk))]
        /\ symrgtbl \in [Procs -> [Regs -> RegionsUpTo(MaxBrk)]]
        /\ vm_end \in [Procs -> 0 .. MaxBrk]
    BY DEF MemInv, SpaceInv
  <1>5. OldBreak' = vm_end[Self]
    BY SelfAssumption, SelfsEnd, FinishGrowthMovesEnd
  <1>6. OldBreak = IF p = Self THEN request.old_end ELSE vm_end[Self]
    BY SelfAssumption, SelfsEnd, FinishGrowthMovesEnd
  <1>7. new = Region(request.old_end, request.old_end + AlignUp(size)) /\ new.end = vm_end[p]
    BY <1>1 DEF Region
  <1> HIDE DEF p, r, size, new
  <1>8. CASE p = Self
    <2>1. AS!NewPages(size) = new
      BY <1>6, <1>7, <1>8, SameOperators DEF AS!NewPages
    <2>2. new.end <= MaxBrk
      BY <1>4, <1>7, <1>8, SelfAssumption, TopBound
    <2>3. /\ vm_freerg_list'[Self] = AfterTaking(grown, size)
          /\ symrgtbl'[Self] = [symrgtbl[Self] EXCEPT ![r] = TakenRegion(grown, size)]
      <3> HIDE DEF grown
      <3> QED
        BY <1>1, <1>2, <1>4, <1>8
    <2>4. AS!BreakAfter(size) = vm_end[Self]
      BY <1>7, <1>8, <2>1 DEF AS!BreakAfter
    <2>5. AS!enlist_vm_rg_node(vm_freerg_list[Self], new) = grown
      BY <1>8, SameOperators
    <2>6. AS!Fits(vm_freerg_list[Self], size) = {} /\ ~ AS!Overlaps(vm_freerg_list[Self], new)
      BY <1>1, <1>7, <1>8, SameOperators
    <2> HIDE DEF grown
    <2>7. AS!Fits(grown, size) # {} /\ AS!TakenRegion(grown, size) = TakenRegion(grown, size)
          /\ AS!AfterTaking(grown, size) = AfterTaking(grown, size)
      BY <1>3, SameOperators
    <2>8. AS!Grow(r, size)
      BY <1>5, <2>1, <2>2, <2>3, <2>4, <2>5, <2>6, <2>7 DEF AS!Grow
    <2> QED
      BY <1>1, <2>8 DEF AS!ASNext
  <1>9. CASE p # Self
    <2> HIDE DEF grown
    <2>1. vm_freerg_list'[Self] = vm_freerg_list[Self] /\ symrgtbl'[Self] = symrgtbl[Self]
      BY <1>2, <1>4, <1>9, SelfAssumption
    <2> QED
      BY <1>5, <1>6, <1>9, <2>1, OthersStutter
  <1> QED
    BY <1>8, <1>9

LEMMA FreeImplements ==
    ASSUME MemInv, NEW p \in Procs, NEW r \in Regs, Free(p, r)
    PROVE  AS!ASNext \/ UNCHANGED AS!asVars
  <1> DEFINE rg == symrgtbl[p][r]
             list == enlist_vm_freerg_list(vm_freerg_list[p], rg)
  <1>1. rg.start # -1 /\ OldBreak' = OldBreak
    BY DEF Free, OldBreak
  <1>2. /\ vm_freerg_list \in [Procs -> Seq(RegionsUpTo(MaxBrk))]
        /\ symrgtbl \in [Procs -> [Regs -> RegionsUpTo(MaxBrk)]]
    BY DEF MemInv, SpaceInv
  <1>3. CASE rg.start >= rg.end
    BY <1>1, <1>3, OthersStutter DEF Free
  <1>4. CASE ~ (rg.start >= rg.end)
    <2>1. /\ vm_freerg_list' = [vm_freerg_list EXCEPT ![p] = list]
          /\ symrgtbl' = [symrgtbl EXCEPT ![p][r] = Freed]
      BY <1>4 DEF Free
    <2>2. rg.start < rg.end
      BY <1>2, <1>4, TopBound, RegionFacts
    <2> HIDE DEF list
    <2>3. CASE p = Self
      <3>1. /\ vm_freerg_list'[Self] = list
            /\ symrgtbl'[Self] = [symrgtbl[Self] EXCEPT ![r] = Freed]
        BY <1>2, <2>1, <2>3
      <3>2. AS!enlist_vm_freerg_list(vm_freerg_list[Self], symrgtbl[Self][r]) = list /\ AS!Freed = Freed
        BY <2>3, SameOperators DEF list
      <3>3. AS!Free(r)
        BY <1>1, <2>2, <2>3, <3>1, <3>2 DEF AS!Free
      <3> QED
        BY <3>3 DEF AS!ASNext
    <2>4. CASE p # Self
      <3>1. vm_freerg_list'[Self] = vm_freerg_list[Self] /\ symrgtbl'[Self] = symrgtbl[Self]
        BY <1>2, <2>1, <2>4, SelfAssumption
      <3> QED
        BY <1>1, <3>1, OthersStutter
    <2> QED
      BY <2>3, <2>4
  <1> QED
    BY <1>3, <1>4

\* Whatever programs run beside it and whatever becomes of its pages, every
\* process has an address space of its own: __alloc and __free change it as
\* AddressSpace says, an allocation under way and one that fails do not, and
\* nothing another process does changes it.
THEOREM AddressSpaceImplemented == Spec => ImplementsAddressSpace
  <1>1. ASSUME MemInv, [Next]_vars PROVE AS!ASNext \/ UNCHANGED AS!asVars
    <2>1. CASE Alloc
      BY <1>1, <2>1, AllocReuseImplements, GrowthStutters DEF Alloc
    <2>2. CASE Growth
      BY <1>1, <2>2, GrowthStutters, FinishGrowthImplements DEF Growth
    <2>3. CASE Release
      BY <1>1, <2>3, FreeImplements DEF Release
    <2>4. ASSUME NEW p \in Procs, NEW r \in Regs, NEW off \in Offsets,
                 Read(p, r, off) \/ \E v \in Values : Write(p, r, off, v)
          PROVE  UNCHANGED AS!asVars
      <3>1. UNCHANGED spaceVars /\ UNCHANGED request
        BY <2>4 DEF Read, Write
      <3> QED
        BY <3>1, OthersStutter DEF spaceVars, OldBreak
    <2>5. CASE UNCHANGED vars
      BY <2>5, OthersStutter DEF vars, spaceVars, OldBreak
    <2> QED
      BY <1>1, <2>1, <2>2, <2>3, <2>4, <2>5 DEF Next
  <1> QED
    BY <1>1, InitImplements, MemoryInvariant, PTL DEF Spec, ImplementsAddressSpace
-----------------------------------------------------------------------------
(* Counting                                                                *)

LEMMA SameCount ==
    ASSUME NEW A, NEW B, IsFiniteSet(A), NEW g \in [A -> B],
           \A a, b \in A : g[a] = g[b] => a = b,
           \A b \in B : \E a \in A : g[a] = b
    PROVE  IsFiniteSet(B) /\ Cardinality(B) = Cardinality(A)
  <1>1. g \in Bijection(A, B)
    BY DEF Bijection, Injection, Surjection, IsInjective
  <1>2. ExistsBijection(A, B)
    BY <1>1 DEF ExistsBijection
  <1> QED
    BY <1>2, FS_Bijection

LEMMA DisjointCount ==
    ASSUME NEW A, NEW B, IsFiniteSet(A), IsFiniteSet(B), A \cap B = {}
    PROVE  /\ IsFiniteSet(A \cup B)
           /\ Cardinality(A \cup B) = Cardinality(A) + Cardinality(B)
           /\ Cardinality(A) \in Nat /\ Cardinality(B) \in Nat
  <1>1. Cardinality(A) \in Nat /\ Cardinality(B) \in Nat
    BY FS_CardinalityType
  <1>2. Cardinality(A \cap B) = 0
    BY FS_EmptySet
  <1>3. /\ IsFiniteSet(A \cup B)
        /\ Cardinality(A \cup B) = Cardinality(A) + Cardinality(B) - Cardinality(A \cap B)
    BY FS_Union
  <1> QED
    BY <1>1, <1>2, <1>3

\* Where f stands in a list, and how often.
At(s, f) == {k \in DOMAIN s : s[k] = f}

LEMMA AtFinite ==
    ASSUME NEW S, NEW s \in Seq(S), NEW f
    PROVE  /\ IsFiniteSet(At(s, f)) /\ Cardinality(At(s, f)) \in Nat
           /\ At(s, f) \subseteq 1 .. Len(s) /\ Len(s) \in Nat
  <1>1. Len(s) \in Nat /\ DOMAIN s = 1 .. Len(s)
    BY LenProperties
  <1>2. At(s, f) \in SUBSET (1 .. Len(s)) /\ IsFiniteSet(1 .. Len(s))
    <2>1. 1 \in Int /\ Len(s) \in Int
      BY <1>1
    <2> QED
      BY <1>1, <2>1, FS_Interval DEF At
  <1> QED
    BY <1>1, <1>2, FS_Subset, FS_CardinalityType

LEMMA CountBoth ==
    ASSUME NEW S, NEW s \in Seq(S), NEW t \in Seq(S), NEW f
    PROVE  Cardinality(At(s \o t, f)) = Cardinality(At(s, f)) + Cardinality(At(t, f))
  <1> DEFINE m == Len(s)
             n == Len(t)
             moved == {k + m : k \in At(t, f)}
             g == [k \in At(t, f) |-> k + m]
  <1>1. m \in Nat /\ n \in Nat /\ DOMAIN s = 1 .. m /\ DOMAIN t = 1 .. n
    BY LenProperties
  <1>2. /\ DOMAIN (s \o t) = 1 .. (m + n)
        /\ \A k \in 1 .. (m + n) : (s \o t)[k] = IF k <= m THEN s[k] ELSE t[k - m]
    BY ConcatProperties, LenProperties
  <1>3. /\ IsFiniteSet(At(s, f)) /\ IsFiniteSet(At(t, f))
        /\ At(s, f) \subseteq 1 .. m /\ At(t, f) \subseteq 1 .. n
    BY AtFinite
  <1> HIDE DEF m, n
  <1>4. IsFiniteSet(moved) /\ Cardinality(moved) = Cardinality(At(t, f))
    <2>1. g \in [At(t, f) -> moved]
      OBVIOUS
    <2>2. \A a, b \in At(t, f) : g[a] = g[b] => a = b
      BY <1>1, <1>3
    <2>3. \A b \in moved : \E a \in At(t, f) : g[a] = b
      OBVIOUS
    <2> HIDE DEF g, moved
    <2> QED
      BY <1>3, <2>1, <2>2, <2>3, SameCount
  <1>5. At(s, f) \cap moved = {}
    BY <1>1, <1>3
  <1>6. At(s \o t, f) = At(s, f) \cup moved
    <2>1. ASSUME NEW k \in At(s \o t, f) PROVE k \in At(s, f) \cup moved
      <3>1. k \in 1 .. (m + n) /\ (s \o t)[k] = f
        BY <1>2, <2>1 DEF At
      <3>2. CASE k <= m
        BY <1>1, <1>2, <3>1, <3>2 DEF At
      <3>3. CASE ~ (k <= m)
        <4>1. k - m \in 1 .. n /\ t[k - m] = f /\ (k - m) + m = k
          BY <1>1, <1>2, <3>1, <3>3
        <4> QED
          BY <1>1, <4>1 DEF At
      <3> QED
        BY <3>2, <3>3
    <2>2. ASSUME NEW k \in At(s, f) PROVE k \in At(s \o t, f)
      BY <1>1, <1>2, <2>2 DEF At
    <2>3. ASSUME NEW j \in At(t, f) PROVE j + m \in At(s \o t, f)
      <3>1. j \in 1 .. n /\ t[j] = f
        BY <1>1 DEF At
      <3>2. j + m \in 1 .. (m + n) /\ ~ (j + m <= m) /\ (j + m) - m = j
        BY <1>1, <3>1
      <3> QED
        BY <1>2, <3>1, <3>2 DEF At
    <2> QED
      BY <2>1, <2>2, <2>3
  <1> HIDE DEF moved
  <1> QED
    BY <1>3, <1>4, <1>5, <1>6, DisjointCount

LEMMA CountOne ==
    ASSUME NEW S, NEW x \in S, NEW f
    PROVE  /\ <<x>> \in Seq(S)
           /\ Cardinality(At(<<x>>, f)) = IF x = f THEN 1 ELSE 0
  <1>1. <<x>> \in Seq(S) /\ DOMAIN <<x>> = {1} /\ <<x>>[1] = x
    OBVIOUS
  <1>2. At(<<x>>, f) = IF x = f THEN {1} ELSE {}
    BY <1>1 DEF At
  <1> QED
    BY <1>1, <1>2, FS_EmptySet, FS_Singleton

\* Counting from the head: what MEMPHY_get_freefp takes is one less.
LEMMA CountHead ==
    ASSUME NEW S, NEW s \in Seq(S), s # <<>>, NEW f
    PROVE  Cardinality(At(s, f)) =
              (IF Head(s) = f THEN 1 ELSE 0) + Cardinality(At(Tail(s), f))
  <1>1. /\ Head(s) \in S /\ Tail(s) \in Seq(S) /\ s = <<Head(s)>> \o Tail(s)
    BY HeadTailProperties, ConcatProperties
  <1>2. <<Head(s)>> \in Seq(S) /\ Cardinality(At(<<Head(s)>>, f)) = IF Head(s) = f THEN 1 ELSE 0
    BY <1>1, CountOne
  <1>3. Cardinality(At(<<Head(s)>> \o Tail(s), f)) =
           Cardinality(At(<<Head(s)>>, f)) + Cardinality(At(Tail(s), f))
    BY <1>1, <1>2, CountBoth, Zenon
  <1> QED
    BY <1>1, <1>2, <1>3, Zenon

LEMMA CountReverse ==
    ASSUME NEW S, NEW s \in Seq(S), NEW f
    PROVE  Cardinality(At(Reverse(s), f)) = Cardinality(At(s, f))
  <1> DEFINE n == Len(s)
             g == [k \in At(s, f) |-> (n - k) + 1]
  <1>1. /\ n \in Nat /\ DOMAIN s = 1 .. n /\ DOMAIN Reverse(s) = 1 .. n
        /\ \A k \in 1 .. n : Reverse(s)[k] = s[(n - k) + 1]
    BY LenProperties DEF Reverse
  <1>2. IsFiniteSet(At(s, f)) /\ At(s, f) \subseteq 1 .. n
    BY AtFinite
  <1> HIDE DEF n
  <1>3. \A k \in 1 .. n : (n - k) + 1 \in 1 .. n /\ (n - ((n - k) + 1)) + 1 = k
    BY <1>1
  <1>4. g \in [At(s, f) -> At(Reverse(s), f)]
    <2>1. ASSUME NEW k \in At(s, f) PROVE (n - k) + 1 \in At(Reverse(s), f)
      BY <1>1, <1>3 DEF At
    <2> QED
      BY <2>1
  <1>5. \A a, b \in At(s, f) : g[a] = g[b] => a = b
    BY <1>1, <1>2
  <1>6. \A b \in At(Reverse(s), f) : \E a \in At(s, f) : g[a] = b
    <2>1. ASSUME NEW b \in At(Reverse(s), f) PROVE \E a \in At(s, f) : g[a] = b
      <3>1. (n - b) + 1 \in At(s, f) /\ g[(n - b) + 1] = b
        BY <1>1, <1>3 DEF At
      <3> QED
        BY <3>1
    <2> QED
      BY <2>1
  <1> HIDE DEF g
  <1> QED
    BY <1>2, <1>4, <1>5, <1>6, SameCount

-----------------------------------------------------------------------------
(* Where frames are                                                        *)

\* Every frame number fits into an entry.  A RAM of PAGING_MEMRAMSZ bytes has
\* just FpnRange frames; with more of them, entries would mix them up.
FewFrames == NumFrames <= FpnRange /\ IsFiniteSet(Procs)

LEMMA FramesFit == FewFrames => FrameNumbers = 0 .. (FpnRange - 1)
  <1>1. FpnRange \in Nat /\ NumFrames \in Nat
    BY MemoryAssumption DEF FpnRange
  <1> QED
    BY <1>1 DEF FewFrames, FrameNumbers

LEMMA MappedByFinite ==
    ASSUME FewFrames, NEW f
    PROVE  IsFiniteSet(MappedBy(f)) /\ Cardinality(MappedBy(f)) \in Nat
  <1>1. IsFiniteSet(Pages)
    <2>1. 0 \in Int /\ MaxPgn - 1 \in Int
      BY TopBound
    <2> QED
      BY <2>1, FS_Interval DEF Pages
  <1>2. IsFiniteSet(Procs \X Pages)
    BY <1>1, FS_Product DEF FewFrames
  <1>3. MappedBy(f) \in SUBSET (Procs \X Pages)
    BY DEF MappedBy
  <1> QED
    BY <1>2, <1>3, FS_Subset, FS_CardinalityType

\* The places of a frame, counted list by list.
LEMMA PlacesCounted ==
    ASSUME MemInv, NEW f
    PROVE  /\ Listed(f) = Cardinality(At(free_ram, f)) /\ Listed(f) \in Nat
           /\ HeldBack(f) = (IF request = NULL THEN 0 ELSE Cardinality(At(request.frames, f)))
           /\ HeldBack(f) \in Nat
  <1>1. Listed(f) = Cardinality(At(free_ram, f)) /\ Listed(f) \in Nat
    BY AtFinite DEF Listed, At, MemInv, DeviceInv
  <1>2. HeldBack(f) = (IF request = NULL THEN 0 ELSE Cardinality(At(request.frames, f)))
    BY DEF HeldBack, At
  <1>3. request # NULL => Cardinality(At(request.frames, f)) \in Nat
    BY AtFinite DEF MemInv, RequestInv
  <1> QED
    BY <1>1, <1>2, <1>3

\* Where nothing that counts changes.
LEMMA NothingMoves ==
    ASSUME UNCHANGED <<pgd, free_ram>>, NEW f, HeldBack(f)' = HeldBack(f)
    PROVE  Places(f)' = Places(f)
  BY DEF Places, Listed, MappedBy, InRam

LEMMA AllocKeepsPlaces ==
    ASSUME MemInv, NEW p \in Procs, NEW r \in Regs, NEW size \in Sizes, NEW f,
           AllocReuse(p, r, size) \/ AllocGrow(p, r, size)
    PROVE  Places(f)' = Places(f)
  <1>1. UNCHANGED <<pgd, free_ram>> /\ request = NULL
    BY DEF AllocReuse, AllocGrow, pageVars, devVars
  <1>2. request' = NULL \/ request'.frames = <<>>
    BY DEF AllocReuse, AllocGrow
  <1>3. HeldBack(f)' = 0
    <2>1. At(<<>>, f) = {}
      BY DEF At
    <2>2. request' # NULL => Cardinality({k \in DOMAIN request'.frames : request'.frames[k] = f}) = 0
      BY <1>2, <2>1, FS_EmptySet DEF At
    <2> QED
      BY <2>2 DEF HeldBack
  <1>4. HeldBack(f) = 0
    BY <1>1 DEF HeldBack
  <1> QED
    BY <1>1, <1>3, <1>4, NothingMoves

\* A frame moves from the list to the allocation.
LEMMA TakeFrameKeepsPlaces ==
    ASSUME MemInv, FewFrames, TakeFrame, NEW f
    PROVE  Places(f)' = Places(f)
  <1> DEFINE h == Head(free_ram)
             one == IF h = f THEN 1 ELSE 0
  <1>1. /\ request # NULL /\ request \in Requests /\ request.frames \in Seq(FrameNumbers)
        /\ free_ram \in Seq(FrameNumbers) /\ free_ram # <<>>
    BY DEF TakeFrame, Requested, MemInv, RequestInv, DeviceInv
  <1>2. h \in FrameNumbers
    BY <1>1, HeadRest
  <1>3. /\ request' = [request EXCEPT !.frames = <<h>> \o request.frames]
        /\ free_ram' = Tail(free_ram) /\ pgd' = pgd
    BY DEF TakeFrame, Obtain, MEMPHY_get_freefp, pageVars
  <1>4. request' # NULL
    BY <1>2, ObtainKeepsRequest DEF TakeFrame
  <1>5. request'.frames = <<h>> \o request.frames
    BY <1>1, <1>3 DEF Requests
  <1>6. Cardinality(At(free_ram, f)) = one + Cardinality(At(Tail(free_ram), f))
    BY <1>1, CountHead
  <1>7. <<h>> \in Seq(FrameNumbers) /\ Cardinality(At(<<h>>, f)) = one
    BY <1>2, CountOne
  <1>8. Cardinality(At(<<h>> \o request.frames, f)) =
           Cardinality(At(<<h>>, f)) + Cardinality(At(request.frames, f))
    BY <1>1, <1>7, CountBoth, Zenon
  <1>9. Listed(f)' = Cardinality(At(Tail(free_ram), f)) /\ Listed(f) = Cardinality(At(free_ram, f))
    BY <1>3 DEF Listed, At
  <1>10. /\ HeldBack(f)' = Cardinality(At(<<h>> \o request.frames, f))
         /\ HeldBack(f) = Cardinality(At(request.frames, f))
    BY <1>1, <1>4, <1>5 DEF HeldBack, At
  <1>11. MappedBy(f)' = MappedBy(f)
    BY <1>3 DEF MappedBy, InRam
  <1>12. /\ Cardinality(At(Tail(free_ram), f)) \in Nat /\ Cardinality(At(request.frames, f)) \in Nat
         /\ one \in Nat
    BY <1>1, AtFinite, HeadTailProperties
  <1> HIDE DEF one, h
  <1>13. Cardinality(MappedBy(f)) \in Nat
    BY MappedByFinite
  <1>14. Places(f) = Cardinality(At(free_ram, f)) + Cardinality(MappedBy(f))
                       + Cardinality(At(request.frames, f))
    BY <1>9, <1>10 DEF Places
  <1>15. Places(f)' = Cardinality(At(Tail(free_ram), f)) + Cardinality(MappedBy(f))
                        + Cardinality(At(<<h>> \o request.frames, f))
    BY <1>9, <1>10, <1>11 DEF Places
  <1> QED
    BY <1>6, <1>7, <1>8, <1>12, <1>13, <1>14, <1>15

\* The allocation's frames go to pages that had no entry.
LEMMA FinishGrowthKeepsPlaces ==
    ASSUME MemInv, FewFrames, FinishGrowth, ~ GrowsOverPage, NEW f
    PROVE  Places(f)' = Places(f)
  <1>0. PICK p \in Procs : p = request.proc
    BY DEF FinishGrowth, MemInv, RequestInv, Requests
  <1> DEFINE first == PGN(request.old_end)
             frames == request.frames
             count == Len(frames)
             table == Mapped(p, first, frames)
             g == [k \in At(frames, f) |-> <<p, (first + k) - 1>>]
             new == {<<p, (first + k) - 1>> : k \in At(frames, f)}
  <1>1. /\ request # NULL /\ request \in Requests /\ frames \in Seq(FrameNumbers)
        /\ request.pages = count
    BY DEF FinishGrowth, MemInv, RequestInv, Requests
  <1>2. first \in Pages /\ count \in Nat /\ first + count <= MaxPgn /\ first \in Nat /\ MaxPgn \in Nat
    BY <1>1, NewPagesFit, TopBound DEF Pages
  <1>3. /\ pgd' = [pgd EXCEPT ![p] = table] /\ free_ram' = free_ram /\ request' = NULL
    BY <1>0 DEF FinishGrowth, devVars
  <1>4. pgd \in [Procs -> [Pages -> Ptes]]
    BY DEF MemInv, PageInv
  <1>5. \A n \in Pages : n - first \in 0 .. (count - 1) => ~ pgd[p][n].present
    BY <1>0, <1>1 DEF GrowsOverPage
  <1>6. \A k \in 1 .. count : frames[k] \in 0 .. (FpnRange - 1)
    BY <1>1, FramesFit, ElementOfSeq
  <1> HIDE DEF first, count, frames, table
  <1>7. ASSUME NEW k \in 1 .. count, NEW n, n = (first + k) - 1
        PROVE  /\ n \in Pages /\ InRam(p, n)' /\ FPN(pgd'[p][n]) = frames[k]
               /\ ~ pgd[p][n].present
    <2>1. /\ n \in Pages /\ n - first \in 0 .. (count - 1) /\ (n - first) + 1 = k
      BY <1>2, <1>7 DEF Pages
    <2>2. table[n] = pte_set_fpn(pgd[p][n], frames[k])
      BY <2>1 DEF table, Mapped, count, frames
    <2>3. pgd[p][n] \in Ptes /\ frames[k] \in 0 .. (FpnRange - 1) /\ frames[k] \in Nat
      <3>1. 0 .. (FpnRange - 1) \subseteq Nat
        BY DEF FpnRange
      <3> QED
        BY <1>1, <1>4, <1>6, <2>1, <3>1
    <2>4. FPN(table[n]) = frames[k]
      BY <2>2, <2>3, PteFacts
    <2>5. table[n].present /\ ~ table[n].swapped
      BY <2>2 DEF pte_set_fpn
    <2>6. pgd'[p][n] = table[n]
      BY <1>1, <1>3, <1>4, <2>1
    <2>7. ~ pgd[p][n].present
      BY <1>5, <2>1
    <2> QED
      BY <2>1, <2>4, <2>5, <2>6, <2>7 DEF InRam
  <1>8. ASSUME NEW q \in Procs, NEW n \in Pages, ~ (q = p /\ n - first \in 0 .. (count - 1))
        PROVE  pgd'[q][n] = pgd[q][n]
    <2>1. n - first \notin 0 .. (count - 1) => table[n] = pgd[p][n]
      BY DEF table, Mapped, count, frames
    <2> QED
      BY <1>1, <1>3, <1>4, <1>8, <2>1
  <1>9. IsFiniteSet(At(frames, f)) /\ At(frames, f) \subseteq 1 .. count /\ Cardinality(At(frames, f)) \in Nat
    BY <1>1, AtFinite DEF count
  <1>10. IsFiniteSet(new) /\ Cardinality(new) = Cardinality(At(frames, f))
    <2>1. g \in [At(frames, f) -> new]
      OBVIOUS
    <2>2. \A a, b \in At(frames, f) : g[a] = g[b] => a = b
      BY <1>2, <1>9
    <2>3. \A b \in new : \E a \in At(frames, f) : g[a] = b
      OBVIOUS
    <2> HIDE DEF g, new
    <2> QED
      BY <1>9, <2>1, <2>2, <2>3, SameCount
  <1>11. MappedBy(f)' = MappedBy(f) \cup new
    <2>1. ASSUME NEW q \in Procs, NEW n \in Pages
          PROVE  <<q, n>> \in MappedBy(f)' <=> <<q, n>> \in MappedBy(f) \cup new
      <3>1. /\ <<q, n>> \in MappedBy(f) <=> InRam(q, n) /\ FPN(pgd[q][n]) = f
            /\ <<q, n>> \in MappedBy(f)' <=> InRam(q, n)' /\ FPN(pgd'[q][n]) = f
        BY DEF MappedBy
      <3>2. CASE q = p /\ n - first \in 0 .. (count - 1)
        <4> DEFINE k == (n - first) + 1
        <4>1. k \in 1 .. count /\ (first + k) - 1 = n
          BY <1>2, <3>2 DEF Pages
        <4>2. \A j \in 1 .. count : (first + j) - 1 = n => j = k
          BY <1>2 DEF Pages
        <4> HIDE DEF k
        <4>3. InRam(q, n)' /\ FPN(pgd'[q][n]) = frames[k] /\ ~ pgd[q][n].present
          BY <1>7, <3>2, <4>1
        <4>4. <<q, n>> \in new <=> frames[k] = f
          <5>1. <<q, n>> \in new <=> \E j \in At(frames, f) : (first + j) - 1 = n
            BY <3>2
          <5>2. k \in At(frames, f) <=> frames[k] = f
            BY <1>1, <4>1, LenProperties DEF At, count
          <5> QED
            BY <1>9, <4>1, <4>2, <5>1, <5>2
        <4>5. ~ InRam(q, n)
          BY <4>3 DEF InRam
        <4> QED
          BY <3>1, <4>3, <4>4, <4>5
      <3>3. CASE ~ (q = p /\ n - first \in 0 .. (count - 1))
        <4>1. pgd'[q][n] = pgd[q][n]
          BY <1>8, <3>3
        <4>2. <<q, n>> \notin new
          <5>1. \A k \in 1 .. count : ((first + k) - 1) - first \in 0 .. (count - 1)
            BY <1>2
          <5> QED
            BY <1>9, <3>3, <5>1
        <4> QED
          BY <3>1, <4>1, <4>2 DEF InRam
      <3> QED
        BY <3>2, <3>3
    <2>2. new \subseteq Procs \X Pages
      BY <1>1, <1>7, <1>9
    <2>3. MappedBy(f)' \subseteq Procs \X Pages /\ MappedBy(f) \subseteq Procs \X Pages
      BY DEF MappedBy
    <2> HIDE DEF new
    <2> QED
      BY <2>1, <2>2, <2>3
  <1>12. MappedBy(f) \cap new = {}
    BY <1>7, <1>9 DEF MappedBy, InRam
  <1>13. IsFiniteSet(MappedBy(f)) /\ Cardinality(MappedBy(f)) \in Nat
    BY MappedByFinite
  <1> HIDE DEF new
  <1>14. Cardinality(MappedBy(f)') = Cardinality(MappedBy(f)) + Cardinality(At(frames, f))
    BY <1>10, <1>11, <1>12, <1>13, DisjointCount
  <1>15. HeldBack(f)' = 0 /\ HeldBack(f) = Cardinality(At(frames, f))
    BY <1>1, <1>3 DEF HeldBack, At, frames
  <1>16. Listed(f)' = Listed(f) /\ Listed(f) \in Nat
    BY <1>3, PlacesCounted DEF Listed
  <1> QED
    BY <1>9, <1>13, <1>14, <1>15, <1>16 DEF Places

\* The victim's frame moves to another page.
LEMMA ReplacePageKeepsPlaces ==
    ASSUME MemInv, FewFrames, NEW p \in Procs, NEW n \in Pages, ReplacePage(p, n),
           ~ pgd[p][n].present, InRam(p, Victim(p)), NEW f
    PROVE  Cardinality(MappedBy(f))' = Cardinality(MappedBy(f))
  <1> DEFINE victim == Victim(p)
             vicfpn == FPN(pgd[p][victim])
             pte == pte_set_swap(pgd[p][victim], Head(free_swp))
             evicted == [pgd[p] EXCEPT ![victim] = pte]
             table == [evicted EXCEPT ![n] = pte_set_fpn(evicted[n], vicfpn)]
  <1>1. victim \in Pages /\ pgd \in [Procs -> [Pages -> Ptes]]
    <2>1. fifo_pgn[p] \in Seq(Pages) /\ fifo_pgn[p] # <<>>
      BY DEF ReplacePage, MemInv, PageInv
    <2> QED
      BY <2>1, FrontLast DEF Victim, MemInv, PageInv
  <1>2. victim # n /\ InRam(p, victim)
    BY DEF InRam
  <1>3. pgd' = [pgd EXCEPT ![p] = table]
    BY DEF ReplacePage
  <1>4. pte.swapped
    BY DEF pte_set_swap
  <1> HIDE DEF victim, pte
  <1>5. /\ table[n] = pte_set_fpn(pgd[p][n], vicfpn) /\ table[victim] = pte
        /\ \A m \in Pages : m # n /\ m # victim => table[m] = pgd[p][m]
    BY <1>1, <1>2
  <1> HIDE DEF table
  <1>6. FPN(table[n]) = vicfpn /\ table[n].present /\ ~ table[n].swapped
    <2>1. pgd[p][n] \in Ptes /\ pgd[p][victim] \in Ptes
      BY <1>1
    <2>2. vicfpn \in 0 .. (FpnRange - 1)
      BY <2>1, PteFacts
    <2>3. vicfpn \in Nat
      <3>1. 0 .. (FpnRange - 1) \subseteq Nat
        BY DEF FpnRange
      <3> QED
        BY <2>2, <3>1
    <2> HIDE DEF vicfpn
    <2>4. FPN(pte_set_fpn(pgd[p][n], vicfpn)) = vicfpn
      BY <2>1, <2>2, <2>3, PteFacts
    <2> QED
      BY <1>5, <2>4 DEF pte_set_fpn
  <1>7. ASSUME NEW q \in Procs, NEW m \in Pages
        PROVE  /\ <<q, m>> \in MappedBy(f) <=> InRam(q, m) /\ FPN(pgd[q][m]) = f
               /\ <<q, m>> \in MappedBy(f)' <=> InRam(q, m)' /\ FPN(pgd'[q][m]) = f
    BY DEF MappedBy
  <1>8. MappedBy(f)' \subseteq Procs \X Pages /\ MappedBy(f) \subseteq Procs \X Pages
    BY DEF MappedBy
  <1>9. \A q \in Procs, m \in Pages : ~ (q = p /\ (m = n \/ m = victim)) => pgd'[q][m] = pgd[q][m]
    BY <1>1, <1>3, <1>5
  <1>10. pgd'[p][n] = table[n] /\ pgd'[p][victim] = pte
    BY <1>1, <1>3, <1>5
  <1>11. <<p, victim>> \notin MappedBy(f)' /\ <<p, n>> \notin MappedBy(f)
    BY <1>1, <1>4, <1>7, <1>10 DEF InRam
  <1>12. /\ <<p, victim>> \in MappedBy(f) <=> vicfpn = f
         /\ <<p, n>> \in MappedBy(f)' <=> vicfpn = f
    BY <1>1, <1>2, <1>6, <1>7, <1>10 DEF InRam
  <1>13. \A q \in Procs, m \in Pages :
            ~ (q = p /\ (m = n \/ m = victim)) => (<<q, m>> \in MappedBy(f)' <=> <<q, m>> \in MappedBy(f))
    BY <1>7, <1>9 DEF InRam
  <1> HIDE DEF vicfpn
  <1>14. MappedBy(f)' = IF vicfpn = f THEN (MappedBy(f) \ {<<p, victim>>}) \cup {<<p, n>>}
                                    ELSE MappedBy(f)
    <2> DEFINE moved == IF vicfpn = f THEN (MappedBy(f) \ {<<p, victim>>}) \cup {<<p, n>>}
                                      ELSE MappedBy(f)
    <2>1. ASSUME NEW q \in Procs, NEW m \in Pages
          PROVE  <<q, m>> \in MappedBy(f)' <=> <<q, m>> \in moved
      <3>1. <<q, m>> = <<p, n>> <=> q = p /\ m = n
        OBVIOUS
      <3>2. <<q, m>> = <<p, victim>> <=> q = p /\ m = victim
        OBVIOUS
      <3> QED
        BY <1>2, <1>11, <1>12, <1>13, <3>1, <3>2
    <2>2. moved \subseteq Procs \X Pages
      BY <1>8
    <2> HIDE DEF moved
    <2>3. MappedBy(f)' = moved
      BY <1>8, <2>1, <2>2
    <2> QED
      BY <2>3 DEF moved
  <1>15. IsFiniteSet(MappedBy(f)) /\ Cardinality(MappedBy(f)) \in Nat
    BY MappedByFinite
  <1>16. CASE vicfpn = f
    <2>1. /\ IsFiniteSet(MappedBy(f) \ {<<p, victim>>})
          /\ Cardinality(MappedBy(f) \ {<<p, victim>>}) = Cardinality(MappedBy(f)) - 1
      BY <1>12, <1>15, <1>16, FS_RemoveElement
    <2>2. <<p, n>> \notin MappedBy(f) \ {<<p, victim>>}
      BY <1>11
    <2>3. Cardinality((MappedBy(f) \ {<<p, victim>>}) \cup {<<p, n>>}) =
             Cardinality(MappedBy(f) \ {<<p, victim>>}) + 1
      BY <2>1, <2>2, FS_AddElement
    <2> QED
      BY <1>14, <1>15, <1>16, <2>1, <2>3
  <1> QED
    BY <1>14, <1>16

\* The frames of unmapped pages are listed, each as often as it was mapped.
LEMMA FreeKeepsPlaces ==
    ASSUME MemInv, FewFrames, NEW p \in Procs, NEW r \in Regs, Free(p, r),
           \A n \in FreedPages(p, symrgtbl[p][r]) : ~ pgd[p][n].swapped, NEW f
    PROVE  Places(f)' = Places(f)
  <1> DEFINE rg == symrgtbl[p][r]
             pages == FreedPages(p, rg)
             order == Ascending(pages)
             frames == FramesFreed(p, pages)
             gone == {<<p, n>> : n \in {m \in pages : FPN(pgd[p][m]) = f}}
             g == [k \in At(frames, f) |-> <<p, order[k]>>]
  <1>1. rg \in RegionsUpTo(MaxBrk) /\ pgd \in [Procs -> [Pages -> Ptes]]
    BY DEF MemInv, SpaceInv, PageInv
  <1>2. /\ free_ram' = PutFrames(free_ram, frames) /\ request' = request
        /\ pgd' = [pgd EXCEPT ![p] = [n \in Pages |-> IF n \in pages THEN NoPage ELSE pgd[p][n]]]
    BY DEF Free
  <1>3. pages \subseteq Pages /\ frames \in Seq(FrameNumbers)
    BY <1>1, FreedPagesAndFrames
  <1>4. \A n \in pages : InRam(p, n)
    BY DEF FreedPages, InRam
  <1>5. frames = [k \in DOMAIN order |-> FPN(pgd[p][order[k]])]
    BY DEF FramesFreed
  <1>6. /\ IsFiniteSet(pages) /\ Cardinality(pages) \in Nat
        /\ order \in [1 .. Cardinality(pages) -> pages]
        /\ \A j, k \in 1 .. Cardinality(pages) : j < k => order[j] < order[k]
    <2>1. Pages \in SUBSET Nat /\ IsFiniteSet(Pages)
      <3>1. 0 \in Int /\ MaxPgn - 1 \in Int
        BY TopBound
      <3> QED
        BY <3>1, FS_Interval DEF Pages
    <2> HIDE DEF pages
    <2>2. IsFiniteSet(pages) /\ pages \in SUBSET Nat
      BY <1>3, <2>1, FS_Subset
    <2> QED
      BY <2>2, AscendingOrder
  <1> HIDE DEF rg, pages, order, frames
  <1>7. /\ \A j, k \in 1 .. Cardinality(pages) : order[j] = order[k] => j = k
        /\ \A n \in pages : \E k \in 1 .. Cardinality(pages) : order[k] = n
    <2> DEFINE card == Cardinality(pages)
    <2>1. \A j, k \in 1 .. card : order[j] = order[k] => j = k
      <3>1. \A n \in pages : n \in Nat
        BY <1>3 DEF Pages
      <3>2. \A j \in 1 .. card : order[j] \in Nat
        BY <1>6, <3>1
      <3>3. \A j, k \in 1 .. card : j < k \/ j = k \/ k < j
        BY <1>6
      <3>4. \A j, k \in 1 .. card : j < k => order[j] # order[k]
        BY <1>6, <3>2
      <3> QED
        BY <3>3, <3>4
    <2>2. order \in Injection(1 .. card, pages)
      BY <1>6, <2>1 DEF Injection, IsInjective
    <2>3. Cardinality(1 .. card) = card
      <3>1. 1 \in Int /\ card \in Int /\ card \in Nat
        BY <1>6
      <3> HIDE DEF card
      <3> QED
        BY <3>1, FS_Interval
    <2>4. order \in Surjection(1 .. card, pages)
      BY <1>6, <2>2, <2>3, FS_Injection
    <2> QED
      BY <2>1, <2>4 DEF Surjection
  <1>8. IsFiniteSet(At(frames, f)) /\ Cardinality(At(frames, f)) \in Nat
    BY <1>3, AtFinite
  <1>9. DOMAIN order = 1 .. Cardinality(pages)
    BY <1>6
  <1>10. At(frames, f) = {k \in 1 .. Cardinality(pages) : FPN(pgd[p][order[k]]) = f}
    BY <1>5, <1>9 DEF At
  <1>11. IsFiniteSet(gone) /\ Cardinality(gone) = Cardinality(At(frames, f))
    <2>1. g \in [At(frames, f) -> gone]
      BY <1>6, <1>10
    <2>2. \A a, b \in At(frames, f) : g[a] = g[b] => a = b
      BY <1>7, <1>10
    <2>3. \A b \in gone : \E a \in At(frames, f) : g[a] = b
      <3>1. ASSUME NEW n \in pages, FPN(pgd[p][n]) = f
            PROVE  \E a \in At(frames, f) : g[a] = <<p, n>>
        <4>1. PICK k \in 1 .. Cardinality(pages) : order[k] = n
          BY <1>7
        <4>2. k \in At(frames, f) /\ g[k] = <<p, n>>
          BY <1>10, <3>1, <4>1
        <4> QED
          BY <4>2
      <3>2. \A b \in gone : \E n \in pages : FPN(pgd[p][n]) = f /\ b = <<p, n>>
        OBVIOUS
      <3> HIDE DEF g, gone
      <3> QED
        BY <3>1, <3>2
    <2> HIDE DEF g, gone
    <2> QED
      BY <1>8, <2>1, <2>2, <2>3, SameCount
  <1>12. ASSUME NEW q \in Procs, NEW n \in Pages
         PROVE  /\ <<q, n>> \in MappedBy(f) <=> InRam(q, n) /\ FPN(pgd[q][n]) = f
                /\ <<q, n>> \in MappedBy(f)' <=> InRam(q, n)' /\ FPN(pgd'[q][n]) = f
    BY DEF MappedBy
  <1>13. MappedBy(f) = MappedBy(f)' \cup gone
    <2>1. ASSUME NEW q \in Procs, NEW n \in Pages
          PROVE  <<q, n>> \in MappedBy(f) <=> <<q, n>> \in MappedBy(f)' \/ <<q, n>> \in gone
      <3>1. <<q, n>> \in gone <=> q = p /\ n \in pages /\ FPN(pgd[p][n]) = f
        OBVIOUS
      <3>2. CASE q = p /\ n \in pages
        <4>1. ~ InRam(q, n)'
          BY <1>1, <1>2, <3>2 DEF InRam, NoPage
        <4> QED
          BY <1>4, <1>12, <3>1, <3>2, <4>1
      <3>3. CASE ~ (q = p /\ n \in pages)
        <4>1. pgd'[q][n] = pgd[q][n]
          BY <1>1, <1>2, <3>3
        <4> QED
          BY <1>12, <3>1, <3>3, <4>1 DEF InRam
      <3> QED
        BY <3>2, <3>3
    <2>2. gone \subseteq Procs \X Pages
      BY <1>3
    <2>3. MappedBy(f)' \subseteq Procs \X Pages /\ MappedBy(f) \subseteq Procs \X Pages
      BY DEF MappedBy
    <2> HIDE DEF gone
    <2> QED
      BY <2>1, <2>2, <2>3
  <1>14. MappedBy(f)' \cap gone = {}
    <2>1. \A n \in pages : <<p, n>> \notin MappedBy(f)'
      <3>1. \A n \in pages : ~ InRam(p, n)'
        BY <1>1, <1>2, <1>3 DEF InRam, NoPage
      <3> QED
        BY <1>3, <1>12, <3>1
    <2> QED
      BY <2>1
  <1>15. IsFiniteSet(MappedBy(f)) /\ Cardinality(MappedBy(f)) \in Nat
    BY MappedByFinite
  <1>16. IsFiniteSet(MappedBy(f)')
    BY <1>13, <1>15, FS_Subset
  <1> HIDE DEF gone
  <1>17. /\ Cardinality(MappedBy(f)) = Cardinality(MappedBy(f)') + Cardinality(At(frames, f))
         /\ Cardinality(MappedBy(f)') \in Nat
    BY <1>11, <1>13, <1>14, <1>16, DisjointCount
  <1>18. free_ram \in Seq(FrameNumbers) /\ Reverse(frames) \in Seq(FrameNumbers)
    BY <1>3, ReverseIsSeq DEF MemInv, DeviceInv
  <1>19. Cardinality(At(free_ram', f)) = Cardinality(At(frames, f)) + Cardinality(At(free_ram, f))
    <2>1. Cardinality(At(Reverse(frames) \o free_ram, f)) =
             Cardinality(At(Reverse(frames), f)) + Cardinality(At(free_ram, f))
      BY <1>18, CountBoth, Zenon
    <2>2. Cardinality(At(Reverse(frames), f)) = Cardinality(At(frames, f))
      BY <1>3, CountReverse
    <2> QED
      BY <1>2, <2>1, <2>2 DEF PutFrames
  <1>20. Listed(f)' = Cardinality(At(free_ram', f)) /\ Listed(f) = Cardinality(At(free_ram, f))
    BY DEF Listed, At
  <1>21. HeldBack(f)' = HeldBack(f) /\ HeldBack(f) \in Nat /\ Listed(f) \in Nat
    BY <1>2, PlacesCounted DEF HeldBack
  <1> QED
    BY <1>8, <1>17, <1>19, <1>20, <1>21 DEF Places

\* Whatever the programs do, only the steps PlacesKept names lose a frame or
\* let it serve two pages: taking it from the list page by page, mapping it,
\* __free in between and the exchange of frames by pg_getpage keep the number
\* of places in which it stands.
THEOREM PlacesKeptCorrect ==
    ASSUME FewFrames
    PROVE  Spec => PlacesKept
  <1> DEFINE Kept == \/ \A f \in 0 .. (NumFrames - 1) : Places(f)' = Places(f)
                     \/ TakeVictim \/ OutOfMemory \/ GrowsOverPage \/ EvictsNothing \/ FreesSwapped
  <1>1. ASSUME MemInv, [Next]_vars PROVE Kept \/ UNCHANGED vars
    <2>1. CASE Alloc
      BY <1>1, <2>1, AllocKeepsPlaces DEF Alloc
    <2>2. CASE TakeFrame
      BY <1>1, <2>2, TakeFrameKeepsPlaces
    <2>3. CASE TakeVictim \/ OutOfMemory
      BY <2>3
    <2>4. CASE FinishGrowth
      BY <1>1, <2>4, FinishGrowthKeepsPlaces
    <2>5. CASE Release
      <3>1. PICK p \in Procs, r \in Regs : Free(p, r)
        BY <2>5 DEF Release
      <3>2. CASE \E n \in FreedPages(p, symrgtbl[p][r]) : pgd[p][n].swapped
        BY <3>1, <3>2 DEF FreesSwapped
      <3>3. CASE \A n \in FreedPages(p, symrgtbl[p][r]) : ~ pgd[p][n].swapped
        BY <1>1, <3>1, <3>3, FreeKeepsPlaces
      <3> QED
        BY <3>2, <3>3
    <2>6. ASSUME NEW p \in Procs, NEW r \in Regs, NEW off \in Offsets,
                 Read(p, r, off) \/ \E v \in Values : Write(p, r, off, v)
          PROVE  Kept
      <3> DEFINE n == PGN(Address(p, r, off))
      <3>1. pg_getpage(p, n) /\ free_ram' = free_ram /\ request' = request
        BY <2>6 DEF Read, Write
      <3>2. n \in Pages
        BY <1>1, AddressIsInt, PageOfAddress
      <3> HIDE DEF n
      <3>3. \A f : HeldBack(f)' = HeldBack(f) /\ Listed(f)' = Listed(f)
        BY <3>1 DEF HeldBack, Listed
      <3>4. CASE pgd' = pgd
        BY <3>1, <3>3, <3>4, NothingMoves
      <3>5. CASE ~ pgd[p][n].present /\ ReplacePage(p, n)
        <4>1. CASE ~ InRam(p, Victim(p))
          BY <3>2, <3>5, <4>1 DEF EvictsNothing
        <4>2. CASE InRam(p, Victim(p))
          <5>1. \A f : Cardinality(MappedBy(f))' = Cardinality(MappedBy(f))
            BY <1>1, <3>2, <3>5, <4>2, ReplacePageKeepsPlaces
          <5> QED
            BY <3>3, <5>1 DEF Places
        <4> QED
          BY <4>1, <4>2
      <3> QED
        BY <3>1, <3>4, <3>5 DEF pg_getpage, pageVars
    <2>7. CASE UNCHANGED vars
      BY <2>7
    <2> QED
      BY <1>1, <2>1, <2>2, <2>3, <2>4, <2>5, <2>6, <2>7 DEF Next, Growth
  <1> QED
    BY <1>1, MemoryInvariant, PTL DEF Spec, PlacesKept
-----------------------------------------------------------------------------
(* Regions and the break                                                   *)

\* Every address that is free or part of a region lies below the break, and
\* a region that is neither unused nor freed has an address.
RegionsBelowBreak ==
    \A p \in Procs :
        /\ ListBytes(vm_freerg_list[p]) \subseteq 0 .. (EndOf(p) - 1)
        /\ \A r \in Regs :
              /\ Bytes(symrgtbl[p][r]) \subseteq 0 .. (EndOf(p) - 1)
              /\ \/ symrgtbl[p][r] \in {Region(0, 0), Freed}
                 \/ symrgtbl[p][r].start < symrgtbl[p][r].end

EndsAreNat == \A p \in Procs : EndOf(p) \in Nat /\ EndOf(p) <= MaxBrk

LEMMA EndIsNat == MemInv => EndsAreNat
  <1> SUFFICES ASSUME MemInv, NEW p \in Procs
               PROVE  EndOf(p) \in Nat /\ EndOf(p) <= MaxBrk
    BY DEF EndsAreNat
  <1>1. vm_end[p] \in 0 .. MaxBrk /\ MaxBrk \in Nat
    BY TopBound DEF MemInv, SpaceInv
  <1>2. CASE request # NULL /\ request.proc = p
    <2>1. /\ request.old_end \in Nat /\ request.pages * PAGESZ \in Nat
          /\ vm_end[p] = request.old_end + request.pages * PAGESZ
      BY <1>2, TopBound DEF MemInv, RequestInv, Requests
    <2> QED
      BY <1>1, <1>2, <2>1 DEF EndOf
  <1>3. CASE ~ (request # NULL /\ request.proc = p)
    BY <1>1, <1>3 DEF EndOf
  <1> QED
    BY <1>2, <1>3

LEMMA NoBytes == Bytes(Region(0, 0)) = {} /\ Bytes(Freed) = {}
  BY DEF Bytes, Region, Freed

LEMMA InitBelowBreak == Init => RegionsBelowBreak
  <1> SUFFICES ASSUME Init, NEW p \in Procs
               PROVE  /\ ListBytes(vm_freerg_list[p]) = {}
                      /\ \A r \in Regs : symrgtbl[p][r] = Region(0, 0)
    BY NoBytes DEF RegionsBelowBreak
  <1>1. vm_freerg_list[p] = <<Region(0, 0)>>
    BY DEF Init
  <1>2. DOMAIN vm_freerg_list[p] = {1} /\ vm_freerg_list[p][1] = Region(0, 0)
    BY <1>1
  <1>3. ListBytes(vm_freerg_list[p]) = {}
    BY <1>2, NoBytes DEF ListBytes
  <1> QED
    BY <1>3 DEF Init

\* Where neither the regions nor the break change.
LEMMA SameBelowBreak ==
    ASSUME RegionsBelowBreak, vm_freerg_list' = vm_freerg_list, symrgtbl' = symrgtbl,
           \A q \in Procs : EndOf(q)' = EndOf(q)
    PROVE  RegionsBelowBreak'
  BY DEF RegionsBelowBreak

\* A region taken out of a list lies where the list does.
LEMMA TakeBelowBreak ==
    ASSUME EndsAreNat, EndsAreNat', MemInv, RegionsBelowBreak, NEW p \in Procs, NEW r \in Regs, NEW size \in Sizes,
           NEW list \in Seq(RegionsUpTo(MaxBrk)), WellFormed(list), Fits(list, size) # {},
           Take(p, r, list, size), ListBytes(list) \subseteq 0 .. (EndOf(p)' - 1),
           \A q \in Procs : EndOf(q) <= EndOf(q)'
    PROVE  RegionsBelowBreak'
  <1>1. size \in Nat \ {0} /\ MaxBrk \in Nat
    BY MemoryAssumption, TopBound
  <1>2. /\ TakenRegion(list, size).start < TakenRegion(list, size).end
        /\ ListBytes(AfterTaking(list, size)) \subseteq ListBytes(list)
        /\ Bytes(TakenRegion(list, size)) \subseteq ListBytes(list)
    BY <1>1, TakingFromList
  <1>3. /\ vm_freerg_list' = [vm_freerg_list EXCEPT ![p] = AfterTaking(list, size)]
        /\ symrgtbl' = [symrgtbl EXCEPT ![p][r] = TakenRegion(list, size)]
    BY DEF Take
  <1>4. ASSUME NEW q \in Procs
        PROVE  0 .. (EndOf(q) - 1) \subseteq 0 .. (EndOf(q)' - 1)
    <2>1. EndOf(q) \in Nat /\ EndOf(q)' \in Nat
      BY DEF EndsAreNat
    <2> QED
      BY <2>1
  <1> QED
    BY <1>2, <1>3, <1>4 DEF RegionsBelowBreak, MemInv, SpaceInv

LEMMA AllocBelowBreak ==
    ASSUME MemInv, RegionsBelowBreak, NEW p \in Procs, NEW r \in Regs, NEW size \in Sizes,
           AllocReuse(p, r, size) \/ AllocGrow(p, r, size)
    PROVE  RegionsBelowBreak'
  <1>1. CASE AllocReuse(p, r, size)
    <2>1. /\ Fits(vm_freerg_list[p], size) # {} /\ Take(p, r, vm_freerg_list[p], size)
          /\ vm_end' = vm_end /\ request' = request
      BY <1>1 DEF AllocReuse
    <2>2. \A q \in Procs : EndOf(q)' = EndOf(q)
      BY <2>1 DEF EndOf
    <2>3. EndsAreNat /\ EndsAreNat'
      BY <2>2, EndIsNat DEF EndsAreNat
    <2>4. \A q \in Procs : EndOf(q) <= EndOf(q)'
      BY <2>2, <2>3 DEF EndsAreNat
    <2>5. /\ vm_freerg_list[p] \in Seq(RegionsUpTo(MaxBrk)) /\ WellFormed(vm_freerg_list[p])
          /\ ListBytes(vm_freerg_list[p]) \subseteq 0 .. (EndOf(p)' - 1)
      BY <2>2 DEF MemInv, SpaceInv, RegionsBelowBreak
    <2> QED
      BY <2>1, <2>3, <2>4, <2>5, TakeBelowBreak
  <1>2. CASE AllocGrow(p, r, size)
    <2>1. vm_freerg_list' = vm_freerg_list /\ symrgtbl' = symrgtbl
      BY <1>2 DEF AllocGrow
    <2> QED
      BY <1>2, <2>1, AllocGrowKeepsEnds, SameBelowBreak
  <1> QED
    BY <1>1, <1>2

\* The new pages end where the break is now.
LEMMA FinishGrowthBelowBreak ==
    ASSUME MemInv, RegionsBelowBreak, FinishGrowth
    PROVE  RegionsBelowBreak'
  <1> DEFINE new == Region(request.old_end, request.old_end + request.pages * PAGESZ)
             grown == enlist_vm_rg_node(vm_freerg_list[request.proc], new)
  <1>1. PICK p \in Procs : p = request.proc
    BY DEF FinishGrowth, MemInv, RequestInv, Requests
  <1>2. /\ request # NULL /\ request.reg \in Regs /\ request.size \in Sizes
        /\ request.old_end \in Nat /\ request.pages * PAGESZ \in Nat
        /\ vm_end[p] = request.old_end + request.pages * PAGESZ
    BY <1>1, TopBound DEF FinishGrowth, MemInv, RequestInv, Requests
  <1>3. /\ grown \in Seq(RegionsUpTo(MaxBrk)) /\ WellFormed(grown)
        /\ Fits(grown, request.size) # {}
    BY <1>2, GrownList
  <1>4. Take(p, request.reg, grown, request.size)
    BY <1>1 DEF FinishGrowth
  <1>5. \A q \in Procs : /\ EndOf(q) = IF q = p THEN request.old_end ELSE vm_end[q]
                        /\ EndOf(q)' = vm_end[q]
    BY <1>1, FinishGrowthMovesEnd
  <1>6. \A q \in Procs : vm_end[q] \in 0 .. MaxBrk /\ MaxBrk \in Nat
    BY TopBound DEF MemInv, SpaceInv
  <1>7. EndsAreNat /\ EndsAreNat'
    <2>1. EndsAreNat'
      BY <1>5, <1>6 DEF EndsAreNat
    <2> QED
      BY <2>1, EndIsNat
  <1>8. \A q \in Procs : EndOf(q) <= EndOf(q)'
    BY <1>2, <1>5, <1>6
  <1>9. ListBytes(grown) \subseteq 0 .. (EndOf(p)' - 1)
    <2> DEFINE list == vm_freerg_list[p]
               brk == request.old_end + request.pages * PAGESZ
    <2>1. list \in Seq(RegionsUpTo(MaxBrk)) /\ WellFormed(list)
      BY DEF MemInv, SpaceInv
    <2>2. /\ brk \in Nat /\ request.old_end \in -1 .. MaxBrk /\ brk \in -1 .. MaxBrk
          /\ request.old_end <= brk
      BY <1>2, <1>6
    <2> HIDE DEF brk, list
    <2>3. /\ new \in RegionsUpTo(MaxBrk) /\ new.start = request.old_end /\ new.end = brk
      BY <2>2, TopBound, RegionFacts DEF brk
    <2> HIDE DEF new
    <2>4. grown = InsertAt(list, 1, new) /\ 1 \in 1 .. (Len(list) + 1)
      BY <1>1, <2>1, <2>3, TopBound, HeadRegion, ListFacts DEF list
    <2>5. new.start <= new.end
      BY <2>2, <2>3
    <2>6. ListBytes(grown) = ListBytes(list) \cup Bytes(new)
      BY <2>1, <2>3, <2>4, <2>5, TopBound, InsertRegion
    <2>7. \A x \in Bytes(new) : x \in Int /\ request.old_end <= x /\ x < brk
      BY <2>3, TopBound, RegionFacts
    <2>8. ListBytes(list) \subseteq 0 .. (request.old_end - 1)
      BY <1>5 DEF RegionsBelowBreak, list
    <2>9. EndOf(p)' = brk
      BY <1>2, <1>5 DEF brk
    <2> QED
      BY <1>2, <2>2, <2>6, <2>7, <2>8, <2>9
  <1> HIDE DEF grown
  <1>10. PICK r \in Regs, size \in Sizes : r = request.reg /\ size = request.size
    BY <1>2
  <1> QED
    BY <1>3, <1>4, <1>7, <1>8, <1>9, <1>10, TakeBelowBreak

LEMMA FreeBelowBreak ==
    ASSUME MemInv, RegionsBelowBreak, NEW p \in Procs, NEW r \in Regs, Free(p, r)
    PROVE  RegionsBelowBreak'
  <1> DEFINE rg == symrgtbl[p][r]
             list == enlist_vm_freerg_list(vm_freerg_list[p], rg)
  <1>1. vm_end' = vm_end /\ request' = request
    BY DEF Free
  <1>2. \A q \in Procs : EndOf(q)' = EndOf(q)
    BY <1>1 DEF EndOf
  <1>3. /\ rg \in RegionsUpTo(MaxBrk) /\ vm_freerg_list[p] \in Seq(RegionsUpTo(MaxBrk))
        /\ WellFormed(vm_freerg_list[p])
    BY DEF MemInv, SpaceInv
  <1>4. CASE rg.start >= rg.end
    BY <1>2, <1>4, SameBelowBreak DEF Free
  <1>5. CASE ~ (rg.start >= rg.end)
    <2>1. /\ vm_freerg_list' = [vm_freerg_list EXCEPT ![p] = list]
          /\ symrgtbl' = [symrgtbl EXCEPT ![p][r] = Freed]
      BY <1>5 DEF Free
    <2>2. rg.start <= rg.end
      BY <1>3, <1>5, TopBound, RegionFacts
    <2>3. ListBytes(list) = ListBytes(vm_freerg_list[p]) \cup Bytes(rg)
      BY <1>3, <2>2, TopBound, EnlistRegion
    <2>4. ListBytes(list) \subseteq 0 .. (EndOf(p) - 1)
      BY <2>3 DEF RegionsBelowBreak
    <2> HIDE DEF list
    <2> QED
      BY <1>2, <2>1, <2>4, NoBytes DEF RegionsBelowBreak, MemInv, SpaceInv
  <1> QED
    BY <1>4, <1>5

LEMMA NextKeepsBelowBreak ==
    ASSUME MemInv, RegionsBelowBreak, [Next]_vars
    PROVE  RegionsBelowBreak'
  <1>1. CASE Alloc
    BY <1>1, AllocBelowBreak DEF Alloc
  <1>2. CASE TakeFrame \/ TakeVictim
    BY <1>2, ObtainKeepsEnds, SameBelowBreak DEF TakeFrame, TakeVictim, spaceVars
  <1>3. CASE OutOfMemory
    BY <1>3, OutOfMemoryKeepsEnds, SameBelowBreak DEF OutOfMemory
  <1>4. CASE FinishGrowth
    BY <1>4, FinishGrowthBelowBreak
  <1>5. CASE Release
    BY <1>5, FreeBelowBreak DEF Release
  <1>6. ASSUME UNCHANGED spaceVars, request' = request
        PROVE  RegionsBelowBreak'
    BY <1>6, SameBelowBreak DEF spaceVars, EndOf
  <1>7. ASSUME NEW p \in Procs, NEW r \in Regs, NEW off \in Offsets,
               Read(p, r, off) \/ \E v \in Values : Write(p, r, off, v)
        PROVE  RegionsBelowBreak'
    BY <1>6, <1>7 DEF Read, Write
  <1>8. CASE UNCHANGED vars
    BY <1>6, <1>8 DEF vars
  <1> QED
    BY <1>1, <1>2, <1>3, <1>4, <1>5, <1>7, <1>8 DEF Next, Growth
-----------------------------------------------------------------------------
(* Programs that access mapped pages of their own (MappedSpec)             *)

\* An address below the bound is its page's first address and its offset.
LEMMA PageAndOffset ==
    ASSUME NEW a \in 0 .. (MaxBrk - 1)
    PROVE  /\ PGN(a) \in Nat /\ PGN(a) = a \div PAGESZ /\ a = PGN(a) * PAGESZ + OFFST(a)
           /\ OFFST(a) \in 0 .. (PAGESZ - 1)
  <1>1. \A y \in Nat, Q \in Nat \ {0} :
           y = (y \div Q) * Q + (y % Q) /\ y % Q \in 0 .. (Q - 1) /\ y \div Q \in Nat
    OBVIOUS
  <1>2. \A y \in Nat, m \in Nat, Q \in Nat \ {0} : y <= m * Q - 1 => y \div Q \in 0 .. (m - 1)
    OBVIOUS
  <1>3. a \in Nat /\ a <= MaxPgn * PAGESZ - 1 /\ MaxPgn \in Nat /\ PAGESZ \in Nat \ {0}
    BY MemoryAssumption, TopBound
  <1>4. a \div PAGESZ \in 0 .. (MaxPgn - 1)
    BY <1>2, <1>3
  <1>5. PGN(a) = a \div PAGESZ
    BY <1>3, <1>4, Multiples DEF PGN
  <1> QED
    BY <1>1, <1>3, <1>5 DEF OFFST

\* The pages from that of the first address to that of the last one are
\* those of the addresses.
LEMMA PagesOfRegion ==
    ASSUME NEW rg \in RegionsUpTo(MaxBrk), rg.start < rg.end, rg.start # -1,
           NEW n \in PGN(rg.start) .. PGN(rg.end - 1)
    PROVE  \E b \in Bytes(rg) : PGN(b) = n
  <1>1. /\ rg.start \in 0 .. (MaxBrk - 1) /\ rg.end - 1 \in 0 .. (MaxBrk - 1)
        /\ rg.start \in Nat /\ rg.end - 1 \in Nat /\ rg.end \in Int /\ MaxBrk \in Nat
    BY TopBound DEF RegionsUpTo
  <1>2. PAGESZ \in Nat \ {0} /\ MaxPgn \in Nat /\ n \in Nat
    BY <1>1, TopBound, PageAndOffset
  <1>3. CASE n = PGN(rg.start)
    <2>1. rg.start \in Bytes(rg)
      BY <1>1 DEF Bytes
    <2> QED
      BY <1>3, <2>1
  <1>4. CASE n # PGN(rg.start)
    <2> DEFINE b == n * PAGESZ
    <2>1. rg.start \div PAGESZ + 1 <= n /\ n <= (rg.end - 1) \div PAGESZ
      BY <1>1, <1>2, <1>4, PageAndOffset
    <2>2. \A x, k \in Nat, Q \in Nat \ {0} : x \div Q + 1 <= k => x <= k * Q
      OBVIOUS
    <2>3. \A x, k \in Nat, Q \in Nat \ {0} : k <= x \div Q => k * Q <= x
      OBVIOUS
    <2>4. b \in Nat /\ rg.start <= b /\ b <= rg.end - 1
      <3>1. b \in Nat
        BY <1>2
      <3>2. PICK s \in Nat, t \in Nat : s = rg.start /\ t = rg.end - 1
        BY <1>1
      <3>3. s <= b
        BY <1>2, <2>1, <2>2, <3>2
      <3>4. b <= t
        BY <1>2, <2>1, <2>3, <3>2
      <3> QED
        BY <3>1, <3>2, <3>3, <3>4
    <2>5. b \div PAGESZ = n
      BY <1>2, Multiples
    <2> HIDE DEF b
    <2>6. b \in Bytes(rg) /\ b \in 0 .. (MaxBrk - 1)
      BY <1>1, <2>4 DEF Bytes
    <2>7. PGN(b) = n
      BY <2>5, <2>6, PageAndOffset
    <2> QED
      BY <2>6, <2>7
  <1> QED
    BY <1>3, <1>4

LEMMA MappedNextIsNext == [MappedNext]_dataVars => [Next]_vars
  BY DEF MappedNext, dataVars, Next, Access

LEMMA MappedInvariant == MappedSpec => [](MemInv /\ RegionsBelowBreak)
  <1>1. DataInit => MemInv /\ RegionsBelowBreak
    BY InitMemory, InitBelowBreak DEF DataInit
  <1>2. MemInv /\ RegionsBelowBreak /\ [MappedNext]_dataVars => MemInv' /\ RegionsBelowBreak'
    BY MappedNextIsNext, NextKeepsInv, NextKeepsBelowBreak
  <1> QED
    BY <1>1, <1>2, PTL DEF MappedSpec

\* An access to a page that is present replaces no other page.
LEMMA MappedAccess ==
    ASSUME NEW p \in Procs, NEW r \in Regs, NEW off \in Offsets,
           pgd[p][PGN(Address(p, r, off))].present, Access(p, r, off)
    PROVE  /\ UNCHANGED <<pageVars, spaceVars, free_ram, request>>
           /\ Address(p, r, off) \in Bytes(symrgtbl[p][r])
           /\ \/ ram' = ram /\ written' = written
              \/ \E v \in Values :
                    LET pte == pgd[p][PGN(Address(p, r, off))]
                    IN  /\ ram' = Store(ram, FPN(pte), OFFST(Address(p, r, off)), v)
                        /\ written' = [written EXCEPT ![p][Address(p, r, off)] = v]
  <1> DEFINE addr == Address(p, r, off)
  <1>1. addr \in Bytes(symrgtbl[p][r])
    BY DEF Access
  <1> HIDE DEF addr
  <1>2. ASSUME pg_getpage(p, PGN(addr)) PROVE UNCHANGED pageVars
    BY <1>2 DEF pg_getpage, addr
  <1>3. CASE Read(p, r, off) /\ UNCHANGED written
    BY <1>1, <1>2, <1>3 DEF Read, addr
  <1>4. ASSUME NEW v \in Values, Write(p, r, off, v),
               written' = [written EXCEPT ![p][addr] = v]
        PROVE  /\ UNCHANGED <<pageVars, spaceVars, free_ram, request>>
               /\ ram' = Store(ram, FPN(pgd[p][PGN(addr)]), OFFST(addr), v)
    <2>1. UNCHANGED pageVars /\ UNCHANGED <<spaceVars, free_ram, request>>
      BY <1>2, <1>4 DEF Write, addr
    <2>2. pgd' = pgd
      BY <2>1 DEF pageVars
    <2> QED
      BY <1>4, <2>1, <2>2 DEF Write, addr
  <1> QED
    BY <1>1, <1>3, <1>4 DEF Access, addr

\* An entry that loses its page is one that __free unmaps.
LEMMA OnlyFreeUnmaps ==
    ASSUME MemInv, [MappedNext]_dataVars, NEW p \in Procs, NEW n \in Pages,
           pgd[p][n].present, ~ pgd'[p][n].present
    PROVE  \E r \in Regs : Free(p, r) /\ n \in FreedPages(p, symrgtbl[p][r])
  <1>1. pgd \in [Procs -> [Pages -> Ptes]]
    BY DEF MemInv, PageInv
  <1>2. pgd' # pgd
    OBVIOUS
  <1>3. CASE TakeVictim
    <2>1. pgd' = [pgd EXCEPT ![request.proc][Victim(request.proc)] = pte_set_swap(@, Head(free_swp))]
      BY <1>3 DEF TakeVictim
    <2>2. pgd'[p][n] = pgd[p][n] \/ pgd'[p][n] = pte_set_swap(pgd[p][n], Head(free_swp))
      BY <1>1, <2>1
    <2> QED
      BY <2>2 DEF pte_set_swap
  <1>4. CASE FinishGrowth
    <2> DEFINE table == Mapped(request.proc, PGN(request.old_end), request.frames)
    <2>1. pgd' = [pgd EXCEPT ![request.proc] = table]
      BY <1>4 DEF FinishGrowth
    <2>2. p = request.proc => \/ table[n] = pgd[p][n]
                              \/ \E fpn : table[n] = pte_set_fpn(pgd[p][n], fpn)
      BY DEF Mapped
    <2> HIDE DEF table
    <2>3. pgd'[p][n] = pgd[p][n] \/ (p = request.proc /\ pgd'[p][n] = table[n])
      BY <1>1, <2>1
    <2>4. PICK fpn : pgd'[p][n] = pte_set_fpn(pgd[p][n], fpn)
      BY <2>2, <2>3
    <2> QED
      BY <2>4 DEF pte_set_fpn
  <1>5. ASSUME NEW q \in Procs, NEW r \in Regs, Free(q, r)
        PROVE  p = q /\ n \in FreedPages(p, symrgtbl[p][r])
    BY <1>1, <1>5 DEF Free
  <1>6. pgd' = pgd \/ TakeVictim \/ FinishGrowth \/ Release
    <2>1. Alloc \/ TakeFrame \/ OutOfMemory => pgd' = pgd
      BY DEF Alloc, AllocReuse, AllocGrow, TakeFrame, OutOfMemory, pageVars
    <2>2. \A q \in Procs, r \in Regs, off \in Offsets :
             pgd[q][PGN(Address(q, r, off))].present /\ Access(q, r, off) => pgd' = pgd
      BY MappedAccess DEF pageVars
    <2>3. UNCHANGED dataVars => pgd' = pgd
      BY DEF dataVars, vars, pageVars
    <2> QED
      BY <2>1, <2>2, <2>3 DEF MappedNext, Growth
  <1> QED
    BY <1>2, <1>3, <1>4, <1>5, <1>6 DEF Release

\* What a program wrote stays in mapped memory until the program frees a
\* region of the same page, or one that was never allocated: neither the
\* growth of its own address space, nor swapping for it, nor anything another
\* process does unmaps it.
THEOREM WrittenStaysMappedCorrect == MappedSpec => WrittenStaysMapped
  <1> DEFINE Stays == \A p \in Procs, a \in Addresses :
                 written[p][a] # NULL /\ written'[p][a] # NULL /\ pgd[p][PGN(a)].present =>
                     \/ pgd'[p][PGN(a)].present
                     \/ \E r \in Regs :
                           /\ Free(p, r)
                           /\ \/ symrgtbl[p][r] = Region(0, 0)
                              \/ PGN(a) \in {PGN(b) : b \in Bytes(symrgtbl[p][r])}
  <1>1. ASSUME MemInv, RegionsBelowBreak, [MappedNext]_dataVars PROVE Stays
    <2> SUFFICES ASSUME NEW p \in Procs, NEW a \in Addresses,
                        pgd[p][PGN(a)].present, ~ pgd'[p][PGN(a)].present
                 PROVE  \E r \in Regs :
                           /\ Free(p, r)
                           /\ \/ symrgtbl[p][r] = Region(0, 0)
                              \/ PGN(a) \in {PGN(b) : b \in Bytes(symrgtbl[p][r])}
      OBVIOUS
    <2>1. PGN(a) \in Pages
      BY PageOfAddress DEF Addresses
    <2>2. PICK r \in Regs : Free(p, r) /\ PGN(a) \in FreedPages(p, symrgtbl[p][r])
      BY <1>1, <2>1, OnlyFreeUnmaps
    <2> DEFINE rg == symrgtbl[p][r]
    <2>3. rg.start # -1 /\ PGN(a) \in PGN(rg.start) .. PGN(rg.end - 1)
      BY <2>2 DEF Free, FreedPages
    <2>4. rg # Freed
      BY <2>3 DEF Freed, Region
    <2>5. rg = Region(0, 0) \/ rg.start < rg.end
      BY <1>1, <2>4 DEF RegionsBelowBreak
    <2>6. rg \in RegionsUpTo(MaxBrk)
      BY <1>1 DEF MemInv, SpaceInv
    <2> HIDE DEF rg
    <2>7. rg = Region(0, 0) \/ \E b \in Bytes(rg) : PGN(b) = PGN(a)
      BY <2>3, <2>5, <2>6, PagesOfRegion
    <2> QED
      BY <2>2, <2>7 DEF rg
  <1> QED
    BY <1>1, MappedInvariant, PTL DEF MappedSpec, WrittenStaysMapped
-----------------------------------------------------------------------------
(* Frames and data while RAM lasts                                         *)

RamFrames == 0 .. (NumFrames - 1)

\* The break follows the last page, and no page behind it is mapped.
PagesBelowBreak ==
    \A p \in Procs : \E k \in 0 .. MaxPgn :
        EndOf(p) = k * PAGESZ /\ \A n \in Pages : pgd[p][n].present => n < k

\* No page is in swap, and no list holds a number that is not a frame.
AllInRam ==
    /\ \A p \in Procs, n \in Pages :
          pgd[p][n].present => ~ pgd[p][n].swapped /\ FPN(pgd[p][n]) \in RamFrames
    /\ free_ram \in Seq(RamFrames)
    /\ request # NULL => request.frames \in Seq(RamFrames)

WrittenInv == written \in [Procs -> [Addresses -> Values \cup {NULL}]] /\ ReadBack

DataInv == PagesBelowBreak /\ AllInRam /\ FramesConserved /\ WrittenInv

LEMMA RamBound == RamFrames \subseteq Nat /\ (FewFrames => RamFrames \subseteq 0 .. (FpnRange - 1))
  BY MemoryAssumption DEF RamFrames, FewFrames, FpnRange

LEMMA InitData ==
    ASSUME FewFrames, DataInit
    PROVE  DataInv
  <1>1. /\ Init /\ pgd = [p \in Procs |-> [n \in Pages |-> NoPage]] /\ request = NULL
        /\ free_ram = AllFrames(NumFrames) /\ vm_end = [p \in Procs |-> 0]
        /\ written = [p \in Procs |-> [a \in Addresses |-> NULL]]
    BY DEF DataInit, Init
  <1>2. \A p \in Procs, n \in Pages : ~ pgd[p][n].present
    BY <1>1 DEF NoPage
  <1>3. PagesBelowBreak
    <2>1. \A p \in Procs : EndOf(p) = 0 * PAGESZ
      BY <1>1, TopBound DEF EndOf
    <2>2. 0 \in 0 .. MaxPgn
      BY TopBound
    <2> QED
      BY <1>2, <2>1, <2>2 DEF PagesBelowBreak
  <1>4. free_ram \in [1 .. NumFrames -> RamFrames] /\ \A k \in 1 .. NumFrames : free_ram[k] = k - 1
    BY <1>1, MemoryAssumption DEF AllFrames, RamFrames
  <1>5. AllInRam
    BY <1>1, <1>2, <1>4, MemoryAssumption, FunctionIsSeq DEF AllInRam
  <1>6. ASSUME NEW f \in 0 .. (NumFrames - 1)
        PROVE  Places(f) = 1
    <2>1. {k \in DOMAIN free_ram : free_ram[k] = f} = {f + 1}
      BY <1>4, MemoryAssumption
    <2>2. Listed(f) = 1
      BY <2>1, FS_Singleton DEF Listed
    <2>3. MappedBy(f) = {}
      BY <1>2 DEF MappedBy, InRam
    <2>4. Cardinality(MappedBy(f)) = 0
      BY <2>3, FS_EmptySet
    <2>5. HeldBack(f) = 0
      BY <1>1 DEF HeldBack
    <2> QED
      BY <2>2, <2>4, <2>5 DEF Places
  <1>7. WrittenInv
    BY <1>1 DEF WrittenInv, ReadBack
  <1> QED
    BY <1>3, <1>5, <1>6, <1>7 DEF DataInv, FramesConserved

\* What a step that writes nothing to RAM keeps: it may unmap pages, and map
\* pages of which no address was held before.
LEMMA KeepsData ==
    ASSUME MemInv, WrittenInv, WrittenKept, ram' = ram,
           \A p \in Procs, n \in Pages :
              \/ pgd'[p][n] = pgd[p][n] \/ ~ pgd'[p][n].present
              \/ \A a \in Held(p) : PGN(a) # n
    PROVE  WrittenInv'
  <1>1. written' \in [Procs -> [Addresses -> Values \cup {NULL}]]
    BY DEF WrittenInv, WrittenKept
  <1>2. ASSUME NEW p \in Procs, NEW a \in Addresses,
               written'[p][a] # NULL, pgd'[p][PGN(a)].present
        PROVE  /\ FPN(pgd'[p][PGN(a)]) \in DOMAIN ram
               /\ ram[FPN(pgd'[p][PGN(a)])][OFFST(a)] = written'[p][a]
    <2>1. a \in Held(p) /\ written'[p][a] = written[p][a]
      BY <1>2 DEF WrittenKept
    <2>2. PGN(a) \in Pages
      BY PageOfAddress DEF Addresses
    <2>3. pgd'[p][PGN(a)] = pgd[p][PGN(a)]
      BY <1>2, <2>1, <2>2
    <2> QED
      BY <1>2, <2>1, <2>3 DEF WrittenInv, ReadBack
  <1>3. ReadBack'
    BY <1>2 DEF ReadBack
  <1> QED
    BY <1>1, <1>3 DEF WrittenInv

\* Two pages that show the same frame are one, if the frame stands in one place.
LEMMA OnePagePerFrame ==
    ASSUME MemInv, FewFrames, NEW f, Places(f) = 1, NEW x \in MappedBy(f), NEW y \in MappedBy(f)
    PROVE  x = y
  <1>1. IsFiniteSet(MappedBy(f)) /\ Cardinality(MappedBy(f)) \in Nat
    BY MappedByFinite
  <1>2. Cardinality(MappedBy(f)) <= 1
    BY <1>1, PlacesCounted DEF Places
  <1>3. /\ IsFiniteSet(MappedBy(f) \ {x})
        /\ Cardinality(MappedBy(f) \ {x}) = Cardinality(MappedBy(f)) - 1
    BY <1>1, FS_RemoveElement
  <1>4. Cardinality(MappedBy(f) \ {x}) \in Nat
    BY <1>3, FS_CardinalityType
  <1>5. Cardinality(MappedBy(f) \ {x}) = 0
    BY <1>1, <1>2, <1>3, <1>4
  <1>6. MappedBy(f) \ {x} = {}
    BY <1>3, <1>5, FS_EmptySet
  <1> QED
    BY <1>6
LEMMA SamePagesBelowBreak ==
    ASSUME PagesBelowBreak, \A q \in Procs : EndOf(q)' = EndOf(q),
           \A q \in Procs, n \in Pages : pgd'[q][n].present => pgd[q][n].present
    PROVE  PagesBelowBreak'
  BY DEF PagesBelowBreak

LEMMA AllocKeepsData ==
    ASSUME MemInv, DataInv, WrittenKept, NEW p \in Procs, NEW r \in Regs, NEW size \in Sizes,
           AllocReuse(p, r, size) \/ AllocGrow(p, r, size)
    PROVE  DataInv'
  <1>1. pgd' = pgd /\ free_ram' = free_ram /\ ram' = ram
    BY DEF AllocReuse, AllocGrow, pageVars, devVars
  <1>2. \A q \in Procs : EndOf(q)' = EndOf(q)
    <2>1. CASE AllocReuse(p, r, size)
      BY <2>1 DEF AllocReuse, EndOf
    <2>2. CASE AllocGrow(p, r, size)
      BY <2>2, AllocGrowKeepsEnds
    <2> QED
      BY <2>1, <2>2
  <1>3. request' = request \/ request'.frames = <<>>
    BY DEF AllocReuse, AllocGrow
  <1>4. PagesBelowBreak'
    BY <1>1, <1>2, SamePagesBelowBreak DEF DataInv
  <1>5. AllInRam'
    <2>1. request' # NULL => request'.frames \in Seq(RamFrames)
      <3>1. <<>> \in Seq(RamFrames)
        OBVIOUS
      <3> QED
        BY <1>3, <3>1 DEF DataInv, AllInRam
    <2>2. free_ram' \in Seq(RamFrames)
      BY <1>1 DEF DataInv, AllInRam
    <2> QED
      BY <1>1, <2>1, <2>2 DEF DataInv, AllInRam
  <1>6. FramesConserved'
    BY AllocKeepsPlaces DEF DataInv, FramesConserved
  <1>7. WrittenInv'
    BY <1>1, KeepsData DEF DataInv
  <1> QED
    BY <1>4, <1>5, <1>6, <1>7 DEF DataInv

LEMMA TakeFrameKeepsData ==
    ASSUME FewFrames, MemInv, DataInv, WrittenKept, TakeFrame
    PROVE  DataInv'
  <1>1. pgd' = pgd /\ ram' = ram
    BY DEF TakeFrame, pageVars
  <1>2. PagesBelowBreak'
    BY <1>1, ObtainKeepsEnds, SamePagesBelowBreak DEF DataInv
  <1>3. AllInRam'
    <2>1. free_ram \in Seq(RamFrames) /\ free_ram # <<>> /\ request # NULL
          /\ request.frames \in Seq(RamFrames) /\ request \in Requests
      BY DEF DataInv, AllInRam, TakeFrame, Requested, MemInv, RequestInv
    <2>2. Head(free_ram) \in RamFrames /\ free_ram' \in Seq(RamFrames)
      BY <2>1, HeadRest DEF TakeFrame
    <2>3. <<Head(free_ram)>> \in Seq(RamFrames)
      BY <2>2
    <2>4. <<Head(free_ram)>> \o request.frames \in Seq(RamFrames)
      BY <2>1, <2>3, RangeOfBoth
    <2>5. request'.frames = <<Head(free_ram)>> \o request.frames
      BY <2>1 DEF TakeFrame, Obtain, Requests
    <2> QED
      BY <1>1, <2>2, <2>4, <2>5 DEF DataInv, AllInRam
  <1>4. FramesConserved'
    BY TakeFrameKeepsPlaces DEF DataInv, FramesConserved
  <1>5. WrittenInv'
    BY <1>1, KeepsData DEF DataInv
  <1> QED
    BY <1>2, <1>3, <1>4, <1>5 DEF DataInv

\* The pages of an allocation follow the last page.
LEMMA GrowthBehindPages ==
    ASSUME MemInv, RegionsBelowBreak, PagesBelowBreak, FinishGrowth
    PROVE  /\ ~ GrowsOverPage
           /\ \A a \in Held(request.proc), n \in Pages :
                 n - PGN(request.old_end) \in 0 .. (request.pages - 1) => PGN(a) # n
           /\ PagesBelowBreak'
  <1>1. PICK p \in Procs : p = request.proc
    BY DEF FinishGrowth, MemInv, RequestInv, Requests
  <1>2. /\ request # NULL /\ request.old_end \in Nat /\ request.pages \in Nat /\ request.pages # 0
        /\ vm_end[p] = request.old_end + request.pages * PAGESZ
    BY <1>1 DEF FinishGrowth, MemInv, RequestInv, Requests
  <1>3. PICK k \in 0 .. MaxPgn : /\ EndOf(p) = k * PAGESZ
                                 /\ \A n \in Pages : pgd[p][n].present => n < k
    BY DEF PagesBelowBreak
  <1>4. EndOf(p) = request.old_end
    BY <1>1, <1>2 DEF EndOf
  <1>5. PAGESZ \in Nat \ {0} /\ MaxPgn \in Nat /\ k \in Nat
    BY TopBound
  <1>6. PGN(request.old_end) = k /\ k + request.pages <= MaxPgn
    <2>1. request.old_end + request.pages * PAGESZ <= MaxPgn * PAGESZ
      BY <1>2, MemoryAssumption DEF MemInv, SpaceInv
    <2>2. request.old_end \div PAGESZ = k
      BY <1>3, <1>4, <1>5, Multiples
    <2>3. k + request.pages <= MaxPgn
      BY <1>2, <1>5, <2>1, <2>2, Multiples
    <2>4. k \in 0 .. (MaxPgn - 1)
      BY <1>2, <1>5, <2>3
    <2> QED
      BY <1>5, <2>2, <2>3, <2>4, Multiples DEF PGN
  <1>7. ~ GrowsOverPage
    BY <1>1, <1>2, <1>3, <1>5, <1>6 DEF GrowsOverPage, Pages
  <1>8. ASSUME NEW a \in Held(p)
        PROVE  PGN(a) < k
    <2>1. a \in 0 .. (k * PAGESZ - 1)
      BY <1>3 DEF Held, RegionsBelowBreak
    <2>2. \A y \in Nat, m \in Nat, Q \in Nat \ {0} : y <= m * Q - 1 => y \div Q < m
      OBVIOUS
    <2>3. a \in Nat /\ a <= k * PAGESZ - 1
      BY <2>1, <1>5
    <2>4. a \div PAGESZ < k
      BY <1>5, <2>2, <2>3
    <2>5. a \in 0 .. (MaxBrk - 1)
      <3>1. EndOf(p) \in Nat /\ EndOf(p) <= MaxBrk
        BY EndIsNat DEF EndsAreNat
      <3> QED
        BY <1>3, <2>1, <3>1, TopBound
    <2> QED
      BY <2>4, <2>5, PageAndOffset
  <1>9. PagesBelowBreak'
    <2> DEFINE table == Mapped(p, k, request.frames)
    <2>1. /\ pgd' = [pgd EXCEPT ![p] = table] /\ Len(request.frames) = request.pages
          /\ pgd \in [Procs -> [Pages -> Ptes]]
      BY <1>1, <1>6 DEF FinishGrowth, MemInv, PageInv
    <2>2. ASSUME NEW n \in Pages, table[n].present
          PROVE  n < k + request.pages
      <3>1. CASE n - k \in 0 .. (request.pages - 1)
        BY <1>2, <1>5, <3>1 DEF Pages
      <3>2. CASE n - k \notin 0 .. (request.pages - 1)
        <4>1. table[n] = pgd[p][n]
          BY <2>1, <3>2 DEF Mapped
        <4> QED
          BY <1>2, <1>3, <1>5, <2>2, <4>1 DEF Pages
      <3> QED
        BY <3>1, <3>2
    <2> HIDE DEF table
    <2>3. EndOf(p)' = (k + request.pages) * PAGESZ
      <3>1. EndOf(p)' = request.old_end + request.pages * PAGESZ
        BY <1>2, FinishGrowthMovesEnd
      <3>2. \A i, j \in Nat, Q \in Nat : i * Q + j * Q = (i + j) * Q
        OBVIOUS
      <3> QED
        BY <1>2, <1>3, <1>4, <1>5, <3>1, <3>2
    <2>4. k + request.pages \in 0 .. MaxPgn
      BY <1>2, <1>5, <1>6
    <2>5. \A q \in Procs : q # p => EndOf(q)' = EndOf(q)
      BY <1>1, FinishGrowthMovesEnd
    <2>6. /\ \A n \in Pages : pgd'[p][n] = table[n]
          /\ \A q \in Procs : q # p => pgd'[q] = pgd[q]
      BY <2>1
    <2>7. ASSUME NEW q \in Procs
          PROVE  \E j \in 0 .. MaxPgn :
                    EndOf(q)' = j * PAGESZ /\ \A n \in Pages : pgd'[q][n].present => n < j
      <3>1. CASE q = p
        BY <2>2, <2>3, <2>4, <2>6, <3>1
      <3>2. CASE q # p
        BY <2>5, <2>6, <3>2 DEF PagesBelowBreak
      <3> QED
        BY <3>1, <3>2
    <2> QED
      BY <2>7 DEF PagesBelowBreak
  <1> QED
    BY <1>1, <1>6, <1>7, <1>8, <1>9, <1>5 DEF Pages

LEMMA FinishGrowthKeepsData ==
    ASSUME FewFrames, MemInv, RegionsBelowBreak, DataInv, WrittenKept, FinishGrowth
    PROVE  DataInv'
  <1>1. PICK p \in Procs, first \in Int, count \in Nat :
             p = request.proc /\ first = PGN(request.old_end) /\ count = request.pages
    BY NewPagesFit DEF FinishGrowth, MemInv, RequestInv, Requests, Pages
  <1>2. /\ ~ GrowsOverPage /\ PagesBelowBreak'
        /\ \A a \in Held(p), n \in Pages : n - first \in 0 .. (count - 1) => PGN(a) # n
    BY <1>1, GrowthBehindPages DEF DataInv
  <1>3. /\ request # NULL /\ request' = NULL /\ free_ram' = free_ram /\ ram' = ram
        /\ pgd' = [pgd EXCEPT ![p] = Mapped(p, first, request.frames)]
        /\ Len(request.frames) = count /\ request.frames \in Seq(RamFrames)
    BY <1>1 DEF FinishGrowth, devVars, DataInv, AllInRam
  <1>4. pgd \in [Procs -> [Pages -> Ptes]]
    BY DEF MemInv, PageInv
  <1>5. ASSUME NEW q \in Procs, NEW n \in Pages
        PROVE  \/ pgd'[q][n] = pgd[q][n]
               \/ /\ q = p /\ n - first \in 0 .. (count - 1)
                  /\ ~ pgd'[q][n].swapped /\ FPN(pgd'[q][n]) \in RamFrames
    <2>1. CASE q = p /\ n - first \in 0 .. (count - 1)
      <3>1. (n - first) + 1 \in 1 .. Len(request.frames)
        BY <1>3, <2>1
      <3>2. PICK fpn \in RamFrames : fpn = request.frames[(n - first) + 1]
        BY <1>3, <3>1, ElementOfSeq
      <3>3. pgd'[q][n] = pte_set_fpn(pgd[q][n], fpn)
        BY <1>3, <1>4, <2>1, <3>2 DEF Mapped
      <3>4. fpn \in Nat /\ fpn \in 0 .. (FpnRange - 1) /\ pgd[q][n] \in Ptes
        BY <1>4, <3>2, RamBound
      <3>5. FPN(pgd'[q][n]) = fpn
        BY <3>3, <3>4, PteFacts
      <3>6. ~ pgd'[q][n].swapped
        BY <3>3 DEF pte_set_fpn
      <3> QED
        BY <2>1, <3>5, <3>6
    <2>2. CASE ~ (q = p /\ n - first \in 0 .. (count - 1))
      BY <1>3, <1>4, <2>2 DEF Mapped
    <2> QED
      BY <2>1, <2>2
  <1>6. AllInRam'
    BY <1>3, <1>5 DEF DataInv, AllInRam
  <1>7. FramesConserved'
    BY <1>2, FinishGrowthKeepsPlaces DEF DataInv, FramesConserved
  <1>8. WrittenInv'
    <2>1. \A q \in Procs, n \in Pages : pgd'[q][n] = pgd[q][n] \/ \A a \in Held(q) : PGN(a) # n
      BY <1>2, <1>5
    <2> QED
      BY <1>3, <2>1, KeepsData DEF DataInv
  <1> QED
    BY <1>2, <1>6, <1>7, <1>8 DEF DataInv
LEMMA FreeKeepsData ==
    ASSUME FewFrames, MemInv, DataInv, WrittenKept, NEW p \in Procs, NEW r \in Regs, Free(p, r)
    PROVE  DataInv'
  <1> DEFINE rg == symrgtbl[p][r]
             pages == FreedPages(p, rg)
             frames == FramesFreed(p, pages)
  <1>1. /\ free_ram' = PutFrames(free_ram, frames) /\ ram' = ram /\ request' = request
        /\ vm_end' = vm_end
        /\ pgd' = [pgd EXCEPT ![p] = [n \in Pages |-> IF n \in pages THEN NoPage ELSE pgd[p][n]]]
    BY DEF Free
  <1>2. rg \in RegionsUpTo(MaxBrk) /\ pgd \in [Procs -> [Pages -> Ptes]]
    BY DEF MemInv, SpaceInv, PageInv
  <1>3. pages \subseteq Pages
    BY <1>2, FreedPagesAndFrames
  <1>4. \A n \in pages : ~ pgd[p][n].swapped /\ FPN(pgd[p][n]) \in RamFrames
    BY <1>3 DEF FreedPages, DataInv, AllInRam
  <1>5. frames \in Seq(RamFrames)
    BY <1>2, <1>4, FramesOfPages
  <1>6. FramesConserved'
    BY <1>4, FreeKeepsPlaces DEF DataInv, FramesConserved
  <1> HIDE DEF pages, frames
  <1>7. \A q \in Procs, n \in Pages : pgd'[q][n] = pgd[q][n] \/ ~ pgd'[q][n].present
    BY <1>1, <1>2 DEF NoPage
  <1>8. AllInRam'
    <2>1. free_ram \in Seq(RamFrames)
      BY DEF DataInv, AllInRam
    <2>2. free_ram' \in Seq(RamFrames)
      BY <1>1, <1>5, <2>1, ReverseIsSeq, RangeOfBoth DEF PutFrames
    <2> QED
      BY <1>1, <1>7, <2>2 DEF DataInv, AllInRam
  <1>9. PagesBelowBreak'
    BY <1>1, <1>7, SamePagesBelowBreak DEF DataInv, EndOf
  <1>10. WrittenInv'
    BY <1>1, <1>7, KeepsData DEF DataInv
  <1> QED
    BY <1>6, <1>8, <1>9, <1>10 DEF DataInv

\* A byte written is the byte of no other address.
LEMMA AccessKeepsData ==
    ASSUME FewFrames, MemInv, RegionsBelowBreak, DataInv,
           NEW p \in Procs, NEW r \in Regs, NEW off \in Offsets,
           pgd[p][PGN(Address(p, r, off))].present, Access(p, r, off)
    PROVE  DataInv'
  <1> DEFINE addr == Address(p, r, off)
             pte == pgd[p][PGN(addr)]
  <1>1. /\ pgd' = pgd /\ vm_end' = vm_end /\ free_ram' = free_ram /\ request' = request
        /\ addr \in Bytes(symrgtbl[p][r])
    BY MappedAccess DEF pageVars, spaceVars
  <1>2. PagesBelowBreak'
    BY <1>1, SamePagesBelowBreak DEF DataInv, EndOf
  <1>3. AllInRam'
    BY <1>1 DEF DataInv, AllInRam
  <1>4. FramesConserved'
    <2>1. \A f : Places(f)' = Places(f)
      BY <1>1 DEF Places, Listed, MappedBy, InRam, HeldBack
    <2> QED
      BY <2>1 DEF DataInv, FramesConserved
  <1>5. CASE ram' = ram /\ written' = written
    <2>1. WrittenInv'
      BY <1>1, <1>5 DEF DataInv, WrittenInv, ReadBack
    <2> QED
      BY <1>2, <1>3, <1>4, <2>1 DEF DataInv
  <1>6. ASSUME NEW v \in Values, ram' = Store(ram, FPN(pte), OFFST(addr), v),
               written' = [written EXCEPT ![p][addr] = v]
        PROVE  WrittenInv'
    <2>1. addr \in Addresses
      <3>1. addr \in 0 .. (EndOf(p) - 1)
        BY <1>1 DEF RegionsBelowBreak
      <3>2. EndOf(p) \in Nat /\ EndOf(p) <= MaxBrk
        BY EndIsNat DEF EndsAreNat
      <3> QED
        BY <3>1, <3>2, TopBound DEF Addresses
    <2>2. \A a \in Addresses : /\ PGN(a) \in Pages /\ OFFST(a) \in 0 .. (PAGESZ - 1)
                               /\ a = PGN(a) * PAGESZ + OFFST(a)
      BY PageOfAddress, PageAndOffset DEF Addresses
    <2>3. /\ written \in [Procs -> [Addresses -> Values \cup {NULL}]] /\ ReadBack
          /\ ram \in [RamFrames -> PageContents]
      BY DEF DataInv, WrittenInv, MemInv, DeviceInv, RamFrames
    <2>4. /\ pte.present /\ ~ pte.swapped /\ FPN(pte) \in RamFrames
      BY <2>1, <2>2 DEF DataInv, AllInRam
    <2>5. PICK f \in RamFrames, o \in 0 .. (PAGESZ - 1) : f = FPN(pte) /\ o = OFFST(addr)
      BY <2>1, <2>2, <2>4
    <2>6. ram' = [ram EXCEPT ![f][o] = v]
      BY <1>6, <2>3, <2>5 DEF Store
    <2>7. <<p, PGN(addr)>> \in MappedBy(f)
      BY <2>1, <2>2, <2>4, <2>5 DEF MappedBy, InRam
    <2>8. Places(f) = 1
      BY DEF DataInv, FramesConserved, RamFrames
    <2> HIDE DEF addr, pte
    <2>9. ASSUME NEW q \in Procs, NEW a \in Addresses,
                 written'[q][a] # NULL, pgd'[q][PGN(a)].present
          PROVE  /\ FPN(pgd'[q][PGN(a)]) \in DOMAIN ram'
                 /\ ram'[FPN(pgd'[q][PGN(a)])][OFFST(a)] = written'[q][a]
      <3>1. pgd'[q][PGN(a)] = pgd[q][PGN(a)] /\ PGN(a) \in Pages
        BY <1>1, <2>2
      <3>2. PICK g \in RamFrames : g = FPN(pgd[q][PGN(a)])
        BY <2>9, <3>1 DEF DataInv, AllInRam
      <3>3. g \in DOMAIN ram' /\ DOMAIN ram = RamFrames
        BY <2>3, <2>6
      <3>4. CASE q = p /\ a = addr
        <4>1. written'[q][a] = v
          BY <1>6, <2>3, <3>4
        <4>2. g = f /\ OFFST(a) = o
          BY <2>5, <3>2, <3>4 DEF pte
        <4>3. ram'[f][o] = v
          BY <2>3, <2>6 DEF PageContents
        <4> QED
          BY <3>1, <3>2, <3>3, <4>1, <4>2, <4>3
      <3>5. CASE ~ (q = p /\ a = addr)
        <4>1. written'[q][a] = written[q][a]
          BY <1>6, <2>3, <3>5
        <4>2. ram[g][OFFST(a)] = written[q][a]
          BY <2>3, <2>9, <3>1, <3>2, <4>1 DEF ReadBack
        <4>3. ~ (g = f /\ OFFST(a) = o)
          <5>1. SUFFICES ASSUME g = f, OFFST(a) = o PROVE FALSE
            OBVIOUS
          <5>2. ~ pgd[q][PGN(a)].swapped /\ pgd[q][PGN(a)].present
            BY <2>9, <3>1 DEF DataInv, AllInRam
          <5>3. <<q, PGN(a)>> \in MappedBy(f)
            BY <3>1, <3>2, <5>1, <5>2 DEF MappedBy, InRam
          <5>4. <<q, PGN(a)>> = <<p, PGN(addr)>>
            BY <2>7, <2>8, <5>3, OnePagePerFrame
          <5>5. q = p /\ PGN(a) = PGN(addr)
            BY <5>4
          <5>6. a = PGN(addr) * PAGESZ + o /\ addr = PGN(addr) * PAGESZ + o
            BY <2>1, <2>2, <2>5, <5>1, <5>5
          <5> QED
            BY <3>5, <5>5, <5>6
        <4>4. ram'[g][OFFST(a)] = ram[g][OFFST(a)]
          BY <2>2, <2>3, <2>6, <4>3 DEF PageContents
        <4> QED
          BY <3>1, <3>2, <3>3, <4>1, <4>2, <4>4
      <3> QED
        BY <3>4, <3>5
    <2>10. ReadBack'
      BY <2>9 DEF ReadBack
    <2>11. written' \in [Procs -> [Addresses -> Values \cup {NULL}]]
      BY <1>6, <2>3
    <2> QED
      BY <2>10, <2>11 DEF WrittenInv
  <1>7. WrittenInv'
    BY <1>5, <1>6, MappedAccess DEF DataInv, WrittenInv, ReadBack
  <1> QED
    BY <1>2, <1>3, <1>4, <1>7 DEF DataInv

\* Every frame serves a page below a break or one of the allocation, and a
\* page the allocation still asks for has none: some frame is free.
LEMMA FittingRamLasts ==
    ASSUME FewFrames, MemInv, DataInv, FitsInRam
    PROVE  RamLasts
  <1> SUFFICES ASSUME Requested, free_ram = <<>> PROVE FALSE
    BY DEF RamLasts
  <1>1. PICK p \in Procs, count \in Nat :
             p = request.proc /\ count = Len(request.frames)
    BY DEF Requested, MemInv, RequestInv, Requests
  <1>2. /\ request # NULL /\ count < request.pages /\ request.pages \in Nat
        /\ vm_end[p] = request.old_end + request.pages * PAGESZ
        /\ request.frames \in Seq(RamFrames)
    BY <1>1 DEF Requested, MemInv, RequestInv, Requests, DataInv, AllInRam
  <1>3. PICK k \in 0 .. MaxPgn : /\ request.old_end = k * PAGESZ
                                 /\ \A n \in Pages : pgd[p][n].present => n < k
    BY <1>1, <1>2 DEF DataInv, PagesBelowBreak, EndOf
  <1>4. PAGESZ \in Nat \ {0} /\ MaxPgn \in Nat /\ k \in Nat
    BY TopBound
  <1>5. vm_end[p] = (k + request.pages) * PAGESZ /\ k + request.pages <= MaxPgn
    <2>1. \A i, j \in Nat, Q \in Nat : i * Q + j * Q = (i + j) * Q
      OBVIOUS
    <2>2. vm_end[p] = (k + request.pages) * PAGESZ
      BY <1>2, <1>3, <1>4, <2>1
    <2>3. k * PAGESZ + request.pages * PAGESZ <= MaxPgn * PAGESZ
      BY <1>2, <1>3, MemoryAssumption DEF MemInv, SpaceInv
    <2>4. \A i, j, m \in Nat, Q \in Nat \ {0} : i * Q + j * Q <= m * Q => i + j <= m
      BY Multiples
    <2> QED
      BY <1>2, <1>4, <2>2, <2>3, <2>4
  <1> DEFINE Serves(x, f) == \/ x \in MappedBy(f)
                             \/ \E j \in 1 .. count : x = <<p, (k + j) - 1>> /\ request.frames[j] = f
             spare == <<p, k + count>>
  <1>6. \A i, m \in Nat, Q \in Nat \ {0} : i < m => i * Q < m * Q
    OBVIOUS
  <1>7. ASSUME NEW n \in Int, k <= n, n < k + request.pages
        PROVE  <<p, n>> \in PagesAsked
    <2>1. n \in Pages /\ n \in Nat
      BY <1>2, <1>4, <1>5, <1>7 DEF Pages
    <2>2. n * PAGESZ < vm_end[p]
      <3>1. PICK m \in Nat : m = k + request.pages
        BY <1>2, <1>4
      <3>2. n * PAGESZ < m * PAGESZ
        BY <1>4, <1>6, <1>7, <2>1, <3>1
      <3> QED
        BY <1>5, <3>1, <3>2
    <2> QED
      BY <2>1, <2>2 DEF PagesAsked
  <1>8. ASSUME NEW q \in Procs, NEW n \in Pages, pgd[q][n].present
        PROVE  <<q, n>> \in PagesAsked
    <2>1. PICK m \in 0 .. MaxPgn : EndOf(q) = m * PAGESZ /\ n < m
      BY <1>8 DEF DataInv, PagesBelowBreak
    <2>2. n * PAGESZ < m * PAGESZ /\ n * PAGESZ \in Nat /\ m * PAGESZ \in Nat
      BY <1>4, <1>6, <2>1 DEF Pages
    <2>3. EndOf(q) <= vm_end[q]
      <3>1. CASE q = p
        BY <1>1, <1>2, <1>4, <2>1, <2>2, <3>1 DEF EndOf
      <3>2. CASE q # p
        <4>1. EndOf(q) = vm_end[q]
          BY <1>1, <3>2 DEF EndOf
        <4> QED
          BY <2>1, <2>2, <4>1
      <3> QED
        BY <3>1, <3>2
    <2>4. vm_end[q] \in Int
      BY DEF MemInv, SpaceInv
    <2> QED
      BY <2>1, <2>2, <2>3, <2>4 DEF PagesAsked
  <1>9. ASSUME NEW f \in RamFrames
        PROVE  \E x \in PagesAsked : x # spare /\ Serves(x, f)
    <2>1. Places(f) = 1
      BY DEF DataInv, FramesConserved, RamFrames
    <2>2. Listed(f) = 0
      <3>1. {j \in DOMAIN free_ram : free_ram[j] = f} = {}
        OBVIOUS
      <3> QED
        BY <3>1, FS_EmptySet DEF Listed
    <2>3. Cardinality(MappedBy(f)) # 0 \/ HeldBack(f) # 0
      BY <2>1, <2>2 DEF Places
    <2>4. CASE Cardinality(MappedBy(f)) # 0
      <3>1. MappedBy(f) # {}
        BY <2>4, FS_EmptySet
      <3>2. PICK q \in Procs, n \in Pages : <<q, n>> \in MappedBy(f) /\ pgd[q][n].present
        BY <3>1 DEF MappedBy, InRam
      <3>3. <<q, n>> \in PagesAsked
        BY <1>8, <3>2
      <3>4. <<q, n>> # spare
        <4>1. q = p => n < k
          BY <1>3, <3>2
        <4> QED
          BY <1>4, <4>1 DEF Pages
      <3> QED
        BY <3>2, <3>3, <3>4
    <2>5. CASE HeldBack(f) # 0
      <3>1. {j \in DOMAIN request.frames : request.frames[j] = f} # {}
        BY <1>2, <2>5, FS_EmptySet DEF HeldBack
      <3>2. DOMAIN request.frames = 1 .. count
        BY <1>1, <1>2, LenProperties
      <3>3. PICK j \in 1 .. count : request.frames[j] = f
        BY <3>1, <3>2
      <3>4. <<p, (k + j) - 1>> \in PagesAsked
        BY <1>2, <1>4, <1>7
      <3>5. <<p, (k + j) - 1>> # spare
        BY <1>4
      <3> QED
        BY <3>3, <3>4, <3>5
    <2> QED
      BY <2>3, <2>4, <2>5
  <1>10. ASSUME NEW x, NEW f \in RamFrames, NEW h \in RamFrames, Serves(x, f), Serves(x, h)
         PROVE  f = h
    <2>1. CASE x \in MappedBy(f) /\ x \in MappedBy(h)
      BY <2>1 DEF MappedBy
    <2>2. ASSUME NEW g, x \in MappedBy(g), NEW j \in 1 .. count, x = <<p, (k + j) - 1>>
          PROVE  FALSE
      <3>1. PICK q \in Procs, n \in Pages : x = <<q, n>> /\ pgd[q][n].present
        BY <2>2 DEF MappedBy, InRam
      <3>2. q = p /\ n = (k + j) - 1
        BY <2>2, <3>1
      <3> QED
        BY <1>3, <1>4, <3>1, <3>2
    <2>3. ASSUME NEW i \in 1 .. count, NEW j \in 1 .. count,
                 x = <<p, (k + i) - 1>>, x = <<p, (k + j) - 1>>
          PROVE  i = j
      <3>1. (k + i) - 1 = (k + j) - 1
        BY <2>3
      <3> QED
        BY <1>4, <3>1
    <2> QED
      BY <1>10, <2>1, <2>2, <2>3
  <1> HIDE DEF Serves, spare
  <1> DEFINE T == PagesAsked \ {spare}
             page == [f \in RamFrames |-> CHOOSE x \in T : Serves(x, f)]
  <1>11. page \in [RamFrames -> T] /\ \A f \in RamFrames : Serves(page[f], f)
    BY <1>9
  <1>12. IsFiniteSet(PagesAsked) /\ spare \in PagesAsked
    <2>1. IsFiniteSet(Pages)
      BY TopBound, FS_Interval DEF Pages
    <2>2. IsFiniteSet(Procs \X Pages)
      BY <2>1, FS_Product DEF FewFrames
    <2>3. PagesAsked \in SUBSET (Procs \X Pages)
      BY DEF PagesAsked
    <2>4. k + count \in Int /\ k <= k + count /\ k + count < k + request.pages
      BY <1>2, <1>4
    <2> QED
      BY <1>7, <2>2, <2>3, <2>4, FS_Subset DEF spare
  <1>13. /\ IsFiniteSet(T) /\ Cardinality(T) = Cardinality(PagesAsked) - 1
         /\ Cardinality(PagesAsked) \in Nat
    BY <1>12, FS_RemoveElement, FS_CardinalityType
  <1>14. IsFiniteSet(RamFrames) /\ Cardinality(RamFrames) = NumFrames /\ NumFrames \in Nat
    <2>1. NumFrames \in Nat \ {0, 1} /\ 0 \in Int /\ NumFrames - 1 \in Int
      BY MemoryAssumption
    <2> QED
      BY <2>1, FS_Interval DEF RamFrames
  <1>15. Cardinality(T) < Cardinality(RamFrames)
    BY <1>13, <1>14 DEF FitsInRam
  <1> HIDE DEF T, page
  <1>16. \E f, h \in RamFrames : f # h /\ page[f] = page[h]
    BY <1>11, <1>13, <1>14, <1>15, FS_PigeonHole
  <1> QED
    BY <1>10, <1>11, <1>16

\* An allocation under way always finds a free frame, so nothing is swapped.
LEMMA NextKeepsData ==
    ASSUME FewFrames, MemInv, RegionsBelowBreak, DataInv, RamLasts, [MappedNext]_dataVars
    PROVE  DataInv'
  <1>1. CASE Alloc /\ WrittenKept
    BY <1>1, AllocKeepsData DEF Alloc
  <1>2. ~ TakeVictim /\ ~ OutOfMemory
    BY DEF RamLasts, TakeVictim, OutOfMemory
  <1>3. CASE TakeFrame /\ WrittenKept
    BY <1>3, TakeFrameKeepsData
  <1>4. CASE FinishGrowth /\ WrittenKept
    BY <1>4, FinishGrowthKeepsData
  <1>5. CASE Release /\ WrittenKept
    BY <1>5, FreeKeepsData DEF Release
  <1>6. ASSUME NEW p \in Procs, NEW r \in Regs, NEW off \in Offsets,
               pgd[p][PGN(Address(p, r, off))].present, Access(p, r, off)
        PROVE  DataInv'
    BY <1>6, AccessKeepsData
  <1>7. CASE UNCHANGED dataVars
    <2>1. UNCHANGED <<pgd, free_ram, ram, request, vm_end, written>>
      BY <1>7 DEF dataVars, vars, spaceVars, pageVars, devVars
    <2>2. PagesBelowBreak'
      BY <2>1, SamePagesBelowBreak DEF DataInv, EndOf
    <2>3. AllInRam' /\ WrittenInv'
      BY <2>1 DEF DataInv, AllInRam, WrittenInv, ReadBack
    <2>4. \A f : Places(f)' = Places(f)
      BY <2>1 DEF Places, Listed, MappedBy, InRam, HeldBack
    <2>5. FramesConserved'
      BY <2>4 DEF DataInv, FramesConserved
    <2> QED
      BY <2>2, <2>3, <2>5 DEF DataInv
  <1> QED
    BY <1>1, <1>2, <1>3, <1>4, <1>5, <1>6, <1>7 DEF MappedNext, Growth

LEMMA DataInvariant ==
    ASSUME FewFrames
    PROVE  FittingSpec => [](MemInv /\ DataInv /\ FitsInRam)
  <1> DEFINE Inv == MemInv /\ RegionsBelowBreak /\ DataInv /\ FitsInRam
  <1>1. ASSUME DataInit PROVE Inv
    <2>1. PagesAsked = {}
      <3>1. \A p \in Procs : vm_end[p] = 0
        BY <1>1 DEF DataInit, Init
      <3>2. \A n \in Pages : n * PAGESZ \in Nat
        BY TopBound DEF Pages
      <3> QED
        BY <3>1, <3>2 DEF PagesAsked
    <2>2. FitsInRam
      BY <2>1, FS_EmptySet, MemoryAssumption DEF FitsInRam
    <2> QED
      BY <1>1, <2>2, InitMemory, InitBelowBreak, InitData DEF DataInit
  <1>2. ASSUME Inv, [MappedNext /\ FitsInRam']_dataVars PROVE Inv'
    <2>1. [MappedNext]_dataVars
      BY <1>2
    <2>2. MemInv' /\ RegionsBelowBreak'
      BY <1>2, <2>1, MappedNextIsNext, NextKeepsInv, NextKeepsBelowBreak
    <2>3. DataInv'
      BY <1>2, <2>1, FittingRamLasts, NextKeepsData
    <2>4. FitsInRam'
      <3>1. UNCHANGED dataVars => PagesAsked' = PagesAsked
        BY DEF dataVars, vars, spaceVars, PagesAsked
      <3> QED
        BY <1>2, <3>1 DEF FitsInRam
    <2> QED
      BY <2>2, <2>3, <2>4
  <1> QED
    BY <1>1, <1>2, PTL DEF FittingSpec

\* As long as all processes together ask for no more pages than RAM has
\* frames, an allocation under way finds a free one for each of its pages,
\* whatever is allocated and freed meanwhile: no frame is lost, and
\* alloc_pages_range never has to swap or to fail half-way.
THEOREM RamLastsCorrect ==
    ASSUME FewFrames
    PROVE  FittingSpec => []RamLasts
  <1>1. MemInv /\ DataInv /\ FitsInRam => RamLasts
    BY FittingRamLasts
  <1> QED
    BY <1>1, DataInvariant, PTL

\* No frame is lost and none serves two pages: the allocations and releases
\* of any number of processes, cut at every page alloc_pages_range obtains,
\* hand every frame on exactly once.
THEOREM FramesConservedCorrect ==
    ASSUME FewFrames
    PROVE  FittingSpec => []FramesConserved
  <1>1. DataInv => FramesConserved
    BY DEF DataInv
  <1> QED
    BY <1>1, DataInvariant, PTL

\* What a program reads from a mapped page of its own is what it wrote there
\* last: __write by any process changes no byte of another address, and the
\* growth and release of regions move no page that is in use.
THEOREM ReadBackCorrect ==
    ASSUME FewFrames
    PROVE  FittingSpec => []ReadBack
  <1>1. DataInv => ReadBack
    BY DEF DataInv, WrittenInv
  <1> QED
    BY <1>1, DataInvariant, PTL
=============================================================================
