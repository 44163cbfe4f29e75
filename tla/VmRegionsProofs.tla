--------------------------- MODULE VmRegionsProofs ---------------------------
(***************************************************************************)
(* What the list operations of VmRegions return and preserve, for lists of *)
(* any length.  AddressSpaceProofs and MemoryProofs build on it.           *)
(***************************************************************************)
EXTENDS VmRegions, SequenceTheorems, WellFoundedInduction, TLAPS

-----------------------------------------------------------------------------
(* Lists                                                                   *)

LEMMA LeastExists ==
    ASSUME NEW S \in SUBSET Nat, S # {}
    PROVE  \E k \in S : \A j \in S : k <= j
  <1>1. PICK k \in S : \A j \in S : ~(<<j, k>> \in OpToRel(<, Nat))
    BY WFMin, NatLessThanWellFounded, Zenon
  <1>2. \A j \in S : <<j, k>> \in Nat \X Nat
    OBVIOUS
  <1>3. \A j \in S : ~(j < k)
    BY <1>1, <1>2, Zenon DEF OpToRel
  <1> QED
    BY <1>3

LEMMA RemoveAtElements ==
    ASSUME NEW R, NEW s \in Seq(R), NEW k \in 1 .. Len(s)
    PROVE  /\ RemoveAt(s, k) \in Seq(R)
           /\ Len(RemoveAt(s, k)) = Len(s) - 1
           /\ \A j \in 1 .. (Len(s) - 1) :
                 RemoveAt(s, k)[j] = IF j < k THEN s[j] ELSE s[j + 1]
  <1> DEFINE n == Len(s)
             before == SubSeq(s, 1, k - 1)
             after == SubSeq(s, k + 1, n)
  <1>1. n \in Nat /\ k \in 1 .. n /\ \A j \in 1 .. n : s[j] \in R
    BY LenProperties, ElementOfSeq
  <1>2. /\ before \in Seq(R) /\ Len(before) = k - 1
        /\ \A j \in 1 .. (k - 1) : before[j] = s[j]
    <2>1. \A j \in 1 .. (k - 1) : s[j] \in R
      BY <1>1
    <2>2. /\ before \in Seq(R)
          /\ Len(before) = IF 1 <= k - 1 THEN (k - 1) - 1 + 1 ELSE 0
          /\ \A j \in 1 .. ((k - 1) - 1 + 1) : before[j] = s[1 + j - 1]
      BY <1>1, <2>1, SubSeqProperties
    <2> HIDE DEF before
    <2> QED
      BY <1>1, <2>2
  <1>3. /\ after \in Seq(R) /\ Len(after) = n - k
        /\ \A j \in 1 .. (n - k) : after[j] = s[k + j]
    <2>1. \A j \in (k + 1) .. n : s[j] \in R
      BY <1>1
    <2>2. /\ after \in Seq(R)
          /\ Len(after) = IF k + 1 <= n THEN n - (k + 1) + 1 ELSE 0
          /\ \A j \in 1 .. (n - (k + 1) + 1) : after[j] = s[k + 1 + j - 1]
      BY <1>1, <2>1, SubSeqProperties
    <2> HIDE DEF after, n
    <2> QED
      BY <1>1, <2>2
  <1>4. /\ before \o after \in Seq(R)
        /\ Len(before \o after) = Len(before) + Len(after)
        /\ \A j \in 1 .. (Len(before) + Len(after)) :
              (before \o after)[j] = IF j <= Len(before) THEN before[j] ELSE after[j - Len(before)]
    BY <1>2, <1>3, ConcatProperties
  <1>5. RemoveAt(s, k) = before \o after
    BY DEF RemoveAt
  <1> HIDE DEF before, after, n
  <1>6. Len(before \o after) = n - 1
    BY <1>1, <1>2, <1>3, <1>4
  <1>7. ASSUME NEW j \in 1 .. (n - 1)
        PROVE  (before \o after)[j] = IF j < k THEN s[j] ELSE s[j + 1]
    <2>1. j \in 1 .. (Len(before) + Len(after))
      BY <1>1, <1>2, <1>3
    <2>2. CASE j < k
      BY <1>1, <1>2, <1>4, <2>1, <2>2
    <2>3. CASE j >= k
      <3>1. (before \o after)[j] = after[j - (k - 1)]
        BY <1>1, <1>2, <1>4, <2>1, <2>3
      <3>2. j - (k - 1) \in 1 .. (n - k) /\ k + (j - (k - 1)) = j + 1
        BY <1>1, <2>3
      <3> QED
        BY <1>1, <1>3, <2>3, <3>1, <3>2
    <2>4. j < k \/ j >= k
      BY <1>1
    <2> QED
      BY <2>2, <2>3, <2>4, Zenon
  <1> QED
    BY <1>4, <1>5, <1>6, <1>7 DEF n

LEMMA InsertAtElements ==
    ASSUME NEW R, NEW s \in Seq(R), NEW k \in 1 .. (Len(s) + 1), NEW e \in R
    PROVE  /\ InsertAt(s, k, e) \in Seq(R)
           /\ Len(InsertAt(s, k, e)) = Len(s) + 1
           /\ InsertAt(s, k, e)[k] = e
           /\ \A j \in 1 .. (k - 1) : InsertAt(s, k, e)[j] = s[j]
           /\ \A j \in (k + 1) .. (Len(s) + 1) : InsertAt(s, k, e)[j] = s[j - 1]
  <1> DEFINE n == Len(s)
             before == SubSeq(s, 1, k - 1)
             after == SubSeq(s, k, n)
             first == before \o <<e>>
  <1>1. n \in Nat /\ k \in 1 .. (n + 1) /\ \A j \in 1 .. n : s[j] \in R
    BY LenProperties, ElementOfSeq
  <1>2. /\ before \in Seq(R) /\ Len(before) = k - 1
        /\ \A j \in 1 .. (k - 1) : before[j] = s[j]
    <2>1. \A j \in 1 .. (k - 1) : s[j] \in R
      BY <1>1
    <2>2. /\ before \in Seq(R)
          /\ Len(before) = IF 1 <= k - 1 THEN (k - 1) - 1 + 1 ELSE 0
          /\ \A j \in 1 .. ((k - 1) - 1 + 1) : before[j] = s[1 + j - 1]
      BY <1>1, <2>1, SubSeqProperties
    <2> HIDE DEF before
    <2> QED
      BY <1>1, <2>2
  <1>3. /\ after \in Seq(R) /\ Len(after) = n - k + 1
        /\ \A j \in 1 .. (n - k + 1) : after[j] = s[k + j - 1]
    <2>1. \A j \in k .. n : s[j] \in R
      BY <1>1
    <2>2. /\ after \in Seq(R)
          /\ Len(after) = IF k <= n THEN n - k + 1 ELSE 0
          /\ \A j \in 1 .. (n - k + 1) : after[j] = s[k + j - 1]
      BY <1>1, <2>1, SubSeqProperties
    <2> HIDE DEF after, n
    <2> QED
      BY <1>1, <2>2
  <1>4. /\ first \in Seq(R) /\ Len(first) = k
        /\ \A j \in 1 .. (k - 1) : first[j] = s[j]
        /\ first[k] = e
    <2>1. /\ <<e>> \in Seq(R) /\ Len(<<e>>) = 1 /\ <<e>>[1] = e
      OBVIOUS
    <2>2. /\ first \in Seq(R) /\ Len(first) = Len(before) + Len(<<e>>)
          /\ \A j \in 1 .. (Len(before) + Len(<<e>>)) :
                first[j] = IF j <= Len(before) THEN before[j] ELSE <<e>>[j - Len(before)]
      BY <1>2, <2>1, ConcatProperties
    <2> HIDE DEF before, first, n
    <2> QED
      BY <1>1, <1>2, <2>1, <2>2
  <1> HIDE DEF before, after, first, n
  <1>5. /\ first \o after \in Seq(R)
        /\ Len(first \o after) = Len(first) + Len(after)
        /\ \A j \in 1 .. (Len(first) + Len(after)) :
              (first \o after)[j] = IF j <= Len(first) THEN first[j] ELSE after[j - Len(first)]
    BY <1>3, <1>4, ConcatProperties
  <1>6. InsertAt(s, k, e) = first \o after
    BY DEF InsertAt, before, after, first, n
  <1>7. Len(first \o after) = n + 1 /\ (first \o after)[k] = e
    BY <1>1, <1>3, <1>4, <1>5
  <1>8. \A j \in 1 .. (k - 1) : (first \o after)[j] = s[j]
    BY <1>1, <1>3, <1>4, <1>5
  <1>9. ASSUME NEW j \in (k + 1) .. (n + 1)
        PROVE  (first \o after)[j] = s[j - 1]
    <2>1. (first \o after)[j] = after[j - k]
      BY <1>1, <1>3, <1>4, <1>5
    <2>2. j - k \in 1 .. (n - k + 1) /\ k + (j - k) - 1 = j - 1
      BY <1>1
    <2> QED
      BY <1>3, <2>1, <2>2
  <1> QED
    BY <1>5, <1>6, <1>7, <1>8, <1>9 DEF n

-----------------------------------------------------------------------------
(* Lists of regions                                                        *)

\* Regions whose ends are addresses up to top, or the -1 of a freed one.
RegionsUpTo(top) == [start : -1 .. top, end : -1 .. top]

\* No region ends before it starts.
WellFormed(list) == \A k \in DOMAIN list : list[k].start <= list[k].end

\* No address lies in two regions of the list.
Apart(list) ==
    \A j, k \in DOMAIN list : j # k => Bytes(list[j]) \cap Bytes(list[k]) = {}

LEMMA RegionFacts ==
    ASSUME NEW top \in Nat
    PROVE  /\ \A rg \in RegionsUpTo(top) : rg.start \in Int /\ rg.end \in Int
           /\ \A a, b \in -1 .. top : /\ Region(a, b) \in RegionsUpTo(top)
                                     /\ Region(a, b).start = a /\ Region(a, b).end = b
           /\ \A rg \in RegionsUpTo(top) :
                 \A x : x \in Bytes(rg) <=> x \in Int /\ rg.start <= x /\ x < rg.end
  <1>1. \A rg \in RegionsUpTo(top) : rg.start \in Int /\ rg.end \in Int
    BY DEF RegionsUpTo
  <1>2. \A rg \in RegionsUpTo(top) :
           \A x : x \in Bytes(rg) <=> x \in Int /\ rg.start <= x /\ x < rg.end
    BY <1>1 DEF Bytes
  <1> QED
    BY <1>1, <1>2 DEF RegionsUpTo, Region

LEMMA ListFacts ==
    ASSUME NEW top \in Nat, NEW list \in Seq(RegionsUpTo(top))
    PROVE  /\ DOMAIN list = 1 .. Len(list) /\ Len(list) \in Nat
           /\ \A k \in 1 .. Len(list) : list[k] \in RegionsUpTo(top)
           /\ \A x : x \in ListBytes(list) <=> \E k \in 1 .. Len(list) : x \in Bytes(list[k])
  <1>1. DOMAIN list = 1 .. Len(list) /\ Len(list) \in Nat
    BY LenProperties
  <1>2. \A k \in 1 .. Len(list) : list[k] \in RegionsUpTo(top)
    BY ElementOfSeq
  <1> QED
    BY <1>1, <1>2 DEF ListBytes

\* get_free_vmrg_area finds the first region that is large enough.
LEMMA FirstFitIsFit ==
    ASSUME NEW top \in Nat, NEW list \in Seq(RegionsUpTo(top)), NEW size, Fits(list, size) # {}
    PROVE  /\ FirstFit(list, size) \in 1 .. Len(list)
           /\ list[FirstFit(list, size)].start + size <= list[FirstFit(list, size)].end
           /\ \A j \in Fits(list, size) : FirstFit(list, size) <= j
  <1>1. Fits(list, size) \in SUBSET Nat
    BY ListFacts DEF Fits
  <1>2. \E k \in Fits(list, size) : \A j \in Fits(list, size) : k <= j
    BY <1>1, LeastExists
  <1>3. /\ FirstFit(list, size) \in Fits(list, size)
        /\ \A j \in Fits(list, size) : FirstFit(list, size) <= j
    BY <1>2 DEF FirstFit
  <1> QED
    BY <1>3, ListFacts DEF Fits

\* What get_free_vmrg_area takes was free and no longer is; nothing becomes
\* free.
LEMMA TakingFromList ==
    ASSUME NEW top \in Nat, NEW list \in Seq(RegionsUpTo(top)), WellFormed(list),
           NEW size \in Nat \ {0}, Fits(list, size) # {}
    PROVE  /\ TakenRegion(list, size) \in RegionsUpTo(top)
           /\ TakenRegion(list, size).start < TakenRegion(list, size).end
           /\ AfterTaking(list, size) \in Seq(RegionsUpTo(top))
           /\ WellFormed(AfterTaking(list, size))
           /\ ListBytes(AfterTaking(list, size)) \subseteq ListBytes(list)
           /\ Bytes(TakenRegion(list, size)) \subseteq ListBytes(list)
           /\ Apart(list) =>
                 /\ Apart(AfterTaking(list, size))
                 /\ Bytes(TakenRegion(list, size)) \cap ListBytes(AfterTaking(list, size)) = {}
  <1> DEFINE k == FirstFit(list, size)
             rg == list[k]
             taken == TakenRegion(list, size)
             left == AfterTaking(list, size)
             rest == [list EXCEPT ![k].start = @ + size]
  <1>1. k \in 1 .. Len(list) /\ rg.start + size <= rg.end
    BY FirstFitIsFit
  <1>2. rg \in RegionsUpTo(top) /\ rg.start \in -1 .. top /\ rg.end \in -1 .. top
    BY <1>1, ListFacts DEF RegionsUpTo
  <1>3. rg.start + size \in -1 .. top
    BY <1>1, <1>2
  <1>4. taken \in RegionsUpTo(top) /\ taken.start = rg.start /\ taken.end = rg.start + size
    BY <1>2, <1>3, RegionFacts DEF TakenRegion
  <1>5. taken.start < taken.end
    BY <1>2, <1>4
  <1>6. Bytes(taken) \subseteq Bytes(rg)
    <2>1. \A x : x \in Bytes(taken) => x \in Int /\ rg.start <= x /\ x < rg.start + size
      BY <1>4, RegionFacts
    <2> QED
      BY <2>1, <1>1, <1>2, RegionFacts
  <1>7. Bytes(taken) \subseteq ListBytes(list)
    BY <1>1, <1>6, ListFacts
  <1>8. CASE rg.start + size < rg.end
    <2>1. left = rest
      BY <1>8 DEF AfterTaking
    <2>2. /\ rest \in Seq(RegionsUpTo(top)) /\ Len(rest) = Len(list)
          /\ rest[k].start = rg.start + size /\ rest[k].end = rg.end
          /\ \A j \in 1 .. Len(list) : j # k => rest[j] = list[j]
      <3>1. [rg EXCEPT !.start = @ + size] \in RegionsUpTo(top)
        BY <1>2, <1>3 DEF RegionsUpTo
      <3>2. rest = [list EXCEPT ![k] = [rg EXCEPT !.start = @ + size]]
        OBVIOUS
      <3> QED
        BY <1>1, <1>2, <3>1, <3>2, ExceptSeq, ListFacts DEF RegionsUpTo
    <2> HIDE DEF rest, k, rg, taken, left
    <2>3. rest[k] \in RegionsUpTo(top)
      BY <1>1, <2>2, ListFacts
    <2>4. Bytes(rest[k]) \subseteq Bytes(rg) /\ Bytes(taken) \cap Bytes(rest[k]) = {}
      <3>1. \A x \in Bytes(rest[k]) : x \in Int /\ rg.start + size <= x /\ x < rg.end
        BY <2>2, <2>3, RegionFacts
      <3>2. \A x \in Bytes(taken) : x \in Int /\ x < rg.start + size
        BY <1>4, RegionFacts
      <3>3. rg.start \in Int /\ size \in Nat
        BY <1>2, RegionFacts
      <3>4. \A x \in Bytes(rest[k]) : x \in Int /\ rg.start <= x /\ x < rg.end
        BY <3>1, <3>3
      <3>5. Bytes(rest[k]) \subseteq Bytes(rg)
        BY <3>4, <1>2, RegionFacts
      <3>6. ASSUME NEW x, x \in Bytes(rest[k]), x \in Bytes(taken) PROVE FALSE
        BY <3>1, <3>2, <3>3, <3>6
      <3> QED
        BY <3>5, <3>6
    <2>5. WellFormed(rest)
      BY <1>1, <1>8, <1>2, <2>2, ListFacts DEF WellFormed, rg
    <2>6. \A j \in 1 .. Len(list) : Bytes(rest[j]) \subseteq Bytes(list[j])
      BY <2>2, <2>4 DEF rg
    <2>7. Apart(list) => Apart(rest)
      <3>1. DOMAIN rest = 1 .. Len(list) /\ DOMAIN list = 1 .. Len(list)
        BY <2>2, ListFacts
      <3> QED
        BY <2>6, <3>1 DEF Apart
    <2>8. ListBytes(rest) \subseteq ListBytes(list)
      BY <2>2, <2>6, ListFacts
    <2>9. ASSUME Apart(list) PROVE Bytes(taken) \cap ListBytes(rest) = {}
      <3>1. \A j \in 1 .. Len(list) : j # k => Bytes(list[j]) \cap Bytes(rg) = {}
        BY <1>1, <2>9, ListFacts DEF Apart, rg
      <3> QED
        BY <1>6, <2>2, <2>4, <3>1, ListFacts
    <2> QED
      BY <1>4, <1>5, <1>7, <2>1, <2>2, <2>5, <2>7, <2>8, <2>9 DEF taken, left
  <1>9. CASE ~(rg.start + size < rg.end)
    <2>1. left = <<>>
      BY <1>9 DEF AfterTaking
    <2>2. left \in Seq(RegionsUpTo(top)) /\ Len(left) = 0 /\ DOMAIN left = {}
      BY <2>1, EmptySeq, LenProperties
    <2>3. ListBytes(left) = {} /\ WellFormed(left) /\ Apart(left)
      BY <2>2 DEF ListBytes, WellFormed, Apart
    <2> QED
      BY <1>4, <1>5, <1>7, <2>2, <2>3
  <1> QED
    BY <1>8, <1>9

\* Region k swallows the one behind it.
Join(list, k) == RemoveAt([list EXCEPT ![k].end = list[k + 1].end], k + 1)

\* Merging two neighbours that touch keeps the free addresses as they are.
LEMMA JoinRegions ==
    ASSUME NEW top \in Nat, NEW list \in Seq(RegionsUpTo(top)), WellFormed(list),
           NEW k \in 1 .. (Len(list) - 1), list[k].end = list[k + 1].start
    PROVE  /\ Join(list, k) \in Seq(RegionsUpTo(top)) /\ WellFormed(Join(list, k))
           /\ Len(Join(list, k)) = Len(list) - 1
           /\ ListBytes(Join(list, k)) = ListBytes(list)
           /\ Apart(list) => Apart(Join(list, k))
  <1> DEFINE n == Len(list)
             a == list[k]
             b == list[k + 1]
             wide == [list EXCEPT ![k].end = b.end]
             joined == Join(list, k)
  <1>1. /\ n \in Nat /\ k \in 1 .. n /\ k + 1 \in 1 .. n
        /\ \A j \in 1 .. n : list[j] \in RegionsUpTo(top)
    BY ListFacts
  <1>2. /\ a \in RegionsUpTo(top) /\ b \in RegionsUpTo(top) /\ a.end = b.start
        /\ a.start <= a.end /\ b.start <= b.end
    BY <1>1, ListFacts DEF WellFormed
  <1>3. /\ wide \in Seq(RegionsUpTo(top)) /\ Len(wide) = n
        /\ wide[k] = Region(a.start, b.end)
        /\ \A j \in 1 .. n : j # k => wide[j] = list[j]
    <2>1. [a EXCEPT !.end = b.end] \in RegionsUpTo(top) /\ [a EXCEPT !.end = b.end] = Region(a.start, b.end)
      <3> HIDE DEF a, b
      <3>1. /\ a.start \in -1 .. top /\ b.end \in -1 .. top
            /\ a \in [start : -1 .. top, end : -1 .. top]
        BY <1>2 DEF RegionsUpTo
      <3>2. [a EXCEPT !.end = b.end] = [start |-> a.start, end |-> b.end]
        BY <3>1
      <3> QED
        BY <3>1, <3>2 DEF RegionsUpTo, Region
    <2>2. wide = [list EXCEPT ![k] = [a EXCEPT !.end = b.end]]
      OBVIOUS
    <2> QED
      BY <1>1, <2>1, <2>2, ExceptSeq
  <1>4. /\ joined \in Seq(RegionsUpTo(top)) /\ Len(joined) = n - 1
        /\ \A j \in 1 .. (n - 1) : joined[j] = IF j < k + 1 THEN wide[j] ELSE wide[j + 1]
    <2>1. joined = RemoveAt(wide, k + 1)
      BY DEF Join
    <2> HIDE DEF n, a, b, wide, joined
    <2> QED
      BY <1>1, <1>3, <2>1, RemoveAtElements
  <1> HIDE DEF n, a, b, wide, joined
  <1>5. /\ joined[k] = Region(a.start, b.end)
        /\ \A j \in 1 .. (k - 1) : joined[j] = list[j]
        /\ \A j \in (k + 1) .. (n - 1) : joined[j] = list[j + 1]
    BY <1>1, <1>3, <1>4
  <1>6. joined[k].start = a.start /\ joined[k].end = b.end /\ joined[k] \in RegionsUpTo(top)
    BY <1>2, <1>5, RegionFacts DEF RegionsUpTo
  <1>7. /\ Bytes(joined[k]) = Bytes(a) \cup Bytes(b)
        /\ joined[k].start <= joined[k].end
    <2>1. a.start \in Int /\ a.end \in Int /\ b.start \in Int /\ b.end \in Int
      BY <1>2, RegionFacts
    <2>2. a.start <= b.end
      BY <1>2, <2>1
    <2>3. \A x \in Int : a.start <= x /\ x < b.end
                            <=> (a.start <= x /\ x < a.end) \/ (b.start <= x /\ x < b.end)
      BY <1>2, <2>1
    <2>4. \A x : x \in Bytes(joined[k]) <=> x \in Bytes(a) \/ x \in Bytes(b)
      BY <1>2, <1>6, <2>3, RegionFacts
    <2> QED
      BY <1>6, <2>2, <2>4
  <1>8. DOMAIN joined = 1 .. (n - 1) /\ DOMAIN list = 1 .. n
    BY <1>4, ListFacts DEF n
  <1>9. WellFormed(joined)
    <2>1. \A j \in 1 .. n : list[j].start <= list[j].end
      BY <1>8 DEF WellFormed
    <2>2. ASSUME NEW j \in 1 .. (n - 1) PROVE joined[j].start <= joined[j].end
      <3>1. CASE j = k
        BY <1>7, <3>1
      <3>2. CASE j # k
        <4>1. \/ j \in 1 .. (k - 1) /\ j \in 1 .. n
              \/ j \in (k + 1) .. (n - 1) /\ j + 1 \in 1 .. n
          BY <1>1, <3>2
        <4> QED
          BY <1>5, <2>1, <4>1
      <3> QED
        BY <3>1, <3>2
    <2> QED
      BY <2>2, <1>8 DEF WellFormed
  <1>10. ListBytes(joined) = ListBytes(list)
    <2>1. ASSUME NEW x, x \in ListBytes(joined) PROVE x \in ListBytes(list)
      <3>1. PICK j \in 1 .. (n - 1) : x \in Bytes(joined[j])
        BY <2>1, <1>4, ListFacts
      <3>2. \/ j = k
            \/ j \in 1 .. (k - 1) /\ j \in 1 .. n
            \/ j \in (k + 1) .. (n - 1) /\ j + 1 \in 1 .. n
        BY <1>1
      <3>3. \E m \in 1 .. n : x \in Bytes(list[m])
        BY <1>1, <1>5, <1>7, <3>1, <3>2 DEF a, b
      <3> QED
        BY <3>3, ListFacts DEF n
    <2>2. ASSUME NEW x, x \in ListBytes(list) PROVE x \in ListBytes(joined)
      <3>1. PICK j \in 1 .. n : x \in Bytes(list[j])
        BY <2>2, ListFacts DEF n
      <3>2. CASE j = k \/ j = k + 1
        <4>1. x \in Bytes(joined[k]) /\ k \in 1 .. (n - 1)
          BY <1>1, <1>7, <3>1, <3>2 DEF a, b
        <4> QED
          BY <4>1, <1>4, ListFacts
      <3>3. CASE j < k
        <4>1. x \in Bytes(joined[j]) /\ j \in 1 .. (n - 1)
          BY <1>1, <1>5, <3>1, <3>3
        <4> QED
          BY <4>1, <1>4, ListFacts
      <3>4. CASE j > k + 1
        <4>1. j - 1 \in (k + 1) .. (n - 1) /\ j - 1 \in 1 .. (n - 1) /\ (j - 1) + 1 = j
          BY <1>1, <3>4
        <4>2. x \in Bytes(joined[j - 1])
          BY <1>5, <3>1, <4>1
        <4> QED
          BY <4>1, <4>2, <1>4, ListFacts
      <3> QED
        BY <1>1, <3>2, <3>3, <3>4
    <2> QED
      BY <2>1, <2>2
  <1>11. ASSUME Apart(list) PROVE Apart(joined)
    <2>1. \A i, j \in 1 .. n : i # j => Bytes(list[i]) \cap Bytes(list[j]) = {}
      BY <1>8, <1>11 DEF Apart
    <2>2. ASSUME NEW i \in 1 .. (n - 1), i # k
          PROVE  \E m \in 1 .. n : m # k /\ m # k + 1 /\ joined[i] = list[m]
                                    /\ m = IF i < k THEN i ELSE i + 1
      <3>1. CASE i < k
        BY <1>1, <1>5, <3>1
      <3>2. CASE i > k
        <4>1. i + 1 \in 1 .. n /\ i \in (k + 1) .. (n - 1) /\ i + 1 # k /\ i + 1 # k + 1 /\ ~(i < k)
          BY <1>1, <3>2
        <4> QED
          BY <1>5, <4>1
      <3> QED
        BY <1>1, <2>2, <3>1, <3>2
    <2>3. ASSUME NEW i \in 1 .. (n - 1), i # k
          PROVE  Bytes(joined[i]) \cap Bytes(joined[k]) = {}
      BY <1>1, <1>7, <2>1, <2>2, <2>3 DEF a, b
    <2>4. ASSUME NEW i \in 1 .. (n - 1), NEW j \in 1 .. (n - 1), i # j, i # k, j # k
          PROVE  Bytes(joined[i]) \cap Bytes(joined[j]) = {}
      <3>1. PICK m \in 1 .. n : joined[i] = list[m] /\ m = IF i < k THEN i ELSE i + 1
        BY <2>2, <2>4
      <3>2. PICK o \in 1 .. n : joined[j] = list[o] /\ o = IF j < k THEN j ELSE j + 1
        BY <2>2, <2>4
      <3>3. m # o
        BY <1>1, <2>4, <3>1, <3>2
      <3> QED
        BY <2>1, <3>1, <3>2, <3>3
    <2> QED
      BY <1>8, <2>3, <2>4 DEF Apart
  <1> QED
    BY <1>4, <1>9, <1>10, <1>11 DEF n, joined

\* enlist_vm_freerg_list finds a place in every list: the first region that
\* does not start below the new one, or the end.
LEMMA PositionInList ==
    ASSUME NEW top \in Nat, NEW list \in Seq(RegionsUpTo(top)), NEW rg \in RegionsUpTo(top)
    PROVE  Position(list, rg) \in 1 .. (Len(list) + 1)
  <1> DEFINE S == {k \in 1 .. Len(list) : list[k].start >= rg.start}
             Place(k) == /\ \A j \in 1 .. (k - 1) : list[j].start < rg.start
                         /\ k \in DOMAIN list => list[k].start >= rg.start
  <1>1. Len(list) \in Nat /\ DOMAIN list = 1 .. Len(list) /\ rg.start \in Int
        /\ \A j \in 1 .. Len(list) : list[j].start \in Int
    BY ListFacts, RegionFacts
  <1>2. \E k \in 1 .. (Len(list) + 1) : Place(k)
    <2>1. CASE S = {}
      <3>1. Place(Len(list) + 1)
        BY <1>1, <2>1
      <3> QED
        BY <1>1, <3>1
    <2>2. CASE S # {}
      <3>0. S \in SUBSET Nat
        OBVIOUS
      <3>1. PICK k \in S : \A j \in S : k <= j
        BY <2>2, <3>0, LeastExists
      <3>2. \A j \in 1 .. (k - 1) : j \in 1 .. Len(list) /\ j \notin S
        BY <1>1, <3>1
      <3>3. Place(k)
        BY <1>1, <3>1, <3>2
      <3> QED
        BY <1>1, <3>1, <3>3
    <2> QED
      BY <2>1, <2>2
  <1> QED
    BY <1>2 DEF Position

\* A region put into a list: its addresses become free, and no others.
LEMMA InsertRegion ==
    ASSUME NEW top \in Nat, NEW list \in Seq(RegionsUpTo(top)), WellFormed(list),
           NEW rg \in RegionsUpTo(top), rg.start <= rg.end, NEW k \in 1 .. (Len(list) + 1)
    PROVE  /\ InsertAt(list, k, rg) \in Seq(RegionsUpTo(top)) /\ WellFormed(InsertAt(list, k, rg))
           /\ Len(InsertAt(list, k, rg)) = Len(list) + 1
           /\ ListBytes(InsertAt(list, k, rg)) = ListBytes(list) \cup Bytes(rg)
           /\ Apart(list) /\ Bytes(rg) \cap ListBytes(list) = {} => Apart(InsertAt(list, k, rg))
  <1> DEFINE n == Len(list)
             new == InsertAt(list, k, rg)
  <1>1. /\ new \in Seq(RegionsUpTo(top)) /\ Len(new) = n + 1 /\ new[k] = rg
        /\ \A j \in 1 .. (k - 1) : new[j] = list[j]
        /\ \A j \in (k + 1) .. (n + 1) : new[j] = list[j - 1]
    BY InsertAtElements
  <1>2. n \in Nat /\ DOMAIN list = 1 .. n /\ DOMAIN new = 1 .. (n + 1)
    BY <1>1, ListFacts
  <1> HIDE DEF n, new
  <1>3. ASSUME NEW i \in 1 .. (n + 1), i # k
        PROVE  \E m \in 1 .. n : new[i] = list[m] /\ m = IF i < k THEN i ELSE i - 1
    <2>1. CASE i < k
      BY <1>1, <1>2, <2>1 DEF n
    <2>2. CASE i > k
      <3>1. i - 1 \in 1 .. n /\ i \in (k + 1) .. (n + 1) /\ ~(i < k)
        BY <1>2, <2>2 DEF n
      <3> QED
        BY <1>1, <3>1
    <2> QED
      BY <1>2, <1>3, <2>1, <2>2 DEF n
  <1>4. WellFormed(new)
    BY <1>1, <1>2, <1>3 DEF WellFormed
  <1>5. ListBytes(new) = ListBytes(list) \cup Bytes(rg)
    <2>1. ASSUME NEW x, x \in ListBytes(new) PROVE x \in ListBytes(list) \/ x \in Bytes(rg)
      <3>1. PICK i \in 1 .. (n + 1) : x \in Bytes(new[i])
        BY <2>1, <1>1, ListFacts
      <3> QED
        BY <3>1, <1>1, <1>3, ListFacts DEF n
    <2>2. ASSUME NEW x, x \in ListBytes(list) PROVE x \in ListBytes(new)
      <3>1. PICK j \in 1 .. n : x \in Bytes(list[j])
        BY <2>2, ListFacts DEF n
      <3>2. CASE j < k
        <4>1. j \in 1 .. (k - 1) /\ j \in 1 .. (n + 1)
          BY <1>2, <3>2 DEF n
        <4>2. x \in Bytes(new[j])
          BY <1>1, <3>1, <4>1
        <4> QED
          BY <1>1, <4>1, <4>2, ListFacts
      <3>3. CASE j >= k
        <4>1. j + 1 \in (k + 1) .. (n + 1) /\ j + 1 \in 1 .. (n + 1) /\ (j + 1) - 1 = j
          BY <1>2, <3>3 DEF n
        <4>2. x \in Bytes(new[j + 1])
          BY <1>1, <3>1, <4>1
        <4> QED
          BY <1>1, <4>1, <4>2, ListFacts
      <3> QED
        BY <1>2, <3>2, <3>3 DEF n
    <2>3. k \in 1 .. (n + 1)
      BY DEF n
    <2>4. Bytes(rg) \subseteq ListBytes(new)
      BY <1>1, <2>3, ListFacts
    <2> QED
      BY <2>1, <2>2, <2>4
  <1>6. ASSUME Apart(list), Bytes(rg) \cap ListBytes(list) = {} PROVE Apart(new)
    <2>1. \A j \in 1 .. n : Bytes(rg) \cap Bytes(list[j]) = {}
      BY <1>6, ListFacts DEF n
    <2>2. ASSUME NEW i \in 1 .. (n + 1), i # k PROVE Bytes(new[i]) \cap Bytes(new[k]) = {}
      BY <1>1, <1>3, <2>1, <2>2
    <2>3. ASSUME NEW i \in 1 .. (n + 1), NEW j \in 1 .. (n + 1), i # j, i # k, j # k
          PROVE  Bytes(new[i]) \cap Bytes(new[j]) = {}
      <3>1. PICK m \in 1 .. n : new[i] = list[m] /\ m = IF i < k THEN i ELSE i - 1
        BY <1>3, <2>3
      <3>2. PICK o \in 1 .. n : new[j] = list[o] /\ o = IF j < k THEN j ELSE j - 1
        BY <1>3, <2>3
      <3>3. m # o
        BY <1>2, <2>3, <3>1, <3>2 DEF n
      <3> QED
        BY <1>2, <1>6, <3>1, <3>2, <3>3 DEF Apart
    <2> QED
      BY <1>2, <2>2, <2>3 DEF Apart
  <1> QED
    BY <1>1, <1>4, <1>5, <1>6 DEF n, new

\* enlist_vm_freerg_list frees the addresses of the region it is given, and
\* no others, whichever neighbours it merges.
LEMMA EnlistRegion ==
    ASSUME NEW top \in Nat, NEW list \in Seq(RegionsUpTo(top)), WellFormed(list), NEW rg \in RegionsUpTo(top), rg.start <= rg.end
    PROVE  /\ enlist_vm_freerg_list(list, rg) \in Seq(RegionsUpTo(top))
           /\ WellFormed(enlist_vm_freerg_list(list, rg))
           /\ ListBytes(enlist_vm_freerg_list(list, rg)) = ListBytes(list) \cup Bytes(rg)
           /\ Apart(list) /\ Bytes(rg) \cap ListBytes(list) = {}
                => Apart(enlist_vm_freerg_list(list, rg))
  <1> DEFINE k == Position(list, rg)
             new == InsertAt(list, k, rg)
             next == MergeNext(new, k)
             both == MergePrevious(next, k)
  <1>1. k \in 1 .. (Len(list) + 1) /\ Len(list) \in Nat
    BY PositionInList, ListFacts
  <1>2. /\ new \in Seq(RegionsUpTo(top)) /\ WellFormed(new) /\ Len(new) = Len(list) + 1
        /\ ListBytes(new) = ListBytes(list) \cup Bytes(rg)
        /\ Apart(list) /\ Bytes(rg) \cap ListBytes(list) = {} => Apart(new)
    BY <1>1, InsertRegion
  <1>3. enlist_vm_freerg_list(list, rg) = both
    BY DEF enlist_vm_freerg_list
  <1> HIDE DEF k, new
  <1>4. /\ next \in Seq(RegionsUpTo(top)) /\ WellFormed(next) /\ ListBytes(next) = ListBytes(new)
        /\ Apart(new) => Apart(next)
        /\ k \in 1 .. Len(next)
    <2>1. CASE k < Len(new) /\ new[k].end = new[k + 1].start
      <3>1. next = Join(new, k)
        BY <2>1 DEF MergeNext, Join
      <3>2. k \in 1 .. (Len(new) - 1) /\ Len(new) \in Nat
        BY <1>1, <1>2, <2>1
      <3> QED
        BY <1>2, <2>1, <3>1, <3>2, JoinRegions
    <2>2. CASE ~(k < Len(new) /\ new[k].end = new[k + 1].start)
      BY <1>1, <1>2, <2>2 DEF MergeNext
    <2> QED
      BY <2>1, <2>2
  <1> HIDE DEF next
  <1>5. /\ both \in Seq(RegionsUpTo(top)) /\ WellFormed(both) /\ ListBytes(both) = ListBytes(next)
        /\ Apart(next) => Apart(both)
    <2>1. CASE k > 1 /\ next[k - 1].end = next[k].start
      <3>1. k - 1 \in 1 .. (Len(next) - 1) /\ (k - 1) + 1 = k
        BY <1>1, <1>4, <2>1, ListFacts
      <3>2. both = Join(next, k - 1)
        BY <2>1, <3>1 DEF MergePrevious, Join
      <3> HIDE DEF both
      <3> QED
        BY <1>4, <2>1, <3>1, <3>2, JoinRegions
    <2>2. CASE ~(k > 1 /\ next[k - 1].end = next[k].start)
      BY <1>4, <2>2 DEF MergePrevious
    <2> QED
      BY <2>1, <2>2
  <1> QED
    BY <1>2, <1>3, <1>4, <1>5

\* enlist_vm_rg_node puts a region at the head.
LEMMA HeadRegion ==
    ASSUME NEW top \in Nat, NEW list \in Seq(RegionsUpTo(top)), NEW rg \in RegionsUpTo(top)
    PROVE  /\ enlist_vm_rg_node(list, rg) = InsertAt(list, 1, rg)
           /\ enlist_vm_rg_node(list, rg)[1] = rg
  <1> DEFINE new == <<rg>> \o list
             put == InsertAt(list, 1, rg)
  <1>1. Len(list) \in Nat /\ 1 \in 1 .. (Len(list) + 1)
    BY ListFacts
  <1>2. <<rg>> \in Seq(RegionsUpTo(top)) /\ Len(<<rg>>) = 1 /\ <<rg>>[1] = rg
    OBVIOUS
  <1>3. /\ new \in Seq(RegionsUpTo(top)) /\ Len(new) = 1 + Len(list)
        /\ \A j \in 1 .. (1 + Len(list)) : new[j] = IF j <= 1 THEN <<rg>>[j] ELSE list[j - 1]
    BY <1>2, ConcatProperties
  <1>4. /\ put \in Seq(RegionsUpTo(top)) /\ Len(put) = Len(list) + 1 /\ put[1] = rg
        /\ \A j \in 2 .. (Len(list) + 1) : put[j] = list[j - 1]
    BY <1>1, InsertAtElements
  <1>5. \A j \in 2 .. (1 + Len(list)) : new[j] = list[j - 1]
    <2> HIDE DEF new
    <2> QED
      BY <1>1, <1>3
  <1>6. new[1] = rg
    <2> HIDE DEF new
    <2> QED
      BY <1>1, <1>2, <1>3
  <1> HIDE DEF new, put
  <1>7. Len(new) = Len(put) /\ Len(new) = 1 + Len(list)
    BY <1>1, <1>3, <1>4
  <1>8. ASSUME NEW j \in 1 .. Len(new) PROVE new[j] = put[j]
    <2>1. CASE j = 1
      BY <1>4, <1>6, <2>1
    <2>2. CASE j # 1
      <3>1. j \in 2 .. (1 + Len(list)) /\ j \in 2 .. (Len(list) + 1)
        BY <1>1, <1>7, <2>2
      <3> QED
        BY <1>4, <1>5, <3>1
    <2> QED
      BY <2>1, <2>2
  <1>9. new = put
    BY <1>3, <1>4, <1>7, <1>8, SeqEqual, Zenon
  <1> QED
    BY <1>4, <1>9 DEF new, put, enlist_vm_rg_node
=============================================================================
