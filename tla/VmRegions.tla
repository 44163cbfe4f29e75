----------------------------- MODULE VmRegions -----------------------------
(***************************************************************************)
(* The lists of free regions of src/libmem.c and src/mm.c: struct          *)
(* vm_rg_struct and the functions that search, split, extend and merge a   *)
(* list of them.  A list is a sequence, its head first.  A region holds    *)
(* the addresses from its start up to, and not including, its end.         *)
(***************************************************************************)
EXTENDS Integers, Sequences, SequencesExt

Region(s, e) == [start |-> s, end |-> e]
Bytes(rg) == rg.start .. (rg.end - 1)
ListBytes(list) == UNION {Bytes(list[k]) : k \in DOMAIN list}

\* How a region of the symbol table is marked as freed.
Freed == Region(-1, -1)

-----------------------------------------------------------------------------
(* get_free_vmrg_area: the first region the size fits in                   *)

\* Variant: the region may be one byte short.
FitsOffByOne(list, size) == {k \in DOMAIN list : list[k].start + size <= list[k].end + 1}
Fits(list, size) == {k \in DOMAIN list : list[k].start + size <= list[k].end}
FirstFit(list, size) == CHOOSE k \in Fits(list, size) : \A j \in Fits(list, size) : k <= j

TakenRegion(list, size) ==
    LET rg == list[FirstFit(list, size)] IN Region(rg.start, rg.start + size)

\* Variant: an exact fit stays in the list.
KeepsExactFit(list, size) ==
    LET k == FirstFit(list, size) IN
    IF list[k].start + size < list[k].end THEN [list EXCEPT ![k].start = @ + size] ELSE list

\* A region that is used up goes, and with it the whole list.
AfterTaking(list, size) ==
    LET k == FirstFit(list, size) IN
    IF list[k].start + size < list[k].end THEN [list EXCEPT ![k].start = @ + size] ELSE <<>>

-----------------------------------------------------------------------------
(* enlist_vm_rg_node: at the head                                          *)

enlist_vm_rg_node(list, rg) == <<rg>> \o list

-----------------------------------------------------------------------------
(* enlist_vm_freerg_list: before the first region that does not start      *)
(* below it, then merged with both neighbours                              *)

Position(list, rg) ==
    CHOOSE k \in 1 .. (Len(list) + 1) :
        /\ \A j \in 1 .. (k - 1) : list[j].start < rg.start
        /\ k \in DOMAIN list => list[k].start >= rg.start

\* Variant: the region keeps its own end when it swallows the next one.
MergeNextKeepsEnd(list, k) ==
    IF k < Len(list) /\ list[k].end = list[k + 1].start THEN RemoveAt(list, k + 1) ELSE list

MergeNext(list, k) ==
    IF k < Len(list) /\ list[k].end = list[k + 1].start
    THEN RemoveAt([list EXCEPT ![k].end = list[k + 1].end], k + 1)
    ELSE list

MergePrevious(list, k) ==
    IF k > 1 /\ list[k - 1].end = list[k].start
    THEN RemoveAt([list EXCEPT ![k - 1].end = list[k].end], k)
    ELSE list

enlist_vm_freerg_list(list, rg) ==
    LET k == Position(list, rg) IN MergePrevious(MergeNext(InsertAt(list, k, rg), k), k)

\* validate_overlap_vm_area: no region of the list reaches into the new one.
Overlaps(list, rg) ==
    \E k \in DOMAIN list : ~ (list[k].end <= rg.start \/ list[k].start >= rg.end)
=============================================================================
