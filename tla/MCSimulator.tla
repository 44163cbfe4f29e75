---------------------------- MODULE MCSimulator ----------------------------
(* Instances of the machine for TLC. *)
EXTENDS Simulator, TLC

CONSTANTS p1, p2, p3, p4

alloc == "alloc"
other == "other"

\* Four processes of two priorities, shorter than the time slice, a multiple
\* of it and neither; the last one arrives after a pause.  All allocate, so
\* that the two CPUs meet at mmvm_lock.
MCOrder == <<p1, p2, p3, p4>>
MCPrio == (p1 :> 2) @@ (p2 :> 0) @@ (p3 :> 2) @@ (p4 :> 0)
MCStart == (p1 :> 0) @@ (p2 :> 1) @@ (p3 :> 1) @@ (p4 :> 4)
MCCode == (p1 :> <<alloc, other, alloc>>) @@ (p2 :> <<alloc>>)
          @@ (p3 :> <<alloc, alloc, other, alloc>>) @@ (p4 :> <<other, alloc, alloc, other, alloc>>)

\* One process, of the lowest priority.
SoleOrder == <<p1>>
SolePrio == p1 :> MAX_PRIO - 1
SoleStart == p1 :> 0
SoleCode == p1 :> <<alloc, other, other>>

\* The clock does not wrap while the loader still looks at it.
ASSUME MCClock == \A p \in Procs : start_time[p] + Len(Order) < TimeWrap
=============================================================================
