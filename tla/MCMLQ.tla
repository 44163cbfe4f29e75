------------------------------- MODULE MCMLQ -------------------------------
(* Instance of the ready queue for TLC: every one of three levels has a    *)
(* process, level 0 as many as there are CPUs, so that it need not run dry.*)
EXTENDS MLQFairness, FiniteSetsExt, TLC

CONSTANTS p1, p2, p3, p4

MCPrio == (p1 :> 0) @@ (p2 :> 0) @@ (p3 :> 1) @@ (p4 :> 2)

ASSUME MCCapacity == CapacitySuffices

\* The quotas OtherSlots adds up in closed form.
ASSUME MCOtherSlots ==
    \A l \in Levels : OtherSlots(l) = MapThenSumSet(LAMBDA k : slot[k], Levels \ {l})
=============================================================================
