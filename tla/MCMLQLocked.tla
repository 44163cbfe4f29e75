---------------------------- MODULE MCMLQLocked ----------------------------
(* Instance of the locked ready queue for TLC. *)
EXTENDS MLQLocked, TLC

CONSTANTS p1, p2, p3

MCPrio == (p1 :> 0) @@ (p2 :> 1) @@ (p3 :> 2)
=============================================================================
