------------------------------ MODULE MCTimer ------------------------------
(* Instances of the timer for TLC; the constants are plain numbers. *)
EXTENDS Timer
=============================================================================
