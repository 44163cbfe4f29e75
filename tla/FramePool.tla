----------------------------- MODULE FramePool -----------------------------
(***************************************************************************)
(* What the list of free frames of a device (struct memphy_struct of       *)
(* src/mm-memphy.c) promises to libmem.c and mm.c: a stack of frames, from *)
(* which MEMPHY_get_freefp takes the top one and to which                  *)
(* MEMPHY_put_freefp gives one back, each in one step.  Memory uses the    *)
(* list in this way; FrameList says how far the code keeps the promise     *)
(* when threads call it at the same time.                                  *)
(***************************************************************************)
EXTENDS Sequences

CONSTANT Frames

VARIABLES free,    \* the free frames, the next one to be taken first
          in_use   \* the frames handed out

poolVars == <<free, in_use>>

MEMPHY_get_freefp ==
    /\ free # <<>>
    /\ free' = Tail(free)
    /\ in_use' = in_use \cup {Head(free)}

MEMPHY_put_freefp(fpn) ==
    /\ fpn \in in_use
    /\ free' = <<fpn>> \o free
    /\ in_use' = in_use \ {fpn}

PoolInit(list) ==
    /\ free = list
    /\ in_use = {}

PoolNext == MEMPHY_get_freefp \/ \E fpn \in Frames : MEMPHY_put_freefp(fpn)
=============================================================================
