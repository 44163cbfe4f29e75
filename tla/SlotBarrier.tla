---------------------------- MODULE SlotBarrier ----------------------------
(***************************************************************************)
(* What src/timer.c promises to the threads that use it: a clock that      *)
(* advances only when every device (a CPU or the loader) has finished its  *)
(* work for the current slot or has detached, and that lets the waiting    *)
(* devices go on one by one.  Timer shows that the locks and condition     *)
(* variables of timer.c implement this module; Simulator runs the CPUs and *)
(* the loader on it.                                                       *)
(***************************************************************************)
EXTENDS Integers

CONSTANTS Devices,     \* the containers attach_event has handed out
          TimeWrap     \* _time is a uint64_t: it counts modulo TimeWrap = 2^64

ASSUME BarrierAssumption == TimeWrap \in Nat \ {0, 1}

VARIABLES time,     \* _time
          phase,    \* what a device is doing in its current slot
          behind    \* waiting devices the timer has not released yet

barrierVars == <<time, phase, behind>>

BarrierTypeOK ==
    /\ time \in 0 .. (TimeWrap - 1)
    /\ phase \in [Devices -> {"working", "waiting", "gone"}]
    /\ behind \subseteq Devices

BarrierInit ==
    /\ time = 0
    /\ phase = [d \in Devices |-> "working"]
    /\ behind = {}

\* _time++ on an unsigned integer of limited width.
Successor(t) == IF t = TimeWrap - 1 THEN 0 ELSE t + 1

\* next_slot, first half: done = 1.
Arrive(d) ==
    /\ phase[d] = "working"
    /\ phase' = [phase EXCEPT ![d] = "waiting"]
    /\ UNCHANGED <<time, behind>>

\* detach_event: fsh = 1.
Detach(d) ==
    /\ phase[d] = "working"
    /\ phase' = [phase EXCEPT ![d] = "gone"]
    /\ UNCHANGED <<time, behind>>

\* timer_routine: every device is done or gone, and _time++.  Variant: the
\* clock does not wait for the last releases.
TickOverReleases ==
    /\ \A d \in Devices : phase[d] # "working"
    /\ time' = Successor(time)
    /\ behind' = {d \in Devices : phase[d] = "waiting"}
    /\ UNCHANGED phase

Tick ==
    /\ \A d \in Devices : phase[d] # "working"
    /\ behind = {}
    /\ time' = Successor(time)
    /\ behind' = {d \in Devices : phase[d] = "waiting"}
    /\ UNCHANGED phase

\* timer_routine: done = 0 for one device, whose next_slot may then return.
\* Variant: done is not reset.
ReleaseWithoutReset(d) ==
    /\ d \in behind
    /\ behind' = behind \ {d}
    /\ UNCHANGED <<time, phase>>

Release(d) ==
    /\ d \in behind
    /\ phase' = [phase EXCEPT ![d] = "working"]
    /\ behind' = behind \ {d}
    /\ UNCHANGED time

BarrierNext ==
    \/ Tick
    \/ \E d \in Devices : Arrive(d) \/ Detach(d) \/ Release(d)

BarrierSpec == BarrierInit /\ [][BarrierNext]_barrierVars
=============================================================================
