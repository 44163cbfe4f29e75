------------------------------- MODULE Timer -------------------------------
(***************************************************************************)
(* src/timer.c: the timer thread, the device threads inside next_slot and  *)
(* detach_event, and main around them (os.c:214-269), with every mutex and *)
(* condition variable.                                                     *)
(*                                                                         *)
(* A device has two mutexes, event_lock and timer_lock, and one flag,      *)
(* done, which is set under the first and cleared under the second.        *)
(*                                                                         *)
(* A device is numbered by the order it attached in; attach_event pushes   *)
(* at the head of dev_list, so the list runs from the highest number down  *)
(* to 1.  dev_list is its head, d - 1 is d->next, and 0 is NULL.           *)
(*                                                                         *)
(* A step between lock and unlock that no other thread can see a part of   *)
(* is one action.  pthread_cond_wait releases the mutex, waits in the wait *)
(* set of the condition and takes the mutex again; it may return without a *)
(* signal.                                                                 *)
(***************************************************************************)
EXTENDS Integers

CONSTANTS NumDevices,   \* num_cpus + 1: main attaches the CPUs and the loader
          TimeWrap      \* _time counts modulo TimeWrap (2^64)

ASSUME TimerAssumption ==
    /\ NumDevices \in Nat \ {0}
    /\ TimeWrap \in Nat \ {0, 1}

Devices == 1 .. NumDevices
NULL == 0

VARIABLES
    dev_list, timer_started, timer_stop, _time,   \* static variables
    done, fsh,                  \* per device: the flags of struct timer_id_t
    event_lock, timer_lock,     \* per device: owner of the mutex
    event_wait, timer_wait,     \* per device: somebody is in the wait set
    tpc, temp, fshCount, event, \* the timer thread and its locals
    pc,                         \* per device: where its thread is
    main,                       \* where main is
    calls                       \* history: next_slot calls a device completed

devFlags == <<done, fsh>>
locks == <<event_lock, timer_lock>>
waits == <<event_wait, timer_wait>>
containers == <<devFlags, locks, waits>>
timerThread == <<_time, tpc, temp, fshCount, event>>
mainThread == <<dev_list, timer_started, timer_stop, main>>
devThreads == <<pc, calls>>
vars == <<containers, timerThread, mainThread, devThreads>>

Free == "free"
Owners == {Free, "timer", "device"}

\* A device thread between two calls works; mark, finish and test name the
\* places where it owns a mutex.
DevicePCs == {"work", "arrive", "mark", "detach", "finish", "gone",
              "enter", "test", "wait"}
TimerPCs == {"off", "check", "next", "tally", "wait", "tick", "release",
             "reset", "exit"}

TypeOK ==
    /\ dev_list \in 0 .. NumDevices
    /\ timer_started \in BOOLEAN /\ timer_stop \in BOOLEAN
    /\ _time \in 0 .. (TimeWrap - 1)
    /\ done \in [Devices -> BOOLEAN] /\ fsh \in [Devices -> BOOLEAN]
    /\ event_lock \in [Devices -> Owners] /\ timer_lock \in [Devices -> Owners]
    /\ event_wait \in [Devices -> BOOLEAN] /\ timer_wait \in [Devices -> BOOLEAN]
    /\ tpc \in TimerPCs
    /\ temp \in 0 .. NumDevices
    /\ fshCount \in Nat /\ event \in Nat
    /\ pc \in [Devices -> DevicePCs]
    /\ main \in {"attach", "join", "stop", "free", "returned"}
    /\ calls \in [Devices -> 0 .. (TimeWrap - 1)]

Init ==
    /\ dev_list = NULL
    /\ timer_started = FALSE /\ timer_stop = FALSE
    /\ _time = 0
    /\ done = [d \in Devices |-> FALSE] /\ fsh = [d \in Devices |-> FALSE]
    /\ event_lock = [d \in Devices |-> Free] /\ timer_lock = [d \in Devices |-> Free]
    /\ event_wait = [d \in Devices |-> FALSE] /\ timer_wait = [d \in Devices |-> FALSE]
    /\ tpc = "off" /\ temp = NULL /\ fshCount = 0 /\ event = 0
    /\ pc = [d \in Devices |-> "work"]
    /\ main = "attach"
    /\ calls = [d \in Devices |-> 0]

\* pthread_cond_signal on condition w of device d.  Variant: it is missing.
NoSignal(w, d) == w
Signal(w, d) == [w EXCEPT ![d] = FALSE]

\* _time++
Successor(t) == IF t = TimeWrap - 1 THEN 0 ELSE t + 1

-----------------------------------------------------------------------------
(* main                                                                    *)

\* attach_event; main attaches every device before it starts the timer, so
\* the NULL result of a late call does not occur.
attach_event ==
    /\ main = "attach" /\ ~timer_started /\ dev_list < NumDevices
    /\ dev_list' = dev_list + 1
    /\ UNCHANGED <<containers, timerThread, devThreads, timer_started, timer_stop, main>>

\* start_timer; the device threads are created right after it.
start_timer ==
    /\ main = "attach" /\ dev_list = NumDevices
    /\ timer_started' = TRUE /\ tpc' = "check" /\ main' = "join"
    /\ UNCHANGED <<containers, _time, temp, fshCount, event, devThreads, dev_list, timer_stop>>

\* The two pthread_join of main.  Variants: main does not wait.
NoJoin == TRUE
DevicesJoined == \A d \in Devices : pc[d] = "gone"
TimerJoined == tpc = "exit"

\* stop_timer: timer_stop = 1, then the join of the timer thread.
StopTimer ==
    /\ main = "join" /\ DevicesJoined
    /\ timer_stop' = TRUE /\ main' = "stop"
    /\ UNCHANGED <<containers, timerThread, devThreads, dev_list, timer_started>>

JoinTimer ==
    /\ main = "stop" /\ TimerJoined
    /\ main' = "free"
    /\ UNCHANGED <<containers, timerThread, devThreads, dev_list, timer_started, timer_stop>>

\* stop_timer frees the containers from the head of the list.
FreeContainer ==
    /\ main = "free"
    /\ IF dev_list # NULL
       THEN dev_list' = dev_list - 1 /\ main' = main
       ELSE main' = "returned" /\ UNCHANGED dev_list
    /\ UNCHANGED <<containers, timerThread, devThreads, timer_started, timer_stop>>

MainStep == attach_event \/ start_timer \/ StopTimer \/ JoinTimer \/ FreeContainer
-----------------------------------------------------------------------------
(* The timer thread: timer_routine                                         *)

\* while (!timer_stop), and the head of the first loop over dev_list.
RoundBegin ==
    /\ tpc = "check"
    /\ IF timer_stop
       THEN tpc' = "exit" /\ UNCHANGED <<temp, fshCount, event>>
       ELSE tpc' = "next" /\ temp' = dev_list /\ fshCount' = 0 /\ event' = 0
    /\ UNCHANGED <<containers, _time, mainThread, devThreads>>

\* The next device of the list: lock its event_lock, or leave the loop.
NextDevice ==
    /\ tpc = "next"
    /\ IF temp = NULL
       THEN tpc' = "tick" /\ UNCHANGED event_lock
       ELSE /\ event_lock[temp] = Free
            /\ event_lock' = [event_lock EXCEPT ![temp] = "timer"]
            /\ tpc' = "tally"
    /\ UNCHANGED <<devFlags, timer_lock, waits, _time, temp, fshCount, event, mainThread, devThreads>>

\* The condition of the loop around pthread_cond_wait.  Variant: any wakeup
\* counts.
AnyWakeup(d) == TRUE
Ready(d) == done[d] \/ fsh[d]

WaitDevice ==
    /\ tpc = "tally" /\ ~Ready(temp)
    /\ event_lock' = [event_lock EXCEPT ![temp] = Free]
    /\ event_wait' = [event_wait EXCEPT ![temp] = TRUE]
    /\ tpc' = "wait"
    /\ UNCHANGED <<devFlags, timer_lock, timer_wait, _time, temp, fshCount, event, mainThread, devThreads>>

TimerWakes ==
    /\ tpc = "wait" /\ ~event_wait[temp]
    /\ event_lock[temp] = Free
    /\ event_lock' = [event_lock EXCEPT ![temp] = "timer"]
    /\ tpc' = "tally"
    /\ UNCHANGED <<devFlags, timer_lock, waits, _time, temp, fshCount, event, mainThread, devThreads>>

\* The device is done or has detached: count it and go on.
TallyDevice ==
    /\ tpc = "tally" /\ Ready(temp)
    /\ fshCount' = IF fsh[temp] THEN fshCount + 1 ELSE fshCount
    /\ event' = event + 1
    /\ event_lock' = [event_lock EXCEPT ![temp] = Free]
    /\ temp' = temp - 1
    /\ tpc' = "next"
    /\ UNCHANGED <<devFlags, timer_lock, waits, _time, mainThread, devThreads>>

\* _time++, and the head of the second loop.
TickClock ==
    /\ tpc = "tick"
    /\ _time' = Successor(_time)
    /\ temp' = dev_list
    /\ tpc' = "release"
    /\ UNCHANGED <<containers, fshCount, event, mainThread, devThreads>>

\* The next device to release, or the end of the round: break if all the
\* devices counted had detached.  Variant: break if any of them had.
BreakAfterAny == fshCount > 0
AllFinished == fshCount = event

NextRelease ==
    /\ tpc = "release"
    /\ IF temp = NULL
       THEN /\ tpc' = IF AllFinished THEN "exit" ELSE "check"
            /\ UNCHANGED timer_lock
       ELSE /\ timer_lock[temp] = Free
            /\ timer_lock' = [timer_lock EXCEPT ![temp] = "timer"]
            /\ tpc' = "reset"
    /\ UNCHANGED <<devFlags, event_lock, waits, _time, temp, fshCount, event, mainThread, devThreads>>

\* done = 0, signal and unlock.
ResetDone ==
    /\ tpc = "reset"
    /\ done' = [done EXCEPT ![temp] = FALSE]
    /\ timer_wait' = Signal(timer_wait, temp)
    /\ timer_lock' = [timer_lock EXCEPT ![temp] = Free]
    /\ temp' = temp - 1
    /\ tpc' = "release"
    /\ UNCHANGED <<fsh, event_lock, event_wait, _time, fshCount, event, mainThread, devThreads>>

TimerStep ==
    \/ RoundBegin \/ NextDevice \/ WaitDevice \/ TimerWakes \/ TallyDevice
    \/ TickClock \/ NextRelease \/ ResetDone
-----------------------------------------------------------------------------
(* A device thread: next_slot and detach_event                             *)

Goto(d, from, to) == pc[d] = from /\ pc' = [pc EXCEPT ![d] = to]

\* The device has done its work for the slot and calls one of the two.
CallNextSlot(d) ==
    /\ timer_started /\ Goto(d, "work", "arrive")
    /\ UNCHANGED <<containers, timerThread, mainThread, calls>>

CallDetach(d) ==
    /\ timer_started /\ Goto(d, "work", "detach")
    /\ UNCHANGED <<containers, timerThread, mainThread, calls>>

LockEvent(d) ==
    /\ Goto(d, "arrive", "mark") \/ Goto(d, "detach", "finish")
    /\ event_lock[d] = Free
    /\ event_lock' = [event_lock EXCEPT ![d] = "device"]
    /\ UNCHANGED <<devFlags, timer_lock, waits, timerThread, mainThread, calls>>

\* next_slot: done = 1, signal, unlock.
MarkDone(d) ==
    /\ Goto(d, "mark", "enter")
    /\ done' = [done EXCEPT ![d] = TRUE]
    /\ event_wait' = Signal(event_wait, d)
    /\ event_lock' = [event_lock EXCEPT ![d] = Free]
    /\ UNCHANGED <<fsh, timer_lock, timer_wait, timerThread, mainThread, calls>>

\* detach_event: fsh = 1, signal, unlock.
MarkFinished(d) ==
    /\ Goto(d, "finish", "gone")
    /\ fsh' = [fsh EXCEPT ![d] = TRUE]
    /\ event_wait' = Signal(event_wait, d)
    /\ event_lock' = [event_lock EXCEPT ![d] = Free]
    /\ UNCHANGED <<done, timer_lock, timer_wait, timerThread, mainThread, calls>>

\* next_slot: lock timer_lock, or take it again after the wait.
LockTimer(d) ==
    /\ Goto(d, "enter", "test") \/ (~timer_wait[d] /\ Goto(d, "wait", "test"))
    /\ timer_lock[d] = Free
    /\ timer_lock' = [timer_lock EXCEPT ![d] = "device"]
    /\ UNCHANGED <<devFlags, event_lock, waits, timerThread, mainThread, calls>>

\* The condition of the wait loop.  Variant: next_slot does not wait.
NeverWaits(d) == FALSE
MustWait(d) == done[d]

WaitTimer(d) ==
    /\ MustWait(d) /\ Goto(d, "test", "wait")
    /\ timer_lock' = [timer_lock EXCEPT ![d] = Free]
    /\ timer_wait' = [timer_wait EXCEPT ![d] = TRUE]
    /\ UNCHANGED <<devFlags, event_lock, event_wait, timerThread, mainThread, calls>>

\* next_slot returns.
Return(d) ==
    /\ ~MustWait(d) /\ Goto(d, "test", "work")
    /\ timer_lock' = [timer_lock EXCEPT ![d] = Free]
    /\ calls' = [calls EXCEPT ![d] = Successor(@)]
    /\ UNCHANGED <<devFlags, event_lock, waits, timerThread, mainThread>>

DeviceStep(d) ==
    \/ CallNextSlot(d) \/ CallDetach(d)
    \/ LockEvent(d) \/ MarkDone(d) \/ MarkFinished(d)
    \/ LockTimer(d) \/ WaitTimer(d) \/ Return(d)

\* pthread_cond_wait may return without a signal.
SpuriousWakeup(d) ==
    /\ \/ /\ event_wait[d]
          /\ event_wait' = [event_wait EXCEPT ![d] = FALSE]
          /\ UNCHANGED timer_wait
       \/ /\ timer_wait[d]
          /\ timer_wait' = [timer_wait EXCEPT ![d] = FALSE]
          /\ UNCHANGED event_wait
    /\ UNCHANGED <<devFlags, locks, timerThread, mainThread, devThreads>>

Next ==
    \/ MainStep
    \/ TimerStep
    \/ \E d \in Devices : DeviceStep(d) \/ SpuriousWakeup(d)

Spec == Init /\ [][Next]_vars

\* Every thread that can run does run, a device included: run(proc) returns.
\* Nothing is assumed of spurious wakeups; as they may go on for ever, a
\* thread that waits for a mutex needs strong fairness: it is not passed over
\* every time the mutex becomes free.
Fairness ==
    /\ WF_vars(MainStep)
    /\ SF_vars(TimerStep)
    /\ \A d \in Devices : SF_vars(DeviceStep(d))

FairSpec == Spec /\ Fairness

-----------------------------------------------------------------------------
(* The promise of the timer                                                *)

Releasing == tpc \in {"release", "reset"}

Barrier == INSTANCE SlotBarrier WITH
    time   <- _time,
    phase  <- [d \in Devices |-> IF fsh[d] THEN "gone"
                                 ELSE IF done[d] THEN "waiting" ELSE "working"],
    behind <- {d \in Devices : Releasing /\ d <= temp /\ done[d]}

\* The locks and condition variables implement the barrier: the clock ticks
\* only when no device works and all are released, and only waiting devices
\* are released, although done is written under two different mutexes
\* (timer.c:50, 64).
ImplementsBarrier == Barrier!BarrierSpec

\* A thread at work has come back from next_slot exactly once per slot that
\* has passed: no slot is skipped and none is worked in twice.
EverySlotOnce == \A d \in Devices : pc[d] = "work" => calls[d] = _time

\* stop_timer frees a container only when no thread can touch it again.
NoUseAfterFree ==
    main \in {"free", "returned"} =>
        tpc = "exit" /\ \A d \in Devices : pc[d] = "gone"

\* A thread that enters next_slot gets out again: no wakeup is lost between
\* the device's test of done and the timer's signal, or between the timer's
\* test and the device's.
NextSlotReturns == \A d \in Devices : (pc[d] = "arrive") ~> (pc[d] = "work")

\* Once every device has detached, the timer thread ends and main returns.
ShutsDown == (\A d \in Devices : fsh[d]) ~> (main = "returned")

-----------------------------------------------------------------------------
(* The inductive invariant behind the two safety properties                *)

InNextSlot == {"enter", "test", "wait"}

\* The flags of a device tell where its thread is.
FlagsInv ==
    \A d \in Devices : /\ done[d] => pc[d] \in InNextSlot
                       /\ fsh[d] <=> pc[d] = "gone"

\* main, the timer thread and dev_list move on together.
MainInv ==
    /\ main = "attach" <=> tpc = "off"
    /\ main = "attach" <=> ~timer_started
    /\ main = "attach" => \A d \in Devices : pc[d] = "work"
    /\ main \in {"join", "stop"} => dev_list = NumDevices
    /\ main \in {"stop", "free", "returned"} => \A d \in Devices : pc[d] = "gone"
    /\ main \in {"free", "returned"} => tpc = "exit"

\* The devices the timer thread has passed in its first loop stay ready
\* until it comes to them in the second.
RoundInv ==
    /\ tpc \in {"tally", "wait", "reset"} => temp # NULL
    /\ tpc \in {"next", "tally", "wait"} => \A d \in Devices : d > temp => Ready(d)
    /\ tpc = "tick" => \A d \in Devices : Ready(d)
    /\ Releasing => \A d \in Devices : d <= temp => Ready(d)

\* A device inside next_slot whose slot the clock has already left.
Lags(d) == pc[d] \in InNextSlot /\ (~done[d] \/ (Releasing /\ d <= temp))

ClockInv ==
    \A d \in Devices : ~fsh[d] =>
        IF Lags(d) THEN Successor(calls[d]) = _time ELSE calls[d] = _time

TimerInv == TypeOK /\ FlagsInv /\ MainInv /\ RoundInv /\ ClockInv
=============================================================================
