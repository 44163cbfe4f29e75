---------------------------- MODULE TimerProofs ----------------------------
(***************************************************************************)
(* Proofs about Timer, for every number of devices and every width of the  *)
(* clock.  TimerInv is the inductive invariant; each of its conjuncts has  *)
(* a lemma that every step preserves it, with one step per action.         *)
(***************************************************************************)
EXTENDS Timer, TLAPS

LEMMA SuccessorType ==
    \A t \in 0 .. (TimeWrap - 1) : Successor(t) \in 0 .. (TimeWrap - 1)
  BY TimerAssumption DEF Successor

-----------------------------------------------------------------------------
(* Initial states                                                          *)

LEMMA InitInv == Init => TimerInv
  <1> SUFFICES ASSUME Init PROVE TimerInv
    OBVIOUS
  <1> USE DEF Init
  <1>1. TypeOK
    <2>1. /\ dev_list \in 0 .. NumDevices /\ temp \in 0 .. NumDevices
          /\ _time \in 0 .. (TimeWrap - 1)
          /\ fshCount \in Nat /\ event \in Nat
          /\ calls \in [Devices -> 0 .. (TimeWrap - 1)]
      BY TimerAssumption DEF NULL
    <2>2. /\ event_lock \in [Devices -> Owners] /\ timer_lock \in [Devices -> Owners]
          /\ tpc \in TimerPCs /\ pc \in [Devices -> DevicePCs]
      BY DEF Owners, Free, TimerPCs, DevicePCs
    <2> QED
      BY <2>1, <2>2 DEF TypeOK
  <1>2. FlagsInv
    BY DEF FlagsInv
  <1>3. MainInv
    BY DEF MainInv
  <1>4. RoundInv
    BY DEF RoundInv, Releasing
  <1>5. ClockInv
    BY DEF ClockInv, Lags, InNextSlot
  <1> QED
    BY <1>1, <1>2, <1>3, <1>4, <1>5 DEF TimerInv

-----------------------------------------------------------------------------
(* Steps                                                                   *)

LEMMA TypeStep == TimerInv /\ [Next]_vars => TypeOK'
  <1> SUFFICES ASSUME TimerInv, [Next]_vars PROVE TypeOK'
    OBVIOUS
  <1> USE TimerAssumption, SuccessorType
      DEF TimerInv, TypeOK, RoundInv, Releasing, Devices, NULL, Owners, Free, TimerPCs,
          DevicePCs, containers, devFlags, locks, waits, timerThread, mainThread,
          devThreads, Signal, DevicesJoined, TimerJoined, MustWait, Ready
  <1>1. CASE attach_event
    BY <1>1 DEF attach_event
  <1>2. CASE start_timer
    BY <1>2 DEF start_timer
  <1>3. CASE StopTimer
    BY <1>3 DEF StopTimer
  <1>4. CASE JoinTimer
    BY <1>4 DEF JoinTimer
  <1>5. CASE FreeContainer
    BY <1>5 DEF FreeContainer
  <1>6. CASE RoundBegin
    <2>1. CASE timer_stop
      BY <1>6, <2>1 DEF RoundBegin
    <2>2. CASE ~timer_stop
      BY <1>6, <2>2 DEF RoundBegin
    <2> QED
      BY <2>1, <2>2
  <1>7. CASE NextDevice
    BY <1>7 DEF NextDevice
  <1>8. CASE WaitDevice
    BY <1>8 DEF WaitDevice
  <1>9. CASE TimerWakes
    BY <1>9 DEF TimerWakes
  <1>10. CASE TallyDevice
    BY <1>10 DEF TallyDevice
  <1>11. CASE TickClock
    BY <1>11 DEF TickClock
  <1>12. CASE NextRelease
    BY <1>12 DEF NextRelease
  <1>13. CASE ResetDone
    BY <1>13 DEF ResetDone
  <1>14. ASSUME NEW e \in Devices, CallNextSlot(e) PROVE TypeOK'
    BY <1>14 DEF CallNextSlot, Goto
  <1>15. ASSUME NEW e \in Devices, CallDetach(e) PROVE TypeOK'
    BY <1>15 DEF CallDetach, Goto
  <1>16. ASSUME NEW e \in Devices, LockEvent(e) PROVE TypeOK'
    BY <1>16 DEF LockEvent, Goto
  <1>17. ASSUME NEW e \in Devices, MarkDone(e) PROVE TypeOK'
    BY <1>17 DEF MarkDone, Goto
  <1>18. ASSUME NEW e \in Devices, MarkFinished(e) PROVE TypeOK'
    BY <1>18 DEF MarkFinished, Goto
  <1>19. ASSUME NEW e \in Devices, LockTimer(e) PROVE TypeOK'
    BY <1>19 DEF LockTimer, Goto
  <1>20. ASSUME NEW e \in Devices, WaitTimer(e) PROVE TypeOK'
    BY <1>20 DEF WaitTimer, Goto
  <1>21. ASSUME NEW e \in Devices, Return(e) PROVE TypeOK'
    BY <1>21 DEF Return, Goto
  <1>22. ASSUME NEW e \in Devices, SpuriousWakeup(e) PROVE TypeOK'
    BY <1>22 DEF SpuriousWakeup
  <1>23. CASE UNCHANGED vars
    BY <1>23 DEF vars
  <1> QED
    BY <1>1, <1>2, <1>3, <1>4, <1>5, <1>6, <1>7, <1>8, <1>9,
       <1>10, <1>11, <1>12, <1>13, <1>14, <1>15, <1>16, <1>17, <1>18,
       <1>19, <1>20, <1>21, <1>22, <1>23
    DEF Next, MainStep, TimerStep, DeviceStep

LEMMA FlagsStep == TimerInv /\ [Next]_vars => FlagsInv'
  <1> SUFFICES ASSUME TimerInv, [Next]_vars PROVE FlagsInv'
    OBVIOUS
  <1> USE DEF TimerInv, TypeOK, FlagsInv, InNextSlot, containers, devFlags, locks, waits, timerThread, mainThread,
          devThreads, Signal, DevicesJoined, TimerJoined, MustWait, Ready
  <1>1. CASE attach_event
    BY <1>1 DEF attach_event
  <1>2. CASE start_timer
    BY <1>2 DEF start_timer
  <1>3. CASE StopTimer
    BY <1>3 DEF StopTimer
  <1>4. CASE JoinTimer
    BY <1>4 DEF JoinTimer
  <1>5. CASE FreeContainer
    BY <1>5 DEF FreeContainer
  <1>6. CASE RoundBegin
    BY <1>6 DEF RoundBegin
  <1>7. CASE NextDevice
    BY <1>7 DEF NextDevice
  <1>8. CASE WaitDevice
    BY <1>8 DEF WaitDevice
  <1>9. CASE TimerWakes
    BY <1>9 DEF TimerWakes
  <1>10. CASE TallyDevice
    BY <1>10 DEF TallyDevice
  <1>11. CASE TickClock
    BY <1>11 DEF TickClock
  <1>12. CASE NextRelease
    BY <1>12 DEF NextRelease
  <1>13. CASE ResetDone
    BY <1>13 DEF ResetDone
  <1>14. ASSUME NEW e \in Devices, CallNextSlot(e) PROVE FlagsInv'
    BY <1>14 DEF CallNextSlot, Goto
  <1>15. ASSUME NEW e \in Devices, CallDetach(e) PROVE FlagsInv'
    BY <1>15 DEF CallDetach, Goto
  <1>16. ASSUME NEW e \in Devices, LockEvent(e) PROVE FlagsInv'
    BY <1>16 DEF LockEvent, Goto
  <1>17. ASSUME NEW e \in Devices, MarkDone(e) PROVE FlagsInv'
    BY <1>17 DEF MarkDone, Goto
  <1>18. ASSUME NEW e \in Devices, MarkFinished(e) PROVE FlagsInv'
    BY <1>18 DEF MarkFinished, Goto
  <1>19. ASSUME NEW e \in Devices, LockTimer(e) PROVE FlagsInv'
    BY <1>19 DEF LockTimer, Goto
  <1>20. ASSUME NEW e \in Devices, WaitTimer(e) PROVE FlagsInv'
    BY <1>20 DEF WaitTimer, Goto
  <1>21. ASSUME NEW e \in Devices, Return(e) PROVE FlagsInv'
    BY <1>21 DEF Return, Goto
  <1>22. ASSUME NEW e \in Devices, SpuriousWakeup(e) PROVE FlagsInv'
    BY <1>22 DEF SpuriousWakeup
  <1>23. CASE UNCHANGED vars
    BY <1>23 DEF vars
  <1> QED
    BY <1>1, <1>2, <1>3, <1>4, <1>5, <1>6, <1>7, <1>8, <1>9,
       <1>10, <1>11, <1>12, <1>13, <1>14, <1>15, <1>16, <1>17, <1>18,
       <1>19, <1>20, <1>21, <1>22, <1>23
    DEF Next, MainStep, TimerStep, DeviceStep

LEMMA MainInvStep == TimerInv /\ [Next]_vars => MainInv'
  <1> SUFFICES ASSUME TimerInv, [Next]_vars PROVE MainInv'
    OBVIOUS
  <1> USE TimerAssumption DEF TimerInv, TypeOK, MainInv, Devices, NULL,
          containers, devFlags, locks, waits, timerThread, mainThread,
          devThreads, Signal, DevicesJoined, TimerJoined, MustWait, Ready
  <1>1. CASE attach_event
    BY <1>1 DEF attach_event
  <1>2. CASE start_timer
    BY <1>2 DEF start_timer
  <1>3. CASE StopTimer
    BY <1>3 DEF StopTimer
  <1>4. CASE JoinTimer
    BY <1>4 DEF JoinTimer
  <1>5. CASE FreeContainer
    BY <1>5 DEF FreeContainer
  <1>6. CASE RoundBegin
    BY <1>6 DEF RoundBegin
  <1>7. CASE NextDevice
    BY <1>7 DEF NextDevice
  <1>8. CASE WaitDevice
    BY <1>8 DEF WaitDevice
  <1>9. CASE TimerWakes
    BY <1>9 DEF TimerWakes
  <1>10. CASE TallyDevice
    BY <1>10 DEF TallyDevice
  <1>11. CASE TickClock
    BY <1>11 DEF TickClock
  <1>12. CASE NextRelease
    BY <1>12 DEF NextRelease
  <1>13. CASE ResetDone
    BY <1>13 DEF ResetDone
  <1>14. ASSUME NEW e \in Devices, CallNextSlot(e) PROVE MainInv'
    BY <1>14 DEF CallNextSlot, Goto
  <1>15. ASSUME NEW e \in Devices, CallDetach(e) PROVE MainInv'
    BY <1>15 DEF CallDetach, Goto
  <1>16. ASSUME NEW e \in Devices, LockEvent(e) PROVE MainInv'
    BY <1>16 DEF LockEvent, Goto
  <1>17. ASSUME NEW e \in Devices, MarkDone(e) PROVE MainInv'
    BY <1>17 DEF MarkDone, Goto
  <1>18. ASSUME NEW e \in Devices, MarkFinished(e) PROVE MainInv'
    BY <1>18 DEF MarkFinished, Goto
  <1>19. ASSUME NEW e \in Devices, LockTimer(e) PROVE MainInv'
    BY <1>19 DEF LockTimer, Goto
  <1>20. ASSUME NEW e \in Devices, WaitTimer(e) PROVE MainInv'
    BY <1>20 DEF WaitTimer, Goto
  <1>21. ASSUME NEW e \in Devices, Return(e) PROVE MainInv'
    BY <1>21 DEF Return, Goto
  <1>22. ASSUME NEW e \in Devices, SpuriousWakeup(e) PROVE MainInv'
    BY <1>22 DEF SpuriousWakeup
  <1>23. CASE UNCHANGED vars
    BY <1>23 DEF vars
  <1> QED
    BY <1>1, <1>2, <1>3, <1>4, <1>5, <1>6, <1>7, <1>8, <1>9,
       <1>10, <1>11, <1>12, <1>13, <1>14, <1>15, <1>16, <1>17, <1>18,
       <1>19, <1>20, <1>21, <1>22, <1>23
    DEF Next, MainStep, TimerStep, DeviceStep

LEMMA RoundStep == TimerInv /\ [Next]_vars => RoundInv'
  <1> SUFFICES ASSUME TimerInv, [Next]_vars PROVE RoundInv'
    OBVIOUS
  <1> USE TimerAssumption DEF TimerInv, TypeOK, FlagsInv, MainInv, RoundInv,
          InNextSlot, Releasing, Devices, NULL, containers, devFlags, locks, waits, timerThread, mainThread,
          devThreads, Signal, DevicesJoined, TimerJoined, MustWait, Ready
  <1>1. CASE attach_event
    BY <1>1 DEF attach_event
  <1>2. CASE start_timer
    BY <1>2 DEF start_timer
  <1>3. CASE StopTimer
    BY <1>3 DEF StopTimer
  <1>4. CASE JoinTimer
    BY <1>4 DEF JoinTimer
  <1>5. CASE FreeContainer
    BY <1>5 DEF FreeContainer
  <1>6. CASE RoundBegin
    BY <1>6 DEF RoundBegin
  <1>7. CASE NextDevice
    BY <1>7 DEF NextDevice
  <1>8. CASE WaitDevice
    BY <1>8 DEF WaitDevice
  <1>9. CASE TimerWakes
    BY <1>9 DEF TimerWakes
  <1>10. CASE TallyDevice
    BY <1>10 DEF TallyDevice
  <1>11. CASE TickClock
    BY <1>11 DEF TickClock
  <1>12. CASE NextRelease
    BY <1>12 DEF NextRelease
  <1>13. CASE ResetDone
    BY <1>13 DEF ResetDone
  <1>14. ASSUME NEW e \in Devices, CallNextSlot(e) PROVE RoundInv'
    BY <1>14 DEF CallNextSlot, Goto
  <1>15. ASSUME NEW e \in Devices, CallDetach(e) PROVE RoundInv'
    BY <1>15 DEF CallDetach, Goto
  <1>16. ASSUME NEW e \in Devices, LockEvent(e) PROVE RoundInv'
    BY <1>16 DEF LockEvent, Goto
  <1>17. ASSUME NEW e \in Devices, MarkDone(e) PROVE RoundInv'
    BY <1>17 DEF MarkDone, Goto
  <1>18. ASSUME NEW e \in Devices, MarkFinished(e) PROVE RoundInv'
    BY <1>18 DEF MarkFinished, Goto
  <1>19. ASSUME NEW e \in Devices, LockTimer(e) PROVE RoundInv'
    BY <1>19 DEF LockTimer, Goto
  <1>20. ASSUME NEW e \in Devices, WaitTimer(e) PROVE RoundInv'
    BY <1>20 DEF WaitTimer, Goto
  <1>21. ASSUME NEW e \in Devices, Return(e) PROVE RoundInv'
    BY <1>21 DEF Return, Goto
  <1>22. ASSUME NEW e \in Devices, SpuriousWakeup(e) PROVE RoundInv'
    BY <1>22 DEF SpuriousWakeup
  <1>23. CASE UNCHANGED vars
    BY <1>23 DEF vars
  <1> QED
    BY <1>1, <1>2, <1>3, <1>4, <1>5, <1>6, <1>7, <1>8, <1>9,
       <1>10, <1>11, <1>12, <1>13, <1>14, <1>15, <1>16, <1>17, <1>18,
       <1>19, <1>20, <1>21, <1>22, <1>23
    DEF Next, MainStep, TimerStep, DeviceStep

LEMMA ClockStep == TimerInv /\ [Next]_vars => ClockInv'
  <1> SUFFICES ASSUME TimerInv, [Next]_vars PROVE ClockInv'
    OBVIOUS
  <1> USE TimerAssumption DEF TimerInv, TypeOK, FlagsInv, MainInv, RoundInv, ClockInv,
          Lags, InNextSlot, Releasing, Devices, NULL, containers, devFlags, locks, waits, timerThread, mainThread,
          devThreads, Signal, DevicesJoined, TimerJoined, MustWait, Ready
  <1>1. CASE attach_event
    BY <1>1 DEF attach_event
  <1>2. CASE start_timer
    BY <1>2 DEF start_timer
  <1>3. CASE StopTimer
    BY <1>3 DEF StopTimer
  <1>4. CASE JoinTimer
    BY <1>4 DEF JoinTimer
  <1>5. CASE FreeContainer
    BY <1>5 DEF FreeContainer
  <1>6. CASE RoundBegin
    BY <1>6 DEF RoundBegin
  <1>7. CASE NextDevice
    BY <1>7 DEF NextDevice
  <1>8. CASE WaitDevice
    BY <1>8 DEF WaitDevice
  <1>9. CASE TimerWakes
    BY <1>9 DEF TimerWakes
  <1>10. CASE TallyDevice
    BY <1>10 DEF TallyDevice
  <1>11. CASE TickClock
    BY <1>11 DEF TickClock
  <1>12. CASE NextRelease
    BY <1>12 DEF NextRelease
  <1>13. CASE ResetDone
    BY <1>13 DEF ResetDone
  <1>14. ASSUME NEW e \in Devices, CallNextSlot(e) PROVE ClockInv'
    BY <1>14 DEF CallNextSlot, Goto
  <1>15. ASSUME NEW e \in Devices, CallDetach(e) PROVE ClockInv'
    BY <1>15 DEF CallDetach, Goto
  <1>16. ASSUME NEW e \in Devices, LockEvent(e) PROVE ClockInv'
    BY <1>16 DEF LockEvent, Goto
  <1>17. ASSUME NEW e \in Devices, MarkDone(e) PROVE ClockInv'
    BY <1>17 DEF MarkDone, Goto
  <1>18. ASSUME NEW e \in Devices, MarkFinished(e) PROVE ClockInv'
    BY <1>18 DEF MarkFinished, Goto
  <1>19. ASSUME NEW e \in Devices, LockTimer(e) PROVE ClockInv'
    BY <1>19 DEF LockTimer, Goto
  <1>20. ASSUME NEW e \in Devices, WaitTimer(e) PROVE ClockInv'
    BY <1>20 DEF WaitTimer, Goto
  <1>21. ASSUME NEW e \in Devices, Return(e) PROVE ClockInv'
    BY <1>21 DEF Return, Goto
  <1>22. ASSUME NEW e \in Devices, SpuriousWakeup(e) PROVE ClockInv'
    BY <1>22 DEF SpuriousWakeup
  <1>23. CASE UNCHANGED vars
    BY <1>23 DEF vars
  <1> QED
    BY <1>1, <1>2, <1>3, <1>4, <1>5, <1>6, <1>7, <1>8, <1>9,
       <1>10, <1>11, <1>12, <1>13, <1>14, <1>15, <1>16, <1>17, <1>18,
       <1>19, <1>20, <1>21, <1>22, <1>23
    DEF Next, MainStep, TimerStep, DeviceStep

-----------------------------------------------------------------------------
(* The theorems                                                            *)

\* The flags of every device, main, the timer thread and the list agree in
\* every interleaving, for any number of devices.
THEOREM TimerInvariant == Spec => []TimerInv
  <1>1. TimerInv /\ [Next]_vars => TimerInv'
    BY TypeStep, FlagsStep, MainInvStep, RoundStep, ClockStep DEF TimerInv
  <1> QED
    BY <1>1, InitInv, PTL DEF Spec

\* No device works twice in a slot and none skips one: a device at work has
\* returned from next_slot once per slot that has passed, for any number of
\* devices, in every interleaving and with any spurious wakeups.
THEOREM EverySlotOnceCorrect == Spec => []EverySlotOnce
  <1>1. TimerInv => EverySlotOnce
    BY DEF TimerInv, FlagsInv, ClockInv, Lags, InNextSlot, EverySlotOnce
  <1> QED
    BY <1>1, TimerInvariant, PTL

\* stop_timer frees the containers after the last use of any of them.
THEOREM NoUseAfterFreeCorrect == Spec => []NoUseAfterFree
  <1>1. TimerInv => NoUseAfterFree
    BY DEF TimerInv, MainInv, NoUseAfterFree
  <1> QED
    BY <1>1, TimerInvariant, PTL

-----------------------------------------------------------------------------
(* The refinement of SlotBarrier                                           *)

Phase == [d \in Devices |-> IF fsh[d] THEN "gone"
                            ELSE IF done[d] THEN "waiting" ELSE "working"]
Behind == {d \in Devices : Releasing /\ d <= temp /\ done[d]}

LEMMA BarrierStep == TimerInv /\ [Next]_vars => [Barrier!BarrierNext]_(Barrier!barrierVars)
  <1> SUFFICES ASSUME TimerInv, [Next]_vars
               PROVE  [Barrier!BarrierNext]_(Barrier!barrierVars)
    OBVIOUS
  <1> USE DEF TimerInv
  <1>1. CASE UNCHANGED <<_time, done, fsh>> /\ Behind' = Behind
    <2>1. Phase' = Phase
      BY <1>1 DEF Phase
    <2> QED
      BY <1>1, <2>1 DEF Barrier!barrierVars, Phase, Behind
  <1>2. ASSUME UNCHANGED <<_time, done, fsh>>, UNCHANGED <<tpc, temp>>
        PROVE  Behind' = Behind
    BY <1>2 DEF Behind, Releasing
  <1>3. ASSUME UNCHANGED <<_time, done, fsh>>, ~Releasing, ~Releasing'
        PROVE  Behind' = Behind
    BY <1>3 DEF Behind
  <1>4. CASE TickClock
    <2>1. /\ \A d \in Devices : Ready(d)
          /\ Behind = {}
          /\ UNCHANGED <<done, fsh>> /\ _time' = Successor(_time)
      BY <1>4 DEF TickClock, RoundInv, Behind, Releasing, containers, devFlags
    <2>2. \A d \in Devices : Phase[d] # "working" /\ (Phase[d] = "waiting" <=> done[d])
      BY <2>1 DEF Phase, Ready, FlagsInv, InNextSlot
    <2>3. Behind' = {d \in Devices : Phase[d] = "waiting"}
      <3>1. /\ Releasing' /\ temp' = NumDevices /\ done' = done
            /\ \A d \in Devices : d <= NumDevices
        BY <1>4, <2>1, TimerAssumption DEF TickClock, Releasing, MainInv, Devices, TypeOK
      <3> QED
        BY <3>1, <2>2 DEF Behind
    <2>4. Phase' = Phase
      BY <2>1 DEF Phase
    <2> QED
      BY <2>1, <2>2, <2>3, <2>4
      DEF Barrier!BarrierNext, Barrier!Tick, Barrier!Successor, Successor, Phase, Behind
  <1>5. CASE ResetDone
    <2>1. temp \in Devices /\ Releasing /\ Releasing' /\ temp' = temp - 1
      BY <1>5, TimerAssumption DEF ResetDone, TypeOK, RoundInv, Releasing, NULL, Devices
    <2>2. /\ UNCHANGED <<_time, fsh>>
          /\ ~done'[temp]
          /\ \A e \in Devices \ {temp} : done'[e] = done[e]
      BY <1>5, <2>1 DEF ResetDone, TypeOK
    <2>3. Behind' = Behind \ {temp}
      BY <2>1, <2>2 DEF Behind, Devices
    <2>4. CASE done[temp]
      <3>1. temp \in Behind /\ ~fsh[temp]
        BY <2>1, <2>4 DEF Behind, FlagsInv, InNextSlot, Devices
      <3>2. Phase' = [Phase EXCEPT ![temp] = "working"]
        BY <2>1, <2>2, <3>1 DEF Phase
      <3> QED
        BY <2>1, <2>2, <2>3, <3>1, <3>2
        DEF Barrier!BarrierNext, Barrier!Release, Phase, Behind
    <2>5. CASE ~done[temp]
      <3>1. Phase' = Phase
        BY <2>2, <2>5 DEF Phase
      <3>2. Behind' = Behind
        BY <2>3, <2>5 DEF Behind
      <3> QED
        BY <2>2, <3>1, <3>2 DEF Barrier!barrierVars, Phase, Behind
    <2> QED
      BY <2>4, <2>5
  <1>6. ASSUME NEW d \in Devices, MarkDone(d)
        PROVE  Barrier!BarrierNext
    <2>1. /\ ~done[d] /\ ~fsh[d] /\ done'[d]
          /\ \A e \in Devices \ {d} : done'[e] = done[e]
          /\ UNCHANGED <<_time, fsh, tpc, temp>>
      BY <1>6 DEF MarkDone, Goto, FlagsInv, InNextSlot, TypeOK, timerThread, Signal
    <2>2. Phase[d] = "working" /\ Phase' = [Phase EXCEPT ![d] = "waiting"]
      BY <2>1 DEF Phase
    <2>3. ~(Releasing /\ d <= temp)
      BY <2>1 DEF RoundInv, Ready
    <2>4. Behind' = Behind
      BY <2>1, <2>3 DEF Behind, Releasing
    <2> QED
      BY <2>1, <2>2, <2>4 DEF Barrier!BarrierNext, Barrier!Arrive, Phase, Behind
  <1>7. ASSUME NEW d \in Devices, MarkFinished(d)
        PROVE  Barrier!BarrierNext
    <2>1. /\ ~done[d] /\ ~fsh[d] /\ fsh'[d]
          /\ \A e \in Devices \ {d} : fsh'[e] = fsh[e]
          /\ UNCHANGED <<_time, done, tpc, temp>>
      BY <1>7 DEF MarkFinished, Goto, FlagsInv, InNextSlot, TypeOK, timerThread, Signal
    <2>2. Phase[d] = "working" /\ Phase' = [Phase EXCEPT ![d] = "gone"]
      BY <2>1 DEF Phase
    <2>3. Behind' = Behind
      BY <2>1 DEF Behind, Releasing
    <2> QED
      BY <2>1, <2>2, <2>3 DEF Barrier!BarrierNext, Barrier!Detach, Phase, Behind
  <1>8. CASE NextRelease
    <2>1. UNCHANGED <<_time, done, fsh, temp>> /\ Releasing
      BY <1>8 DEF NextRelease, devFlags, Releasing
    <2>2. temp # NULL => Releasing'
      BY <1>8 DEF NextRelease, Releasing
    <2>3. temp = NULL => Behind = {} /\ Behind' = {}
      BY <2>1 DEF Behind, NULL, Devices
    <2> QED
      BY <1>1, <2>1, <2>2, <2>3 DEF Behind
  <1>9. CASE RoundBegin \/ NextDevice \/ WaitDevice \/ TimerWakes \/ TallyDevice \/ start_timer
    BY <1>9, <1>1, <1>3 DEF RoundBegin, NextDevice, WaitDevice, TimerWakes, TallyDevice,
       start_timer, Releasing, containers, devFlags, MainInv
  <1>10. CASE \/ attach_event \/ StopTimer \/ JoinTimer \/ FreeContainer \/ UNCHANGED vars
              \/ \E d \in Devices : \/ CallNextSlot(d) \/ CallDetach(d) \/ LockEvent(d)
                                    \/ LockTimer(d) \/ WaitTimer(d) \/ Return(d)
                                    \/ SpuriousWakeup(d)
    BY <1>10, <1>1, <1>2 DEF attach_event, StopTimer, JoinTimer, FreeContainer, vars,
       CallNextSlot, CallDetach, LockEvent, LockTimer, WaitTimer, Return, SpuriousWakeup,
       containers, devFlags, timerThread, mainThread
  <1> QED
    BY <1>4, <1>5, <1>6, <1>7, <1>8, <1>9, <1>10
    DEF Next, MainStep, TimerStep, DeviceStep

\* The mutexes, condition variables and flags of timer.c implement the slot
\* barrier for any number of devices: the clock ticks only when every device
\* is done or gone and every release of the slot before has been made.
THEOREM BarrierImplemented == Spec => ImplementsBarrier
  <1>1. Init => Barrier!BarrierInit
    <2> SUFFICES ASSUME Init PROVE Barrier!BarrierInit
      OBVIOUS
    <2>1. /\ Phase = [d \in Devices |-> "working"] /\ Behind = {} /\ _time = 0
      BY DEF Init, Phase, Behind, Releasing
    <2> QED
      BY <2>1 DEF Barrier!BarrierInit, Phase, Behind
  <1> QED
    BY <1>1, BarrierStep, TimerInvariant, PTL DEF Spec, ImplementsBarrier, Barrier!BarrierSpec
=============================================================================
