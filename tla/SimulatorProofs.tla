--------------------------- MODULE SimulatorProofs ---------------------------
(***************************************************************************)
(* Proofs about Simulator, for any number of CPUs, any processes with any  *)
(* code and start times, any time slice and any width of the clock.        *)
(***************************************************************************)
EXTENDS Simulator, MLQProofs

-----------------------------------------------------------------------------
(* The invariants                                                          *)

LEMMA ConstantTypes ==
    /\ Len(Order) \in Nat
    /\ time_slot \in Nat \ {0}
    /\ loader \in Devices /\ loader \notin CPUs /\ CPUs \subseteq Devices
  BY SimulatorAssumption, LenProperties

\* Where a thread may wait, and what a thread that is gone tells: a CPU
\* waits only between two rounds of its loop, and stops only after done.
PhaseInv ==
    /\ \A c \in CPUs : at[c] \notin {"top", "stopped"} => phase[c] = "working"
    /\ \A c \in CPUs : at[c] = "stopped" => phase[c] = "gone" /\ done
    /\ \A d \in behind : phase[d] = "waiting"
    /\ done => phase[loader] = "gone" /\ i > Len(Order)

\* The instructions run in a time slice and the rest of it add up to the
\* slice; with no process at hand there is no rest.
SliceInv ==
    \A c \in CPUs :
        /\ at[c] \in {"put", "recheck"} => time_left[c] = 0
        /\ at[c] = "top" /\ proc[c] = NULL => time_left[c] = 0
        /\ at[c] = "top" /\ proc[c] # NULL => burst[c] + time_left[c] = time_slot
        /\ at[c] \in {"run", "alloc"} => /\ proc[c] # NULL
                                         /\ time_left[c] > 0
                                         /\ burst[c] + time_left[c] = time_slot + 1

MachineInv == TypeOK /\ PhaseInv /\ SliceInv

LEMMA MachineInit == Init => MachineInv
  <1> SUFFICES ASSUME Init PROVE MachineInv
    OBVIOUS
  <1>1. MLQTypeOK /\ BarrierTypeOK
    BY InitScheduler, BarrierAssumption DEF Init, BarrierInit, BarrierTypeOK
  <1>2. TypeOK
    <2>1. time_slot \in Nat
      BY SimulatorAssumption
    <2>2. i \in 1 .. (Len(Order) + 1)
      BY ConstantTypes DEF Init
    <2>3. 0 \in 0 .. time_slot
      BY <2>1
    <2> QED
      BY <1>1, <2>2, <2>3 DEF Init, TypeOK
  <1>3. PhaseInv /\ SliceInv
    BY DEF Init, BarrierInit, PhaseInv, SliceInv
  <1> QED
    BY <1>2, <1>3 DEF MachineInv

LEMMA OrderTypes == \A k \in 1 .. Len(Order) : Order[k] \in Procs
  BY SimulatorAssumption, ElementOfSeq

LEMMA SuccessorType ==
    \A t \in 0 .. (TimeWrap - 1) : Successor(t) \in 0 .. (TimeWrap - 1)
  BY BarrierAssumption DEF Successor

LEMMA TypeStep == MachineInv /\ [Next]_vars => TypeOK'
  <1> SUFFICES ASSUME MachineInv, [Next]_vars PROVE TypeOK'
    OBVIOUS
  <1> USE ConstantTypes
      DEF MachineInv, TypeOK, BarrierTypeOK, MLQTypeOK, SliceInv, Active, Goto, Arrive, Detach,
          mlqVars, barrierVars, cpuVars, pcbVars, history
  <1>1. ASSUME NEW c \in CPUs, FirstLoad(c) PROVE TypeOK'
    <2>1. MLQTypeOK' /\ proc' \in [CPUs -> Procs \cup {NULL}]
      BY <1>1, GetType DEF FirstLoad
    <2> QED
      BY <1>1, <2>1 DEF FirstLoad
  <1>2. ASSUME NEW c \in CPUs, FreeFinished(c) PROVE TypeOK'
    BY <1>2 DEF FreeFinished
  <1>3. ASSUME NEW c \in CPUs, PutBack(c) PROVE TypeOK'
    <2>1. MLQTypeOK'
      BY <1>3, EnqueueProcType DEF PutBack, put_proc
    <2> QED
      BY <1>3, <2>1 DEF PutBack
  <1>4. ASSUME NEW c \in CPUs, LoadNext(c) PROVE TypeOK'
    <2>1. MLQTypeOK' /\ proc' \in [CPUs -> Procs \cup {NULL}]
      BY <1>4, GetType DEF LoadNext
    <2> QED
      BY <1>4, <2>1 DEF LoadNext, FreshTime
  <1>5. ASSUME NEW c \in CPUs, Stop(c) PROVE TypeOK'
    BY <1>5 DEF Stop
  <1>6. ASSUME NEW c \in CPUs, SkipSlot(c) PROVE TypeOK'
    BY <1>6 DEF SkipSlot
  <1>7. ASSUME NEW c \in CPUs, BeginInstruction(c) PROVE TypeOK'
    <2>1. proc[c] \in Procs
      BY <1>7 DEF BeginInstruction
    <2>2. run(proc[c]) \in Nat
      BY <2>1 DEF run
    <2>3. Slice(c) \in 0 .. time_slot
      BY DEF Slice
    <2>4. (IF at[c] = "recheck" THEN 1 ELSE burst[c] + 1) \in 0 .. time_slot
      BY <1>7 DEF BeginInstruction
    <2>5. pcount' \in [Procs -> Nat]
      BY <1>7, <2>2 DEF BeginInstruction
    <2>6. time_left' \in [CPUs -> 0 .. time_slot]
      BY <1>7, <2>3 DEF BeginInstruction
    <2>7. burst' \in [CPUs -> 0 .. time_slot]
      BY <1>7, <2>4 DEF BeginInstruction
    <2>8. ran' \subseteq Procs
      BY <1>7, <2>1 DEF BeginInstruction
    <2> QED
      BY <1>7, <2>5, <2>6, <2>7, <2>8 DEF BeginInstruction
  <1>8. ASSUME NEW c \in CPUs, EnterAlloc(c) PROVE TypeOK'
    BY <1>8 DEF EnterAlloc
  <1>9. ASSUME NEW c \in CPUs, EndInstruction(c) PROVE TypeOK'
    <2>1. time_left[c] - 1 \in 0 .. time_slot
      BY <1>9 DEF EndInstruction
    <2>2. time_left' \in [CPUs -> 0 .. time_slot]
      BY <1>9, <2>1 DEF EndInstruction
    <2> QED
      BY <1>9, <2>2 DEF EndInstruction
  <1>10. CASE AwaitStart
    BY <1>10 DEF AwaitStart
  <1>11. CASE LoadProcess
    <2>1. Order[i] \in Procs
      BY <1>11, OrderTypes DEF LoadProcess
    <2>2. MLQTypeOK'
      BY <1>11, <2>1, EnqueueProcType DEF LoadProcess, add_proc
    <2> QED
      BY <1>11, <2>2 DEF LoadProcess
  <1>12. CASE LoaderDone
    BY <1>12 DEF LoaderDone
  <1>13. CASE TimerTick
    BY <1>13, SuccessorType DEF TimerTick, Tick
  <1>14. ASSUME NEW d \in Devices, TimerRelease(d) PROVE TypeOK'
    BY <1>14 DEF TimerRelease, Release
  <1>15. CASE UNCHANGED vars
    BY <1>15 DEF vars
  <1> QED
    BY <1>1, <1>2, <1>3, <1>4, <1>5, <1>6, <1>7, <1>8,
       <1>9, <1>10, <1>11, <1>12, <1>13, <1>14, <1>15
    DEF Next, CPUStep, LoaderStep, Terminated

LEMMA PhaseStep == MachineInv /\ [Next]_vars => PhaseInv'
  <1> SUFFICES ASSUME MachineInv, [Next]_vars PROVE PhaseInv'
    OBVIOUS
  <1> USE ConstantTypes
      DEF MachineInv, TypeOK, BarrierTypeOK, PhaseInv, Active, Goto, Arrive, Detach, LoaderActive,
          mlqVars, barrierVars, cpuVars, pcbVars, history
  <1>1. ASSUME NEW c \in CPUs, FirstLoad(c) PROVE PhaseInv'
    BY <1>1 DEF FirstLoad
  <1>2. ASSUME NEW c \in CPUs, FreeFinished(c) PROVE PhaseInv'
    BY <1>2 DEF FreeFinished
  <1>3. ASSUME NEW c \in CPUs, PutBack(c) PROVE PhaseInv'
    BY <1>3 DEF PutBack
  <1>4. ASSUME NEW c \in CPUs, LoadNext(c) PROVE PhaseInv'
    BY <1>4 DEF LoadNext
  <1>5. ASSUME NEW c \in CPUs, Stop(c) PROVE PhaseInv'
    BY <1>5 DEF Stop, NoMoreProcesses
  <1>6. ASSUME NEW c \in CPUs, SkipSlot(c) PROVE PhaseInv'
    BY <1>6 DEF SkipSlot
  <1>7. ASSUME NEW c \in CPUs, BeginInstruction(c) PROVE PhaseInv'
    BY <1>7 DEF BeginInstruction
  <1>8. ASSUME NEW c \in CPUs, EnterAlloc(c) PROVE PhaseInv'
    BY <1>8 DEF EnterAlloc
  <1>9. ASSUME NEW c \in CPUs, EndInstruction(c) PROVE PhaseInv'
    BY <1>9 DEF EndInstruction
  <1>10. CASE AwaitStart
    BY <1>10 DEF AwaitStart
  <1>11. CASE LoadProcess
    BY <1>11 DEF LoadProcess
  <1>12. CASE LoaderDone
    BY <1>12 DEF LoaderDone
  <1>13. CASE TimerTick
    BY <1>13 DEF TimerTick, Tick
  <1>14. ASSUME NEW d \in Devices, TimerRelease(d) PROVE PhaseInv'
    BY <1>14 DEF TimerRelease, Release
  <1>15. CASE UNCHANGED vars
    BY <1>15 DEF vars
  <1> QED
    BY <1>1, <1>2, <1>3, <1>4, <1>5, <1>6, <1>7, <1>8,
       <1>9, <1>10, <1>11, <1>12, <1>13, <1>14, <1>15
    DEF Next, CPUStep, LoaderStep, Terminated

LEMMA SliceStep == MachineInv /\ [Next]_vars => SliceInv'
  <1> SUFFICES ASSUME MachineInv, [Next]_vars PROVE SliceInv'
    OBVIOUS
  <1> USE ConstantTypes
      DEF MachineInv, TypeOK, SliceInv, Active, Goto, Arrive, Detach,
          mlqVars, barrierVars, cpuVars, pcbVars, history
  <1>1. ASSUME NEW c \in CPUs, FirstLoad(c) PROVE SliceInv'
    BY <1>1 DEF FirstLoad
  <1>2. ASSUME NEW c \in CPUs, FreeFinished(c) PROVE SliceInv'
    BY <1>2 DEF FreeFinished
  <1>3. ASSUME NEW c \in CPUs, PutBack(c) PROVE SliceInv'
    BY <1>3 DEF PutBack
  <1>4. ASSUME NEW c \in CPUs, LoadNext(c) PROVE SliceInv'
    BY <1>4 DEF LoadNext, FreshTime
  <1>5. ASSUME NEW c \in CPUs, Stop(c) PROVE SliceInv'
    BY <1>5 DEF Stop
  <1>6. ASSUME NEW c \in CPUs, SkipSlot(c) PROVE SliceInv'
    BY <1>6 DEF SkipSlot
  <1>7. ASSUME NEW c \in CPUs, BeginInstruction(c) PROVE SliceInv'
    BY <1>7 DEF BeginInstruction, Slice
  <1>8. ASSUME NEW c \in CPUs, EnterAlloc(c) PROVE SliceInv'
    BY <1>8 DEF EnterAlloc
  <1>9. ASSUME NEW c \in CPUs, EndInstruction(c) PROVE SliceInv'
    <2>0. /\ proc[c] # NULL /\ burst[c] + time_left[c] = time_slot + 1
          /\ burst[c] \in Int /\ time_left[c] \in Int
      BY <1>9 DEF EndInstruction
    <2> HIDE DEF MachineInv, TypeOK, SliceInv
    <2>1. burst[c] + (time_left[c] - 1) = time_slot
      BY <2>0
    <2>2. /\ at' = [at EXCEPT ![c] = "top"] /\ UNCHANGED <<proc, burst>>
          /\ time_left' = [time_left EXCEPT ![c] = time_left[c] - 1]
      BY <1>9 DEF EndInstruction
    <2> QED
      BY <2>0, <2>1, <2>2 DEF MachineInv, TypeOK, SliceInv
  <1>10. CASE AwaitStart
    BY <1>10 DEF AwaitStart
  <1>11. CASE LoadProcess
    BY <1>11 DEF LoadProcess
  <1>12. CASE LoaderDone
    BY <1>12 DEF LoaderDone
  <1>13. CASE TimerTick
    BY <1>13 DEF TimerTick
  <1>14. ASSUME NEW d \in Devices, TimerRelease(d) PROVE SliceInv'
    BY <1>14 DEF TimerRelease
  <1>15. CASE UNCHANGED vars
    BY <1>15 DEF vars
  <1> QED
    BY <1>1, <1>2, <1>3, <1>4, <1>5, <1>6, <1>7, <1>8,
       <1>9, <1>10, <1>11, <1>12, <1>13, <1>14, <1>15
    DEF Next, CPUStep, LoaderStep, Terminated

LEMMA MachineInvariant == Spec => []MachineInv
  <1>1. MachineInv /\ [Next]_vars => MachineInv'
    BY TypeStep, PhaseStep, SliceStep DEF MachineInv
  <1> QED
    BY <1>1, MachineInit, PTL DEF Spec

\* Every variable of the machine keeps its type, for any number of CPUs: in
\* particular time_left stays between 0 and the time slice.
THEOREM MachineTypeCorrect == Spec => []TypeOK
  <1>1. MachineInv => TypeOK
    BY DEF MachineInv
  <1> QED
    BY <1>1, MachineInvariant, PTL

\* A CPU at the top of its loop has run exactly the part of the slice that
\* time_left no longer counts: no process loses or gains instructions
\* (os.c:88-97), however many CPUs run and whatever the processes execute.
THEOREM WholeSlicesCorrect == Spec => []WholeSlices
  <1>1. MachineInv => WholeSlices
    BY DEF MachineInv, SliceInv, WholeSlices, HeldBy
  <1> QED
    BY <1>1, MachineInvariant, PTL

-----------------------------------------------------------------------------
(* The machine as a user of the ready queue                                *)

Unborn == {Order[k] : k \in i .. Len(Order)}

\* What CPU c holds becomes p, and no other CPU changes what it holds.
Holds(c, p) == HeldBy(c)' = p /\ \A d \in CPUs \ {c} : HeldBy(d)' = HeldBy(d)

Loads(p) ==
    /\ p \in Unborn /\ p \in Procs /\ EnqueueProc(p)
    /\ Unborn' = Unborn \ {p} /\ freed' = freed
    /\ \A d \in CPUs : HeldBy(d)' = HeldBy(d)

Gets(c, p) ==
    /\ HeldBy(c) = NULL /\ p \in Procs \cup {NULL} /\ get_mlq_proc(p)
    /\ Unborn' = Unborn /\ freed' = freed
    /\ Holds(c, p)

Puts(c) ==
    /\ HeldBy(c) \in Procs /\ EnqueueProc(HeldBy(c))
    /\ Unborn' = Unborn /\ freed' = freed
    /\ Holds(c, NULL)

Frees(c) ==
    /\ HeldBy(c) \in Procs /\ UNCHANGED mlqVars
    /\ Unborn' = Unborn /\ freed' = freed \cup {HeldBy(c)}
    /\ Holds(c, NULL)

Elsewhere ==
    /\ UNCHANGED mlqVars /\ Unborn' = Unborn /\ freed' = freed
    /\ \A d \in CPUs : HeldBy(d)' = HeldBy(d)

SchedulerCall ==
    \/ \E p \in Procs : Loads(p)
    \/ \E c \in CPUs : \E p \in Procs \cup {NULL} : Gets(c, p)
    \/ \E c \in CPUs : Puts(c) \/ Frees(c)
    \/ Elsewhere

\* Each step of the machine calls the scheduler once or not at all.
LEMMA SchedulerView == MachineInv /\ [Next]_vars => SchedulerCall
  <1> SUFFICES ASSUME MachineInv, [Next]_vars PROVE SchedulerCall
    OBVIOUS
  <1> USE DEF MachineInv, TypeOK, Active, Goto, Arrive, Detach, HeldBy, Holds, Unborn,
              mlqVars, barrierVars, cpuVars, pcbVars, history
  <1>1. ASSUME NEW c \in CPUs, FirstLoad(c) PROVE SchedulerCall
    <2>1. PICK p \in Procs \cup {NULL} :
              /\ get_mlq_proc(p) /\ proc' = [proc EXCEPT ![c] = p]
              /\ at' = IF p = NULL THEN at ELSE [at EXCEPT ![c] = "recheck"]
      BY <1>1 DEF FirstLoad
    <2>2. Gets(c, p)
      BY <1>1, <2>1 DEF FirstLoad, SchedulerCall, Gets
    <2> QED
      BY <2>2 DEF SchedulerCall
  <1>2. ASSUME NEW c \in CPUs, LoadNext(c) PROVE SchedulerCall
    <2>1. PICK p \in Procs \cup {NULL} : get_mlq_proc(p) /\ proc' = [proc EXCEPT ![c] = p]
      BY <1>2 DEF LoadNext
    <2>2. Gets(c, p)
      BY <1>2, <2>1 DEF LoadNext, SchedulerCall, Gets
    <2> QED
      BY <2>2 DEF SchedulerCall
  <1>3. ASSUME NEW c \in CPUs, PutBack(c) PROVE SchedulerCall
    BY <1>3 DEF PutBack, SchedulerCall, Puts, put_proc
  <1>4. ASSUME NEW c \in CPUs, FreeFinished(c) PROVE SchedulerCall
    BY <1>4 DEF FreeFinished, SchedulerCall, Frees
  <1>5. CASE LoadProcess
    <2>0. PICK p \in Procs : p = Order[i]
      BY <1>5, OrderTypes, ConstantTypes DEF LoadProcess
    <2>1. p = Order[i] /\ i \in 1 .. Len(Order) /\ Len(Order) \in Nat /\ p \in Unborn
      BY <1>5, <2>0, ConstantTypes DEF LoadProcess
    <2>2. Unborn' = {Order[k] : k \in (i + 1) .. Len(Order)}
      BY <1>5 DEF LoadProcess
    <2>3. \A k \in (i + 1) .. Len(Order) : Order[k] # p
      BY <2>1, SimulatorAssumption
    <2>4. i .. Len(Order) = {i} \cup ((i + 1) .. Len(Order))
      BY <2>1
    <2>5. Unborn' = Unborn \ {p}
      BY <2>1, <2>2, <2>3, <2>4, Zenon
    <2>6. Loads(p)
      BY <1>5, <2>1, <2>5 DEF LoadProcess, SchedulerCall, Loads, add_proc
    <2> QED
      BY <2>6 DEF SchedulerCall
  <1>6. ASSUME NEW c \in CPUs, Stop(c) PROVE SchedulerCall
    BY <1>6 DEF Stop, SchedulerCall, Elsewhere
  <1>7. ASSUME NEW c \in CPUs, SkipSlot(c) PROVE SchedulerCall
    BY <1>7 DEF SkipSlot, SchedulerCall, Elsewhere
  <1>8. ASSUME NEW c \in CPUs, BeginInstruction(c) PROVE SchedulerCall
    BY <1>8 DEF BeginInstruction, SchedulerCall, Elsewhere
  <1>9. ASSUME NEW c \in CPUs, EnterAlloc(c) PROVE SchedulerCall
    BY <1>9 DEF EnterAlloc, SchedulerCall, Elsewhere
  <1>10. ASSUME NEW c \in CPUs, EndInstruction(c) PROVE SchedulerCall
    BY <1>10 DEF EndInstruction, SchedulerCall, Elsewhere
  <1>11. CASE AwaitStart \/ LoaderDone \/ TimerTick \/ (\E d \in Devices : TimerRelease(d))
              \/ UNCHANGED vars
    <2>1. UNCHANGED <<mlqVars, at, proc, freed, i>>
      BY <1>11 DEF AwaitStart, LoaderDone, TimerTick, TimerRelease, vars
    <2> QED
      BY <2>1 DEF SchedulerCall, Elsewhere
  <1> HIDE DEF MachineInv, TypeOK, HeldBy, Unborn, mlqVars
  <1> QED
    BY <1>1, <1>2, <1>3, <1>4, <1>5, <1>6, <1>7, <1>8, <1>9, <1>10, <1>11
    DEF Next, CPUStep, LoaderStep, Terminated

\* The module that Scheduler instantiates has its own copy of MLQ.
LEMMA SameScheduler ==
    ASSUME NEW p
    PROVE  get_mlq_proc(p) => Scheduler!get_mlq_proc(p)
  BY DEF get_mlq_proc, Scheduler!get_mlq_proc, TakeFrom, Scheduler!TakeFrom, GetNone,
         Scheduler!GetNone, Serve, Scheduler!Serve, HasTurn, Scheduler!HasTurn,
         Distance, Scheduler!Distance, SlotAfter, Scheduler!SlotAfter, empty,
         Scheduler!empty, slot, Scheduler!slot, Levels, Scheduler!Levels

LEMMA RunningAfter ==
    ASSUME NEW c \in CPUs, NEW p, Holds(c, p)
    PROVE  [d \in CPUs |-> HeldBy(d)]' = [[d \in CPUs |-> HeldBy(d)] EXCEPT ![c] = p]
  BY DEF Holds

LEMMA UsesSchedulerStep == SchedulerCall => [Scheduler!SchedNext]_(Scheduler!schedVars)
  <1> SUFFICES ASSUME SchedulerCall
               PROVE  Scheduler!SchedNext \/ UNCHANGED Scheduler!schedVars
    OBVIOUS
  <1>1. ASSUME NEW p \in Procs, Loads(p) PROVE Scheduler!SchedNext
    <2>1. [d \in CPUs |-> HeldBy(d)]' = [d \in CPUs |-> HeldBy(d)]
      BY <1>1 DEF Loads
    <2>2. Scheduler!Add(p)
      BY <1>1, <2>1 DEF Loads, Scheduler!Add, Scheduler!add_proc, Scheduler!EnqueueProc,
                        Scheduler!enqueue, EnqueueProc, enqueue, Unborn
    <2> QED
      BY <2>2 DEF Scheduler!SchedNext
  <1>2. ASSUME NEW c \in CPUs, NEW p \in Procs \cup {NULL}, Gets(c, p) PROVE Scheduler!SchedNext
    <2>1. [d \in CPUs |-> HeldBy(d)]' = [[d \in CPUs |-> HeldBy(d)] EXCEPT ![c] = p]
      BY <1>2, RunningAfter DEF Gets
    <2>2. Scheduler!get_mlq_proc(p)
      BY <1>2, SameScheduler DEF Gets
    <2>3. Scheduler!Get(c)
      BY <1>2, <2>1, <2>2 DEF Gets, Scheduler!Get, Unborn
    <2> QED
      BY <2>3 DEF Scheduler!SchedNext, Scheduler!CPUStep
  <1>3. ASSUME NEW c \in CPUs, Puts(c) PROVE Scheduler!SchedNext
    <2>1. [d \in CPUs |-> HeldBy(d)]' = [[d \in CPUs |-> HeldBy(d)] EXCEPT ![c] = NULL]
      BY <1>3, RunningAfter DEF Puts
    <2>2. HeldBy(c) # NULL
      BY <1>3, MLQAssumption DEF Puts
    <2>3. Scheduler!Put(c)
      BY <1>3, <2>1, <2>2 DEF Puts, Scheduler!Put, Scheduler!put_proc, Scheduler!EnqueueProc,
                              Scheduler!enqueue, EnqueueProc, enqueue, Unborn
    <2> QED
      BY <2>3 DEF Scheduler!SchedNext, Scheduler!CPUStep
  <1>4. ASSUME NEW c \in CPUs, Frees(c) PROVE Scheduler!SchedNext
    <2>1. [d \in CPUs |-> HeldBy(d)]' = [[d \in CPUs |-> HeldBy(d)] EXCEPT ![c] = NULL]
      BY <1>4, RunningAfter DEF Frees
    <2>2. HeldBy(c) # NULL
      BY <1>4, MLQAssumption DEF Frees
    <2>3. Scheduler!Finish(c)
      BY <1>4, <2>1, <2>2 DEF Frees, Scheduler!Finish, Scheduler!mlqVars, mlqVars, Unborn
    <2> QED
      BY <2>3 DEF Scheduler!SchedNext, Scheduler!CPUStep
  <1>5. CASE Elsewhere
    <2>1. [d \in CPUs |-> HeldBy(d)]' = [d \in CPUs |-> HeldBy(d)]
      BY <1>5 DEF Elsewhere
    <2> QED
      BY <1>5, <2>1 DEF Elsewhere, Scheduler!schedVars, Scheduler!mlqVars, mlqVars, Unborn
  <1> QED
    BY <1>1, <1>2, <1>3, <1>4, <1>5 DEF SchedulerCall

\* The CPU threads and the loader call get_proc, put_proc and add_proc in
\* the order MLQScheduler allows: no CPU puts back what it does not hold or
\* asks for a second process, and the loader adds each process once.
THEOREM UsesSchedulerCorrect == Spec => UsesScheduler
  <1>1. Init => Scheduler!SchedInit
    <2> SUFFICES ASSUME Init PROVE Scheduler!SchedInit
      OBVIOUS
    <2>1. Unborn = Procs
      <3>1. Unborn = {Order[k] : k \in 1 .. Len(Order)}
        BY DEF Unborn, Init
      <3>2. \A p \in Procs : \E k \in 1 .. Len(Order) : Order[k] = p
        BY SimulatorAssumption
      <3> QED
        BY <3>1, <3>2, OrderTypes
    <2>2. [d \in CPUs |-> HeldBy(d)] = [d \in CPUs |-> NULL]
      BY DEF Init, HeldBy
    <2> QED
      BY <2>1, <2>2 DEF Init, init_scheduler, Unborn, Scheduler!SchedInit,
                        Scheduler!init_scheduler, Scheduler!Levels, Levels
  <1> QED
    BY <1>1, MachineInvariant, SchedulerView, UsesSchedulerStep, PTL
    DEF Spec, UsesScheduler, Scheduler!SchedSpec

-----------------------------------------------------------------------------
(* Every process is in one place                                           *)

\* OnePlace of MLQScheduler, said of the local variables of the CPUs.
HeldInv ==
    /\ \A c, d \in CPUs : HeldBy(c) # NULL /\ HeldBy(c) = HeldBy(d) => c = d
    /\ Unborn \cap freed = {}
    /\ \A p \in Unborn \cup freed : ~Waiting(p)
    /\ \A c \in CPUs : HeldBy(c) \notin Unborn \cup freed /\ ~Waiting(HeldBy(c))

QueueInv == QueuesSound /\ QuotaRespected /\ HeldInv

LEMMA HeldType ==
    ASSUME TypeOK
    PROVE  /\ \A c \in CPUs : HeldBy(c) \in Procs \cup {NULL}
           /\ freed \subseteq Procs /\ Unborn \subseteq Procs /\ MLQTypeOK
           /\ NULL \notin Procs /\ ~Waiting(NULL)
  <1>1. \A k \in i .. Len(Order) : k \in 1 .. Len(Order)
    BY ConstantTypes DEF TypeOK
  <1>2. Unborn \subseteq Procs
    BY <1>1, OrderTypes DEF Unborn
  <1>3. NULL \notin Procs /\ ~Waiting(NULL)
    BY MLQAssumption, WaitingIsProc DEF TypeOK
  <1> QED
    BY <1>2, <1>3 DEF TypeOK, HeldBy

LEMMA QueueStep ==
    MachineInv /\ QueueInv /\ SchedulerCall => QueueInv'
  <1> SUFFICES ASSUME MachineInv, QueueInv, SchedulerCall PROVE QueueInv'
    OBVIOUS
  <1>0. /\ \A c \in CPUs : HeldBy(c) \in Procs \cup {NULL}
        /\ freed \subseteq Procs /\ Unborn \subseteq Procs /\ MLQTypeOK
        /\ NULL \notin Procs /\ ~Waiting(NULL)
    BY HeldType DEF MachineInv
  <1>1. ASSUME NEW p \in Procs, Loads(p) PROVE QueueInv'
    <2>1. ~Waiting(p) /\ p \notin freed /\ \A c \in CPUs : HeldBy(c) # p
      BY <1>1 DEF Loads, QueueInv, HeldInv
    <2>2. QueuesSound' /\ \A x : Waiting(x)' => Waiting(x) \/ x = p
      BY <1>0, <1>1, <2>1, EnqueueProcQueues DEF Loads, QueueInv
    <2>3. QuotaRespected'
      BY <1>1 DEF Loads, EnqueueProc, QueueInv, QuotaRespected
    <2> QED
      BY <1>1, <2>1, <2>2, <2>3 DEF Loads, QueueInv, HeldInv
  <1>2. ASSUME NEW c \in CPUs, NEW p \in Procs \cup {NULL}, Gets(c, p) PROVE QueueInv'
    <2>1. QuotaRespected'
      BY <1>0, <1>2, GetQuota DEF Gets, QueueInv
    <2>2. CASE GetNone(p)
      <3>1. /\ mlq_ready_queue' = mlq_ready_queue
            /\ \A d \in CPUs : HeldBy(d)' = HeldBy(d)
        BY <1>2, <2>2 DEF GetNone, Gets, Holds
      <3>2. QueuesSound' /\ \A x : Waiting(x)' <=> Waiting(x)
        BY <3>1 DEF QueueInv, QueuesSound, Waiting
      <3> QED
        BY <1>2, <2>1, <3>1, <3>2 DEF Gets, QueueInv, HeldInv
    <2>3. ASSUME NEW l \in Levels, TakeFrom(l, p) PROVE QueueInv'
      <3>1. /\ QueuesSound' /\ Waiting(p) /\ ~Waiting(p)'
            /\ \A x : Waiting(x)' => Waiting(x)
        BY <1>0, <2>3, TakeFromQueues DEF QueueInv
      <3>2. p \notin Unborn \cup freed /\ \A d \in CPUs : HeldBy(d) # p
        BY <3>1 DEF QueueInv, HeldInv
      <3> QED
        BY <1>2, <2>1, <3>1, <3>2 DEF Gets, Holds, QueueInv, HeldInv
    <2> QED
      BY <1>2, <2>2, <2>3 DEF Gets, get_mlq_proc
  <1>3. ASSUME NEW c \in CPUs, Puts(c) PROVE QueueInv'
    <2>0. PICK p \in Procs : p = HeldBy(c)
      BY <1>3 DEF Puts
    <2>1. /\ ~Waiting(p) /\ p \notin Unborn \cup freed
          /\ \A d \in CPUs \ {c} : HeldBy(d) # p
      BY <1>0, <2>0 DEF QueueInv, HeldInv
    <2>2. QueuesSound' /\ \A x : Waiting(x)' => Waiting(x) \/ x = p
      BY <1>0, <1>3, <2>0, <2>1, EnqueueProcQueues DEF Puts, QueueInv
    <2>3. QuotaRespected'
      BY <1>3 DEF Puts, EnqueueProc, QueueInv, QuotaRespected
    <2> QED
      BY <1>0, <1>3, <2>0, <2>1, <2>2, <2>3 DEF Puts, Holds, QueueInv, HeldInv
  <1>4. ASSUME NEW c \in CPUs, Frees(c) PROVE QueueInv'
    <2>0. PICK p \in Procs : p = HeldBy(c)
      BY <1>4 DEF Frees
    <2>1. /\ ~Waiting(p) /\ p \notin Unborn
          /\ \A d \in CPUs \ {c} : HeldBy(d) # p
      BY <1>0, <2>0 DEF QueueInv, HeldInv
    <2>2. QueuesSound' /\ QuotaRespected' /\ \A x : Waiting(x)' <=> Waiting(x)
      BY <1>4 DEF Frees, mlqVars, QueueInv, QueuesSound, QuotaRespected, Waiting
    <2> QED
      BY <1>0, <1>4, <2>0, <2>1, <2>2 DEF Frees, Holds, QueueInv, HeldInv
  <1>5. CASE Elsewhere
    <2>1. QueuesSound' /\ QuotaRespected' /\ \A x : Waiting(x)' <=> Waiting(x)
      BY <1>5 DEF Elsewhere, mlqVars, QueueInv, QueuesSound, QuotaRespected, Waiting
    <2> QED
      BY <1>5, <2>1 DEF Elsewhere, QueueInv, HeldInv
  <1> QED
    BY <1>1, <1>2, <1>3, <1>4, <1>5 DEF SchedulerCall

LEMMA QueueInit == Init => QueueInv
  <1> SUFFICES ASSUME Init PROVE QueueInv
    OBVIOUS
  <1>1. QueuesSound /\ QuotaRespected /\ \A x : ~Waiting(x)
    BY InitScheduler DEF Init
  <1>2. NULL \notin Unborn
    BY MachineInit, HeldType DEF MachineInv
  <1>3. freed = {} /\ \A c \in CPUs : HeldBy(c) = NULL
    BY DEF Init, HeldBy
  <1> QED
    BY <1>1, <1>2, <1>3 DEF QueueInv, HeldInv

LEMMA QueueInvariant == Spec => []QueueInv
  <1>1. MachineInv /\ QueueInv /\ [Next]_vars => QueueInv'
    BY SchedulerView, QueueStep
  <1> QED
    BY <1>1, QueueInit, MachineInvariant, PTL DEF Spec

\* What is proved of MLQScheduler holds of the machine: a CPU never runs a
\* process that is freed, waits in the ready queue or is held by another CPU
\* (os.c:53-98: the local proc outlives put_proc and free).
THEOREM MachineOnePlaceCorrect == Spec => []Scheduler!OnePlace
  <1>1. QueueInv => Scheduler!OnePlace
    BY DEF QueueInv, HeldInv, Unborn, Waiting, Levels, Scheduler!OnePlace, Scheduler!HeldOnce,
           Scheduler!Waiting, Scheduler!Levels
  <1> QED
    BY <1>1, QueueInvariant, PTL

-----------------------------------------------------------------------------
(* One instruction per slot                                                *)

\* CPU d has run p in the slot that passes, or is about to have run it.
HasRun(d, p) ==
    /\ HeldBy(d) = p
    /\ \/ at[d] \in {"run", "alloc"}
       \/ at[d] = "top" /\ phase[d] = "waiting" /\ d \notin behind

\* A process that has run stays with its CPU until the clock has ticked.
RanInv == \A p \in ran : \E d \in CPUs : HasRun(d, p)

LEMMA RanStep == MachineInv /\ RanInv /\ [Next]_vars => RanInv'
  <1> SUFFICES ASSUME MachineInv, RanInv, [Next]_vars PROVE RanInv'
    OBVIOUS
  <1> USE ConstantTypes
      DEF HasRun, HeldBy, Active, Goto, Arrive, Detach, LoaderActive,
          mlqVars, barrierVars, cpuVars, pcbVars, history
  <1>0. /\ at \in [CPUs -> {"top", "freed", "put", "recheck", "run", "alloc", "stopped"}]
        /\ phase \in [Devices -> {"working", "waiting", "gone"}]
        /\ proc \in [CPUs -> Procs \cup {NULL}]
        /\ \A d \in behind : phase[d] = "waiting"
    BY DEF MachineInv, TypeOK, BarrierTypeOK, PhaseInv
  <1>a. ASSUME ran' = ran, \A d \in CPUs : \A p \in ran : HasRun(d, p) => HasRun(d, p)'
        PROVE  RanInv'
    BY <1>a DEF RanInv
  <1>1. ASSUME NEW c \in CPUs, FirstLoad(c) PROVE RanInv'
    BY <1>1, <1>0, <1>a DEF FirstLoad
  <1>2. ASSUME NEW c \in CPUs, FreeFinished(c) PROVE RanInv'
    BY <1>2, <1>0, <1>a DEF FreeFinished
  <1>3. ASSUME NEW c \in CPUs, PutBack(c) PROVE RanInv'
    BY <1>3, <1>0, <1>a DEF PutBack
  <1>4. ASSUME NEW c \in CPUs, LoadNext(c) PROVE RanInv'
    BY <1>4, <1>0, <1>a DEF LoadNext
  <1>5. ASSUME NEW c \in CPUs, Stop(c) PROVE RanInv'
    BY <1>5, <1>0, <1>a DEF Stop
  <1>6. ASSUME NEW c \in CPUs, SkipSlot(c) PROVE RanInv'
    BY <1>6, <1>0, <1>a DEF SkipSlot
  <1>7. ASSUME NEW c \in CPUs, BeginInstruction(c) PROVE RanInv'
    <2>1. HasRun(c, proc[c])'
      BY <1>7, <1>0 DEF BeginInstruction
    <2>2. \A d \in CPUs : \A p \in ran : HasRun(d, p) => HasRun(d, p)'
      BY <1>7, <1>0 DEF BeginInstruction
    <2>3. ran' = ran \cup {proc[c]} /\ proc' = proc
      BY <1>7 DEF BeginInstruction
    <2> QED
      BY <2>1, <2>2, <2>3 DEF RanInv
  <1>8. ASSUME NEW c \in CPUs, EnterAlloc(c) PROVE RanInv'
    BY <1>8, <1>0, <1>a DEF EnterAlloc
  <1>9. ASSUME NEW c \in CPUs, EndInstruction(c) PROVE RanInv'
    BY <1>9, <1>0, <1>a DEF EndInstruction
  <1>10. CASE AwaitStart
    BY <1>10, <1>0, <1>a DEF AwaitStart
  <1>11. CASE LoadProcess
    BY <1>11, <1>0, <1>a DEF LoadProcess
  <1>12. CASE LoaderDone
    BY <1>12, <1>0, <1>a DEF LoaderDone
  <1>13. CASE TimerTick
    BY <1>13 DEF TimerTick, RanInv
  <1>14. ASSUME NEW d \in Devices, TimerRelease(d) PROVE RanInv'
    BY <1>14, <1>0, <1>a DEF TimerRelease, Release
  <1>15. CASE UNCHANGED vars
    BY <1>15, <1>0, <1>a DEF vars
  <1> QED
    BY <1>1, <1>2, <1>3, <1>4, <1>5, <1>6, <1>7, <1>8,
       <1>9, <1>10, <1>11, <1>12, <1>13, <1>14, <1>15
    DEF Next, CPUStep, LoaderStep, Terminated

\* No process runs twice in a time slot, although a CPU puts it back and
\* another gets it within the slot (os.c:74-75): the clock has ticked since
\* it last ran.  Hence no two CPUs execute a process at once.
THEOREM OneInstructionPerSlotCorrect == Spec => OneInstructionPerSlot
  <1>1. Init => RanInv
    BY DEF Init, RanInv
  <1>2. ASSUME MachineInv, QueueInv, RanInv, NEW c \in CPUs, BeginInstruction(c), proc[c] \in ran
        PROVE  FALSE
    <2>1. PICK d \in CPUs : HasRun(d, proc[c])
      BY <1>2 DEF RanInv
    <2>2. phase[c] = "working" /\ at[c] \in {"recheck", "top"} /\ HeldBy(c) = proc[c] /\ proc[c] # NULL
      BY <1>2 DEF BeginInstruction, Active, HeldBy
    <2>3. c = d
      BY <1>2, <2>1, <2>2 DEF HasRun, QueueInv, HeldInv
    <2> QED
      BY <2>1, <2>2, <2>3 DEF HasRun
  <1>3. MachineInv /\ QueueInv /\ RanInv /\ [Next]_vars =>
          [\A c \in CPUs : BeginInstruction(c) => proc[c] \notin ran]_vars
    BY <1>2
  <1> QED
    BY <1>1, <1>3, RanStep, MachineInvariant, QueueInvariant, PTL
    DEF Spec, OneInstructionPerSlot

-----------------------------------------------------------------------------
(* What is left behind when all CPUs have stopped                          *)

\* The loader will add no process before the slot ends.
LoaderQuiet == i > Len(Order) /\ (phase[loader] = "waiting" => loader \in behind)

\* No CPU has a process, or will have one before it asks again.
CPUsQuiet == \A c \in CPUs : at[c] = "stopped" \/ (at[c] = "recheck" /\ proc[c] = NULL)

SharedLevel == \A p : Waiting(p) => prio[p] = current_prio

\* While nobody can add to the ready queue, it looks as the last get_proc,
\* which returned NULL, has left it.
LevelInv == LoaderQuiet /\ CPUsQuiet => SharedLevel

LEMMA LevelStep ==
    ASSUME CPUs # {}
    PROVE  MachineInv /\ QueueInv /\ LevelInv /\ [Next]_vars => LevelInv'
  <1> SUFFICES ASSUME MachineInv, QueueInv, LevelInv, [Next]_vars, LoaderQuiet', CPUsQuiet'
               PROVE  SharedLevel'
    BY DEF LevelInv
  <1> USE ConstantTypes
      DEF LoaderQuiet, CPUsQuiet, Active, Goto, Arrive, Detach, LoaderActive,
          mlqVars, barrierVars, cpuVars, pcbVars, history
  <1>0. /\ at \in [CPUs -> {"top", "freed", "put", "recheck", "run", "alloc", "stopped"}]
        /\ phase \in [Devices -> {"working", "waiting", "gone"}]
        /\ proc \in [CPUs -> Procs \cup {NULL}]
        /\ i \in Nat
        /\ MLQTypeOK
    BY DEF MachineInv, TypeOK, BarrierTypeOK
  <1>a. ASSUME LoaderQuiet, CPUsQuiet, UNCHANGED mlqVars PROVE SharedLevel'
    BY <1>a DEF LevelInv, SharedLevel, Waiting
  <1>1. ASSUME NEW c \in CPUs, FirstLoad(c) PROVE SharedLevel'
    BY <1>1, <1>0, <1>a DEF FirstLoad
  <1>2. ASSUME NEW c \in CPUs, FreeFinished(c) PROVE SharedLevel'
    BY <1>2, <1>0, <1>a DEF FreeFinished
  <1>3. ASSUME NEW c \in CPUs, PutBack(c) PROVE SharedLevel'
    BY <1>3, <1>0, <1>a DEF PutBack
  <1>4. ASSUME NEW c \in CPUs, LoadNext(c) PROVE SharedLevel'
    <2>1. get_mlq_proc(NULL)
      BY <1>4, <1>0 DEF LoadNext
    <2>2. ASSUME NEW l \in Levels, TakeFrom(l, NULL) PROVE FALSE
      BY <1>0, <2>2, TakeFromType, MLQAssumption
    <2>3. GetNone(NULL)
      BY <2>1, <2>2 DEF get_mlq_proc
    <2>4. SharedLevel
      BY <1>0, <2>3, NoneFound DEF QueueInv, SharedLevel
    <2> QED
      BY <2>3, <2>4 DEF GetNone, SharedLevel, Waiting
  <1>5. ASSUME NEW c \in CPUs, Stop(c) PROVE SharedLevel'
    BY <1>5, <1>0, <1>a DEF Stop, NoMoreProcesses
  <1>6. ASSUME NEW c \in CPUs, SkipSlot(c) PROVE SharedLevel'
    BY <1>6, <1>0, <1>a DEF SkipSlot
  <1>7. ASSUME NEW c \in CPUs, BeginInstruction(c) PROVE SharedLevel'
    BY <1>7, <1>0, <1>a DEF BeginInstruction
  <1>8. ASSUME NEW c \in CPUs, EnterAlloc(c) PROVE SharedLevel'
    BY <1>8, <1>0, <1>a DEF EnterAlloc
  <1>9. ASSUME NEW c \in CPUs, EndInstruction(c) PROVE SharedLevel'
    BY <1>9, <1>0, <1>a DEF EndInstruction
  <1>10. CASE AwaitStart
    BY <1>10, <1>0, <1>a DEF AwaitStart
  <1>11. CASE LoadProcess
    BY <1>11, <1>0 DEF LoadProcess, MachineInv, PhaseInv
  <1>12. CASE LoaderDone
    BY <1>12, <1>0, <1>a DEF LoaderDone
  <1>13. CASE TimerTick
    <2>1. \A c \in CPUs : at[c] = "stopped"
      BY <1>13, <1>0 DEF TimerTick, Tick, MachineInv, PhaseInv
    <2>2. phase[loader] = "gone" /\ i > Len(Order)
      BY <2>1 DEF MachineInv, PhaseInv
    <2> QED
      BY <1>13, <1>a, <2>1, <2>2 DEF TimerTick
  <1>14. ASSUME NEW d \in Devices, TimerRelease(d) PROVE SharedLevel'
    BY <1>14, <1>0, <1>a DEF TimerRelease, Release, MachineInv, PhaseInv
  <1>15. CASE UNCHANGED vars
    BY <1>15, <1>0, <1>a DEF vars
  <1> QED
    BY <1>1, <1>2, <1>3, <1>4, <1>5, <1>6, <1>7, <1>8,
       <1>9, <1>10, <1>11, <1>12, <1>13, <1>14, <1>15
    DEF Next, CPUStep, LoaderStep, Terminated

\* The processes that a machine leaves behind, all its CPUs stopped, wait at
\* the one level whose quota was spent when get_proc returned NULL to the
\* last CPU (os.c:79-82).  A machine without a CPU leaves everything behind.
THEOREM AbandonedShareLevelCorrect ==
    ASSUME CPUs # {}
    PROVE  Spec => []AbandonedShareLevel
  <1>1. Init => LevelInv
    BY DEF Init, LevelInv, CPUsQuiet
  <1>2. MachineInv /\ LevelInv => AbandonedShareLevel
    <2> SUFFICES ASSUME MachineInv, LevelInv, \A c \in CPUs : at[c] = "stopped"
                 PROVE  SharedLevel
      BY DEF AbandonedShareLevel, SharedLevel
    <2>1. phase[loader] = "gone" /\ i > Len(Order)
      BY DEF MachineInv, PhaseInv
    <2>2. LoaderQuiet
      BY <2>1 DEF LoaderQuiet
    <2>3. CPUsQuiet
      BY DEF CPUsQuiet
    <2> QED
      BY <2>2, <2>3 DEF LevelInv
  <1> QED
    BY <1>1, <1>2, LevelStep, MachineInvariant, QueueInvariant, PTL DEF Spec
=============================================================================
