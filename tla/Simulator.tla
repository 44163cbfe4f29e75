----------------------------- MODULE Simulator -----------------------------
(***************************************************************************)
(* The simulated machine of src/os.c: the CPU threads (cpu_routine) and    *)
(* the loader thread (ld_routine) on the ready queue (MLQ) and the slot    *)
(* barrier of the timer (SlotBarrier).                                     *)
(*                                                                         *)
(* The steps of a CPU are cut where it touches state that others share:    *)
(* each call of put_proc, get_proc and free, and the unlocked read of done.*)
(* What a thread does after its last access to shared state and before it  *)
(* waits in next_slot is part of the step.  An instruction begins with the *)
(* increment of proc->pc and ends before next_slot; in between, ALLOC      *)
(* waits for mmvm_lock, which all processes share.  What instructions do   *)
(* to memory is left to Memory.                                            *)
(***************************************************************************)
EXTENDS MLQ, SlotBarrier, FiniteSets

CONSTANTS CPUs, loader,
          Order,        \* ld_processes: the processes as the input lists them
          start_time,   \* when the loader adds each of them
          code,         \* proc->code->text: "alloc" or "other" instructions
          time_slot     \* the time slice, in instructions

\* time_slot is stored unchecked by read_config (os.c:149); with 0 or less,
\* time_left would not come back to 0.
ASSUME SimulatorAssumption ==
    /\ Devices = CPUs \cup {loader} /\ loader \notin CPUs
    /\ Order \in Seq(Procs)
    /\ \A p \in Procs : \E i \in 1 .. Len(Order) : Order[i] = p
    /\ \A i, j \in 1 .. Len(Order) : Order[i] = Order[j] => i = j
    /\ start_time \in [Procs -> 0 .. (TimeWrap - 1)]
    /\ code \in [Procs -> Seq({"alloc", "other"})]
    /\ NULL \notin CPUs
    /\ time_slot \in Nat \ {0}

VARIABLES at,          \* per CPU: "top", "freed", "put" (before get_proc),
                       \* "recheck", "run" and "alloc" (inside run), "stopped"
          proc,        \* per CPU: its local variable proc
          time_left,   \* per CPU: its local variable time_left
          done,        \* the loader has no more processes
          i,           \* ld_routine: index of the next process
          pcount,      \* proc->pc
          freed,       \* processes whose pcb has been freed
          mmvm_lock,   \* the CPU that holds it, or NULL
          ran,         \* history: processes run since the clock ticked
          burst        \* history, per CPU: instructions run in this time slice

cpuVars == <<at, proc, time_left>>
pcbVars == <<pcount, freed, mmvm_lock>>
history == <<ran, burst>>
vars == <<mlqVars, barrierVars, cpuVars, done, i, pcbVars, history>>

TypeOK ==
    /\ MLQTypeOK /\ BarrierTypeOK
    /\ at \in [CPUs -> {"top", "freed", "put", "recheck", "run", "alloc", "stopped"}]
    /\ proc \in [CPUs -> Procs \cup {NULL}]
    /\ time_left \in [CPUs -> 0 .. time_slot]
    /\ done \in BOOLEAN
    /\ i \in 1 .. (Len(Order) + 1)
    /\ pcount \in [Procs -> Nat]
    /\ mmvm_lock \in CPUs \cup {NULL}
    /\ freed \subseteq Procs /\ ran \subseteq Procs
    /\ burst \in [CPUs -> 0 .. time_slot]

Init ==
    /\ init_scheduler /\ BarrierInit
    /\ at = [c \in CPUs |-> "top"]
    /\ proc = [c \in CPUs |-> NULL]
    /\ time_left = [c \in CPUs |-> 0]
    /\ done = FALSE
    /\ i = 1
    /\ pcount = [p \in Procs |-> 0]
    /\ mmvm_lock = NULL
    /\ freed = {} /\ ran = {}
    /\ burst = [c \in CPUs |-> 0]

-----------------------------------------------------------------------------
(* cpu_routine                                                             *)

\* A CPU runs unless it waits in next_slot.
Active(c, l) == phase[c] = "working" /\ at[c] = l
Goto(c, l) == at' = [at EXCEPT ![c] = l]
Finished(p) == pcount[p] = Len(code[p])

\* proc == NULL: the first load.  If it fails, the slot is skipped and the
\* loop begins anew, without the test of done.
FirstLoad(c) ==
    /\ Active(c, "top") /\ proc[c] = NULL
    /\ \E p \in Procs \cup {NULL} :
        /\ get_mlq_proc(p)
        /\ proc' = [proc EXCEPT ![c] = p]
        /\ IF p = NULL
           THEN Arrive(c) /\ UNCHANGED at
           ELSE Goto(c, "recheck") /\ UNCHANGED barrierVars
    /\ UNCHANGED <<time_left, done, i, pcbVars, history>>

\* proc->pc == proc->code->size: free(proc).  The local proc dangles until
\* get_proc returns.
FreeFinished(c) ==
    /\ Active(c, "top") /\ proc[c] # NULL /\ Finished(proc[c])
    /\ freed' = freed \cup {proc[c]}
    /\ Goto(c, "freed")
    /\ UNCHANGED <<mlqVars, barrierVars, proc, time_left, done, i, pcount, mmvm_lock, history>>

\* time_left == 0: put_proc(proc).  The process is up for other CPUs, while
\* the local proc still points to it.
\* Variant: the CPU goes on with the process it has put back.
PutBackKeeps(c) ==
    /\ Active(c, "top") /\ proc[c] # NULL /\ ~Finished(proc[c])
    /\ time_left[c] = 0
    /\ put_proc(proc[c])
    /\ Goto(c, "recheck")
    /\ UNCHANGED <<barrierVars, proc, time_left, done, i, pcbVars, history>>

PutBack(c) ==
    /\ Active(c, "top") /\ proc[c] # NULL /\ ~Finished(proc[c])
    /\ time_left[c] = 0
    /\ put_proc(proc[c])
    /\ Goto(c, "put")
    /\ UNCHANGED <<barrierVars, proc, time_left, done, i, pcbVars, history>>

\* time_left after the get_proc that follows free(proc): os.c:69.  Variant:
\* the next process inherits the rest of the slice.
InheritedTime(c) == time_left[c]
FreshTime(c) == 0

\* proc = get_proc() after either of the two.
LoadNext(c) ==
    /\ Active(c, "freed") \/ Active(c, "put")
    /\ \E p \in Procs \cup {NULL} :
        /\ get_mlq_proc(p)
        /\ proc' = [proc EXCEPT ![c] = p]
    /\ time_left' = [time_left EXCEPT ![c] = IF at[c] = "freed" THEN FreshTime(c) ELSE @]
    /\ Goto(c, "recheck")
    /\ UNCHANGED <<barrierVars, done, i, pcbVars, history>>

\* No process and done: leave the loop and detach.  Variant: done, which no
\* lock protects, is read once and for all when the thread starts.
NeverMore(c) == FALSE
NoMoreProcesses(c) == proc[c] = NULL /\ done

Stop(c) ==
    /\ Active(c, "recheck") /\ NoMoreProcesses(c)
    /\ Detach(c)
    /\ Goto(c, "stopped")
    /\ UNCHANGED <<mlqVars, proc, time_left, done, i, pcbVars, history>>

\* No process yet: skip the slot.
SkipSlot(c) ==
    /\ Active(c, "recheck") /\ proc[c] = NULL /\ ~NoMoreProcesses(c)
    /\ Arrive(c)
    /\ Goto(c, "top")
    /\ UNCHANGED <<mlqVars, proc, time_left, done, i, pcbVars, history>>

\* run(proc): proc->pc afterwards.  It does nothing when no instruction is
\* left (a process of size 0).
run(p) == IF pcount[p] >= Len(code[p]) THEN pcount[p] ELSE pcount[p] + 1

\* Dispatch if the slice is new, and the begin of run(proc).
Slice(c) == IF time_left[c] = 0 THEN time_slot ELSE time_left[c]

BeginInstruction(c) ==
    /\ proc[c] # NULL
    /\ \/ Active(c, "recheck")
       \/ Active(c, "top") /\ ~Finished(proc[c]) /\ time_left[c] # 0
    /\ pcount' = [pcount EXCEPT ![proc[c]] = run(proc[c])]
    /\ time_left' = [time_left EXCEPT ![c] = Slice(c)]
    /\ ran' = ran \cup {proc[c]}
    /\ burst' = [burst EXCEPT ![c] = IF at[c] = "recheck" THEN 1 ELSE @ + 1]
    /\ Goto(c, "run")
    /\ UNCHANGED <<mlqVars, barrierVars, proc, done, i, freed, mmvm_lock>>

\* The instruction under way is the one before proc->pc.
Allocates(p) == pcount[p] \in DOMAIN code[p] /\ code[p][pcount[p]] = "alloc"

\* __alloc: pthread_mutex_lock(&mmvm_lock).
EnterAlloc(c) ==
    /\ Active(c, "run") /\ Allocates(proc[c])
    /\ mmvm_lock = NULL
    /\ mmvm_lock' = c
    /\ Goto(c, "alloc")
    /\ UNCHANGED <<mlqVars, barrierVars, proc, time_left, done, i, pcount, freed, history>>

\* The end of run(proc), where every return of __alloc gives the lock back,
\* time_left-- and next_slot.
EndInstruction(c) ==
    /\ \/ Active(c, "alloc") /\ mmvm_lock' = NULL
       \/ Active(c, "run") /\ ~Allocates(proc[c]) /\ UNCHANGED mmvm_lock
    /\ time_left' = [time_left EXCEPT ![c] = @ - 1]
    /\ Arrive(c)
    /\ Goto(c, "top")
    /\ UNCHANGED <<mlqVars, proc, done, i, pcount, freed, history>>

CPUStep(c) ==
    \/ FirstLoad(c) \/ FreeFinished(c) \/ PutBack(c) \/ LoadNext(c)
    \/ Stop(c) \/ SkipSlot(c)
    \/ BeginInstruction(c) \/ EnterAlloc(c) \/ EndInstruction(c)
-----------------------------------------------------------------------------
(* ld_routine                                                              *)

LoaderActive == phase[loader] = "working"

\* while (current_time() < start_time[i]) next_slot().
TooEarly(p) == time < start_time[p]

AwaitStart ==
    /\ LoaderActive /\ i <= Len(Order) /\ TooEarly(Order[i])
    /\ Arrive(loader)
    /\ UNCHANGED <<mlqVars, cpuVars, done, i, pcbVars, history>>

LoadProcess ==
    /\ LoaderActive /\ i <= Len(Order) /\ ~TooEarly(Order[i])
    /\ add_proc(Order[i])
    /\ i' = i + 1
    /\ Arrive(loader)
    /\ UNCHANGED <<cpuVars, done, pcbVars, history>>

\* done = 1 and detach_event.
LoaderDone ==
    /\ LoaderActive /\ i > Len(Order)
    /\ done' = TRUE
    /\ Detach(loader)
    /\ UNCHANGED <<mlqVars, cpuVars, i, pcbVars, history>>

LoaderStep == AwaitStart \/ LoadProcess \/ LoaderDone
-----------------------------------------------------------------------------
(* The timer, and the whole machine                                        *)

\* The timer thread ends when all devices are gone.
TimerTick ==
    /\ \E d \in Devices : phase[d] # "gone"
    /\ Tick
    /\ ran' = {}
    /\ UNCHANGED <<mlqVars, cpuVars, done, i, pcbVars, burst>>

TimerRelease(d) ==
    /\ Release(d)
    /\ UNCHANGED <<mlqVars, cpuVars, done, i, pcbVars, history>>

\* main has joined all threads and returns.
Terminated == (\A d \in Devices : phase[d] = "gone") /\ UNCHANGED vars

Next ==
    \/ \E c \in CPUs : CPUStep(c)
    \/ LoaderStep
    \/ TimerTick
    \/ \E d \in Devices : TimerRelease(d)
    \/ Terminated

Spec == Init /\ [][Next]_vars

\* Each thread keeps running when it is not blocked in next_slot; the timer
\* thread releases every device of its list in turn.
Fairness ==
    /\ \A c \in CPUs : WF_vars(CPUStep(c))
    /\ WF_vars(LoaderStep)
    /\ WF_vars(TimerTick)
    /\ \A d \in Devices : WF_vars(TimerRelease(d))

FairSpec == Spec /\ Fairness
-----------------------------------------------------------------------------
(* Safety                                                                  *)

\* What CPU c holds: between put_proc or free and the next get_proc its
\* local variable does not count.
HeldBy(c) == IF at[c] \in {"freed", "put"} THEN NULL ELSE proc[c]

\* The threads call the scheduler the way MLQScheduler assumes, so that what
\* is proved of it holds of the machine: a process is in one place at a time.
Scheduler == INSTANCE MLQScheduler WITH
    unborn   <- {Order[k] : k \in i .. Len(Order)},
    running  <- [c \in CPUs |-> HeldBy(c)],
    finished <- freed

UsesScheduler == Scheduler!SchedSpec

\* A process runs at most one instruction in a time slot, even when CPUs
\* hand it on within the slot (put_proc at os.c:74, get_proc at os.c:75), nor
\* do two CPUs execute the process at once: what Memory assumes of it (Idle).
OneInstructionPerSlot ==
    [][\A c \in CPUs : BeginInstruction(c) => proc[c] \notin ran]_vars

\* A process leaves its CPU after a whole time slice or when it has
\* finished, never before; a slice is never longer than time_slot.
WholeSlices ==
    \A c \in CPUs :
        HeldBy(c) # NULL /\ at[c] = "top" => burst[c] + time_left[c] = time_slot

\* os.c:80 "No process to run, exit": a CPU that stops leaves no process
\* behind in the ready queue once all CPUs have stopped.  The code does
\* not keep it (get_proc also returns NULL on a spent quota).
NoneAbandoned ==
    (\A c \in CPUs : at[c] = "stopped") => \A p \in Procs : ~Waiting(p)

\* What the code does keep: the processes left behind all have the priority
\* the last CPU was serving, because get_proc returned NULL on its quota.
AbandonedShareLevel ==
    (\A c \in CPUs : at[c] = "stopped") =>
        \A p \in Procs : Waiting(p) => prio[p] = current_prio
-----------------------------------------------------------------------------
(* Liveness                                                                *)

\* A process in the ready queue runs to its end, unless every CPU has
\* stopped: no interleaving of CPUs of different speed starves it.
QueuedFinishes ==
    \A p \in Procs : Waiting(p) ~> (p \in freed \/ \A c \in CPUs : at[c] = "stopped")

\* The clock never stops under a thread that waits for it, although CPUs
\* wait for each other inside __alloc: whoever waits in next_slot goes on.
ClockAdvances == \A d \in Devices : phase[d] = "waiting" ~> phase[d] = "working"

\* A CPU that has a process when the loader is done comes to its end.
BusyCPUStops == \A c \in CPUs : done /\ HeldBy(c) # NULL ~> at[c] = "stopped"

\* os.c:262 "Wait for CPU and loader finishing": every CPU thread ends.  The
\* code does not keep it (a CPU without a first process never tests done).
AllCPUsStop == <>(\A c \in CPUs : at[c] = "stopped")
=============================================================================
