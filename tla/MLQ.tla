-------------------------------- MODULE MLQ --------------------------------
(***************************************************************************)
(* The multi-level ready queue of src/sched.c, built on the bounded array  *)
(* queues of src/queue.c.  The static variables of sched.c are the         *)
(* variables of this module; every function of it holds queue_lock for its *)
(* whole body, so each one is a single step here.  MLQLocked shows         *)
(* that the loop of get_mlq_proc, taken iteration by iteration with the    *)
(* lock explicit, implements these steps.                                  *)
(*                                                                         *)
(* Priorities run from 0 (highest) to MAX_PRIO - 1.                        *)
(***************************************************************************)
EXTENDS Integers, Sequences

CONSTANTS Procs,            \* the process control blocks
          MAX_PRIO,         \* number of priority levels
          MAX_QUEUE_SIZE,   \* capacity of one struct queue_t
          prio,             \* proc->prio, fixed when the loader creates proc
          NULL              \* no process

Levels == 0 .. (MAX_PRIO - 1)

\* read_config stores the priority unchecked (os.c:189); the code indexes
\* mlq_ready_queue with it, so that prio \in Levels is a precondition.
ASSUME MLQAssumption ==
    /\ MAX_PRIO \in Nat \ {0}
    /\ MAX_QUEUE_SIZE \in Nat \ {0}
    /\ prio \in [Procs -> Levels]
    /\ NULL \notin Procs

VARIABLES mlq_ready_queue,  \* per level, the waiting processes, oldest first
          current_prio,     \* the level served last
          curr_slot         \* how many processes it has handed out in a row

mlqVars == <<mlq_ready_queue, current_prio, curr_slot>>

\* init_scheduler: slot[i] = MAX_PRIO - i.
slot == [l \in Levels |-> MAX_PRIO - l]

MLQTypeOK ==
    /\ mlq_ready_queue \in [Levels -> Seq(Procs)]
    /\ current_prio \in Levels
    /\ curr_slot \in Nat

init_scheduler ==
    /\ mlq_ready_queue = [l \in Levels |-> <<>>]
    /\ current_prio = 0
    /\ curr_slot = 0

-----------------------------------------------------------------------------
(* queue.c                                                                 *)

empty(q) == q = <<>>

\* Variant: the bound is off by one.
enqueueOffByOne(q, proc) == IF Len(q) >= MAX_QUEUE_SIZE - 1 THEN q ELSE Append(q, proc)

\* A full queue ignores the process, silently.
enqueue(q, proc) == IF Len(q) >= MAX_QUEUE_SIZE THEN q ELSE Append(q, proc)

-----------------------------------------------------------------------------
(* sched.c                                                                 *)

\* The test of the scan loop: level l has a process and quota left.  The
\* scan zeroes curr_slot when it leaves a level, so only the level it
\* starts from can be out of quota.
\* Variants: one process more than the quota; curr_slot is not zeroed.
HasTurnOffByOne(l) ==
    /\ ~empty(mlq_ready_queue[l])
    /\ l = current_prio => curr_slot <= slot[l]

HasTurnNoReset(l) == ~empty(mlq_ready_queue[l]) /\ curr_slot < slot[l]

HasTurn(l) ==
    /\ ~empty(mlq_ready_queue[l])
    /\ l = current_prio => curr_slot < slot[l]

\* Number of levels the scan passes before it looks at level l.  Variant: a
\* scan that always starts at level 0.
DistanceFromTop(l) == l

Distance(l) == (l - current_prio) % MAX_PRIO

\* The first level the scan finds with a process and quota left.
Serve(l) ==
    /\ HasTurn(l)
    /\ \A k \in Levels : HasTurn(k) => Distance(l) <= Distance(k)

\* curr_slot after the scan takes a process from level l.
SlotAfter(l) == IF l = current_prio THEN curr_slot + 1 ELSE 1

\* The scan ends at level l and dequeues its oldest process.  Variant: the
\* level is advanced without the modulo.
TakeAndAdvance(l, proc) ==
    /\ Serve(l)
    /\ proc = Head(mlq_ready_queue[l])
    /\ mlq_ready_queue' = [mlq_ready_queue EXCEPT ![l] = Tail(@)]
    /\ current_prio' = l + 1
    /\ curr_slot' = SlotAfter(l)

TakeFrom(l, proc) ==
    /\ Serve(l)
    /\ proc = Head(mlq_ready_queue[l])
    /\ mlq_ready_queue' = [mlq_ready_queue EXCEPT ![l] = Tail(@)]
    /\ current_prio' = l
    /\ curr_slot' = SlotAfter(l)

\* Nothing found: the scan is back where it started, with a fresh quota.
\* Variant: curr_slot is left as it was.
GetNoneKeepsQuota(proc) ==
    /\ proc = NULL
    /\ \A l \in Levels : ~HasTurn(l)
    /\ UNCHANGED mlqVars

GetNone(proc) ==
    /\ proc = NULL
    /\ \A l \in Levels : ~HasTurn(l)
    /\ curr_slot' = 0
    /\ UNCHANGED <<mlq_ready_queue, current_prio>>

\* get_mlq_proc and its wrapper get_proc: proc is the value returned.
get_mlq_proc(proc) ==
    \/ \E l \in Levels : TakeFrom(l, proc)
    \/ GetNone(proc)

\* put_mlq_proc and add_mlq_proc have the same body, as have their wrappers
\* put_proc and add_proc (the three queue pointers those store are not used
\* by the scheduler).
\* Variant: every process goes to the level being served.
EnqueueAtCurrent(proc) ==
    /\ mlq_ready_queue' = [mlq_ready_queue EXCEPT ![current_prio] = enqueue(@, proc)]
    /\ UNCHANGED <<current_prio, curr_slot>>

EnqueueProc(proc) ==
    /\ mlq_ready_queue' = [mlq_ready_queue EXCEPT ![prio[proc]] = enqueue(@, proc)]
    /\ UNCHANGED <<current_prio, curr_slot>>

put_proc(proc) == EnqueueProc(proc)
add_proc(proc) == EnqueueProc(proc)

\* The processes waiting in the ready queue.
Waiting(p) == \E l \in Levels : \E i \in 1 .. Len(mlq_ready_queue[l]) :
                  mlq_ready_queue[l][i] = p
-----------------------------------------------------------------------------
(* Safety                                                                  *)

\* Every level lists a process at most once, and only processes of that
\* priority (mlq_ready_queue is indexed with proc->prio, sched.c:89, 96).
QueuesSound ==
    \A l \in Levels : \A i, j \in 1 .. Len(mlq_ready_queue[l]) :
        /\ prio[mlq_ready_queue[l][i]] = l
        /\ mlq_ready_queue[l][i] = mlq_ready_queue[l][j] => i = j

\* sched.c keeps the range its comment gives for curr_slot (l.55): the level
\* served never hands out more than its quota.
QuotaRespected == curr_slot <= slot[current_prio]
=============================================================================
