---------------------------- MODULE MLQFairness ----------------------------
(***************************************************************************)
(* Who waits how long.  MLQScheduler's calls are made here in the order of *)
(* cpu_routine's loop, with the test of done that ends it (src/os.c:53-98):*)
(* a CPU asks once more after every process it gives back, and stops when  *)
(* that get_proc returned NULL and the loader is done.  A history variable *)
(* counts, per level, the processes get_mlq_proc has taken from other      *)
(* levels since the level was last served or became non-empty.             *)
(***************************************************************************)
EXTENDS MLQScheduler

VARIABLES overtaken,
          at,    \* at[c]: what CPU c does next, see CPUPlaces
          done   \* set by the loader after the last process

loopVars == <<at, done>>

fairVars == <<schedVars, overtaken, loopVars>>

CPUPlaces == {"top",      \* the head of the loop (os.c:53)
              "next",     \* asks for another process (os.c:68, 75)
              "recheck",  \* got none: looks at done (os.c:79)
              "stopped"}  \* has left the loop (os.c:82)

TookFrom(l) == Len(mlq_ready_queue'[l]) < Len(mlq_ready_queue[l])

OvertakenAfter(l) ==
    IF empty(mlq_ready_queue[l]) \/ TookFrom(l)
    THEN 0
    ELSE IF \E k \in Levels \ {l} : TookFrom(k)
         THEN overtaken[l] + 1
         ELSE overtaken[l]

FairInit ==
    /\ SchedInit
    /\ overtaken = [l \in Levels |-> 0]
    /\ at = [c \in CPUs |-> "top"]
    /\ done = FALSE

Goto(c, place) == at' = [at EXCEPT ![c] = place] /\ UNCHANGED done

\* A CPU without a process asks for one at the head of the loop.  If there
\* is none it skips the slot and comes back, without a look at done.
FirstLoad(c) ==
    /\ at[c] = "top"
    /\ Get(c)
    /\ UNCHANGED loopVars

\* The process has finished or its slice is over.
GiveBack(c) ==
    /\ at[c] = "top"
    /\ Put(c) \/ Finish(c)
    /\ Goto(c, "next")

\* The get_proc that follows; a process found is run for a slice.
LoadNext(c) ==
    /\ at[c] = "next"
    /\ Get(c)
    /\ Goto(c, IF running'[c] = NULL THEN "recheck" ELSE "top")

Recheck(c) ==
    /\ at[c] = "recheck"
    /\ Goto(c, IF done THEN "stopped" ELSE "top")
    /\ UNCHANGED schedVars

CPUThread(c) == FirstLoad(c) \/ GiveBack(c) \/ LoadNext(c) \/ Recheck(c)

LoadProc(p) == Add(p) /\ UNCHANGED loopVars

LoaderDone ==
    /\ unborn = {}
    /\ ~done
    /\ done' = TRUE
    /\ UNCHANGED <<schedVars, at>>

CountOvertaking == overtaken' = [l \in Levels |-> OvertakenAfter(l)]

FairNext ==
    /\ \/ \E c \in CPUs : CPUThread(c)
       \/ \E p \in Procs : LoadProc(p)
       \/ LoaderDone
    /\ CountOvertaking

\* A CPU thread that has not stopped goes on: queue_lock is held for bounded
\* work only, run returns and so does next_slot (Timer's NextSlotReturns).
\* Nothing is assumed of the loader, nor of a CPU that has stopped.
OvertakingSpec ==
    FairInit /\ [][FairNext]_fairVars
             /\ \A c \in CPUs : WF_fairVars(CPUThread(c) /\ CountOvertaking)

\* The quota a level competes against: one full turn of every other level.
\* All quotas together are 1 + 2 + ... + MAX_PRIO.
OtherSlots(l) == (MAX_PRIO * (MAX_PRIO + 1)) \div 2 - slot[l]

\* While level l waits, every other level takes at most one turn of its
\* quota (sched.c:40, 69): the waiting is bounded whatever the interleaving
\* of adds, puts and gets by several CPUs.
BoundedOvertaking == \A l \in Levels : overtaken[l] <= OtherSlots(l)

\* A waiting process is eventually handed to a CPU, whatever its priority
\* and however long the others keep coming back, unless every CPU has left
\* its loop (os.c:79-82): the quotas (sched.c:40, 69) keep the high levels
\* from starving the low ones, and a CPU that goes on is enough.
NoStarvation ==
    \A p \in Procs : Waiting(p) ~> (Held(p) \/ \A c \in CPUs : at[c] = "stopped")
=============================================================================
