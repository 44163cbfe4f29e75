----------------------------- MODULE MLQLocked -----------------------------
(***************************************************************************)
(* The ready queue with queue_lock explicit and the scan of get_mlq_proc   *)
(* (sched.c:57-84) taken one iteration at a time: while a thread scans,    *)
(* current_prio and curr_slot hold intermediate values, which the other    *)
(* threads must not see.  The callers are those of MLQScheduler, which     *)
(* this module implements: each call takes effect when it gives the lock   *)
(* back.                                                                   *)
(***************************************************************************)
EXTENDS MLQScheduler

CONSTANT loader   \* the loader thread

Threads == CPUs \cup {loader}

ASSUME LockedAssumption == loader \notin CPUs /\ NULL \notin Threads

VARIABLES queue_lock,   \* the thread that owns the mutex, or NULL
          call,         \* per thread: "none", or the call that holds the lock
          start_prio,   \* the local variable of the scan in progress
          startSlot,    \* history: curr_slot when that scan began
          adding        \* the process the loader is adding, or NULL

lockVars == <<queue_lock, call, start_prio, startSlot, adding>>
vars == <<schedVars, lockVars>>

TypeOK ==
    /\ SchedTypeOK
    /\ queue_lock \in Threads \cup {NULL}
    /\ call \in [Threads -> {"none", "get", "put", "add"}]
    /\ start_prio \in Levels
    /\ startSlot \in Nat
    /\ adding \in Procs \cup {NULL}

Init ==
    /\ SchedInit
    /\ queue_lock = NULL
    /\ call = [t \in Threads |-> "none"]
    /\ start_prio = 0
    /\ startSlot = 0
    /\ adding = NULL

-----------------------------------------------------------------------------

\* pthread_mutex_lock at the head of a call.  Variant: no lock is taken.
LockIgnored(t, f) ==
    /\ call[t] = "none"
    /\ queue_lock' = t
    /\ call' = [call EXCEPT ![t] = f]

Lock(t, f) ==
    /\ call[t] = "none"
    /\ queue_lock = NULL
    /\ queue_lock' = t
    /\ call' = [call EXCEPT ![t] = f]

Unlock(t) ==
    /\ queue_lock' = NULL
    /\ call' = [call EXCEPT ![t] = "none"]

GetBegin(c) ==
    /\ running[c] = NULL
    /\ Lock(c, "get")
    /\ start_prio' = current_prio
    /\ startSlot' = curr_slot
    /\ UNCHANGED <<schedVars, adding>>

\* The test of one iteration, with the level and count the scan has reached.
Found ==
    /\ curr_slot < slot[current_prio]
    /\ ~empty(mlq_ready_queue[current_prio])

GetHit(c) ==
    /\ call[c] = "get" /\ Found
    /\ running' = [running EXCEPT ![c] = Head(mlq_ready_queue[current_prio])]
    /\ mlq_ready_queue' = [mlq_ready_queue EXCEPT ![current_prio] = Tail(@)]
    /\ curr_slot' = curr_slot + 1
    /\ Unlock(c)
    /\ UNCHANGED <<current_prio, start_prio, startSlot, adding, unborn, finished>>

\* The iteration moves on; back at start_prio the loop ends and the call
\* returns NULL.
\* Variant: the last level is not left.
NextLevelUnwrapped == IF current_prio + 1 < MAX_PRIO THEN current_prio + 1 ELSE current_prio

NextLevel == (current_prio + 1) % MAX_PRIO

GetMiss(c) ==
    /\ call[c] = "get" /\ ~Found
    /\ curr_slot' = 0
    /\ current_prio' = NextLevel
    /\ IF NextLevel = start_prio
       THEN Unlock(c)
       ELSE UNCHANGED <<queue_lock, call>>
    /\ UNCHANGED <<mlq_ready_queue, start_prio, startSlot, adding,
                   unborn, running, finished>>

PutBegin(c) ==
    /\ running[c] # NULL
    /\ Lock(c, "put")
    /\ UNCHANGED <<schedVars, start_prio, startSlot, adding>>

PutEnd(c) ==
    /\ call[c] = "put"
    /\ EnqueueProc(running[c])
    /\ running' = [running EXCEPT ![c] = NULL]
    /\ Unlock(c)
    /\ UNCHANGED <<start_prio, startSlot, adding, unborn, finished>>

AddBegin(p) ==
    /\ p \in unborn
    /\ Lock(loader, "add")
    /\ adding' = p
    /\ UNCHANGED <<schedVars, start_prio, startSlot>>

AddEnd ==
    /\ call[loader] = "add"
    /\ EnqueueProc(adding)
    /\ unborn' = unborn \ {adding}
    /\ adding' = NULL
    /\ Unlock(loader)
    /\ UNCHANGED <<start_prio, startSlot, running, finished>>

\* Freeing a finished process takes no lock.
FinishOutside(c) == call[c] = "none" /\ Finish(c) /\ UNCHANGED lockVars

InsideLock == AddEnd \/ \E c \in CPUs : GetHit(c) \/ GetMiss(c) \/ PutEnd(c)

Next ==
    \/ InsideLock
    \/ \E c \in CPUs : GetBegin(c) \/ PutBegin(c) \/ FinishOutside(c)
    \/ \E p \in Procs : AddBegin(p)

\* A thread inside the critical section keeps running: it never blocks there.
Spec == Init /\ [][Next]_vars /\ WF_vars(InsideLock)

-----------------------------------------------------------------------------

Scanning == \E c \in CPUs : call[c] = "get"

Abstract == INSTANCE MLQScheduler WITH
    current_prio <- IF Scanning THEN start_prio ELSE current_prio,
    curr_slot    <- IF Scanning THEN startSlot ELSE curr_slot

\* The scan, read as one step at the moment it unlocks, is the step that
\* MLQScheduler takes: the first level after the current one, in cyclic
\* order, with a process and quota; a NULL result only if there is none; and
\* no other thread sees the intermediate current_prio and curr_slot.
ImplementsMLQScheduler == Abstract!SchedSpec

\* The do-while loop of get_mlq_proc (sched.c:66-80) ends, and with it every
\* critical section: the lock is always given back.
LockReleased == (queue_lock # NULL) ~> (queue_lock = NULL)

\* While a scan is on its way, the levels it has passed, from start_prio up
\* to current_prio, offer nothing it was allowed to take; this is what makes
\* NULL a truthful answer.
PassedLevelsOfferNothing ==
    Scanning =>
        \A l \in Levels :
            (l - start_prio) % MAX_PRIO < (current_prio - start_prio) % MAX_PRIO =>
                \/ empty(mlq_ready_queue[l])
                \/ l = start_prio /\ startSlot >= slot[l]

\* A call and the mutex go together, and a call has what it works on.
LockSound ==
    /\ \A t \in Threads : call[t] # "none" <=> queue_lock = t
    /\ \A c \in CPUs :
          /\ call[c] # "add"
          /\ call[c] = "get" => running[c] = NULL
          /\ call[c] = "put" => running[c] # NULL
    /\ call[loader] = "add" <=> adding # NULL
    /\ call[loader] \in {"none", "add"}
    /\ adding # NULL => adding \in unborn

\* The scan that is on its way has the count of its first level, or none.
ScanCount ==
    Scanning => curr_slot = IF current_prio = start_prio THEN startSlot ELSE 0

\* The invariant behind the refinement: one thread at a time is inside a
\* critical section, and its scan has passed nothing it could have taken.
LockedInv == TypeOK /\ LockSound /\ ScanCount /\ PassedLevelsOfferNothing
=============================================================================
