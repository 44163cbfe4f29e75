---------------------------- MODULE MLQScheduler ----------------------------
(***************************************************************************)
(* The ready queue used by concurrent CPU threads and the loader.  The     *)
(* callers are reduced to the protocol cpu_routine and ld_routine follow   *)
(* (src/os.c): the loader adds each process once; a CPU that holds no      *)
(* process asks for one, and one that holds a process either puts it back  *)
(* or frees it when it has finished.  A put and the get after it are two   *)
(* critical sections, so calls of other threads come in between.           *)
(* Simulator replaces these callers by the threads themselves.             *)
(***************************************************************************)
EXTENDS MLQ, FiniteSets

CONSTANT CPUs

VARIABLES unborn,    \* processes the loader has not added yet
          running,   \* running[c]: the process CPU c holds, or NULL
          finished   \* processes that ran to completion and were freed

schedVars == <<mlqVars, unborn, running, finished>>

SchedTypeOK ==
    /\ MLQTypeOK
    /\ unborn \subseteq Procs
    /\ running \in [CPUs -> Procs \cup {NULL}]
    /\ finished \subseteq Procs

SchedInit ==
    /\ init_scheduler
    /\ unborn = Procs
    /\ running = [c \in CPUs |-> NULL]
    /\ finished = {}

\* ld_routine: add_proc.
Add(p) ==
    /\ p \in unborn
    /\ add_proc(p)
    /\ unborn' = unborn \ {p}
    /\ UNCHANGED <<running, finished>>

\* cpu_routine: proc = get_proc(), with a process or NULL as the result.
Get(c) ==
    /\ running[c] = NULL
    /\ \E p \in Procs \cup {NULL} :
        /\ get_mlq_proc(p)
        /\ running' = [running EXCEPT ![c] = p]
    /\ UNCHANGED <<unborn, finished>>

\* cpu_routine: put_proc(proc) at the end of a time slice.  Variant: the CPU
\* goes on with the process it has put back.
PutKeeps(c) ==
    /\ running[c] # NULL
    /\ put_proc(running[c])
    /\ UNCHANGED <<unborn, running, finished>>

Put(c) ==
    /\ running[c] # NULL
    /\ put_proc(running[c])
    /\ running' = [running EXCEPT ![c] = NULL]
    /\ UNCHANGED <<unborn, finished>>

\* cpu_routine: free(proc) of a process that has run its last instruction.
Finish(c) ==
    /\ running[c] # NULL
    /\ finished' = finished \cup {running[c]}
    /\ running' = [running EXCEPT ![c] = NULL]
    /\ UNCHANGED <<mlqVars, unborn>>

CPUStep(c) == Get(c) \/ Put(c) \/ Finish(c)

SchedNext ==
    \/ \E p \in Procs : Add(p)
    \/ \E c \in CPUs : CPUStep(c)

SchedSpec == SchedInit /\ [][SchedNext]_schedVars

-----------------------------------------------------------------------------
(* Safety                                                                  *)

\* No two CPUs hold the same process.
HeldOnce ==
    \A c, d \in CPUs : running[c] # NULL /\ running[c] = running[d] => c = d

\* A process is in one place at a time: not yet added, waiting, held by a
\* CPU or freed.  In particular get_proc never hands out a freed process or
\* one that a CPU still runs.
OnePlace ==
    /\ HeldOnce
    /\ unborn \cap finished = {}
    /\ \A p \in unborn \cup finished : ~Waiting(p)
    /\ \A c \in CPUs : /\ running[c] \notin unborn \cup finished
                       /\ ~Waiting(running[c])

\* No level is asked to hold more processes than one queue can: what an
\* input has to respect for enqueue not to drop any.
CapacitySuffices ==
    \A l \in Levels : Cardinality({p \in Procs : prio[p] = l}) <= MAX_QUEUE_SIZE

Held(p) == \E c \in CPUs : running[c] = p

\* Every process the loader added is waiting, held or finished: enqueue has
\* dropped none (queue.c:17-20).  Holds under CapacitySuffices.
NothingLost ==
    \A p \in Procs : p \in unborn \/ p \in finished \/ Held(p) \/ Waiting(p)

-----------------------------------------------------------------------------
(* Action property                                                         *)

\* get_mlq_proc returns NULL while processes wait only when they all wait
\* at one level that has used up its quota; the next call then serves it.
NullOnlyOnSpentQuota ==
    [][\A c \in CPUs :
         Get(c) /\ running'[c] = NULL /\ (\E p \in Procs : Waiting(p))
           => /\ \A p \in Procs : Waiting(p) => prio[p] = current_prio
              /\ curr_slot = slot[current_prio]
              /\ (HasTurn(current_prio))']_schedVars

=============================================================================
