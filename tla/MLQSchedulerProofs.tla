------------------------- MODULE MLQSchedulerProofs -------------------------
(***************************************************************************)
(* Proofs about the ready queue, for every number of CPUs, processes,      *)
(* levels and every queue capacity: what MLQScheduler promises, how long   *)
(* MLQFairness lets a level be passed over, and that the scan of           *)
(* get_mlq_proc under queue_lock, one iteration at a time (MLQLocked), is  *)
(* one step of MLQScheduler.                                               *)
(***************************************************************************)
EXTENDS MLQFairness, MLQLocked, MLQProofs, FiniteSetTheorems

-----------------------------------------------------------------------------
(* Types                                                                   *)

LEMMA TypeInit == SchedInit => SchedTypeOK
  BY InitScheduler DEF SchedInit, SchedTypeOK

LEMMA TypeStep == SchedTypeOK /\ [SchedNext]_schedVars => SchedTypeOK'
  <1> SUFFICES ASSUME SchedTypeOK, [SchedNext]_schedVars PROVE SchedTypeOK'
    OBVIOUS
  <1>1. CASE \E p \in Procs : Add(p)
    <2> PICK p \in Procs : Add(p)
      BY <1>1
    <2>1. MLQTypeOK'
      BY EnqueueProcType DEF Add, add_proc, SchedTypeOK
    <2> QED
      BY <2>1 DEF Add, SchedTypeOK
  <1>2. CASE \E c \in CPUs : Get(c)
    <2> PICK c \in CPUs : Get(c)
      BY <1>2
    <2> PICK p \in Procs \cup {NULL} : /\ get_mlq_proc(p)
                                       /\ running' = [running EXCEPT ![c] = p]
      BY DEF Get
    <2>1. MLQTypeOK'
      BY GetType DEF SchedTypeOK
    <2> QED
      BY <2>1 DEF Get, SchedTypeOK
  <1>3. CASE \E c \in CPUs : Put(c)
    <2> PICK c \in CPUs : Put(c)
      BY <1>3
    <2>1. running[c] \in Procs
      BY DEF Put, SchedTypeOK
    <2>2. MLQTypeOK'
      BY <2>1, EnqueueProcType DEF Put, put_proc, SchedTypeOK
    <2> QED
      BY <2>2 DEF Put, SchedTypeOK
  <1>4. CASE \E c \in CPUs : Finish(c)
    BY <1>4 DEF Finish, SchedTypeOK, MLQTypeOK, mlqVars
  <1>5. CASE UNCHANGED schedVars
    BY <1>5 DEF schedVars, mlqVars, SchedTypeOK, MLQTypeOK
  <1> QED
    BY <1>1, <1>2, <1>3, <1>4, <1>5 DEF SchedNext, CPUStep

\* Every variable of the scheduler keeps its type, for any set of CPUs and
\* processes: init_scheduler, add_proc, get_proc and put_proc (sched.c).
THEOREM TypeCorrect == SchedSpec => []SchedTypeOK
  BY TypeInit, TypeStep, PTL DEF SchedSpec

-----------------------------------------------------------------------------
(* The quota                                                               *)

LEMMA QuotaStep ==
    SchedTypeOK /\ QuotaRespected /\ [SchedNext]_schedVars => QuotaRespected'
  <1> SUFFICES ASSUME SchedTypeOK, QuotaRespected, [SchedNext]_schedVars
               PROVE  QuotaRespected'
    OBVIOUS
  <1>1. CASE UNCHANGED <<current_prio, curr_slot>>
    BY <1>1 DEF QuotaRespected, slot
  <1>2. CASE \E c \in CPUs : Get(c)
    <2> PICK p : get_mlq_proc(p)
      BY <1>2 DEF Get
    <2> QED
      BY GetQuota DEF SchedTypeOK
  <1> QED
    BY <1>1, <1>2 DEF SchedNext, CPUStep, Add, add_proc, Put, put_proc, EnqueueProc,
                      Finish, schedVars, mlqVars

\* No level is served more often in a row than its quota MAX_PRIO - prio
\* (the range sched.c:55 gives for curr_slot), for any number of levels.
THEOREM QuotaCorrect == SchedSpec => []QuotaRespected
  <1>1. SchedInit => QuotaRespected
    BY InitScheduler DEF SchedInit
  <1> QED
    BY <1>1, QuotaStep, TypeCorrect, PTL DEF SchedSpec

-----------------------------------------------------------------------------
(* Every process is in one place                                           *)

\* The inductive invariant: OnePlace alone would not exclude a process that
\* sits twice in a queue, and would then leave it behind when it is served.
PlaceInv == SchedTypeOK /\ QueuesSound /\ OnePlace

LEMMA PlaceInit == SchedInit => PlaceInv
  <1> SUFFICES ASSUME SchedInit PROVE PlaceInv
    OBVIOUS
  <1>1. QueuesSound /\ \A x : ~Waiting(x)
    BY InitScheduler DEF SchedInit
  <1>2. OnePlace
    BY <1>1, MLQAssumption DEF SchedInit, OnePlace, HeldOnce
  <1> QED
    BY <1>1, <1>2, TypeInit DEF PlaceInv

LEMMA PlaceStep == PlaceInv /\ [SchedNext]_schedVars => PlaceInv'
  <1> SUFFICES ASSUME PlaceInv, [SchedNext]_schedVars PROVE PlaceInv'
    OBVIOUS
  <1> USE DEF PlaceInv
  <1>1. SchedTypeOK'
    BY TypeStep
  <1>2. ASSUME NEW p \in Procs, Add(p) PROVE QueuesSound' /\ OnePlace'
    <2>1. /\ p \in unborn /\ EnqueueProc(p) /\ unborn' = unborn \ {p}
          /\ UNCHANGED <<running, finished>>
      BY <1>2 DEF Add, add_proc
    <2>2. ~Waiting(p) /\ \A c \in CPUs : running[c] # p
      BY <2>1 DEF OnePlace
    <2>3. QueuesSound' /\ \A x : Waiting(x)' => Waiting(x) \/ x = p
      BY <2>1, <2>2, EnqueueProcQueues DEF SchedTypeOK
    <2>4. p \notin finished
      BY <2>1 DEF OnePlace
    <2> QED
      BY <2>1, <2>2, <2>3, <2>4 DEF OnePlace, HeldOnce
  <1>3. ASSUME NEW c \in CPUs, Get(c) PROVE QueuesSound' /\ OnePlace'
    <2>1. PICK p \in Procs \cup {NULL} :
              get_mlq_proc(p) /\ running' = [running EXCEPT ![c] = p]
      BY <1>3 DEF Get
    <2>2. /\ running[c] = NULL /\ UNCHANGED <<unborn, finished>>
          /\ running'[c] = p
          /\ \A d \in CPUs \ {c} : running'[d] = running[d]
      BY <1>3, <2>1 DEF Get, SchedTypeOK
    <2>3. CASE GetNone(p)
      <3>1. mlq_ready_queue' = mlq_ready_queue /\ p = NULL
        BY <2>3 DEF GetNone
      <3>2. running' = running
        BY <3>1, <2>1, <2>2 DEF SchedTypeOK
      <3> QED
        BY <3>1, <3>2, <2>2 DEF QueuesSound, OnePlace, HeldOnce, Waiting
    <2>4. ASSUME NEW l \in Levels, TakeFrom(l, p) PROVE QueuesSound' /\ OnePlace'
      <3>1. /\ QueuesSound' /\ Waiting(p) /\ ~Waiting(p)'
            /\ \A x : Waiting(x)' => Waiting(x)
        BY <2>4, TakeFromQueues DEF SchedTypeOK
      <3>2. p \notin unborn \cup finished /\ \A d \in CPUs : running[d] # p
        BY <3>1 DEF OnePlace
      <3> QED
        BY <3>1, <3>2, <2>2 DEF OnePlace, HeldOnce
    <2> QED
      BY <2>1, <2>3, <2>4 DEF get_mlq_proc
  <1>4. ASSUME NEW c \in CPUs, Put(c) PROVE QueuesSound' /\ OnePlace'
    <2> DEFINE p == running[c]
    <2>1. /\ p \in Procs /\ EnqueueProc(p) /\ UNCHANGED <<unborn, finished>>
          /\ running'[c] = NULL
          /\ \A d \in CPUs \ {c} : running'[d] = running[d]
      BY <1>4 DEF Put, put_proc, SchedTypeOK
    <2>2. ~Waiting(p) /\ p \notin unborn \cup finished
      BY DEF OnePlace
    <2>3. \A d \in CPUs \ {c} : running[d] # p
      BY <2>1, MLQAssumption DEF OnePlace, HeldOnce
    <2>4. QueuesSound' /\ \A x : Waiting(x)' => Waiting(x) \/ x = p
      BY <2>1, <2>2, EnqueueProcQueues DEF SchedTypeOK
    <2>5. NULL \notin unborn \cup finished /\ ~Waiting(NULL)'
      BY <2>1, <2>4, WaitingIsProc, MLQAssumption DEF SchedTypeOK
    <2> QED
      BY <2>1, <2>2, <2>3, <2>4, <2>5 DEF OnePlace, HeldOnce
  <1>5. ASSUME NEW c \in CPUs, Finish(c) PROVE QueuesSound' /\ OnePlace'
    <2> DEFINE p == running[c]
    <2>1. /\ p \in Procs /\ UNCHANGED mlq_ready_queue /\ unborn' = unborn
          /\ finished' = finished \cup {p}
          /\ running'[c] = NULL
          /\ \A d \in CPUs \ {c} : running'[d] = running[d]
      BY <1>5 DEF Finish, SchedTypeOK, mlqVars
    <2>2. ~Waiting(p) /\ p \notin unborn /\ \A d \in CPUs \ {c} : running[d] # p
      BY <2>1, MLQAssumption DEF OnePlace, HeldOnce
    <2>3. NULL \notin unborn' \cup finished' /\ ~Waiting(NULL)
      BY <2>1, WaitingIsProc, MLQAssumption DEF SchedTypeOK
    <2>4. QueuesSound' /\ \A x : Waiting(x)' <=> Waiting(x)
      BY <2>1 DEF QueuesSound, Waiting
    <2> QED
      BY <2>1, <2>2, <2>3, <2>4 DEF OnePlace, HeldOnce
  <1>6. CASE UNCHANGED schedVars
    BY <1>1, <1>6 DEF schedVars, mlqVars, QueuesSound, OnePlace, HeldOnce, Waiting
  <1> QED
    BY <1>1, <1>2, <1>3, <1>4, <1>5, <1>6 DEF SchedNext, CPUStep

LEMMA PlaceInvariant == SchedSpec => []PlaceInv
  BY PlaceInit, PlaceStep, PTL DEF SchedSpec

\* The queues list every process at most once, at the level of its priority,
\* however the calls of the threads interleave.
THEOREM QueuesSoundCorrect == SchedSpec => []QueuesSound
  <1>1. PlaceInv => QueuesSound
    BY DEF PlaceInv
  <1> QED
    BY <1>1, PlaceInvariant, PTL

\* get_proc hands out no process that another CPU holds, that still waits or
\* that has been freed, however the calls of the threads interleave.
THEOREM OnePlaceCorrect == SchedSpec => []OnePlace
  <1>1. PlaceInv => OnePlace
    BY DEF PlaceInv
  <1> QED
    BY <1>1, PlaceInvariant, PTL

-----------------------------------------------------------------------------
(* No process is lost                                                      *)

\* A process that is not waiting finds room in its level: the others of its
\* priority do not fill it.
LEMMA RoomForProc ==
    ASSUME MLQTypeOK, QueuesSound, NEW p \in Procs, ~Waiting(p),
           IsFiniteSet(Procs), CapacitySuffices
    PROVE  Len(mlq_ready_queue[prio[p]]) < MAX_QUEUE_SIZE
  <1> DEFINE l == prio[p]
             q == mlq_ready_queue[l]
             S == {x \in Procs : prio[x] = l}
             n == Len(q)
  <1>1. l \in Levels /\ q \in Seq(Procs) /\ n \in Nat
    BY MLQAssumption, LenProperties DEF MLQTypeOK
  <1>2. IsFiniteSet(S) /\ p \in S
    BY FS_Subset
  <1>3. /\ IsFiniteSet(S \ {p}) /\ Cardinality(S) \in Nat
        /\ Cardinality(S \ {p}) = Cardinality(S) - 1
    BY <1>2, FS_RemoveElement, FS_CardinalityType
  <1>4. [i \in 1 .. n |-> q[i]] \in Injection(1 .. n, S \ {p})
    <2>1. \A i \in 1 .. n : q[i] \in S \ {p}
      BY <1>1, ElementOfSeq DEF Waiting, QueuesSound
    <2>2. \A i, j \in 1 .. n : q[i] = q[j] => i = j
      BY <1>1 DEF QueuesSound
    <2> DEFINE f == [i \in 1 .. n |-> q[i]]
    <2>3. f \in [1 .. n -> S \ {p}]
      BY <2>1
    <2>4. \A i, j \in 1 .. n : f[i] = f[j] => i = j
      BY <2>2
    <2> QED
      BY <2>3, <2>4 DEF Injection, IsInjective
  <1>5. Cardinality(1 .. n) <= Cardinality(S \ {p})
    BY <1>3, <1>4, FS_Injection
  <1>6. Cardinality(1 .. n) = n
    BY <1>1, FS_Interval
  <1>7. Cardinality(S) <= MAX_QUEUE_SIZE
    BY <1>1 DEF CapacitySuffices
  <1> QED
    BY <1>1, <1>3, <1>5, <1>6, <1>7, MLQAssumption

LEMMA NothingLostStep ==
    ASSUME IsFiniteSet(Procs), CapacitySuffices
    PROVE  PlaceInv /\ NothingLost /\ [SchedNext]_schedVars => NothingLost'
  <1> SUFFICES ASSUME PlaceInv, NothingLost, [SchedNext]_schedVars PROVE NothingLost'
    OBVIOUS
  <1> USE DEF PlaceInv
  <1>1. ASSUME NEW p \in Procs, EnqueueProc(p), ~Waiting(p)
        PROVE  Waiting(p)' /\ \A x : Waiting(x) => Waiting(x)'
    <2>1. Len(mlq_ready_queue[prio[p]]) < MAX_QUEUE_SIZE
      BY <1>1, RoomForProc DEF SchedTypeOK
    <2>2. Len(mlq_ready_queue[prio[p]]) \in Nat
      BY MLQAssumption, LenProperties DEF SchedTypeOK, MLQTypeOK
    <2> QED
      BY <2>1, <2>2, <1>1, EnqueueProcQueues, MLQAssumption DEF SchedTypeOK
  <1>2. ASSUME NEW p \in Procs, Add(p) PROVE NothingLost'
    <2>1. ~Waiting(p)
      BY <1>2 DEF Add, OnePlace
    <2> QED
      BY <2>1, <1>1, <1>2 DEF Add, add_proc, NothingLost, Held
  <1>3. ASSUME NEW c \in CPUs, Get(c) PROVE NothingLost'
    <2>1. PICK p \in Procs \cup {NULL} :
              get_mlq_proc(p) /\ running' = [running EXCEPT ![c] = p]
      BY <1>3 DEF Get
    <2>2. /\ running[c] = NULL /\ UNCHANGED <<unborn, finished>>
          /\ running'[c] = p
          /\ \A d \in CPUs \ {c} : running'[d] = running[d]
      BY <1>3, <2>1 DEF Get, SchedTypeOK
    <2>3. \A x \in Procs : Held(x) => Held(x)'
      BY <2>2, MLQAssumption DEF Held
    <2>4. CASE GetNone(p)
      BY <2>2, <2>3, <2>4 DEF GetNone, NothingLost, Waiting
    <2>5. ASSUME NEW l \in Levels, TakeFrom(l, p) PROVE NothingLost'
      <3>1. \A x : Waiting(x) => Waiting(x)' \/ x = p
        BY <2>5, TakeFromQueues DEF SchedTypeOK
      <3>2. Held(p)'
        BY <2>2 DEF Held
      <3> QED
        BY <3>1, <3>2, <2>2, <2>3 DEF NothingLost
    <2> QED
      BY <2>1, <2>4, <2>5 DEF get_mlq_proc
  <1>4. ASSUME NEW c \in CPUs, Put(c) PROVE NothingLost'
    <2> PICK p \in Procs : p = running[c]
      BY <1>4 DEF Put, SchedTypeOK
    <2>1. /\ EnqueueProc(p) /\ UNCHANGED <<unborn, finished>>
          /\ \A d \in CPUs \ {c} : running'[d] = running[d]
      BY <1>4 DEF Put, put_proc, SchedTypeOK
    <2>2. ~Waiting(p)
      BY DEF OnePlace
    <2>3. Waiting(p)' /\ \A x : Waiting(x) => Waiting(x)'
      BY <2>1, <2>2, <1>1
    <2>4. \A x : Held(x) => Held(x)' \/ x = p
      BY <2>1 DEF Held
    <2> QED
      BY <2>1, <2>3, <2>4 DEF NothingLost
  <1>5. ASSUME NEW c \in CPUs, Finish(c) PROVE NothingLost'
    <2>1. /\ UNCHANGED mlq_ready_queue /\ unborn' = unborn
          /\ finished' = finished \cup {running[c]}
          /\ \A d \in CPUs \ {c} : running'[d] = running[d]
      BY <1>5 DEF Finish, SchedTypeOK, mlqVars
    <2>2. \A x : Held(x) => Held(x)' \/ x = running[c]
      BY <2>1 DEF Held
    <2> QED
      BY <2>1, <2>2 DEF NothingLost, Waiting
  <1>6. CASE UNCHANGED schedVars
    BY <1>6 DEF schedVars, mlqVars, NothingLost, Held, Waiting
  <1> QED
    BY <1>2, <1>3, <1>4, <1>5, <1>6 DEF SchedNext, CPUStep

\* When no priority has more processes than MAX_QUEUE_SIZE, the silent early
\* return of enqueue (queue.c:17-20) is never taken and every process that
\* was added is waiting, held by a CPU or finished.
THEOREM NothingLostCorrect ==
    ASSUME IsFiniteSet(Procs), CapacitySuffices
    PROVE  SchedSpec => []NothingLost
  <1>1. SchedInit => NothingLost
    BY DEF SchedInit, NothingLost
  <1> QED
    BY <1>1, NothingLostStep, PlaceInvariant, PTL DEF SchedSpec
-----------------------------------------------------------------------------
(* When get_proc returns NULL                                              *)

\* get_mlq_proc returns NULL beside waiting processes only when they all wait
\* at one level whose quota is spent, and the call then renews that quota:
\* the next get_proc does not come back empty (sched.c:62-80).
THEOREM NullOnlyOnSpentQuotaCorrect == SchedSpec => NullOnlyOnSpentQuota
  <1>1. ASSUME PlaceInv, QuotaRespected, NEW c \in CPUs, Get(c), running'[c] = NULL,
               NEW p \in Procs, Waiting(p)
        PROVE  /\ \A x \in Procs : Waiting(x) => prio[x] = current_prio
               /\ curr_slot = slot[current_prio]
               /\ (HasTurn(current_prio))'
    <2>1. get_mlq_proc(NULL)
      BY <1>1 DEF Get, PlaceInv, SchedTypeOK
    <2>2. ASSUME NEW l \in Levels, TakeFrom(l, NULL) PROVE FALSE
      BY <1>1, <2>2, TakeFromType, MLQAssumption DEF PlaceInv, SchedTypeOK
    <2>3. GetNone(NULL)
      BY <2>1, <2>2 DEF get_mlq_proc
    <2>4. /\ \A x : Waiting(x) => prio[x] = current_prio
          /\ curr_slot = slot[current_prio]
          /\ mlq_ready_queue[current_prio] # <<>>
      BY <1>1, <2>3, NoneFound DEF PlaceInv, SchedTypeOK
    <2>5. slot[current_prio] \in Nat \ {0}
      BY <1>1, SlotPositive DEF PlaceInv, SchedTypeOK, MLQTypeOK
    <2> QED
      BY <2>3, <2>4, <2>5 DEF GetNone, HasTurn, empty, slot
  <1>2. PlaceInv /\ QuotaRespected /\ [SchedNext]_schedVars =>
          [\A c \in CPUs :
             Get(c) /\ running'[c] = NULL /\ (\E p \in Procs : Waiting(p))
               => /\ \A p \in Procs : Waiting(p) => prio[p] = current_prio
                  /\ curr_slot = slot[current_prio]
                  /\ (HasTurn(current_prio))']_schedVars
    BY <1>1
  <1> QED
    BY <1>2, PlaceInvariant, QuotaCorrect, PTL DEF SchedSpec, NullOnlyOnSpentQuota
-----------------------------------------------------------------------------
(* How long a level is passed over                                         *)

\* Twice the sum of the quotas of the levels above l.
Above(l) == l * (2 * MAX_PRIO - l + 1)

LEMMA AboveGrows ==
    /\ MAX_PRIO \in Nat \ {0} /\ Above(0) = 0 /\ Above(MAX_PRIO) = MAX_PRIO * (MAX_PRIO + 1)
    /\ \A l \in 0 .. MAX_PRIO : Above(l) \in Int
    /\ \A l \in Levels : /\ l \in 0 .. MAX_PRIO /\ l + 1 \in 0 .. MAX_PRIO
                         /\ slot[l] = MAX_PRIO - l /\ Above(l + 1) = Above(l) + 2 * slot[l]
    /\ \A k, l \in 0 .. MAX_PRIO : k <= l => Above(k) <= Above(l)
  <1>1. MAX_PRIO \in Nat \ {0}
    BY MLQAssumption
  <1>2. ASSUME NEW k \in 0 .. MAX_PRIO, NEW l \in 0 .. MAX_PRIO, k <= l
        PROVE  Above(k) <= Above(l)
    <2>1. PICK a \in Nat, b \in Nat : a = l - k /\ b = (2 * MAX_PRIO + 1) - (k + l)
      BY <1>1, <1>2
    <2>2. a * b \in Nat
      OBVIOUS
    <2>3. Above(l) - Above(k) = a * b
      BY <1>1, <2>1 DEF Above
    <2> QED
      BY <1>1, <2>2, <2>3 DEF Above
  <1>3. \A l \in Levels : /\ l \in 0 .. MAX_PRIO /\ l + 1 \in 0 .. MAX_PRIO
                          /\ slot[l] = MAX_PRIO - l /\ Above(l + 1) = Above(l) + 2 * slot[l]
    BY <1>1 DEF Levels, slot, Above
  <1> QED
    BY <1>1, <1>2, <1>3 DEF Above

LEMMA AboveInt == Above(MAX_PRIO) \in Int
  BY AboveGrows

\* Twice the quotas of the levels the scan passes between level c and level l.
Between(c, l) ==
    IF c < l THEN Above(l) - Above(c + 1) ELSE (Above(MAX_PRIO) - Above(c + 1)) + Above(l)

\* The scan looks at the levels in the order of their distance: all levels
\* with quota left are behind the one it serves.
LEMMA ScanOrder ==
    ASSUME current_prio \in Levels, NEW k \in Levels, NEW l \in Levels,
           k # current_prio, l # current_prio, k # l, Distance(k) <= Distance(l)
    PROVE  \/ current_prio < k /\ k < l
           \/ l < current_prio /\ current_prio < k
           \/ k < l /\ l < current_prio
  <1>1. MAX_PRIO \in Nat \ {0} /\ k \in Int /\ l \in Int /\ current_prio \in Int
    BY AboveGrows DEF Levels
  <1>2. \A m \in Nat \ {0} : \A x \in 0 .. (m - 1) : x % m = x /\ (x - m) % m = x
    OBVIOUS
  <1>3. ASSUME NEW j \in Levels
        PROVE  Distance(j) = IF j >= current_prio THEN j - current_prio
                                                 ELSE (j - current_prio) + MAX_PRIO
    <2>1. CASE j >= current_prio
      BY <1>1, <1>2, <2>1 DEF Levels, Distance
    <2>2. CASE j < current_prio
      <3>1. PICK x \in 0 .. (MAX_PRIO - 1) : x = (j - current_prio) + MAX_PRIO
        BY <1>1, <2>2 DEF Levels
      <3>2. j - current_prio = x - MAX_PRIO
        BY <1>1, <3>1 DEF Levels
      <3> QED
        BY <1>1, <1>2, <2>2, <3>1, <3>2 DEF Levels, Distance
    <2> QED
      BY <1>1, <2>1, <2>2 DEF Levels
  <1> QED
    BY <1>1, <1>3 DEF Levels

LEMMA BetweenFacts ==
    ASSUME NEW c \in Levels, NEW l \in Levels, c # l
    PROVE  /\ Between(c, l) \in Int /\ 0 <= Between(c, l)
           /\ 2 * slot[c] + Between(c, l) + 2 * slot[l] <= Above(MAX_PRIO)
           /\ \A k \in Levels :
                 (c < k /\ k < l) \/ (l < c /\ c < k) \/ (k < l /\ l < c)
                    => 2 * slot[k] + Between(k, l) <= Between(c, l)
  <1>1. /\ c \in Int /\ l \in Int /\ MAX_PRIO \in Nat \ {0} /\ slot[c] \in Int /\ slot[l] \in Int
        /\ MAX_PRIO \in 0 .. MAX_PRIO /\ c \in 0 .. MAX_PRIO /\ l \in 0 .. MAX_PRIO
        /\ c + 1 \in 0 .. MAX_PRIO /\ l + 1 \in 0 .. MAX_PRIO /\ 0 \in 0 .. MAX_PRIO
    BY AboveGrows DEF Levels
  <1>2. /\ Above(c + 1) = Above(c) + 2 * slot[c] /\ Above(l + 1) = Above(l) + 2 * slot[l]
        /\ Above(c) \in Int /\ Above(l) \in Int /\ Above(MAX_PRIO) \in Int
        /\ Above(0) = 0
    BY <1>1, AboveGrows
  <1>3. /\ 0 <= Above(c) /\ 0 <= Above(l)
        /\ Above(l + 1) <= Above(MAX_PRIO) /\ Above(c + 1) <= Above(MAX_PRIO)
        /\ c < l => Above(c + 1) <= Above(l)
        /\ l < c => Above(l + 1) <= Above(c)
    BY <1>1, <1>2, AboveGrows
  <1>4. Between(c, l) \in Int /\ 0 <= Between(c, l)
    BY <1>1, <1>2, <1>3 DEF Between
  <1>5. 2 * slot[c] + Between(c, l) + 2 * slot[l] <= Above(MAX_PRIO)
    BY <1>1, <1>2, <1>3 DEF Between
  <1>6. ASSUME NEW k \in Levels, (c < k /\ k < l) \/ (l < c /\ c < k) \/ (k < l /\ l < c)
        PROVE  2 * slot[k] + Between(k, l) <= Between(c, l)
    <2>1. /\ k \in Int /\ slot[k] \in Int /\ k \in 0 .. MAX_PRIO /\ k + 1 \in 0 .. MAX_PRIO
          /\ Above(k + 1) = Above(k) + 2 * slot[k] /\ Above(k) \in Int
      BY <1>1, AboveGrows DEF Levels
    <2>2. 0 <= Above(k) /\ (c < k => Above(c + 1) <= Above(k))
      BY <1>1, <1>2, <2>1, AboveGrows
    <2> QED
      BY <1>1, <1>2, <1>3, <1>6, <2>1, <2>2 DEF Between
  <1> QED
    BY <1>4, <1>5, <1>6

\* A level that is empty or was served last has not been passed over.  For
\* any other, what it has been passed over, what is left of the turn of the
\* level being served, and the quotas of the levels that the scan will look
\* at before it do not exceed one turn of every other level.
OvertakenInv ==
    /\ overtaken \in [Levels -> Nat]
    /\ \A l \in Levels : empty(mlq_ready_queue[l]) \/ l = current_prio => overtaken[l] = 0
    /\ \A l \in Levels :
          l # current_prio =>
              2 * overtaken[l] + 2 * (slot[current_prio] - curr_slot)
                 + Between(current_prio, l) + 2 * slot[l] <= Above(MAX_PRIO)

LEMMA OvertakenInit == FairInit => OvertakenInv
  <1> SUFFICES ASSUME FairInit PROVE OvertakenInv
    OBVIOUS
  <1>1. current_prio = 0 /\ curr_slot = 0 /\ overtaken = [l \in Levels |-> 0] /\ 0 \in Levels
    BY AboveGrows DEF FairInit, SchedInit, init_scheduler, Levels
  <1>2. \A l \in Levels : slot[l] \in Int /\ l \in Int
    BY AboveGrows DEF Levels
  <1> QED
    BY <1>1, <1>2, BetweenFacts DEF OvertakenInv

LEMMA OvertakenBound == OvertakenInv /\ MLQTypeOK /\ QuotaRespected => BoundedOvertaking
  <1> SUFFICES ASSUME OvertakenInv, MLQTypeOK, QuotaRespected, NEW l \in Levels
               PROVE  overtaken[l] <= OtherSlots(l)
    BY DEF BoundedOvertaking
  <1>1. /\ overtaken[l] \in Nat /\ slot[l] \in Int /\ MAX_PRIO \in Nat \ {0}
        /\ MAX_PRIO * (MAX_PRIO + 1) \in Int /\ current_prio \in Levels /\ curr_slot \in Nat
    BY AboveGrows, SlotPositive DEF OvertakenInv, MLQTypeOK
  <1>2. 2 * overtaken[l] + 2 * slot[l] <= MAX_PRIO * (MAX_PRIO + 1)
    <2>1. /\ l \in 0 .. MAX_PRIO /\ l + 1 \in 0 .. MAX_PRIO /\ MAX_PRIO \in 0 .. MAX_PRIO
          /\ 0 \in 0 .. MAX_PRIO /\ l + 1 <= MAX_PRIO /\ 0 <= l
      BY <1>1, AboveGrows DEF Levels
    <2>2. 2 * slot[l] <= Above(MAX_PRIO)
      <3>1. Above(l + 1) <= Above(MAX_PRIO) /\ 0 <= Above(l) /\ Above(l) \in Int /\ Above(MAX_PRIO) \in Int
        BY <2>1, AboveGrows
      <3>2. Above(l + 1) = Above(l) + 2 * slot[l]
        BY AboveGrows
      <3> QED
        BY <1>1, <3>1, <3>2
    <2>3. CASE l = current_prio
      <3>1. overtaken[l] = 0
        BY <2>3 DEF OvertakenInv
      <3> QED
        BY <1>1, <2>2, <3>1, AboveGrows
    <2>4. CASE l # current_prio
      <3>1. 2 * overtaken[l] + 2 * (slot[current_prio] - curr_slot)
                 + Between(current_prio, l) + 2 * slot[l] <= Above(MAX_PRIO)
        BY <2>4 DEF OvertakenInv
      <3>2. slot[current_prio] - curr_slot \in Nat
        BY <1>1, AboveGrows DEF QuotaRespected, Levels
      <3>3. Between(current_prio, l) \in Nat
        BY <1>1, <2>4, BetweenFacts
      <3> QED
        BY <1>1, <3>1, <3>2, <3>3, AboveGrows
    <2> QED
      BY <2>3, <2>4
  <1>3. \A x, y \in Int : 2 * x <= y => x <= y \div 2
    OBVIOUS
  <1>4. overtaken[l] + slot[l] <= (MAX_PRIO * (MAX_PRIO + 1)) \div 2
    BY <1>1, <1>2, <1>3
  <1> HIDE DEF Above
  <1> QED
    BY <1>1, <1>4 DEF OtherSlots

\* A step that takes no process passes no level over.
LEMMA NothingTaken ==
    ASSUME MLQTypeOK, MLQTypeOK', OvertakenInv,
           \A k \in Levels : ~TookFrom(k),
           overtaken' = [l \in Levels |-> OvertakenAfter(l)]
    PROVE  /\ overtaken' \in [Levels -> Nat]
           /\ \A l \in Levels :
                 /\ overtaken'[l] = IF empty(mlq_ready_queue[l]) THEN 0 ELSE overtaken[l]
                 /\ empty(mlq_ready_queue[l])' => empty(mlq_ready_queue[l])
  <1>1. ASSUME NEW l \in Levels
        PROVE  overtaken'[l] = IF empty(mlq_ready_queue[l]) THEN 0 ELSE overtaken[l]
    BY DEF OvertakenAfter
  <1>2. ASSUME NEW l \in Levels, empty(mlq_ready_queue[l])' PROVE empty(mlq_ready_queue[l])
    <2>1. /\ mlq_ready_queue[l] \in Seq(Procs) /\ mlq_ready_queue'[l] = <<>>
      BY <1>2 DEF MLQTypeOK, empty
    <2>2. Len(mlq_ready_queue[l]) \in Nat /\ Len(mlq_ready_queue'[l]) = 0
      BY <2>1, LenProperties, EmptySeq
    <2>3. Len(mlq_ready_queue[l]) = 0
      BY <2>2 DEF TookFrom
    <2> QED
      BY <2>1, <2>3, EmptySeq DEF empty
  <1>3. \A l \in Levels : overtaken[l] \in Nat
    BY DEF OvertakenInv
  <1>4. overtaken' \in [Levels -> Nat]
    BY <1>1, <1>3
  <1> QED
    BY <1>1, <1>2, <1>4

\* Adding or putting back a process, and freeing one, keeps every bound.
LEMMA OvertakenKept ==
    ASSUME MLQTypeOK, MLQTypeOK', OvertakenInv,
           \A k \in Levels : ~TookFrom(k),
           UNCHANGED <<current_prio, curr_slot>>,
           overtaken' = [l \in Levels |-> OvertakenAfter(l)]
    PROVE  OvertakenInv'
  <1>1. \A l \in Levels : /\ overtaken'[l] \in Nat /\ overtaken[l] \in Nat
                          /\ overtaken'[l] <= overtaken[l]
    BY NothingTaken DEF OvertakenInv
  <1>2. \A l \in Levels : empty(mlq_ready_queue[l])' \/ l = current_prio' => overtaken'[l] = 0
    BY NothingTaken DEF OvertakenInv
  <1>3. ASSUME NEW l \in Levels, l # current_prio'
        PROVE  2 * overtaken'[l] + 2 * (slot[current_prio'] - curr_slot')
                  + Between(current_prio', l) + 2 * slot[l] <= Above(MAX_PRIO)
    <2>1. 2 * overtaken[l] + 2 * (slot[current_prio] - curr_slot)
              + Between(current_prio, l) + 2 * slot[l] <= Above(MAX_PRIO)
      BY <1>3 DEF OvertakenInv
    <2>2. /\ current_prio \in Levels /\ slot[current_prio] \in Int /\ slot[l] \in Int
          /\ curr_slot \in Int /\ Above(MAX_PRIO) \in Int
      BY AboveInt, SlotPositive DEF MLQTypeOK
    <2>3. Between(current_prio, l) \in Int
      BY <1>3, <2>2, BetweenFacts
    <2> QED
      BY <1>1, <2>1, <2>2, <2>3
  <1> QED
    BY <1>2, <1>3, NothingTaken DEF OvertakenInv, Between, Above, slot

\* A scan that finds nothing renews the quota of its level; no other level
\* has a process then.
LEMMA OvertakenNone ==
    ASSUME MLQTypeOK, MLQTypeOK', OvertakenInv, GetNone(NULL),
           overtaken' = [l \in Levels |-> OvertakenAfter(l)]
    PROVE  OvertakenInv'
  <1>1. /\ mlq_ready_queue' = mlq_ready_queue /\ current_prio' = current_prio /\ curr_slot' = 0
        /\ \A l \in Levels : ~HasTurn(l)
    BY DEF GetNone
  <1>2. \A k \in Levels : ~TookFrom(k)
    <2>1. \A k \in Levels : Len(mlq_ready_queue[k]) \in Nat
      BY LenProperties DEF MLQTypeOK
    <2> QED
      BY <1>1, <2>1 DEF TookFrom
  <1>3. \A l \in Levels : empty(mlq_ready_queue[l])' \/ l = current_prio' => overtaken'[l] = 0
    BY <1>1, <1>2, NothingTaken DEF OvertakenInv
  <1>4. ASSUME NEW l \in Levels, l # current_prio'
        PROVE  2 * overtaken'[l] + 2 * (slot[current_prio'] - curr_slot')
                  + Between(current_prio', l) + 2 * slot[l] <= Above(MAX_PRIO)
    <2>1. overtaken'[l] = 0
      BY <1>1, <1>2, <1>4, NothingTaken DEF HasTurn
    <2>2. current_prio \in Levels /\ slot[current_prio] \in Int /\ slot[l] \in Int
      BY AboveInt, SlotPositive DEF MLQTypeOK
    <2>3. /\ Between(current_prio, l) \in Int
          /\ 2 * slot[current_prio] + Between(current_prio, l) + 2 * slot[l] <= Above(MAX_PRIO)
      BY <1>1, <1>4, <2>2, BetweenFacts
    <2> QED
      BY <1>1, <2>1, <2>2, <2>3
  <1> QED
    BY <1>2, <1>3, <1>4, NothingTaken DEF OvertakenInv, Between, Above, slot

\* A dequeue from level k passes over every other level that has a process:
\* within the turn of the level served before, or by starting that of k.
LEMMA OvertakenTake ==
    ASSUME MLQTypeOK, MLQTypeOK', QuotaRespected, OvertakenInv,
           NEW k \in Levels, NEW p, TakeFrom(k, p),
           overtaken' = [l \in Levels |-> OvertakenAfter(l)]
    PROVE  OvertakenInv'
  <1>1. /\ mlq_ready_queue[k] \in Seq(Procs) /\ mlq_ready_queue[k] # <<>>
        /\ mlq_ready_queue'[k] = Tail(mlq_ready_queue[k])
        /\ \A l \in Levels \ {k} : mlq_ready_queue'[l] = mlq_ready_queue[l]
        /\ current_prio' = k /\ curr_slot' = SlotAfter(k)
    BY TakeFromType DEF TakeFrom, MLQTypeOK
  <1>2. TookFrom(k) /\ \A l \in Levels \ {k} : ~TookFrom(l)
    <2>1. \A l \in Levels : Len(mlq_ready_queue[l]) \in Nat
      BY LenProperties DEF MLQTypeOK
    <2>2. Len(mlq_ready_queue'[k]) < Len(mlq_ready_queue[k])
      BY <1>1, TailShifts
    <2> QED
      BY <1>1, <2>1, <2>2 DEF TookFrom
  <1>3. overtaken'[k] = 0
    BY <1>2 DEF OvertakenAfter
  <1>4. \A l \in Levels \ {k} :
           overtaken'[l] = IF empty(mlq_ready_queue[l]) THEN 0 ELSE overtaken[l] + 1
    BY <1>2 DEF OvertakenAfter
  <1>5. \A l \in Levels : overtaken[l] \in Nat
    BY DEF OvertakenInv
  <1>6. overtaken' \in [Levels -> Nat]
    BY <1>3, <1>4, <1>5
  <1>7. \A l \in Levels : empty(mlq_ready_queue[l])' \/ l = current_prio' => overtaken'[l] = 0
    BY <1>1, <1>3, <1>4 DEF empty
  <1>8. /\ current_prio \in Levels /\ curr_slot \in Nat /\ slot[current_prio] \in Int
        /\ slot[k] \in Int /\ Above(MAX_PRIO) \in Int
        /\ curr_slot' = (IF k = current_prio THEN curr_slot + 1 ELSE 1)
        /\ curr_slot <= slot[current_prio]
    BY <1>1, AboveInt, SlotPositive DEF MLQTypeOK, SlotAfter, QuotaRespected
  <1>9. ASSUME NEW l \in Levels, l # k
        PROVE  2 * overtaken'[l] + 2 * (slot[k] - curr_slot')
                  + Between(k, l) + 2 * slot[l] <= Above(MAX_PRIO)
    <2>1. /\ Between(k, l) \in Int /\ slot[l] \in Int
          /\ 2 * slot[k] + Between(k, l) + 2 * slot[l] <= Above(MAX_PRIO)
      BY <1>9, BetweenFacts, SlotPositive
    <2>2. CASE empty(mlq_ready_queue[l])
      <3>1. overtaken'[l] = 0
        BY <1>4, <1>9, <2>2
      <3> QED
        BY <1>8, <2>1, <3>1
    <2>3. CASE ~empty(mlq_ready_queue[l]) /\ l = current_prio
      <3>1. overtaken'[l] = 1 /\ curr_slot' = 1
        BY <1>4, <1>8, <1>9, <2>3 DEF OvertakenInv
      <3> QED
        BY <1>8, <2>1, <3>1
    <2>4. CASE ~empty(mlq_ready_queue[l]) /\ l # current_prio
      <3>1. overtaken'[l] = overtaken[l] + 1 /\ overtaken[l] \in Nat
        BY <1>4, <1>5, <1>9, <2>4
      <3>2. 2 * overtaken[l] + 2 * (slot[current_prio] - curr_slot)
                + Between(current_prio, l) + 2 * slot[l] <= Above(MAX_PRIO)
        BY <2>4 DEF OvertakenInv
      <3>3. CASE k = current_prio
        BY <1>8, <2>1, <3>1, <3>2, <3>3
      <3>4. CASE k # current_prio
        <4>1. HasTurn(l) /\ Serve(k)
          BY <2>4 DEF HasTurn, TakeFrom
        <4>2. Distance(k) <= Distance(l)
          BY <4>1 DEF Serve
        <4>3. \/ current_prio < k /\ k < l
              \/ l < current_prio /\ current_prio < k
              \/ k < l /\ l < current_prio
          BY <1>8, <1>9, <2>4, <3>4, <4>2, ScanOrder
        <4>4. /\ Between(current_prio, l) \in Int
              /\ 2 * slot[k] + Between(k, l) <= Between(current_prio, l)
          BY <1>8, <2>4, <4>3, BetweenFacts
        <4> QED
          BY <1>8, <2>1, <3>1, <3>2, <3>4, <4>4
      <3> QED
        BY <3>3, <3>4
    <2> QED
      BY <2>2, <2>3, <2>4
  <1> QED
    BY <1>1, <1>6, <1>7, <1>9 DEF OvertakenInv, Between, Above, slot

\* A step of the loops is a step of the scheduler or leaves it alone.
LEMMA FairNextSteps ==
    ASSUME FairNext
    PROVE  SchedNext \/ UNCHANGED schedVars
  <1>1. ASSUME NEW c \in CPUs, CPUThread(c) PROVE SchedNext \/ UNCHANGED schedVars
    BY <1>1 DEF CPUThread, FirstLoad, GiveBack, LoadNext, Recheck, SchedNext, CPUStep
  <1>2. ASSUME NEW p \in Procs, LoadProc(p) PROVE SchedNext
    BY <1>2 DEF LoadProc, SchedNext
  <1>3. LoaderDone => UNCHANGED schedVars
    BY DEF LoaderDone
  <1> QED
    BY <1>1, <1>2, <1>3 DEF FairNext

LEMMA OvertakenStep ==
    SchedTypeOK /\ QuotaRespected /\ OvertakenInv /\ [FairNext]_fairVars => OvertakenInv'
  <1> SUFFICES ASSUME SchedTypeOK, QuotaRespected, OvertakenInv, [FairNext]_fairVars
               PROVE  OvertakenInv'
    OBVIOUS
  <1>1. MLQTypeOK /\ MLQTypeOK'
    BY TypeStep, FairNextSteps DEF SchedTypeOK, fairVars
  <1>2. CASE UNCHANGED fairVars
    BY <1>2 DEF fairVars, schedVars, mlqVars, OvertakenInv, empty, Between, Above, slot
  <1>3. CASE FairNext
    <2>1. overtaken' = [l \in Levels |-> OvertakenAfter(l)]
      BY <1>3 DEF FairNext, CountOvertaking
    <2>2. \A l \in Levels : mlq_ready_queue[l] \in Seq(Procs) /\ Len(mlq_ready_queue[l]) \in Nat
      BY <1>1, LenProperties DEF MLQTypeOK
    <2>3. ASSUME NEW p \in Procs, EnqueueProc(p) PROVE OvertakenInv'
      <3>1. ASSUME NEW l \in Levels PROVE ~TookFrom(l)
        <4>1. /\ prio[p] \in Levels
              /\ mlq_ready_queue'[l] = IF l = prio[p] THEN enqueue(mlq_ready_queue[l], p)
                                                      ELSE mlq_ready_queue[l]
          BY <2>3, <1>1, MLQAssumption DEF EnqueueProc, MLQTypeOK
        <4>2. Len(enqueue(mlq_ready_queue[l], p)) >= Len(mlq_ready_queue[l])
          <5>1. \/ enqueue(mlq_ready_queue[l], p) = mlq_ready_queue[l]
                \/ Len(enqueue(mlq_ready_queue[l], p)) = Len(mlq_ready_queue[l]) + 1
            BY <2>2, <2>3, EnqueueCases
          <5> QED
            BY <2>2, <5>1
        <4> QED
          BY <2>2, <4>1, <4>2 DEF TookFrom
      <3> QED
        BY <1>1, <2>1, <2>3, <3>1, OvertakenKept DEF EnqueueProc
    <2>4. CASE \E p \in Procs : Add(p)
      BY <2>3, <2>4 DEF Add, add_proc
    <2>5. CASE \E c \in CPUs : Put(c)
      <3>1. PICK c \in CPUs : Put(c)
        BY <2>5
      <3>2. running[c] \in Procs
        BY <3>1 DEF Put, SchedTypeOK
      <3> QED
        BY <2>3, <3>1, <3>2 DEF Put, put_proc
    <2>6. CASE UNCHANGED mlqVars
      <3>1. UNCHANGED <<mlq_ready_queue, current_prio, curr_slot>>
        BY <2>6 DEF mlqVars
      <3>2. \A l \in Levels : ~TookFrom(l)
        BY <2>2, <3>1 DEF TookFrom
      <3> QED
        BY <1>1, <2>1, <3>1, <3>2, OvertakenKept
    <2>7. CASE \E c \in CPUs : Get(c)
      <3>1. PICK p : get_mlq_proc(p)
        BY <2>7 DEF Get
      <3>2. CASE GetNone(p)
        <4>1. GetNone(NULL)
          BY <3>2 DEF GetNone
        <4> QED
          BY <1>1, <2>1, <4>1, OvertakenNone
      <3>3. ASSUME NEW l \in Levels, TakeFrom(l, p) PROVE OvertakenInv'
        BY <1>1, <2>1, <3>3, OvertakenTake
      <3> QED
        BY <3>1, <3>2, <3>3 DEF get_mlq_proc
    <2> QED
      BY <1>3, <2>4, <2>5, <2>6, <2>7, FairNextSteps
         DEF SchedNext, CPUStep, Finish, schedVars
  <1> QED
    BY <1>2, <1>3

\* However the threads' calls interleave, a waiting level is passed over by
\* at most one full turn of every other level (sched.c:40, 62-80), for any
\* number of levels, CPUs and processes.
THEOREM BoundedOvertakingCorrect == OvertakingSpec => []BoundedOvertaking
  <1>1. FairInit => SchedInit
    BY DEF FairInit
  <1>2. [FairNext]_fairVars => [SchedNext]_schedVars
    BY FairNextSteps DEF fairVars
  <1>3. SchedInit => QuotaRespected
    BY InitScheduler DEF SchedInit
  <1>4. SchedTypeOK => MLQTypeOK
    BY DEF SchedTypeOK
  <1> QED
    BY <1>1, <1>2, <1>3, <1>4, TypeInit, TypeStep, QuotaStep, OvertakenInit, OvertakenStep,
       OvertakenBound, PTL DEF OvertakingSpec

-----------------------------------------------------------------------------
(* The scan under queue_lock: cyclic order of the levels                   *)

\* The distance from level a on to level b, in the order of the scan.
LEMMA DistanceValue ==
    ASSUME NEW a \in Levels, NEW b \in Levels
    PROVE  (b - a) % MAX_PRIO = IF b >= a THEN b - a ELSE b - a + MAX_PRIO
  <1>1. MAX_PRIO \in Nat \ {0} /\ a \in 0 .. (MAX_PRIO - 1) /\ b \in 0 .. (MAX_PRIO - 1)
    BY MLQAssumption DEF Levels
  <1> QED
    BY <1>1

LEMMA NextLevelValue ==
    ASSUME current_prio \in Levels
    PROVE  /\ NextLevel \in Levels
           /\ NextLevel = IF current_prio = MAX_PRIO - 1 THEN 0 ELSE current_prio + 1
  <1>1. MAX_PRIO \in Nat \ {0} /\ current_prio \in 0 .. (MAX_PRIO - 1)
    BY MLQAssumption DEF Levels
  <1> QED
    BY <1>1 DEF NextLevel, Levels

\* The next level is one further away from a, unless it is a itself.
LEMMA DistanceGrows ==
    ASSUME current_prio \in Levels, NEW a \in Levels, NextLevel # a
    PROVE  (NextLevel - a) % MAX_PRIO = ((current_prio - a) % MAX_PRIO) + 1
  <1> DEFINE b == current_prio
             n == NextLevel
  <1>1. /\ MAX_PRIO \in Nat \ {0} /\ a \in 0 .. (MAX_PRIO - 1) /\ b \in 0 .. (MAX_PRIO - 1)
        /\ n \in 0 .. (MAX_PRIO - 1) /\ n # a
        /\ n = IF b = MAX_PRIO - 1 THEN 0 ELSE b + 1
    BY MLQAssumption, NextLevelValue DEF Levels
  <1>2. (b - a) % MAX_PRIO = IF b >= a THEN b - a ELSE b - a + MAX_PRIO
    BY DistanceValue
  <1>3. (n - a) % MAX_PRIO = IF n >= a THEN n - a ELSE n - a + MAX_PRIO
    BY DistanceValue, NextLevelValue
  <1> HIDE DEF n, b
  <1>4. (IF n >= a THEN n - a ELSE n - a + MAX_PRIO) = (IF b >= a THEN b - a ELSE b - a + MAX_PRIO) + 1
    BY <1>1
  <1>5. (n - a) % MAX_PRIO = ((b - a) % MAX_PRIO) + 1
    BY <1>2, <1>3, <1>4
  <1> QED
    BY <1>5 DEF n, b

\* No two levels are equally far from a.
LEMMA DistanceDiffers ==
    ASSUME NEW a \in Levels, NEW b \in Levels, NEW l \in Levels, l # b
    PROVE  (l - a) % MAX_PRIO # (b - a) % MAX_PRIO
  <1>1. /\ MAX_PRIO \in Nat \ {0} /\ a \in 0 .. (MAX_PRIO - 1)
        /\ b \in 0 .. (MAX_PRIO - 1) /\ l \in 0 .. (MAX_PRIO - 1)
    BY MLQAssumption DEF Levels
  <1>2. (IF l >= a THEN l - a ELSE l - a + MAX_PRIO) # (IF b >= a THEN b - a ELSE b - a + MAX_PRIO)
    BY <1>1
  <1>3. (b - a) % MAX_PRIO = IF b >= a THEN b - a ELSE b - a + MAX_PRIO
    BY DistanceValue
  <1>4. (l - a) % MAX_PRIO = IF l >= a THEN l - a ELSE l - a + MAX_PRIO
    BY DistanceValue
  <1> QED
    BY <1>2, <1>3, <1>4

\* The level before a is the last one the scan from a comes to.
LEMMA LastDistance ==
    ASSUME current_prio \in Levels, NEW a \in Levels, NextLevel = a
    PROVE  (current_prio - a) % MAX_PRIO = MAX_PRIO - 1
  <1> DEFINE b == current_prio
  <1>1. /\ MAX_PRIO \in Nat \ {0} /\ a \in 0 .. (MAX_PRIO - 1) /\ b \in 0 .. (MAX_PRIO - 1)
        /\ a = IF b = MAX_PRIO - 1 THEN 0 ELSE b + 1
    BY MLQAssumption, NextLevelValue DEF Levels
  <1>2. (IF b >= a THEN b - a ELSE b - a + MAX_PRIO) = MAX_PRIO - 1
    BY <1>1
  <1>3. (b - a) % MAX_PRIO = IF b >= a THEN b - a ELSE b - a + MAX_PRIO
    BY DistanceValue
  <1> QED
    BY <1>2, <1>3

-----------------------------------------------------------------------------
(* The queues                                                              *)

\* What the scan finds at the level it has reached.
LEMMA FoundHead ==
    ASSUME MLQTypeOK, Found
    PROVE  /\ Head(mlq_ready_queue[current_prio]) \in Procs
           /\ Tail(mlq_ready_queue[current_prio]) \in Seq(Procs)
  <1>1. /\ mlq_ready_queue[current_prio] \in Seq(Procs)
        /\ mlq_ready_queue[current_prio] # <<>>
    BY DEF MLQTypeOK, Found, empty
  <1> QED
    BY <1>1, HeadTailProperties

-----------------------------------------------------------------------------
(* The invariant                                                           *)

LEMMA LockedInit == Init => LockedInv
  <1> SUFFICES ASSUME Init PROVE LockedInv
    OBVIOUS
  <1>1. MLQTypeOK /\ 0 \in Levels
    BY InitScheduler, MLQAssumption DEF Init, Levels, SchedInit
  <1>2. \A t \in Threads : call[t] = "none"
    BY DEF Init, SchedInit
  <1>3. TypeOK
    BY <1>1 DEF Init, TypeOK, SchedInit, SchedTypeOK
  <1>4. LockSound
    BY <1>2, LockedAssumption DEF Init, LockSound, Threads, SchedInit
  <1>5. ~Scanning
    BY <1>2 DEF Scanning, Threads
  <1> QED
    BY <1>3, <1>4, <1>5 DEF LockedInv, ScanCount, PassedLevelsOfferNothing

\* A thread inside a call is the only one.
LEMMA OnlyCaller ==
    ASSUME LockedInv, NEW t \in Threads, call[t] # "none"
    PROVE  queue_lock = t /\ \A u \in Threads \ {t} : call[u] = "none"
  BY DEF LockedInv, LockSound

LEMMA LockedTypeStep == LockedInv /\ [Next]_vars => TypeOK'
  <1> SUFFICES ASSUME LockedInv, [Next]_vars PROVE TypeOK'
    OBVIOUS
  <1> USE DEF TypeOK, SchedTypeOK
  <1>0. TypeOK /\ MLQTypeOK
    BY DEF LockedInv
  <1>1. ASSUME NEW c \in CPUs, GetHit(c) PROVE TypeOK'
    BY <1>1, <1>0, FoundHead DEF GetHit, Unlock, Threads, MLQTypeOK
  <1>2. ASSUME NEW c \in CPUs, GetMiss(c) PROVE TypeOK'
    BY <1>2, <1>0, NextLevelValue DEF GetMiss, Unlock, Threads, MLQTypeOK
  <1>3. ASSUME NEW c \in CPUs, PutEnd(c) PROVE TypeOK'
    <2>1. running[c] \in Procs
      BY <1>3, <1>0 DEF PutEnd, LockedInv, LockSound
    <2>2. MLQTypeOK'
      BY <1>3, <2>1, <1>0, EnqueueProcType DEF PutEnd
    <2> QED
      BY <1>3, <1>0, <2>2 DEF PutEnd, Unlock, Threads
  <1>4. CASE AddEnd
    <2>1. adding \in Procs
      BY <1>4, <1>0 DEF AddEnd, LockedInv, LockSound
    <2>2. MLQTypeOK'
      BY <1>4, <2>1, <1>0, EnqueueProcType DEF AddEnd
    <2> QED
      BY <1>4, <1>0, <2>2 DEF AddEnd, Unlock, Threads
  <1>5. ASSUME NEW c \in CPUs, GetBegin(c) PROVE TypeOK'
    BY <1>5, <1>0 DEF GetBegin, Lock, Threads, MLQTypeOK, mlqVars, schedVars
  <1>6. ASSUME NEW c \in CPUs, PutBegin(c) PROVE TypeOK'
    BY <1>6, <1>0 DEF PutBegin, Lock, Threads, MLQTypeOK, mlqVars, schedVars
  <1>7. ASSUME NEW c \in CPUs, FinishOutside(c) PROVE TypeOK'
    BY <1>7, <1>0 DEF Finish, MLQTypeOK, mlqVars, lockVars, FinishOutside
  <1>8. ASSUME NEW p \in Procs, AddBegin(p) PROVE TypeOK'
    BY <1>8, <1>0 DEF AddBegin, Lock, Threads, MLQTypeOK, mlqVars, schedVars
  <1>9. CASE UNCHANGED vars
    BY <1>9, <1>0 DEF vars, lockVars, mlqVars, MLQTypeOK, schedVars
  <1> QED
    BY <1>1, <1>2, <1>3, <1>4, <1>5, <1>6, <1>7, <1>8, <1>9 DEF Next, InsideLock

LEMMA LockSoundStep == LockedInv /\ [Next]_vars => LockSound'
  <1> SUFFICES ASSUME LockedInv, [Next]_vars PROVE LockSound'
    OBVIOUS
  <1> USE MLQAssumption, LockedAssumption DEF LockSound, TypeOK, Threads, SchedTypeOK
  <1>0. TypeOK /\ LockSound /\ MLQTypeOK
    BY DEF LockedInv
  <1>1. ASSUME NEW c \in CPUs, GetHit(c) PROVE LockSound'
    <2>1. \A u \in Threads \ {c} : call[u] = "none"
      BY <1>1, OnlyCaller DEF GetHit
    <2> QED
      BY <1>1, <1>0, <2>1 DEF GetHit, Unlock
  <1>2. ASSUME NEW c \in CPUs, GetMiss(c) PROVE LockSound'
    <2>1. \A u \in Threads \ {c} : call[u] = "none"
      BY <1>2, OnlyCaller DEF GetMiss
    <2> QED
      BY <1>2, <1>0, <2>1 DEF GetMiss, Unlock
  <1>3. ASSUME NEW c \in CPUs, PutEnd(c) PROVE LockSound'
    <2>1. \A u \in Threads \ {c} : call[u] = "none"
      BY <1>3, OnlyCaller DEF PutEnd
    <2> QED
      BY <1>3, <1>0, <2>1 DEF PutEnd, Unlock
  <1>4. CASE AddEnd
    <2>1. \A u \in Threads \ {loader} : call[u] = "none"
      BY <1>4, OnlyCaller DEF AddEnd
    <2> QED
      BY <1>4, <1>0, <2>1 DEF AddEnd, Unlock
  <1>5. ASSUME NEW c \in CPUs, GetBegin(c) PROVE LockSound'
    BY <1>5, <1>0 DEF GetBegin, Lock, schedVars
  <1>6. ASSUME NEW c \in CPUs, PutBegin(c) PROVE LockSound'
    BY <1>6, <1>0 DEF PutBegin, Lock, schedVars
  <1>7. ASSUME NEW c \in CPUs, FinishOutside(c) PROVE LockSound'
    BY <1>7, <1>0 DEF Finish, lockVars, FinishOutside
  <1>8. ASSUME NEW p \in Procs, AddBegin(p) PROVE LockSound'
    BY <1>8, <1>0 DEF AddBegin, Lock, schedVars
  <1>9. CASE UNCHANGED vars
    BY <1>9, <1>0 DEF vars, lockVars, schedVars
  <1> QED
    BY <1>1, <1>2, <1>3, <1>4, <1>5, <1>6, <1>7, <1>8, <1>9 DEF Next, InsideLock

LEMMA ScanCountStep == LockedInv /\ [Next]_vars => ScanCount'
  <1> SUFFICES ASSUME LockedInv, [Next]_vars, Scanning'
               PROVE  curr_slot' = IF current_prio' = start_prio' THEN startSlot' ELSE 0
    BY DEF ScanCount
  <1> USE MLQAssumption, LockedAssumption DEF TypeOK, Threads, SchedTypeOK
  <1>0. TypeOK /\ LockSound /\ ScanCount
    BY DEF LockedInv
  <1>1. ASSUME NEW c \in CPUs, NEW e, call[c] = e, e # "none",
               call' = [call EXCEPT ![c] = "none"]
        PROVE  FALSE
    <2>1. \A u \in CPUs \ {c} : call[u] = "none"
      BY <1>1, OnlyCaller
    <2> QED
      BY <1>1, <1>0, <2>1 DEF Scanning
  <1>2. ASSUME NEW c \in CPUs, GetHit(c) PROVE FALSE
    BY <1>1, <1>2 DEF GetHit, Unlock
  <1>3. ASSUME NEW c \in CPUs, PutEnd(c) PROVE FALSE
    BY <1>1, <1>3 DEF PutEnd, Unlock
  <1>4. CASE AddEnd
    <2>1. \A u \in CPUs : call[u] = "none"
      BY <1>4, OnlyCaller DEF AddEnd
    <2> QED
      BY <1>4, <1>0, <2>1 DEF AddEnd, Unlock, Scanning
  <1>5. ASSUME NEW c \in CPUs, GetMiss(c)
        PROVE  curr_slot' = IF current_prio' = start_prio' THEN startSlot' ELSE 0
    <2>1. NextLevel # start_prio
      BY <1>1, <1>5 DEF GetMiss, Unlock
    <2> QED
      BY <1>5, <2>1 DEF GetMiss
  <1>6. ASSUME NEW c \in CPUs, GetBegin(c)
        PROVE  curr_slot' = IF current_prio' = start_prio' THEN startSlot' ELSE 0
    BY <1>6 DEF GetBegin, mlqVars, schedVars
  <1>7. ASSUME NEW c \in CPUs, PutBegin(c) PROVE FALSE
    BY <1>7, <1>0 DEF PutBegin, Lock, Scanning, LockSound, schedVars
  <1>8. ASSUME NEW p \in Procs, AddBegin(p) PROVE FALSE
    BY <1>8, <1>0 DEF AddBegin, Lock, Scanning, LockSound, schedVars
  <1>9. CASE UNCHANGED <<mlqVars, lockVars>>
    BY <1>9, <1>0 DEF lockVars, mlqVars, Scanning, ScanCount
  <1> QED
    BY <1>2, <1>3, <1>4, <1>5, <1>6, <1>7, <1>8, <1>9
    DEF Next, InsideLock, Finish, vars, FinishOutside, schedVars

\* An iteration that finds nothing adds its level to those passed.
LEMMA PassedGrows ==
    ASSUME LockedInv, NEW c \in CPUs, GetMiss(c), NextLevel # start_prio
    PROVE  PassedLevelsOfferNothing'
  <1> SUFFICES ASSUME NEW l \in Levels,
                      (l - start_prio') % MAX_PRIO < (current_prio' - start_prio') % MAX_PRIO
               PROVE  \/ empty(mlq_ready_queue'[l])
                      \/ l = start_prio' /\ startSlot' >= slot[l]
    BY DEF PassedLevelsOfferNothing, slot, empty
  <1>1. /\ current_prio \in Levels /\ start_prio \in Levels /\ curr_slot \in Nat
        /\ startSlot \in Nat
    BY DEF LockedInv, TypeOK, MLQTypeOK, SchedTypeOK
  <1>2. /\ call[c] = "get" /\ ~Found /\ current_prio' = NextLevel
        /\ UNCHANGED <<mlq_ready_queue, start_prio, startSlot>>
    BY DEF GetMiss
  <1>3. Scanning
    BY <1>2 DEF Scanning
  <1>4. NextLevel \in Levels
    BY <1>1, NextLevelValue
  <1>5. (current_prio' - start_prio') % MAX_PRIO = ((current_prio - start_prio) % MAX_PRIO) + 1
    <2>1. (NextLevel - start_prio) % MAX_PRIO = ((current_prio - start_prio) % MAX_PRIO) + 1
      BY <1>1, DistanceGrows
    <2> QED
      BY <2>1, <1>2
  <1>6. CASE l = current_prio
    <2>1. \/ empty(mlq_ready_queue[l])
          \/ ~(curr_slot < slot[l])
      BY <1>2, <1>6 DEF Found
    <2>2. slot[l] \in Nat \ {0}
      BY SlotPositive
    <2>3. curr_slot = IF current_prio = start_prio THEN startSlot ELSE 0
      BY <1>3 DEF LockedInv, ScanCount
    <2> QED
      BY <2>1, <2>2, <2>3, <1>1, <1>2, <1>6
  <1>7. CASE l # current_prio
    <2>1. (l - start_prio) % MAX_PRIO < (current_prio - start_prio) % MAX_PRIO
      <3>1. (l - start_prio) % MAX_PRIO # (current_prio - start_prio) % MAX_PRIO
        BY <1>1, <1>7, DistanceDiffers
      <3>2. /\ (l - start_prio) % MAX_PRIO \in Int
            /\ (current_prio - start_prio) % MAX_PRIO \in Int
        BY <1>1, DistanceValue, MLQAssumption DEF Levels
      <3>3. (l - start_prio) % MAX_PRIO < ((current_prio - start_prio) % MAX_PRIO) + 1
        BY <1>2, <1>5
      <3> QED
        BY <3>1, <3>2, <3>3
    <2> QED
      BY <2>1, <1>2, <1>3 DEF LockedInv, PassedLevelsOfferNothing
  <1> QED
    BY <1>6, <1>7

LEMMA PassedStep == LockedInv /\ [Next]_vars => PassedLevelsOfferNothing'
  <1> SUFFICES ASSUME LockedInv, [Next]_vars, Scanning' PROVE PassedLevelsOfferNothing'
    BY DEF PassedLevelsOfferNothing
  <1> USE MLQAssumption, LockedAssumption DEF TypeOK, Threads, SchedTypeOK
  <1>0. TypeOK /\ LockSound /\ PassedLevelsOfferNothing
    BY DEF LockedInv
  <1>1. ASSUME NEW c \in CPUs, NEW e, call[c] = e, e # "none",
               call' = [call EXCEPT ![c] = "none"]
        PROVE  FALSE
    <2>1. \A u \in CPUs \ {c} : call[u] = "none"
      BY <1>1, OnlyCaller
    <2> QED
      BY <1>1, <1>0, <2>1 DEF Scanning
  <1>2. ASSUME NEW c \in CPUs, GetHit(c) PROVE FALSE
    BY <1>1, <1>2 DEF GetHit, Unlock
  <1>3. ASSUME NEW c \in CPUs, PutEnd(c) PROVE FALSE
    BY <1>1, <1>3 DEF PutEnd, Unlock
  <1>4. CASE AddEnd
    <2>1. \A u \in CPUs : call[u] = "none"
      BY <1>4, OnlyCaller DEF AddEnd
    <2> QED
      BY <1>4, <1>0, <2>1 DEF AddEnd, Unlock, Scanning
  <1>5. ASSUME NEW c \in CPUs, GetMiss(c) PROVE PassedLevelsOfferNothing'
    <2>1. NextLevel # start_prio
      BY <1>1, <1>5 DEF GetMiss, Unlock
    <2> QED
      BY <1>5, <2>1, PassedGrows
  <1>6. ASSUME NEW c \in CPUs, GetBegin(c) PROVE PassedLevelsOfferNothing'
    \* A scan that begins has passed no level.
    <2>1. current_prio' = start_prio' /\ start_prio' \in Levels
      BY <1>6, <1>0 DEF GetBegin, mlqVars, MLQTypeOK, schedVars
    <2>2. \A l \in Levels : ~((l - start_prio') % MAX_PRIO < (current_prio' - start_prio') % MAX_PRIO)
      BY <2>1, DistanceValue DEF Levels
    <2> QED
      BY <2>2 DEF PassedLevelsOfferNothing
  <1>7. ASSUME NEW c \in CPUs, PutBegin(c) PROVE FALSE
    BY <1>7, <1>0 DEF PutBegin, Lock, Scanning, LockSound, schedVars
  <1>8. ASSUME NEW p \in Procs, AddBegin(p) PROVE FALSE
    BY <1>8, <1>0 DEF AddBegin, Lock, Scanning, LockSound, schedVars
  <1>9. CASE UNCHANGED <<mlqVars, lockVars>>
    BY <1>9, <1>0 DEF lockVars, mlqVars, Scanning, PassedLevelsOfferNothing, slot
  <1> QED
    BY <1>2, <1>3, <1>4, <1>5, <1>6, <1>7, <1>8, <1>9
    DEF Next, InsideLock, Finish, vars, FinishOutside, schedVars

\* In every interleaving of CPUs and the loader, for any number of them and
\* of levels, one thread at a time is inside queue_lock, and the scan of
\* get_mlq_proc (sched.c:63-80) has passed no level it could have served.
THEOREM LockedInvariant == Spec => []LockedInv
  <1>1. LockedInv /\ [Next]_vars => LockedInv'
    BY LockedTypeStep, LockSoundStep, ScanCountStep, PassedStep DEF LockedInv
  <1> QED
    BY <1>1, LockedInit, PTL DEF Spec

-----------------------------------------------------------------------------
(* The refinement                                                          *)

CP == IF Scanning THEN start_prio ELSE current_prio
CS == IF Scanning THEN startSlot ELSE curr_slot

LEMMA SameConstants == Abstract!Levels = Levels /\ Abstract!slot = slot
  BY DEF Abstract!Levels, Levels, Abstract!slot, slot

\* The end of a call that leaves no scan behind.
LEMMA NoScanLeft ==
    ASSUME LockedInv, NEW t \in Threads, call[t] # "none", call' = [call EXCEPT ![t] = "none"]
    PROVE  ~Scanning'
  <1>1. \A u \in Threads \ {t} : call[u] = "none"
    BY OnlyCaller
  <1>2. call \in [Threads -> {"none", "get", "put", "add"}]
    BY DEF LockedInv, TypeOK, SchedTypeOK
  <1> QED
    BY <1>1, <1>2 DEF Scanning, Threads

\* A thread that is in a call other than get_proc excludes a scan.
LEMMA NoScanBeside ==
    ASSUME LockedInv, NEW t \in Threads, call[t] \in {"put", "add"}
    PROVE  ~Scanning
  BY OnlyCaller DEF Scanning, Threads

\* Whoever begins a call finds the mutex free, and no scan.
LEMMA NoScanAtLock ==
    ASSUME LockedInv, NEW t \in Threads, NEW f, Lock(t, f)
    PROVE  ~Scanning
  BY LockedAssumption DEF Scanning, Threads, Lock, LockedInv, LockSound

\* The scan that hits at the level it has reached takes the process that
\* get_mlq_proc as one step takes.
LEMMA HitIsGet ==
    ASSUME LockedInv, NEW c \in CPUs, GetHit(c)
    PROVE  Abstract!Get(c)
  <1> DEFINE l == current_prio
             p == Head(mlq_ready_queue[l])
  <1>1. /\ MLQTypeOK /\ l \in Levels /\ start_prio \in Levels
        /\ startSlot \in Nat /\ curr_slot \in Nat
    BY DEF LockedInv, TypeOK, MLQTypeOK, SchedTypeOK
  <1>2. call[c] = "get" /\ Found /\ Scanning /\ c \in Threads
    BY DEF GetHit, Scanning, Threads
  <1>3. ~Scanning'
    BY <1>2, NoScanLeft DEF GetHit, Unlock
  <1>4. p \in Procs
    BY <1>1, <1>2, FoundHead
  <1>5. CP = start_prio /\ CS = startSlot /\ CP' = l /\ CS' = curr_slot + 1
    BY <1>2, <1>3 DEF CP, CS, GetHit
  <1>6. curr_slot = IF l = start_prio THEN startSlot ELSE 0
    BY <1>2 DEF LockedInv, ScanCount
  <1>7. Abstract!HasTurn(l)
    BY <1>2, <1>5, <1>6, SameConstants DEF Abstract!HasTurn, Abstract!empty, Found, empty, CP, CS
  <1>8. ASSUME NEW k \in Levels, Abstract!HasTurn(k)
        PROVE  (l - CP) % MAX_PRIO <= (k - CP) % MAX_PRIO
    <2>1. ~empty(mlq_ready_queue[k]) /\ (k = start_prio => startSlot < slot[k])
      BY <1>8, <1>5, SameConstants DEF Abstract!HasTurn, Abstract!empty, empty, CP, CS
    <2>2. slot[k] \in Nat
      BY SlotPositive
    <2>3. ~((k - start_prio) % MAX_PRIO < (l - start_prio) % MAX_PRIO)
      BY <2>1, <2>2, <1>1, <1>2 DEF LockedInv, PassedLevelsOfferNothing
    <2>4. (k - start_prio) % MAX_PRIO \in Int /\ (l - start_prio) % MAX_PRIO \in Int
      BY <1>1, MLQAssumption DEF Levels
    <2> QED
      BY <2>3, <2>4, <1>5
  <1>9. Abstract!Serve(l)
    BY <1>7, <1>8, SameConstants DEF Abstract!Serve, Abstract!Distance, CP
  <1>10. Abstract!SlotAfter(l) = curr_slot + 1
    BY <1>5, <1>6, <1>1 DEF Abstract!SlotAfter, CP, CS
  <1>11. Abstract!TakeFrom(l, p)
    BY <1>9, <1>10, <1>5 DEF Abstract!TakeFrom, GetHit, CP, CS
  <1>12. Abstract!get_mlq_proc(p)
    BY <1>11, <1>1, SameConstants DEF Abstract!get_mlq_proc
  <1>13. running[c] = NULL
    BY <1>2 DEF LockedInv, LockSound
  <1> QED
    BY <1>12, <1>4, <1>13 DEF Abstract!Get, GetHit

\* The scan that comes back to where it started has found that no level has
\* a process it may take.
LEMMA LastMissIsGet ==
    ASSUME LockedInv, NEW c \in CPUs, GetMiss(c), NextLevel = start_prio
    PROVE  Abstract!Get(c)
  <1>1. /\ MLQTypeOK /\ current_prio \in Levels /\ start_prio \in Levels
        /\ startSlot \in Nat /\ curr_slot \in Nat
    BY DEF LockedInv, TypeOK, MLQTypeOK, SchedTypeOK
  <1>2. call[c] = "get" /\ ~Found /\ Scanning /\ c \in Threads
    BY DEF GetMiss, Scanning, Threads
  <1>3. ~Scanning'
    BY <1>2, NoScanLeft DEF GetMiss, Unlock
  <1>4. CP = start_prio /\ CS = startSlot /\ CP' = start_prio /\ CS' = 0
    BY <1>2, <1>3 DEF CP, CS, GetMiss
  <1>5. curr_slot = IF current_prio = start_prio THEN startSlot ELSE 0
    BY <1>2 DEF LockedInv, ScanCount
  <1>6. ASSUME NEW k \in Levels PROVE ~Abstract!HasTurn(k)
    <2>0. slot[k] \in Nat \ {0}
      BY SlotPositive
    <2>1. SUFFICES \/ empty(mlq_ready_queue[k])
                   \/ k = start_prio /\ startSlot >= slot[k]
      BY <2>0, <1>1, <1>4, SameConstants DEF Abstract!HasTurn, Abstract!empty, empty, CP, CS
    <2>2. CASE k = current_prio
      BY <2>2, <2>0, <1>1, <1>2, <1>5 DEF Found
    <2>3. CASE k # current_prio
      <3>1. (k - start_prio) % MAX_PRIO # (current_prio - start_prio) % MAX_PRIO
        BY <2>3, <1>1, DistanceDiffers
      <3>2. /\ (k - start_prio) % MAX_PRIO \in 0 .. (MAX_PRIO - 1)
            /\ (current_prio - start_prio) % MAX_PRIO \in Int
        BY <1>1, MLQAssumption DEF Levels
      <3>3. (current_prio - start_prio) % MAX_PRIO = MAX_PRIO - 1
        BY <1>1, LastDistance
      <3>4. (k - start_prio) % MAX_PRIO < (current_prio - start_prio) % MAX_PRIO
        BY <3>1, <3>2, <3>3, MLQAssumption
      <3> QED
        BY <3>4, <1>2 DEF LockedInv, PassedLevelsOfferNothing
    <2> QED
      BY <2>2, <2>3
  <1>7. Abstract!GetNone(NULL)
    BY <1>6, <1>4, SameConstants DEF Abstract!GetNone, GetMiss, CP, CS
  <1>8. Abstract!get_mlq_proc(NULL)
    BY <1>7 DEF Abstract!get_mlq_proc
  <1>9. running[c] = NULL /\ running' = [running EXCEPT ![c] = NULL]
    BY <1>2 DEF LockedInv, LockSound, TypeOK, GetMiss, SchedTypeOK
  <1> QED
    BY <1>8, <1>9 DEF Abstract!Get, GetMiss

LEMMA LockedStep == LockedInv /\ [Next]_vars => [Abstract!SchedNext]_(Abstract!schedVars)
  <1> SUFFICES ASSUME LockedInv, [Next]_vars
               PROVE  Abstract!SchedNext \/ UNCHANGED Abstract!schedVars
    OBVIOUS
  <1>1. ASSUME CP' = CP, CS' = CS, UNCHANGED <<mlq_ready_queue, unborn, running, finished>>
        PROVE  UNCHANGED Abstract!schedVars
    BY <1>1 DEF Abstract!schedVars, Abstract!mlqVars, CP, CS
  <1>2. ASSUME NEW c \in CPUs, GetHit(c) PROVE Abstract!SchedNext
    BY <1>2, HitIsGet DEF Abstract!SchedNext, Abstract!CPUStep
  <1>3. ASSUME NEW c \in CPUs, GetMiss(c) PROVE Abstract!SchedNext \/ UNCHANGED Abstract!schedVars
    <2>1. CASE NextLevel = start_prio
      BY <1>3, <2>1, LastMissIsGet DEF Abstract!SchedNext, Abstract!CPUStep
    <2>2. CASE NextLevel # start_prio
      <3>1. Scanning /\ Scanning'
        BY <1>3, <2>2 DEF GetMiss, Scanning
      <3> QED
        BY <1>1, <1>3, <3>1 DEF GetMiss, CP, CS
    <2> QED
      BY <2>1, <2>2
  <1>4. ASSUME NEW c \in CPUs, PutEnd(c) PROVE Abstract!SchedNext
    <2>1. call[c] = "put" /\ c \in Threads
      BY <1>4 DEF PutEnd, Threads
    <2>2. ~Scanning /\ ~Scanning'
      BY <1>4, <2>1, NoScanBeside, NoScanLeft DEF PutEnd, Unlock
    <2>3. CP' = CP /\ CS' = CS
      BY <1>4, <2>2 DEF CP, CS, PutEnd, EnqueueProc
    <2>4. Abstract!put_proc(running[c])
      BY <1>4, <2>3 DEF Abstract!put_proc, Abstract!EnqueueProc, Abstract!enqueue,
                        PutEnd, EnqueueProc, enqueue, CP, CS
    <2>5. running[c] # NULL
      BY <2>1, <1>4 DEF LockedInv, LockSound
    <2>6. Abstract!Put(c)
      BY <1>4, <2>4, <2>5 DEF Abstract!Put, PutEnd
    <2> QED
      BY <2>6 DEF Abstract!SchedNext, Abstract!CPUStep
  <1>5. ASSUME AddEnd PROVE Abstract!SchedNext
    <2>1. call[loader] = "add" /\ loader \in Threads
      BY <1>5 DEF AddEnd, Threads
    <2>2. ~Scanning /\ ~Scanning'
      BY <1>5, <2>1, NoScanBeside, NoScanLeft DEF AddEnd, Unlock
    <2>3. CP' = CP /\ CS' = CS
      BY <1>5, <2>2 DEF CP, CS, AddEnd, EnqueueProc
    <2>4. adding \in unborn /\ adding \in Procs
      BY <2>1 DEF LockedInv, LockSound, TypeOK, SchedTypeOK
    <2>5. Abstract!add_proc(adding)
      BY <1>5, <2>3 DEF Abstract!add_proc, Abstract!EnqueueProc, Abstract!enqueue,
                        AddEnd, EnqueueProc, enqueue, CP, CS
    <2>6. Abstract!Add(adding)
      BY <1>5, <2>4, <2>5 DEF Abstract!Add, AddEnd
    <2> QED
      BY <2>4, <2>6 DEF Abstract!SchedNext
  <1>6. ASSUME NEW c \in CPUs, GetBegin(c) PROVE UNCHANGED Abstract!schedVars
    <2>1. ~Scanning
      BY <1>6, NoScanAtLock DEF GetBegin, Threads, schedVars
    <2>2. CP' = CP /\ CS' = CS
      BY <1>6, <2>1 DEF CP, CS, GetBegin, mlqVars, schedVars
    <2> QED
      BY <1>1, <1>6, <2>2 DEF GetBegin, mlqVars, schedVars
  <1>7. ASSUME NEW t \in Threads, NEW f \in {"put", "add"}, Lock(t, f),
               UNCHANGED <<mlqVars, unborn, running, finished>>
        PROVE  UNCHANGED Abstract!schedVars
    <2>1. ~Scanning
      BY <1>7, NoScanAtLock
    <2>2. ~Scanning'
      <3>1. \A c \in CPUs : call'[c] # "get"
        BY <1>7, <2>1 DEF Lock, Scanning, LockedInv, TypeOK, Threads, SchedTypeOK
      <3> QED
        BY <3>1 DEF Scanning
    <2>3. CP' = CP /\ CS' = CS
      BY <1>7, <2>1, <2>2 DEF CP, CS, mlqVars
    <2> QED
      BY <1>1, <1>7, <2>3 DEF mlqVars
  <1>8. ASSUME NEW c \in CPUs, PutBegin(c) PROVE UNCHANGED Abstract!schedVars
    BY <1>7, <1>8 DEF PutBegin, Threads, schedVars
  <1>9. ASSUME NEW p \in Procs, AddBegin(p) PROVE UNCHANGED Abstract!schedVars
    BY <1>7, <1>9 DEF AddBegin, Threads, schedVars
  <1>10. ASSUME NEW c \in CPUs, FinishOutside(c) PROVE Abstract!SchedNext
    <2>1. CP' = CP /\ CS' = CS /\ UNCHANGED mlq_ready_queue
      BY <1>10 DEF Finish, CP, CS, Scanning, lockVars, mlqVars, FinishOutside
    <2>2. Abstract!Finish(c)
      BY <1>10, <2>1 DEF Finish, Abstract!Finish, Abstract!mlqVars, CP, CS, FinishOutside
    <2> QED
      BY <2>2 DEF Abstract!SchedNext, Abstract!CPUStep
  <1>11. CASE UNCHANGED vars
    <2>1. CP' = CP /\ CS' = CS
      BY <1>11 DEF CP, CS, Scanning, vars, lockVars, mlqVars, schedVars
    <2> QED
      BY <1>1, <1>11, <2>1 DEF vars, mlqVars, schedVars
  <1> QED
    BY <1>2, <1>3, <1>4, <1>5, <1>6, <1>8, <1>9, <1>10, <1>11 DEF Next, InsideLock

\* get_proc, put_proc and add_proc under queue_lock, however they interleave,
\* are the atomic operations of MLQScheduler: the loop of get_mlq_proc serves
\* the level that Serve names and returns NULL only if none has a turn.
THEOREM MLQSchedulerImplemented == Spec => ImplementsMLQScheduler
  <1>1. Init => Abstract!SchedInit
    <2> SUFFICES ASSUME Init PROVE Abstract!SchedInit
      OBVIOUS
    <2>1. ~Scanning
      BY DEF Init, Scanning, Threads, SchedInit
    <2> QED
      BY <2>1, SameConstants DEF Init, SchedInit, init_scheduler,
                                 Abstract!SchedInit, Abstract!init_scheduler
  <1> QED
    BY <1>1, LockedStep, LockedInvariant, PTL
    DEF Spec, ImplementsMLQScheduler, Abstract!SchedSpec
=============================================================================
