------------------------------ MODULE MLQProofs ------------------------------
(***************************************************************************)
(* What the operations of the ready queue (MLQ) return and preserve, for   *)
(* any number of levels and any capacity.  MLQSchedulerProofs and          *)
(* SimulatorProofs rest on these lemmas.                                   *)
(***************************************************************************)
EXTENDS MLQ, SequenceTheorems, TLAPS

-----------------------------------------------------------------------------
(* The operators of queue.c                                                *)

\* enqueue yields a sequence that is the old one, or the old one with the
\* process behind it.
LEMMA EnqueueCases ==
    ASSUME NEW q \in Seq(Procs), NEW p \in Procs
    PROVE  /\ enqueue(q, p) \in Seq(Procs)
           /\ \/ enqueue(q, p) = q /\ Len(q) >= MAX_QUEUE_SIZE
              \/ /\ enqueue(q, p) = Append(q, p)
                 /\ Len(enqueue(q, p)) = Len(q) + 1
                 /\ enqueue(q, p)[Len(q) + 1] = p
                 /\ \A i \in 1 .. Len(q) : enqueue(q, p)[i] = q[i]
  BY AppendProperties, LenProperties DEF enqueue

\* Dequeuing shifts the remaining processes to the front by one.
LEMMA TailShifts ==
    ASSUME NEW q \in Seq(Procs), q # <<>>
    PROVE  /\ Tail(q) \in Seq(Procs)
           /\ Len(q) \in Nat \ {0}
           /\ Len(Tail(q)) = Len(q) - 1
           /\ \A i \in 1 .. Len(Tail(q)) : Tail(q)[i] = q[i + 1]
           /\ Head(q) = q[1] /\ Head(q) \in Procs
  BY HeadTailProperties, LenProperties, EmptySeq

-----------------------------------------------------------------------------
(* Types and the quota                                                     *)

LEMMA SlotPositive == \A l \in Levels : slot[l] \in Nat \ {0}
  BY MLQAssumption DEF slot, Levels

\* What one dequeue by get_mlq_proc does, in terms of the level it serves.
LEMMA TakeFromType ==
    ASSUME MLQTypeOK, NEW l \in Levels, NEW p, TakeFrom(l, p)
    PROVE  MLQTypeOK' /\ p \in Procs /\ mlq_ready_queue[l] # <<>>
  <1>1. mlq_ready_queue[l] # <<>>
    BY DEF TakeFrom, Serve, HasTurn, empty
  <1>2. mlq_ready_queue[l] \in Seq(Procs)
    BY DEF MLQTypeOK
  <1>3. SlotAfter(l) \in Nat
    BY DEF SlotAfter, MLQTypeOK
  <1> QED
    BY <1>1, <1>2, <1>3, TailShifts DEF TakeFrom, MLQTypeOK

LEMMA EnqueueProcType ==
    ASSUME MLQTypeOK, NEW p \in Procs, EnqueueProc(p)
    PROVE  MLQTypeOK'
  <1>1. prio[p] \in Levels
    BY MLQAssumption
  <1>2. mlq_ready_queue[prio[p]] \in Seq(Procs)
    BY <1>1 DEF MLQTypeOK
  <1>3. enqueue(mlq_ready_queue[prio[p]], p) \in Seq(Procs)
    BY <1>2, EnqueueCases
  <1> QED
    BY <1>1, <1>3 DEF EnqueueProc, MLQTypeOK

\* One get_mlq_proc, whatever it returns.
LEMMA GetType ==
    ASSUME MLQTypeOK, NEW p, get_mlq_proc(p)
    PROVE  MLQTypeOK' /\ p \in Procs \cup {NULL}
  <1>1. CASE \E l \in Levels : TakeFrom(l, p)
    BY <1>1, TakeFromType
  <1>2. CASE GetNone(p)
    BY <1>2 DEF GetNone, MLQTypeOK
  <1> QED
    BY <1>1, <1>2 DEF get_mlq_proc

LEMMA GetQuota ==
    ASSUME MLQTypeOK, QuotaRespected, NEW p, get_mlq_proc(p)
    PROVE  QuotaRespected'
  <1>1. CASE GetNone(p)
    BY <1>1, SlotPositive DEF GetNone, QuotaRespected, MLQTypeOK, slot
  <1>2. ASSUME NEW l \in Levels, TakeFrom(l, p) PROVE QuotaRespected'
    <2>1. slot[l] \in Nat \ {0} /\ curr_slot \in Nat
      BY SlotPositive DEF MLQTypeOK
    <2>2. current_prio' = l /\ curr_slot' = SlotAfter(l)
      BY <1>2 DEF TakeFrom
    <2>3. l = current_prio => curr_slot < slot[l]
      BY <1>2 DEF TakeFrom, Serve, HasTurn
    <2>4. SlotAfter(l) <= slot[l]
      BY <2>1, <2>3 DEF SlotAfter
    <2> QED
      BY <2>2, <2>4 DEF QuotaRespected, slot
  <1> QED
    BY <1>1, <1>2 DEF get_mlq_proc

-----------------------------------------------------------------------------
(* What a dequeue and an enqueue do to the processes that wait             *)

\* A dequeued process leaves the ready queue; the others keep their places.
LEMMA TakeFromQueues ==
    ASSUME MLQTypeOK, QueuesSound, NEW l \in Levels, NEW p, TakeFrom(l, p)
    PROVE  /\ QueuesSound'
           /\ Waiting(p) /\ ~Waiting(p)'
           /\ \A x : Waiting(x)' => Waiting(x)
           /\ \A x : Waiting(x) => Waiting(x)' \/ x = p
  <1> DEFINE q == mlq_ready_queue[l]
  <1>1. q \in Seq(Procs) /\ q # <<>>
    BY DEF TakeFrom, Serve, HasTurn, empty, MLQTypeOK
  <1>2. /\ Len(q) \in Nat \ {0}
        /\ Len(Tail(q)) = Len(q) - 1
        /\ \A i \in 1 .. Len(Tail(q)) : Tail(q)[i] = q[i + 1]
        /\ Head(q) = q[1]
    BY <1>1, TailShifts
  <1>3. /\ p = q[1]
        /\ mlq_ready_queue'[l] = Tail(q)
        /\ \A k \in Levels \ {l} : mlq_ready_queue'[k] = mlq_ready_queue[k]
    BY <1>2 DEF TakeFrom, MLQTypeOK
  <1>4. QueuesSound'
    <2>1. SUFFICES ASSUME NEW k \in Levels,
                          NEW i \in 1 .. Len(mlq_ready_queue'[k]),
                          NEW j \in 1 .. Len(mlq_ready_queue'[k])
                   PROVE  /\ prio[mlq_ready_queue'[k][i]] = k
                          /\ mlq_ready_queue'[k][i] = mlq_ready_queue'[k][j] => i = j
      BY DEF QueuesSound
    <2>2. CASE k = l
      <3>1. i + 1 \in 1 .. Len(q) /\ j + 1 \in 1 .. Len(q)
        BY <2>2, <1>2, <1>3
      <3>2. mlq_ready_queue'[k][i] = q[i + 1] /\ mlq_ready_queue'[k][j] = q[j + 1]
        BY <2>2, <1>2, <1>3
      <3>3. prio[q[i + 1]] = l /\ (q[i + 1] = q[j + 1] => i + 1 = j + 1)
        BY <3>1 DEF QueuesSound
      <3> QED
        BY <3>2, <3>3, <2>2
    <2>3. CASE k # l
      BY <2>3, <1>3 DEF QueuesSound
    <2> QED
      BY <2>2, <2>3
  <1>5. Waiting(p)
    BY <1>2, <1>3 DEF Waiting
  <1>6. ~Waiting(p)'
    <2>1. SUFFICES ASSUME NEW k \in Levels,
                          NEW i \in 1 .. Len(mlq_ready_queue'[k]),
                          mlq_ready_queue'[k][i] = p
                   PROVE  FALSE
      BY DEF Waiting
    <2>2. CASE k = l
      <3>1. i + 1 \in 1 .. Len(q) /\ 1 \in 1 .. Len(q) /\ q[i + 1] = q[1]
        BY <2>1, <2>2, <1>2, <1>3
      <3>2. i + 1 = 1
        BY <3>1 DEF QueuesSound
      <3> QED
        BY <3>2
    <2>3. CASE k # l
      <3>1. mlq_ready_queue[k][i] = p /\ i \in 1 .. Len(mlq_ready_queue[k])
        BY <2>1, <2>3, <1>3
      <3>2. prio[p] = k
        BY <3>1 DEF QueuesSound
      <3>3. prio[p] = l
        BY <1>2, <1>3 DEF QueuesSound
      <3> QED
        BY <3>2, <3>3, <2>3
    <2> QED
      BY <2>2, <2>3
  <1>7. ASSUME NEW x, Waiting(x)' PROVE Waiting(x)
    <2>1. PICK k \in Levels : \E i \in 1 .. Len(mlq_ready_queue'[k]) :
                                   mlq_ready_queue'[k][i] = x
      BY <1>7 DEF Waiting
    <2>2. PICK i \in 1 .. Len(mlq_ready_queue'[k]) : mlq_ready_queue'[k][i] = x
      BY <2>1
    <2>3. CASE k = l
      <3>1. i + 1 \in 1 .. Len(q) /\ q[i + 1] = x
        BY <2>2, <2>3, <1>2, <1>3
      <3> QED
        BY <3>1 DEF Waiting
    <2>4. CASE k # l
      BY <2>2, <2>4, <1>3 DEF Waiting
    <2> QED
      BY <2>3, <2>4
  <1>8. ASSUME NEW x, Waiting(x), x # p PROVE Waiting(x)'
    <2>1. PICK k \in Levels : \E i \in 1 .. Len(mlq_ready_queue[k]) :
                                   mlq_ready_queue[k][i] = x
      BY <1>8 DEF Waiting
    <2>2. PICK i \in 1 .. Len(mlq_ready_queue[k]) : mlq_ready_queue[k][i] = x
      BY <2>1
    <2>3. CASE k = l
      <3>1. i # 1
        BY <2>2, <2>3, <1>3, <1>8
      <3>2. i - 1 \in 1 .. Len(Tail(q)) /\ Tail(q)[i - 1] = x
        BY <3>1, <2>2, <2>3, <1>2
      <3> QED
        BY <3>2, <1>3 DEF Waiting
    <2>4. CASE k # l
      BY <2>2, <2>4, <1>3 DEF Waiting
    <2> QED
      BY <2>3, <2>4
  <1> QED
    BY <1>4, <1>5, <1>6, <1>7, <1>8

\* A process that was not waiting joins its own level, behind the others,
\* unless that level is full.
LEMMA EnqueueProcQueues ==
    ASSUME MLQTypeOK, QueuesSound, NEW p \in Procs, ~Waiting(p), EnqueueProc(p)
    PROVE  /\ QueuesSound'
           /\ \A x : Waiting(x)' => Waiting(x) \/ x = p
           /\ \A x : Waiting(x) => Waiting(x)'
           /\ Waiting(p)' \/ Len(mlq_ready_queue[prio[p]]) >= MAX_QUEUE_SIZE
  <1> DEFINE l == prio[p]
             q == mlq_ready_queue[l]
  <1>1. l \in Levels /\ q \in Seq(Procs) /\ Len(q) \in Nat
    BY MLQAssumption, LenProperties DEF MLQTypeOK
  <1>2. /\ mlq_ready_queue'[l] = enqueue(q, p)
        /\ \A k \in Levels \ {l} : mlq_ready_queue'[k] = mlq_ready_queue[k]
    BY <1>1 DEF EnqueueProc, MLQTypeOK
  <1>3. CASE enqueue(q, p) = q /\ Len(q) >= MAX_QUEUE_SIZE
    <2>1. \A k \in Levels : mlq_ready_queue'[k] = mlq_ready_queue[k]
      BY <1>2, <1>3
    <2> QED
      BY <2>1, <1>3 DEF QueuesSound, Waiting
  <1>4. CASE /\ Len(enqueue(q, p)) = Len(q) + 1
             /\ enqueue(q, p)[Len(q) + 1] = p
             /\ \A i \in 1 .. Len(q) : enqueue(q, p)[i] = q[i]
    <2> DEFINE r == mlq_ready_queue'[l]
    <2>1. /\ Len(r) = Len(q) + 1 /\ r[Len(q) + 1] = p
          /\ \A i \in 1 .. Len(q) : r[i] = q[i]
      BY <1>2, <1>4
    <2>2. \A i \in 1 .. Len(q) : q[i] # p /\ prio[q[i]] = l
      BY <1>1 DEF Waiting, QueuesSound
    <2>3. QueuesSound'
      <3>1. SUFFICES ASSUME NEW k \in Levels,
                            NEW i \in 1 .. Len(mlq_ready_queue'[k]),
                            NEW j \in 1 .. Len(mlq_ready_queue'[k])
                     PROVE  /\ prio[mlq_ready_queue'[k][i]] = k
                            /\ mlq_ready_queue'[k][i] = mlq_ready_queue'[k][j] => i = j
        BY DEF QueuesSound
      <3>2. CASE k # l
        BY <3>2, <1>2 DEF QueuesSound
      <3>3. CASE k = l
        <4>1. \A m, n \in 1 .. Len(q) : q[m] = q[n] => m = n
          BY <1>1 DEF QueuesSound
        <4>2. /\ i \in 1 .. Len(q) \/ i = Len(q) + 1
              /\ j \in 1 .. Len(q) \/ j = Len(q) + 1
          BY <3>3, <2>1, <1>1
        <4>3. prio[r[i]] = l
          BY <4>2, <2>1, <2>2
        <4>4. r[i] = r[j] => i = j
          BY <4>1, <4>2, <2>1, <2>2
        <4> QED
          BY <3>3, <4>3, <4>4
      <3> QED
        BY <3>2, <3>3
    <2>4. Waiting(p)'
      <3>1. Len(q) + 1 \in 1 .. Len(r)
        BY <2>1, <1>1
      <3> QED
        BY <3>1, <2>1, <1>1 DEF Waiting
    <2>5. ASSUME NEW x, Waiting(x) PROVE Waiting(x)'
      <3>1. PICK k \in Levels : \E i \in 1 .. Len(mlq_ready_queue[k]) :
                                     mlq_ready_queue[k][i] = x
        BY <2>5 DEF Waiting
      <3>2. PICK i \in 1 .. Len(mlq_ready_queue[k]) : mlq_ready_queue[k][i] = x
        BY <3>1
      <3>3. CASE k = l
        <4>1. i \in 1 .. Len(r) /\ r[i] = x
          BY <3>2, <3>3, <2>1, <1>1
        <4> QED
          BY <4>1, <1>1 DEF Waiting
      <3>4. CASE k # l
        BY <3>2, <3>4, <1>2 DEF Waiting
      <3> QED
        BY <3>3, <3>4
    <2>6. ASSUME NEW x, Waiting(x)', x # p PROVE Waiting(x)
      <3>1. PICK k \in Levels : \E i \in 1 .. Len(mlq_ready_queue'[k]) :
                                     mlq_ready_queue'[k][i] = x
        BY <2>6 DEF Waiting
      <3>2. PICK i \in 1 .. Len(mlq_ready_queue'[k]) : mlq_ready_queue'[k][i] = x
        BY <3>1
      <3>3. CASE k = l
        <4>1. i \in 1 .. Len(q) \/ i = Len(q) + 1
          BY <3>3, <2>1, <1>1
        <4>2. i \in 1 .. Len(q) /\ q[i] = x
          BY <4>1, <3>2, <3>3, <2>1, <2>6
        <4> QED
          BY <4>2, <1>1 DEF Waiting
      <3>4. CASE k # l
        BY <3>2, <3>4, <1>2 DEF Waiting
      <3> QED
        BY <3>3, <3>4
    <2> QED
      BY <2>3, <2>4, <2>5, <2>6
  <1> QED
    BY <1>1, <1>3, <1>4, EnqueueCases

LEMMA WaitingIsProc ==
    ASSUME MLQTypeOK, NEW x, Waiting(x)
    PROVE  x \in Procs
  BY ElementOfSeq DEF MLQTypeOK, Waiting

\* What the scan that finds nothing tells about the processes that wait.
LEMMA NoneFound ==
    ASSUME MLQTypeOK, QueuesSound, QuotaRespected, GetNone(NULL), NEW p, Waiting(p)
    PROVE  /\ prio[p] = current_prio
           /\ curr_slot = slot[current_prio]
           /\ mlq_ready_queue[current_prio] # <<>>
  <1>0. PICK l \in Levels : \E k \in 1 .. Len(mlq_ready_queue[l]) : mlq_ready_queue[l][k] = p
    BY DEF Waiting
  <1>1. PICK k \in 1 .. Len(mlq_ready_queue[l]) : mlq_ready_queue[l][k] = p
    BY <1>0
  <1>2. mlq_ready_queue[l] # <<>>
    BY <1>1, EmptySeq
  <1>3. l = current_prio /\ ~ (curr_slot < slot[l])
    BY <1>2 DEF GetNone, HasTurn, empty
  <1>4. curr_slot \in Nat /\ slot[current_prio] \in Nat
    BY SlotPositive DEF MLQTypeOK
  <1>5. prio[p] = l
    BY <1>1 DEF QueuesSound
  <1> QED
    BY <1>2, <1>3, <1>4, <1>5 DEF QuotaRespected
-----------------------------------------------------------------------------
LEMMA InitScheduler ==
    ASSUME init_scheduler
    PROVE  MLQTypeOK /\ QueuesSound /\ QuotaRespected /\ \A x : ~Waiting(x)
  <1>1. 0 \in Levels /\ slot[0] \in Nat
    BY MLQAssumption, SlotPositive DEF Levels
  <1>2. \A l \in Levels : Len(mlq_ready_queue[l]) = 0
    BY EmptySeq DEF init_scheduler
  <1>3. MLQTypeOK
    BY <1>1, EmptySeq DEF init_scheduler, MLQTypeOK
  <1>4. QueuesSound /\ \A x : ~Waiting(x)
    BY <1>2 DEF QueuesSound, Waiting
  <1>5. QuotaRespected
    BY <1>1 DEF init_scheduler, QuotaRespected
  <1> QED
    BY <1>3, <1>4, <1>5
=============================================================================
