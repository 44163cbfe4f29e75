-------------------------- MODULE FrameListProofs --------------------------
(***************************************************************************)
(* Proofs about FrameList, for every number of threads, frames and nodes.  *)
(***************************************************************************)
EXTENDS FrameList, TLAPS

-----------------------------------------------------------------------------
(* Types                                                                   *)

\* A get works on a node, not on the end of the list.
FpIsNode == \A t \in Threads : at[t] \in {"load", "unlink", "release"} => fp[t] \in Nodes

TypeInv == TypeOK /\ FpIsNode

LEMMA TypeInit == Init => TypeInv
  <1> SUFFICES ASSUME Init PROVE TypeInv
    OBVIOUS
  <1>1. 0 \in Frames /\ \A f \in Frames : FirstNode[f] \in Nodes
    BY FrameListAssumption DEF Frames
  <1>2. ASSUME NEW n \in Nodes, Formatted(n) PROVE NodeOf(n) \in Frames
    BY <1>2 DEF Formatted, NodeOf
  <1>3. fpn \in [Nodes -> Frames]
    BY <1>1, <1>2 DEF Init
  <1>4. fp_next \in [Nodes -> Nodes \cup {NULL}]
    BY <1>1 DEF Init
  <1>5. free_fp_list \in Nodes /\ live \subseteq Nodes /\ used \in [Frames -> Nat]
    BY <1>1 DEF Init
  <1>6. FpIsNode
    BY DEF Init, FpIsNode
  <1> QED
    BY <1>1, <1>3, <1>4, <1>5, <1>6 DEF Init, TypeInv, TypeOK

\* The variables a step of thread t on its own state may give it.
LEMMA ReturnType ==
    ASSUME TypeInv, NEW t \in Threads, NEW l \in {"idle", "alloc"}, Return(t, l)
    PROVE  /\ at' \in [Threads -> {"idle", "alloc", "load", "unlink", "release", "new", "link"}]
           /\ fp' \in [Threads -> Nodes \cup {NULL}] /\ next' \in [Threads -> Nodes \cup {NULL}]
           /\ newnode' \in [Threads -> Nodes \cup {NULL}] /\ frame' \in [Threads -> Frames]
           /\ FpIsNode'
  BY FrameListAssumption DEF TypeInv, TypeOK, FpIsNode, Return, Goto, Frames

LEMMA TypeStep == TypeInv /\ [Next]_vars => TypeInv'
  <1> SUFFICES ASSUME TypeInv, [Next]_vars PROVE TypeInv'
    OBVIOUS
  <1>0. TypeOK /\ FpIsNode
    BY DEF TypeInv
  <1> USE DEF TypeOK, listVars, history
  <1>1. ASSUME NEW t \in Threads, EnterAlloc(t) PROVE TypeInv'
    BY <1>0, <1>1 DEF EnterAlloc, Goto, FpIsNode, TypeInv
  <1>2. ASSUME NEW t \in Threads, LeaveAlloc(t) PROVE TypeInv'
    BY <1>0, <1>2 DEF LeaveAlloc, Goto, FpIsNode, TypeInv
  <1>3. ASSUME NEW t \in Threads, GetRead(t) PROVE TypeInv'
    <2>1. free_fp_list \in Nodes
      BY <1>0, <1>3 DEF GetRead
    <2> QED
      BY <1>0, <1>3, <2>1 DEF GetRead, ReadHead, Goto, FpIsNode, TypeInv
  <1>4. ASSUME NEW t \in Threads, GetLoad(t) PROVE TypeInv'
    <2>1. fp[t] \in Nodes
      BY <1>0, <1>4 DEF GetLoad, At, FpIsNode
    <2> QED
      BY <1>0, <1>4, <2>1 DEF GetLoad, At, Dereference, Goto, FpIsNode, TypeInv
  <1>5. ASSUME NEW t \in Threads, GetUnlink(t) PROVE TypeInv'
    <2>1. overtaken' \subseteq Threads /\ raced' \in BOOLEAN /\ free_fp_list' \in Nodes \cup {NULL}
      BY <1>0, <1>5 DEF GetUnlink, StoreHead
    <2>2. fp[t] \in Nodes
      BY <1>0, <1>5 DEF GetUnlink, At, FpIsNode
    <2> QED
      BY <1>0, <1>5, <2>1, <2>2 DEF GetUnlink, Goto, FpIsNode, TypeInv
  <1>6. ASSUME NEW t \in Threads, GetRelease(t) PROVE TypeInv'
    <2>1. fpn' \in [Nodes -> Frames] /\ fp_next' \in [Nodes -> Nodes \cup {NULL}]
      <3>1. 0 \in Frames
        BY FrameListAssumption DEF Frames
      <3> QED
        BY <1>0, <1>6, <3>1 DEF GetRelease
    <2>2. used' \in [Frames -> Nat] /\ live' \subseteq Nodes /\ corrupt' \in BOOLEAN
      BY <1>0, <1>6 DEF GetRelease, Dereference
    <2> QED
      BY <1>0, <1>6, <2>1, <2>2, ReturnType DEF GetRelease, TypeInv
  <1>7. ASSUME NEW t \in Threads, NEW f \in Frames, PutRead(t, f) PROVE TypeInv'
    <2>1. used' \in [Frames -> Nat]
      BY <1>0, <1>7 DEF PutRead
    <2> QED
      BY <1>0, <1>7, <2>1 DEF PutRead, ReadHead, Goto, FpIsNode, TypeInv
  <1>8. ASSUME NEW t \in Threads, PutNew(t) PROVE TypeInv'
    <2>1. PICK n \in Nodes \ live : /\ live' = live \cup {n}
                                    /\ newnode' = [newnode EXCEPT ![t] = n]
                                    /\ fpn' = [fpn EXCEPT ![n] = frame[t]]
                                    /\ fp_next' = [fp_next EXCEPT ![n] = fp[t]]
      BY <1>8 DEF PutNew
    <2>2. /\ fpn' \in [Nodes -> Frames] /\ fp_next' \in [Nodes -> Nodes \cup {NULL}]
          /\ live' \subseteq Nodes /\ newnode' \in [Threads -> Nodes \cup {NULL}]
      BY <1>0, <2>1
    <2> QED
      BY <1>0, <1>8, <2>2 DEF PutNew, Goto, FpIsNode, TypeInv
  <1>9. ASSUME NEW t \in Threads, PutLink(t) PROVE TypeInv'
    <2>1. overtaken' \subseteq Threads /\ raced' \in BOOLEAN /\ free_fp_list' \in Nodes \cup {NULL}
      BY <1>0, <1>9 DEF PutLink, StoreHead
    <2> QED
      BY <1>0, <1>9, <2>1, ReturnType DEF PutLink, TypeInv
  <1>10. CASE UNCHANGED vars
    BY <1>0, <1>10 DEF vars, threadVars, FpIsNode, TypeInv
  <1> QED
    BY <1>1, <1>2, <1>3, <1>4, <1>5, <1>6, <1>7, <1>8, <1>9, <1>10 DEF Next, Step

\* The list, the nodes and the threads' local variables keep their types
\* through every interleaving of MEMPHY_get_freefp and MEMPHY_put_freefp.
THEOREM FrameListTypeCorrect == Spec => []TypeOK
  <1>1. TypeInv => TypeOK
    BY DEF TypeInv
  <1> QED
    BY <1>1, TypeInit, TypeStep, PTL DEF Spec

-----------------------------------------------------------------------------
(* No frame of RAM serves two pages                                        *)

\* A frame has one of three places: a page, an allocated node, wherever that
\* node hangs, or a put that has not made its node yet.  Nothing is said of
\* the list itself, which the races of puts and gets can tear apart: nodes
\* are only made for frames given back, and only the get that frees a node
\* hands out its frame.
InNode(f) == \E n \in live : fpn[n] = f
BackAt(t, f) == at[t] = "new" /\ frame[t] = f

\* Gets of RAM are made under mmvm_lock, so that one thread at a time works
\* on nodes it may free.
GetsExclude ==
    \A t \in Threads : at[t] \in {"alloc", "load", "unlink", "release"} => mmvm_lock = t

\* The get under way holds an allocated node and that node's frame.
GetHoldsNode ==
    \A t \in Threads :
        at[t] \in {"unlink", "release"} => fp[t] \in live /\ frame[t] = fpn[fp[t]]

OnePlacePerFrame ==
    /\ \A f \in Frames : used[f] <= 1
    /\ \A f \in Frames : used[f] = 1 => ~InNode(f) /\ \A t \in Threads : ~BackAt(t, f)
    /\ \A m, n \in live : fpn[m] = fpn[n] => m = n
    /\ \A f \in Frames, s, t \in Threads : BackAt(s, f) /\ BackAt(t, f) => s = t
    /\ \A f \in Frames, t \in Threads : BackAt(t, f) => ~InNode(f)

RamInv == device = "ram" /\ ~corrupt => GetsExclude /\ GetHoldsNode /\ OnePlacePerFrame

LEMMA RamInit == Init => RamInv
  <1> SUFFICES ASSUME Init PROVE RamInv
    OBVIOUS
  <1>1. \A t \in Threads : at[t] = "idle"
    BY DEF Init
  <1>2. \A f \in Frames : used[f] = 0
    BY DEF Init
  <1>3. ASSUME NEW n \in live PROVE NodeOf(n) \in Frames /\ FirstNode[NodeOf(n)] = n /\ fpn[n] = NodeOf(n)
    <2>1. PICK f \in Frames : n = FirstNode[f]
      BY <1>3 DEF Init
    <2>2. n \in Nodes /\ Formatted(n)
      BY <2>1, FrameListAssumption DEF Formatted
    <2>3. NodeOf(n) \in Frames /\ FirstNode[NodeOf(n)] = n
      BY <2>1 DEF NodeOf
    <2> QED
      BY <2>2, <2>3 DEF Init
  <1>4. \A m, n \in live : fpn[m] = fpn[n] => m = n
    BY <1>3
  <1> QED
    BY <1>1, <1>2, <1>4 DEF RamInv, GetsExclude, GetHoldsNode, OnePlacePerFrame, BackAt

LEMMA RamStep == TypeInv /\ RamInv /\ [Next]_vars => RamInv'
  <1> SUFFICES ASSUME TypeInv, RamInv, [Next]_vars, device = "ram", ~corrupt, ~corrupt'
               PROVE  RamInv'
    <2>1. [Next]_vars => device' = device
      BY DEF Next, Step, EnterAlloc, LeaveAlloc, GetRead, GetLoad, GetUnlink, GetRelease,
             PutRead, PutNew, PutLink, vars
    <2>2. Next => ~corrupt
      BY DEF Next, Step, EnterAlloc, LeaveAlloc, GetRead, MayGet, GetLoad, GetUnlink, GetRelease,
             PutRead, PutNew, PutLink, At
    <2> QED
      BY <2>1, <2>2 DEF RamInv, vars, history
  <1>0. /\ GetsExclude /\ GetHoldsNode /\ OnePlacePerFrame
        /\ TypeOK /\ FpIsNode /\ TypeInv'
    BY TypeStep DEF RamInv, TypeInv
  <1> USE DEF listVars, history
  \* Steps that move no frame.
  <1>a. ASSUME NEW t \in Threads, NEW l, l # "new", at[t] # "new", at' = [at EXCEPT ![t] = l],
               UNCHANGED <<fpn, live, used>>, \A s \in Threads \ {t} : frame'[s] = frame[s]
        PROVE  OnePlacePerFrame'
    <2>1. \A f \in Frames : InNode(f)' <=> InNode(f)
      BY <1>a DEF InNode
    <2>2. \A s \in Threads, f \in Frames : BackAt(s, f)' <=> BackAt(s, f)
      BY <1>a, <1>0 DEF BackAt, TypeOK
    <2> QED
      BY <1>a, <1>0, <2>1, <2>2 DEF OnePlacePerFrame
  <1>1. ASSUME NEW t \in Threads, EnterAlloc(t) PROVE RamInv'
    <2>1. GetsExclude' /\ GetHoldsNode'
      BY <1>0, <1>1, FrameListAssumption DEF EnterAlloc, At, Goto, GetsExclude, GetHoldsNode, TypeOK
    <2>2. OnePlacePerFrame'
      BY <1>1, <1>a DEF EnterAlloc, At, Goto
    <2> QED
      BY <2>1, <2>2 DEF RamInv
  <1>2. ASSUME NEW t \in Threads, LeaveAlloc(t) PROVE RamInv'
    <2>1. GetsExclude' /\ GetHoldsNode'
      BY <1>0, <1>2, FrameListAssumption DEF LeaveAlloc, At, Goto, GetsExclude, GetHoldsNode, TypeOK
    <2>2. OnePlacePerFrame'
      BY <1>2, <1>a DEF LeaveAlloc, At, Goto
    <2> QED
      BY <2>1, <2>2 DEF RamInv
  <1>3. ASSUME NEW t \in Threads, GetRead(t) PROVE RamInv'
    <2>0. at[t] = "alloc"
      BY <1>3 DEF GetRead, MayGet, At
    <2>1. GetsExclude' /\ GetHoldsNode'
      BY <1>0, <1>3, <2>0 DEF GetRead, ReadHead, Goto, GetsExclude, GetHoldsNode, TypeOK
    <2>2. OnePlacePerFrame'
      BY <1>3, <1>a, <2>0 DEF GetRead, Goto
    <2> QED
      BY <2>1, <2>2 DEF RamInv
  <1>4. ASSUME NEW t \in Threads, GetLoad(t) PROVE RamInv'
    <2>0. at[t] = "load" /\ fp[t] \in live
      BY <1>4 DEF GetLoad, At, Dereference
    <2>1. GetsExclude' /\ GetHoldsNode'
      BY <1>0, <1>4, <2>0 DEF GetLoad, Goto, GetsExclude, GetHoldsNode, TypeOK
    <2>2. OnePlacePerFrame'
      BY <1>0, <1>4, <1>a, <2>0 DEF GetLoad, Goto, TypeOK
    <2> QED
      BY <2>1, <2>2 DEF RamInv
  <1>5. ASSUME NEW t \in Threads, GetUnlink(t) PROVE RamInv'
    <2>0. at[t] = "unlink"
      BY <1>5 DEF GetUnlink, At
    <2>1. GetsExclude' /\ GetHoldsNode'
      BY <1>0, <1>5, <2>0 DEF GetUnlink, Goto, GetsExclude, GetHoldsNode, TypeOK
    <2>2. OnePlacePerFrame'
      BY <1>5, <1>a, <2>0 DEF GetUnlink, Goto
    <2> QED
      BY <2>1, <2>2 DEF RamInv
  \* The frame goes from its node to a page: no other node, and no put, has it.
  <1>6. ASSUME NEW t \in Threads, GetRelease(t) PROVE RamInv'
    <2> DEFINE n == fp[t]
               g == frame[t]
    <2>0. /\ at[t] = "release" /\ n \in live /\ n \in Nodes /\ g = fpn[n] /\ g \in Frames
          /\ mmvm_lock = t
      BY <1>0, <1>6 DEF GetRelease, At, GetHoldsNode, GetsExclude, TypeOK
    <2>1. /\ at' = [at EXCEPT ![t] = "alloc"] /\ live' = live \ {n} /\ mmvm_lock' = t
          /\ \A m \in live' : fpn'[m] = fpn[m]
          /\ \A s \in Threads \ {t} : fp'[s] = fp[s] /\ frame'[s] = frame[s]
          /\ used' = [used EXCEPT ![g] = @ + 1]
      BY <1>0, <1>6, <2>0 DEF GetRelease, Return, Goto, TypeOK
    <2>2. GetsExclude' /\ \A s \in Threads \ {t} : at'[s] \notin {"unlink", "release"}
      BY <1>0, <2>0, <2>1 DEF GetsExclude, TypeOK
    <2>3. GetHoldsNode'
      BY <1>0, <2>1, <2>2 DEF GetHoldsNode, TypeOK
    <2>4. InNode(g) /\ used[g] = 0
      <3>1. InNode(g)
        BY <2>0 DEF InNode
      <3>2. used[g] \in Nat /\ used[g] <= 1 /\ used[g] # 1
        BY <1>0, <2>0, <3>1 DEF OnePlacePerFrame, TypeOK
      <3> QED
        BY <3>1, <3>2
    <2>5. used'[g] = 1 /\ \A f \in Frames \ {g} : used'[f] = used[f]
      BY <1>0, <2>0, <2>1, <2>4 DEF TypeOK
    <2>6. \A f \in Frames : InNode(f)' => InNode(f) /\ f # g
      BY <1>0, <2>0, <2>1 DEF InNode, OnePlacePerFrame
    <2>7. \A s \in Threads, f \in Frames : BackAt(s, f)' <=> BackAt(s, f)
      BY <1>0, <2>0, <2>1 DEF BackAt, TypeOK
    <2>8. \A s \in Threads : ~BackAt(s, g)
      BY <1>0, <2>0, <2>4 DEF OnePlacePerFrame
    <2>9. OnePlacePerFrame'
      BY <1>0, <2>1, <2>5, <2>6, <2>7, <2>8 DEF OnePlacePerFrame
    <2> QED
      BY <2>2, <2>3, <2>9 DEF RamInv
  \* The frame goes from a page to the put.
  <1>7. ASSUME NEW t \in Threads, NEW g \in Frames, PutRead(t, g) PROVE RamInv'
    <2>0. at[t] = "idle" /\ used[g] = 1
      BY <1>0, <1>7 DEF PutRead, At, OnePlacePerFrame, TypeOK
    <2>1. /\ at' = [at EXCEPT ![t] = "new"] /\ UNCHANGED <<live, fpn, mmvm_lock>>
          /\ \A s \in Threads \ {t} : fp'[s] = fp[s]
          /\ frame' = [frame EXCEPT ![t] = g]
          /\ used' = [used EXCEPT ![g] = @ - 1]
      BY <1>0, <1>7 DEF PutRead, ReadHead, Goto, TypeOK
    <2>2. GetsExclude' /\ GetHoldsNode'
      BY <1>0, <2>0, <2>1 DEF GetsExclude, GetHoldsNode, TypeOK
    <2>3. used'[g] = 0 /\ \A f \in Frames \ {g} : used'[f] = used[f]
      BY <1>0, <2>0, <2>1 DEF TypeOK
    <2>4. \A f \in Frames : InNode(f)' <=> InNode(f)
      BY <2>1 DEF InNode
    <2>5. \A s \in Threads, f \in Frames : BackAt(s, f)' <=> BackAt(s, f) \/ (s = t /\ f = g)
      BY <1>0, <2>0, <2>1 DEF BackAt, TypeOK
    <2>6. ~InNode(g) /\ \A s \in Threads : ~BackAt(s, g)
      BY <1>0, <2>0 DEF OnePlacePerFrame
    <2>7. \A f \in Frames : ~BackAt(t, f)
      BY <2>0 DEF BackAt
    <2>8. OnePlacePerFrame'
      BY <1>0, <2>1, <2>3, <2>4, <2>5, <2>6, <2>7 DEF OnePlacePerFrame
    <2> QED
      BY <2>2, <2>8 DEF RamInv
  \* The frame goes from the put to the node it makes.
  <1>8. ASSUME NEW t \in Threads, PutNew(t) PROVE RamInv'
    <2> DEFINE g == frame[t]
    <2>0. at[t] = "new" /\ g \in Frames
      BY <1>0, <1>8 DEF PutNew, At, TypeOK
    <2>1. PICK n \in Nodes \ live : /\ live' = live \cup {n}
                                    /\ fpn' = [fpn EXCEPT ![n] = g]
      BY <1>8 DEF PutNew
    <2>2. at' = [at EXCEPT ![t] = "link"] /\ UNCHANGED <<fp, frame, used, mmvm_lock>>
      BY <1>8 DEF PutNew, Goto
    <2>3. fpn'[n] = g /\ \A m \in live : fpn'[m] = fpn[m]
      BY <1>0, <2>1 DEF TypeOK
    <2>4. GetsExclude' /\ GetHoldsNode'
      BY <1>0, <2>1, <2>2, <2>3 DEF GetsExclude, GetHoldsNode, TypeOK
    <2>5. \A f \in Frames : InNode(f)' <=> InNode(f) \/ f = g
      BY <2>1, <2>3 DEF InNode
    <2>6. \A s \in Threads, f \in Frames : BackAt(s, f)' <=> BackAt(s, f) /\ s # t
      BY <1>0, <2>0, <2>2 DEF BackAt, TypeOK
    <2>7. BackAt(t, g)
      BY <2>0 DEF BackAt
    <2>8. ~InNode(g) /\ used[g] # 1 /\ \A s \in Threads : BackAt(s, g) => s = t
      BY <1>0, <2>0, <2>7 DEF OnePlacePerFrame
    <2>9. \A m, k \in live' : fpn'[m] = fpn'[k] => m = k
      BY <1>0, <2>1, <2>3, <2>8 DEF InNode, OnePlacePerFrame
    <2>10. OnePlacePerFrame'
      BY <1>0, <2>2, <2>5, <2>6, <2>8, <2>9 DEF OnePlacePerFrame
    <2> QED
      BY <2>4, <2>10 DEF RamInv
  <1>9. ASSUME NEW t \in Threads, PutLink(t) PROVE RamInv'
    <2>0. at[t] = "link"
      BY <1>9 DEF PutLink, At
    <2>1. GetsExclude' /\ GetHoldsNode'
      BY <1>0, <1>9, <2>0 DEF PutLink, Return, Goto, GetsExclude, GetHoldsNode, TypeOK
    <2>2. OnePlacePerFrame'
      BY <1>0, <1>9, <1>a, <2>0 DEF PutLink, Return, Goto, TypeOK
    <2> QED
      BY <2>1, <2>2 DEF RamInv
  <1>10. CASE UNCHANGED vars
    BY <1>0, <1>10 DEF vars, threadVars, RamInv, GetsExclude, GetHoldsNode, OnePlacePerFrame,
                       InNode, BackAt
  <1> QED
    BY <1>1, <1>2, <1>3, <1>4, <1>5, <1>6, <1>7, <1>8, <1>9, <1>10 DEF Next, Step

\* However __alloc and __free overlap, for any number of threads and frames,
\* no frame of RAM serves two pages or is listed as free while in use, up to
\* the use of a freed node: the unlocked puts (mm-memphy.c:187-197) only
\* lose frames, because gets of RAM hold mmvm_lock.
THEOREM NoFrameSharedCorrect == Spec => []NoFrameShared
  <1>1. TypeInv /\ RamInv => NoFrameShared
    <2> SUFFICES ASSUME TypeInv, RamInv, device = "ram", ~corrupt, NEW f \in Frames
                 PROVE  Owners(f) <= 1
      BY DEF NoFrameShared
    <2>1. used[f] \in Nat /\ used[f] <= 1 /\ (used[f] = 1 => ~InNode(f))
      BY DEF TypeInv, TypeOK, RamInv, OnePlacePerFrame
    <2>2. Reachable \subseteq live
      BY DEF Reachable
    <2>3. (\E n \in Reachable : fpn[n] = f) => InNode(f)
      BY <2>2 DEF InNode
    <2> QED
      BY <2>1, <2>3 DEF Owners
  <1> QED
    BY <1>1, TypeInit, TypeStep, RamInit, RamStep, PTL DEF Spec
=============================================================================
