----------------------------- MODULE FrameList -----------------------------
(***************************************************************************)
(* The free_fp_list of one device (src/mm-memphy.c), node by node, with    *)
(* the CPU threads that call MEMPHY_get_freefp and MEMPHY_put_freefp.      *)
(* Each access to the head of the list, and each malloc and free, is a     *)
(* step.                                                                   *)
(*                                                                         *)
(* Frames of RAM are taken by alloc_pages_range, which runs under          *)
(* mmvm_lock, and given back by __free, which does not.  Frames of a swap  *)
(* device are taken by alloc_pages_range and, without the lock, by         *)
(* pg_getpage; none is ever given back.                                    *)
(***************************************************************************)
EXTENDS Integers, Sequences, FiniteSets

CONSTANTS Threads,
          NumFrames,  \* maxsz / pagesz
          Nodes,      \* the addresses malloc hands out for list nodes
          FirstNode,  \* the nodes that MEMPHY_format allocates, per frame
          NULL

Frames == 0 .. (NumFrames - 1)

\* With a single frame MEMPHY_format leaves the list without an end.
ASSUME FrameListAssumption ==
    /\ NumFrames \in Nat \ {0, 1}
    /\ FirstNode \in [Frames -> Nodes]
    /\ \A f, g \in Frames : FirstNode[f] = FirstNode[g] => f = g
    /\ NULL \notin Nodes \cup Threads \cup Frames

VARIABLES device,        \* "ram" or "swap"
          free_fp_list,  \* the head of the list
          fpn, fp_next,  \* the fields of the nodes
          live,          \* the nodes allocated and not yet freed
          mmvm_lock,     \* the thread that holds it, or NULL
          at,            \* per thread, its next step: "idle" or "alloc"
                         \* between two calls, "load", "unlink", "release"
                         \* inside get, "new", "link" inside put
          fp,            \* per thread, its local variable fp
          next,          \* per thread, fp->fp_next as get has read it
          frame,         \* per thread, *retfpn of get, fpn of put
          newnode,       \* per thread, its local variable newnode
          used,          \* how many pages each frame serves
          overtaken,     \* history: threads whose fp is not the head they read
          raced,         \* history: such a thread has stored the head
          corrupt        \* history: a freed node was read or freed

listVars == <<free_fp_list, fpn, fp_next, live>>
threadVars == <<at, fp, next, frame, newnode>>
history == <<overtaken, raced, corrupt>>
vars == <<device, listVars, mmvm_lock, threadVars, used, history>>

TypeOK ==
    /\ device \in {"ram", "swap"}
    /\ free_fp_list \in Nodes \cup {NULL}
    /\ fpn \in [Nodes -> Frames]
    /\ fp_next \in [Nodes -> Nodes \cup {NULL}]
    /\ live \subseteq Nodes
    /\ mmvm_lock \in Threads \cup {NULL}
    /\ at \in [Threads -> {"idle", "alloc", "load", "unlink", "release", "new", "link"}]
    /\ fp \in [Threads -> Nodes \cup {NULL}]
    /\ next \in [Threads -> Nodes \cup {NULL}]
    /\ frame \in [Threads -> Frames]
    /\ newnode \in [Threads -> Nodes \cup {NULL}]
    /\ used \in [Frames -> Nat]
    /\ overtaken \subseteq Threads
    /\ raced \in BOOLEAN /\ corrupt \in BOOLEAN

-----------------------------------------------------------------------------
(* MEMPHY_format: the frames in order                                      *)

NodeOf(n) == CHOOSE f \in Frames : FirstNode[f] = n
Formatted(n) == \E f \in Frames : FirstNode[f] = n

Init ==
    /\ device \in {"ram", "swap"}
    /\ free_fp_list = FirstNode[0]
    /\ live = {FirstNode[f] : f \in Frames}
    /\ fpn = [n \in Nodes |-> IF Formatted(n) THEN NodeOf(n) ELSE 0]
    /\ fp_next = [n \in Nodes |-> IF Formatted(n) /\ NodeOf(n) + 1 \in Frames
                                  THEN FirstNode[NodeOf(n) + 1] ELSE NULL]
    /\ mmvm_lock = NULL
    /\ at = [t \in Threads |-> "idle"]
    /\ fp = [t \in Threads |-> NULL]
    /\ next = [t \in Threads |-> NULL]
    /\ frame = [t \in Threads |-> 0]
    /\ newnode = [t \in Threads |-> NULL]
    /\ used = [f \in Frames |-> 0]
    /\ overtaken = {} /\ raced = FALSE /\ corrupt = FALSE

\* What happens after a freed node has been used is undefined: the model
\* ends there.
At(t, l) == at[t] = l /\ ~corrupt
Goto(t, l) == at' = [at EXCEPT ![t] = l]

\* The local variables of a call end with it.
Return(t, l) ==
    /\ Goto(t, l)
    /\ fp' = [fp EXCEPT ![t] = NULL]
    /\ next' = [next EXCEPT ![t] = NULL]
    /\ newnode' = [newnode EXCEPT ![t] = NULL]
    /\ frame' = [frame EXCEPT ![t] = 0]

\* fp->... and free(fp) are defined for an allocated node only.
Dereference(n) == corrupt' = (n \notin live)

ReadHead(t) ==
    /\ fp' = [fp EXCEPT ![t] = free_fp_list]
    /\ overtaken' = overtaken \ {t}

\* mp->free_fp_list = n: the threads that have read the head and not stored
\* it yet are overtaken.
Reading(t) == at[t] \in {"load", "unlink", "new", "link"}
StoreHead(t, n) ==
    /\ free_fp_list' = n
    /\ raced' = (raced \/ t \in overtaken)
    /\ overtaken' = {s \in Threads \ {t} : s \in overtaken \/ Reading(s)}

-----------------------------------------------------------------------------
(* Callers                                                                 *)

\* __alloc takes mmvm_lock, and alloc_pages_range then asks for one frame
\* after the other.  Variant: the lock is not waited for.
EnterAllocUnlocked(t) ==
    /\ At(t, "idle")
    /\ mmvm_lock' = t
    /\ Goto(t, "alloc")
    /\ UNCHANGED <<device, listVars, fp, next, frame, newnode, used, history>>

EnterAlloc(t) ==
    /\ At(t, "idle") /\ mmvm_lock = NULL
    /\ mmvm_lock' = t
    /\ Goto(t, "alloc")
    /\ UNCHANGED <<device, listVars, fp, next, frame, newnode, used, history>>

LeaveAlloc(t) ==
    /\ At(t, "alloc")
    /\ mmvm_lock' = NULL
    /\ Goto(t, "idle")
    /\ UNCHANGED <<device, listVars, fp, next, frame, newnode, used, history>>

\* Who may take a frame: an allocation, and pg_getpage from swap.
MayGet(t) == At(t, "alloc") \/ (At(t, "idle") /\ device = "swap")

-----------------------------------------------------------------------------
(* MEMPHY_get_freefp                                                       *)

\* fp = mp->free_fp_list, not NULL.  (An empty list changes nothing.)
GetRead(t) ==
    /\ MayGet(t) /\ free_fp_list # NULL
    /\ ReadHead(t)
    /\ Goto(t, "load")
    /\ UNCHANGED <<device, listVars, mmvm_lock, next, frame, newnode, used, raced, corrupt>>

\* *retfpn = fp->fpn, and the read of fp->fp_next.
GetLoad(t) ==
    /\ At(t, "load")
    /\ Dereference(fp[t])
    /\ frame' = [frame EXCEPT ![t] = fpn[fp[t]]]
    /\ next' = [next EXCEPT ![t] = fp_next[fp[t]]]
    /\ Goto(t, "unlink")
    /\ UNCHANGED <<device, listVars, mmvm_lock, fp, newnode, used, overtaken, raced>>

\* mp->free_fp_list = fp->fp_next.  Variant: the node stays in the list.
GetUnlinkNothing(t) ==
    /\ At(t, "unlink")
    /\ StoreHead(t, fp[t])
    /\ Goto(t, "release")
    /\ UNCHANGED <<device, fpn, fp_next, live, mmvm_lock, fp, next, frame, newnode, used, corrupt>>

GetUnlink(t) ==
    /\ At(t, "unlink")
    /\ StoreHead(t, next[t])
    /\ Goto(t, "release")
    /\ UNCHANGED <<device, fpn, fp_next, live, mmvm_lock, fp, next, frame, newnode, used, corrupt>>

\* free(fp) and the return: the frame serves one page more.  What is left of
\* the node's fields is nobody's to read.
GetRelease(t) ==
    /\ At(t, "release")
    /\ Dereference(fp[t])
    /\ live' = live \ {fp[t]}
    /\ fpn' = [fpn EXCEPT ![fp[t]] = 0]
    /\ fp_next' = [fp_next EXCEPT ![fp[t]] = NULL]
    /\ used' = [used EXCEPT ![frame[t]] = @ + 1]
    /\ Return(t, IF mmvm_lock = t THEN "alloc" ELSE "idle")
    /\ UNCHANGED <<device, free_fp_list, mmvm_lock, overtaken, raced>>

-----------------------------------------------------------------------------
(* MEMPHY_put_freefp                                                       *)

\* fp = mp->free_fp_list, for a frame that __free takes away from a page.
\* Variant: also for one that no page has.
PutReadAny(t, f) ==
    /\ At(t, "idle") /\ device = "ram"
    /\ ReadHead(t)
    /\ frame' = [frame EXCEPT ![t] = f]
    /\ used' = [used EXCEPT ![f] = @ - 1]
    /\ Goto(t, "new")
    /\ UNCHANGED <<device, listVars, mmvm_lock, next, newnode, raced, corrupt>>

PutRead(t, f) ==
    /\ At(t, "idle") /\ device = "ram" /\ used[f] > 0
    /\ ReadHead(t)
    /\ frame' = [frame EXCEPT ![t] = f]
    /\ used' = [used EXCEPT ![f] = @ - 1]
    /\ Goto(t, "new")
    /\ UNCHANGED <<device, listVars, mmvm_lock, next, newnode, raced, corrupt>>

\* newnode = malloc(...) and its fields.  malloc may return the address of a
\* node freed just now.
PutNew(t) ==
    /\ At(t, "new")
    /\ \E n \in Nodes \ live :
        /\ live' = live \cup {n}
        /\ newnode' = [newnode EXCEPT ![t] = n]
        /\ fpn' = [fpn EXCEPT ![n] = frame[t]]
        /\ fp_next' = [fp_next EXCEPT ![n] = fp[t]]
    /\ Goto(t, "link")
    /\ UNCHANGED <<device, free_fp_list, mmvm_lock, fp, next, frame, used, history>>

\* mp->free_fp_list = newnode.
PutLink(t) ==
    /\ At(t, "link")
    /\ StoreHead(t, newnode[t])
    /\ Return(t, "idle")
    /\ UNCHANGED <<device, fpn, fp_next, live, mmvm_lock, used, corrupt>>

-----------------------------------------------------------------------------
Step(t) ==
    \/ EnterAlloc(t) \/ LeaveAlloc(t)
    \/ GetRead(t) \/ GetLoad(t) \/ GetUnlink(t) \/ GetRelease(t)
    \/ \E f \in Frames : PutRead(t, f)
    \/ PutNew(t) \/ PutLink(t)

Next == \E t \in Threads : Step(t)

Spec == Init /\ [][Next]_vars

-----------------------------------------------------------------------------
(* Correctness                                                             *)

\* The list as others find it: the nodes from the head on, as long as they
\* are allocated (a list may end in a freed node, or in a circle).
Reachable ==
    LET upTo[k \in Nat] == IF k = 0 THEN {free_fp_list}
                           ELSE upTo[k - 1] \cup {fp_next[n] : n \in upTo[k - 1] \cap live}
    IN  upTo[Cardinality(Nodes)] \cap live

Owners(f) == used[f] + (IF \E n \in Reachable : fpn[n] = f THEN 1 ELSE 0)

\* However the calls of __alloc and __free overlap, no frame of RAM serves
\* two pages, nor is one in use still listed as free, unless a thread has
\* first used a freed node: races alone only lose frames.  (That the gets of RAM
\* hold mmvm_lock is what makes it so.)
NoFrameShared == device = "ram" /\ ~corrupt => \A f \in Frames : Owners(f) <= 1

\* The list as a sequence of frames.
FramesFrom ==
    LET from[k \in Nat, n \in Nodes \cup {NULL}] ==
            IF k = 0 \/ n = NULL THEN <<>> ELSE <<fpn[n]>> \o from[k - 1, fp_next[n]]
    IN  from[Cardinality(Nodes) + 1, free_fp_list]

\* The frames outside the list that somebody has: a page, a get that has
\* unlinked its node, a put that has not linked its own.
InUse ==
    {f \in Frames : used[f] > 0}
        \cup {frame[t] : t \in {s \in Threads : at[s] \in {"release", "new", "link"}}}

Pool == INSTANCE FramePool WITH free <- FramesFrom, in_use <- InUse

\* As long as no thread stores the head over one it has not seen, the list
\* is the stack that Memory takes it for: the overlap of the read and the
\* store is the only hazard, whatever else is interleaved.
ImplementsPool ==
    /\ Pool!PoolInit([k \in 1 .. NumFrames |-> k - 1])
    /\ [][raced' \/ corrupt' \/ Pool!PoolNext \/ UNCHANGED Pool!poolVars]_vars
=============================================================================
