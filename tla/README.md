# A TLA+ specification of the OS simulator

The program (`src/`, C, built as `os` by the Makefile) simulates a small
operating system: CPU threads execute processes that a loader thread creates
from input files, in time slots counted by a timer thread, and the processes
allocate, free, read and write memory that is paged and swapped. It is compiled
with `MLQ_SCHED` and `MM_PAGING` (`include/os-cfg.h`); the code of the other
configurations is not specified. File names below are those of `src/src/` and
`src/include/`.

## Inventory

| Part | State | Operations | Used by |
|---|---|---|---|
| Ready queue: `sched.c`, `queue.c` | `mlq_ready_queue[MAX_PRIO]` (bounded arrays), `current_prio`, `curr_slot`, `queue_lock` | `init_scheduler`, `get_proc`, `put_proc`, `add_proc` | CPUs and loader, concurrently |
| Slot timer: `timer.c` | `_time`, `dev_list`, per device `done`, `fsh`, two mutexes, two condition variables; `timer_stop` | `attach_event`, `start_timer`, `next_slot`, `detach_event`, `stop_timer`, the thread `timer_routine` | main, CPUs, loader |
| CPUs and loader: `os.c` | locals `proc`, `time_left` of a CPU, `i` of the loader, the unlocked flag `done`, `proc->pc` | `cpu_routine`, `ld_routine`, `main` | |
| Instructions: `cpu.c` | `proc->pc` | `run` | CPUs |
| Virtual address space: `libmem.c`, `mm-vm.c`, `mm.c` | `vm_freerg_list`, `symrgtbl`, `vm_end`, `sbrk` of a process; `mmvm_lock` | `__alloc`, `__free` | instructions |
| Paging: `libmem.c`, `mm.c`, `mm-memphy.c`, `sys_mem.c` | `pgd`, `fifo_pgn` of a process; `storage` and `free_fp_list` of RAM and swap, shared by all | `alloc_pages_range`, `vmap_page_range`, `pg_getpage`, `pg_getval`, `pg_setval`, `find_victim_page`, `MEMPHY_*` | `__alloc`, `__free`, `__read`, `__write` |
| System calls: `syscall.c` and others | none | a switch on the number | `libmem.c`, instructions |
| Loader of input files: `loader.c` | none once it returns | `load` | `ld_routine` |
| `mem.c`, `paging.c` | memory of the configuration without `MM_PAGING` | | not used |

The hard behaviours, and what has to be true of each part:

* **Ready queue.** Several CPUs and the loader interleave; a put and the get
  after it are two critical sections. Correct means: a process is in one place
  at a time and none is lost, quotas are kept, no level starves, `NULL` is
  returned only when there is nothing to take, and the half-way values of a scan
  stay inside the lock.
* **Timer.** A device's flag `done` is set under one mutex and cleared under
  another; wakeups may be spurious; devices are released one after the other
  while the first already run. Correct means: the clock is a barrier, each
  device works exactly once per slot, nobody waits for ever, and containers are
  freed last.
* **CPUs and loader.** `done` is read without a lock, a pointer to a process
  outlives its `put_proc`, `time_left` outlives a process, and CPUs wait for
  each other's allocations inside a time slot. Correct means: whole slices, one
  instruction of a process per slot, the clock goes on, every process finishes,
  all threads end.
* **Address space.** Long sequences of splitting and merging. Correct means:
  regions are disjoint and below the break, and freeing gives back exactly what
  was allocated.
* **Paging.** An allocation can fail half-way, swap out pages, and run while
  other processes free, read and write; `__free` and `pg_getpage` change the
  lists of free frames without a lock. Correct means: a process reads what it
  wrote, frames are neither lost nor shared, a failed allocation leaves no trace,
  an allocation ends.

## Modules

| Module | What it is |
|---|---|
| `MLQ` | The scheduler's static variables and functions; each function holds `queue_lock` throughout and is one step. Its operators, `QueuesSound` and `QuotaRespected` are shared by the modules below. |
| `MLQScheduler` | `MLQ` under concurrent callers reduced to their protocol: `Add`, `Get`, `Put`, `Finish`. The abstract specification of scheduling. |
| `MLQFairness` | `MLQScheduler` with its calls in the order of `cpu_routine`'s loop, the test of `done` that ends the loop, and a history of how often a level was passed over. |
| `MLQLocked` | `MLQScheduler` with the lock explicit and the loop of `get_mlq_proc` one iteration per step; shown to implement `MLQScheduler`. |
| `SlotBarrier` | What the timer promises: an abstract barrier with `Arrive`, `Detach`, `Tick`, `Release`. |
| `Timer` | `timer.c` and main around it: mutexes, condition variables, wait sets, spurious wakeups; implements `SlotBarrier`. |
| `Simulator` | `cpu_routine` and `ld_routine` composed with `MLQ` and `SlotBarrier`; its use of the scheduler is shown to implement `MLQScheduler`. |
| `VmRegions` | The functions on lists of free regions. |
| `AddressSpace` | One process's regions and break: the abstract specification of `__alloc` and `__free`. |
| `Memory` | Several processes' address spaces and page tables on shared RAM and swap; the operations of `libmem.c` and `mm.c`. |
| `ProcessSpace` | What one process, `Self`, sees of `Memory`: `ImplementsAddressSpace`. |
| `MemoryData` | `Memory` with a history of what was written, under programs restricted step by step (`NoFreeSpec`, `MappedSpec`, `FittingSpec`), for the properties that it stays mapped and that reads return it. |
| `FramePool` | What a list of free frames promises: a stack of frames, `MEMPHY_get_freefp` and `MEMPHY_put_freefp` in one step each. The way `Memory` uses it. |
| `FrameList` | The same list node by node, with `malloc`, `free` and the threads that overlap in the two functions; implements `FramePool` as long as no thread overwrites a head it has not seen. |
| `MLQProofs`, `VmRegionsProofs` | Lemmas about the operators of `MLQ` and of `VmRegions`. |
| `MLQSchedulerProofs`, `SimulatorProofs`, `TimerProofs`, `AddressSpaceProofs`, `MemoryProofs`, `FrameListProofs` | Theorems about the module (or modules) of that name; the first also about `MLQFairness` and `MLQLocked`. |
| `MC*` | Instances for TLC. |

### How the modules read the code

*Ready queue.* A level is a sequence, its head the oldest process. The scan of
`get_mlq_proc` is stated by its result: `Serve(l)` is the first level, in cyclic
order from `current_prio`, with a process and quota left (`HasTurn`);
`SlotAfter` is `curr_slot` afterwards. That the loop computes this is what
`MLQLocked` shows. `put_proc` and `add_proc` have the same body.
`prio \in Levels` is a precondition (`os.c:189` stores any number).

*Timer.* A device is its position in the order of attaching, so that `dev_list`
is a number and `d - 1` is `d->next`. Whatever a thread does between lock and
unlock that others cannot see in parts is one action; `pthread_cond_wait` is
three (release and wait, be signalled, take the mutex). `calls` is a history.
`_time` counts modulo `TimeWrap` (2^64 in C).

*CPUs and loader.* A step of a CPU ends where it touches shared state: each of
`get_proc`, `put_proc`, `free`, the read of `done`, and `next_slot`. `at` is the
place in the loop. An instruction has a begin (`BeginInstruction`, the increment
of `pc` at the head of `run`) and an end (`EndInstruction`, which calls
`next_slot`); in between ALLOC takes `mmvm_lock` (`EnterAlloc`), which all
processes share and every return of `__alloc` gives back. What the instruction
does to memory is left to `Memory`, which lets a process have one operation
under way (`Idle`); that the machine keeps to it is `OneInstructionPerSlot`.
`ran` and `burst` are histories.

*Memory.* `__alloc` holds `mmvm_lock`; when it needs new pages it takes one step
per page (`TakeFrame`, `TakeVictim`, `OutOfMemory`, then `FinishGrowth`), with
other processes' frees, reads and writes in between, for those take no lock.
`request` is the allocation that holds the lock. A page table entry keeps its
overlapping bit fields: a frame number in bits 0-12, a swap offset in bits 5-25,
and the present and swapped bits, and the setters cut a value to its field; so reading a swapped entry as a frame number
gives what the C macros give. `__sys_memmap` discards results, so the tests of
`syscall(...) < 0` never fire. A frame number that the code never stores
(`mm.c:181-187`) is any member of `Garbage`, a byte never read any value.

*Lists of free frames.* In `Memory` a get and a put are part of one step. In
`FrameList` the head, the fields of each node and the nodes now allocated are
the state, and a call is cut at each access to the head and at `malloc` and
`free`: a node that one thread frees may be the one another is about to read, and
`malloc` may hand out its address again. Frames of RAM are taken under `mmvm_lock`
and given back without it; frames of swap are also taken without it
(`libmem.c:257`) and never given back. A read or a free of a node that is not
allocated is undefined behaviour: `corrupt` records it and the model ends there.

What is taken as given: memory that `init_mm` and `MEMPHY_format` leave
uninitialised is zero; devices have at least two frames (with one,
`mm-memphy.c:138` leaves the list without an end); `malloc` succeeds; region IDs
are inside the symbol table; `time_slot` is positive, and so is every size asked for (`Sizes > 0`); the break stays inside
the page table.

## Runs

| Run | Instance | Shows |
|---|---|---|
| `MCMLQ` | 4 processes on 3 levels (two share one), 2 CPUs, queues of 2 | `SchedTypeOK`, `QueuesSound`, `OnePlace`, `QuotaRespected`, `NothingLost`, `BoundedOvertaking`, `NullOnlyOnSpentQuota`, `NoStarvation` |
| `MCMLQLocked` | 3 processes on 3 levels, 2 CPUs, loader | `LockedInv`, `ImplementsMLQScheduler`, `LockReleased` |
| `MCTimer` | 3 devices, clock modulo 3 | `TimerInv`, `EverySlotOnce`, `NoUseAfterFree`, `ImplementsBarrier`, `NextSlotReturns`, `ShutsDown` |
| `MCSimulator` | 4 processes of 1, 3, 4 and 5 instructions on levels 0 and 2, 2 CPUs, time slice 2 | `TypeOK`, `WholeSlices`, `AbandonedShareLevel`, `UsesScheduler`, `OneInstructionPerSlot`, `QueuedFinishes`, `ClockAdvances`, `BusyCPUStops` |
| `MCAddressSpace` | 3 regions, sizes 1 to 3, pages of 2, 8 addresses | `ASTypeOK`, `RegionsDisjoint`, `GrowthServes`, `FreeReturnsBytes` |
| `MCMemory` | 2 processes, 1 region each, 2 pages each, 2 frames of RAM, 2 of swap | `TypeOK`, `TrackedWhileSwapLasts`, `PlacesKept`, `ImplementsAddressSpace`, `AllocationEnds` |
| `MCMemoryData` | 3 processes, 2 regions each, 2 pages each, 3 frames, `FittingSpec` | `FramesConserved`, `ReadBack`, `WrittenStaysMapped` |
| `MCFrameList` | 3 threads, 2 frames, 4 node addresses, RAM or swap | `TypeOK`, `NoFrameShared`, `ImplementsPool` |
| `MCSimulatorIdle` | 1 process, 2 CPUs | `AllCPUsStop` is violated |
| `MCSimulatorQuota` | 1 process of the lowest level, 1 CPU | `NoneAbandoned` is violated |
| `MCMemoryLeak` | 2 processes, 2 regions each, 2 frames | `NoFrameLeaks` is violated |
| `MCMemoryLost` | 2 processes, 2 frames, no frees | `ReadBack` is violated |

**Bounds.** The scheduler's rules compare a level with the one being served, so
three levels give a level before, at and after it, with quotas 3, 2 and 1; two
processes at level 0 and two CPUs let a level stay busy while others wait. The
queue capacity of 2 is reached exactly (`CapacitySuffices` is assumed by the
instance and checked by TLC). Three devices give the timer list a first, a
middle and a last element; the clock wraps within the run. In `MCSimulator`
one size is below the slice, one a multiple of it and two neither; three starts
are close enough that all
CPUs, the queue and the loader compete, every process allocates so that CPUs meet
at `mmvm_lock`, and the last is late enough that the
loader waits; the clock wraps only after the loader
has compared it with the last start (`MCClock`). Pages of two bytes with sizes 1
to 3 give regions inside a page, of a page, and across two, and regions that
share a page. `MCMemory` has half the frames its page tables could map: all the
branches of an allocation that runs short and of `pg_getpage` are taken. It looks at
the address space of one of its processes, which are interchangeable.
`MCMemoryData` has half as many frames as pages too, but its programs together
never ask for more pages than there are frames (`FitsInRam`), so that RAM fills up
exactly and empties again, and nothing is swapped; what happens otherwise is
`MCMemoryLost`. Its programs access only addresses of regions they hold, in
pages still mapped: for a page that `__free` has unmapped the address is reused
without a frame (`libmem.c:101`). `MCMemoryData` is symmetric in processes and
regions and checks safety only. `MCFrameList` has three threads so that two can
change the list while a third is inside a call, two frames so that the list runs
empty and has a node behind its head, and two addresses beyond the nodes of
`MEMPHY_format`, so that a put in progress does not force `malloc` to reuse the
address just freed, and may do so.

**Deadlock** is checked in the `MCMLQLocked`, `MCSimulator` and `MCMemory` runs. It is
not in `MCMLQ` (the CPUs stop at `os.c:79-82`), `MCTimer` (the program ends), `MCAddressSpace` and `MCMemoryData` (a full
address space bounded by `MaxBrk`, with nothing the restricted program may do),
`MCFrameList` (the model ends when a freed node has been used), `MCMemoryLeak` and
`MCMemoryLost`.

**Fairness.** `MLQFairness`: every CPU thread goes on with its loop until it leaves it
at `os.c:79-82` (weak fairness per CPU; a CPU that has stopped has no step). That is
justified as in `Simulator` below: between two calls a CPU runs an instruction and
waits in `next_slot`, and both return. Nothing is assumed of the loader, so `done` may
be set late, or never. Since all CPUs may stop while a process waits (violation 2
below), `NoStarvation` promises a CPU to a waiting process only as long as some CPU
goes on; how long a process runs is left open there, so that others may come back for
ever. `MLQLocked`: a thread inside
the critical section runs on. `Timer`: weak fairness of main; strong fairness of
the timer thread and of each device thread, because a spurious wakeup, of which
nothing is assumed, may take and give back a mutex infinitely often, and a
thread that competes for it must not be passed over each time. A device is
assumed to end its work in a slot, as `run` does. `Simulator`: weak fairness of
each CPU, the loader, the tick and each release: `Timer`'s `NextSlotReturns` is
what justifies the last two. Weak fairness is
enough for a CPU that waits for `mmvm_lock` too: every other CPU takes the lock at
most once before it waits in `next_slot` for this one. `FrameList` states none. `Memory`: the thread that holds `mmvm_lock` runs on.

## What the violations show

1. **A CPU without a process may never stop** (`MCSimulatorIdle`). A CPU whose
   `get_proc` fails at the head of the loop goes round it at `os.c:58-61` and
   never reaches the test of `done`. That is the state of every CPU that has not
   had a process yet, and of one that skipped its last slot (`os.c:83-87`): with
   more CPUs than processes left, main never returns. `BusyCPUStops` says what is
   still true: a CPU that has a process when the loader is done comes to its end.
2. **A process can be abandoned** (`MCSimulatorQuota`). `get_proc` also returns
   `NULL` when the only busy level has used up its quota (`sched.c:69-80`), and
   the CPU takes that for an empty queue (`os.c:79-82`). At the lowest level
   (quota 1) one process is enough. `AbandonedShareLevel` says what is still
   true: all abandoned processes are of the level served last.
3. **A failed allocation leaks frames** (`MCMemoryLeak`, `mm.c:169-176`).
4. **Swapping loses data** (`MCMemoryLost`, `mm.c:162-185`): the frame of the
   victim does not reach the page it was taken for, and swapped pages count as
   present, so that they are never brought back.

## What the action properties leave open

Some properties hold up to steps they name; the names are the places where the
code does something else, each of them taken in the runs.

* `PlacesKept`: every step of any program leaves each frame in as many places
  (the free list, a page, the allocation under way) as before, except the
  swapping and the failure of `alloc_pages_range` (3 and 4 above); growth over a
  page that already has an entry, because the program accessed an address beyond
  its break and `pg_getpage` gave it a frame (`mm.c:102` overwrites it); the choice
  of a victim that is not in RAM, because pages unmapped by `__free` stay in
  `fifo_pgn` (frame 0 is then given away, whoever has it: a program like
  `src/input/proc/m0s`, which goes on to use memory after a free, comes there);
  and the freeing of a page in swap, which lists bits of its swap offset as a frame
  (`libmem.c:166`).
* `TrackedWhileSwapLasts`: a page in RAM can be chosen as victim, up to the moment
  the swap device is full (then `libmem.c:250-258` and `mm.c:166` have taken the
  victim off the list before they give up).
* `WrittenStaysMapped`: what a program wrote stays in mapped memory until the
  program frees another region in the same page (`libmem.c:158-170` unmaps every
  page the region touches) or one that was never allocated (the last page is
  computed from address -1, and all are unmapped before the error is reported).
* `ImplementsPool`: the list is a stack until a thread stores the head over one
  it has not seen, or uses a freed node. `NoFrameShared`: for RAM the first of
  these only loses frames, as gets exclude each other.

These properties show that the harm comes from the named steps alone; they do not
catch the harm itself. It is demonstrated by a violated property where `MCMemoryLeak`
and `MCMemoryLost` reach it (3 and 4 above), and otherwise only described here.

## Proofs

TLAPS checks these for all values of the constants that satisfy the named
assumptions of the modules. Every inductive invariant was first checked by TLC on
an instance.

**Scheduler** (`MLQSchedulerProofs`, from `MLQAssumption`).

* `TypeCorrect` and `QuotaCorrect` are inductive by themselves, the second on top
  of the first: the scan zeroes `curr_slot` on leaving a level.
* `OnePlace` is not: a process twice in a queue would still be queued after it was
  handed out. The invariant is `PlaceInv == SchedTypeOK /\ QueuesSound /\ OnePlace`:
  at most one entry per level, at the level of its priority, and so at most one
  in all. `QueuesSoundCorrect` and `OnePlaceCorrect` follow.
* `NothingLostCorrect` assumes finitely many processes and `CapacitySuffices`; a
  process outside the queue then finds fewer than `MAX_QUEUE_SIZE` others in its
  level (`RoomForProc`, an injection), so `enqueue` never drops it. Without the
  assumption the property is false (`queue.c:17`).
* `NullOnlyOnSpentQuotaCorrect`: a scan that returns `NULL` has seen every level
  empty except the one it started from.
* `BoundedOvertakingCorrect`. The bound on `overtaken[l]` alone is not inductive.
  `OvertakenInv` adds to it what is left of the turn under way and the quotas of
  the levels the scan still looks at before `l` (`Between`), and says that the sum
  never exceeds one turn of every other level. A dequeue spends one from the
  turn under way, or skips to a later level and gives up the quotas in between
  (`ScanOrder`); a scan that finds nothing renews a quota while no other level
  waits. The sums of quotas are in closed form (`Above`), twice the sum to stay
  in the integers; `MCMLQ` checks the closed form of `OtherSlots` against the sum.

**The lock** (same module, also from `LockedAssumption`). `LockedInvariant` proves
`LockedInv`: the call under way and the mutex go together, and the levels a scan
has passed offered nothing it could take, for the test of the loop looks at each
level in cyclic order (`DistanceGrows`, `DistanceDiffers`). The step that finds a
process, or comes back to `start_prio`, is then the `Get` of `MLQScheduler`
(`HitIsGet`, `LastMissIsGet`), every other step of a scan a stutter:
`MLQSchedulerImplemented`.

**Timer** (`TimerProofs`, from `TimerAssumption`). `TimerInv` (`TimerInvariant`) has,
besides the types: `FlagsInv`, a device's flags tell where its thread is; `MainInv`,
main, the timer thread and the list move together; `RoundInv`, the devices already
counted in the first loop stay ready until the second loop comes to them (what
makes two mutexes on one flag safe: only the timer clears it, and only in the
second loop); `ClockInv`, the calls a device has completed are `_time`, or one
behind for a device still inside `next_slot` that the clock has left. From it follow
`EverySlotOnceCorrect`, `NoUseAfterFreeCorrect` and `BarrierImplemented`.

**CPUs and loader** (`SimulatorProofs`, from `SimulatorAssumption`, `MLQAssumption`
and `BarrierAssumption`).

* `MachineInv` has the types, `PhaseInv` (where a thread may wait for the clock and
  that a CPU stops only after `done`) and `SliceInv` (`burst + time_left` is the time
  slice of a CPU with a process). `MachineTypeCorrect` and `WholeSlicesCorrect`.
* Each step of the machine calls the scheduler once or not at all (`SchedulerView`).
  This gives the refinement `UsesSchedulerCorrect`, and with it `MachineOnePlaceCorrect`:
  the theorem about `MLQScheduler`, said of the local variables of the CPU threads.
* `OneInstructionPerSlotCorrect` needs `RanInv`: a process that has run stays with
  its CPU, which has arrived or is about to, until the clock has ticked; a CPU
  that puts it back has been released since.
* `AbandonedShareLevelCorrect` needs `LevelInv`: once all CPUs are past their last
  `get_proc` and the loader is done, the queue looks as the last `NULL` has left it. It
  assumes that there is a CPU.

**Address space** (`AddressSpaceProofs`, from `AddressSpaceAssumption`).
`RegionsDisjoint` is not inductive: merging with a free region that ends before it
starts would free addresses that a program holds. `ASInv == ASTypeOK /\
WellFormed(vm_freerg_list) /\ RegionsDisjoint`. `VmRegionsProofs` says in sets of
addresses what the list operators do: taking from a list, and the merge of
neighbours (`Join`) in `enlist_vm_freerg_list`, neither lose nor double an address; the
first fit is a least element of a set of indices. `AddressSpaceTypeCorrect`,
`RegionsDisjointCorrect`, `GrowthServesCorrect`, `FreeReturnsBytesCorrect`.

**Memory** (`MemoryProofs`, from `MemoryAssumption`).

* `MemInv` has the address spaces of all processes, the page tables and fifo lists,
  the devices, and `RequestInv`: while an allocation is under way, nothing it asked
  for changes: its break is moved by just its pages, no free region fits it and
  none overlaps the pages to come. `MemoryTypeCorrect`.
* `AddressSpaceImplemented`, for any process `Self` (`SelfAssumption`): a step of another
  process, a page obtained, and a failure are stutters; a growth takes effect when
  it finishes, and is then the step of `AddressSpace` because of `RequestInv`.
* `TrackedWhileSwapLastsCorrect` is inductive on top of `MemInv`.
* `PlacesKeptCorrect` counts in how many places a frame stands (positions in the list,
  positions in the request, pages that map it), action by action. It assumes
  `FewFrames`: the processes are finite and no frame number is cut by the 13 bits of
  a page table entry. The bits are meant for a RAM of `PAGING_MEMRAMSZ` = 2^21 bytes
  (`mm.h:9`), 2^13 frames of 256. The code reads the size from the input without a
  check (`os.c:170`); the inputs it comes with have 2^20 bytes at most.
* `WrittenStaysMappedCorrect` holds of any processes, RAM and swapping
  (`RegionsBelowBreak`: only `__free` clears an entry, `OnlyFreeUnmaps`, and only in the
  pages of its region, `PagesOfRegion`).
* `RamLastsCorrect`, `FramesConservedCorrect` and `ReadBackCorrect` are about programs
  that never ask, together, for more pages than there are frames (`FittingSpec`).
  That is a condition on the programs and not on the constants: a page table has 16384
  entries, twice as many as RAM may have frames. `DataInv == PagesBelowBreak /\ AllInRam /\
  FramesConserved /\ WrittenInv`. By the pigeonhole principle an allocation under way
  finds a frame (`FittingRamLasts`): the frames in use are mapped by pages below a break
  or are in the request, and the page to come makes one page more. So the victims,
  the failure and the swap-in never occur, and a page keeps its frame as long
  as it is mapped. What programs outside this condition meet is in
  `MCMemoryLost` and `MCMemoryLeak`.

**Lists of free frames** (`FrameListProofs`, from `FrameListAssumption`). Races of puts and
gets can tear the list apart, so that no invariant about its shape holds.
`NoFrameSharedCorrect` rests on one that does not mention it, `RamInv`: a frame of RAM
has at most one place, a page, an *allocated* node, wherever it hangs, or a put that
has not made its node yet; a get has mmvm_lock (`GetsExclude`) and holds an allocated
node with the frame it will return (`GetHoldsNode`). Nodes found in the list are
allocated ones. `FrameListTypeCorrect` needs that a get never works on the end of the
list.

**Only model-checked.** All liveness properties (`NoStarvation`, `LockReleased`,
`NextSlotReturns`, `ShutsDown`, `QueuedFinishes`, `ClockAdvances`, `BusyCPUStops`,
`AllocationEnds`): fairness is out of the prover's reach. `ImplementsPool` of `FrameList`:
its mapping follows the list with a recursive function, and what it yields for a list of
any length is an induction over data.

## Not modelled

The system call layer and the parsing of input files are stateless; `sys_killall`
is unfinished in the source: it is a series of `libread` calls, each a `Read` of
`Memory`, up to a byte -1, and the list of running processes it would then walk is
never filled; a program that issues system call 17 (`memmap`) by itself, past `libmem.c`,
as no input file does, reaches `inc_vma_limit` and the devices without `mmvm_lock` and is
not modelled; `mem.c` and `paging.c` belong to
another configuration; printing has no effect on state. `sbrk` equals `vm_end` at
all times and is not a variable of its own. Swap devices 1 to 3 are created and
never used. `Simulator` and `Memory` are not composed: scheduling does not depend
on the result of an instruction, and `Memory` allows the processes any order of
operations.

## Plan

Done: scheduler, timer, threads, address space, memory, lists of free frames, and
proofs of all their safety invariants, action properties and refinements but one.
What is left:

1. `ImplementsPool`. While nobody has raced, the list is a sequence of distinct
   allocated nodes, of which a thread between its read and its store of the head has
   seen the first; a get returns its frame and a put's node is outside it. That
   invariant can be proved as `RamInv` was. What the recursive function makes of
   such a sequence has to be shown by a least counterexample, or the mapping stated
   without recursion in a form TLC can still evaluate.
2. The end of a process (`free_pcb_memph`, `libmem.c:431`) is called by nobody and
   has no place in `Memory` until the program calls it.
