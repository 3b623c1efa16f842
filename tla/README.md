# The XiUOS kernel in TLA+

A verification project for the kernel of XiUOS, a real-time operating system
for Cortex-M and RISC-V controllers: the single-core scheduler, its tasks,
delays and interrupts, and the objects tasks wait on. The code is
`Ubiquitous/XiUOS/kernel` with the context switch of `Ubiquitous/XiUOS/arch`;
file names without a path below are in `kernel/thread`. `PROJECT.json` maps every
definition to the lines it models and lists runs, mutants, findings, hazards and theorems.

## The system

All kernel state is shared memory. Tasks reach it through kernel calls, which turn
interrupts off (`CriticalAreaLock`) while they change it; interrupt handlers reach it
directly. A call that makes a switch necessary ends with `DO_KTASK_ASSIGN`, outside
its critical area; in a handler `DO_KTASK_ASSIGN` only sets a flag, and the handler's
end (`KTaskOsAssignAfterIrq`) reschedules. What goes wrong in such a kernel goes wrong
*between* critical areas, where an interrupt finds a state no call was written for.

| Component | State | Operations | What makes it correct | Module |
|---|---|---|---|---|
| lists (`double_link.c`) | intrusive links | unlink, insert, sorted insert | a node is on one list, once | DoubleLink |
| ready vector (`assignstat.c`, `bitmap.c`, `assign_*.c`) | a list per priority, a bitmap, a cached highest priority | insert, remove, choose | bitmap and cache agree with the lists | ReadyVector |
| scheduler (`assign.c`, `CriticalArea.c`) | `os_running_task` | assign, assign after an interrupt, yield | one task RUNNING, the highest; never none | KTask |
| tasks (`ktask.c`, `ktask_stat.c`) | descriptors | create, start, suspend, delay, wake, time out, set priority, quit, delete | READY exactly when queued; the life cycle of TaskAbs | KTask, TaskAbs |
| delays, ticks (`delay.c`, `tick.c`) | sorted delay list, tick counter | set, cancel, check in the tick | a delay ends at its tick and not after its wait | KTask, Pend |
| interrupts (`isr.c`) | nesting count, switch flag | tick, device, exit | no reschedule is lost | KTask |
| context switch (`arch/`) | pending target (Cortex-M) | switch, PendSV | `os_running_task` is what runs | KTask |
| zombie recycler (`zombierecycle.c`) | list of closed tasks | take, free, sleep | every closed task is freed, off the core | KTask |
| waiting (`linklist.c`) | a list per object | suspend by priority or arrival, resume one or all, time out | a waiter is on one list, its delay running | Pend |
| semaphores (`semaphore.c`) | value, waiters | create, obtain, abandon, set, delete | permits are conserved, nobody waits in vain | Semaphore |
| message queues (`msgqueue.c`) | ring, two lists of waiters | create, send, receive, urgent send, reinit, delete | a bounded FIFO queue, no lost wakeup | MsgQueue, MsgQueueAbs |
| mutexes (`mutex.c`) | holder, count, saved priority, waiters | create, obtain, abandon, delete | one holder, told as often as counted; inherited priority goes back | Mutex |
| events (`event.c`) | flags, waiters and what each waits for | create, trigger, process, delete | nobody sleeps through its flags; a cleared flag goes to one task | Event |
| gather blocks (`../memory/gatherblock.c`) | chain and count of free blocks, waiters | create, allocate, free, delete | no block lost or given twice, no sleeper beside a free block | GatherBlock |
| work queues (`workqueue.c`) | ring, the worker | submit; the worker's loop | accepted work is called, once and in order | WorkQueue |
| soft timers (`softtimer.c`) | sorted list of running timers | create, start, modify, stop, delete, check in the tick | a running timer is on the list and ends when due | SoftTimer |
| heap (`../memory/byte_manage.c`) | boundary-tagged blocks, free lists by size, two small-block segments | init, `x_malloc`, `x_free` | blocks tile the region, lists hold the free ones, callers' bytes are disjoint | Heap |
| data queues (`data_queue.c`) | ring, two semaphores | init, push, pop | what a push accepted is popped, in order | DataQueue |
| circular area (`circular_area.c`) | byte ring with one full/empty flag | init, read, write, reset | bytes come out as they went in | CircularArea |
| AVL tree (`avl_tree.c`) | the tree | insert, delete, modify, search | it holds what was inserted and not deleted | AvlTree |

Not planned: the wait queues (`waitqueue.c`, poll's callbacks into drivers), the SMP scheduler (`smp_assign.c`, a different scheduler built under
`ARCH_SMP`), the system call table and memory isolation, console, hooks, boards and
drivers (pure I/O, represented by the device interrupt), file systems, networking and
frameworks (mostly vendored), and the Nuttx and RT_Thread trees.

## The modules

`DoubleLink` gives the lists as sequences of distinct elements, and `ReadyVector` is
a pure data structure on top of it: operators on a record with `vector`, `group` (the
bitmap) and `highest`. The bitmap word is the set of its bits. A task's own copy of
its bit (`bitmap_column`) is kept apart from its priority, because the code writes the
two at different times, and `RemoveReady` takes both.

`KTask` is the scheduler. A critical area is one action. Its variables are the
fields of the descriptors (`stat`, `curPrio`, `column`, `slice`, `advance`,
`exstatus`), the ready vector, `running` and `switchTo` (the target PendSV will switch
to), the tick and the delay list, the zombie list, the interrupt handler's position
and switch flag, and where each task is inside a call (`pc`): `assign` and `delay` are
the points between a critical area and `DO_KTASK_ASSIGN`, `wake` the point inside
`KTaskWakeup` between its test of the state and its critical area, `reap` the point
where the recycler frees a task with interrupts on.

- `KTaskWakeup` is the wakeup inside a critical area, as the synchronisation
  primitives call it; `KTaskWakeupTest` and `KTaskWakeupGo` are the call made with
  interrupts on.
- `OsAssign` is the body that `KTaskOsAssign` and `KTaskOsAssignDoIrqSwitch` share.
  `SwitchTo` is immediate on RISC-V, deferred to `PendSV` on Cortex-M.
- The critical areas that `CheckTaskDelay` drops around `KTaskTimeout` are inside the
  tick handler, and handlers do not nest in the model, so one turn of its loop is one
  action.
- The lock level that `KTaskOsAssign` tests is nonzero only inside a critical area, so
  it needs no variable.
- `Reschedule` may also happen while a task is in no call: that is the
  `DO_KTASK_ASSIGN` after a `KTaskWakeup`.

Constants that name a discipline of the callers: `Mortal` (who may quit or be
deleted), `BareWoken` (who may be woken with interrupts on), `PrioSetStats` (the
states in which `KTaskPrioSet` is called), `DeleteSleeping`, `DeleteReaping` (whether a
task may be deleted while the recycler frees it; a closed task that still waits on the
zombie list may be deleted again in any case), `IrqBeforePendSV`. The code enforces none of them; see Findings and the hazards.

`TaskAbs` is the abstract specification of a task's life: none, created, runnable,
waiting, closed, and which task has the core. `KTask!Lifecycle` is its refinement.

`Pend` is what waiting on an object means to the objects above it: the
object's list, the wait's status, and the set of tasks whose delay is active. It stands
for the scheduler below it: a task that is not suspended may take its next step at any
time. That a list holds exactly the suspended tasks, and that a delay is active only
for a suspended task, is what `KTask` establishes (`ReadyIffQueued`,
`DelayOnlySuspended`). `CalculteTickFromTimeMs` keeps the 32-bit product of the code.

`Semaphore` and `MsgQueue` have one action per critical area. `Semaphore!balance` is a
history variable that counts permits; no guard depends on it except the bound
`MaxBalance`. In `MsgQueue` a woken task tries again with any number of the ticks it
had left. `MsgQueueAbs` is the bounded FIFO queue: a send appends, a receive takes the
first, a reset empties. `MsgQueue!Fifo` is its refinement and ties each call to its
operation (`CallsMatch`): a send step sends, a receive step receives what the queue gives
it, only a create, a reinit or a delete resets. `UrgentFirst` says what an urgent send must do.

`Mutex`, `Event` and `GatherBlock` are on `Pend` too. A call's lookup of the id and its
work are one step in them (`Semaphore` has them apart, with `DeleteInUse` for a delete
in between). `MutexDelete` and `MutexDeleteEnd` are the two critical areas of
`_MutexDelete`, the resumption of the waiters and the removal of the id. The three of
`_EventDelete` are one step: callers are taken to let no other call near an event that is
being deleted. `Mutex` lets priorities change, by inheritance, and nests two mutexes; its
history variables are how often each task was told it has a mutex (`times`), which
mutexes it has in the order in which it got them (`held`) and which tasks
always gave the last obtained back first (`tidy`), without which no priority can be
promised: `origin_prio` is the priority at the time of the obtain. A task that held a
mutex when it was deleted is not `tidy` either. `Event` counts how often each flag was
raised and not taken (`raised`); a task whose list flag `LinklistSuspend` does not know
is `stray`. `GatherBlock` retries like `MsgQueue`, and deletes in the steps of the code.
`Objects` joins the four: tasks use one kind of object in a behaviour, and what is common
to waiting (`DelayWhileWaiting`) is stated once for all of their lists.

`WorkQueue` is the ring and the worker, whose test and suspension are separate steps.
`SoftTimer` is on top of it: `CheckTimerList` submits to it from the tick interrupt.
`Heap` names a block by the address of its header; all free lists are one chain, because
the code links their heads one behind the other and a search runs on from list to
list. `x_malloc` and `x_free` are one critical area each. `DataQueue` has a call's three
steps, over semaphores that are counters; `CircularArea` and `AvlTree` are sequential.
`Services` joins the timers, the heap, the data queue and the circular area, one of
them per behaviour.

The `MC` modules give the constants for TLC. The eight modules whose names end in
`Proofs` hold the proofs: `DoubleLinkProofs` and `PendProofs` the lemmas the others
share, `KTaskProofs` the ready vector and the scheduler, `TaskLifeProofs` the delays
and the life cycle, `HeapProofs` the heap, whose theorems are in `ServicesProofs` with those
of the other services, `MsgQueueProofs` and `ObjectsProofs` the rest. Definitions named after another
with a suffix (`OsAssignForgetsFrom`, `WakeKeepsDelay` ...) are mutants: plausible bugs
that the properties must catch.

## The runs

| Run | Result | Shows |
|---|---|---|
| `ktask` | pass | All safety properties of the scheduler and the refinement of TaskAbs (`Lifecycle`); deferred switch, round robin |
| `timeslice` | pass | `NoStarvation` among equal priorities, and `OneRunning`; immediate switch, remaining-slice round robin |
| `pendsv_race` | violation | `OneRunning` when an interrupt comes before PendSV |
| `delay_wrap` | violation | `DelayEnds` when the tick counter wraps |
| `prioset_ready` | violation | `ReadyVectorConsistent` when a READY task's priority is set |
| `msgqueue` | pass | `NoLostWakeup`, `DelayWhileWaiting`, refinement of MsgQueueAbs (`Fifo`) |
| `urgent_send` | violation | `UrgentFirst`: an urgent message is the next to be received |
| `objects` | pass | semaphore (`PermitsConserved`, `NoWaiterWithPermit`), mutexes (`MutualExclusion`, `NoWaiterOnFreeMutex`, `PriorityRestored`), event (`NoMissedEvent`, `FlagsConserved`), gather blocks (`BlocksConserved`, `NoSleeperBesideBlock`), waiting (`DelayWhileWaiting`) |
| `services` | pass | work queue (`WorkInOrder`), timers (`RunningIffListed`, `NoOverdueTimer`), heap (`HeapTiled`, `FreeListsExact`, `BlocksDisjoint`, `BestFitFound`), data queue (`DataInOrder`, `PermitsMatchRing`), circular area (`AreaFifo`) |
| `exact_fit` | violation | `ExactFitFound` for a request of exactly the size of a free block |
| `work_lost` | violation | `WorkGetsDone` when work comes between the worker's test and its suspension |
| `avl_delete` | violation | `TreeHoldsData` after a delete |

Bounds. The scheduler runs have two user tasks, the recycler and the idle task on
three priorities: the smallest setting in which a user task shares its priority with
another task (the recycler), is above one and below one. One user task never ends and
is woken with interrupts on, the other quits, is deleted and created again. Two ticks
(`MaxTick`) with delays of one and two ticks give delays that end in one tick, in
different ticks, and are cancelled; when the clock has stopped at the bound the idle
task has nothing left to do, so this run does not check for deadlock. `delay_wrap`
and `timeslice` have no bound on ticks: they count modulo 8 and modulo 1. The
deferred switch is the finer of the two, and the remaining slices of the third policy
multiply the states of `ktask`: both kinds of switch are run, with one policy each, and the
proofs cover every combination. The queue run has two slots, two messages and
three interchangeable tasks, so that the ring wraps, fills and drains with a waiter left
over.

`objects` has three tasks on two priorities: two waiters and a third party are what the
races of a release, a timeout and a delete need. Waits are of 0 and 20 ms, one and two
ticks. The semaphore has values 0 and 2 and at most three permits about (`MaxBalance`);
a value wraps at 8 (`ValMod`, 2^16 in the code) and a recursion count at 4 (`CntMod`,
2^8), both above what the bounds reach. Two mutexes, each obtained at most twice by its holder (`MaxHeld`),
give recursion, nesting, releases in and out of order, and chains of waiting holders. The
event has two flags and every wait on them; the pool has two blocks. In `services` two
timers of one or two ticks, once or periodic, and other work share a ring of two
(`MaxWorkQueue`, 32 in the code) for two ticks (`MaxTick`), far from the wrap
(`TickMod`); the heap has 36 words with a one-word header, three free lists, small blocks
of 2 and 4 words, and requests of 1, 4, 5 and 9 words, of which two fall into the
segments until these are used up; the data queue has four places (`MaxLen`) and three
users, the circular area four bytes. `work_lost` has a ring of three, `avl_delete` five
data.

Fairness. `FairSpec` assumes that a tick interrupt is taken again and again however
busy the core is (strong fairness: it is disabled whenever another handler runs), that
a handler that was entered runs to its end, and that a pending PendSV is taken. This is
what the hardware does: the tick is a periodic timer and all critical areas are finite.
Nothing is assumed of tasks: a task may run for ever without calling the kernel.
`WorkSpec` assumes weak fairness of the worker's steps: a worker that is ready gets the
core now and then, which fixed priorities give it as long as the tasks above it sleep at
times. The violation does not depend on it, since the worker that loses work is
suspended.

## Findings

- `pendsv_race`: on Cortex-M the switch is two steps. PendSV has the lowest
  priority, so an interrupt that is pending when interrupts are enabled comes first,
  reschedules from the old `os_running_task`, and the task chosen before stays RUNNING
  without the core and on no list, for ever.
- `delay_wrap`: `KTaskSetDelay` sorts by raw tick, `CheckTaskDelay` compares modulo the
  counter. A delay set shortly before the wrap can be held back by later ones in
  front of it.
- `prioset_ready`: `KTaskPrioSet` of a READY task overwrites the priority before the
  task is removed; the bitmap then hides ready tasks or points at an empty list.
  Priority inheritance of mutexes makes this call.
- `urgent_send`: the unsigned index never becomes negative, the slot is that of the
  last message, and a sender is woken instead of a receiver.
- `work_lost`: the worker suspends itself outside the critical area in which it found
  the ring empty. Work that comes in between waits for the next submission; if the ring
  fills up in that window, every later submission is refused before it can wake the
  worker.
- `avl_delete`: `AvlTreeBalance` has no case for an unbalanced node with even children
  and drops the subtree.
- `exact_fit`: the allocator refuses a free block of exactly the size that
  is needed, and with it every larger one behind it, against its comment on the exact match.

Further places where the code relies on its callers (deleting a sleeping task, deleting
an object in use, waking a task that ends) are among the hazards in `PROJECT.json`;
each is a constant or a guard of the models, and TLC refutes a property when it is lifted:
`DeleteInUse` (`NoWaiterWithPermit`), `DeleteSleeping` (`DelayOnlySuspended`),
`DeleteReaping`, with which a task is put back on the zombie list while it is freed
(`ZombiesGetReaped`), `MutexDeleteInUse`, with which a mutex goes between its hand-off and
the return of the task it was handed to, or while a task starts to wait for it
(`MutualExclusion`, `NoWaiterOnFreeMutex`),
`ExpireInDelete` (a delete of a pool finds its list empty), `EventOptions` with 2 or 4,
which leave waiters on no list (`NoMissedEvent`), `TickMod` within `MaxTick`, where the
timers meet the wrap that `delay_wrap` shows for delays (`NoOverdueTimer`), `Timeouts` with
"other" and `ForeverEnds` (`DataInOrder`), and `Forces` with TRUE (`AreaFifo`). Callers
are also taken to start a timer only when it is not running, to delete one only after
it was started and when nothing of it is under way, to give a timer a time other than 0
(`KCreateTimer` does not check it, and `CheckTimerList` never comes to the end of a periodic
timer of 0 ticks), and to free only what they have.

## What is proved

Every theorem holds for any number of tasks, priorities, messages, values, blocks, flags
and timers, any delays and waiting times, rings of any length, heaps of any size with any
number of lists, every policy and both kinds of switch. The assumptions on constants are those named in the modules; that the idle
task has priority 0 and the recycler 1 is what `idle.c` and `zombierecycle.c` give them.
What a theorem assumes of the callers it says in its own `ASSUME`; each of these
assumptions is needed, and each is a finding or a hazard:

| Assumption | It says | Without it |
|---|---|---|
| `Disciplined` | `KTaskPrioSet` is not called for a READY task; tasks that end are not woken with interrupts on; a task is not deleted while the recycler frees it; PendSV is taken before the next interrupt | `prioset_ready`; `ZombiesGetReaped` fails (the second and the third); `pendsv_race` |
| `~DeleteSleeping` | no task is deleted while its delay runs | `DelayOnlySuspended` fails |
| `NoTickWrap`, `NoWrap` | the counter does not pass its end, delays are shorter than half a turn | `delay_wrap`; `NoOverdueTimer` fails |
| `SemDisciplined` | no delete of a semaphore in use, its value has room for the permits of all callers | `NoWaiterWithPermit` fails; the value wraps |
| `MutexDisciplined` | a mutex is not deleted twice nor between its hand-off and the waiter's return, and nobody starts to wait during the delete | `MutualExclusion`, `NoWaiterOnFreeMutex` fail |
| `EventDisciplined` | events are created with the two options `LinklistSuspend` knows | `NoMissedEvent` fails |
| `DataDisciplined` | waits for nothing or for ever, and the latter end with a permit | `DataInOrder` fails |
| `AreaDisciplined` | no forced write, a length that the 8-bit indices can count | `AreaFifo` fails |

Message queues, gather blocks, work queues, the list of running timers and the heap
need none, nor does `ServicesTypeOK`.

### The scheduler (`KTaskProofs`)

`Spec` implies `[]TypeOK`, `[]ReadyVectorConsistent`, `[]ReadyIffQueued`, `[]OneRunning`,
`[]SwitchAlwaysPossible`, `[]ZombiesGetReaped` and the action property
`ReschedulePicksHighest`. `Holds(rv, ...)` says that the vector holds
exactly a given set of tasks, each on the list of its priority, once, with bitmap and
cache to match. The lemmas at the head of the module show that insert and remove add and take away one
task *provided the task's bit is the bit of its priority*, which is just what
`KTaskPrioSet` breaks. They rest on `DoubleLinkProofs`: what unlinking and inserting do
to a sequence of distinct elements. The inductive invariant `IndInv` is the
conjunction of

- `TypeOK`;
- `QueueInv`: the vector holds exactly the READY tasks;
- `ColumnInv`: a started task's bit is that of its priority, needed by the above;
- `CoreInv`: a RUNNING task has the core, and no handler runs while PendSV is pending;
- `ServiceInv`: the idle task is READY or RUNNING, from which it follows that a
  switch is always possible, and the recycler is never closed;
- `WakeeInv`: a task about to be woken with interrupts on is started and not closed,
  so the missing second test in `KTaskWakeup` does no harm;
- `DeadInv`: closed tasks are on the zombie list once or being freed, never both,
  off the core, and the recycler is awake. That a second delete of a listed task links it
  again without listing it twice is `Close` unlinking it first.

There is one lemma per action; `OsAssign`, `Wake` and `Close` have lemmas of their own
that the actions share.

### Delays and the life cycle (`TaskLifeProofs`)

- `DelayOnlySuspended` with `DelayInv`, which adds that the recycler has no delay: a
  delete resumes it without cancelling one.
- `NoOverdueDelay` with `DelayOrder`: the list is in the order of the deadlines, no deadline
  is behind the counter nor half a turn ahead of it, and outside the tick handler all are
  ahead of it. The loop of `CheckTaskDelay` stops at the first delay that has not run
  out, so the order carries the proof (`InsertSortedAscending`, `TailAscending`).
- `Lifecycle`: every step of the kernel is a step of `TaskAbs` or leaves it alone. What the
  scheduler's decision does is stated once (`Dispatched`) for a reschedule, a yield and the end of an interrupt.

### Message queues (`MsgQueueProofs`)

`QueueInv` is `TypeOK`, `NoLostWakeup`, `ListInv` (the lists hold the waiting tasks, each
once, their delays running), `SendInv` (a sender has a message) and `DeleteInv` (what a
delete under way has left). The counting in `NoLostWakeup` goes through the sets of tasks
that were woken and have not run (`Coming`): each step adds or removes at most one. `Fifo`
then follows from what `Enqueue` and `Dequeue` do to `Content`, the messages of the ring from
its index on: every step is a step of `MsgQueueAbs`, and a call's step is the
operation of that call.

### The objects (`ObjectsProofs`)

Each object has an invariant of its own: `SemInv`, `MutexInv`, `EventInv`, `GatherInv`;
`ObjectsInv` says that the one in use has its invariant and the others are as they were
created, from which the nine properties, `ObjectsTypeOK` and `DelayWhileWaiting` follow.

- Semaphores: besides the list, that the value has room for every abandon under way
  (`SemRoomInv`), or a permit put back would wrap it.
- Mutexes: `MutualExclusion` needs that a task that was handed a mutex has none of its obtains
  counted yet (`MutexHandInv`), and that whoever waited for a mutex that is being deleted
  was told an error (`MutexGoneInv`), so the removal of the id leaves no waiter and nobody
  whom it was handed to. `PriorityRestored` needs to know to which
  priority each mutex would return its holder: never one below the holder's own, and just
  its own in the first mutex of a tidy task (`MutexPrioInv`).
- Events: the loop of `_EventTrigger` is a function over the turns (`Turns`); an invariant of
  its turns says that a waiter is still on the list only if the flags left do not satisfy
  it, and that cleared flags went to one waiter.
- Gather blocks: as for queues, with a delete in several steps (`GatherDeleteInv`).

### The services (`ServicesProofs`)

A ring is a buffer with indices that count modulo its length; lemmas at the head of the
module say what a step of either index does to the sequence it holds.
`WorkInv` adds to `WorkInOrder` where the item is that the worker has
taken and still reads (`TakenInv`). `DataInOrder` and `PermitsMatchRing` are inductive only together
(`DataInv`): the permits keep a push from overwriting and a pop from reading ahead. `AreaInv`
tells the full from the empty ring by the flag. `TimerInv` is `RunningIffListed` with the
types it needs, `TimerOrder` for timers what `DelayOrder` is for delays.

`ServicesTypes` needs no discipline of the callers of data queues: the types of `DataQueue` are
inductive alone (`DataTypesKept`).

### The heap (`HeapProofs`)

`HeapInv` is inductive and gives `HeapTiled`, `FreeListsExact`, `BlocksDisjoint`, `BestFitFound`
and `HeapTypeOK`. All it assumes is `HeapAssumption`: a header, an alignment and a number of
lists that are not 0, room for three headers, the smaller segment first. It is the
conjunction of

- `HeapOK`: the blocks are `Tiled` (none overlaps another, and the tags lead from each to the
  next and to the one before), `Coalesced` (of two neighbours at most one is free),
  `Chained` (the chain holds the heads and the free blocks, each before all that belong
  behind it), and `active_memory` counts the bytes of the blocks in use (`UsedBytes`);
- `SegmentsOK`: the two blocks that the segments were carved from (`SegBase`, a constant) are
  in use and large enough, and are not the same block;
- `FreelistsOK`, `GivenOK`: a small block is in its segment's list or given to one caller; any
  other given block is a whole block in use, as large as was asked for, and no
  segment's.

`HeapTiled` speaks of neighbours only. The invariant says of *all* pairs of blocks
that they do not overlap and of *all* pairs of the chain that they are in order: so a split
or a join, which changes two blocks, is seen by case distinction and without induction along
the region or the chain. `Tiled` has the way back, which `BigMemFree` takes to the block
before. The arguments:

- `SplitTiled`, `JoinedTiled`, `MarkTiled`: the three things that happen to blocks. `CarveOK` is
  a mark and perhaps a split; `FreeOK` at most two joins (`FreeAhead`, `FreeAround`) and a mark.
  `CountAdds`: a block that changes hands changes the number of bytes in use by its size.
- `ChainRemove`, `ChainAdd`: where the search stops there is nothing smaller behind and nothing
  larger before in the same list, since the number of a list grows with the size
  (`IndexMonotone`).
- `BestFitIs`: for a size that no free block has exactly (`exact_fit` shows the other case), what the search passes over is too small, and what follows is no smaller.
- Each operation leaves the blocks in use as they are but the one freed (`Undisturbed`),
  so segments and callers keep theirs. `GivenInside` places a given block in the
  block of the heap that owns it, `SmallApart` the blocks of a segment one behind the other.

### Only model-checked

- Liveness (`NoStarvation`, `WorkGetsDone`, `DelayEnds`): fairness and ENABLED are out of
  the prover's reach.
- The AVL tree: what a recursive definition computes for every input needs an induction
  over data that the provers cannot instantiate.

## What is not modelled

Builds with more than 32 priorities (a two-level bitmap), SMP, nested interrupt
handlers, failing allocations, memory contents, registers and stacks, memory isolation.
Ids are never reused for another object while a call holds them. Of each kind of object
one at a time is used, two of the mutexes; priorities of waiters change only in `Mutex`.
Wait queues, whose callbacks belong to drivers: `WqueueWait` sets a delay that the
suspension it then makes cancels, so a timed wait has no limit. In the heap, external
memory (`MEM_EXTERN_SRAM`), the separate user heap and builds without the small-block
segments; the test of the size before the critical area of `x_malloc` is taken with it.
Of data queues, `DataqueuePeak` and `DeInitDataqueue`. Creating and removing work queues.
The work items that `CheckTimerList` allocates and `TimerCBEnter` frees are not followed.
