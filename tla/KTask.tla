------------------------------- MODULE KTask --------------------------------
(***************************************************************************)
(* Kernel tasks and their scheduling on one core: ktask.c, assign.c,       *)
(* delay.c, tick.c, isr.c, zombierecycle.c, idle.c.                        *)
(*                                                                         *)
(* Code between CriticalAreaLock and CriticalAreaUnLock runs with          *)
(* interrupts off and is one step; every place where the code leaves the   *)
(* critical area before it is done is a step boundary, where an interrupt  *)
(* may be taken.  The boundary that matters most is the one between        *)
(* suspending the current task and DO_KTASK_ASSIGN: there os_running_task  *)
(* is a task that is not RUNNING.                                          *)
(***************************************************************************)
EXTENDS ReadyVector, FiniteSets

CONSTANTS
    User,              \* the tasks of applications and kernel services
    Idle,              \* ktaskidle0
    Zombie,            \* ZombieRecycleKTask
    Main,              \* the user task that runs when the scheduler starts
    NoTask,            \* NONE
    OriginPrio,        \* origin_prio of each task
    TimeSlice,         \* origin_timeslice
    TickMod,           \* the tick counter counts modulo TickMod
    MaxTick,           \* bound: no tick interrupt at this tick or later
    Delays,            \* the delays tasks ask for, in ticks
    Mortal,            \* the user tasks that quit or are deleted
    BareWoken,         \* those woken with interrupts on by other tasks
    PrioSetStats,      \* the task states KTaskPrioSet is called in
    DeleteSleeping,    \* whether a task with a running delay is deleted
    DeleteReaping,     \* whether a task the recycler is freeing is deleted
    DeferredSwitch,    \* Cortex-M: the switch happens later, in PendSV
    IrqBeforePendSV    \* Cortex-M: an interrupt may come before PendSV

AllTask == User \cup {Idle, Zombie}
Stats   == {"NONE", "INIT", "READY", "SUSPEND", "RUNNING", "CLOSE"}
Ticks   == 0 .. TickMod - 1
Inactive == -1

ASSUME TaskAssumption ==
    /\ Idle # Zombie /\ Idle \notin User /\ Zombie \notin User
    /\ Main \in User /\ NoTask \notin AllTask
ASSUME OriginPrioAssumption ==
    /\ OriginPrio \in [AllTask -> Prio]
    /\ OriginPrio[Idle] = 0 /\ OriginPrio[Zombie] = 1 /\ OriginPrio[Main] > 1
ASSUME TimeAssumption ==
    /\ TimeSlice \in Nat \ {0} /\ TickMod \in Nat \ {0} /\ MaxTick \in Nat
    /\ Delays \subseteq (1 .. TickMod - 1)
ASSUME CallAssumption ==
    /\ Mortal \subseteq User /\ BareWoken \subseteq User
    /\ PrioSetStats \subseteq {"INIT", "READY", "SUSPEND", "RUNNING"}
    /\ DeleteSleeping \in BOOLEAN /\ DeleteReaping \in BOOLEAN
    /\ DeferredSwitch \in BOOLEAN /\ IrqBeforePendSV \in BOOLEAN

VARIABLES
    stat, curPrio, column, slice, advance, exstatus,   \* task descriptors
    rv,                  \* os_assign_read_vector
    running, switchTo,   \* os_running_task, the task PendSV will switch to
    tick,                \* heartbeat_ticks
    delayList, deadline, \* xiaoshan_delay_head, Delay.ticks while ACTIVE
    zombies, reaping,    \* KTaskZombie, the task the recycler is freeing
    isr, swFlag,         \* where the interrupt handler is, its switch flag
    pc, wakee            \* where a task is inside a call, whom it wakes

attrs  == <<curPrio, column, slice, advance, exstatus>>
cpu    == <<running, switchTo>>
timers == <<tick, delayList, deadline>>
dead   == <<zombies, reaping>>
irq    == <<isr, swFlag>>
calls  == <<pc, wakee>>
vars   == <<stat, attrs, rv, cpu, timers, dead, irq, calls>>

-----------------------------------------------------------------------------
(* What the calls below share. *)

PutReady(r, t) == InsertReady(r, t, curPrio[t], column[t], slice, advance)
TakeReady(r, t) == RemoveReady(r, t, curPrio[t], column[t])

(* The task that executes, or will as soon as PendSV is taken. *)
CpuTask == IF switchTo = NoTask THEN running ELSE switchTo

(* SwitchKtaskContext, HwInterruptcontextSwitch: on RISC-V the switch sets *)
(* os_running_task at once, on Cortex-M it records the target for PendSV.  *)
SwitchTo(new) ==
    IF DeferredSwitch
    THEN switchTo' = new  /\ UNCHANGED running
    ELSE running'  = new  /\ UNCHANGED switchTo

(* The task's delay list operations. *)
KTaskUnSetDelay(t) ==
    /\ delayList' = IF deadline[t] # Inactive THEN RmNode(delayList, t)
                                              ELSE delayList
    /\ deadline'  = [deadline EXCEPT ![t] = Inactive]

(* Setting the delay with the node linked at the tail, whatever its tick. *)
KTaskSetDelayAppend(t, d) ==
    LET due == (tick + d) % TickMod
    IN  /\ delayList' = Append(RmNode(delayList, t), t)
        /\ deadline'  = [deadline EXCEPT ![t] = due]

KTaskSetDelay(t, d) ==
    LET due  == (tick + d) % TickMod
        rest == IF deadline[t] # Inactive THEN RmNode(delayList, t)
                                          ELSE delayList
    IN  /\ delayList' = InsertSorted(rest, t, due, deadline)
        /\ deadline'  = [deadline EXCEPT ![t] = due]

(* The deadline d has passed, by the test of CheckTaskDelay. *)
Expired(d) == (tick - d) % TickMod < (TickMod - 1) \div 2

(* KTaskOsAssign that keeps the running task at equal priority. *)
OsAssignKeepsEqual ==
    LET new  == ChooseTaskWithHighestPrio(rv)
        from == running
        runs == stat[from] = "RUNNING"
    IN  IF rv.group = {} \/ (runs /\ rv.highest <= curPrio[from])
        THEN UNCHANGED <<rv, stat, cpu>>
        ELSE IF new # from
        THEN /\ rv'   = TakeReady(IF runs THEN PutReady(rv, from) ELSE rv, new)
             /\ stat' = [stat EXCEPT ![from] = IF runs THEN "READY" ELSE @,
                                     ![new]  = "RUNNING"]
             /\ SwitchTo(new)
        ELSE /\ rv'   = TakeReady(rv, from)
             /\ stat' = [stat EXCEPT ![from] = "RUNNING"]
             /\ UNCHANGED cpu

(* KTaskOsAssign that does not queue the task it preempts. *)
OsAssignForgetsFrom ==
    LET new == ChooseTaskWithHighestPrio(rv)
    IN  IF rv.group = {} \/ (stat[running] = "RUNNING" /\ rv.highest < curPrio[running])
        THEN UNCHANGED <<rv, stat, cpu>>
        ELSE /\ rv'   = TakeReady(rv, new)
             /\ stat' = [stat EXCEPT ![new] = "RUNNING"]
             /\ SwitchTo(new)

(* KTaskOsAssign and KTaskOsAssignDoIrqSwitch, from the test of the bitmap *)
(* on: give the core to the head of the highest nonempty list unless the   *)
(* running task is RUNNING with a higher priority.                         *)
OsAssign ==
    LET new  == ChooseTaskWithHighestPrio(rv)
        from == running
        runs == stat[from] = "RUNNING"
    IN  IF rv.group = {} \/ (runs /\ rv.highest < curPrio[from])
        THEN UNCHANGED <<rv, stat, cpu>>
        ELSE IF new # from
        THEN /\ rv'   = TakeReady(IF runs THEN PutReady(rv, from) ELSE rv, new)
             /\ stat' = [stat EXCEPT ![from] = IF runs THEN "READY" ELSE @,
                                     ![new]  = "RUNNING"]
             /\ SwitchTo(new)
        ELSE /\ rv'   = TakeReady(rv, from)
             /\ stat' = [stat EXCEPT ![from] = "RUNNING"]
             /\ UNCHANGED cpu

-----------------------------------------------------------------------------
(* System start: SysInitOsAssign, the idle and recycler tasks, the first   *)
(* user task, StartupOsAssign.                                             *)
Init ==
    /\ stat = [t \in AllTask |-> CASE t = Main -> "RUNNING"
                                   [] t \in {Idle, Zombie} -> "READY"
                                   [] OTHER -> "NONE"]
    /\ curPrio  = OriginPrio
    /\ column   = [t \in AllTask |-> {OriginPrio[t]}]
    /\ slice    = [t \in AllTask |-> TimeSlice]
    /\ advance  = [t \in AllTask |-> 0]
    /\ exstatus = [t \in AllTask |-> "EOK"]
    /\ rv = TakeReady(PutReady(PutReady(PutReady(OsAssignReadyVectorInit,
                                        Idle), Zombie), Main), Main)
    /\ running = Main /\ switchTo = NoTask
    /\ tick = 0 /\ delayList = <<>> /\ deadline = [t \in AllTask |-> Inactive]
    /\ zombies = <<>> /\ reaping = NoTask
    /\ isr = "none" /\ swFlag = FALSE
    /\ pc = [t \in AllTask |-> "run"] /\ wakee = [t \in AllTask |-> NoTask]

-----------------------------------------------------------------------------
(* Kernel calls of the running task t. *)

OnCpu(t)   == isr = "none" /\ switchTo = NoTask /\ running = t
Calling(t) == OnCpu(t) /\ stat[t] = "RUNNING" /\ pc[t] = "run" /\ t \in User

(* KTaskCreate: a descriptor in state INIT. *)
KTaskCreate(t, u) ==
    /\ Calling(t) /\ stat[u] = "NONE"
    /\ stat'     = [stat     EXCEPT ![u] = "INIT"]
    /\ curPrio'  = [curPrio  EXCEPT ![u] = OriginPrio[u]]
    /\ column'   = [column   EXCEPT ![u] = {}]
    /\ slice'    = [slice    EXCEPT ![u] = TimeSlice]
    /\ advance'  = [advance  EXCEPT ![u] = 0]
    /\ exstatus' = [exstatus EXCEPT ![u] = "EOK"]
    /\ pc'       = [pc       EXCEPT ![u] = "run"]
    /\ UNCHANGED <<rv, cpu, timers, dead, irq, wakee>>

(* StartupKTask; DO_KTASK_ASSIGN follows outside the critical area. *)
StartupKTask(t, u) ==
    /\ Calling(t) /\ stat[u] = "INIT"
    /\ curPrio' = [curPrio EXCEPT ![u] = OriginPrio[u]]
    /\ column'  = [column  EXCEPT ![u] = {OriginPrio[u]}]
    /\ KTaskUnSetDelay(u)
    /\ rv'   = InsertReady(rv, u, OriginPrio[u], {OriginPrio[u]}, slice, advance)
    /\ stat' = [stat EXCEPT ![u] = "READY"]
    /\ pc'   = [pc   EXCEPT ![t] = "assign"]
    /\ UNCHANGED <<slice, advance, exstatus, cpu, tick, dead, irq, wakee>>

(* SuspendKTask of the current task, which is all it allows; the callers   *)
(* run DO_KTASK_ASSIGN next.                                               *)
SuspendKTask(t) ==
    /\ Calling(t)
    /\ rv'   = TakeReady(rv, t)
    /\ stat' = [stat EXCEPT ![t] = "SUSPEND"]
    /\ KTaskUnSetDelay(t)
    /\ pc'   = [pc EXCEPT ![t] = "assign"]
    /\ UNCHANGED <<attrs, cpu, tick, dead, irq, wakee>>

(* DelayKTask: suspend and start the delay in one critical area. *)
DelayKTask(t, d) ==
    /\ Calling(t)
    /\ rv'   = TakeReady(rv, t)
    /\ stat' = [stat EXCEPT ![t] = "SUSPEND"]
    /\ KTaskSetDelay(t, d)
    /\ pc'   = [pc EXCEPT ![t] = "delay"]
    /\ UNCHANGED <<attrs, cpu, tick, dead, irq, wakee>>

(* The end of DelayKTask, when the task is back on the core. *)
DelayReturn(t) ==
    /\ OnCpu(t) /\ stat[t] = "RUNNING" /\ pc[t] = "delayed"
    /\ exstatus' = [exstatus EXCEPT ![t] = IF @ = "ETIMEOUT" THEN "EOK" ELSE @]
    /\ pc'       = [pc EXCEPT ![t] = "run"]
    /\ UNCHANGED <<stat, curPrio, column, slice, advance, rv, cpu, timers,
                   dead, irq, wakee>>

(* A wakeup that leaves the task's delay running. *)
WakeKeepsDelay(u) ==
    /\ rv'      = PutReady(UnlinkReady(rv, u), u)
    /\ stat'    = [stat EXCEPT ![u] = "READY"]
    /\ zombies' = RmNode(zombies, u)
    /\ UNCHANGED <<delayList, deadline>>

(* _KTaskWakeup from its critical area on: unlink the task from whatever   *)
(* list it is on, cancel its delay, make it ready.                         *)
Wake(u) ==
    /\ rv'      = PutReady(UnlinkReady(rv, u), u)
    /\ stat'    = [stat EXCEPT ![u] = "READY"]
    /\ zombies' = RmNode(zombies, u)
    /\ KTaskUnSetDelay(u)

(* A wakeup that does not look at the state of the task. *)
KTaskWakeupUnchecked(t, u) ==
    /\ Calling(t) /\ u # t /\ stat[u] # "NONE"
    /\ Wake(u)
    /\ UNCHANGED <<attrs, cpu, tick, reaping, irq, calls>>

(* KTaskWakeup called inside a critical area, as the synchronisation       *)
(* primitives do: the test of the state and the wakeup are one step.       *)
KTaskWakeup(t, u) ==
    /\ Calling(t) /\ stat[u] = "SUSPEND"
    /\ Wake(u)
    /\ UNCHANGED <<attrs, cpu, tick, reaping, irq, calls>>

(* KTaskWakeup called with interrupts on: the state is tested outside the  *)
(* critical area ...                                                       *)
KTaskWakeupTest(t, u) ==
    /\ Calling(t) /\ u \in BareWoken \ {t} /\ stat[u] = "SUSPEND"
    /\ pc'    = [pc    EXCEPT ![t] = "wake"]
    /\ wakee' = [wakee EXCEPT ![t] = u]
    /\ UNCHANGED <<stat, attrs, rv, cpu, timers, dead, irq>>

(* ... and is not tested again inside.                                     *)
KTaskWakeupGo(t) ==
    /\ OnCpu(t) /\ stat[t] = "RUNNING" /\ pc[t] = "wake"
    /\ Wake(wakee[t])
    /\ pc'    = [pc    EXCEPT ![t] = "run"]
    /\ wakee' = [wakee EXCEPT ![t] = NoTask]
    /\ UNCHANGED <<attrs, cpu, tick, reaping, irq>>

(* KTaskPrioSet.  For a READY task cur_prio is written before the task is  *)
(* removed, so the remove looks at the list of the new priority and clears *)
(* the bit of the old one.                                                 *)
KTaskPrioSet(t, u, p) ==
    /\ Calling(t) /\ u # Idle
    /\ stat[u] \in PrioSetStats
    /\ curPrio' = [curPrio EXCEPT ![u] = p]
    /\ column'  = [column  EXCEPT ![u] = {p}]
    /\ rv' = IF stat[u] = "READY"
             THEN InsertReady(RemoveReady(rv, u, p, column[u]),
                              u, p, {p}, slice, advance)
             ELSE rv
    /\ UNCHANGED <<stat, slice, advance, exstatus, cpu, timers, dead, irq, calls>>

(* A delete that does not wake the recycler. *)
CloseWithoutWake(u) ==
    /\ zombies' = <<u>> \o RmNode(zombies, u)
    /\ rv'   = TakeReady(rv, u)
    /\ stat' = [stat EXCEPT ![u] = "CLOSE"]

(* _KTaskResourceDelete, the zombie list and the recycler's wakeup: what   *)
(* KTaskQuit and KTaskDelete do in their critical area.                    *)
Close(u) ==
    LET r == TakeReady(rv, u)
    IN  /\ zombies' = <<u>> \o RmNode(zombies, u)
        /\ IF stat[Zombie] = "SUSPEND"
           THEN /\ rv'   = PutReady(r, Zombie)
                /\ stat' = [stat EXCEPT ![u] = "CLOSE", ![Zombie] = "READY"]
           ELSE /\ rv'   = r
                /\ stat' = [stat EXCEPT ![u] = "CLOSE"]

KTaskQuit(t) ==
    /\ Calling(t) /\ t \in Mortal
    /\ Close(t)
    /\ pc' = [pc EXCEPT ![t] = "assign"]
    /\ UNCHANGED <<attrs, cpu, timers, reaping, irq, wakee>>

(* KTaskDelete of another task.  The code looks at neither the task's      *)
(* state nor its delay: a task that has quit is deleted again, and moves   *)
(* to the front of KTaskZombie.  The id of a task the recycler has taken   *)
(* off that list stays valid until zombierecycle.c:69; that nobody deletes *)
(* it then, and that nobody deletes a task that sleeps, are assumptions    *)
(* about the callers, DeleteReaping and DeleteSleeping.                    *)
KTaskDelete(t, u) ==
    /\ Calling(t) /\ u \in Mortal \ {t}
    /\ stat[u] # "NONE"
    /\ u = reaping => DeleteReaping
    /\ deadline[u] # Inactive => DeleteSleeping
    /\ Close(u)
    /\ pc' = [pc EXCEPT ![t] = "assign"]
    /\ UNCHANGED <<attrs, cpu, timers, reaping, irq, wakee>>

(* YieldOsAssign: the next task is chosen before the caller is queued. *)
YieldOsAssign(t) ==
    LET new == ChooseTaskWithHighestPrio(rv)
    IN  /\ Calling(t) /\ rv.group # {}
        /\ rv'   = TakeReady(PutReady(rv, t), new)
        /\ stat' = [stat EXCEPT ![t] = "READY", ![new] = "RUNNING"]
        /\ SwitchTo(new)
        /\ UNCHANGED <<attrs, timers, dead, irq, calls>>

(* DO_KTASK_ASSIGN in task context, at the end of the calls above or after *)
(* a KTaskWakeup.                                                          *)
Reschedule(t) ==
    /\ OnCpu(t) /\ t # Idle
    /\ pc[t] \in {"run", "assign", "delay"}
    /\ pc[t] = "run" => t \in User
    /\ OsAssign
    /\ pc' = [pc EXCEPT ![t] = IF @ = "delay" THEN "delayed" ELSE "run"]
    /\ UNCHANGED <<attrs, timers, dead, irq, wakee>>

-----------------------------------------------------------------------------
(* ZombieKTaskEntry, the recycler's loop. *)

ZombieRuns == OnCpu(Zombie) /\ stat[Zombie] = "RUNNING"

(* Take a closed task off the list ... *)
ZombieTake ==
    /\ ZombieRuns /\ pc[Zombie] = "run" /\ zombies # <<>>
    /\ reaping' = Head(zombies) /\ zombies' = Tail(zombies)
    /\ pc' = [pc EXCEPT ![Zombie] = "reap"]
    /\ UNCHANGED <<stat, attrs, rv, cpu, timers, irq, wakee>>

(* ... and free it, its id and its delay with interrupts on. *)
ZombieFree ==
    /\ ZombieRuns /\ pc[Zombie] = "reap"
    /\ stat'     = [stat     EXCEPT ![reaping] = "NONE"]
    /\ deadline' = [deadline EXCEPT ![reaping] = Inactive]
    /\ reaping'  = NoTask
    /\ pc' = [pc EXCEPT ![Zombie] = "run"]
    /\ UNCHANGED <<attrs, rv, cpu, tick, delayList, zombies, irq, wakee>>

(* Sleep when the list is empty, tested in the same critical area. *)
ZombieSleep ==
    /\ ZombieRuns /\ pc[Zombie] = "run" /\ zombies = <<>>
    /\ rv'   = TakeReady(rv, Zombie)
    /\ stat' = [stat EXCEPT ![Zombie] = "SUSPEND"]
    /\ KTaskUnSetDelay(Zombie)
    /\ pc'   = [pc EXCEPT ![Zombie] = "assign"]
    /\ UNCHANGED <<attrs, cpu, tick, dead, irq, wakee>>

-----------------------------------------------------------------------------
(* Interrupts. *)

(* An interrupt is taken: never inside a handler, and before a pending     *)
(* PendSV only where the model says so.                                    *)
IrqTaken == isr = "none" /\ (switchTo # NoTask => IrqBeforePendSV)

(* A time slice that is not given back when it is used up. *)
TimesliceUpdateNoReset(t) ==
    LET used == Policy # "FIFO" /\ slice[t] = 1
    IN  /\ slice'   = [slice EXCEPT ![t] = IF Policy = "FIFO" THEN @ ELSE @ - 1]
        /\ advance' = [advance EXCEPT ![t] =
                         IF used /\ Policy = "RR_REMAINSLICE" THEN MaxAdvance ELSE @]
        /\ swFlag'  = (swFlag \/ used)

(* The policies' TaskTimesliceUpdate: charge the tick to t; when its slice *)
(* is used up, refill it and ask for a switch.                             *)
TimesliceUpdate(t) ==
    LET used == Policy # "FIFO" /\ slice[t] = 1
    IN  /\ slice'   = [slice EXCEPT ![t] = IF Policy = "FIFO" THEN @
                                           ELSE IF used THEN TimeSlice ELSE @ - 1]
        /\ advance' = [advance EXCEPT ![t] =
                         IF used /\ Policy = "RR_REMAINSLICE" /\ @ < MaxAdvance
                         THEN @ + 1 ELSE @]
        /\ swFlag'  = (swFlag \/ used)

(* TickAndTaskTimesliceUpdate up to CheckTaskDelay: count the tick and     *)
(* charge it to os_running_task, whatever its state.                       *)
IsrTick ==
    /\ IrqTaken /\ tick < MaxTick
    /\ tick' = (tick + 1) % TickMod
    /\ TimesliceUpdate(running)
    /\ isr'  = "delay"
    /\ UNCHANGED <<stat, curPrio, column, exstatus, rv, cpu, delayList,
                   deadline, dead, calls>>

DelayDue == delayList # <<>> /\ Expired(deadline[Head(delayList)])

(* A timeout that loses the task. *)
KTaskTimeoutForgets(u) ==
    /\ stat'     = IF stat[u] = "SUSPEND" THEN [stat EXCEPT ![u] = "READY"]
                                          ELSE stat
    /\ UNCHANGED <<exstatus, rv, swFlag>>

(* KTaskTimeout: a task that is no longer suspended is left alone. *)
KTaskTimeout(u) ==
    IF stat[u] = "SUSPEND"
    THEN /\ stat'     = [stat     EXCEPT ![u] = "READY"]
         /\ exstatus' = [exstatus EXCEPT ![u] = "ETIMEOUT"]
         /\ rv'       = PutReady(rv, u)
         /\ swFlag'   = TRUE
    ELSE UNCHANGED <<stat, exstatus, rv, swFlag>>

(* CheckTaskDelay, one turn of its loop: take the expired head out of the  *)
(* list and time its task out.                                             *)
CheckTaskDelay ==
    /\ isr = "delay" /\ DelayDue
    /\ KTaskUnSetDelay(Head(delayList))
    /\ KTaskTimeout(Head(delayList))
    /\ UNCHANGED <<curPrio, column, slice, advance, cpu, tick, dead, isr, calls>>

CheckTaskDelayDone ==
    /\ isr = "delay" /\ ~DelayDue
    /\ isr' = "exit"
    /\ UNCHANGED <<stat, attrs, rv, cpu, timers, dead, swFlag, calls>>

(* The handler of another device wakes a task and reschedules, as the      *)
(* drivers do through the semaphores they abandon.                         *)
IsrDevice(u) ==
    /\ IrqTaken /\ stat[u] = "SUSPEND"
    /\ Wake(u)
    /\ swFlag' = TRUE
    /\ isr'    = "exit"
    /\ UNCHANGED <<attrs, cpu, tick, reaping, calls>>

(* The end of every handler: KTaskOsAssignAfterIrq. *)
IsrExit ==
    /\ isr = "exit"
    /\ IF swFlag THEN OsAssign ELSE UNCHANGED <<rv, stat, cpu>>
    /\ swFlag' = FALSE
    /\ isr'    = "none"
    /\ UNCHANGED <<attrs, timers, dead, calls>>

(* PendSV_Handler with UpdateRunningTask (Cortex-M). *)
PendSV ==
    /\ isr = "none" /\ switchTo # NoTask
    /\ running' = switchTo /\ switchTo' = NoTask
    /\ UNCHANGED <<stat, attrs, rv, timers, dead, irq, calls>>

-----------------------------------------------------------------------------
TaskStep(t) ==
    \/ \E u \in User : \/ KTaskCreate(t, u)
                       \/ StartupKTask(t, u)
                       \/ KTaskWakeup(t, u)
                       \/ KTaskWakeupTest(t, u)
                       \/ KTaskDelete(t, u)
    \/ \E u \in AllTask, p \in Prio : KTaskPrioSet(t, u, p)
    \/ \E d \in Delays : DelayKTask(t, d)
    \/ SuspendKTask(t)
    \/ DelayReturn(t)
    \/ KTaskWakeupGo(t)
    \/ KTaskQuit(t)
    \/ YieldOsAssign(t)

ZombieStep == ZombieTake \/ ZombieFree \/ ZombieSleep

IsrStep == CheckTaskDelay \/ CheckTaskDelayDone \/ IsrExit

Next ==
    \/ \E t \in User : TaskStep(t)
    \/ \E t \in AllTask : Reschedule(t)
    \/ ZombieStep
    \/ IsrTick
    \/ \E u \in User : IsrDevice(u)
    \/ IsrStep
    \/ PendSV

Spec == Init /\ [][Next]_vars

(* A pending tick interrupt is taken sooner or later whatever else the     *)
(* devices and the tasks do, and a handler runs to its end.  Nothing is    *)
(* assumed of the tasks.                                                   *)
FairSpec == Spec /\ SF_vars(IsrTick) /\ WF_vars(IsrStep) /\ WF_vars(PendSV)

-----------------------------------------------------------------------------
(* Properties. *)

(* Every variable has its type. *)
TypeOK ==
    /\ stat \in [AllTask -> Stats]
    /\ curPrio \in [AllTask -> Prio]
    /\ column \in [AllTask -> SUBSET Prio]
    /\ slice \in [AllTask -> 1 .. TimeSlice]
    /\ advance \in [AllTask -> 0 .. MaxAdvance]
    /\ exstatus \in [AllTask -> {"EOK", "ETIMEOUT"}]
    /\ rv \in [vector : [Prio -> Seq(AllTask)], group : SUBSET Prio, highest : Prio]
    /\ running \in AllTask
    /\ switchTo \in AllTask \cup {NoTask}
    /\ tick \in Ticks
    /\ delayList \in Seq(AllTask)
    /\ deadline \in [AllTask -> Ticks \cup {Inactive}]
    /\ zombies \in Seq(AllTask)
    /\ reaping \in AllTask \cup {NoTask}
    /\ isr \in {"none", "delay", "exit"}
    /\ swFlag \in BOOLEAN
    /\ pc \in [AllTask -> {"run", "assign", "delay", "delayed", "wake", "reap"}]
    /\ wakee \in [AllTask -> AllTask \cup {NoTask}]

(* The bitmap and the cached highest priority tell the truth about the     *)
(* lists: KTaskOsAssign decides from them alone, so a bit that is off hides *)
(* ready tasks and a bit that is on with an empty list makes               *)
(* ChooseTaskWithHighestPrio follow the list head as if it were a task.    *)
ReadyVectorConsistent ==
    /\ \A p \in Prio : p \in rv.group <=> rv.vector[p] # <<>>
    /\ rv.highest = PrioCaculate(rv.group)

(* A task is READY exactly when it is linked into the list of its current  *)
(* priority, once, and into no other: no runnable task is lost and none is *)
(* queued twice.                                                           *)
ReadyIffQueued ==
    /\ \A p \in Prio : IsInjective(rv.vector[p])
    /\ \A t \in AllTask, p \in Prio :
          t \in Range(rv.vector[p]) <=> stat[t] = "READY" /\ curPrio[t] = p

(* A RUNNING task has the core (or is what PendSV will switch to).  A task *)
(* left RUNNING anywhere else is on no list, and KTaskWakeup and           *)
(* KTaskTimeout ignore it: it never runs again.                            *)
OneRunning == \A t \in AllTask : stat[t] = "RUNNING" => t = CpuTask

(* Whenever the task on the core has stopped being RUNNING there is a      *)
(* ready task to switch to: KTaskOsAssign returns to the caller when the   *)
(* bitmap is empty, and a suspended or closed task would run on.           *)
SwitchAlwaysPossible ==
    /\ stat[CpuTask] # "RUNNING" => rv.group # {}
    /\ stat[CpuTask] \notin {"NONE", "INIT"}

(* A task on the delay list is suspended, and its delay is the active one: *)
(* no delay outlives the wait it was set for, to time out a later one.     *)
DelayOnlySuspended ==
    /\ IsInjective(delayList)
    /\ \A t \in AllTask :
          /\ t \in Range(delayList) <=> deadline[t] # Inactive
          /\ t \in Range(delayList) => stat[t] = "SUSPEND"

(* When a tick interrupt has checked the delays, no delay that has run out *)
(* is left on the list: tasks are woken at the tick they asked for.        *)
NoOverdueDelay ==
    isr \in {"none", "exit"} =>
        \A t \in Range(delayList) : ~Expired(deadline[t])

(* The recycler does not sleep while closed tasks wait to be freed, and    *)
(* what it frees is closed and never on the core: no wakeup of the         *)
(* recycler is lost between its test of the list and its suspension.       *)
ZombiesGetReaped ==
    /\ zombies # <<>> => stat[Zombie] # "SUSPEND"
    /\ \A t \in Range(zombies) \cup ({reaping} \ {NoTask}) :
          stat[t] = "CLOSE" /\ (t = reaping => t # CpuTask)

(* Every reschedule leaves the core to a task no ready task outranks.      *)
Outranked == \E t \in AllTask : stat[t] = "READY" /\ curPrio[t] > curPrio[CpuTask]
ReschedulePicksHighest ==
    [][(\/ \E t \in AllTask : Reschedule(t)
        \/ swFlag /\ IsrExit) => ~Outranked']_vars

(* Time slicing: a ready task that no ready or running task outranks is    *)
(* not left waiting for ever by others of its priority, whatever they do   *)
(* and however the remaining slices order the list.                        *)
TopReady(t) ==
    /\ stat[t] = "READY"
    /\ \A u \in AllTask : stat[u] \in {"READY", "RUNNING"} => curPrio[u] <= curPrio[t]
NoStarvation == \A t \in User : []<>~TopReady(t)

(* A task that waits with a delay is woken, also when the tick counter     *)
(* wraps and the raw order of the delay list is then not the order in      *)
(* which the delays run out.                                               *)
DelayEnds == \A t \in User : deadline[t] # Inactive ~> stat[t] # "SUSPEND"

(* The life of a task as TaskAbs sees it. *)
Life == [t \in AllTask |->
            CASE stat[t] = "NONE"    -> "none"
              [] stat[t] = "INIT"    -> "created"
              [] stat[t] = "SUSPEND" -> "waiting"
              [] stat[t] = "CLOSE"   -> "closed"
              [] OTHER               -> "runnable"]

Abs == INSTANCE TaskAbs WITH Task <- AllTask, Service <- {Idle, Zombie},
                             life <- Life, core <- CpuTask

(* The kernel's calls and interrupts, in any interleaving, implement the   *)
(* life cycle of TaskAbs: only a runnable task gets the core, only a task  *)
(* itself blocks, and a closed task never runs or wakes again.             *)
Lifecycle == Abs!Spec
=============================================================================
