--------------------------- MODULE TaskLifeProofs ---------------------------
(***************************************************************************)
(* Three results about the kernel of KTask that rest on the invariant of   *)
(* KTaskProofs: the delay list holds only suspended tasks, no delay        *)
(* outlives its tick, and the kernel implements the life cycle of TaskAbs. *)
(***************************************************************************)
EXTENDS KTaskProofs

-----------------------------------------------------------------------------
(* The delay list. *)

(* A step that leaves the delays alone and resumes nobody keeps the list. *)
LEMMA DelayFrame ==
  ASSUME DelayOnlySuspended, UNCHANGED <<delayList, deadline>>,
         \A t \in AllTask : stat[t] = "SUSPEND" => stat'[t] = "SUSPEND"
  PROVE  DelayOnlySuspended'
  BY DEF DelayOnlySuspended

(* KTaskUnSetDelay lets its task be resumed, and no other. *)
LEMMA DelayUnSet ==
  ASSUME TypeOK, DelayOnlySuspended, NEW u \in AllTask, KTaskUnSetDelay(u),
         \A t \in AllTask \ {u} : stat[t] = "SUSPEND" => stat'[t] = "SUSPEND"
  PROVE  DelayOnlySuspended'
<1>1. /\ delayList \in Seq(AllTask) /\ IsInjective(delayList)
      /\ deadline \in [AllTask -> Ticks \cup {Inactive}]
  BY DEF TypeOK, DelayOnlySuspended
<1>2. IsInjective(delayList') /\ Range(delayList') = Range(delayList) \ {u}
  <2>1. IsInjective(RmNode(delayList, u)) /\ Range(RmNode(delayList, u)) = Range(delayList) \ {u}
    BY <1>1, RmNodeElements
  <2>2. deadline[u] = Inactive => u \notin Range(delayList)
    BY DEF DelayOnlySuspended
  <2> QED BY <1>1, <2>1, <2>2 DEF KTaskUnSetDelay
<1>3. deadline' = [deadline EXCEPT ![u] = Inactive]
  BY DEF KTaskUnSetDelay
<1> QED BY <1>1, <1>2, <1>3 DEF DelayOnlySuspended

(* KTaskSetDelay of a task that it suspends. *)
LEMMA DelaySet ==
  ASSUME TypeOK, DelayOnlySuspended, NEW u \in AllTask, NEW d \in Delays, KTaskSetDelay(u, d),
         stat[u] # "SUSPEND", stat' = [stat EXCEPT ![u] = "SUSPEND"]
  PROVE  DelayOnlySuspended'
<1> DEFINE due == (tick + d) % TickMod
<1>1. /\ delayList \in Seq(AllTask) /\ IsInjective(delayList)
      /\ deadline \in [AllTask -> Ticks \cup {Inactive}] /\ stat \in [AllTask -> Stats]
  BY DEF TypeOK, DelayOnlySuspended
<1>2. u \notin Range(delayList) /\ deadline[u] = Inactive
  BY DEF DelayOnlySuspended
<1>3. due # Inactive
  <2>1. tick \in Nat /\ d \in Nat /\ TickMod \in Nat \ {0}
    BY TimeAssumption DEF TypeOK, Ticks
  <2>2. \A n \in Nat : n % TickMod \in 0 .. TickMod - 1
    BY <2>1
  <2> QED BY <2>1, <2>2 DEF Inactive
<1>4. /\ delayList' = InsertSorted(delayList, u, due, deadline)
      /\ deadline' = [deadline EXCEPT ![u] = due]
  BY <1>2 DEF KTaskSetDelay
<1> HIDE DEF due
<1>5. IsInjective(delayList') /\ Range(delayList') = Range(delayList) \cup {u}
  BY <1>1, <1>2, <1>4, InsertSortedElements
<1> QED BY <1>1, <1>3, <1>4, <1>5 DEF DelayOnlySuspended

(* A wakeup cancels the delay of the task it resumes. *)
LEMMA DelayWake ==
  ASSUME TypeOK, DelayOnlySuspended, NEW u \in AllTask, Wake(u)
  PROVE  DelayOnlySuspended'
  BY DelayUnSet DEF Wake, TypeOK

(* A decision of the scheduler neither suspends nor resumes. *)
LEMMA DelayDispatch ==
  ASSUME DelayOnlySuspended, Dispatched, UNCHANGED <<delayList, deadline>>
  PROVE  DelayOnlySuspended'
<1>1. \A t \in AllTask : stat[t] = "SUSPEND" => stat'[t] = "SUSPEND"
  BY DEF Dispatched
<1> QED BY <1>1, DelayFrame

(* Closing a task without a delay, which may resume the recycler.  *)
LEMMA DelayClose ==
  ASSUME TypeOK, DelayOnlySuspended, NEW u \in User, Close(u),
         UNCHANGED <<delayList, deadline>>,
         deadline[u] = Inactive, deadline[Zombie] = Inactive
  PROVE  DelayOnlySuspended'
<1>1. stat \in [AllTask -> Stats] /\ u \in AllTask /\ Zombie \in AllTask
  BY TaskSets DEF TypeOK
<1>2. \A t \in AllTask \ {u, Zombie} : stat'[t] = stat[t]
  BY <1>1 DEF Close
<1> QED BY <1>2 DEF DelayOnlySuspended

-----------------------------------------------------------------------------
(* What the steps that end in the scheduler do. *)
LEMMA YieldDispatches ==
  ASSUME IndInv, NEW t \in User, YieldOsAssign(t)
  PROVE  Dispatched
<1> DEFINE new == ChooseTaskWithHighestPrio(rv)
<1> USE TaskSets DEF Calling, OnCpu
<1>1. /\ switchTo = NoTask /\ running = t /\ stat[t] = "RUNNING" /\ rv.group # {}
      /\ rv' = TakeReady(PutReady(rv, t), new) /\ SwitchTo(new)
      /\ stat' = [stat EXCEPT ![t] = "READY", ![new] = "RUNNING"]
      /\ UNCHANGED <<curPrio, column>>
  BY DEF YieldOsAssign, attrs
<1>2. new \in Ready /\ new # t
  <2> DEFINE S == Ready
  <2>1. /\ S \in SUBSET AllTask /\ curPrio \in [AllTask -> Prio] /\ t \notin S
        /\ Holds(rv, AllTask, S, curPrio)
    BY <1>1 DEF Ready, IndInv, TypeOK, QueueInv
  <2> HIDE DEF S
  <2>2. new \in S
    BY <1>1, <2>1, ChooseIsHighest
  <2> QED BY <2>1, <2>2 DEF S
<1> HIDE DEF new
<1> QED BY <1>1, <1>2, SwitchEffect

LEMMA IsrExitDispatches ==
  ASSUME IndInv, IsrExit
  PROVE  Dispatched
<1>1. switchTo = NoTask
  BY DEF IsrExit, IndInv, CoreInv
<1>2. CASE swFlag
  BY <1>1, <1>2, OsAssignEffect DEF IsrExit, attrs
<1>3. CASE ~swFlag
  <2>1. UNCHANGED <<rv, stat, running, switchTo, curPrio>>
    BY <1>3 DEF IsrExit, cpu, attrs
  <2>2. Ready' = Ready /\ CpuTask' = CpuTask /\ CpuTask \in AllTask
    BY <2>1 DEF Ready, CpuTask, IndInv, TypeOK
  <2>3. stat \in [AllTask -> Stats] /\ running \in AllTask /\ QueueInv /\ OneRunning
    BY DEF IndInv, TypeOK, CoreInv
  <2> QED BY <1>1, <2>1, <2>2, <2>3 DEF Dispatched, QueueInv, OneRunning
<1> QED BY <1>2, <1>3

LEMMA RescheduleDispatches ==
  ASSUME IndInv, NEW t \in AllTask, Reschedule(t)
  PROVE  Dispatched
  BY OsAssignEffect DEF Reschedule, OnCpu, attrs

-----------------------------------------------------------------------------
(* The delay list through each step.  Only user tasks have delays, so the  *)
(* recycler that a delete resumes has none.                                *)
DelayInv == DelayOnlySuspended /\ deadline[Zombie] = Inactive

(* Calls of a task. *)
LEMMA TaskStepDelay ==
  ASSUME ~DeleteSleeping, IndInv, DelayInv, NEW t \in User, TaskStep(t)
  PROVE  DelayInv'
<1> USE TaskSets DEF DelayInv, Calling, OnCpu
<1>1. /\ TypeOK /\ stat \in [AllTask -> Stats] /\ t \in AllTask /\ Zombie \in AllTask
      /\ deadline \in [AllTask -> Ticks \cup {Inactive}] /\ t # Zombie
  BY DEF IndInv, TypeOK
<1>2. \A u \in AllTask : stat[u] # "SUSPEND" => deadline[u] = Inactive
  BY DEF DelayOnlySuspended
<1>3. \A u \in AllTask : KTaskUnSetDelay(u) => deadline'[Zombie] = Inactive
  BY <1>1 DEF KTaskUnSetDelay
<1>4. ASSUME NEW u \in User, KTaskCreate(t, u) PROVE DelayInv'
  <2>1. UNCHANGED <<delayList, deadline>> /\ stat[u] = "NONE" /\ stat' = [stat EXCEPT ![u] = "INIT"]
    BY <1>4 DEF KTaskCreate, timers
  <2> QED BY <1>1, <2>1, DelayFrame
<1>5. ASSUME NEW u \in User, StartupKTask(t, u) PROVE DelayInv'
  <2>1. KTaskUnSetDelay(u) /\ stat' = [stat EXCEPT ![u] = "READY"] /\ u \in AllTask
    BY <1>5 DEF StartupKTask
  <2> QED BY <1>1, <1>3, <2>1, DelayUnSet
<1>6. ASSUME NEW u \in User, KTaskWakeup(t, u) PROVE DelayInv'
  BY <1>1, <1>3, <1>6, DelayWake DEF KTaskWakeup, Wake
<1>7. ASSUME NEW u \in User, KTaskWakeupTest(t, u) PROVE DelayInv'
  BY <1>7, DelayFrame DEF KTaskWakeupTest, timers
<1>8. ASSUME NEW u \in User, KTaskDelete(t, u) PROVE DelayInv'
  <2>1. Close(u) /\ deadline[u] = Inactive /\ UNCHANGED <<delayList, deadline>>
    BY <1>8 DEF KTaskDelete, timers
  <2> QED BY <1>1, <2>1, DelayClose
<1>9. ASSUME NEW u \in AllTask, NEW p \in Prio, KTaskPrioSet(t, u, p) PROVE DelayInv'
  BY <1>9, DelayFrame DEF KTaskPrioSet, timers
<1>10. ASSUME NEW d \in Delays, DelayKTask(t, d) PROVE DelayInv'
  <2>1. KTaskSetDelay(t, d) /\ stat[t] = "RUNNING" /\ stat' = [stat EXCEPT ![t] = "SUSPEND"]
    BY <1>10 DEF DelayKTask
  <2>2. deadline'[Zombie] = Inactive
    BY <1>1, <2>1 DEF KTaskSetDelay
  <2> QED BY <1>1, <2>1, <2>2, DelaySet
<1>11. CASE SuspendKTask(t)
  <2>1. KTaskUnSetDelay(t) /\ stat' = [stat EXCEPT ![t] = "SUSPEND"]
    BY <1>11 DEF SuspendKTask
  <2> QED BY <1>1, <1>3, <2>1, DelayUnSet
<1>12. CASE DelayReturn(t)
  BY <1>12, DelayFrame DEF DelayReturn, timers
<1>13. CASE KTaskWakeupGo(t)
  <2>1. Wake(wakee[t]) /\ wakee[t] \in AllTask
    BY <1>1, <1>13 DEF KTaskWakeupGo, IndInv, WakeeInv
  <2> QED BY <1>1, <1>3, <2>1, DelayWake DEF Wake
<1>14. CASE KTaskQuit(t)
  <2>1. Close(t) /\ UNCHANGED <<delayList, deadline>> /\ stat[t] = "RUNNING"
    BY <1>14 DEF KTaskQuit, timers
  <2> QED BY <1>1, <1>2, <2>1, DelayClose
<1>15. CASE YieldOsAssign(t)
  BY <1>15, YieldDispatches, DelayDispatch DEF YieldOsAssign, timers
<1> QED BY <1>4, <1>5, <1>6, <1>7, <1>8, <1>9, <1>10, <1>11, <1>12, <1>13, <1>14, <1>15
        DEF TaskStep

(* The other steps. *)
LEMMA NextDelay ==
  ASSUME ~DeleteSleeping, IndInv, DelayInv, [Next]_vars
  PROVE  DelayInv'
<1> USE TaskSets DEF DelayInv
<1>1. /\ TypeOK /\ stat \in [AllTask -> Stats] /\ Zombie \in AllTask
      /\ delayList \in Seq(AllTask)
      /\ deadline \in [AllTask -> Ticks \cup {Inactive}]
  BY DEF IndInv, TypeOK
<1>2. \A u \in AllTask : KTaskUnSetDelay(u) => deadline'[Zombie] = Inactive
  BY <1>1 DEF KTaskUnSetDelay
<1>3. ASSUME NEW t \in User, TaskStep(t) PROVE DelayInv'
  BY <1>3, TaskStepDelay
<1>4. ASSUME NEW t \in AllTask, Reschedule(t) PROVE DelayInv'
  BY <1>4, RescheduleDispatches, DelayDispatch DEF Reschedule, timers
<1>5. CASE ZombieTake
  BY <1>5, DelayFrame DEF ZombieTake, timers
<1>6. CASE ZombieFree
  <2>1. reaping \in AllTask /\ stat[reaping] = "CLOSE"
    BY <1>6 DEF ZombieFree, IndInv, DeadInv, ZombiesGetReaped
  <2>2. deadline[reaping] = Inactive
    BY <2>1 DEF DelayOnlySuspended
  <2>3. deadline' = deadline
    BY <1>1, <1>6, <2>1, <2>2 DEF ZombieFree
  <2>4. delayList' = delayList /\ stat' = [stat EXCEPT ![reaping] = "NONE"]
    BY <1>6 DEF ZombieFree
  <2> QED BY <1>1, <2>1, <2>3, <2>4, DelayFrame
<1>7. CASE ZombieSleep
  <2>1. KTaskUnSetDelay(Zombie) /\ stat' = [stat EXCEPT ![Zombie] = "SUSPEND"]
    BY <1>7 DEF ZombieSleep
  <2> QED BY <1>1, <1>2, <2>1, DelayUnSet
<1>8. CASE IsrTick
  BY <1>8, DelayFrame DEF IsrTick
<1>9. ASSUME NEW u \in User, IsrDevice(u) PROVE DelayInv'
  BY <1>1, <1>2, <1>9, DelayWake DEF IsrDevice, Wake
<1>10. CASE CheckTaskDelay
  <2> DEFINE u == Head(delayList)
  <2>1. delayList # <<>> /\ KTaskUnSetDelay(u) /\ KTaskTimeout(u)
    BY <1>10 DEF CheckTaskDelay, DelayDue
  <2>2. u \in AllTask
    BY <1>1, <2>1
  <2> HIDE DEF u
  <2>3. \A t \in AllTask \ {u} : stat'[t] = stat[t]
    BY <1>1, <2>1, <2>2 DEF KTaskTimeout
  <2> QED BY <1>1, <1>2, <2>1, <2>2, <2>3, DelayUnSet
<1>11. CASE CheckTaskDelayDone
  BY <1>11, DelayFrame DEF CheckTaskDelayDone, timers
<1>12. CASE IsrExit
  BY <1>12, IsrExitDispatches, DelayDispatch DEF IsrExit, timers
<1>13. CASE PendSV
  BY <1>13, DelayFrame DEF PendSV, timers
<1>14. CASE UNCHANGED vars
  BY <1>14, DelayFrame DEF vars, timers
<1> QED BY <1>3, <1>4, <1>5, <1>6, <1>7, <1>8, <1>9, <1>10, <1>11, <1>12, <1>13, <1>14
        DEF Next, ZombieStep, IsrStep

(* A delay runs only while its task is suspended: every path that resumes  *)
(* a task, a wakeup in task context or in a handler as well as a timeout,  *)
(* cancels it, so none is left to end a later wait.  As long as no task is *)
(* deleted in its sleep.                                                   *)
THEOREM DelaysOfSleepers ==
  ASSUME Disciplined, ~DeleteSleeping
  PROVE  Spec => []DelayOnlySuspended
<1>1. Init => DelayInv
  <2> SUFFICES ASSUME Init PROVE DelayInv
    OBVIOUS
  <2>1. delayList = <<>> /\ deadline = [t \in AllTask |-> Inactive]
    BY DEF Init
  <2>2. Range(delayList) = {} /\ IsInjective(delayList)
    BY <2>1 DEF Range, IsInjective
  <2> QED BY <2>1, <2>2, TaskSets DEF DelayInv, DelayOnlySuspended
<1>2. IndInv /\ DelayInv /\ [Next]_vars => DelayInv'
  BY NextDelay
<1>3. DelayInv => DelayOnlySuspended
  BY DEF DelayInv
<1> QED BY <1>1, <1>2, <1>3, SchedulerInv, PTL DEF Spec

-----------------------------------------------------------------------------
(* Delays that run out. *)

(* The tick counter does not pass its end, and no delay is longer than     *)
(* half of what it counts.                                                 *)
HalfTurn   == (TickMod - 1) \div 2
NoTickWrap == \A d \in Delays : MaxTick + d < TickMod /\ d <= HalfTurn

(* No deadline is behind the counter, nor is one so far ahead that it      *)
(* seems to be, and the list has them in order.                            *)
DelaysAhead ==
    \A t \in AllTask : deadline[t] # Inactive =>
        /\ tick <= deadline[t] /\ deadline[t] <= tick + HalfTurn /\ 1 <= HalfTurn
        /\ isr # "delay" => tick < deadline[t]

DelayOrder == tick <= MaxTick /\ Ascending(delayList, deadline) /\ DelaysAhead

LEMMA DelayNumbers ==
  ASSUME TypeOK
  PROVE  /\ TickMod \in Nat \ {0} /\ MaxTick \in Nat /\ HalfTurn \in Int /\ 2 * HalfTurn <= TickMod - 1
         /\ tick \in Nat /\ tick < TickMod /\ Inactive = -1
         /\ delayList \in Seq(AllTask) /\ \A t \in AllTask : deadline[t] \in Int /\ deadline[t] < TickMod
         /\ \A d \in Delays : d \in Nat /\ 1 <= d
<1>1. TickMod \in Nat \ {0} /\ MaxTick \in Nat /\ Delays \subseteq 1 .. TickMod - 1
  BY TimeAssumption
<1>2. HalfTurn \in Int /\ 2 * HalfTurn <= TickMod - 1
  BY <1>1 DEF HalfTurn
<1>3. /\ tick \in 0 .. TickMod - 1 /\ delayList \in Seq(AllTask) /\ Inactive = -1
      /\ \A t \in AllTask : deadline[t] \in (0 .. TickMod - 1) \cup {-1}
  BY DEF TypeOK, Ticks, Inactive
<1>4. \A t \in AllTask : deadline[t] \in Int /\ deadline[t] < TickMod
  BY <1>1, <1>3
<1>5. \A d \in Delays : d \in Nat /\ 1 <= d
  BY <1>1
<1> QED BY <1>1, <1>2, <1>3, <1>4, <1>5

(* A step that leaves the counter and the delays alone. *)
LEMMA OrderFrame ==
  ASSUME DelayOrder, UNCHANGED <<tick, delayList, deadline>>, isr = "delay" => isr' = "delay"
  PROVE  DelayOrder'
  BY DEF DelayOrder, DelaysAhead

(* A delay that is cancelled or has run out. *)
LEMMA OrderUnSet ==
  ASSUME TypeOK, DelayOnlySuspended, DelayOrder, NEW u \in AllTask, KTaskUnSetDelay(u),
         UNCHANGED tick, isr = "delay" => isr' = "delay"
  PROVE  DelayOrder'
<1>1. /\ delayList \in Seq(AllTask) /\ IsInjective(delayList)
      /\ deadline \in [AllTask -> Ticks \cup {Inactive}]
  BY DEF TypeOK, DelayOnlySuspended
<1>2. deadline' = [deadline EXCEPT ![u] = Inactive]
  BY DEF KTaskUnSetDelay
<1>3. delayList' = RmNode(delayList, u)
  BY DEF KTaskUnSetDelay, DelayOnlySuspended, RmNode
<1>4. delayList' \in Seq(AllTask) /\ Range(delayList') = Range(delayList) \ {u}
  BY <1>1, <1>3, RmNodeElements
<1>5. Ascending(delayList', deadline)
  BY <1>1, <1>3, RmNodeAscending DEF DelayOrder
<1>6. \A x \in Range(delayList') : deadline'[x] = deadline[x]
  <2>1. Range(delayList') \subseteq AllTask
    BY <1>4 DEF Range
  <2> QED BY <1>1, <1>2, <1>4, <2>1
<1>7. Ascending(delayList', deadline')
  BY <1>4, <1>5, <1>6, AscendingAgrees
<1>8. DelaysAhead'
  BY <1>1, <1>2 DEF DelayOrder, DelaysAhead
<1> QED BY <1>7, <1>8 DEF DelayOrder

(* A delay that is set: KTaskSetDelay links it in front of the first that  *)
(* ends later.                                                             *)
LEMMA OrderSet ==
  ASSUME NoTickWrap, TypeOK, DelayOnlySuspended, DelayOrder, NEW u \in AllTask, NEW d \in Delays,
         KTaskSetDelay(u, d), deadline[u] = Inactive, UNCHANGED <<tick, isr>>
  PROVE  DelayOrder'
<1> DEFINE due == (tick + d) % TickMod
<1>1. /\ tick \in Nat /\ tick <= MaxTick /\ MaxTick \in Nat /\ TickMod \in Nat \ {0}
      /\ d \in Nat /\ 1 <= d /\ HalfTurn \in Int
  BY DelayNumbers DEF DelayOrder
<1>2. MaxTick + d < TickMod /\ d <= HalfTurn
  BY DEF NoTickWrap
<1>3. due = tick + d
  BY <1>1, <1>2
<1>4. /\ delayList' = InsertSorted(delayList, u, due, deadline)
      /\ deadline' = [deadline EXCEPT ![u] = due]
  BY DEF KTaskSetDelay
<1> HIDE DEF due
<1>5. /\ delayList \in Seq(AllTask) /\ deadline \in [AllTask -> Ticks \cup {Inactive}]
      /\ u \notin Range(delayList) /\ Range(delayList) \subseteq AllTask
  BY SMTT(20) DEF TypeOK, DelayOnlySuspended, Range
<1>6. deadline'[u] = due /\ \A x \in AllTask \ {u} : deadline'[x] = deadline[x]
  BY <1>4, <1>5
<1>7. Ascending(delayList', deadline')
  <2>1. due \in Int /\ \A x \in AllTask : deadline[x] \in Int
    BY <1>1, <1>3, DelayNumbers
  <2>2. \A x \in Range(delayList) : deadline'[x] = deadline[x]
    BY <1>5, <1>6
  <2>3. Ascending(delayList, deadline)
    BY DEF DelayOrder
  <2>4. Ascending(InsertSorted(delayList, u, due, deadline), deadline')
    <3> DEFINE later == deadline'
    <3>1. later[u] = due /\ \A x \in Range(delayList) : later[x] = deadline[x]
      BY <1>6, <2>2
    <3> HIDE DEF later
    <3>2. Ascending(InsertSorted(delayList, u, due, deadline), later)
      BY <1>5, <2>1, <2>3, <3>1, InsertSortedAscending
    <3> QED BY <3>2 DEF later
  <2> QED BY <1>4, <2>4
<1>8. DelaysAhead'
  <2>1. ASSUME NEW t \in AllTask, deadline'[t] # Inactive
        PROVE  /\ tick' <= deadline'[t] /\ deadline'[t] <= tick' + HalfTurn /\ 1 <= HalfTurn
               /\ isr' # "delay" => tick' < deadline'[t]
    <3>1. CASE t = u
      <4>1. deadline'[t] = tick + d /\ tick' = tick
        BY <1>3, <1>6, <3>1
      <4> QED BY <1>1, <1>2, <4>1
    <3>2. CASE t # u
      <4>1. deadline'[t] = deadline[t]
        BY <1>6, <3>2
      <4> QED BY <2>1, <4>1 DEF DelayOrder, DelaysAhead
    <3> QED BY <3>1, <3>2
  <2> QED BY <2>1 DEF DelaysAhead
<1> QED BY <1>1, <1>7, <1>8 DEF DelayOrder

(* The delays that have run out are those whose deadline is the count. *)
LEMMA ExpiredNow ==
  ASSUME TypeOK, DelaysAhead, NEW t \in AllTask, deadline[t] # Inactive
  PROVE  Expired(deadline[t]) <=> deadline[t] = tick
<1> DEFINE e == deadline[t]
<1>1. /\ e \in Int /\ tick \in Nat /\ e < TickMod /\ TickMod \in Nat \ {0}
      /\ HalfTurn \in Int /\ 2 * HalfTurn <= TickMod - 1
  BY DelayNumbers
<1>2. tick <= e /\ e <= tick + HalfTurn /\ 1 <= HalfTurn
  BY DEF DelaysAhead
<1>3. Expired(e) <=> (tick - e) % TickMod < HalfTurn
  BY DEF Expired, HalfTurn
<1> HIDE DEF e
<1>4. tick - e \in 1 - TickMod .. TickMod - 1
  BY <1>1, <1>2
<1>5. (tick - e) % TickMod = IF tick - e >= 0 THEN tick - e ELSE tick - e + TickMod
  BY <1>1, <1>4, ModDown
<1>6. Expired(e) <=> e = tick
  BY <1>1, <1>2, <1>3, <1>5
<1> QED BY <1>6 DEF e

(* The tick interrupt: every delay ends after the tick that is over. *)
LEMMA OrderTick ==
  ASSUME TypeOK, DelayOrder, IsrTick
  PROVE  DelayOrder'
<1>1. /\ tick \in Nat /\ tick < TickMod /\ TickMod \in Nat \ {0} /\ MaxTick \in Nat
      /\ HalfTurn \in Int /\ \A t \in AllTask : deadline[t] \in Int /\ deadline[t] < TickMod
  BY DelayNumbers
<1>2. /\ isr = "none" /\ tick < MaxTick /\ tick' = (tick + 1) % TickMod /\ isr' = "delay"
      /\ UNCHANGED <<delayList, deadline>>
  BY DEF IsrTick, IrqTaken
<1>3. tick' = IF tick + 1 < TickMod THEN tick + 1 ELSE tick + 1 - TickMod
  <2> DEFINE n == tick + 1
  <2>1. n \in 0 .. 2 * TickMod - 1 /\ n = tick + 1
    BY <1>1
  <2>2. tick' = n % TickMod
    BY <1>2
  <2> HIDE DEF n
  <2>3. n % TickMod = IF n < TickMod THEN n ELSE n - TickMod
    BY <1>1, <2>1, ModUp
  <2>4. tick' = IF n < TickMod THEN n ELSE n - TickMod
    BY <2>2, <2>3
  <2> QED BY <1>1, <2>1, <2>4
<1>4. tick' <= MaxTick
  BY <1>1, <1>2, <1>3
<1>5. Ascending(delayList', deadline')
  BY <1>2 DEF DelayOrder
<1>6. ASSUME NEW t \in AllTask, deadline'[t] # Inactive
      PROVE  tick' <= deadline'[t] /\ deadline'[t] <= tick' + HalfTurn /\ 1 <= HalfTurn
  <2>1. deadline'[t] = deadline[t] /\ deadline[t] # Inactive
    BY <1>2, <1>6
  <2>2. tick < deadline[t] /\ deadline[t] <= tick + HalfTurn /\ 1 <= HalfTurn
    BY <1>2, <2>1 DEF DelayOrder, DelaysAhead
  <2> QED BY <1>1, <1>3, <2>1, <2>2
<1> QED BY <1>2, <1>4, <1>5, <1>6 DEF DelayOrder, DelaysAhead

(* The loop of CheckTaskDelay stops at a first delay that ends later, and  *)
(* so do all behind it.                                                    *)
LEMMA OrderDone ==
  ASSUME TypeOK, DelayOnlySuspended, DelayOrder, CheckTaskDelayDone
  PROVE  DelayOrder'
<1>1. /\ tick \in Nat /\ delayList \in Seq(AllTask)
      /\ \A t \in AllTask : deadline[t] \in Int
  BY DelayNumbers
<1>2. ~DelayDue /\ UNCHANGED <<tick, delayList, deadline>>
  BY DEF CheckTaskDelayDone, timers
<1>3. ASSUME NEW t \in AllTask, deadline[t] # Inactive PROVE tick < deadline[t]
  <2> DEFINE h == Head(delayList)
  <2>1. t \in Range(delayList)
    BY <1>3 DEF DelayOnlySuspended
  <2>2. delayList # <<>>
    BY <2>1 DEF Range
  <2>3. h \in AllTask /\ h \in Range(delayList)
    BY <1>1, <2>2 DEF Range
  <2>4. ~Expired(deadline[h])
    BY <1>2, <2>2 DEF DelayDue
  <2>5. deadline[h] <= deadline[t]
    BY <1>1, <2>1, <2>2, TailAscending DEF DelayOrder
  <2> HIDE DEF h
  <2>6. deadline[h] # Inactive
    BY <2>3 DEF DelayOnlySuspended
  <2>7. deadline[h] # tick /\ tick <= deadline[h]
    BY <2>3, <2>4, <2>6, ExpiredNow DEF DelayOrder, DelaysAhead
  <2> QED BY <1>1, <2>3, <2>5, <2>7
<1> QED BY <1>2, <1>3 DEF DelayOrder, DelaysAhead

(* One step of the kernel. *)
LEMMA NextOrder ==
  ASSUME ~DeleteSleeping, NoTickWrap, IndInv, DelayInv, DelayOrder, [Next]_vars
  PROVE  DelayOrder'
<1> USE TaskSets
<1>1. /\ TypeOK /\ DelayOnlySuspended /\ Zombie \in AllTask /\ User \subseteq AllTask
      /\ delayList \in Seq(AllTask) /\ deadline \in [AllTask -> Ticks \cup {Inactive}]
  BY DEF IndInv, TypeOK, DelayInv
<1>2. ASSUME NEW u \in AllTask, KTaskUnSetDelay(u), UNCHANGED tick, isr = "delay" => isr' = "delay"
      PROVE  DelayOrder'
  BY <1>1, <1>2, OrderUnSet
<1>3. ASSUME NEW t \in User, TaskStep(t) PROVE DelayOrder'
  <2> USE DEF Calling, OnCpu
  <2>1. ASSUME NEW u \in User, KTaskCreate(t, u) PROVE DelayOrder'
    BY <2>1, OrderFrame DEF KTaskCreate, timers, irq
  <2>2. ASSUME NEW u \in User, StartupKTask(t, u) PROVE DelayOrder'
    BY <1>1, <1>2, <2>2 DEF StartupKTask, irq
  <2>3. ASSUME NEW u \in User, KTaskWakeup(t, u) PROVE DelayOrder'
    BY <1>1, <1>2, <2>3 DEF KTaskWakeup, Wake, irq
  <2>4. ASSUME NEW u \in User, KTaskWakeupTest(t, u) PROVE DelayOrder'
    BY <2>4, OrderFrame DEF KTaskWakeupTest, timers, irq
  <2>5. ASSUME NEW u \in User, KTaskDelete(t, u) PROVE DelayOrder'
    BY <2>5, OrderFrame DEF KTaskDelete, timers, irq
  <2>6. ASSUME NEW u \in AllTask, NEW p \in Prio, KTaskPrioSet(t, u, p) PROVE DelayOrder'
    BY <2>6, OrderFrame DEF KTaskPrioSet, timers, irq
  <2>7. ASSUME NEW d \in Delays, DelayKTask(t, d) PROVE DelayOrder'
    <3>1. KTaskSetDelay(t, d) /\ stat[t] = "RUNNING" /\ UNCHANGED <<tick, isr>>
      BY <2>7 DEF DelayKTask, irq
    <3>2. deadline[t] = Inactive
      BY <1>1, <3>1 DEF DelayOnlySuspended
    <3> QED BY <1>1, <3>1, <3>2, OrderSet
  <2>8. CASE SuspendKTask(t)
    BY <1>1, <1>2, <2>8 DEF SuspendKTask, irq
  <2>9. CASE DelayReturn(t)
    BY <2>9, OrderFrame DEF DelayReturn, timers, irq
  <2>10. CASE KTaskWakeupGo(t)
    <3>1. Wake(wakee[t]) /\ wakee[t] \in AllTask
      BY <1>1, <2>10 DEF KTaskWakeupGo, IndInv, WakeeInv
    <3> QED BY <1>2, <2>10, <3>1 DEF KTaskWakeupGo, Wake, irq
  <2>11. CASE KTaskQuit(t)
    BY <2>11, OrderFrame DEF KTaskQuit, timers, irq
  <2>12. CASE YieldOsAssign(t)
    BY <2>12, OrderFrame DEF YieldOsAssign, timers, irq
  <2> QED BY <1>3, <2>1, <2>2, <2>3, <2>4, <2>5, <2>6, <2>7, <2>8, <2>9, <2>10, <2>11, <2>12
          DEF TaskStep
<1>4. ASSUME NEW t \in AllTask, Reschedule(t) PROVE DelayOrder'
  BY <1>4, OrderFrame DEF Reschedule, timers, irq
<1>5. CASE ZombieTake
  BY <1>5, OrderFrame DEF ZombieTake, timers, irq
<1>6. CASE ZombieFree
  <2>1. reaping \in AllTask /\ stat[reaping] = "CLOSE"
    BY <1>6 DEF ZombieFree, IndInv, DeadInv, ZombiesGetReaped
  <2>2. deadline[reaping] = Inactive
    BY <1>1, <2>1 DEF DelayOnlySuspended
  <2>3. deadline' = deadline
    BY <1>1, <1>6, <2>1, <2>2 DEF ZombieFree
  <2> QED BY <1>6, <2>3, OrderFrame DEF ZombieFree, irq
<1>7. CASE ZombieSleep
  BY <1>1, <1>2, <1>7 DEF ZombieSleep, irq
<1>8. CASE IsrTick
  BY <1>1, <1>8, OrderTick
<1>9. ASSUME NEW u \in User, IsrDevice(u) PROVE DelayOrder'
  <2>1. isr = "none" /\ KTaskUnSetDelay(u) /\ UNCHANGED tick /\ u \in AllTask
    BY <1>9 DEF IsrDevice, IrqTaken, Wake
  <2> QED BY <1>2, <2>1
<1>10. CASE CheckTaskDelay
  <2> DEFINE u == Head(delayList)
  <2>1. delayList # <<>> /\ KTaskUnSetDelay(u) /\ UNCHANGED <<tick, isr>>
    BY <1>10 DEF CheckTaskDelay, DelayDue
  <2>2. u \in AllTask
    BY <1>1, <2>1
  <2> HIDE DEF u
  <2> QED BY <1>2, <2>1, <2>2
<1>11. CASE CheckTaskDelayDone
  BY <1>1, <1>11, OrderDone
<1>12. CASE IsrExit
  <2>1. isr = "exit" /\ UNCHANGED <<tick, delayList, deadline>>
    BY <1>12 DEF IsrExit, timers
  <2> QED BY <2>1, OrderFrame
<1>13. CASE PendSV
  BY <1>13, OrderFrame DEF PendSV, timers, irq
<1>14. CASE UNCHANGED vars
  BY <1>14, OrderFrame DEF vars, timers, irq
<1> QED BY <1>3, <1>4, <1>5, <1>6, <1>7, <1>8, <1>9, <1>10, <1>11, <1>12, <1>13, <1>14
        DEF Next, ZombieStep, IsrStep

(* A delay never outlives its tick: once the handler of a tick has checked *)
(* the delay list, no delay that has run out is left on it.  The loop of   *)
(* CheckTaskDelay stops at the first delay that has not run out, so this   *)
(* rests on the order KTaskSetDelay keeps.  As long as the counter does    *)
(* not pass its end; MCDelayWrap shows what happens when it does.          *)
THEOREM DelaysAreNeverOverdue ==
  ASSUME Disciplined, ~DeleteSleeping, NoTickWrap
  PROVE  Spec => []NoOverdueDelay
<1>1. Init => DelayInv /\ DelayOrder
  <2> SUFFICES ASSUME Init PROVE DelayInv /\ DelayOrder
    OBVIOUS
  <2>1. delayList = <<>> /\ deadline = [t \in AllTask |-> Inactive] /\ tick = 0
    BY DEF Init
  <2>2. Range(delayList) = {} /\ IsInjective(delayList) /\ Ascending(delayList, deadline)
    BY <2>1 DEF Range, IsInjective, Ascending
  <2>3. tick <= MaxTick
    BY <2>1, TimeAssumption
  <2> QED BY <2>1, <2>2, <2>3, TaskSets
          DEF DelayInv, DelayOnlySuspended, DelayOrder, DelaysAhead
<1>2. IndInv /\ DelayInv /\ DelayOrder /\ [Next]_vars => DelayInv' /\ DelayOrder'
  BY NextDelay, NextOrder
<1>3. IndInv /\ DelayInv /\ DelayOrder => NoOverdueDelay
  <2> SUFFICES ASSUME IndInv, DelayInv, DelayOrder, isr \in {"none", "exit"},
                      NEW t \in Range(delayList)
               PROVE  ~Expired(deadline[t])
    BY DEF NoOverdueDelay
  <2>1. TypeOK /\ DelayOnlySuspended /\ t \in AllTask /\ DelaysAhead
    <3>1. TypeOK /\ DelayOnlySuspended /\ DelaysAhead
      BY DEF IndInv, DelayInv, DelayOrder
    <3>2. delayList \in Seq(AllTask)
      BY <3>1 DEF TypeOK
    <3>3. t \in AllTask
      BY <3>2 DEF Range
    <3> QED BY <3>1, <3>3
  <2>2. deadline[t] # Inactive
    BY <2>1 DEF DelayOnlySuspended
  <2>3. tick < deadline[t]
    BY <2>1, <2>2 DEF DelaysAhead
  <2>4. tick \in Int /\ deadline[t] \in Int
    BY <2>1, DelayNumbers
  <2>5. Expired(deadline[t]) <=> deadline[t] = tick
    BY <2>1, <2>2, ExpiredNow
  <2> QED BY <2>3, <2>4, <2>5
<1> QED BY <1>1, <1>2, <1>3, SchedulerInv, PTL DEF Spec

-----------------------------------------------------------------------------
(* The life cycle. *)

LifeOf(s) ==
    CASE s = "NONE"    -> "none"
      [] s = "INIT"    -> "created"
      [] s = "SUSPEND" -> "waiting"
      [] s = "CLOSE"   -> "closed"
      [] OTHER         -> "runnable"

(* A step of the life cycle, or none. *)
LifeStep == Abs!Next \/ UNCHANGED <<Life, CpuTask>>

LEMMA LifeValues ==
  /\ LifeOf("NONE") = "none" /\ LifeOf("INIT") = "created" /\ LifeOf("SUSPEND") = "waiting"
  /\ LifeOf("CLOSE") = "closed" /\ LifeOf("READY") = "runnable" /\ LifeOf("RUNNING") = "runnable"
  BY DEF LifeOf

LEMMA LifeIsLifeOf ==
  /\ Life  = [t \in AllTask |-> LifeOf(stat[t])]
  /\ Life' = [t \in AllTask |-> LifeOf(stat'[t])]
  BY DEF Life, LifeOf

(* What a change of the state of one task does to its life. *)
LEMMA LifeChange ==
  ASSUME stat \in [AllTask -> Stats], NEW u \in AllTask, NEW s \in Stats,
         stat' = [stat EXCEPT ![u] = s]
  PROVE  /\ Life' = [Life EXCEPT ![u] = LifeOf(s)]
         /\ Life[u] = LifeOf(stat[u])
         /\ LifeOf(s) = LifeOf(stat[u]) => Life' = Life
  BY LifeIsLifeOf

(* A step that keeps the states and the core is no step of the life cycle. *)
LEMMA LifeFrame ==
  ASSUME UNCHANGED <<stat, running, switchTo>>
  PROVE  LifeStep
  BY DEF LifeStep, Life, CpuTask

(* A wakeup of a task that is suspended, or ready by then. *)
LEMMA LifeWake ==
  ASSUME TypeOK, NEW u \in AllTask, stat[u] \in {"SUSPEND", "READY"}, Wake(u),
         UNCHANGED <<running, switchTo>>
  PROVE  LifeStep
<1>1. stat \in [AllTask -> Stats] /\ "READY" \in Stats /\ stat' = [stat EXCEPT ![u] = "READY"]
  BY DEF TypeOK, Wake, Stats
<1>2. CpuTask' = CpuTask
  BY DEF CpuTask
<1>3. CASE stat[u] = "READY"
  BY <1>1, <1>2, <1>3, LifeChange DEF LifeStep
<1>4. CASE stat[u] = "SUSPEND"
  <2>1. Life[u] = "waiting" /\ Life' = [Life EXCEPT ![u] = "runnable"]
    BY <1>1, <1>4, LifeChange, LifeValues
  <2>2. Abs!Wake(u)
    BY <1>2, <2>1 DEF Abs!Wake, Abs!Becomes
  <2> QED BY <2>2 DEF LifeStep, Abs!Next
<1> QED BY <1>3, <1>4

(* Closing a task, which may wake the recycler. *)
LEMMA LifeClose ==
  ASSUME TypeOK, NEW u \in User, Close(u), stat[u] # "NONE",
         UNCHANGED <<running, switchTo>>
  PROVE  LifeStep
<1> USE TaskSets
<1>1. stat \in [AllTask -> Stats] /\ u \in AllTask /\ u # Zombie /\ Zombie \in AllTask
  BY DEF TypeOK
<1>2. CpuTask' = CpuTask
  BY DEF CpuTask
<1>3. Life[u] # "none"
  BY <1>1, LifeIsLifeOf, LifeValues DEF Stats
<1>4. PICK W \in SUBSET {s \in {Idle, Zombie} : Life[s] = "waiting"} :
         Life' = [s \in AllTask |-> IF s = u THEN "closed"
                                    ELSE IF s \in W THEN "runnable" ELSE Life[s]]
  <2>1. CASE stat[Zombie] = "SUSPEND"
    <3>1. stat' = [stat EXCEPT ![u] = "CLOSE", ![Zombie] = "READY"]
      BY <2>1 DEF Close
    <3>2. {Zombie} \in SUBSET {s \in {Idle, Zombie} : Life[s] = "waiting"}
      BY <1>1, <2>1, LifeIsLifeOf, LifeValues
    <3>3. \A s \in AllTask : LifeOf(stat'[s]) =
             IF s = u THEN "closed" ELSE IF s \in {Zombie} THEN "runnable" ELSE LifeOf(stat[s])
      BY <1>1, <3>1, LifeValues
    <3> QED BY <3>2, <3>3, LifeIsLifeOf
  <2>2. CASE stat[Zombie] # "SUSPEND"
    <3>1. stat' = [stat EXCEPT ![u] = "CLOSE"]
      BY <2>2 DEF Close
    <3>2. \A s \in AllTask : LifeOf(stat'[s]) =
             IF s = u THEN "closed" ELSE IF s \in {} THEN "runnable" ELSE LifeOf(stat[s])
      BY <1>1, <3>1, LifeValues
    <3>3. {} \in SUBSET {s \in {Idle, Zombie} : Life[s] = "waiting"}
      OBVIOUS
    <3> QED BY <3>2, <3>3, LifeIsLifeOf
  <2> QED BY <2>1, <2>2
<1>5. Abs!Close(u)
  BY <1>2, <1>3, <1>4 DEF Abs!Close
<1> QED BY <1>1, <1>5 DEF LifeStep, Abs!Next

(* A decision of the scheduler gives the core to a runnable task. *)
LEMMA LifeDispatch ==
  ASSUME IndInv, Dispatched
  PROVE  LifeStep
<1>1. stat \in [AllTask -> Stats] /\ stat' \in [AllTask -> Stats]
  BY DEF IndInv, TypeOK, Dispatched
<1>2. \A t \in AllTask : LifeOf(stat'[t]) = LifeOf(stat[t])
  BY LifeValues DEF Dispatched
<1>3. Life' = Life
  BY <1>2, LifeIsLifeOf
<1>4. CASE CpuTask' = CpuTask
  BY <1>3, <1>4 DEF LifeStep
<1>5. CASE CpuTask' # CpuTask
  <2>1. CpuTask' \in AllTask /\ stat[CpuTask'] = "READY"
    BY <1>5 DEF Dispatched
  <2>2. Life[CpuTask'] = "runnable"
    BY <2>1, LifeIsLifeOf, LifeValues
  <2>3. Abs!Dispatch(CpuTask')
    BY <1>3, <2>2 DEF Abs!Dispatch
  <2> QED BY <2>1, <2>3 DEF LifeStep, Abs!Next
<1> QED BY <1>4, <1>5

(* The task on the core suspends itself. *)
LEMMA LifeBlock ==
  ASSUME TypeOK, NEW t \in AllTask, CpuTask = t, stat[t] = "RUNNING",
         stat' = [stat EXCEPT ![t] = "SUSPEND"], UNCHANGED <<running, switchTo>>
  PROVE  LifeStep
<1>1. stat \in [AllTask -> Stats] /\ "SUSPEND" \in Stats
  BY DEF TypeOK, Stats
<1>2. Life[t] = "runnable" /\ Life' = [Life EXCEPT ![t] = "waiting"]
  BY <1>1, LifeChange, LifeValues
<1>3. CpuTask' = CpuTask
  BY DEF CpuTask
<1>4. Abs!Block(t)
  BY <1>2, <1>3 DEF Abs!Block, Abs!Becomes
<1> QED BY <1>4 DEF LifeStep, Abs!Next

(* Every call of a task is a step of the life cycle or none. *)
LEMMA TaskStepLife ==
  ASSUME IndInv, NEW t \in User, TaskStep(t)
  PROVE  LifeStep
<1> USE TaskSets DEF Calling, OnCpu
<1>1. /\ TypeOK /\ stat \in [AllTask -> Stats] /\ t \in AllTask
      /\ {"INIT", "READY"} \subseteq Stats
  BY DEF IndInv, TypeOK, Stats
<1>2. ASSUME NEW u \in User, KTaskCreate(t, u) PROVE LifeStep
  <2>1. /\ stat[u] = "NONE" /\ stat' = [stat EXCEPT ![u] = "INIT"] /\ u \in AllTask
        /\ CpuTask' = CpuTask
    BY <1>2 DEF KTaskCreate, cpu, CpuTask
  <2>2. Life[u] = "none" /\ Life' = [Life EXCEPT ![u] = "created"]
    <3>1. Life' = [Life EXCEPT ![u] = LifeOf("INIT")] /\ Life[u] = LifeOf(stat[u])
      BY <1>1, <2>1, LifeChange
    <3> QED BY <1>1, <2>1, <3>1, LifeValues
  <2>3. Abs!Create(u)
    BY <2>1, <2>2 DEF Abs!Create, Abs!Becomes
  <2> QED BY <2>1, <2>3 DEF LifeStep, Abs!Next
<1>3. ASSUME NEW u \in User, StartupKTask(t, u) PROVE LifeStep
  <2>1. /\ stat[u] = "INIT" /\ stat' = [stat EXCEPT ![u] = "READY"] /\ u \in AllTask
        /\ CpuTask' = CpuTask
    BY <1>3 DEF StartupKTask, cpu, CpuTask
  <2>2. Life[u] = "created" /\ Life' = [Life EXCEPT ![u] = "runnable"]
    <3>1. Life' = [Life EXCEPT ![u] = LifeOf("READY")] /\ Life[u] = LifeOf(stat[u])
      BY <1>1, <2>1, LifeChange
    <3> QED BY <1>1, <2>1, <3>1, LifeValues
  <2>3. Abs!Start(u)
    BY <2>1, <2>2 DEF Abs!Start, Abs!Becomes
  <2> QED BY <2>1, <2>3 DEF LifeStep, Abs!Next
<1>4. ASSUME NEW u \in User, KTaskWakeup(t, u) PROVE LifeStep
  BY <1>1, <1>4, LifeWake DEF KTaskWakeup, cpu
<1>5. ASSUME NEW u \in User, KTaskWakeupTest(t, u) PROVE LifeStep
  BY <1>5, LifeFrame DEF KTaskWakeupTest, cpu
<1>6. ASSUME NEW u \in User, KTaskDelete(t, u) PROVE LifeStep
  BY <1>1, <1>6, LifeClose DEF KTaskDelete, cpu
<1>7. ASSUME NEW u \in AllTask, NEW p \in Prio, KTaskPrioSet(t, u, p) PROVE LifeStep
  BY <1>7, LifeFrame DEF KTaskPrioSet, cpu
<1>8. ASSUME NEW d \in Delays, DelayKTask(t, d) PROVE LifeStep
  BY <1>1, <1>8, LifeBlock DEF DelayKTask, cpu, CpuTask
<1>9. CASE SuspendKTask(t)
  BY <1>1, <1>9, LifeBlock DEF SuspendKTask, cpu, CpuTask
<1>10. CASE DelayReturn(t)
  BY <1>10, LifeFrame DEF DelayReturn, cpu
<1>11. CASE KTaskWakeupGo(t)
  <2> DEFINE u == wakee[t]
  <2>1. Wake(u) /\ UNCHANGED <<running, switchTo>> /\ CpuTask = t /\ pc[t] = "wake"
    BY <1>11 DEF KTaskWakeupGo, cpu, CpuTask
  <2>2. u \in AllTask /\ u # t /\ stat[u] \in {"READY", "SUSPEND", "RUNNING"}
    BY <1>1, <2>1 DEF IndInv, WakeeInv
  <2>3. stat[u] # "RUNNING"
    BY <2>1, <2>2 DEF IndInv, CoreInv, OneRunning
  <2> HIDE DEF u
  <2> QED BY <1>1, <2>1, <2>2, <2>3, LifeWake
<1>12. CASE KTaskQuit(t)
  BY <1>1, <1>12, LifeClose DEF KTaskQuit, cpu
<1>13. CASE YieldOsAssign(t)
  BY <1>13, YieldDispatches, LifeDispatch
<1> QED BY <1>2, <1>3, <1>4, <1>5, <1>6, <1>7, <1>8, <1>9, <1>10, <1>11, <1>12, <1>13
        DEF TaskStep

(* So is every other step of the kernel. *)
LEMMA NextLife ==
  ASSUME IndInv, [Next]_vars
  PROVE  LifeStep
<1> USE TaskSets
<1>1. TypeOK /\ stat \in [AllTask -> Stats] /\ delayList \in Seq(AllTask)
  BY DEF IndInv, TypeOK
<1>2. ASSUME NEW t \in User, TaskStep(t) PROVE LifeStep
  BY <1>2, TaskStepLife
<1>3. ASSUME NEW t \in AllTask, Reschedule(t) PROVE LifeStep
  BY <1>3, RescheduleDispatches, LifeDispatch
<1>4. CASE ZombieTake
  BY <1>4, LifeFrame DEF ZombieTake, cpu
<1>5. CASE ZombieFree
  <2>1. reaping \in AllTask /\ stat[reaping] = "CLOSE" /\ reaping # CpuTask
    BY <1>5 DEF ZombieFree, IndInv, DeadInv, ZombiesGetReaped
  <2>2. /\ stat' = [stat EXCEPT ![reaping] = "NONE"] /\ "NONE" \in Stats
        /\ CpuTask' = CpuTask
    BY <1>5 DEF ZombieFree, cpu, CpuTask, Stats
  <2>3. Life[reaping] = "closed" /\ Life' = [Life EXCEPT ![reaping] = "none"]
    <3>1. Life' = [Life EXCEPT ![reaping] = LifeOf("NONE")] /\ Life[reaping] = LifeOf(stat[reaping])
      BY <1>1, <2>1, <2>2, LifeChange
    <3> QED BY <1>1, <2>1, <2>2, <3>1, LifeValues
  <2>4. Abs!Free(reaping)
    BY <2>1, <2>2, <2>3 DEF Abs!Free, Abs!Becomes
  <2> QED BY <2>1, <2>4 DEF LifeStep, Abs!Next
<1>6. CASE ZombieSleep
  BY <1>1, <1>6, LifeBlock DEF ZombieSleep, ZombieRuns, OnCpu, cpu, CpuTask
<1>7. CASE IsrTick
  BY <1>7, LifeFrame DEF IsrTick, cpu
<1>8. ASSUME NEW u \in User, IsrDevice(u) PROVE LifeStep
  BY <1>1, <1>8, LifeWake DEF IsrDevice, cpu
<1>9. CASE CheckTaskDelay
  <2> DEFINE u == Head(delayList)
  <2>1. delayList # <<>> /\ KTaskTimeout(u) /\ CpuTask' = CpuTask
    BY <1>9 DEF CheckTaskDelay, DelayDue, cpu, CpuTask
  <2>2. u \in AllTask
    BY <1>1, <2>1
  <2> HIDE DEF u
  <2>3. CASE stat[u] = "SUSPEND"
    <3>1. stat' = [stat EXCEPT ![u] = "READY"] /\ "READY" \in Stats
      BY <2>1, <2>3 DEF KTaskTimeout, Stats
    <3>2. Life[u] = "waiting" /\ Life' = [Life EXCEPT ![u] = "runnable"]
      <4>1. Life' = [Life EXCEPT ![u] = LifeOf("READY")] /\ Life[u] = LifeOf(stat[u])
        BY <1>1, <2>2, <2>3, <3>1, LifeChange
      <4> QED BY <1>1, <2>2, <2>3, <3>1, <4>1, LifeValues
    <3>3. Abs!Wake(u)
      BY <2>1, <3>2 DEF Abs!Wake, Abs!Becomes
    <3> QED BY <2>2, <3>3 DEF LifeStep, Abs!Next
  <2>4. CASE stat[u] # "SUSPEND"
    BY <2>1, <2>4 DEF KTaskTimeout, LifeStep, Life
  <2> QED BY <2>3, <2>4
<1>10. CASE CheckTaskDelayDone
  BY <1>10, LifeFrame DEF CheckTaskDelayDone, cpu
<1>11. CASE IsrExit
  BY <1>11, IsrExitDispatches, LifeDispatch
<1>12. CASE PendSV
  BY <1>12 DEF PendSV, LifeStep, Life, CpuTask
<1>13. CASE UNCHANGED vars
  BY <1>13, LifeFrame DEF vars, cpu
<1> QED BY <1>2, <1>3, <1>4, <1>5, <1>6, <1>7, <1>8, <1>9, <1>10, <1>11, <1>12, <1>13
        DEF Next, ZombieStep, IsrStep

(* The kernel implements the life cycle of TaskAbs: whatever calls and     *)
(* interrupts do, the core is given only to runnable tasks, a task stops   *)
(* being runnable only by its own call or by being closed, and a closed    *)
(* task is freed once it is off the core and never runs again.             *)
THEOREM KernelImplementsLifecycle ==
  ASSUME Disciplined
  PROVE  Spec => Lifecycle
<1>1. Init => Abs!Init
  <2> SUFFICES ASSUME Init PROVE Abs!Init
    OBVIOUS
  <2>1. \A t \in AllTask : LifeOf(stat[t]) = IF t \in {Idle, Zombie} \cup {Main} THEN "runnable" ELSE "none"
    BY LifeValues DEF Init
  <2>2. CpuTask = Main
    BY DEF Init, CpuTask
  <2> QED BY <2>1, <2>2, LifeIsLifeOf DEF Abs!Init
<1>2. IndInv /\ [Next]_vars => [Abs!Next]_<<Life, CpuTask>>
  BY NextLife DEF LifeStep
<1>3. Spec => Abs!Init /\ [][Abs!Next]_<<Life, CpuTask>>
  BY <1>1, <1>2, SchedulerInv, PTL DEF Spec
<1> QED BY <1>3 DEF Lifecycle, Abs!Spec, Abs!vars
=============================================================================
