----------------------------- MODULE SoftTimer ------------------------------
(***************************************************************************)
(* Soft timers (softtimer.c): the sorted list of running timers, the check *)
(* of it in the tick interrupt, and the system work queue that starts the  *)
(* callback tasks of the timers that ran out.                              *)
(*                                                                         *)
(* The tick interrupt is taken between any two critical areas and no task  *)
(* runs before it ends.  Callers start a timer only when it is not running *)
(* and delete one only when it has run and nothing of it is under way, and *)
(* set none to 0: KTimerModify refuses 0, but KCreateTimer does not, and   *)
(* the loop of CheckTimerList would never end on a periodic timer set to   *)
(* it.  The work items that carry the callbacks are not followed.          *)
(***************************************************************************)
EXTENDS WorkQueue, DoubleLink

CONSTANTS
    Timer,           \* the timers; as work, their timer_work_func
    Timeslices,      \* the times timers are set to, never 0
    TickMod,         \* 2^32: heartbeat_ticks counts modulo TickMod
    MaxTick          \* bound: ticks that are counted

ASSUME SoftTimerAssumption ==
    /\ Timer \subseteq Work
    /\ TickMod \in Nat \ {0} /\ MaxTick \in Nat
    /\ Timeslices \subseteq (1 .. (TickMod - 1) \div 2 - 1)

VARIABLES
    heartbeat_ticks,
    in_tick,         \* CheckTimerList runs
    timer,           \* struct Timer of each timer
    sort,            \* the list at xiaoshan_timer_sort_head
    quitting,        \* timers found active by a _QuitRun that has not locked yet
    callbacks        \* callback tasks of each timer that have not ended

timerVars == <<heartbeat_ticks, in_tick, timer, sort, quitting, callbacks>>

NoTimer == [alive |-> FALSE, active |-> FALSE, deadline |-> 0, origin |-> 0,
            periodic |-> FALSE, linked |-> FALSE]

TimerInit ==
    /\ heartbeat_ticks = 0 /\ in_tick = FALSE
    /\ timer = [tm \in Timer |-> NoTimer] /\ sort = <<>>
    /\ quitting = {} /\ callbacks = [tm \in Timer |-> 0]
    /\ WorkInit

(* KCreateTimer with _Init. *)
KCreateTimer(tm, time, periodic) ==
    /\ ~in_tick /\ ~timer[tm].alive
    /\ timer' = [timer EXCEPT ![tm] = [NoTimer EXCEPT !.alive = TRUE, !.origin = time,
                                                      !.periodic = periodic]]
    /\ UNCHANGED <<heartbeat_ticks, in_tick, sort, quitting, callbacks, workVars>>

(* Starting a timer at the end of the list. *)
StartLast(tm, time, list) ==
    LET deadline == (heartbeat_ticks + time) % TickMod
    IN  /\ timer' = [timer EXCEPT ![tm].active = TRUE, ![tm].deadline = deadline,
                                  ![tm].origin = time, ![tm].linked = TRUE]
        /\ sort' = Append(list, tm)

(* _StartRun of a timer set to time that is not on the list: in front of   *)
(* the first with a later deadline, by the plain order of the counter.     *)
Start(tm, time, list) ==
    LET deadline == (heartbeat_ticks + time) % TickMod
    IN  /\ timer' = [timer EXCEPT ![tm].active = TRUE, ![tm].deadline = deadline,
                                  ![tm].origin = time, ![tm].linked = TRUE]
        /\ sort' = InsertSorted(list, tm, deadline, [x \in Timer |-> timer[x].deadline])

(* KTimerStartRun *)
KTimerStartRun(tm) ==
    /\ ~in_tick /\ timer[tm].alive /\ ~timer[tm].active
    /\ Start(tm, timer[tm].origin, sort)
    /\ UNCHANGED <<heartbeat_ticks, in_tick, quitting, callbacks, workVars>>

(* KTimerAssignMemberRun *)
KTimerAssignMemberRun(tm, time) ==
    /\ ~in_tick /\ timer[tm].alive /\ ~timer[tm].active
    /\ Start(tm, time, sort)
    /\ UNCHANGED <<heartbeat_ticks, in_tick, quitting, callbacks, workVars>>

(* KTimerModify *)
KTimerModify(tm, time) ==
    /\ ~in_tick /\ timer[tm].alive
    /\ timer' = [timer EXCEPT ![tm].origin = time]
    /\ UNCHANGED <<heartbeat_ticks, in_tick, sort, quitting, callbacks, workVars>>

(* KTimerQuitRun: the test ... *)
QuitRunTest(tm) ==
    /\ ~in_tick /\ timer[tm].alive /\ timer[tm].active
    /\ quitting' = quitting \cup {tm}
    /\ UNCHANGED <<heartbeat_ticks, in_tick, timer, sort, callbacks, workVars>>

(* A timer that is stopped and stays on the list. *)
StopLinked(tm) ==
    /\ timer' = [timer EXCEPT ![tm].active = FALSE, ![tm].deadline = 0]
    /\ UNCHANGED sort

(* What _QuitRun does in its critical area. *)
Stop(tm) ==
    /\ timer' = [timer EXCEPT ![tm].active = FALSE, ![tm].deadline = 0]
    /\ sort' = RmNode(sort, tm)

(* ... and the critical area, before which the timer may have run out or   *)
(* been stopped or started again.                                          *)
QuitRun(tm) ==
    /\ ~in_tick /\ tm \in quitting
    /\ Stop(tm)
    /\ quitting' = quitting \ {tm}
    /\ UNCHANGED <<heartbeat_ticks, in_tick, callbacks, workVars>>

(* KDeleteTimer *)
KDeleteTimer(tm) ==
    /\ ~in_tick /\ timer[tm].alive /\ timer[tm].linked
    /\ tm \notin quitting /\ tm \notin Range(owed) /\ callbacks[tm] = 0
    /\ timer' = [timer EXCEPT ![tm] = NoTimer]
    /\ sort' = RmNode(sort, tm)
    /\ UNCHANGED <<heartbeat_ticks, in_tick, quitting, callbacks, workVars>>

Expired(tm) == (heartbeat_ticks - timer[tm].deadline) % TickMod < (TickMod - 1) \div 2

HeadExpired == sort # <<>> /\ Expired(Head(sort))

(* The tick interrupt: TickAndTaskTimesliceUpdate counts ... *)
Tick ==
    /\ ~in_tick /\ heartbeat_ticks < MaxTick
    /\ heartbeat_ticks' = (heartbeat_ticks + 1) % TickMod
    /\ in_tick' = TRUE
    /\ UNCHANGED <<timer, sort, quitting, callbacks, workVars>>

(* ... and calls CheckTimerList: each timer at the head that has run out   *)
(* is taken off, started again if it is periodic, and its work submitted;  *)
(* that the ring is full goes unnoticed.                                   *)
CheckTimerList ==
    LET tm == Head(sort)
    IN  /\ in_tick /\ HeadExpired /\ timer[tm].active
        /\ IF timer[tm].periodic THEN Start(tm, timer[tm].origin, Tail(sort)) ELSE Stop(tm)
        /\ WorkSubmit_immediate(tm)
        /\ UNCHANGED <<heartbeat_ticks, in_tick, quitting, callbacks>>

TickEnd ==
    /\ in_tick /\ ~HeadExpired
    /\ in_tick' = FALSE
    /\ UNCHANGED <<heartbeat_ticks, timer, sort, quitting, callbacks, workVars>>

(* WorkSubmit of other work, at once or by a timer that was made for it. *)
WorkSubmit(w) ==
    /\ ~in_tick
    /\ WorkSubmit_immediate(w)
    /\ UNCHANGED timerVars

(* The worker calls timer_work_func, which starts a callback task, or      *)
(* other work.                                                             *)
TimerWork ==
    /\ ~in_tick /\ WorkerCall
    /\ callbacks' = [tm \in Timer |-> IF tm = base[slot] THEN callbacks[tm] + 1 ELSE callbacks[tm]]
    /\ UNCHANGED <<heartbeat_ticks, in_tick, timer, sort, quitting>>

WorkerStep ==
    /\ ~in_tick
    /\ WorkerTake \/ WorkerEmpty \/ WorkerSuspend
    /\ UNCHANGED timerVars

(* TimerCBEnter has called func_callback. *)
TimerCBEnter(tm) ==
    /\ ~in_tick /\ callbacks[tm] > 0
    /\ callbacks' = [callbacks EXCEPT ![tm] = @ - 1]
    /\ UNCHANGED <<heartbeat_ticks, in_tick, timer, sort, quitting, workVars>>

TimerNext ==
    \/ \E tm \in Timer :
          \/ \E time \in Timeslices :
                \/ \E periodic \in BOOLEAN : KCreateTimer(tm, time, periodic)
                \/ KTimerAssignMemberRun(tm, time) \/ KTimerModify(tm, time)
          \/ KTimerStartRun(tm) \/ QuitRunTest(tm) \/ QuitRun(tm)
          \/ KDeleteTimer(tm) \/ TimerCBEnter(tm)
    \/ \E w \in Work \ Timer : WorkSubmit(w)
    \/ Tick \/ CheckTimerList \/ TickEnd
    \/ TimerWork \/ WorkerStep

TimerSpec == TimerInit /\ [][TimerNext]_<<timerVars, workVars>>

-----------------------------------------------------------------------------
(* Properties. *)

(* Every variable has its type. *)
TimerTypeOK ==
    /\ WorkTypeOK
    /\ heartbeat_ticks \in 0 .. TickMod - 1 /\ in_tick \in BOOLEAN
    /\ timer \in [Timer -> [alive : BOOLEAN, active : BOOLEAN, deadline : 0 .. TickMod - 1,
                            origin : Timeslices \cup {0}, periodic : BOOLEAN, linked : BOOLEAN]]
    /\ sort \in Seq(Timer) /\ quitting \subseteq Timer /\ callbacks \in [Timer -> Nat]

(* The list holds the running timers, each once: CheckTimerList never      *)
(* finds at its head a timer that is stopped, which it could not get past. *)
(* A stop that saw the timer running and finds it run out, stopped or      *)
(* started again keeps this.                                               *)
RunningIffListed ==
    /\ IsInjective(sort)
    /\ Range(sort) = {tm \in Timer : timer[tm].active}
    /\ \A tm \in Timer : timer[tm].active => timer[tm].alive

(* No timer that has run out is left running when the tick interrupt ends. *)
NoOverdueTimer ==
    ~in_tick => \A tm \in Timer : timer[tm].active => ~Expired(tm)
=============================================================================
