-------------------------------- MODULE Pend --------------------------------
(***************************************************************************)
(* Waiting on a kernel object, as the objects of semaphore.c, mutex.c,     *)
(* event.c and msgqueue.c do it: linklist.c with the parts of ktask.c and  *)
(* delay.c it calls, and the conversion of tick.c.                         *)
(*                                                                         *)
(* LinklistSuspend, KTaskWakeup and KTaskTimeout each move a task between  *)
(* SUSPEND on the object's list and READY off it inside one critical area, *)
(* so the list holds exactly the suspended tasks.  The scheduler is left   *)
(* out (KTask has it): a task that is not suspended may take its next step *)
(* at any time.                                                            *)
(***************************************************************************)
EXTENDS DoubleLink, FiniteSets

CONSTANTS
    Task,             \* the tasks that use the object
    CurPrio,          \* their cur_prio
    TickPerSecond,    \* TICK_PER_SECOND
    WordMod,          \* 2^32: a uint32 counts modulo WordMod
    Msecs             \* the waiting times callers pass, as uint32

VARIABLES
    exstatus,         \* exstatus of each task
    delayed,          \* the tasks whose delay is ACTIVE
    pc                \* where each task is in a call

ASSUME PendAssumption ==
    /\ IsFiniteSet(Task) /\ CurPrio \in [Task -> Nat]
    /\ TickPerSecond \in Nat \ {0} /\ WordMod \in Nat /\ WordMod > 1000
    /\ Msecs \subseteq (0 .. WordMod - 1)

Status == {"EOK", "ERROR", "ETIMEOUT"}

(* The places between two critical areas of a call where a task may be. *)
Places == {"idle", "obtain", "abandon", "set", "delete", "send", "recv",
           "sem_wait", "mutex_wait", "event_wait", "block_wait",
           "mutex_delete", "gather_test", "gather_wake"}

pendVars == <<exstatus, delayed, pc>>

PendInit ==
    /\ pc = [t \in Task |-> "idle"]
    /\ exstatus = [t \in Task |-> "EOK"] /\ delayed = {}

WAITING_FOREVER == WordMod - 1

(* CalculteTickFromTimeMs.  The product is taken in 32 bits, and no time   *)
(* is converted to less than one tick.                                     *)
CalculteTickFromTimeMs(ms) ==
    LET product == (ms * TickPerSecond) % WordMod
        ticks   == product \div 1000
    IN  CASE ticks = 0                  -> 1
          [] product % 1000 \in 5 .. 9  -> ticks + 1
          [] OTHER                      -> ticks

(* LinklistSuspend: with LINKLIST_FLAG_PRIO in ascending order of          *)
(* priority, behind waiters of the same priority.  With any other flag the *)
(* task is suspended and linked nowhere.                                   *)
LinklistSuspend(list, t, flag, prio) ==
    CASE flag = "FIFO" -> Append(list, t)
      [] flag = "PRIO" -> InsertSorted(list, t, prio[t], prio)
      [] OTHER         -> list

(* The delay a task sets when it waits for so many ticks. *)
StartDelay(t, ticks) == IF ticks > 0 THEN delayed \cup {t} ELSE delayed

(* A wakeup that leaves the delays running. *)
WokenKeepsDelay(S) == delayed' = delayed

(* KTaskWakeup of the tasks of S: their delays are cancelled. *)
Woken(S) == delayed' = delayed \ S

(* LinklistResumeAll that leaves the waiters' status alone. *)
ResumeAllSilently(list) == Woken(Range(list)) /\ UNCHANGED exstatus

(* LinklistResumeAll: every waiter is woken with an error. *)
LinklistResumeAll(list) ==
    /\ Woken(Range(list))
    /\ exstatus' = [t \in Task |-> IF t \in Range(list) THEN "ERROR" ELSE exstatus[t]]

(* KTaskTimeout of the task t. *)
TimedOut(t) ==
    /\ t \in delayed
    /\ delayed'  = delayed \ {t}
    /\ exstatus' = [exstatus EXCEPT ![t] = "ETIMEOUT"]
=============================================================================
