----------------------------- MODULE Semaphore ------------------------------
(***************************************************************************)
(* Counting semaphores (semaphore.c): one id that may be created, deleted  *)
(* and created again, used by tasks and by interrupt handlers.             *)
(*                                                                         *)
(* A call looks the semaphore up in one critical area and works on it in   *)
(* another; a waiter reads its status when it is back on the core.  These  *)
(* are the step boundaries.                                                *)
(***************************************************************************)
EXTENDS Pend

CONSTANTS
    ValMod,        \* 2^16: sem->value counts modulo ValMod
    Values,        \* the values semaphores are created with or set to
    MaxBalance,    \* bound: no abandon starts when this many permits are about
    DeleteInUse    \* whether a semaphore is deleted while a call is between
                   \* its lookup and its work

ASSUME SemaphoreAssumption ==
    /\ ValMod \in Nat \ {0} /\ MaxBalance \in Nat
    /\ Values \subseteq (0 .. ValMod - 1)
    /\ DeleteInUse \in BOOLEAN

VARIABLES
    alive,      \* the id is in k_sem_id_manager
    value,      \* sem->value
    pend,       \* sem->pend_list
    ticks,      \* the wait_time of the obtain each task is in
    balance     \* history: permits put in, less those handed out

semVars == <<alive, value, pend, ticks, balance>>

Working == {"obtain", "abandon", "set", "delete"}

(* Waiters that an abandon has chosen and that have not returned yet. *)
Granted == {t \in Task : pc[t] = "sem_wait" /\ t \notin Range(pend) /\ exstatus[t] = "EOK"}

SemInit ==
    /\ alive = FALSE /\ value = 0 /\ pend = <<>> /\ balance = 0
    /\ ticks = [t \in Task |-> 0] /\ PendInit

(* KSemaphoreCreate *)
SemaphoreCreate(t, val) ==
    /\ pc[t] = "idle" /\ ~alive
    /\ alive' = TRUE /\ value' = val /\ pend' = <<>>
    /\ balance' = val + Cardinality(Granted)
    /\ UNCHANGED <<pc, ticks, exstatus, delayed>>

(* IdGetObj at the start of a call; the wait of an obtain is converted     *)
(* before the semaphore is locked.  Callers that keep the semaphore alive  *)
(* while others use it start no delete next to another call.               *)
IdGetObj(t, op, ms) ==
    /\ pc[t] = "idle" /\ alive
    /\ op = "abandon" => balance < MaxBalance
    /\ DeleteInUse \/ \A u \in Task : pc[u] \notin IF op = "delete" THEN Working
                                                                 ELSE {"delete"}
    /\ pc'    = [pc    EXCEPT ![t] = op]
    /\ ticks' = [ticks EXCEPT ![t] = IF op = "obtain" THEN CalculteTickFromTimeMs(ms) ELSE 0]
    /\ UNCHANGED <<alive, value, pend, exstatus, delayed, balance>>

(* An obtain that takes a permit whether there is one or not. *)
SemaphoreObtainAtZero(t) ==
    /\ pc[t] = "obtain"
    /\ value' = value - 1 /\ balance' = balance - 1
    /\ pc' = [pc EXCEPT ![t] = "idle"]
    /\ UNCHANGED <<alive, ticks, pend, exstatus, delayed>>

(* _SemaphoreObtain up to DO_KTASK_ASSIGN. *)
SemaphoreObtain(t) ==
    /\ pc[t] = "obtain"
    /\ IF value > 0
       THEN /\ value' = value - 1 /\ balance' = balance - 1
            /\ pc' = [pc EXCEPT ![t] = "idle"]
            /\ UNCHANGED <<pend, exstatus, delayed>>
       ELSE IF ticks[t] = 0
       THEN /\ pc' = [pc EXCEPT ![t] = "idle"]
            /\ UNCHANGED <<value, balance, pend, exstatus, delayed>>
       ELSE /\ exstatus' = [exstatus EXCEPT ![t] = "EOK"]
            /\ pend'     = LinklistSuspend(pend, t, "PRIO", CurPrio)
            /\ delayed'  = StartDelay(t, ticks[t])
            /\ pc'       = [pc EXCEPT ![t] = "sem_wait"]
            /\ UNCHANGED <<value, balance>>
    /\ UNCHANGED <<alive, ticks>>

(* The end of _SemaphoreObtain: the status is the result. *)
ObtainReturn(t) ==
    /\ pc[t] = "sem_wait" /\ t \notin Range(pend)
    /\ balance' = IF exstatus[t] = "EOK" THEN balance - 1 ELSE balance
    /\ pc'      = [pc EXCEPT ![t] = "idle"]
    /\ UNCHANGED <<alive, value, pend, ticks, exstatus, delayed>>

(* The critical area of _SemaphoreAbandon: hand the permit to the first    *)
(* waiter, else keep it.                                                   *)
Give ==
    IF pend # <<>>
    THEN /\ pend' = Tail(pend) /\ Woken({Head(pend)})
         /\ UNCHANGED value
    ELSE /\ value' = (value + 1) % ValMod
         /\ UNCHANGED <<pend, delayed>>

SemaphoreAbandon(t) ==
    /\ pc[t] = "abandon"
    /\ Give
    /\ balance' = balance + 1
    /\ pc' = [pc EXCEPT ![t] = "idle"]
    /\ UNCHANGED <<alive, ticks, exstatus>>

(* KSemaphoreAbandon in an interrupt handler, where no task runs between   *)
(* the lookup and the work.                                                *)
IsrAbandon ==
    /\ alive /\ balance < MaxBalance
    /\ Give
    /\ balance' = balance + 1
    /\ UNCHANGED <<alive, pc, ticks, exstatus>>

(* Setting the value without waking the waiters. *)
SemaphoreSetValueQuiet(t, val) ==
    /\ pc[t] = "set"
    /\ value' = val /\ balance' = val + Cardinality(Granted)
    /\ pc'    = [pc EXCEPT ![t] = "idle"]
    /\ UNCHANGED <<alive, pend, ticks, exstatus, delayed>>

(* _SemaphoreSetValue: a new value fails all waiters. *)
SemaphoreSetValue(t, val) ==
    /\ pc[t] = "set"
    /\ IF value = val
       THEN UNCHANGED <<value, pend, exstatus, delayed, balance>>
       ELSE /\ LinklistResumeAll(pend) /\ pend' = <<>>
            /\ value' = val /\ balance' = val + Cardinality(Granted)
    /\ pc' = [pc EXCEPT ![t] = "idle"]
    /\ UNCHANGED <<alive, ticks>>

(* _SemaphoreDelete *)
SemaphoreDelete(t) ==
    /\ pc[t] = "delete"
    /\ LinklistResumeAll(pend) /\ pend' = <<>>
    /\ alive' = FALSE /\ value' = 0 /\ balance' = Cardinality(Granted)
    /\ pc' = [pc EXCEPT ![t] = "idle"]
    /\ UNCHANGED ticks

(* The delay of a waiter runs out: KTaskTimeout takes it off the list. *)
SemaphoreTimeout(t) ==
    /\ TimedOut(t)
    /\ pend' = RmNode(pend, t)
    /\ UNCHANGED <<alive, value, pc, ticks, balance>>

SemNext ==
    \/ \E t \in Task :
          \/ \E val \in Values : SemaphoreCreate(t, val) \/ SemaphoreSetValue(t, val)
          \/ \E op \in Working, ms \in Msecs : IdGetObj(t, op, ms)
          \/ SemaphoreObtain(t) \/ ObtainReturn(t)
          \/ SemaphoreAbandon(t) \/ SemaphoreDelete(t)
          \/ SemaphoreTimeout(t)
    \/ IsrAbandon

SemSpec == SemInit /\ [][SemNext]_<<semVars, pendVars>>

-----------------------------------------------------------------------------
(* Properties. *)

(* Every variable has its type. *)
SemTypeOK ==
    /\ alive \in BOOLEAN /\ value \in 0 .. ValMod - 1 /\ balance \in Int
    /\ pend \in Seq(Task)
    /\ pc \in [Task -> Places]
    /\ ticks \in [Task -> Nat]
    /\ exstatus \in [Task -> Status] /\ delayed \subseteq Task

(* No permit is lost or handed out twice: what was put in and not handed   *)
(* out is in the value or on its way to a waiter.  So an obtain returns    *)
(* EOK exactly when it took a permit, also when an abandon, a timeout, a   *)
(* new value or a delete race for the same waiter.                         *)
PermitsConserved == balance = value + Cardinality(Granted)

(* Nobody waits for a semaphore that could be had: a permit put back while *)
(* tasks wait goes to one of them.                                         *)
NoWaiterWithPermit == pend # <<>> => alive /\ value = 0
=============================================================================
