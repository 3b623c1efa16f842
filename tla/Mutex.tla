------------------------------- MODULE Mutex --------------------------------
(***************************************************************************)
(* Mutexes (mutex.c): recursive, handed to the first waiter when they are  *)
(* released, with the holder raised to the priority of the tasks that      *)
(* start to wait for it.                                                   *)
(*                                                                         *)
(* Callers leave no call between the lookup of the id and the work on the  *)
(* mutex when it is deleted, so the two are one step (Semaphore has the    *)
(* lookup apart).  With MutexDeleteInUse FALSE they also leave no task     *)
(* that was handed the mutex and has not returned, nobody starts to wait   *)
(* while the mutex is being deleted, and nobody deletes it twice; the code *)
(* tests none of this.  A waiter reads its status when it is back on the   *)
(* core.  How KTaskPrioSet requeues a task is KTask's; here it sets        *)
(* cur_prio.                                                               *)
(***************************************************************************)
EXTENDS Pend

CONSTANTS
    MutexId,       \* the mutexes
    NoTask,        \* NONE, the holder of a free mutex
    NoMutex,       \* what a task waits for that does not wait
    CntMod,        \* 2^8: mutex->recursive_cnt counts modulo CntMod
    MaxHeld,       \* bound: obtains of one mutex that its holder has not given back
    MutexDeleteInUse   \* whether a mutex is deleted that others are using

ASSUME MutexAssumption ==
    /\ NoTask \notin Task /\ NoMutex \notin MutexId
    /\ CntMod \in Nat /\ MaxHeld \in Nat \ {0} /\ MaxHeld < CntMod
    /\ MutexDeleteInUse \in BOOLEAN

VARIABLES
    mutex,         \* struct Mutex of each id, and whether the id is in use
    cur_prio,      \* cur_prio of each task
    target,        \* the mutex that each waiting task waits for, or deletes
    times,         \* history: how often each task was told it has a mutex
    held,          \* history: the mutexes each task was told it has, the latest last
    tidy           \* history: the tasks that gave up none before a later one

history   == <<times, held, tidy>>
mutexVars == <<mutex, cur_prio, target, history>>

Fresh == [alive |-> FALSE, val |-> 1, holder |-> NoTask, origin_prio |-> 255,
          recursive_cnt |-> 0, pend_list |-> <<>>]

MutexInit ==
    /\ mutex = [m \in MutexId |-> Fresh]
    /\ cur_prio = CurPrio
    /\ target = [t \in Task |-> NoMutex]
    /\ times = [t \in Task |-> [m \in MutexId |-> 0]]
    /\ held = [t \in Task |-> <<>>] /\ tidy = Task
    /\ PendInit

(* Waiters that were handed m and have not returned yet. *)
Handed(m) == {t \in Task : pc[t] = "mutex_wait" /\ target[t] = m
                           /\ t \notin Range(mutex[m].pend_list) /\ exstatus[t] = "EOK"}

(* A task is between the two critical areas of _MutexDelete. *)
BeingDeleted(m) == \E t \in Task : pc[t] = "mutex_delete" /\ target[t] = m

(* The history when t is told that it has m, ... *)
Got(t, m) ==
    /\ times' = [times EXCEPT ![t][m] = @ + 1]
    /\ held'  = [held EXCEPT ![t] = IF times[t][m] = 0 THEN Append(@, m) ELSE @]
    /\ UNCHANGED tidy

(* ... when it gives m back, for the last time or not, ...                 *)
GaveBack(t, m) ==
    /\ times' = [times EXCEPT ![t][m] = @ - 1]
    /\ held'  = [held EXCEPT ![t] = IF times[t][m] = 1 THEN RmNode(@, m) ELSE @]
    /\ tidy'  = IF times[t][m] = 1 /\ m # Last(held[t]) THEN tidy \ {t} ELSE tidy

(* ... and when m is gone.                                                 *)
Lost(m) ==
    /\ times' = [t \in Task |-> [times[t] EXCEPT ![m] = 0]]
    /\ held'  = [t \in Task |-> RmNode(held[t], m)]
    /\ tidy'  = tidy \ {mutex[m].holder}

(* _MutexCreate *)
MutexCreate(t, m) ==
    /\ pc[t] = "idle" /\ ~mutex[m].alive
    /\ mutex' = [mutex EXCEPT ![m] = [Fresh EXCEPT !.alive = TRUE]]
    /\ UNCHANGED <<cur_prio, target, history, pendVars>>

(* The priority of the holder of m once t waits for it. *)
Inherit(m, t) ==
    LET h == mutex[m].holder
    IN  IF cur_prio[t] > cur_prio[h] THEN [cur_prio EXCEPT ![h] = cur_prio[t]]
                                     ELSE cur_prio

(* _MutexObtain up to DO_KTASK_ASSIGN: again by the holder ... *)
MutexObtainAgain(t, m) ==
    /\ pc[t] = "idle" /\ mutex[m].alive /\ mutex[m].holder = t
    /\ times[t][m] < MaxHeld
    /\ mutex' = [mutex EXCEPT ![m].recursive_cnt = (@ + 1) % CntMod]
    /\ Got(t, m)
    /\ exstatus' = [exstatus EXCEPT ![t] = "EOK"]
    /\ UNCHANGED <<cur_prio, target, delayed, pc>>

(* An obtain that does not ask whether the mutex is free. *)
MutexObtainTaken(t, m) ==
    /\ pc[t] = "idle" /\ mutex[m].alive /\ mutex[m].holder # t
    /\ mutex' = [mutex EXCEPT ![m].val = @ - 1, ![m].holder = t,
                              ![m].origin_prio = cur_prio[t],
                              ![m].recursive_cnt = (@ + 1) % CntMod]
    /\ Got(t, m)
    /\ exstatus' = [exstatus EXCEPT ![t] = "EOK"]
    /\ UNCHANGED <<cur_prio, target, delayed, pc>>

(* ... of a free mutex ... *)
MutexObtainFree(t, m) ==
    /\ pc[t] = "idle" /\ mutex[m].alive /\ mutex[m].holder # t /\ mutex[m].val > 0
    /\ mutex' = [mutex EXCEPT ![m].val = @ - 1, ![m].holder = t,
                              ![m].origin_prio = cur_prio[t],
                              ![m].recursive_cnt = (@ + 1) % CntMod]
    /\ Got(t, m)
    /\ exstatus' = [exstatus EXCEPT ![t] = "EOK"]
    /\ UNCHANGED <<cur_prio, target, delayed, pc>>

(* ... and of one that another task holds.  No time is converted to no     *)
(* ticks, so the return for wait_time 0 is not taken.                      *)
MutexObtainWait(t, m, ms) ==
    /\ pc[t] = "idle" /\ mutex[m].alive /\ mutex[m].holder # t /\ mutex[m].val = 0
    /\ BeingDeleted(m) => MutexDeleteInUse
    /\ cur_prio' = Inherit(m, t)
    /\ mutex'    = [mutex EXCEPT ![m].pend_list = LinklistSuspend(@, t, "PRIO", cur_prio')]
    /\ delayed'  = StartDelay(t, CalculteTickFromTimeMs(ms))
    /\ exstatus' = [exstatus EXCEPT ![t] = "EOK"]
    /\ target'   = [target EXCEPT ![t] = m]
    /\ pc'       = [pc EXCEPT ![t] = "mutex_wait"]
    /\ UNCHANGED history

(* The end of _MutexObtain: the status is the result. *)
MutexObtainReturn(t) ==
    /\ pc[t] = "mutex_wait" /\ t \notin Range(mutex[target[t]].pend_list)
    /\ IF exstatus[t] = "EOK" THEN Got(t, target[t]) ELSE UNCHANGED history
    /\ target' = [target EXCEPT ![t] = NoMutex]
    /\ pc' = [pc EXCEPT ![t] = "idle"]
    /\ UNCHANGED <<mutex, cur_prio, exstatus, delayed>>

(* _MutexAbandon by a task that is not the holder. *)
MutexAbandonRefused(t, m) ==
    /\ pc[t] = "idle" /\ mutex[m].alive /\ mutex[m].holder # t
    /\ exstatus' = [exstatus EXCEPT ![t] = "ERROR"]
    /\ UNCHANGED <<mutexVars, delayed, pc>>

(* A hand-off that leaves the holder at the priority it inherited. *)
ReleaseKeepsPrio(m) ==
    LET first == Head(mutex[m].pend_list)
    IN  /\ UNCHANGED cur_prio
        /\ IF mutex[m].pend_list # <<>>
           THEN /\ mutex' = [mutex EXCEPT ![m].holder = first, ![m].origin_prio = cur_prio[first],
                                          ![m].recursive_cnt = 1, ![m].pend_list = Tail(@)]
                /\ Woken({first})
           ELSE /\ mutex' = [mutex EXCEPT ![m].val = @ + 1, ![m].holder = NoTask,
                                          ![m].origin_prio = 255, ![m].recursive_cnt = 0]
                /\ UNCHANGED delayed

(* A release that wakes the first waiter without making it the holder. *)
ReleaseToNobody(m) ==
    /\ cur_prio' = [cur_prio EXCEPT ![mutex[m].holder] = mutex[m].origin_prio]
    /\ mutex' = [mutex EXCEPT ![m].val = @ + 1, ![m].holder = NoTask, ![m].origin_prio = 255,
                              ![m].recursive_cnt = 0,
                              ![m].pend_list = IF @ # <<>> THEN Tail(@) ELSE @]
    /\ Woken(IF mutex[m].pend_list # <<>> THEN {Head(mutex[m].pend_list)} ELSE {})

(* The last release of m: the holder gets its priority back, the first     *)
(* waiter becomes the holder, else the mutex is free.                      *)
Release(m) ==
    LET first == Head(mutex[m].pend_list)
    IN  /\ cur_prio' = [cur_prio EXCEPT ![mutex[m].holder] = mutex[m].origin_prio]
        /\ IF mutex[m].pend_list # <<>>
           THEN /\ mutex' = [mutex EXCEPT ![m].holder = first, ![m].origin_prio = cur_prio'[first],
                                          ![m].recursive_cnt = 1, ![m].pend_list = Tail(@)]
                /\ Woken({first})
           ELSE /\ mutex' = [mutex EXCEPT ![m].val = @ + 1, ![m].holder = NoTask,
                                          ![m].origin_prio = 255, ![m].recursive_cnt = 0]
                /\ UNCHANGED delayed

(* _MutexAbandon by the holder. *)
MutexAbandon(t, m) ==
    /\ pc[t] = "idle" /\ mutex[m].alive /\ mutex[m].holder = t
    /\ IF (mutex[m].recursive_cnt - 1) % CntMod = 0
       THEN Release(m)
       ELSE /\ mutex' = [mutex EXCEPT ![m].recursive_cnt = (@ - 1) % CntMod]
            /\ UNCHANGED <<cur_prio, delayed>>
    /\ GaveBack(t, m)
    /\ UNCHANGED <<target, exstatus, pc>>

(* A delete that leaves the waiters on the list. *)
MutexDeleteQuietly(t, m) ==
    /\ pc[t] = "idle" /\ mutex[m].alive
    /\ (Handed(m) # {} \/ BeingDeleted(m)) => MutexDeleteInUse
    /\ target' = [target EXCEPT ![t] = m]
    /\ pc' = [pc EXCEPT ![t] = "mutex_delete"]
    /\ UNCHANGED <<mutex, cur_prio, history, exstatus, delayed>>

(* _MutexDelete up to the end of LinklistResumeAll: every waiter is woken  *)
(* with an error.                                                          *)
MutexDelete(t, m) ==
    /\ pc[t] = "idle" /\ mutex[m].alive
    /\ (Handed(m) # {} \/ BeingDeleted(m)) => MutexDeleteInUse
    /\ LinklistResumeAll(mutex[m].pend_list)
    /\ mutex' = [mutex EXCEPT ![m].pend_list = <<>>]
    /\ target' = [target EXCEPT ![t] = m]
    /\ pc' = [pc EXCEPT ![t] = "mutex_delete"]
    /\ UNCHANGED <<cur_prio, history>>

(* The rest of _MutexDelete: the id is removed and the mutex freed.  A     *)
(* task that holds it keeps the priority it has, and one that waits for it *)
(* stays linked to the freed list.                                         *)
MutexDeleteEnd(t) ==
    /\ pc[t] = "mutex_delete"
    /\ mutex' = [mutex EXCEPT ![target[t]] = [Fresh EXCEPT !.pend_list = mutex[target[t]].pend_list]]
    /\ Lost(target[t])
    /\ target' = [target EXCEPT ![t] = NoMutex]
    /\ pc' = [pc EXCEPT ![t] = "idle"]
    /\ UNCHANGED <<cur_prio, exstatus, delayed>>

(* The delay of a waiter runs out: KTaskTimeout takes it off the list.     *)
MutexTimeout(t) ==
    /\ TimedOut(t)
    /\ mutex' = [mutex EXCEPT ![target[t]].pend_list = RmNode(@, t)]
    /\ UNCHANGED <<cur_prio, target, history, pc>>

MutexNext ==
    \E t \in Task :
       \/ \E m \in MutexId :
             \/ MutexCreate(t, m)
             \/ MutexObtainAgain(t, m) \/ MutexObtainFree(t, m)
             \/ \E ms \in Msecs : MutexObtainWait(t, m, ms)
             \/ MutexAbandonRefused(t, m) \/ MutexAbandon(t, m) \/ MutexDelete(t, m)
       \/ MutexObtainReturn(t) \/ MutexDeleteEnd(t) \/ MutexTimeout(t)

MutexSpec == MutexInit /\ [][MutexNext]_<<mutexVars, pendVars>>

-----------------------------------------------------------------------------
(* Properties. *)

(* Every variable has its type. *)
MutexTypeOK ==
    /\ mutex \in [MutexId -> [alive : BOOLEAN, val : 0 .. 1, holder : Task \cup {NoTask},
                              origin_prio : Nat, recursive_cnt : 0 .. CntMod - 1,
                              pend_list : Seq(Task)]]
    /\ cur_prio \in [Task -> Nat] /\ target \in [Task -> MutexId \cup {NoMutex}]
    /\ times \in [Task -> [MutexId -> Nat]] /\ held \in [Task -> Seq(MutexId)]
    /\ tidy \subseteq Task
    /\ exstatus \in [Task -> Status] /\ delayed \subseteq Task /\ pc \in [Task -> Places]

(* A task that was told it has a mutex is the holder, as often as it was   *)
(* told and has not given it back, and no other task was told: also when   *)
(* a release and a timeout, or a timeout and a delete, race for the same   *)
(* waiter.  A release and a delete that race for it are excluded: with     *)
(* MutexDeleteInUse a waiter is told that it has a mutex that is gone.     *)
MutualExclusion ==
    \A m \in MutexId, t \in Task :
       times[t][m] + (IF t \in Handed(m) THEN 1 ELSE 0) =
          IF mutex[m].holder = t THEN mutex[m].recursive_cnt ELSE 0

(* Nobody waits for a mutex that is free or gone: a release with waiters   *)
(* makes one of them the holder, a delete wakes them all, and val tells    *)
(* whether there is a holder.                                              *)
NoWaiterOnFreeMutex ==
    \A m \in MutexId :
       /\ mutex[m].pend_list # <<>> => mutex[m].alive /\ mutex[m].holder # NoTask
       /\ mutex[m].val = (IF mutex[m].holder = NoTask THEN 1 ELSE 0)
       /\ \A t \in Range(mutex[m].pend_list) : t # mutex[m].holder /\ target[t] = m

(* Inheritance never lowers a task below its own priority, and a task that *)
(* never gave up a mutex before one it obtained later has its own priority *)
(* when it holds nothing, whatever others waited for, timed out on and     *)
(* gave up.                                                                *)
PriorityRestored ==
    \A t \in Task :
       /\ cur_prio[t] >= CurPrio[t]
       /\ (t \in tidy /\ \A m \in MutexId : mutex[m].holder # t) => cur_prio[t] = CurPrio[t]
=============================================================================
