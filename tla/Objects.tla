------------------------------ MODULE Objects -------------------------------
(***************************************************************************)
(* The kernel objects that tasks wait on, over the waiting they share.     *)
(* Tasks use one kind of object at a time.                                 *)
(***************************************************************************)
EXTENDS Semaphore, Mutex, Event, GatherBlock

VARIABLE kind    \* the kind of object in use

ObjectsInit ==
    /\ kind \in {"semaphore", "mutex", "event", "block"}
    /\ SemInit /\ MutexInit /\ EventInit /\ GatherInit

ObjectsNext ==
    /\ \/ kind = "semaphore" /\ SemNext /\ UNCHANGED <<mutexVars, eventVars, gatherVars>>
       \/ kind = "mutex" /\ MutexNext /\ UNCHANGED <<semVars, eventVars, gatherVars>>
       \/ kind = "event" /\ EventNext /\ UNCHANGED <<semVars, mutexVars, gatherVars>>
       \/ kind = "block" /\ GatherNext /\ UNCHANGED <<semVars, mutexVars, eventVars>>
    /\ UNCHANGED kind

ObjectsSpec ==
    ObjectsInit /\ [][ObjectsNext]_<<kind, semVars, mutexVars, eventVars, gatherVars, pendVars>>

-----------------------------------------------------------------------------
(* Properties. *)

(* Every variable has its type. *)
ObjectsTypeOK == SemTypeOK /\ MutexTypeOK /\ EventTypeOK /\ GatherTypeOK

(* The lists of the objects that tasks wait on. *)
PendLists == {pend, epend, wait_task} \cup {mutex[m].pend_list : m \in MutexId}

(* The delay of a wait runs as long as the task is on the object's list:   *)
(* whoever takes a task off a list also stops its delay, a delay that runs *)
(* out finds its task waiting and not yet told anything, and no task is on *)
(* the lists of two mutexes or twice on a list.                            *)
DelayWhileWaiting ==
    /\ \A list \in PendLists : IsInjective(list)
    /\ \A m, n \in MutexId :
          m # n => Range(mutex[m].pend_list) \cap Range(mutex[n].pend_list) = {}
    /\ delayed = UNION {Range(list) : list \in PendLists}
    /\ \A t \in delayed : exstatus[t] = "EOK" /\ pc[t] # "idle"
=============================================================================
