------------------------------ MODULE Services ------------------------------
(***************************************************************************)
(* The services on which no task is suspended by the module itself: the    *)
(* soft timers, with the work queue under them, the heap, the data queue   *)
(* and the circular area.  They share nothing: a behaviour is one of one   *)
(* of them.                                                                *)
(***************************************************************************)
EXTENDS SoftTimer, Heap, DataQueue, CircularArea

VARIABLE service    \* the service in use

ServicesInit ==
    /\ service \in {"timer", "heap", "data", "area"}
    /\ TimerInit /\ HeapInit /\ DataInit /\ AreaInit

ServicesNext ==
    /\ \/ service = "timer" /\ TimerNext /\ UNCHANGED <<heapVars, dataVars, areaVars>>
       \/ service = "heap" /\ HeapNext /\ UNCHANGED <<timerVars, workVars, dataVars, areaVars>>
       \/ service = "data" /\ DataNext /\ UNCHANGED <<timerVars, workVars, heapVars, areaVars>>
       \/ service = "area" /\ AreaNext /\ UNCHANGED <<timerVars, workVars, heapVars, dataVars>>
    /\ UNCHANGED service

ServicesSpec ==
    /\ ServicesInit
    /\ [][ServicesNext]_<<service, timerVars, workVars, heapVars, dataVars, areaVars>>

(* Every variable has its type. *)
ServicesTypeOK == TimerTypeOK /\ HeapTypeOK /\ DataTypeOK
=============================================================================
