------------------------------ MODULE TaskAbs -------------------------------
(***************************************************************************)
(* What the scheduler promises about the life of a task, with the ready    *)
(* vector, priorities, delays and interrupts left out:                     *)
(*                                                                         *)
(*   - the core is only ever given to a task that is runnable;             *)
(*   - a task stops being runnable only by its own call or because it is   *)
(*     closed, and becomes runnable only by being started or woken;        *)
(*   - a closed task is never runnable again: it is freed, and not before  *)
(*     it has lost the core.                                               *)
(***************************************************************************)

CONSTANTS Task, Main, Service   \* Service: tasks that run from the start

VARIABLES life, core

vars == <<life, core>>

Init ==
    /\ life = [t \in Task |-> IF t \in Service \cup {Main} THEN "runnable" ELSE "none"]
    /\ core = Main

Becomes(t, from, to) ==
    /\ life[t] \in from
    /\ life' = [life EXCEPT ![t] = to]
    /\ UNCHANGED core

Create(t) == Becomes(t, {"none"}, "created")
Start(t)  == Becomes(t, {"created"}, "runnable")
Block(t)  == t = core /\ Becomes(t, {"runnable"}, "waiting")
Wake(t)   == Becomes(t, {"waiting"}, "runnable")
Free(t)   == t # core /\ Becomes(t, {"closed"}, "none")

(* Closing t, which may be closed already, may wake the service that frees *)
(* it.                                                                     *)
Close(t) ==
    /\ life[t] # "none"
    /\ \E W \in SUBSET {s \in Service : life[s] = "waiting"} :
          life' = [s \in Task |-> IF s = t THEN "closed"
                                  ELSE IF s \in W THEN "runnable" ELSE life[s]]
    /\ UNCHANGED core

Dispatch(t) == life[t] = "runnable" /\ core' = t /\ UNCHANGED life

Next ==
    \E t \in Task :
        Create(t) \/ Start(t) \/ Block(t) \/ Wake(t) \/ Close(t) \/ Free(t) \/ Dispatch(t)

Spec == Init /\ [][Next]_vars
=============================================================================
