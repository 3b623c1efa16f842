----------------------------- MODULE WorkQueue ------------------------------
(***************************************************************************)
(* Work queues (workqueue.c): a ring of work items that tasks and          *)
(* interrupt handlers fill and one worker task empties.                    *)
(*                                                                         *)
(* The worker takes the place of an item out of the ring in a critical     *)
(* area and reads the item there after it; it finds the ring empty in one  *)
(* critical area and suspends itself in another.                           *)
(***************************************************************************)
EXTENDS Integers, Sequences

CONSTANTS
    Work,            \* the work items
    NoWork,          \* what is in a slot that was never written
    MaxWorkQueue     \* MAX_WORK_QUEUE

ASSUME WorkQueueAssumption ==
    /\ MaxWorkQueue \in Nat \ {0} /\ NoWork \notin Work

VARIABLES
    front, rear, base,    \* p_queue->front, rear and base
    worker,               \* where the worker is
    slot,                 \* the place of the item it took
    owed                  \* history: the items accepted and not called yet

workVars == <<front, rear, base, worker, slot, owed>>

Slots == 0 .. MaxWorkQueue - 1

WorkInit ==
    /\ front = 0 /\ rear = 0 /\ base = [i \in Slots |-> NoWork]
    /\ worker = "test" /\ slot = 0 /\ owed = <<>>

(* KTaskWakeup of the worker, which does nothing to a task that is not     *)
(* suspended.                                                              *)
WakeWorker == worker' = IF worker = "suspended" THEN "test" ELSE worker

(* A ring that is filled to the last slot. *)
SubmitToTheBrim(w) ==
    /\ IF rear = front /\ owed # <<>> /\ worker # "call"
       THEN UNCHANGED <<rear, base, worker, owed>>
       ELSE /\ base' = [base EXCEPT ![rear] = w]
            /\ rear' = (rear + 1) % MaxWorkQueue
            /\ WakeWorker
            /\ owed' = Append(owed, w)
    /\ UNCHANGED <<front, slot>>

(* A ring without its end. *)
SubmitUnwrapped(w) ==
    /\ IF (rear + 1) % MaxWorkQueue = front
       THEN UNCHANGED <<rear, base, worker, owed>>
       ELSE /\ base' = [base EXCEPT ![rear] = w]
            /\ rear' = rear + 1
            /\ WakeWorker
            /\ owed' = Append(owed, w)
    /\ UNCHANGED <<front, slot>>

(* WorkSubmit_immediate: a full ring takes no item. *)
WorkSubmit_immediate(w) ==
    /\ IF (rear + 1) % MaxWorkQueue = front
       THEN UNCHANGED <<rear, base, worker, owed>>
       ELSE /\ base' = [base EXCEPT ![rear] = w]
            /\ rear' = (rear + 1) % MaxWorkQueue
            /\ WakeWorker
            /\ owed' = Append(owed, w)
    /\ UNCHANGED <<front, slot>>

(* The loop of WorkQueueKTaskEntry: the worker takes an item out, ... *)
WorkerTake ==
    /\ worker = "test" /\ front # rear
    /\ slot' = front /\ front' = (front + 1) % MaxWorkQueue
    /\ worker' = "call"
    /\ UNCHANGED <<rear, base, owed>>

(* ... calls what is in its place, ... *)
WorkerCall ==
    /\ worker = "call"
    /\ worker' = "test" /\ owed' = Tail(owed)
    /\ UNCHANGED <<front, rear, base, slot>>

(* ... or finds the ring empty ... *)
WorkerEmpty ==
    /\ worker = "test" /\ front = rear
    /\ worker' = "empty"
    /\ UNCHANGED <<front, rear, base, slot, owed>>

(* ... and, outside the critical area, suspends itself.                    *)
WorkerSuspend ==
    /\ worker = "empty"
    /\ worker' = "suspended"
    /\ UNCHANGED <<front, rear, base, slot, owed>>

WorkerNext == WorkerTake \/ WorkerCall \/ WorkerEmpty \/ WorkerSuspend

WorkNext == WorkerNext \/ \E w \in Work : WorkSubmit_immediate(w)

(* The worker runs when it is ready, whatever its priority, as long as the *)
(* tasks above it suspend themselves now and then.                         *)
WorkSpec == WorkInit /\ [][WorkNext]_workVars /\ WF_workVars(WorkerNext)

-----------------------------------------------------------------------------
(* Properties. *)

(* Every variable has its type. *)
WorkTypeOK ==
    /\ front \in Slots /\ rear \in Slots /\ slot \in Slots
    /\ base \in [Slots -> Work \cup {NoWork}]
    /\ worker \in {"test", "call", "empty", "suspended"}
    /\ owed \in Seq(Work)

(* The items of the ring, behind the one that the worker is about to call. *)
Queued == [i \in 1 .. (rear - front) % MaxWorkQueue |-> base[(front + i - 1) % MaxWorkQueue]]

(* What was accepted is called once and in order: the worker calls what it *)
(* took out, although the item stays in its slot unprotected while tasks   *)
(* and interrupt handlers submit, up to a full ring.                       *)
WorkInOrder ==
    owed = (IF worker = "call" THEN <<base[slot]>> ELSE <<>>) \o Queued

(* Work that was accepted gets done: submitting it wakes the worker.       *)
WorkGetsDone == (owed # <<>>) ~> (worker = "call")
=============================================================================
