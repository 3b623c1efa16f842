---------------------------- MODULE MsgQueueAbs -----------------------------
(***************************************************************************)
(* What a message queue promises: a bounded queue, first in first out.     *)
(* Every operation is told what it must do in every state: a send that     *)
(* finds room appends its message, a receive that finds a message takes    *)
(* the oldest, and only a reset empties the queue.                         *)
(***************************************************************************)
EXTENDS Sequences, Naturals

CONSTANTS Task, Msg, MaxMsgs, NoMsg

VARIABLES
    queue,    \* the messages, the oldest first
    got       \* what each task received last

vars == <<queue, got>>

Init == queue = <<>> /\ got = [t \in Task |-> NoMsg]

(* A send is one step: its message is the newest, or there was no room. *)
Send(m) == /\ queue' = IF Len(queue) < MaxMsgs THEN Append(queue, m) ELSE queue
           /\ UNCHANGED got

(* A receive: the task has the oldest message, or there was none. *)
Recv(t) == IF queue = <<>> THEN UNCHANGED vars
           ELSE queue' = Tail(queue) /\ got' = [got EXCEPT ![t] = Head(queue)]

(* The queue is set up anew. *)
Reset == queue' = <<>> /\ UNCHANGED got

Next == \/ \E m \in Msg : Send(m)
        \/ \E t \in Task : Recv(t)
        \/ Reset

Spec == Init /\ [][Next]_vars
=============================================================================
