------------------------------ MODULE MsgQueue ------------------------------
(***************************************************************************)
(* Message queues (msgqueue.c): a ring of MaxMsgs slots, senders that wait *)
(* for a free one and receivers that wait for a message.                   *)
(*                                                                         *)
(* A waiter that is woken does not own what it waited for: back on the     *)
(* core it tests the queue again, and another task may have been faster.   *)
(***************************************************************************)
EXTENDS Pend

CONSTANTS
    Msg,             \* the messages
    NoMsg, Junk,     \* no message; the bytes of no message
    MaxMsgs,         \* mq->max_msgs
    IndexMod,        \* 2^16: mq->index counts modulo IndexMod
    Clears           \* whether tasks call KMsgQueueReinit or delete the queue

ASSUME MsgQueueAssumption ==
    /\ MaxMsgs \in Nat \ {0} /\ IndexMod \in Nat /\ MaxMsgs < IndexMod
    /\ NoMsg \notin Msg /\ Junk \notin Msg
    /\ Clears \in BOOLEAN

VARIABLES
    alive,                 \* the queue has been created and not deleted
    index, num, buf,       \* mq->index, mq->num_msgs, mq->msg_buf
    sendPend, recvPend,    \* mq->send_pend_list, mq->recv_pend_list
    out, timeout,          \* what each task sends, its ticks left
    got                    \* what each task received last

ring  == <<index, num, buf>>
lists == <<sendPend, recvPend>>
calls == <<pc, out, timeout>>
vars  == <<alive, ring, lists, calls, got, exstatus, delayed>>

Slots == 0 .. MaxMsgs - 1
Slot(i) == IF i \in Slots THEN buf[i] ELSE Junk

Init ==
    /\ alive = FALSE
    /\ index = 0 /\ num = 0 /\ buf = [i \in Slots |-> Junk]
    /\ sendPend = <<>> /\ recvPend = <<>>
    /\ out = [t \in Task |-> NoMsg] /\ timeout = [t \in Task |-> 0]
    /\ got = [t \in Task |-> NoMsg] /\ PendInit

(* A task that will look at the queue again without further notice. *)
Touching(t) == \/ pc[t] = "delete"
               \/ pc[t] = "send" /\ t \notin Range(sendPend) /\ exstatus[t] = "EOK"
               \/ pc[t] = "recv" /\ t \notin Range(recvPend) /\ exstatus[t] = "EOK"

(* KCreateMsgQueue with _InitMsgQueue. *)
KCreateMsgQueue(t) ==
    /\ pc[t] = "idle" /\ ~alive
    /\ alive' = TRUE /\ index' = 0 /\ num' = 0 /\ buf' = [i \in Slots |-> Junk]
    /\ UNCHANGED <<lists, calls, got, exstatus, delayed>>

(* The call of t that waits ends. *)
Return(t) ==
    /\ pc'      = [pc      EXCEPT ![t] = "idle"]
    /\ out'     = [out     EXCEPT ![t] = NoMsg]
    /\ timeout' = [timeout EXCEPT ![t] = 0]

(* The call of t waits, with so many ticks left. *)
Wait(t, call, m, left) ==
    /\ pc'       = [pc       EXCEPT ![t] = call]
    /\ out'      = [out      EXCEPT ![t] = m]
    /\ timeout'  = [timeout  EXCEPT ![t] = left]
    /\ exstatus' = [exstatus EXCEPT ![t] = "EOK"]
    /\ delayed'  = StartDelay(t, left)

(* A message that is queued without waking a receiver. *)
EnqueueSilently(m) ==
    /\ buf' = [buf EXCEPT ![(index + num) % MaxMsgs] = m]
    /\ num' = num + 1
    /\ UNCHANGED <<index, recvPend, delayed>>

(* A send that puts its message in front of the others. *)
EnqueueInFront(m) ==
    /\ buf' = [buf EXCEPT ![(index + MaxMsgs - 1) % MaxMsgs] = m]
    /\ num' = num + 1
    /\ IF recvPend # <<>> THEN recvPend' = Tail(recvPend) /\ Woken({Head(recvPend)})
                          ELSE UNCHANGED <<recvPend, delayed>>
    /\ index' = (index + MaxMsgs - 1) % MaxMsgs

(* The message goes behind the others; the first receiver is woken. *)
Enqueue(m) ==
    /\ buf' = [buf EXCEPT ![(index + num) % MaxMsgs] = m]
    /\ num' = num + 1
    /\ IF recvPend # <<>> THEN recvPend' = Tail(recvPend) /\ Woken({Head(recvPend)})
                          ELSE UNCHANGED <<recvPend, delayed>>
    /\ UNCHANGED index

(* The next message is read; the first sender is woken. *)
Dequeue(t) ==
    /\ got'   = [got EXCEPT ![t] = Slot(index)]
    /\ index' = (index + 1) % MaxMsgs
    /\ num'   = num - 1
    /\ IF sendPend # <<>> THEN sendPend' = Tail(sendPend) /\ Woken({Head(sendPend)})
                          ELSE UNCHANGED <<sendPend, delayed>>
    /\ UNCHANGED buf

(* A send that tests the queue off by one. *)
TrySendOffByOne(t, m, left) ==
    IF num > MaxMsgs
    THEN /\ Return(t) /\ UNCHANGED <<ring, lists, got, exstatus, delayed>>
    ELSE /\ Enqueue(m) /\ Return(t)
         /\ UNCHANGED <<sendPend, got, exstatus>>

(* The loop of _MsgQueueSend, from its test on, with the lock held. *)
TrySend(t, m, left) ==
    IF num < MaxMsgs
    THEN /\ Enqueue(m) /\ Return(t)
         /\ UNCHANGED <<sendPend, got, exstatus>>
    ELSE IF left = 0
    THEN /\ Return(t)
         /\ exstatus' = [exstatus EXCEPT ![t] = "EOK"]
         /\ UNCHANGED <<ring, lists, got, delayed>>
    ELSE /\ sendPend' = LinklistSuspend(sendPend, t, "FIFO", CurPrio)
         /\ Wait(t, "send", m, left)
         /\ UNCHANGED <<ring, recvPend, got>>

(* The loop of _MsgQueueRecv, likewise. *)
TryRecv(t, left) ==
    IF num > 0
    THEN /\ Dequeue(t) /\ Return(t)
         /\ UNCHANGED <<recvPend, exstatus>>
    ELSE IF left = 0
    THEN /\ Return(t)
         /\ exstatus' = [exstatus EXCEPT ![t] = "ETIMEOUT"]
         /\ UNCHANGED <<ring, lists, got, delayed>>
    ELSE /\ recvPend' = LinklistSuspend(recvPend, t, "FIFO", CurPrio)
         /\ Wait(t, "recv", NoMsg, left)
         /\ UNCHANGED <<ring, sendPend, got>>

(* KMsgQueueSend (ms = 0) and KMsgQueueSendwait. *)
KMsgQueueSend(t, m, ms) ==
    /\ pc[t] = "idle" /\ alive /\ \A u \in Task : pc[u] # "delete"
    /\ TrySend(t, m, CalculteTickFromTimeMs(ms))
    /\ UNCHANGED alive

(* KMsgQueueRecv, whose early return with no ticks tests the index. *)
KMsgQueueRecv(t, ms) ==
    LET left == CalculteTickFromTimeMs(ms)
    IN  /\ pc[t] = "idle" /\ alive /\ \A u \in Task : pc[u] # "delete"
        /\ ~(index = 0 /\ left = 0)
        /\ TryRecv(t, left)
        /\ UNCHANGED alive

(* A waiter is back on the core.  It gives up if it was woken by a timeout *)
(* or an error; else its ticks have run down and it tries again.           *)
Resumed(t, call, list) == pc[t] = call /\ t \notin Range(list)

GiveUp(t) ==
    /\ Resumed(t, "send", sendPend) \/ Resumed(t, "recv", recvPend)
    /\ exstatus[t] # "EOK"
    /\ Return(t)
    /\ UNCHANGED <<alive, ring, lists, got, exstatus, delayed>>

SendAgain(t) ==
    /\ Resumed(t, "send", sendPend) /\ exstatus[t] = "EOK"
    /\ \E left \in 0 .. timeout[t] : TrySend(t, out[t], left)
    /\ UNCHANGED alive

RecvAgain(t) ==
    /\ Resumed(t, "recv", recvPend) /\ exstatus[t] = "EOK"
    /\ \E left \in 0 .. timeout[t] : TryRecv(t, left)
    /\ UNCHANGED alive

(* KMsgQueueUrgentSend.  The index is unsigned, so it is never found       *)
(* negative; the slot is counted from the new index; senders are woken.    *)
KMsgQueueUrgentSend(t, m) ==
    LET head == (index - 1) % IndexMod
    IN  /\ pc[t] = "idle" /\ alive /\ num < MaxMsgs
        /\ index' = head /\ num' = num + 1
        /\ buf' = [buf EXCEPT ![(head + num) % MaxMsgs] = m]
        /\ IF sendPend # <<>> THEN sendPend' = Tail(sendPend) /\ Woken({Head(sendPend)})
                              ELSE UNCHANGED <<sendPend, delayed>>
        /\ UNCHANGED <<alive, recvPend, calls, got, exstatus>>

(* KMsgQueueReinit *)
KMsgQueueReinit(t) ==
    /\ Clears /\ pc[t] = "idle" /\ alive /\ \A u \in Task : pc[u] # "delete"
    /\ LinklistResumeAll(sendPend \o recvPend)
    /\ sendPend' = <<>> /\ recvPend' = <<>>
    /\ index' = 0 /\ num' = 0
    /\ UNCHANGED <<alive, buf, calls, got>>

(* KDeleteMsgQueue, by callers that let no other call touch the queue:     *)
(* the senders are woken ...                                               *)
DeleteSenders(t) ==
    /\ Clears /\ pc[t] = "idle" /\ alive /\ \A u \in Task : ~Touching(u)
    /\ LinklistResumeAll(sendPend) /\ sendPend' = <<>>
    /\ pc' = [pc EXCEPT ![t] = "delete"]
    /\ UNCHANGED <<alive, ring, recvPend, out, timeout, got>>

(* ... then the receivers, and the queue is freed.                         *)
DeleteReceivers(t) ==
    /\ pc[t] = "delete"
    /\ LinklistResumeAll(recvPend) /\ recvPend' = <<>>
    /\ alive' = FALSE /\ index' = 0 /\ num' = 0 /\ buf' = [i \in Slots |-> Junk]
    /\ pc' = [pc EXCEPT ![t] = "idle"]
    /\ UNCHANGED <<sendPend, out, timeout, got>>

(* The delay of a waiter runs out: KTaskTimeout takes it off its list. *)
MsgQueueTimeout(t) ==
    /\ TimedOut(t)
    /\ sendPend' = RmNode(sendPend, t) /\ recvPend' = RmNode(recvPend, t)
    /\ UNCHANGED <<alive, ring, calls, got>>

Next ==
    \E t \in Task :
       \/ KCreateMsgQueue(t)
       \/ \E m \in Msg, ms \in Msecs : KMsgQueueSend(t, m, ms)
       \/ \E ms \in Msecs : KMsgQueueRecv(t, ms)
       \/ SendAgain(t) \/ RecvAgain(t) \/ GiveUp(t)
       \/ KMsgQueueReinit(t) \/ DeleteSenders(t) \/ DeleteReceivers(t)
       \/ MsgQueueTimeout(t)

Spec == Init /\ [][Next]_vars

(* With tasks that send urgent messages, too. *)
UrgentNext == Next \/ \E t \in Task, m \in Msg : KMsgQueueUrgentSend(t, m)
UrgentSpec == Init /\ [][UrgentNext]_vars

-----------------------------------------------------------------------------
(* Properties. *)

(* Every variable has its type. *)
TypeOK ==
    /\ alive \in BOOLEAN /\ num \in 0 .. MaxMsgs
    /\ index \in Slots
    /\ buf \in [Slots -> Msg \cup {Junk}]
    /\ sendPend \in Seq(Task) /\ recvPend \in Seq(Task)
    /\ pc \in [Task -> {"idle", "send", "recv", "delete"}]
    /\ out \in [Task -> Msg \cup {NoMsg}] /\ timeout \in [Task -> Nat]
    /\ got \in [Task -> Msg \cup {NoMsg, Junk}]
    /\ exstatus \in [Task -> Status] /\ delayed \subseteq Task

(* The tasks that were woken off a list and have not tried again yet. *)
Coming(call, list) == {t \in Task : Resumed(t, call, list) /\ exstatus[t] = "EOK"}

(* No wakeup is lost: while receivers wait there are never more messages   *)
(* than receivers already woken for them, and while senders wait never     *)
(* more free slots than senders already woken, however tasks barge in and  *)
(* waits time out.                                                         *)
NoLostWakeup ==
    /\ recvPend # <<>> => num <= Cardinality(Coming("recv", recvPend))
    /\ sendPend # <<>> => MaxMsgs - num <= Cardinality(Coming("send", sendPend))

(* A task waits on one list at a time, once, with its delay running, and   *)
(* no delay outlives the wait.                                             *)
DelayWhileWaiting ==
    /\ IsInjective(sendPend \o recvPend)
    /\ delayed = Range(sendPend \o recvPend)
    /\ \A t \in Range(sendPend) : pc[t] = "send" /\ exstatus[t] = "EOK"
    /\ \A t \in Range(recvPend) : pc[t] = "recv" /\ exstatus[t] = "EOK"

(* The messages in the ring, as KMsgQueueRecv will read them. *)
Content == [i \in 1 .. num |-> IF i = 1 THEN Slot(index)
                                        ELSE buf[(index + i - 1) % MaxMsgs]]

Abs == INSTANCE MsgQueueAbs WITH queue <- Content

(* The operation of the queue that each call performs when it takes its    *)
(* step: a send and a receive, at once or after a wait, exactly one each,  *)
(* and nothing but a reinit, a delete or a create empties the queue.       *)
CallsMatch ==
    \A t \in Task :
       /\ \A m \in Msg, ms \in Msecs : KMsgQueueSend(t, m, ms) => Abs!Send(m)
       /\ SendAgain(t) => Abs!Send(out[t])
       /\ (RecvAgain(t) \/ \E ms \in Msecs : KMsgQueueRecv(t, ms)) => Abs!Recv(t)
       /\ KCreateMsgQueue(t) \/ KMsgQueueReinit(t) \/ DeleteReceivers(t) => Abs!Reset
       /\ GiveUp(t) \/ DeleteSenders(t) \/ MsgQueueTimeout(t) => UNCHANGED <<Content, got>>

(* The ring, its senders and its receivers implement the queue of          *)
(* MsgQueueAbs, call by call: however senders and receivers wait, barge in *)
(* and time out, a message that is sent goes behind those before it, each  *)
(* is received once and in the order of the sends, and none is lost.       *)
Fifo == Abs!Spec /\ [][CallsMatch]_vars

(* KMsgQueueUrgentSend is for a message that is received before those in   *)
(* the queue.                                                              *)
UrgentFirst ==
    [][\A t \in Task, m \in Msg :
          KMsgQueueUrgentSend(t, m) => Content' = <<m>> \o Content]_vars
=============================================================================
