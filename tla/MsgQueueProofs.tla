--------------------------- MODULE MsgQueueProofs ---------------------------
(***************************************************************************)
(* Message queues of any size, for any tasks, messages and waiting times:  *)
(* no wakeup is lost, delays run exactly while tasks wait, and the ring    *)
(* with its waiters implements a bounded first-in-first-out queue.         *)
(***************************************************************************)
EXTENDS MsgQueue, PendProofs

-----------------------------------------------------------------------------
(* The inductive invariant. *)

(* The lists hold the tasks that wait, each once, with its delay running. *)
ListInv ==
    /\ IsInjective(sendPend) /\ IsInjective(recvPend)
    /\ delayed = Range(sendPend) \cup Range(recvPend)
    /\ \A t \in Range(sendPend) : pc[t] = "send" /\ exstatus[t] = "EOK"
    /\ \A t \in Range(recvPend) : pc[t] = "recv" /\ exstatus[t] = "EOK"

(* A task in a send has a message to send. *)
SendInv == \A t \in Task : pc[t] = "send" => out[t] \in Msg

(* A task that deletes the queue is alone with it, and a deleted queue is  *)
(* empty and nobody will touch it.                                         *)
DeleteInv ==
    /\ \A d \in Task : pc[d] = "delete" =>
          alive /\ sendPend = <<>> /\ \A u \in Task \ {d} : ~Touching(u)
    /\ ~alive => /\ sendPend = <<>> /\ recvPend = <<>> /\ num = 0
                 /\ \A u \in Task : ~Touching(u)

QueueInv == TypeOK /\ ListInv /\ SendInv /\ DeleteInv /\ NoLostWakeup

Senders   == Coming("send", sendPend)
Receivers == Coming("recv", recvPend)

-----------------------------------------------------------------------------
(* The ring. *)

(* The remainder of a sum of less than two rounds. *)
LEMMA RoundOnce ==
  ASSUME NEW a \in 0 .. MaxMsgs - 1, NEW k \in 0 .. MaxMsgs
  PROVE  (a + k) % MaxMsgs = IF a + k < MaxMsgs THEN a + k ELSE a + k - MaxMsgs
<1>1. MaxMsgs \in Nat /\ MaxMsgs > 0
  BY MsgQueueAssumption
<1>2. CASE a + k < MaxMsgs
  BY <1>1, <1>2
<1>3. CASE a + k >= MaxMsgs
  <2> DEFINE x == a + k
             q == x \div MaxMsgs
             r == x % MaxMsgs
  <2>1. x \in Nat /\ x < MaxMsgs + MaxMsgs /\ x >= MaxMsgs
    BY <1>1, <1>3
  <2> HIDE DEF x
  <2>2. q \in Nat /\ r \in 0 .. MaxMsgs - 1 /\ x = MaxMsgs * q + r
    BY <1>1, <2>1
  <2> HIDE DEF q, r
  <2>3. q # 0
    BY <1>1, <2>1, <2>2
  <2>4. q < 2
    <3> SUFFICES ASSUME q >= 2 PROVE FALSE
      BY <2>2
    <3> DEFINE e == q - 2
    <3>1. e \in Nat /\ q = 2 + e
      BY <2>2
    <3> HIDE DEF e
    <3>2. MaxMsgs * q = MaxMsgs * 2 + MaxMsgs * e /\ MaxMsgs * e \in Nat
      BY <1>1, <3>1
    <3> QED BY <1>1, <2>1, <2>2, <3>2
  <2>5. q = 1
    BY <2>2, <2>3, <2>4
  <2>6. r = x - MaxMsgs
    BY <1>1, <2>1, <2>2, <2>5
  <2> QED BY <1>1, <1>3, <2>6 DEF x, r
<1> QED BY <1>1, <1>2, <1>3

-----------------------------------------------------------------------------
(* The invariant. *)

(* A task that tries to send: it is in no list, the queue is there and     *)
(* nobody is deleting it.                                                  *)
LEMMA TrySendInv ==
  ASSUME QueueInv, NEW t \in Task, NEW m \in Msg, NEW left \in Nat,
         pc[t] = "idle" \/ t \in Senders, TrySend(t, m, left),
         alive, alive' = alive, \A u \in Task : pc[u] # "delete"
  PROVE  QueueInv'
<1> USE DEF QueueInv
<1>1. /\ sendPend \in Seq(Task) /\ recvPend \in Seq(Task)
      /\ pc \in [Task -> {"idle", "send", "recv", "delete"}]
      /\ num \in 0 .. MaxMsgs /\ MaxMsgs \in Nat /\ MaxMsgs > 0 /\ index \in Slots
      /\ exstatus \in [Task -> Status] /\ out \in [Task -> Msg \cup {NoMsg}]
      /\ timeout \in [Task -> Nat] /\ buf \in [Slots -> Msg \cup {Junk}]
  BY MsgQueueAssumption DEF TypeOK
<1>2. /\ t \notin Range(sendPend) /\ t \notin Range(recvPend) /\ t \notin delayed
      /\ pc[t] \in {"idle", "send"}
  BY DEF ListInv, Senders, Coming, Resumed
<1>3. Senders \subseteq Task /\ Receivers \subseteq Task /\ t \notin Receivers
  BY <1>1 DEF Senders, Receivers, Coming, Resumed
<1>4. CASE num < MaxMsgs
  <2>1. /\ buf' = [buf EXCEPT ![(index + num) % MaxMsgs] = m] /\ num' = num + 1
        /\ index' = index /\ sendPend' = sendPend /\ got' = got /\ exstatus' = exstatus
        /\ pc' = [pc EXCEPT ![t] = "idle"] /\ out' = [out EXCEPT ![t] = NoMsg]
        /\ timeout' = [timeout EXCEPT ![t] = 0]
    BY <1>4 DEF TrySend, Enqueue, Return
  <2>2. Senders' = Senders \ {t}
    BY <1>1, <2>1 DEF Senders, Coming, Resumed
  <2>3. MaxMsgs - num' = (MaxMsgs - num) - 1 /\ num' \in 0 .. MaxMsgs
    BY <1>1, <1>4, <2>1
  <2>4. sendPend' # <<>> => MaxMsgs - num' <= Cardinality(Senders')
    <3> DEFINE c == Cardinality(Senders)
    <3>1. c \in Nat /\ Cardinality(Senders \ {t}) \in {c, c - 1}
      <4>1. CASE t \in Senders
        BY <1>3, <4>1, TaskCount
      <4>2. CASE t \notin Senders
        <5>1. Senders \ {t} = Senders
          BY <4>2
        <5> QED BY <1>3, <5>1, TaskCount
      <4> QED BY <4>1, <4>2
    <3>2. sendPend # <<>> => MaxMsgs - num <= c
      BY DEF NoLostWakeup, Senders
    <3> HIDE DEF c
    <3> QED BY <1>1, <2>1, <2>2, <2>3, <3>1, <3>2
  <2>5. CASE recvPend = <<>>
    <3>1. recvPend' = recvPend /\ delayed' = delayed
      BY <1>4, <2>5 DEF TrySend, Enqueue
    <3>2. TypeOK'
      BY <1>1, <2>1, <2>3, <3>1 DEF TypeOK
    <3>3. ListInv'
      BY <1>1, <1>2, <2>1, <3>1 DEF ListInv
    <3>4. SendInv' /\ DeleteInv'
      BY <1>1, <2>1, <3>1 DEF SendInv, DeleteInv
    <3>5. NoLostWakeup'
      BY <2>4, <2>5, <3>1 DEF NoLostWakeup, Senders
    <3> QED BY <3>2, <3>3, <3>4, <3>5
  <2>6. CASE recvPend # <<>>
    <3> DEFINE h == Head(recvPend)
    <3>1. recvPend' = Tail(recvPend) /\ delayed' = delayed \ {h}
      BY <1>4, <2>6 DEF TrySend, Enqueue, Woken
    <3>2. /\ h \in Range(recvPend) /\ Tail(recvPend) \in Seq(Task)
          /\ IsInjective(Tail(recvPend)) /\ Range(Tail(recvPend)) = Range(recvPend) \ {h}
      BY <1>1, <2>6, TailElements DEF ListInv
    <3>3. h \in Task /\ pc[h] = "recv" /\ exstatus[h] = "EOK" /\ h # t /\ h \notin Range(sendPend)
      BY <1>1, <1>2, <3>2 DEF ListInv, Range
    <3> HIDE DEF h
    <3>4. TypeOK'
      BY <1>1, <2>1, <2>3, <3>1, <3>2 DEF TypeOK
    <3>5. ListInv'
      BY <1>1, <1>2, <2>1, <3>1, <3>2, <3>3 DEF ListInv
    <3>6. SendInv' /\ DeleteInv'
      BY <1>1, <2>1, <3>1 DEF SendInv, DeleteInv
    <3>7. Receivers' = Receivers \cup {h} /\ h \notin Receivers
      BY <1>1, <1>2, <2>1, <3>1, <3>2, <3>3 DEF Receivers, Coming, Resumed
    <3>8. num' <= Cardinality(Receivers')
      <4> DEFINE c == Cardinality(Receivers)
      <4>1. c \in Nat /\ Cardinality(Receivers') = c + 1
        BY <1>3, <3>7, TaskCount
      <4>2. num <= c
        BY <2>6 DEF NoLostWakeup, Receivers
      <4> HIDE DEF c
      <4> QED BY <1>1, <2>1, <4>1, <4>2
    <3>9. NoLostWakeup'
      BY <2>4, <3>8 DEF NoLostWakeup, Senders, Receivers
    <3> QED BY <3>4, <3>5, <3>6, <3>9
  <2> QED BY <2>5, <2>6
<1>5. CASE ~(num < MaxMsgs) /\ left = 0
  <2>1. /\ UNCHANGED <<ring, lists, got, delayed>>
        /\ pc' = [pc EXCEPT ![t] = "idle"] /\ out' = [out EXCEPT ![t] = NoMsg]
        /\ timeout' = [timeout EXCEPT ![t] = 0]
        /\ exstatus' = [exstatus EXCEPT ![t] = "EOK"]
    BY <1>5 DEF TrySend, Return
  <2>2. TypeOK'
    BY <1>1, <2>1 DEF TypeOK, ring, lists, Status
  <2>3. ListInv'
    BY <1>1, <1>2, <2>1 DEF ListInv, lists
  <2>4. SendInv' /\ DeleteInv'
    BY <1>1, <2>1 DEF SendInv, DeleteInv, lists, ring
  <2>5. Receivers' = Receivers
    BY <1>1, <1>3, <2>1 DEF Receivers, Coming, Resumed, lists
  <2>6. NoLostWakeup'
    <3>1. Senders' \subseteq Task /\ Cardinality(Senders') \in Nat
      BY TaskCount DEF Senders, Coming
    <3>2. MaxMsgs - num' = 0 /\ num' = num /\ recvPend' = recvPend
      BY <1>1, <1>5, <2>1 DEF ring, lists
    <3> QED BY <2>5, <3>1, <3>2 DEF NoLostWakeup, Senders, Receivers
  <2> QED BY <2>2, <2>3, <2>4, <2>6
<1>6. CASE ~(num < MaxMsgs) /\ left # 0
  <2>1. /\ UNCHANGED <<ring, recvPend, got>> /\ sendPend' = Append(sendPend, t)
        /\ pc' = [pc EXCEPT ![t] = "send"] /\ out' = [out EXCEPT ![t] = m]
        /\ timeout' = [timeout EXCEPT ![t] = left]
        /\ exstatus' = [exstatus EXCEPT ![t] = "EOK"] /\ delayed' = delayed \cup {t}
    BY <1>6 DEF TrySend, Wait, StartDelay, LinklistSuspend
  <2>2. /\ Append(sendPend, t) \in Seq(Task) /\ IsInjective(Append(sendPend, t))
        /\ Range(Append(sendPend, t)) = Range(sendPend) \cup {t}
    BY <1>1, <1>2, AppendElements DEF ListInv
  <2>3. TypeOK'
    BY <1>1, <2>1, <2>2 DEF TypeOK, ring, Status
  <2>4. ListInv'
    BY <1>1, <1>2, <2>1, <2>2 DEF ListInv
  <2>5. SendInv' /\ DeleteInv'
    BY <1>1, <2>1 DEF SendInv, DeleteInv, ring
  <2>6. Receivers' = Receivers
    BY <1>1, <1>3, <2>1 DEF Receivers, Coming, Resumed
  <2>7. NoLostWakeup'
    <3>1. Senders' \subseteq Task /\ Cardinality(Senders') \in Nat
      BY TaskCount DEF Senders, Coming
    <3>2. MaxMsgs - num' = 0 /\ num' = num /\ recvPend' = recvPend
      BY <1>1, <1>6, <2>1 DEF ring
    <3> QED BY <2>6, <3>1, <3>2 DEF NoLostWakeup, Senders, Receivers
  <2> QED BY <2>3, <2>4, <2>5, <2>7
<1> QED BY <1>4, <1>5, <1>6

(* A task that tries to receive, likewise. *)
LEMMA TryRecvInv ==
  ASSUME QueueInv, NEW t \in Task, NEW left \in Nat,
         pc[t] = "idle" \/ t \in Receivers, TryRecv(t, left),
         alive, alive' = alive, \A u \in Task : pc[u] # "delete"
  PROVE  QueueInv'
<1> USE DEF QueueInv
<1>1. /\ sendPend \in Seq(Task) /\ recvPend \in Seq(Task)
      /\ pc \in [Task -> {"idle", "send", "recv", "delete"}]
      /\ num \in 0 .. MaxMsgs /\ MaxMsgs \in Nat /\ MaxMsgs > 0 /\ index \in Slots
      /\ exstatus \in [Task -> Status] /\ out \in [Task -> Msg \cup {NoMsg}]
      /\ timeout \in [Task -> Nat] /\ buf \in [Slots -> Msg \cup {Junk}]
      /\ got \in [Task -> Msg \cup {NoMsg, Junk}]
  BY MsgQueueAssumption DEF TypeOK
<1>2. /\ t \notin Range(sendPend) /\ t \notin Range(recvPend) /\ t \notin delayed
      /\ pc[t] \in {"idle", "recv"}
  BY DEF ListInv, Receivers, Coming, Resumed
<1>3. Senders \subseteq Task /\ Receivers \subseteq Task /\ t \notin Senders
  BY <1>1, <1>2 DEF Senders, Receivers, Coming, Resumed
<1>4. CASE num > 0
  <2>1. /\ buf' = buf /\ num' = num - 1 /\ index' = (index + 1) % MaxMsgs
        /\ recvPend' = recvPend /\ exstatus' = exstatus
        /\ got' = [got EXCEPT ![t] = Slot(index)]
        /\ pc' = [pc EXCEPT ![t] = "idle"] /\ out' = [out EXCEPT ![t] = NoMsg]
        /\ timeout' = [timeout EXCEPT ![t] = 0]
    BY <1>4 DEF TryRecv, Dequeue, Return
  <2>2. Receivers' = Receivers \ {t}
    BY <1>1, <2>1 DEF Receivers, Coming, Resumed
  <2>3. MaxMsgs - num' = (MaxMsgs - num) + 1 /\ num' \in 0 .. MaxMsgs
    BY <1>1, <1>4, <2>1
  <2>4. recvPend' # <<>> => num' <= Cardinality(Receivers')
    <3> DEFINE c == Cardinality(Receivers)
    <3>1. c \in Nat /\ Cardinality(Receivers \ {t}) \in {c, c - 1}
      <4>1. CASE t \in Receivers
        BY <1>3, <4>1, TaskCount
      <4>2. CASE t \notin Receivers
        <5>1. Receivers \ {t} = Receivers
          BY <4>2
        <5> QED BY <1>3, <5>1, TaskCount
      <4> QED BY <4>1, <4>2
    <3>2. recvPend # <<>> => num <= c
      BY DEF NoLostWakeup, Receivers
    <3> HIDE DEF c
    <3> QED BY <1>1, <2>1, <2>2, <2>3, <3>1, <3>2
  <2>5. index' \in Slots /\ got' \in [Task -> Msg \cup {NoMsg, Junk}]
    <3>1. (index + 1) % MaxMsgs \in 0 .. MaxMsgs - 1
      BY <1>1 DEF Slots
    <3>2. Slot(index) \in Msg \cup {NoMsg, Junk}
      BY <1>1 DEF Slot
    <3> QED BY <1>1, <2>1, <3>1, <3>2 DEF Slots
  <2>6. CASE sendPend = <<>>
    <3>1. sendPend' = sendPend /\ delayed' = delayed
      BY <1>4, <2>6 DEF TryRecv, Dequeue
    <3>2. TypeOK'
      BY <1>1, <2>1, <2>3, <2>5, <3>1 DEF TypeOK
    <3>3. ListInv'
      BY <1>1, <1>2, <2>1, <3>1 DEF ListInv
    <3>4. SendInv' /\ DeleteInv'
      BY <1>1, <2>1, <3>1 DEF SendInv, DeleteInv
    <3>5. NoLostWakeup'
      BY <2>4, <2>6, <3>1 DEF NoLostWakeup, Receivers
    <3> QED BY <3>2, <3>3, <3>4, <3>5
  <2>7. CASE sendPend # <<>>
    <3> DEFINE h == Head(sendPend)
    <3>1. sendPend' = Tail(sendPend) /\ delayed' = delayed \ {h}
      BY <1>4, <2>7 DEF TryRecv, Dequeue, Woken
    <3>2. /\ h \in Range(sendPend) /\ Tail(sendPend) \in Seq(Task)
          /\ IsInjective(Tail(sendPend)) /\ Range(Tail(sendPend)) = Range(sendPend) \ {h}
      BY <1>1, <2>7, TailElements DEF ListInv
    <3>3. h \in Task /\ pc[h] = "send" /\ exstatus[h] = "EOK" /\ h # t /\ h \notin Range(recvPend)
      BY <1>1, <1>2, <3>2 DEF ListInv, Range
    <3> HIDE DEF h
    <3>4. TypeOK'
      BY <1>1, <2>1, <2>3, <2>5, <3>1, <3>2 DEF TypeOK
    <3>5. ListInv'
      BY <1>1, <1>2, <2>1, <3>1, <3>2, <3>3 DEF ListInv
    <3>6. SendInv' /\ DeleteInv'
      BY <1>1, <2>1, <3>1 DEF SendInv, DeleteInv
    <3>7. Senders' = Senders \cup {h} /\ h \notin Senders
      BY <1>1, <1>2, <2>1, <3>1, <3>2, <3>3 DEF Senders, Coming, Resumed
    <3>8. MaxMsgs - num' <= Cardinality(Senders')
      <4> DEFINE c == Cardinality(Senders)
      <4>1. c \in Nat /\ Cardinality(Senders') = c + 1
        BY <1>3, <3>7, TaskCount
      <4>2. MaxMsgs - num <= c
        BY <2>7 DEF NoLostWakeup, Senders
      <4> HIDE DEF c
      <4> QED BY <1>1, <2>1, <4>1, <4>2
    <3>9. NoLostWakeup'
      BY <2>4, <3>8 DEF NoLostWakeup, Senders, Receivers
    <3> QED BY <3>4, <3>5, <3>6, <3>9
  <2> QED BY <2>6, <2>7
<1>5. CASE ~(num > 0) /\ left = 0
  <2>1. /\ UNCHANGED <<ring, lists, got, delayed>>
        /\ pc' = [pc EXCEPT ![t] = "idle"] /\ out' = [out EXCEPT ![t] = NoMsg]
        /\ timeout' = [timeout EXCEPT ![t] = 0]
        /\ exstatus' = [exstatus EXCEPT ![t] = "ETIMEOUT"]
    BY <1>5 DEF TryRecv, Return
  <2>2. TypeOK'
    BY <1>1, <2>1 DEF TypeOK, ring, lists, Status
  <2>3. ListInv'
    BY <1>1, <1>2, <2>1 DEF ListInv, lists
  <2>4. SendInv' /\ DeleteInv'
    BY <1>1, <2>1 DEF SendInv, DeleteInv, lists, ring
  <2>5. Senders' = Senders
    BY <1>1, <1>2, <1>3, <2>1 DEF Senders, Coming, Resumed, lists
  <2>6. NoLostWakeup'
    <3>1. Receivers' \subseteq Task /\ Cardinality(Receivers') \in Nat
      BY TaskCount DEF Receivers, Coming
    <3>2. num' = 0 /\ num' = num /\ sendPend' = sendPend
      BY <1>1, <1>5, <2>1 DEF ring, lists
    <3> QED BY <2>5, <3>1, <3>2 DEF NoLostWakeup, Senders, Receivers
  <2> QED BY <2>2, <2>3, <2>4, <2>6
<1>6. CASE ~(num > 0) /\ left # 0
  <2>1. /\ UNCHANGED <<ring, sendPend, got>> /\ recvPend' = Append(recvPend, t)
        /\ pc' = [pc EXCEPT ![t] = "recv"] /\ out' = [out EXCEPT ![t] = NoMsg]
        /\ timeout' = [timeout EXCEPT ![t] = left]
        /\ exstatus' = [exstatus EXCEPT ![t] = "EOK"] /\ delayed' = delayed \cup {t}
    BY <1>6 DEF TryRecv, Wait, StartDelay, LinklistSuspend
  <2>2. /\ Append(recvPend, t) \in Seq(Task) /\ IsInjective(Append(recvPend, t))
        /\ Range(Append(recvPend, t)) = Range(recvPend) \cup {t}
    BY <1>1, <1>2, AppendElements DEF ListInv
  <2>3. TypeOK'
    BY <1>1, <2>1, <2>2 DEF TypeOK, ring, Status
  <2>4. ListInv'
    BY <1>1, <1>2, <2>1, <2>2 DEF ListInv
  <2>5. SendInv' /\ DeleteInv'
    BY <1>1, <2>1 DEF SendInv, DeleteInv, ring
  <2>6. Senders' = Senders
    BY <1>1, <1>2, <1>3, <2>1 DEF Senders, Coming, Resumed
  <2>7. NoLostWakeup'
    <3>1. Receivers' \subseteq Task /\ Cardinality(Receivers') \in Nat
      BY TaskCount DEF Receivers, Coming
    <3>2. num' = 0 /\ num' = num /\ sendPend' = sendPend
      BY <1>1, <1>6, <2>1 DEF ring
    <3> QED BY <2>6, <3>1, <3>2 DEF NoLostWakeup, Senders, Receivers
  <2> QED BY <2>3, <2>4, <2>5, <2>7
<1> QED BY <1>4, <1>5, <1>6

(* The queue is created.  Nobody waits for it, and whoever waited for the  *)
(* one before it has been told.                                            *)
LEMMA CreateInv ==
  ASSUME QueueInv, NEW t \in Task, KCreateMsgQueue(t)
  PROVE  QueueInv'
<1> USE DEF QueueInv
<1>1. MaxMsgs \in Nat /\ MaxMsgs > 0
  BY MsgQueueAssumption
<1>2. /\ ~alive /\ alive' = TRUE /\ index' = 0 /\ num' = 0 /\ buf' = [i \in Slots |-> Junk]
      /\ UNCHANGED <<sendPend, recvPend, pc, out, timeout, got, exstatus, delayed>>
  BY DEF KCreateMsgQueue, lists, calls
<1>3. sendPend = <<>> /\ recvPend = <<>> /\ \A u \in Task : ~Touching(u)
  BY <1>2 DEF DeleteInv
<1>4. TypeOK'
  BY <1>1, <1>2 DEF TypeOK, Slots
<1>5. ListInv' /\ SendInv'
  BY <1>2 DEF ListInv, SendInv
<1>6. DeleteInv'
  BY <1>2, <1>3 DEF DeleteInv, Touching
<1>7. NoLostWakeup'
  BY <1>2, <1>3 DEF NoLostWakeup
<1> QED BY <1>4, <1>5, <1>6, <1>7

(* A waiter that was woken with a timeout or an error returns. *)
LEMMA GiveUpInv ==
  ASSUME QueueInv, NEW t \in Task, GiveUp(t)
  PROVE  QueueInv'
<1> USE DEF QueueInv
<1>1. /\ pc' = [pc EXCEPT ![t] = "idle"] /\ out' = [out EXCEPT ![t] = NoMsg]
      /\ timeout' = [timeout EXCEPT ![t] = 0] /\ exstatus[t] # "EOK"
      /\ pc[t] \in {"send", "recv"}
      /\ UNCHANGED <<alive, index, num, buf, sendPend, recvPend, got, exstatus, delayed>>
  BY DEF GiveUp, Return, ring, lists, Resumed
<1>2. pc \in [Task -> {"idle", "send", "recv", "delete"}]
  BY DEF TypeOK
<1>3. TypeOK'
  BY <1>1 DEF TypeOK
<1>4. ListInv' /\ SendInv'
  BY <1>1, <1>2 DEF ListInv, SendInv
<1>5. DeleteInv'
  BY <1>1, <1>2 DEF DeleteInv, Touching
<1>6. Senders' = Senders /\ Receivers' = Receivers
  BY <1>1, <1>2 DEF Senders, Receivers, Coming, Resumed
<1>7. NoLostWakeup'
  BY <1>1, <1>6 DEF NoLostWakeup, Senders, Receivers
<1> QED BY <1>3, <1>4, <1>5, <1>7

(* KMsgQueueReinit wakes everyone with an error and empties the ring. *)
LEMMA ReinitInv ==
  ASSUME QueueInv, NEW t \in Task, KMsgQueueReinit(t)
  PROVE  QueueInv'
<1> USE DEF QueueInv
<1> DEFINE all == sendPend \o recvPend
<1>1. /\ delayed' = delayed \ Range(all)
      /\ exstatus' = [u \in Task |-> IF u \in Range(all) THEN "ERROR" ELSE exstatus[u]]
      /\ sendPend' = <<>> /\ recvPend' = <<>> /\ index' = 0 /\ num' = 0
      /\ alive /\ (\A u \in Task : pc[u] # "delete")
      /\ UNCHANGED <<alive, buf, pc, out, timeout, got>>
  BY DEF KMsgQueueReinit, LinklistResumeAll, Woken, calls
<1>2. sendPend \in Seq(Task) /\ recvPend \in Seq(Task) /\ MaxMsgs \in Nat /\ MaxMsgs > 0
  BY MsgQueueAssumption DEF TypeOK
<1>3. Range(all) = delayed
  BY <1>2, ConcatElements DEF ListInv
<1> HIDE DEF all
<1>4. TypeOK'
  BY <1>1, <1>2, <1>3, EmptyElements DEF TypeOK, Slots, Status
<1>5. ListInv'
  BY <1>1, <1>3, EmptyElements DEF ListInv
<1>6. SendInv' /\ DeleteInv' /\ NoLostWakeup'
  BY <1>1 DEF SendInv, DeleteInv, NoLostWakeup
<1> QED BY <1>4, <1>5, <1>6

(* KDeleteMsgQueue wakes the senders ... *)
LEMMA DeleteSendersInv ==
  ASSUME QueueInv, NEW t \in Task, DeleteSenders(t)
  PROVE  QueueInv'
<1> USE DEF QueueInv
<1>1. /\ delayed' = delayed \ Range(sendPend)
      /\ exstatus' = [u \in Task |-> IF u \in Range(sendPend) THEN "ERROR" ELSE exstatus[u]]
      /\ sendPend' = <<>> /\ pc[t] = "idle" /\ pc' = [pc EXCEPT ![t] = "delete"]
      /\ alive /\ (\A u \in Task : ~Touching(u))
      /\ UNCHANGED <<alive, index, num, buf, recvPend, out, timeout, got>>
  BY DEF DeleteSenders, LinklistResumeAll, Woken, ring
<1>2. /\ recvPend \in Seq(Task) /\ pc \in [Task -> {"idle", "send", "recv", "delete"}]
      /\ sendPend \in Seq(Task) /\ exstatus \in [Task -> Status]
  BY DEF TypeOK
<1>3. Range(sendPend) \subseteq Task /\ Range(sendPend) \cap Range(recvPend) = {}
  BY <1>2 DEF ListInv, Range
<1>4. TypeOK'
  BY <1>1, <1>2, <1>3, EmptyElements DEF TypeOK, Status
<1>5. ListInv'
  <2>1. \A u \in Range(recvPend) : u \in Task /\ u # t /\ exstatus'[u] = exstatus[u]
    BY <1>1, <1>2, <1>3 DEF ListInv, Range
  <2> QED BY <1>1, <1>2, <1>3, <2>1, EmptyElements DEF ListInv
<1>6. SendInv'
  BY <1>1, <1>2 DEF SendInv
<1>7. Receivers' = Receivers
  BY <1>1, <1>2, <1>3 DEF Receivers, Coming, Resumed, ListInv
<1>8. NoLostWakeup'
  BY <1>1, <1>7 DEF NoLostWakeup, Receivers
<1>9. \A u \in Task \ {t} : ~Touching(u)'
  <2> SUFFICES ASSUME NEW u \in Task \ {t} PROVE ~Touching(u)'
    OBVIOUS
  <2>1. ~Touching(u) /\ pc'[u] = pc[u]
    BY <1>1, <1>2
  <2>2. pc[u] = "send" => exstatus'[u] # "EOK"
    BY <1>1, <1>2, <2>1 DEF Touching
  <2>3. pc[u] = "recv" /\ u \notin Range(recvPend) => exstatus'[u] # "EOK"
    BY <1>1, <1>2, <2>1 DEF Touching
  <2> QED BY <1>1, <2>1, <2>2, <2>3 DEF Touching
<1>10. DeleteInv'
  <2>1. \A u \in Task : pc[u] # "delete"
    BY <1>1 DEF Touching
  <2> QED BY <1>1, <1>2, <1>9, <2>1 DEF DeleteInv
<1> QED BY <1>4, <1>5, <1>6, <1>8, <1>10

(* ... then the receivers, and frees the queue. *)
LEMMA DeleteReceiversInv ==
  ASSUME QueueInv, NEW t \in Task, DeleteReceivers(t)
  PROVE  QueueInv'
<1> USE DEF QueueInv
<1>1. /\ delayed' = delayed \ Range(recvPend)
      /\ exstatus' = [u \in Task |-> IF u \in Range(recvPend) THEN "ERROR" ELSE exstatus[u]]
      /\ recvPend' = <<>> /\ pc[t] = "delete" /\ pc' = [pc EXCEPT ![t] = "idle"]
      /\ alive' = FALSE /\ index' = 0 /\ num' = 0 /\ buf' = [i \in Slots |-> Junk]
      /\ UNCHANGED <<sendPend, out, timeout, got>>
  BY DEF DeleteReceivers, LinklistResumeAll, Woken
<1>2. /\ recvPend \in Seq(Task) /\ pc \in [Task -> {"idle", "send", "recv", "delete"}]
      /\ exstatus \in [Task -> Status] /\ MaxMsgs \in Nat /\ MaxMsgs > 0
  BY MsgQueueAssumption DEF TypeOK
<1>3. sendPend = <<>> /\ \A u \in Task \ {t} : ~Touching(u)
  BY <1>1 DEF DeleteInv
<1>4. TypeOK'
  <2>1. recvPend' \in Seq(Task) /\ sendPend' \in Seq(Task) /\ delayed' \subseteq Task
    BY <1>1, EmptyElements DEF TypeOK
  <2>2. exstatus' \in [Task -> Status] /\ pc' \in [Task -> {"idle", "send", "recv", "delete"}]
    BY <1>1, <1>2 DEF Status
  <2>3. index' \in Slots /\ num' \in 0 .. MaxMsgs
    BY <1>1, <1>2 DEF Slots
  <2> QED BY <1>1, <2>1, <2>2, <2>3 DEF TypeOK
<1>5. ListInv'
  BY <1>1, <1>3, EmptyElements DEF ListInv
<1>6. SendInv' /\ NoLostWakeup'
  BY <1>1, <1>2, <1>3 DEF SendInv, NoLostWakeup
<1>7. ASSUME NEW u \in Task PROVE ~Touching(u)'
  <2>1. CASE u = t
    BY <1>1, <1>2, <2>1 DEF Touching
  <2>2. CASE u # t
    <3>1. ~Touching(u) /\ pc'[u] = pc[u]
      BY <1>1, <1>2, <1>3, <2>2
    <3>2. pc[u] \in {"send", "recv"} => exstatus'[u] # "EOK"
      BY <1>1, <1>2, <1>3, <3>1, EmptyElements DEF Touching
    <3> QED BY <1>1, <3>1, <3>2 DEF Touching
  <2> QED BY <2>1, <2>2
<1>8. DeleteInv'
  BY <1>1, <1>3, <1>7 DEF DeleteInv, Touching
<1> QED BY <1>4, <1>5, <1>6, <1>8

(* A delay runs out: its task is on one of the lists, and leaves it. *)
LEMMA TimeoutInv ==
  ASSUME QueueInv, NEW t \in Task, MsgQueueTimeout(t)
  PROVE  QueueInv'
<1> USE DEF QueueInv
<1>1. /\ t \in delayed /\ delayed' = delayed \ {t}
      /\ exstatus' = [exstatus EXCEPT ![t] = "ETIMEOUT"]
      /\ sendPend' = RmNode(sendPend, t) /\ recvPend' = RmNode(recvPend, t)
      /\ UNCHANGED <<alive, index, num, buf, pc, out, timeout, got>>
  BY DEF MsgQueueTimeout, TimedOut, ring, calls
<1>2. /\ sendPend \in Seq(Task) /\ recvPend \in Seq(Task) /\ exstatus \in [Task -> Status]
      /\ MaxMsgs \in Nat /\ num \in 0 .. MaxMsgs
      /\ pc \in [Task -> {"idle", "send", "recv", "delete"}]
  BY MsgQueueAssumption DEF TypeOK
<1>3. /\ sendPend' \in Seq(Task) /\ IsInjective(sendPend')
      /\ Range(sendPend') = Range(sendPend) \ {t}
  BY <1>1, <1>2, RmNodeElements DEF ListInv
<1>4. /\ recvPend' \in Seq(Task) /\ IsInjective(recvPend')
      /\ Range(recvPend') = Range(recvPend) \ {t}
  BY <1>1, <1>2, RmNodeElements DEF ListInv
<1>5. TypeOK'
  BY <1>1, <1>2, <1>3, <1>4 DEF TypeOK, Status
<1>6. ListInv'
  <2>1. \A u \in Range(sendPend) \cup Range(recvPend) : u \in Task
    BY <1>2 DEF Range
  <2> QED BY <1>1, <1>2, <1>3, <1>4, <2>1 DEF ListInv
<1>7. SendInv'
  BY <1>1 DEF SendInv
<1>8. Senders' = Senders /\ Receivers' = Receivers
  <2>1. t \notin Senders /\ t \notin Receivers
    BY <1>1 DEF Senders, Receivers, Coming, Resumed, ListInv
  <2>2. exstatus'[t] # "EOK"
    BY <1>1, <1>2
  <2>3. \A u \in Task : u # t => exstatus'[u] = exstatus[u] /\ pc'[u] = pc[u]
    BY <1>1, <1>2
  <2>4. Senders' = Senders
    BY <1>1, <1>3, <2>1, <2>2, <2>3 DEF Senders, Coming, Resumed
  <2>5. Receivers' = Receivers
    BY <1>1, <1>4, <2>1, <2>2, <2>3 DEF Receivers, Coming, Resumed
  <2> QED BY <2>4, <2>5
<1>9. (sendPend = <<>> => sendPend' = <<>>) /\ (recvPend = <<>> => recvPend' = <<>>)
  BY <1>2, <1>3, <1>4, EmptyElements
<1>10. NoLostWakeup'
  BY <1>1, <1>8, <1>9 DEF NoLostWakeup, Senders, Receivers
<1>11. \A u \in Task : Touching(u)' => Touching(u)
  BY <1>1, <1>2, <1>3, <1>4 DEF Touching, ListInv
<1>12. DeleteInv'
  BY <1>1, <1>9, <1>11 DEF DeleteInv
<1> QED BY <1>5, <1>6, <1>7, <1>10, <1>12

(* Every step preserves the invariant. *)
LEMMA NextInv ==
  ASSUME QueueInv, [Next]_vars
  PROVE  QueueInv'
<1> SUFFICES ASSUME NEW t \in Task,
                    \/ KCreateMsgQueue(t)
                    \/ \E m \in Msg, ms \in Msecs : KMsgQueueSend(t, m, ms)
                    \/ \E ms \in Msecs : KMsgQueueRecv(t, ms)
                    \/ SendAgain(t) \/ RecvAgain(t) \/ GiveUp(t)
                    \/ KMsgQueueReinit(t) \/ DeleteSenders(t) \/ DeleteReceivers(t)
                    \/ MsgQueueTimeout(t)
             PROVE  QueueInv'
  <2>1. CASE UNCHANGED vars
    BY <2>1 DEF vars, ring, lists, calls, QueueInv, TypeOK, ListInv, SendInv, DeleteInv,
                NoLostWakeup, Touching, Coming, Resumed
  <2> QED BY <2>1 DEF Next
<1>1. TypeOK /\ DeleteInv
  BY DEF QueueInv
<1>2. ASSUME NEW m \in Msg, NEW ms \in Msecs, KMsgQueueSend(t, m, ms) PROVE QueueInv'
  <2>1. CalculteTickFromTimeMs(ms) \in Nat
    BY TicksPositive
  <2> QED BY <1>2, <2>1, TrySendInv DEF KMsgQueueSend
<1>3. ASSUME NEW ms \in Msecs, KMsgQueueRecv(t, ms) PROVE QueueInv'
  <2>1. CalculteTickFromTimeMs(ms) \in Nat
    BY TicksPositive
  <2> QED BY <1>3, <2>1, TryRecvInv DEF KMsgQueueRecv
<1>4. CASE SendAgain(t)
  <2>1. PICK left \in 0 .. timeout[t] : TrySend(t, out[t], left)
    BY <1>4 DEF SendAgain
  <2>2. left \in Nat /\ out[t] \in Msg
    BY <1>1, <1>4, <2>1 DEF TypeOK, QueueInv, SendInv, SendAgain, Resumed
  <2>3. t \in Senders /\ Touching(t) /\ pc[t] = "send" /\ alive' = alive
    BY <1>4 DEF SendAgain, Senders, Coming, Resumed, Touching
  <2>4. alive /\ \A u \in Task : pc[u] # "delete"
    BY <1>1, <2>3 DEF DeleteInv
  <2> QED BY <2>1, <2>2, <2>3, <2>4, TrySendInv
<1>5. CASE RecvAgain(t)
  <2>1. PICK left \in 0 .. timeout[t] : TryRecv(t, left)
    BY <1>5 DEF RecvAgain
  <2>2. left \in Nat
    BY <1>1, <2>1 DEF TypeOK
  <2>3. t \in Receivers /\ Touching(t) /\ pc[t] = "recv" /\ alive' = alive
    BY <1>5 DEF RecvAgain, Receivers, Coming, Resumed, Touching
  <2>4. alive /\ \A u \in Task : pc[u] # "delete"
    BY <1>1, <2>3 DEF DeleteInv
  <2> QED BY <2>1, <2>2, <2>3, <2>4, TryRecvInv
<1> QED BY <1>2, <1>3, <1>4, <1>5, CreateInv, GiveUpInv, ReinitInv, DeleteSendersInv,
           DeleteReceiversInv, TimeoutInv

LEMMA InitInv == Init => QueueInv
<1> SUFFICES ASSUME Init PROVE QueueInv
  OBVIOUS
<1>1. MaxMsgs \in Nat /\ MaxMsgs > 0
  BY MsgQueueAssumption
<1>2. TypeOK
  BY <1>1, EmptyElements, SMTT(20) DEF Init, PendInit, TypeOK, Slots, Status
<1>3. ListInv /\ SendInv /\ DeleteInv /\ NoLostWakeup
  BY EmptyElements DEF Init, PendInit, ListInv, SendInv, DeleteInv, NoLostWakeup, Touching
<1> QED BY <1>2, <1>3 DEF QueueInv

(* The invariant holds of every reachable state. *)
THEOREM QueueInvariant == Spec => []QueueInv
  BY InitInv, NextInv, PTL DEF Spec

(* Every variable of the queue keeps its type: the index stays a slot of   *)
(* the ring and never more messages are counted than the ring has slots.   *)
THEOREM QueueTypes == Spec => []TypeOK
<1>1. QueueInv => TypeOK
  BY DEF QueueInv
<1> QED BY <1>1, QueueInvariant, PTL

(* No wakeup is lost: as long as tasks wait to receive, every message in   *)
(* the queue has a receiver on its way to it, and as long as tasks wait to *)
(* send, every free slot has a sender on its way.                          *)
THEOREM WakeupsReachWaiters == Spec => []NoLostWakeup
<1>1. QueueInv => NoLostWakeup
  BY DEF QueueInv
<1> QED BY <1>1, QueueInvariant, PTL

(* A task waits on at most one of the lists, once, and its delay runs      *)
(* exactly as long.                                                        *)
THEOREM DelaysOfWaiters == Spec => []DelayWhileWaiting
<1>1. QueueInv => DelayWhileWaiting
  <2> SUFFICES ASSUME QueueInv PROVE DelayWhileWaiting
    OBVIOUS
  <2>1. sendPend \in Seq(Task) /\ recvPend \in Seq(Task)
    BY DEF QueueInv, TypeOK
  <2>2. Range(sendPend) \cap Range(recvPend) = {}
    BY DEF QueueInv, ListInv
  <2> QED BY <2>1, <2>2, ConcatElements DEF QueueInv, ListInv, DelayWhileWaiting
<1> QED BY <1>1, QueueInvariant, PTL

-----------------------------------------------------------------------------
(* The ring implements the bounded queue. *)

(* What a ring with index x, n messages and slots b holds, and the slot of *)
(* its i-th message.                                                       *)
ContentOf(x, n, b) ==
    [i \in 1 .. n |-> IF i = 1 THEN (IF x \in Slots THEN b[x] ELSE Junk)
                               ELSE b[(x + i - 1) % MaxMsgs]]
Place(x, i) == IF x + i <= MaxMsgs THEN x + i - 1 ELSE x + i - 1 - MaxMsgs

LEMMA ContentIsContentOf ==
  /\ Content = ContentOf(index, num, buf)
  /\ Content' = ContentOf(index', num', buf')
  BY DEF Content, ContentOf, Slot

LEMMA PlaceIsRemainder ==
  ASSUME NEW x \in Slots, NEW i \in 1 .. MaxMsgs + 1
  PROVE  (x + i - 1) % MaxMsgs = Place(x, i) /\ Place(x, i) \in Slots
<1>1. MaxMsgs \in Nat /\ MaxMsgs > 0
  BY MsgQueueAssumption
<1>2. i - 1 \in 0 .. MaxMsgs /\ x \in 0 .. MaxMsgs - 1 /\ x + i - 1 = x + (i - 1)
  BY <1>1 DEF Slots
<1>3. (x + (i - 1)) % MaxMsgs = IF x + (i - 1) < MaxMsgs THEN x + (i - 1)
                                                         ELSE x + (i - 1) - MaxMsgs
  BY <1>2, RoundOnce
<1> QED BY <1>1, <1>2, <1>3 DEF Place, Slots

LEMMA ContentElements ==
  ASSUME NEW x \in Slots, NEW n \in 0 .. MaxMsgs, NEW b \in [Slots -> Msg \cup {Junk}]
  PROVE  /\ ContentOf(x, n, b) \in Seq(Msg \cup {Junk})
         /\ Len(ContentOf(x, n, b)) = n
         /\ \A i \in 1 .. n : ContentOf(x, n, b)[i] = b[Place(x, i)]
<1> DEFINE w == ContentOf(x, n, b)
<1>1. MaxMsgs \in Nat /\ MaxMsgs > 0 /\ n \in Nat
  BY MsgQueueAssumption
<1>2. ASSUME NEW i \in 1 .. n
      PROVE  w[i] = b[Place(x, i)] /\ w[i] \in Msg \cup {Junk}
  <2>1. i \in 1 .. MaxMsgs + 1
    BY <1>1
  <2>2. (x + i - 1) % MaxMsgs = Place(x, i) /\ Place(x, i) \in Slots
    BY <2>1, PlaceIsRemainder
  <2>3. i = 1 => Place(x, i) = x
    BY <1>1 DEF Place, Slots
  <2>4. w[i] = IF i = 1 THEN b[x] ELSE b[(x + i - 1) % MaxMsgs]
    BY DEF ContentOf
  <2> QED BY <2>2, <2>3, <2>4
<1>3. DOMAIN w = 1 .. n /\ w = [i \in 1 .. n |-> w[i]]
  BY DEF ContentOf
<1> HIDE DEF w
<1>4. w \in [1 .. n -> Msg \cup {Junk}]
  BY <1>2, <1>3
<1>5. w \in Seq(Msg \cup {Junk}) /\ Len(w) = n
  BY <1>1, <1>4
<1> QED BY <1>2, <1>5 DEF w

(* Two rings of the same messages. *)
LEMMA SameSeq ==
  ASSUME NEW S, NEW a \in Seq(S), NEW b \in Seq(S), Len(a) = Len(b),
         \A i \in 1 .. Len(a) : a[i] = b[i]
  PROVE  a = b
  OBVIOUS

(* A message written behind the others. *)
LEMMA EnqueueAppends ==
  ASSUME TypeOK, NEW m \in Msg, num < MaxMsgs,
         buf' = [buf EXCEPT ![(index + num) % MaxMsgs] = m], num' = num + 1, index' = index
  PROVE  Content' = Append(Content, m)
<1> DEFINE S == Msg \cup {Junk}
<1>1. /\ index \in Slots /\ num \in 0 .. MaxMsgs /\ buf \in [Slots -> S] /\ m \in S
      /\ MaxMsgs \in Nat /\ MaxMsgs > 0
  BY MsgQueueAssumption DEF TypeOK
<1>2. (index + num) % MaxMsgs = Place(index, num + 1) /\ Place(index, num + 1) \in Slots
  <2>1. num + 1 \in 1 .. MaxMsgs + 1 /\ index + (num + 1) - 1 = index + num
    BY <1>1 DEF Slots
  <2>2. (index + (num + 1) - 1) % MaxMsgs = Place(index, num + 1)
    BY <1>1, <2>1, PlaceIsRemainder
  <2> QED BY <1>1, <2>1, <2>2, PlaceIsRemainder
<1>3. num' \in 0 .. MaxMsgs /\ buf' \in [Slots -> S] /\ index' \in Slots
  BY <1>1, <1>2
<1>4. /\ Content \in Seq(S) /\ Len(Content) = num
      /\ \A i \in 1 .. num : Content[i] = buf[Place(index, i)]
  BY <1>1, ContentElements, ContentIsContentOf
<1>5. /\ Content' \in Seq(S) /\ Len(Content') = num + 1
      /\ \A i \in 1 .. num + 1 : Content'[i] = buf'[Place(index, i)]
  <2> DEFINE x == index'
             n == num'
             b == buf'
  <2>1. x \in Slots /\ n \in 0 .. MaxMsgs /\ b \in [Slots -> Msg \cup {Junk}]
    BY <1>3
  <2>2. Content' = ContentOf(x, n, b)
    BY ContentIsContentOf
  <2> HIDE DEF x, n, b
  <2>3. /\ ContentOf(x, n, b) \in Seq(S) /\ Len(ContentOf(x, n, b)) = n
        /\ \A i \in 1 .. n : ContentOf(x, n, b)[i] = b[Place(x, i)]
    BY <2>1, ContentElements
  <2> HIDE DEF S
  <2>4. Content' \in Seq(S) /\ Len(Content') = n /\ \A i \in 1 .. n : Content'[i] = b[Place(x, i)]
    BY <2>2, <2>3
  <2>5. x = index /\ n = num + 1 /\ b = buf'
    BY DEF x, n, b
  <2> QED BY <2>4, <2>5
<1>6. ASSUME NEW i \in 1 .. num PROVE Content'[i] = Content[i]
  <2>1. Place(index, i) # Place(index, num + 1)
    BY <1>1 DEF Place, Slots
  <2>2. Place(index, i) \in Slots
    BY <1>1, PlaceIsRemainder
  <2>3. buf'[Place(index, i)] = buf[Place(index, i)]
    BY <1>1, <1>2, <2>1, <2>2
  <2> QED BY <1>1, <1>4, <1>5, <2>3
<1>7. Content'[num + 1] = m
  BY <1>1, <1>2, <1>5
<1> HIDE DEF S
<1> DEFINE c == Content
           w == Content'
<1> HIDE DEF c, w
<1>8. /\ c \in Seq(S) /\ w \in Seq(S) /\ Len(c) = num /\ Len(w) = num + 1
      /\ \A i \in 1 .. num : w[i] = c[i]
      /\ w[num + 1] = m
  BY <1>4, <1>5, <1>6, <1>7 DEF c, w
<1>9. w = Append(c, m)
  BY <1>1, <1>8, SameSeq
<1> QED BY <1>9 DEF c, w

(* The message read is the first, and the others follow. *)
LEMMA DequeueTakesHead ==
  ASSUME TypeOK, num > 0, index' = (index + 1) % MaxMsgs, num' = num - 1, buf' = buf
  PROVE  Content # <<>> /\ Slot(index) = Head(Content) /\ Content' = Tail(Content)
<1> DEFINE S == Msg \cup {Junk}
<1>1. /\ index \in Slots /\ num \in 0 .. MaxMsgs /\ buf \in [Slots -> S]
      /\ MaxMsgs \in Nat /\ MaxMsgs > 0
  BY MsgQueueAssumption DEF TypeOK
<1>2. index' = (IF index + 1 < MaxMsgs THEN index + 1 ELSE 0) /\ index' \in Slots
  <2>1. (index + 1) % MaxMsgs = IF index + 1 < MaxMsgs THEN index + 1 ELSE index + 1 - MaxMsgs
    <3>1. 1 \in 0 .. MaxMsgs /\ index \in 0 .. MaxMsgs - 1
      BY <1>1 DEF Slots
    <3> QED BY <3>1, RoundOnce
  <2> QED BY <1>1, <2>1 DEF Slots
<1>3. num' \in 0 .. MaxMsgs
  BY <1>1
<1>4. /\ Content \in Seq(S) /\ Len(Content) = num
      /\ \A i \in 1 .. num : Content[i] = buf[Place(index, i)]
  BY <1>1, ContentElements, ContentIsContentOf
<1>5. /\ Content' \in Seq(S) /\ Len(Content') = num - 1
      /\ \A i \in 1 .. num - 1 : Content'[i] = buf[Place(index', i)]
  BY <1>1, <1>2, <1>3, ContentElements, ContentIsContentOf
<1>6. ASSUME NEW i \in 1 .. num - 1 PROVE Content'[i] = Content[i + 1]
  <2>1. Place(index', i) = Place(index, i + 1)
    BY <1>1, <1>2 DEF Place, Slots
  <2>2. i + 1 \in 1 .. num
    BY <1>1
  <2> QED BY <1>4, <1>5, <2>1, <2>2
<1>7. Slot(index) = Content[1]
  <2>1. 1 \in 1 .. num /\ Place(index, 1) = index
    BY <1>1 DEF Place, Slots
  <2> QED BY <1>1, <1>4, <2>1 DEF Slot
<1> HIDE DEF S
<1> DEFINE c == Content
           w == Content'
<1> HIDE DEF c, w
<1>8. /\ c \in Seq(S) /\ w \in Seq(S) /\ Len(c) = num /\ Len(w) = num - 1
      /\ \A i \in 1 .. num - 1 : w[i] = c[i + 1]
  BY <1>4, <1>5, <1>6 DEF c, w
<1>9. c # <<>> /\ Head(c) = c[1]
  BY <1>1, <1>8
<1>10. Tail(c) \in Seq(S) /\ Len(Tail(c)) = num - 1 /\ \A i \in 1 .. num - 1 : Tail(c)[i] = c[i + 1]
  BY <1>1, <1>8, <1>9
<1>11. w = Tail(c)
  BY <1>8, <1>10, SameSeq
<1> QED BY <1>7, <1>9, <1>11 DEF c, w

(* An empty ring. *)
LEMMA EmptyContent ==
  /\ num = 0 => Content = <<>>
  /\ num' = 0 => Content' = <<>>
<1>1. ASSUME NEW x, NEW b PROVE ContentOf(x, 0, b) = <<>>
  <2> DEFINE w == ContentOf(x, 0, b)
  <2>1. DOMAIN w = 1 .. 0 /\ w = [i \in 1 .. 0 |-> w[i]]
    BY DEF ContentOf
  <2> HIDE DEF w
  <2>2. w \in [1 .. 0 -> {}]
    BY <2>1
  <2>3. w \in Seq({}) /\ Len(w) = 0
    BY <2>2
  <2>4. w = <<>>
    BY <2>3
  <2> QED BY <2>4 DEF w
<1> QED BY <1>1, ContentIsContentOf

(* A send that is tried is the abstract send of its message, and a receive *)
(* that is tried the abstract receive of its task.                         *)
LEMMA TrySendAbs ==
  ASSUME TypeOK, NEW t \in Task, NEW m \in Msg, NEW left, TrySend(t, m, left)
  PROVE  Abs!Send(m)
<1>1. Len(Content) = num
  <2>1. index \in Slots /\ num \in 0 .. MaxMsgs /\ buf \in [Slots -> Msg \cup {Junk}]
    BY DEF TypeOK
  <2> QED BY <2>1, ContentElements, ContentIsContentOf
<1>2. CASE num < MaxMsgs
  <2>1. /\ buf' = [buf EXCEPT ![(index + num) % MaxMsgs] = m] /\ num' = num + 1
        /\ index' = index /\ got' = got
    BY <1>2 DEF TrySend, Enqueue
  <2>2. Content' = Append(Content, m)
    BY <1>2, <2>1, EnqueueAppends
  <2> QED BY <1>1, <1>2, <2>1, <2>2 DEF Abs!Send
<1>3. CASE ~(num < MaxMsgs)
  <2>1. UNCHANGED <<index, num, buf, got>>
    BY <1>3 DEF TrySend, ring
  <2>2. Content' = Content
    BY <2>1, ContentIsContentOf
  <2> QED BY <1>1, <1>3, <2>1, <2>2 DEF Abs!Send
<1> QED BY <1>2, <1>3

LEMMA TryRecvAbs ==
  ASSUME TypeOK, NEW t \in Task, NEW left, TryRecv(t, left)
  PROVE  Abs!Recv(t)
<1>1. CASE num > 0
  <2>1. /\ index' = (index + 1) % MaxMsgs /\ num' = num - 1 /\ buf' = buf
        /\ got' = [got EXCEPT ![t] = Slot(index)]
    BY <1>1 DEF TryRecv, Dequeue
  <2>2. Content # <<>> /\ Slot(index) = Head(Content) /\ Content' = Tail(Content)
    BY <1>1, <2>1, DequeueTakesHead
  <2> QED BY <2>1, <2>2 DEF Abs!Recv
<1>2. CASE ~(num > 0)
  <2>1. UNCHANGED <<index, num, buf, got>>
    BY <1>2 DEF TryRecv, ring
  <2>2. Content' = Content
    BY <2>1, ContentIsContentOf
  <2>3. Content = <<>>
    <3>1. num = 0
      BY <1>2 DEF TypeOK
    <3> QED BY <3>1, EmptyContent
  <2> QED BY <2>1, <2>2, <2>3 DEF Abs!Recv, Abs!vars
<1> QED BY <1>1, <1>2

(* What each call does to the abstract queue. *)
LEMMA CallsAbs ==
  ASSUME QueueInv
  PROVE  CallsMatch
<1> SUFFICES ASSUME NEW t \in Task
             PROVE  /\ \A m \in Msg, ms \in Msecs : KMsgQueueSend(t, m, ms) => Abs!Send(m)
                    /\ SendAgain(t) => Abs!Send(out[t])
                    /\ (RecvAgain(t) \/ \E ms \in Msecs : KMsgQueueRecv(t, ms)) => Abs!Recv(t)
                    /\ KCreateMsgQueue(t) \/ KMsgQueueReinit(t) \/ DeleteReceivers(t) => Abs!Reset
                    /\ GiveUp(t) \/ DeleteSenders(t) \/ MsgQueueTimeout(t)
                          => UNCHANGED <<Content, got>>
  BY DEF CallsMatch
<1>1. TypeOK
  BY DEF QueueInv
<1>2. ASSUME NEW m \in Msg, NEW ms \in Msecs, KMsgQueueSend(t, m, ms) PROVE Abs!Send(m)
  BY <1>1, <1>2, TrySendAbs DEF KMsgQueueSend
<1>3. ASSUME SendAgain(t) PROVE Abs!Send(out[t])
  <2>1. PICK left \in 0 .. timeout[t] : TrySend(t, out[t], left)
    BY <1>3 DEF SendAgain
  <2>2. out[t] \in Msg
    BY <1>3 DEF QueueInv, SendInv, SendAgain, Resumed
  <2> QED BY <1>1, <2>1, <2>2, TrySendAbs
<1>4. ASSUME NEW ms \in Msecs, KMsgQueueRecv(t, ms) PROVE Abs!Recv(t)
  BY <1>1, <1>4, TryRecvAbs DEF KMsgQueueRecv
<1>5. ASSUME RecvAgain(t) PROVE Abs!Recv(t)
  <2>1. PICK left \in 0 .. timeout[t] : TryRecv(t, left)
    BY <1>5 DEF RecvAgain
  <2> QED BY <1>1, <2>1, TryRecvAbs
<1>6. ASSUME KCreateMsgQueue(t) \/ KMsgQueueReinit(t) \/ DeleteReceivers(t) PROVE Abs!Reset
  <2>1. num' = 0 /\ got' = got
    BY <1>6 DEF KCreateMsgQueue, KMsgQueueReinit, DeleteReceivers
  <2> QED BY <2>1, EmptyContent DEF Abs!Reset
<1>7. ASSUME GiveUp(t) \/ DeleteSenders(t) \/ MsgQueueTimeout(t)
      PROVE  UNCHANGED <<Content, got>>
  <2>1. UNCHANGED <<index, num, buf, got>>
    BY <1>7 DEF GiveUp, DeleteSenders, MsgQueueTimeout, ring
  <2> QED BY <2>1, ContentIsContentOf
<1> QED BY <1>2, <1>3, <1>4, <1>5, <1>6, <1>7

(* So every step of the queue is a step of the abstract queue or none. *)
LEMMA NextAbs ==
  ASSUME QueueInv, [Next]_vars
  PROVE  [Abs!Next]_(Abs!vars)
<1>1. CallsMatch
  BY CallsAbs
<1>2. CASE UNCHANGED vars
  <2>1. UNCHANGED <<Content, got>>
    BY <1>2, ContentIsContentOf DEF vars, ring
  <2> QED BY <2>1 DEF Abs!vars
<1>3. ASSUME NEW t \in Task, NEW m \in Msg, NEW ms \in Msecs, KMsgQueueSend(t, m, ms)
      PROVE  Abs!Next
  BY <1>1, <1>3 DEF CallsMatch, Abs!Next
<1>4. ASSUME NEW t \in Task, SendAgain(t) PROVE Abs!Next
  <2>1. out[t] \in Msg
    BY <1>4 DEF QueueInv, SendInv, SendAgain, Resumed
  <2> QED BY <1>1, <1>4, <2>1 DEF CallsMatch, Abs!Next
<1>5. ASSUME NEW t \in Task, RecvAgain(t) \/ \E ms \in Msecs : KMsgQueueRecv(t, ms)
      PROVE  Abs!Next
  BY <1>1, <1>5 DEF CallsMatch, Abs!Next
<1>6. ASSUME NEW t \in Task, KCreateMsgQueue(t) \/ KMsgQueueReinit(t) \/ DeleteReceivers(t)
      PROVE  Abs!Next
  BY <1>1, <1>6 DEF CallsMatch, Abs!Next
<1>7. ASSUME NEW t \in Task, GiveUp(t) \/ DeleteSenders(t) \/ MsgQueueTimeout(t)
      PROVE  UNCHANGED Abs!vars
  BY <1>1, <1>7 DEF CallsMatch, Abs!vars
<1> QED BY <1>2, <1>3, <1>4, <1>5, <1>6, <1>7 DEF Next

(* The message queue implements the bounded queue of MsgQueueAbs, call by  *)
(* call: however sends, receives, timeouts, a reinitialisation and a       *)
(* delete interleave, a send that finds room appends its message, a        *)
(* receive that finds one takes the oldest, and no other call but a        *)
(* create, a reinit and a delete changes what is in the queue.             *)
THEOREM QueueIsFifo == Spec => Fifo
<1>1. Init => Abs!Init
  BY EmptyContent DEF Init, Abs!Init
<1>2. QueueInv /\ [Next]_vars => [Abs!Next]_(Abs!vars) /\ [CallsMatch]_vars
  BY NextAbs, CallsAbs
<1>3. Spec => Abs!Init /\ [][Abs!Next]_(Abs!vars) /\ [][CallsMatch]_vars
  BY <1>1, <1>2, QueueInvariant, PTL DEF Spec
<1> QED BY <1>3 DEF Fifo, Abs!Spec
=============================================================================
