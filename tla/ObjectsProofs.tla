--------------------------- MODULE ObjectsProofs ----------------------------
(***************************************************************************)
(* Semaphores, mutexes, events and gather blocks for any tasks, values,    *)
(* flags, blocks and waiting times: what a task is told it has, it has,    *)
(* and nobody sleeps beside what it waits for.                             *)
(***************************************************************************)
EXTENDS Objects, PendProofs

-----------------------------------------------------------------------------
(* Semaphores. *)

(* The conditions under which permits are conserved: no call is in flight  *)
(* when the semaphore is deleted, and sem->value has room for the permits  *)
(* of all callers.  With the first one given up a task may abandon or wait *)
(* on freed memory, and without the second the value wraps to zero.        *)
SemDisciplined ==
    /\ ~DeleteInUse
    /\ MaxBalance + Cardinality(Task) < ValMod
    /\ \A v \in Values : v + Cardinality(Task) < ValMod

SemPlaces  == {"idle", "sem_wait"} \cup Working
Abandoners == {t \in Task : pc[t] = "abandon"}

(* The list holds the tasks that wait, each once, with its delay running. *)
SemListInv ==
    /\ IsInjective(pend) /\ delayed = Range(pend)
    /\ \A t \in Range(pend) : pc[t] = "sem_wait" /\ exstatus[t] = "EOK"

(* A call between its lookup and its work finds the semaphore there, and   *)
(* one that deletes it is the only one.                                    *)
SemCallInv ==
    /\ \A t \in Task : pc[t] \in Working => alive
    /\ \A t \in Task : pc[t] = "delete" => \A u \in Task \ {t} : pc[u] \notin Working

(* There is room for the permits that calls in flight will put back. *)
SemRoomInv == balance + Cardinality(Abandoners) < ValMod

SemInv ==
    /\ SemTypeOK /\ pc \in [Task -> SemPlaces]
    /\ SemListInv /\ SemCallInv /\ SemRoomInv
    /\ PermitsConserved /\ NoWaiterWithPermit

(* The facts every step starts from. *)
LEMMA SemFacts ==
  ASSUME SemInv
  PROVE  /\ pend \in Seq(Task) /\ pc \in [Task -> SemPlaces] /\ exstatus \in [Task -> Status]
         /\ ticks \in [Task -> Nat] /\ value \in 0 .. ValMod - 1 /\ balance \in Int
         /\ ValMod \in Nat /\ ValMod > 0 /\ alive \in BOOLEAN /\ delayed \subseteq Task
         /\ Range(pend) \subseteq Task
         /\ Granted \subseteq Task /\ Cardinality(Granted) \in Nat
         /\ Abandoners \subseteq Task /\ Cardinality(Abandoners) \in Nat
<1>1. Granted \subseteq Task /\ Abandoners \subseteq Task
  BY DEF Granted, Abandoners
<1>2. Cardinality(Granted) \in Nat /\ Cardinality(Abandoners) \in Nat
  BY <1>1, TaskCount
<1> QED BY <1>1, <1>2, SemaphoreAssumption DEF SemInv, SemTypeOK, Range

(* The places of a semaphore call are places. *)
LEMMA SemPlacesArePlaces == SemPlaces \subseteq Places
  BY DEF SemPlaces, Places, Working

LEMMA SemCreateInv ==
  ASSUME SemDisciplined, SemInv, NEW t \in Task, NEW val \in Values, SemaphoreCreate(t, val)
  PROVE  SemInv'
<1>1. /\ ~alive /\ alive' = TRUE /\ value' = val /\ pend' = <<>>
      /\ balance' = val + Cardinality(Granted)
      /\ UNCHANGED <<pc, ticks, exstatus, delayed>>
  BY DEF SemaphoreCreate
<1>2. val \in 0 .. ValMod - 1 /\ val + Cardinality(Task) < ValMod
  BY SemaphoreAssumption DEF SemDisciplined
<1>3. pend = <<>>
  BY <1>1 DEF SemInv, NoWaiterWithPermit
<1>4. Granted' = Granted /\ Abandoners' = {}
  BY <1>1, <1>3 DEF Granted, Abandoners, SemInv, SemCallInv, Working
<1>5. SemTypeOK' /\ pc' \in [Task -> SemPlaces]
  BY <1>1, <1>2, <1>3, SemFacts DEF SemTypeOK, SemInv
<1>6. SemListInv'
  BY <1>1, <1>3 DEF SemInv, SemListInv
<1>7. SemCallInv'
  BY <1>1 DEF SemInv, SemCallInv
<1>8. SemRoomInv'
  <2>1. Cardinality(Granted) <= Cardinality(Task) /\ Cardinality(Task) \in Nat
    BY SemFacts, TaskCount
  <2>2. Cardinality(Abandoners') = 0
    BY <1>4, FS_EmptySet
  <2> QED BY <1>1, <1>2, <2>1, <2>2, SemFacts DEF SemRoomInv
<1>9. PermitsConserved' /\ NoWaiterWithPermit'
  BY <1>1, <1>4 DEF PermitsConserved, NoWaiterWithPermit
<1> QED BY <1>5, <1>6, <1>7, <1>8, <1>9 DEF SemInv

LEMMA SemIdGetObjInv ==
  ASSUME SemDisciplined, SemInv, NEW t \in Task, NEW op \in Working, NEW ms \in Msecs,
         IdGetObj(t, op, ms)
  PROVE  SemInv'
<1>1. /\ pc[t] = "idle" /\ alive /\ pc' = [pc EXCEPT ![t] = op]
      /\ op = "abandon" => balance < MaxBalance
      /\ \A u \in Task : pc[u] \notin IF op = "delete" THEN Working ELSE {"delete"}
      /\ ticks' = [ticks EXCEPT ![t] = IF op = "obtain" THEN CalculteTickFromTimeMs(ms) ELSE 0]
      /\ UNCHANGED <<alive, value, pend, exstatus, delayed, balance>>
  BY DEF IdGetObj, SemDisciplined
<1>2. CalculteTickFromTimeMs(ms) \in Nat
  BY TicksPositive
<1>3. op \in SemPlaces /\ op \in Places
  BY SemPlacesArePlaces DEF SemPlaces
<1>4. SemTypeOK' /\ pc' \in [Task -> SemPlaces]
  BY <1>1, <1>2, <1>3, SemFacts DEF SemTypeOK, SemInv
<1>5. SemListInv'
  BY <1>1, SemFacts DEF SemInv, SemListInv
<1>6. SemCallInv'
  BY <1>1, SemFacts DEF SemInv, SemCallInv, Working
<1>7. Granted' = Granted
  BY <1>1, SemFacts DEF Granted, Working
<1>8. SemRoomInv'
  <2>1. CASE op = "abandon"
    <3>1. Cardinality(Abandoners') <= Cardinality(Task) /\ Cardinality(Abandoners') \in Nat
      <4>1. Abandoners' \subseteq Task
        BY DEF Abandoners
      <4> QED BY <4>1, TaskCount
    <3>2. Cardinality(Task) \in Nat
      BY TaskCount
    <3>3. balance' < MaxBalance /\ MaxBalance \in Nat /\ balance' \in Int
      BY <1>1, <2>1, SemFacts, SemaphoreAssumption
    <3> QED BY <3>1, <3>2, <3>3, SemFacts DEF SemDisciplined, SemRoomInv
  <2>2. CASE op # "abandon"
    <3>1. Abandoners' = Abandoners
      BY <1>1, <2>2, SemFacts DEF Abandoners
    <3> QED BY <1>1, <3>1 DEF SemInv, SemRoomInv
  <2> QED BY <2>1, <2>2
<1>9. PermitsConserved' /\ NoWaiterWithPermit'
  BY <1>1, <1>7 DEF SemInv, PermitsConserved, NoWaiterWithPermit
<1> QED BY <1>4, <1>5, <1>6, <1>8, <1>9 DEF SemInv

LEMMA SemObtainInv ==
  ASSUME SemInv, NEW t \in Task, SemaphoreObtain(t)
  PROVE  SemInv'
<1>1. pc[t] = "obtain" /\ alive /\ UNCHANGED <<alive, ticks>>
  BY DEF SemaphoreObtain, SemInv, SemCallInv, Working
<1>2. t \notin Range(pend) /\ t \notin delayed /\ t \notin Granted /\ t \notin Abandoners
  BY <1>1 DEF SemInv, SemListInv, Granted, Abandoners
<1>3. CASE value > 0
  <2>1. /\ value' = value - 1 /\ balance' = balance - 1 /\ pc' = [pc EXCEPT ![t] = "idle"]
        /\ UNCHANGED <<pend, exstatus, delayed>>
    BY <1>3 DEF SemaphoreObtain
  <2>2. Granted' = Granted /\ Abandoners' = Abandoners
    BY <1>1, <2>1, SemFacts DEF Granted, Abandoners
  <2>3. pend = <<>>
    BY <1>3, SemFacts DEF SemInv, NoWaiterWithPermit
  <2>4. SemTypeOK' /\ pc' \in [Task -> SemPlaces]
    BY <1>1, <1>3, <2>1, SemFacts DEF SemTypeOK, SemPlaces, Places, SemInv
  <2>5. SemListInv' /\ SemCallInv'
    BY <1>1, <1>2, <2>1, SemFacts DEF SemInv, SemListInv, SemCallInv, Working
  <2>6. SemRoomInv' /\ PermitsConserved' /\ NoWaiterWithPermit'
    <3>1. SemRoomInv'
      <4> DEFINE c == Cardinality(Abandoners)
      <4>1. balance + c < ValMod /\ balance \in Int /\ c \in Nat /\ ValMod \in Nat
        BY SemFacts DEF SemInv, SemRoomInv
      <4>2. Cardinality(Abandoners') = c /\ balance' = balance - 1
        BY <2>1, <2>2
      <4> HIDE DEF c
      <4>3. balance' + c < ValMod
        BY <4>1, <4>2
      <4> QED BY <4>2, <4>3 DEF SemRoomInv
    <3>2. PermitsConserved'
      BY <2>1, <2>2, SemFacts DEF SemInv, PermitsConserved
    <3>3. NoWaiterWithPermit'
      BY <2>1, <2>3 DEF NoWaiterWithPermit
    <3> QED BY <3>1, <3>2, <3>3
  <2> QED BY <2>4, <2>5, <2>6 DEF SemInv
<1>4. CASE ~(value > 0) /\ ticks[t] = 0
  <2>1. pc' = [pc EXCEPT ![t] = "idle"] /\ UNCHANGED <<value, balance, pend, exstatus, delayed>>
    BY <1>4 DEF SemaphoreObtain
  <2>2. Granted' = Granted /\ Abandoners' = Abandoners
    BY <1>1, <2>1, SemFacts DEF Granted, Abandoners
  <2>3. SemTypeOK' /\ pc' \in [Task -> SemPlaces]
    BY <1>1, <2>1, SemFacts DEF SemTypeOK, SemPlaces, Places, SemInv
  <2>4. SemListInv' /\ SemCallInv'
    BY <1>1, <1>2, <2>1, SemFacts DEF SemInv, SemListInv, SemCallInv, Working
  <2>5. SemRoomInv' /\ PermitsConserved' /\ NoWaiterWithPermit'
    BY <1>1, <2>1, <2>2 DEF SemInv, SemRoomInv, PermitsConserved, NoWaiterWithPermit
  <2> QED BY <2>3, <2>4, <2>5 DEF SemInv
<1>5. CASE ~(value > 0) /\ ticks[t] # 0
  <2> DEFINE w == InsertSorted(pend, t, CurPrio[t], CurPrio)
  <2>1. /\ exstatus' = [exstatus EXCEPT ![t] = "EOK"] /\ pend' = w
        /\ delayed' = delayed \cup {t} /\ pc' = [pc EXCEPT ![t] = "sem_wait"]
        /\ UNCHANGED <<value, balance>>
    <3>1. ticks[t] > 0
      BY <1>5, SemFacts
    <3> QED BY <1>5, <3>1 DEF SemaphoreObtain, LinklistSuspend, StartDelay
  <2>2. w \in Seq(Task) /\ IsInjective(w) /\ Range(w) = Range(pend) \cup {t}
    BY <1>2, SemFacts, InsertSortedElements DEF SemInv, SemListInv
  <2> HIDE DEF w
  <2>3. Granted' = Granted /\ Abandoners' = Abandoners
    BY <1>1, <1>2, <2>1, <2>2, SemFacts DEF Granted, Abandoners
  <2>4. SemTypeOK' /\ pc' \in [Task -> SemPlaces]
    BY <1>1, <2>1, <2>2, SemFacts DEF SemTypeOK, SemPlaces, Places, SemInv, Status
  <2>5. SemListInv' /\ SemCallInv'
    BY <1>1, <1>2, <2>1, <2>2, SemFacts DEF SemInv, SemListInv, SemCallInv, Working
  <2>6. SemRoomInv' /\ PermitsConserved' /\ NoWaiterWithPermit'
    BY <1>1, <1>5, <2>1, <2>3, SemFacts
       DEF SemInv, SemRoomInv, PermitsConserved, NoWaiterWithPermit
  <2> QED BY <2>4, <2>5, <2>6 DEF SemInv
<1> QED BY <1>3, <1>4, <1>5

LEMMA SemReturnInv ==
  ASSUME SemInv, NEW t \in Task, ObtainReturn(t)
  PROVE  SemInv'
<1>1. /\ pc[t] = "sem_wait" /\ t \notin Range(pend) /\ pc' = [pc EXCEPT ![t] = "idle"]
      /\ balance' = (IF exstatus[t] = "EOK" THEN balance - 1 ELSE balance)
      /\ UNCHANGED <<alive, value, pend, ticks, exstatus, delayed>>
  BY DEF ObtainReturn
<1>2. Granted' = Granted \ {t} /\ Abandoners' = Abandoners
  BY <1>1, SemFacts DEF Granted, Abandoners
<1>3. SemTypeOK' /\ pc' \in [Task -> SemPlaces]
  BY <1>1, SemFacts DEF SemTypeOK, SemPlaces, Places, SemInv
<1>4. SemListInv' /\ SemCallInv'
  BY <1>1, SemFacts DEF SemInv, SemListInv, SemCallInv, Working
<1>5. balance' = value' + Cardinality(Granted')
  <2>1. CASE exstatus[t] = "EOK"
    <3>1. t \in Granted
      BY <1>1, <2>1 DEF Granted
    <3>2. Cardinality(Granted') = Cardinality(Granted) - 1
      BY <1>2, <3>1, SemFacts, TaskCount
    <3> QED BY <1>1, <2>1, <3>2, SemFacts DEF SemInv, PermitsConserved
  <2>2. CASE exstatus[t] # "EOK"
    <3>1. Granted' = Granted
      BY <1>2, <2>2 DEF Granted
    <3> QED BY <1>1, <2>2, <3>1 DEF SemInv, PermitsConserved
  <2> QED BY <2>1, <2>2
<1>6. SemRoomInv'
  BY <1>1, <1>2, SemFacts DEF SemInv, SemRoomInv
<1>7. PermitsConserved' /\ NoWaiterWithPermit'
  BY <1>1, <1>5 DEF SemInv, PermitsConserved, NoWaiterWithPermit
<1> QED BY <1>3, <1>4, <1>6, <1>7 DEF SemInv

(* The critical area of an abandon, by a task or by an interrupt handler:  *)
(* there is room for the permit.                                           *)
LEMMA GiveKeepsPermits ==
  ASSUME SemInv, Give, alive, balance' = balance + 1, balance + 1 < ValMod,
         UNCHANGED <<alive, ticks, exstatus>>,
         \/ UNCHANGED pc
         \/ \E t \in Task : pc[t] = "abandon" /\ pc' = [pc EXCEPT ![t] = "idle"]
  PROVE  SemTypeOK' /\ pc' \in [Task -> SemPlaces] /\ SemListInv' /\ SemCallInv'
         /\ PermitsConserved' /\ NoWaiterWithPermit'
<1>1. /\ pc' \in [Task -> SemPlaces]
      /\ \A u \in Task : (pc'[u] = "sem_wait" <=> pc[u] = "sem_wait")
                         /\ (pc'[u] \in Working => pc[u] \in Working)
                         /\ (pc'[u] = "delete" => pc[u] = "delete")
  BY SemFacts DEF SemPlaces, Working
<1>2. pc' \in [Task -> Places]
  BY <1>1, SemPlacesArePlaces
<1>3. SemCallInv'
  BY <1>1 DEF SemInv, SemCallInv
<1>4. balance = value + Cardinality(Granted)
  BY DEF SemInv, PermitsConserved
<1>5. CASE pend # <<>>
  <2> DEFINE h == Head(pend)
  <2>1. pend' = Tail(pend) /\ delayed' = delayed \ {h} /\ value' = value
    BY <1>5 DEF Give, Woken
  <2>2. /\ h \in Range(pend) /\ Tail(pend) \in Seq(Task) /\ IsInjective(Tail(pend))
        /\ Range(Tail(pend)) = Range(pend) \ {h}
    BY <1>5, SemFacts, TailElements DEF SemInv, SemListInv
  <2> HIDE DEF h
  <2>3. h \in Task /\ pc[h] = "sem_wait" /\ exstatus[h] = "EOK"
    BY <2>2, SemFacts DEF SemInv, SemListInv
  <2>4. Granted' = Granted \cup {h} /\ h \notin Granted
    BY <1>1, <2>1, <2>2, <2>3 DEF Granted
  <2>5. Cardinality(Granted') = Cardinality(Granted) + 1
    BY <2>4, SemFacts, TaskCount
  <2>6. SemTypeOK'
    BY <1>2, <2>1, <2>2, SemFacts DEF SemTypeOK
  <2>7. SemListInv'
    BY <1>1, <2>1, <2>2, SemFacts DEF SemInv, SemListInv
  <2>8. PermitsConserved' /\ NoWaiterWithPermit'
    BY <1>4, <1>5, <2>1, <2>5, SemFacts DEF SemInv, PermitsConserved, NoWaiterWithPermit
  <2> QED BY <1>1, <1>3, <2>6, <2>7, <2>8
<1>6. CASE pend = <<>>
  <2>1. value' = (value + 1) % ValMod /\ UNCHANGED <<pend, delayed>>
    BY <1>6 DEF Give
  <2>2. value' = value + 1 /\ value' \in 0 .. ValMod - 1
    <3>1. value + 1 \in 0 .. ValMod - 1
      BY <1>4, SemFacts
    <3>2. (value + 1) % ValMod = value + 1
      BY <3>1, SemFacts, NoWrap
    <3> QED BY <2>1, <3>1, <3>2
  <2>3. Granted' = Granted
    BY <1>1, <2>1 DEF Granted
  <2>4. SemTypeOK'
    BY <1>2, <2>1, <2>2, SemFacts, SMTT(20) DEF SemTypeOK
  <2>5. SemListInv'
    BY <1>1, <2>1, SemFacts DEF SemInv, SemListInv
  <2>6. PermitsConserved' /\ NoWaiterWithPermit'
    BY <1>4, <1>6, <2>1, <2>2, <2>3, SemFacts DEF PermitsConserved, NoWaiterWithPermit
  <2> QED BY <1>1, <1>3, <2>4, <2>5, <2>6
<1> QED BY <1>5, <1>6

LEMMA SemAbandonInv ==
  ASSUME SemInv, NEW t \in Task, SemaphoreAbandon(t)
  PROVE  SemInv'
<1>1. /\ pc[t] = "abandon" /\ Give /\ balance' = balance + 1
      /\ pc' = [pc EXCEPT ![t] = "idle"] /\ UNCHANGED <<alive, ticks, exstatus>>
  BY DEF SemaphoreAbandon
<1>2. alive
  BY <1>1 DEF SemInv, SemCallInv, Working
<1>3. Abandoners' = Abandoners \ {t} /\ t \in Abandoners
  BY <1>1, SemFacts DEF Abandoners
<1>4. Cardinality(Abandoners') = Cardinality(Abandoners) - 1 /\ Cardinality(Abandoners') \in Nat
  <2>1. Abandoners' \subseteq Task
    BY DEF Abandoners
  <2> QED BY <1>3, <2>1, SemFacts, TaskCount
<1>5. balance + 1 < ValMod /\ SemRoomInv'
  BY <1>1, <1>4, SemFacts, SMTT(20) DEF SemInv, SemRoomInv
<1> QED BY <1>1, <1>2, <1>5, GiveKeepsPermits DEF SemInv

LEMMA SemIsrInv ==
  ASSUME SemDisciplined, SemInv, IsrAbandon
  PROVE  SemInv'
<1>1. /\ alive /\ balance < MaxBalance /\ Give /\ balance' = balance + 1
      /\ UNCHANGED <<alive, pc, ticks, exstatus>>
  BY DEF IsrAbandon
<1>2. Abandoners' = Abandoners
  BY <1>1 DEF Abandoners
<1>3. Cardinality(Abandoners) <= Cardinality(Task) /\ Cardinality(Task) \in Nat
  BY SemFacts, TaskCount
<1>4. balance + 1 < ValMod /\ SemRoomInv'
  <2>1. MaxBalance \in Nat /\ MaxBalance + Cardinality(Task) < ValMod
    BY SemaphoreAssumption DEF SemDisciplined
  <2> QED BY <1>1, <1>2, <1>3, <2>1, SemFacts DEF SemRoomInv
<1> QED BY <1>1, <1>4, GiveKeepsPermits DEF SemInv

(* Every waiter is failed: whoever was granted a permit keeps it. *)
LEMMA ResumeAllKeepsGranted ==
  ASSUME SemInv, NEW t \in Task, pc[t] \in Working, pc' = [pc EXCEPT ![t] = "idle"],
         LinklistResumeAll(pend), pend' = <<>>
  PROVE  /\ Granted' = Granted /\ SemListInv'
         /\ exstatus' \in [Task -> Status] /\ delayed' \subseteq Task
<1>1. /\ delayed' = delayed \ Range(pend)
      /\ exstatus' = [u \in Task |-> IF u \in Range(pend) THEN "ERROR" ELSE exstatus[u]]
  BY DEF LinklistResumeAll, Woken
<1>2. Granted' = Granted
  BY <1>1, SemFacts, EmptyElements DEF Granted, Working
<1>3. SemListInv'
  BY <1>1, EmptyElements DEF SemInv, SemListInv
<1> QED BY <1>1, <1>2, <1>3, SemFacts DEF Status

LEMMA SemSetValueInv ==
  ASSUME SemDisciplined, SemInv, NEW t \in Task, NEW val \in Values, SemaphoreSetValue(t, val)
  PROVE  SemInv'
<1>1. pc[t] = "set" /\ pc' = [pc EXCEPT ![t] = "idle"] /\ UNCHANGED <<alive, ticks>>
  BY DEF SemaphoreSetValue
<1>2. Abandoners' = Abandoners
  BY <1>1, SemFacts DEF Abandoners
<1>3. SemCallInv'
  BY <1>1, SemFacts DEF SemInv, SemCallInv, Working
<1>4. pc' \in [Task -> SemPlaces] /\ pc' \in [Task -> Places]
  BY <1>1, SemFacts, SemPlacesArePlaces DEF SemPlaces
<1>5. CASE value = val
  <2>1. UNCHANGED <<value, pend, exstatus, delayed, balance>>
    BY <1>5 DEF SemaphoreSetValue
  <2>2. Granted' = Granted
    BY <1>1, <2>1, SemFacts DEF Granted
  <2>3. SemTypeOK'
    BY <1>1, <1>4, <2>1, SemFacts DEF SemTypeOK
  <2>4. SemListInv'
    BY <1>1, <2>1, SemFacts DEF SemInv, SemListInv
  <2>5. SemRoomInv' /\ PermitsConserved' /\ NoWaiterWithPermit'
    BY <1>1, <1>2, <2>1, <2>2 DEF SemInv, SemRoomInv, PermitsConserved, NoWaiterWithPermit
  <2> QED BY <1>3, <1>4, <2>3, <2>4, <2>5 DEF SemInv
<1>6. CASE value # val
  <2>1. /\ LinklistResumeAll(pend) /\ pend' = <<>> /\ value' = val
        /\ balance' = val + Cardinality(Granted)
    BY <1>6 DEF SemaphoreSetValue
  <2>2. /\ Granted' = Granted /\ SemListInv'
        /\ exstatus' \in [Task -> Status] /\ delayed' \subseteq Task
    BY <1>1, <2>1, ResumeAllKeepsGranted DEF Working
  <2>3. val \in 0 .. ValMod - 1 /\ val + Cardinality(Task) < ValMod
    BY SemaphoreAssumption DEF SemDisciplined
  <2>4. SemTypeOK'
    BY <1>1, <1>4, <2>1, <2>2, <2>3, SemFacts, EmptyElements DEF SemTypeOK
  <2>5. SemRoomInv'
    <3>1. Granted \cap Abandoners = {} /\ Granted \cup Abandoners \subseteq Task
      BY DEF Granted, Abandoners
    <3>2. IsFiniteSet(Granted) /\ IsFiniteSet(Abandoners)
      BY PendAssumption, FS_Subset DEF Granted, Abandoners
    <3>3. Cardinality(Granted \cup Abandoners) =
             Cardinality(Granted) + Cardinality(Abandoners) - Cardinality(Granted \cap Abandoners)
      BY <3>2, FS_Union
    <3>4. Cardinality(Granted) + Cardinality(Abandoners) <= Cardinality(Task)
      <4>1. Cardinality(Granted \cap Abandoners) = 0
        BY <3>1, FS_EmptySet
      <4>2. Cardinality(Granted \cup Abandoners) <= Cardinality(Task)
        BY <3>1, TaskCount
      <4> QED BY <3>3, <4>1, <4>2, SemFacts
    <3>5. Cardinality(Task) \in Nat
      BY TaskCount
    <3> QED BY <1>2, <2>1, <2>3, <3>4, <3>5, SemFacts, SMTT(20) DEF SemRoomInv
  <2>6. PermitsConserved' /\ NoWaiterWithPermit'
    BY <2>1, <2>2 DEF PermitsConserved, NoWaiterWithPermit
  <2> QED BY <1>3, <1>4, <2>2, <2>4, <2>5, <2>6 DEF SemInv
<1> QED BY <1>5, <1>6

LEMMA SemDeleteInv ==
  ASSUME SemDisciplined, SemInv, NEW t \in Task, SemaphoreDelete(t)
  PROVE  SemInv'
<1>1. /\ pc[t] = "delete" /\ LinklistResumeAll(pend) /\ pend' = <<>>
      /\ alive' = FALSE /\ value' = 0 /\ balance' = Cardinality(Granted)
      /\ pc' = [pc EXCEPT ![t] = "idle"] /\ ticks' = ticks
  BY DEF SemaphoreDelete
<1>2. /\ Granted' = Granted /\ SemListInv'
      /\ exstatus' \in [Task -> Status] /\ delayed' \subseteq Task
  BY <1>1, ResumeAllKeepsGranted DEF Working
<1>3. \A u \in Task : pc'[u] \notin Working
  BY <1>1, SemFacts DEF SemInv, SemCallInv, Working
<1>4. pc' \in [Task -> SemPlaces] /\ pc' \in [Task -> Places]
  BY <1>1, SemFacts, SemPlacesArePlaces DEF SemPlaces
<1>5. SemTypeOK'
  <2>1. pend' \in Seq(Task)
    BY <1>1, EmptyElements
  <2>2. value' \in 0 .. ValMod - 1 /\ balance' \in Int /\ ticks' \in [Task -> Nat]
    BY <1>1, SemFacts
  <2> QED BY <1>1, <1>2, <1>4, <2>1, <2>2 DEF SemTypeOK
<1>6. SemCallInv'
  BY <1>3 DEF SemCallInv, Working
<1>7. SemRoomInv'
  <2>1. Abandoners' = {}
    BY <1>3 DEF Abandoners, Working
  <2>2. Cardinality(Abandoners') = 0
    BY <2>1, FS_EmptySet
  <2>3. Cardinality(Granted) <= Cardinality(Task) /\ Cardinality(Task) \in Nat
    BY SemFacts, TaskCount
  <2> QED BY <1>1, <2>2, <2>3, SemFacts, SemaphoreAssumption DEF SemRoomInv, SemDisciplined
<1>8. PermitsConserved' /\ NoWaiterWithPermit'
  BY <1>1, <1>2, SemFacts DEF PermitsConserved, NoWaiterWithPermit
<1> QED BY <1>2, <1>4, <1>5, <1>6, <1>7, <1>8 DEF SemInv

LEMMA SemTimeoutInv ==
  ASSUME SemInv, NEW t \in Task, SemaphoreTimeout(t)
  PROVE  SemInv'
<1>1. /\ t \in delayed /\ delayed' = delayed \ {t}
      /\ exstatus' = [exstatus EXCEPT ![t] = "ETIMEOUT"] /\ pend' = RmNode(pend, t)
      /\ UNCHANGED <<alive, value, pc, ticks, balance>>
  BY DEF SemaphoreTimeout, TimedOut
<1>2. /\ pend' \in Seq(Task) /\ IsInjective(pend') /\ Range(pend') = Range(pend) \ {t}
  BY <1>1, SemFacts, RmNodeElements DEF SemInv, SemListInv
<1>3. t \in Range(pend)
  BY <1>1 DEF SemInv, SemListInv
<1>4. Granted' = Granted /\ Abandoners' = Abandoners
  <2>1. exstatus'[t] # "EOK" /\ t \notin Granted
    BY <1>1, <1>3, SemFacts DEF Granted
  <2>2. \A u \in Task : u # t => exstatus'[u] = exstatus[u]
    BY <1>1, SemFacts
  <2> QED BY <1>1, <1>2, <2>1, <2>2 DEF Granted, Abandoners
<1>5. SemTypeOK' /\ pc' \in [Task -> SemPlaces]
  BY <1>1, <1>2, SemFacts DEF SemTypeOK, SemInv, Status
<1>6. SemListInv' /\ SemCallInv'
  BY <1>1, <1>2, SemFacts DEF SemInv, SemListInv, SemCallInv
<1>7. SemRoomInv' /\ PermitsConserved' /\ NoWaiterWithPermit'
  <2>1. pend # <<>>
    BY <1>3, EmptyElements
  <2> QED BY <1>1, <1>4, <2>1 DEF SemInv, SemRoomInv, PermitsConserved, NoWaiterWithPermit
<1> QED BY <1>5, <1>6, <1>7 DEF SemInv

(* Every step of a semaphore's users preserves the invariant. *)
LEMMA SemNextInv ==
  ASSUME SemDisciplined, SemInv, [SemNext]_<<semVars, pendVars>>
  PROVE  SemInv'
<1>1. CASE UNCHANGED <<semVars, pendVars>>
  BY <1>1 DEF semVars, pendVars, SemInv, SemTypeOK, SemListInv, SemCallInv, SemRoomInv,
              PermitsConserved, NoWaiterWithPermit, Granted, Abandoners
<1>2. CASE SemNext
  BY <1>2, SemCreateInv, SemSetValueInv, SemIdGetObjInv, SemObtainInv, SemReturnInv,
     SemAbandonInv, SemDeleteInv, SemTimeoutInv, SemIsrInv DEF SemNext
<1> QED BY <1>1, <1>2

LEMMA SemInitInv == SemDisciplined /\ SemInit => SemInv
<1> SUFFICES ASSUME SemDisciplined, SemInit PROVE SemInv
  OBVIOUS
<1>1. /\ alive = FALSE /\ value = 0 /\ pend = <<>> /\ balance = 0
      /\ ticks = [t \in Task |-> 0] /\ pc = [t \in Task |-> "idle"]
      /\ exstatus = [t \in Task |-> "EOK"] /\ delayed = {}
  BY DEF SemInit, PendInit
<1>2. ValMod \in Nat /\ ValMod > 0
  BY SemaphoreAssumption
<1>3. Granted = {} /\ Abandoners = {}
  BY <1>1 DEF Granted, Abandoners
<1>4. SemTypeOK /\ pc \in [Task -> SemPlaces]
  <2>1. pend \in Seq(Task)
    BY <1>1, EmptyElements
  <2>2. alive \in BOOLEAN /\ delayed \subseteq Task
    BY <1>1
  <2>3. value \in 0 .. ValMod - 1 /\ balance \in Int /\ ticks \in [Task -> Nat]
    BY <1>1, <1>2
  <2>4. /\ pc \in [Task -> SemPlaces] /\ pc \in [Task -> Places]
        /\ exstatus \in [Task -> Status]
    BY <1>1 DEF SemPlaces, Places, Status
  <2> QED BY <2>1, <2>2, <2>3, <2>4 DEF SemTypeOK
<1>5. SemListInv /\ SemCallInv
  BY <1>1, EmptyElements DEF SemListInv, SemCallInv, Working
<1>6. SemRoomInv /\ PermitsConserved /\ NoWaiterWithPermit
  BY <1>1, <1>2, <1>3, FS_EmptySet DEF SemRoomInv, PermitsConserved, NoWaiterWithPermit
<1> QED BY <1>4, <1>5, <1>6 DEF SemInv

-----------------------------------------------------------------------------
(* Gather blocks. *)

GatherPlaces == {"idle", "block_wait", "gather_test", "gather_wake"}
InDelete(t)  == pc[t] \in {"gather_test", "gather_wake"}

(* The list holds the tasks that wait, each once, with its delay running. *)
GatherListInv ==
    /\ IsInjective(wait_task) /\ delayed = Range(wait_task)
    /\ \A t \in Range(wait_task) : pc[t] = "block_wait" /\ exstatus[t] = "EOK"

(* A delete is alone with the pool, and nobody comes to a pool that is     *)
(* being deleted or is gone.                                               *)
GatherDeleteInv ==
    /\ \A t \in Task : InDelete(t) =>
          glive /\ Coming = {} /\ \A u \in Task \ {t} : ~InDelete(u)
    /\ ~glive => /\ wait_task = <<>> /\ Coming = {} /\ block_link = <<>>
                 /\ \A t \in Task : owned[t] = {}

GatherInv ==
    /\ GatherTypeOK /\ pc \in [Task -> GatherPlaces]
    /\ GatherListInv /\ GatherDeleteInv /\ BlocksConserved /\ NoSleeperBesideBlock

(* The facts every step starts from. *)
LEMMA GatherFacts ==
  ASSUME GatherInv
  PROVE  /\ wait_task \in Seq(Task) /\ pc \in [Task -> GatherPlaces]
         /\ exstatus \in [Task -> Status] /\ wait_time \in [Task -> Nat]
         /\ owned \in [Task -> SUBSET Block] /\ block_link \in Seq(Block)
         /\ glive \in BOOLEAN /\ delayed \subseteq Task /\ Range(wait_task) \subseteq Task
         /\ Coming \subseteq Task /\ Cardinality(Coming) \in Nat
         /\ IsFiniteSet(Block) /\ Cardinality(Block) \in Nat
         /\ block_free_number \in Nat /\ block_free_number = Len(block_link)
<1>1. Coming \subseteq Task
  BY DEF Coming
<1>2. Cardinality(Coming) \in Nat /\ IsFiniteSet(Block) /\ Cardinality(Block) \in Nat
  BY <1>1, TaskCount, GatherAssumption, FS_CardinalityType
<1> QED BY <1>1, <1>2 DEF GatherInv, GatherTypeOK, BlocksConserved, Range

LEMMA GatherPlacesArePlaces == GatherPlaces \subseteq Places
  BY DEF GatherPlaces, Places

(* The blocks of the chain and the owners, when nothing happens to them. *)
LEMMA BlocksKept ==
  ASSUME GatherInv, UNCHANGED <<block_free_number, block_link, owned, glive>>
  PROVE  BlocksConserved'
  BY DEF GatherInv, BlocksConserved

LEMMA GatherCreateInv ==
  ASSUME GatherInv, NEW t \in Task, CreateMemGather(t)
  PROVE  GatherInv'
<1>1. /\ ~glive /\ glive' = TRUE /\ block_free_number' = Cardinality(Block)
      /\ block_link' = SetToSeq(Block)
      /\ UNCHANGED <<wait_task, wait_time, owned, exstatus, delayed, pc>>
  BY DEF CreateMemGather, pendVars
<1>2. /\ wait_task = <<>> /\ Coming = {} /\ \A u \in Task : owned[u] = {} /\ ~InDelete(u)
  BY <1>1 DEF GatherInv, GatherDeleteInv
<1>3. /\ block_link' \in Seq(Block) /\ IsInjective(block_link')
      /\ Range(block_link') = Block /\ Len(block_link') = Cardinality(Block)
  BY <1>1, SetToSeqElements, GatherFacts
<1>4. GatherTypeOK' /\ pc' \in [Task -> GatherPlaces]
  <2>1. block_free_number' \in 0 .. Cardinality(Block) /\ glive' \in BOOLEAN
    BY <1>1, GatherFacts
  <2> QED BY <1>1, <1>3, <2>1 DEF GatherInv, GatherTypeOK
<1>5. GatherListInv'
  BY <1>1 DEF GatherInv, GatherListInv
<1>6. GatherDeleteInv'
  BY <1>1, <1>2 DEF GatherDeleteInv, InDelete
<1>7. BlocksConserved'
  <2>1. UNION Range(owned) = {}
    BY <1>2, GatherFacts DEF Range
  <2> QED BY <1>1, <1>2, <1>3, <2>1 DEF BlocksConserved
<1>8. NoSleeperBesideBlock'
  BY <1>1, <1>2 DEF NoSleeperBesideBlock
<1> QED BY <1>4, <1>5, <1>6, <1>7, <1>8 DEF GatherInv

(* A task takes a block, fails or waits: it is on no list, the pool is     *)
(* there and nobody deletes it.                                            *)
LEMMA TakeInv ==
  ASSUME GatherInv, NEW t \in Task, NEW left \in Nat, Take(t, left),
         pc[t] = "idle" \/ t \in Coming, glive, glive' = glive, ~Deleting
  PROVE  GatherInv'
<1>1. /\ t \notin Range(wait_task) /\ t \notin delayed /\ pc[t] \in {"idle", "block_wait"}
      /\ pc[t] = "idle" => t \notin Coming
  BY DEF GatherInv, GatherListInv, Coming
<1>2. \A u \in Task : ~InDelete(u)
  BY DEF Deleting, InDelete
<1>3. CASE block_free_number # 0
  <2> DEFINE h == Head(block_link)
  <2>1. /\ block_free_number' = block_free_number - 1 /\ block_link' = Tail(block_link)
        /\ owned' = [owned EXCEPT ![t] = @ \cup {h}]
        /\ wait_time' = [wait_time EXCEPT ![t] = 0] /\ pc' = [pc EXCEPT ![t] = "idle"]
        /\ UNCHANGED <<wait_task, exstatus, delayed>>
    BY <1>3 DEF Take
  <2>2. block_link # <<>> /\ IsInjective(block_link)
    BY <1>3, GatherFacts DEF GatherInv, BlocksConserved
  <2>3. /\ h \in Range(block_link) /\ Tail(block_link) \in Seq(Block)
        /\ IsInjective(Tail(block_link)) /\ Range(Tail(block_link)) = Range(block_link) \ {h}
        /\ Len(Tail(block_link)) = Len(block_link) - 1
    BY <2>2, GatherFacts, TailElements
  <2> HIDE DEF h
  <2>4. h \in Block /\ \A u \in Task : h \notin owned[u]
    <3>1. Range(block_link) = Block \ UNION Range(owned)
      BY DEF GatherInv, BlocksConserved
    <3> QED BY <2>3, <3>1, GatherFacts DEF Range
  <2>5. Coming' = Coming \ {t}
    BY <2>1, GatherFacts DEF Coming
  <2>6. GatherTypeOK' /\ pc' \in [Task -> GatherPlaces]
    <3>1. block_free_number' \in 0 .. Cardinality(Block)
      BY <1>3, <2>1, GatherFacts DEF GatherInv, GatherTypeOK
    <3> QED BY <2>1, <2>3, <2>4, <3>1, GatherFacts
            DEF GatherInv, GatherTypeOK, GatherPlaces, Places
  <2>7. GatherListInv'
    BY <1>1, <2>1, GatherFacts DEF GatherInv, GatherListInv
  <2>8. GatherDeleteInv'
    BY <1>2, <2>1, GatherFacts DEF GatherDeleteInv, InDelete
  <2>9. BlocksConserved'
    <3>1. \A u \in Task : owned'[u] = IF u = t THEN owned[u] \cup {h} ELSE owned[u]
      BY <2>1, GatherFacts
    <3>2. \A u, v \in Task : u # v => owned'[u] \cap owned'[v] = {}
      BY <2>4, <3>1, ZenonT(40) DEF GatherInv, BlocksConserved
    <3>3. DOMAIN owned = Task /\ DOMAIN owned' = Task
      BY <2>1, GatherFacts
    <3>4. UNION Range(owned') = (UNION Range(owned)) \cup {h}
      BY <3>1, <3>3 DEF Range
    <3>5. Range(block_link') = Block \ UNION Range(owned')
      BY <2>1, <2>3, <3>4 DEF GatherInv, BlocksConserved
    <3> QED BY <2>1, <2>3, <3>2, <3>5, GatherFacts DEF BlocksConserved
  <2>10. NoSleeperBesideBlock'
    <3> SUFFICES ASSUME wait_task # <<>>
                 PROVE  block_free_number' <= Cardinality(Coming')
      BY <2>1 DEF NoSleeperBesideBlock
    <3>1. block_free_number <= Cardinality(Coming)
      BY DEF GatherInv, NoSleeperBesideBlock
    <3>2. Cardinality(Coming') \in {Cardinality(Coming), Cardinality(Coming) - 1}
      <4>1. CASE t \in Coming
        BY <2>5, <4>1, TaskCount, GatherFacts
      <4>2. CASE t \notin Coming
        <5>1. Coming' = Coming
          BY <2>5, <4>2
        <5> QED BY <5>1
      <4> QED BY <4>1, <4>2
    <3> QED BY <2>1, <3>1, <3>2, GatherFacts
  <2> QED BY <2>6, <2>7, <2>8, <2>9, <2>10 DEF GatherInv
<1>4. CASE block_free_number = 0 /\ left = 0
  <2>1. /\ exstatus' = [exstatus EXCEPT ![t] = "ETIMEOUT"]
        /\ wait_time' = [wait_time EXCEPT ![t] = 0] /\ pc' = [pc EXCEPT ![t] = "idle"]
        /\ UNCHANGED <<block_free_number, block_link, owned, wait_task, delayed>>
    BY <1>4 DEF Take
  <2>2. Cardinality(Coming') \in Nat
    BY TaskCount DEF Coming
  <2>3. GatherTypeOK' /\ pc' \in [Task -> GatherPlaces]
    BY <2>1, GatherFacts DEF GatherInv, GatherTypeOK, GatherPlaces, Places, Status
  <2>4. GatherListInv'
    BY <1>1, <2>1, GatherFacts DEF GatherInv, GatherListInv
  <2>5. GatherDeleteInv'
    BY <1>2, <2>1, GatherFacts DEF GatherDeleteInv, InDelete
  <2>6. NoSleeperBesideBlock'
    BY <1>4, <2>1, <2>2 DEF NoSleeperBesideBlock
  <2> QED BY <2>1, <2>3, <2>4, <2>5, <2>6, BlocksKept DEF GatherInv
<1>5. CASE block_free_number = 0 /\ left # 0
  <2> DEFINE w == <<t>> \o wait_task
  <2>1. /\ exstatus' = [exstatus EXCEPT ![t] = "EOK"] /\ wait_task' = w
        /\ wait_time' = [wait_time EXCEPT ![t] = left] /\ delayed' = delayed \cup {t}
        /\ pc' = [pc EXCEPT ![t] = "block_wait"]
        /\ UNCHANGED <<block_free_number, block_link, owned>>
    BY <1>5 DEF Take, StartDelay
  <2>2. w \in Seq(Task) /\ IsInjective(w) /\ Range(w) = Range(wait_task) \cup {t}
    BY <1>1, GatherFacts, ConsElements DEF GatherInv, GatherListInv
  <2> HIDE DEF w
  <2>3. Cardinality(Coming') \in Nat
    BY TaskCount DEF Coming
  <2>4. GatherTypeOK' /\ pc' \in [Task -> GatherPlaces]
    BY <2>1, <2>2, GatherFacts DEF GatherInv, GatherTypeOK, GatherPlaces, Places, Status
  <2>5. GatherListInv'
    BY <1>1, <2>1, <2>2, GatherFacts DEF GatherInv, GatherListInv
  <2>6. GatherDeleteInv'
    BY <1>2, <2>1, GatherFacts DEF GatherDeleteInv, InDelete
  <2>7. NoSleeperBesideBlock'
    BY <1>5, <2>1, <2>3 DEF NoSleeperBesideBlock
  <2> QED BY <2>1, <2>4, <2>5, <2>6, <2>7, BlocksKept DEF GatherInv
<1> QED BY <1>3, <1>4, <1>5

LEMMA GatherGiveUpInv ==
  ASSUME GatherInv, NEW t \in Task, AllocGiveUp(t)
  PROVE  GatherInv'
<1>1. /\ pc[t] = "block_wait" /\ t \notin Range(wait_task) /\ exstatus[t] # "EOK"
      /\ wait_time' = [wait_time EXCEPT ![t] = 0] /\ pc' = [pc EXCEPT ![t] = "idle"]
      /\ UNCHANGED <<glive, block_free_number, block_link, wait_task, owned, exstatus, delayed>>
  BY DEF AllocGiveUp
<1>2. Coming' = Coming
  BY <1>1, GatherFacts DEF Coming
<1>3. GatherTypeOK' /\ pc' \in [Task -> GatherPlaces]
  BY <1>1, GatherFacts DEF GatherInv, GatherTypeOK, GatherPlaces, Places
<1>4. GatherListInv'
  BY <1>1, GatherFacts DEF GatherInv, GatherListInv
<1>5. GatherDeleteInv'
  BY <1>1, <1>2, GatherFacts DEF GatherInv, GatherDeleteInv, InDelete
<1>6. NoSleeperBesideBlock'
  BY <1>1, <1>2 DEF GatherInv, NoSleeperBesideBlock
<1> QED BY <1>1, <1>3, <1>4, <1>5, <1>6, BlocksKept DEF GatherInv

LEMMA GatherFreeInv ==
  ASSUME GatherInv, NEW t \in Task, NEW b \in Block, FreeBlockMemGather(t, b)
  PROVE  GatherInv'
<1> DEFINE w == <<b>> \o block_link
<1>1. /\ b \in owned[t] /\ glive /\ ~Deleting /\ block_free_number' = block_free_number + 1
      /\ block_link' = w /\ owned' = [owned EXCEPT ![t] = @ \ {b}]
      /\ UNCHANGED <<glive, wait_time, pc>>
  BY DEF FreeBlockMemGather
<1>2. Range(block_link) = Block \ UNION Range(owned) /\ b \notin Range(block_link)
  <2>1. Range(block_link) = Block \ UNION Range(owned)
    BY <1>1 DEF GatherInv, BlocksConserved
  <2>2. b \in UNION Range(owned)
    BY <1>1, GatherFacts DEF Range
  <2> QED BY <2>1, <2>2
<1>3. /\ w \in Seq(Block) /\ Range(w) = {b} \cup Range(block_link) /\ IsInjective(w)
      /\ Len(w) = Len(block_link) + 1
  <2>1. Len(w) = Len(block_link) + 1
    BY GatherFacts
  <2> QED BY <1>2, <2>1, GatherFacts, ConsElements DEF GatherInv, BlocksConserved
<1> HIDE DEF w
<1>4. BlocksConserved'
  <2>1. \A u \in Task : owned'[u] = IF u = t THEN owned[u] \ {b} ELSE owned[u]
    BY <1>1, GatherFacts
  <2>2. \A u, v \in Task : u # v => owned[u] \cap owned[v] = {}
    BY DEF GatherInv, BlocksConserved
  <2>3. \A u, v \in Task : u # v => owned'[u] \cap owned'[v] = {}
    BY <2>1, <2>2
  <2>4. DOMAIN owned = Task /\ DOMAIN owned' = Task
    BY <1>1, GatherFacts
  <2>5. UNION Range(owned') = (UNION Range(owned)) \ {b}
    BY <1>1, <2>1, <2>2, <2>4 DEF Range
  <2>6. Range(block_link') = Block \ UNION Range(owned')
    BY <1>1, <1>2, <1>3, <2>5
  <2> QED BY <1>1, <1>3, <2>3, <2>6, GatherFacts DEF BlocksConserved
<1>5. block_free_number' \in 0 .. Cardinality(Block)
  <2>1. Len(w) <= Cardinality(Block)
    BY <1>3, InjectiveLen, GatherFacts
  <2> QED BY <1>1, <1>3, <2>1, GatherFacts
<1>6. block_link' \in Seq(Block) /\ owned' \in [Task -> SUBSET Block] /\ pc' \in [Task -> Places]
  BY <1>1, <1>3, GatherFacts, GatherPlacesArePlaces
<1>7. \A u \in Task : ~InDelete(u)
  BY <1>1 DEF Deleting, InDelete
<1>8. GatherDeleteInv'
  BY <1>1, <1>7 DEF GatherDeleteInv, InDelete
<1>9. CASE wait_task # <<>>
  <2> DEFINE h == Head(wait_task)
  <2>1. /\ wait_task' = Tail(wait_task) /\ exstatus' = [exstatus EXCEPT ![h] = "EOK"]
        /\ delayed' = delayed \ {h}
    BY <1>9 DEF FreeBlockMemGather, Woken
  <2>2. /\ h \in Range(wait_task) /\ Tail(wait_task) \in Seq(Task)
        /\ IsInjective(Tail(wait_task)) /\ Range(Tail(wait_task)) = Range(wait_task) \ {h}
    BY <1>9, GatherFacts, TailElements DEF GatherInv, GatherListInv
  <2> HIDE DEF h
  <2>3. h \in Task /\ pc[h] = "block_wait" /\ exstatus[h] = "EOK"
    BY <2>2, GatherFacts DEF GatherInv, GatherListInv
  <2>4. exstatus' = exstatus
    BY <2>1, <2>3, GatherFacts
  <2>5. Coming' = Coming \cup {h} /\ h \notin Coming
    BY <1>1, <2>1, <2>2, <2>3, <2>4 DEF Coming
  <2>6. Cardinality(Coming') = Cardinality(Coming) + 1
    BY <2>5, TaskCount, GatherFacts
  <2>7. GatherTypeOK' /\ pc' \in [Task -> GatherPlaces]
    BY <1>1, <1>5, <1>6, <2>1, <2>2, <2>4, GatherFacts DEF GatherTypeOK
  <2>8. GatherListInv'
    BY <1>1, <2>1, <2>2, <2>4 DEF GatherInv, GatherListInv
  <2>9. NoSleeperBesideBlock'
    BY <1>1, <1>9, <2>6, GatherFacts DEF GatherInv, NoSleeperBesideBlock
  <2> QED BY <1>4, <1>8, <2>7, <2>8, <2>9 DEF GatherInv
<1>10. CASE wait_task = <<>>
  <2>1. UNCHANGED <<wait_task, exstatus, delayed>>
    BY <1>10 DEF FreeBlockMemGather
  <2>2. GatherTypeOK' /\ pc' \in [Task -> GatherPlaces]
    BY <1>1, <1>5, <1>6, <2>1, GatherFacts DEF GatherTypeOK
  <2>3. GatherListInv' /\ NoSleeperBesideBlock'
    BY <1>1, <1>10, <2>1 DEF GatherInv, GatherListInv, NoSleeperBesideBlock
  <2> QED BY <1>4, <1>8, <2>2, <2>3 DEF GatherInv
<1> QED BY <1>9, <1>10

(* The steps of a delete. *)
LEMMA GatherDeleteStepInv ==
  ASSUME GatherInv, NEW t \in Task, DeleteStart(t) \/ DeleteTest(t)
  PROVE  GatherInv'
<1>1. /\ \/ pc[t] = "idle" /\ glive /\ ~Deleting /\ Coming = {}
         \/ pc[t] = "gather_test"
      /\ pc' = [pc EXCEPT ![t] = "gather_test"] \/ pc' = [pc EXCEPT ![t] = "gather_wake"]
      /\ UNCHANGED <<glive, block_free_number, block_link, wait_task, wait_time, owned,
                     exstatus, delayed>>
  BY DEF DeleteStart, DeleteTest, gatherVars
<1>2. /\ pc[t] \in {"idle", "gather_test"} /\ glive /\ Coming = {}
      /\ \A u \in Task \ {t} : ~InDelete(u)
  BY <1>1 DEF GatherInv, GatherDeleteInv, InDelete, Deleting
<1>3. /\ pc' \in [Task -> GatherPlaces] /\ pc' \in [Task -> Places]
      /\ \A u \in Task \ {t} : pc'[u] = pc[u]
      /\ pc'[t] \in {"gather_test", "gather_wake"}
  BY <1>1, GatherFacts DEF GatherPlaces, Places
<1>4. Coming' = {}
  BY <1>1, <1>2, <1>3 DEF Coming
<1>5. GatherTypeOK'
  BY <1>1, <1>3 DEF GatherInv, GatherTypeOK
<1>6. GatherListInv'
  BY <1>1, <1>2, <1>3, GatherFacts DEF GatherInv, GatherListInv
<1>7. GatherDeleteInv'
  BY <1>1, <1>2, <1>3, <1>4 DEF GatherDeleteInv, InDelete
<1>8. NoSleeperBesideBlock'
  BY <1>1, <1>2, <1>4 DEF GatherInv, NoSleeperBesideBlock
<1> QED BY <1>1, <1>3, <1>5, <1>6, <1>7, <1>8, BlocksKept DEF GatherInv

LEMMA GatherDeleteWakeInv ==
  ASSUME GatherInv, NEW t \in Task, DeleteWake(t)
  PROVE  GatherInv'
<1> DEFINE h == Head(wait_task)
<1>1. /\ pc[t] = "gather_wake" /\ wait_task # <<>> /\ wait_task' = Tail(wait_task)
      /\ exstatus' = [exstatus EXCEPT ![h] = "ERROR"] /\ delayed' = delayed \ {h}
      /\ pc' = [pc EXCEPT ![t] = "gather_test"]
      /\ UNCHANGED <<glive, block_free_number, block_link, wait_time, owned>>
  BY DEF DeleteWake, Woken
<1>2. /\ h \in Range(wait_task) /\ Tail(wait_task) \in Seq(Task)
      /\ IsInjective(Tail(wait_task)) /\ Range(Tail(wait_task)) = Range(wait_task) \ {h}
  BY <1>1, GatherFacts, TailElements DEF GatherInv, GatherListInv
<1> HIDE DEF h
<1>3. h \in Task /\ pc[h] = "block_wait" /\ exstatus[h] = "EOK" /\ h # t
  BY <1>1, <1>2, GatherFacts DEF GatherInv, GatherListInv
<1>4. glive /\ Coming = {} /\ \A u \in Task \ {t} : ~InDelete(u)
  BY <1>1 DEF GatherInv, GatherDeleteInv, InDelete
<1>5. Coming' = {}
  <2>1. exstatus'[h] # "EOK" /\ \A u \in Task : u # h => exstatus'[u] = exstatus[u]
    BY <1>1, <1>3, GatherFacts
  <2>2. \A u \in Task : pc'[u] = "block_wait" => pc[u] = "block_wait"
    BY <1>1, GatherFacts
  <2> QED BY <1>1, <1>2, <1>4, <2>1, <2>2 DEF Coming
<1>6. GatherTypeOK' /\ pc' \in [Task -> GatherPlaces]
  BY <1>1, <1>2, <1>3, GatherFacts DEF GatherInv, GatherTypeOK, GatherPlaces, Places, Status
<1>7. GatherListInv'
  BY <1>1, <1>2, <1>3, GatherFacts DEF GatherInv, GatherListInv
<1>8. GatherDeleteInv'
  BY <1>1, <1>4, <1>5, GatherFacts DEF GatherDeleteInv, InDelete
<1>9. NoSleeperBesideBlock'
  BY <1>1, <1>4, <1>5 DEF GatherInv, NoSleeperBesideBlock
<1> QED BY <1>1, <1>6, <1>7, <1>8, <1>9, BlocksKept DEF GatherInv

LEMMA GatherDeleteEndInv ==
  ASSUME GatherInv, NEW t \in Task, DeleteEnd(t)
  PROVE  GatherInv'
<1>1. /\ pc[t] = "gather_test" /\ wait_task = <<>> /\ glive' = FALSE
      /\ block_free_number' = 0 /\ block_link' = <<>> /\ owned' = [u \in Task |-> {}]
      /\ pc' = [pc EXCEPT ![t] = "idle"]
      /\ UNCHANGED <<wait_task, wait_time, exstatus, delayed>>
  BY DEF DeleteEnd
<1>2. Coming = {} /\ \A u \in Task \ {t} : ~InDelete(u)
  BY <1>1 DEF GatherInv, GatherDeleteInv, InDelete
<1>3. Coming' = {}
  BY <1>1, <1>2, GatherFacts DEF Coming
<1>4. block_link' \in Seq(Block) /\ IsInjective(block_link') /\ Len(block_link') = 0
  BY <1>1, EmptyElements
<1>5. pc' \in [Task -> GatherPlaces] /\ pc' \in [Task -> Places]
  BY <1>1, GatherFacts DEF GatherPlaces, Places
<1>6. GatherTypeOK'
  <2>1. block_free_number' \in 0 .. Cardinality(Block) /\ owned' \in [Task -> SUBSET Block]
    BY <1>1, GatherFacts
  <2>2. glive' \in BOOLEAN
    BY <1>1
  <2> QED BY <1>1, <1>4, <1>5, <2>1, <2>2 DEF GatherInv, GatherTypeOK
<1>7. GatherListInv'
  BY <1>1, EmptyElements DEF GatherInv, GatherListInv
<1>8. GatherDeleteInv'
  BY <1>1, <1>2, <1>3, GatherFacts DEF GatherDeleteInv, InDelete
<1>9. BlocksConserved' /\ NoSleeperBesideBlock'
  BY <1>1, <1>4 DEF BlocksConserved, NoSleeperBesideBlock
<1> QED BY <1>5, <1>6, <1>7, <1>8, <1>9 DEF GatherInv

LEMMA GatherTimeoutInv ==
  ASSUME GatherInv, NEW t \in Task, GatherTimeout(t)
  PROVE  GatherInv'
<1>1. /\ t \in delayed /\ delayed' = delayed \ {t}
      /\ exstatus' = [exstatus EXCEPT ![t] = "ETIMEOUT"] /\ wait_task' = RmNode(wait_task, t)
      /\ UNCHANGED <<glive, block_free_number, block_link, wait_time, owned, pc>>
  BY DEF GatherTimeout, TimedOut
<1>2. /\ wait_task' \in Seq(Task) /\ IsInjective(wait_task')
      /\ Range(wait_task') = Range(wait_task) \ {t}
  BY <1>1, GatherFacts, RmNodeElements DEF GatherInv, GatherListInv
<1>3. t \in Range(wait_task) /\ wait_task # <<>>
  BY <1>1, EmptyElements DEF GatherInv, GatherListInv
<1>4. Coming' = Coming
  <2>1. exstatus'[t] # "EOK" /\ t \notin Coming
    BY <1>1, <1>3, GatherFacts DEF Coming
  <2>2. \A u \in Task : u # t => exstatus'[u] = exstatus[u]
    BY <1>1, GatherFacts
  <2> QED BY <1>1, <1>2, <2>1, <2>2 DEF Coming
<1>5. GatherTypeOK' /\ pc' \in [Task -> GatherPlaces]
  BY <1>1, <1>2, GatherFacts DEF GatherInv, GatherTypeOK, Status
<1>6. GatherListInv'
  BY <1>1, <1>2, GatherFacts DEF GatherInv, GatherListInv
<1>7. GatherDeleteInv'
  BY <1>1, <1>3, <1>4 DEF GatherInv, GatherDeleteInv, InDelete
<1>8. NoSleeperBesideBlock'
  BY <1>1, <1>3, <1>4 DEF GatherInv, NoSleeperBesideBlock
<1> QED BY <1>1, <1>5, <1>6, <1>7, <1>8, BlocksKept DEF GatherInv

(* Every step of a pool's users preserves the invariant. *)
LEMMA GatherNextInv ==
  ASSUME GatherInv, [GatherNext]_<<gatherVars, pendVars>>
  PROVE  GatherInv'
<1>1. CASE UNCHANGED <<gatherVars, pendVars>>
  BY <1>1 DEF gatherVars, pendVars, GatherInv, GatherTypeOK, GatherListInv, GatherDeleteInv,
              BlocksConserved, NoSleeperBesideBlock, Coming, InDelete
<1>2. ASSUME NEW t \in Task, NEW ms \in Msecs, AllocBlockMemGather(t, ms) PROVE GatherInv'
  <2>1. CalculteTickFromTimeMs(ms) \in Nat
    BY TicksPositive
  <2> QED BY <1>2, <2>1, TakeInv DEF AllocBlockMemGather
<1>3. ASSUME NEW t \in Task, AllocAgain(t) PROVE GatherInv'
  <2>1. PICK left \in 0 .. wait_time[t] : Take(t, left)
    BY <1>3 DEF AllocAgain
  <2>2. left \in Nat
    BY <2>1, GatherFacts
  <2>3. t \in Coming /\ glive' = glive
    BY <1>3 DEF AllocAgain
  <2>4. glive /\ ~Deleting
    BY <2>3 DEF GatherInv, GatherDeleteInv, Deleting, InDelete
  <2> QED BY <2>1, <2>2, <2>3, <2>4, TakeInv
<1>4. CASE GatherNext
  BY <1>2, <1>3, <1>4, GatherCreateInv, GatherGiveUpInv, GatherFreeInv, GatherDeleteStepInv,
     GatherDeleteWakeInv, GatherDeleteEndInv, GatherTimeoutInv DEF GatherNext
<1> QED BY <1>1, <1>4

LEMMA GatherInitInv == GatherInit => GatherInv
<1> SUFFICES ASSUME GatherInit PROVE GatherInv
  OBVIOUS
<1>1. /\ glive = FALSE /\ block_free_number = 0 /\ block_link = <<>> /\ wait_task = <<>>
      /\ wait_time = [t \in Task |-> 0] /\ owned = [t \in Task |-> {}]
      /\ pc = [t \in Task |-> "idle"] /\ exstatus = [t \in Task |-> "EOK"] /\ delayed = {}
  BY DEF GatherInit, PendInit
<1>2. Cardinality(Block) \in Nat
  BY GatherAssumption, FS_CardinalityType
<1>3. /\ block_link \in Seq(Block) /\ wait_task \in Seq(Task)
      /\ IsInjective(block_link) /\ Len(block_link) = 0
  BY <1>1, EmptyElements
<1>4. pc \in [Task -> GatherPlaces] /\ pc \in [Task -> Places] /\ exstatus \in [Task -> Status]
  BY <1>1 DEF GatherPlaces, Places, Status
<1>5. glive \in BOOLEAN /\ delayed \subseteq Task /\ block_free_number \in 0 .. Cardinality(Block)
  <2>1. glive \in BOOLEAN
    BY <1>1
  <2>2. block_free_number \in 0 .. Cardinality(Block)
    BY <1>1, <1>2
  <2> QED BY <1>1, <2>1, <2>2
<1>6. GatherTypeOK
  BY <1>1, <1>3, <1>4, <1>5 DEF GatherTypeOK
<1>7. GatherListInv
  BY <1>1, EmptyElements DEF GatherListInv
<1>8. Coming = {}
  BY <1>1 DEF Coming
<1>9. GatherDeleteInv /\ BlocksConserved /\ NoSleeperBesideBlock
  BY <1>1, <1>3, <1>8 DEF GatherDeleteInv, BlocksConserved, NoSleeperBesideBlock, InDelete
<1> QED BY <1>4, <1>6, <1>7, <1>9 DEF GatherInv

-----------------------------------------------------------------------------
(* Mutexes. *)

(* The condition under which mutexes exclude: a mutex is not deleted       *)
(* between its hand-off to a waiter and the waiter's return, no task       *)
(* starts to wait for it in the middle of the delete, and it is not        *)
(* deleted twice.  Without it a waiter is told that it has a freed mutex,  *)
(* or sleeps on the freed list.                                            *)
MutexDisciplined == ~MutexDeleteInUse

MutexPlaces == {"idle", "mutex_wait", "mutex_delete"}

(* A task is on no list but that of the mutex it waits for, where it is    *)
(* once, is not told anything yet and has its delay running.               *)
MutexListInv ==
    /\ \A m \in MutexId : IsInjective(mutex[m].pend_list)
    /\ \A m \in MutexId : \A t \in Range(mutex[m].pend_list) :
          pc[t] = "mutex_wait" /\ exstatus[t] = "EOK" /\ target[t] = m
    /\ \A t \in Task : t \in delayed <=> \E m \in MutexId : t \in Range(mutex[m].pend_list)
    /\ \A t \in Task : pc[t] = "mutex_wait" => target[t] \in MutexId

(* A mutex counts while it has a holder. *)
MutexHoldInv ==
    \A m \in MutexId : IF mutex[m].holder = NoTask THEN mutex[m].recursive_cnt = 0
                       ELSE mutex[m].recursive_cnt > 0 /\ mutex[m].alive

(* A mutex that was handed to a waiter was not the waiter's before. *)
MutexHandInv == \A m \in MutexId : \A t \in Handed(m) : times[t][m] = 0

(* What a task was told it has is remembered once. *)
MutexHeldInv ==
    \A t \in Task : /\ IsInjective(held[t])
                    /\ \A m \in MutexId : m \in Range(held[t]) <=> times[t][m] > 0
                    /\ \A m \in MutexId : times[t][m] <= MaxHeld

(* The priority that a mutex keeps for its holder is no lower than the     *)
(* holder's own, and it is that one in the first mutex of a task that has  *)
(* never given up a mutex before a later one.                              *)
MutexPrioInv ==
    /\ \A m \in MutexId, t \in Task :
          mutex[m].holder = t => mutex[m].origin_prio >= CurPrio[t]
    /\ \A t \in tidy : held[t] # <<>> => mutex[held[t][1]].origin_prio = CurPrio[t]
    /\ \A m \in MutexId : \A t \in tidy :
          held[t] = <<>> /\ t \in Handed(m) => mutex[m].origin_prio = CurPrio[t]

MutexInv ==
    /\ MutexTypeOK /\ pc \in [Task -> MutexPlaces]
    /\ MutexListInv /\ MutexHoldInv /\ MutexHandInv /\ MutexHeldInv
    /\ MutexPrioInv /\ MutualExclusion /\ NoWaiterOnFreeMutex /\ PriorityRestored

(* Whoever waited for a mutex that is being deleted was told an error. *)
MutexGoneInv ==
    \A t \in Task : pc[t] = "mutex_delete" =>
       /\ target[t] \in MutexId
       /\ \A u \in Task : pc[u] = "mutex_wait" /\ target[u] = target[t] => exstatus[u] # "EOK"

MutexRecord == [alive : BOOLEAN, val : 0 .. 1, holder : Task \cup {NoTask},
                origin_prio : Nat, recursive_cnt : 0 .. CntMod - 1, pend_list : Seq(Task)]

(* The facts every step starts from. *)
LEMMA MutexFacts ==
  ASSUME MutexInv
  PROVE  /\ mutex \in [MutexId -> MutexRecord] /\ pc \in [Task -> MutexPlaces]
         /\ cur_prio \in [Task -> Nat] /\ target \in [Task -> MutexId \cup {NoMutex}]
         /\ times \in [Task -> [MutexId -> Nat]] /\ held \in [Task -> Seq(MutexId)]
         /\ tidy \subseteq Task /\ exstatus \in [Task -> Status] /\ delayed \subseteq Task
         /\ \A m \in MutexId : /\ mutex[m].pend_list \in Seq(Task)
                               /\ Range(mutex[m].pend_list) \subseteq Task
                               /\ mutex[m].recursive_cnt \in 0 .. CntMod - 1
                               /\ mutex[m].val \in 0 .. 1 /\ mutex[m].origin_prio \in Nat
                               /\ mutex[m].holder \in Task \cup {NoTask}
         /\ CntMod \in Nat /\ MaxHeld \in Nat /\ MaxHeld > 0 /\ MaxHeld < CntMod
         /\ NoTask \notin Task /\ NoMutex \notin MutexId /\ CurPrio \in [Task -> Nat]
<1>1. mutex \in [MutexId -> MutexRecord]
  BY DEF MutexInv, MutexTypeOK, MutexRecord
<1>2. ASSUME NEW m \in MutexId
      PROVE  /\ mutex[m].pend_list \in Seq(Task)
             /\ mutex[m].recursive_cnt \in 0 .. CntMod - 1
             /\ mutex[m].val \in 0 .. 1 /\ mutex[m].origin_prio \in Nat
             /\ mutex[m].holder \in Task \cup {NoTask}
  BY <1>1 DEF MutexRecord
<1>3. \A m \in MutexId : Range(mutex[m].pend_list) \subseteq Task
  BY <1>2 DEF Range
<1> QED BY <1>1, <1>2, <1>3, MutexAssumption, PendAssumption DEF MutexInv, MutexTypeOK

(* Who has a mutex, from MutualExclusion: the tasks that hold nothing of   *)
(* it, the one it was handed to, and a task that is not in a call.         *)
LEMMA HolderFacts ==
  ASSUME MutexInv, NEW t \in Task, NEW m \in MutexId
  PROVE  /\ mutex[m].holder # t => times[t][m] = 0 /\ t \notin Handed(m)
         /\ t \in Handed(m) => mutex[m].holder = t /\ times[t][m] = mutex[m].recursive_cnt - 1
         /\ t \notin Handed(m) /\ mutex[m].holder = t => times[t][m] = mutex[m].recursive_cnt
         /\ pc[t] = "idle" => t \notin Handed(m)
         /\ \A n \in MutexId : t \in Range(mutex[n].pend_list) => t \notin Handed(m)
         /\ t \in Range(mutex[m].pend_list) => times[t][m] = 0 /\ mutex[m].holder # t
<1>1. times[t][m] + (IF t \in Handed(m) THEN 1 ELSE 0) =
          IF mutex[m].holder = t THEN mutex[m].recursive_cnt ELSE 0
  BY DEF MutexInv, MutualExclusion
<1>2. times[t][m] \in Nat /\ mutex[m].recursive_cnt \in Nat
  BY MutexFacts
<1>3. mutex[m].holder # t => times[t][m] = 0 /\ t \notin Handed(m)
  BY <1>1, <1>2
<1>4. t \in Handed(m) => mutex[m].holder = t /\ times[t][m] = mutex[m].recursive_cnt - 1
  BY <1>1, <1>2
<1>5. t \notin Handed(m) /\ mutex[m].holder = t => times[t][m] = mutex[m].recursive_cnt
  BY <1>1, <1>2
<1>6. pc[t] = "idle" => t \notin Handed(m)
  BY DEF Handed
<1>7. \A n \in MutexId : t \in Range(mutex[n].pend_list) => t \notin Handed(m)
  BY DEF Handed, MutexInv, MutexListInv
<1>8. t \in Range(mutex[m].pend_list) => times[t][m] = 0 /\ mutex[m].holder # t
  BY <1>3 DEF MutexInv, NoWaiterOnFreeMutex
<1> QED BY <1>3, <1>4, <1>5, <1>6, <1>7, <1>8

(* A mutex that is being deleted has no waiters, on its list or handed to. *)
LEMMA GoneFacts ==
  ASSUME MutexInv, MutexGoneInv, NEW t \in Task, pc[t] = "mutex_delete"
  PROVE  /\ target[t] \in MutexId /\ mutex[target[t]].pend_list = <<>>
         /\ Handed(target[t]) = {}
<1>1. target[t] \in MutexId
  BY DEF MutexGoneInv
<1>2. ASSUME NEW u \in Range(mutex[target[t]].pend_list) PROVE FALSE
  <2>1. u \in Task
    BY <1>1, MutexFacts
  <2>2. pc[u] = "mutex_wait" /\ exstatus[u] = "EOK" /\ target[u] = target[t]
    BY <1>1 DEF MutexInv, MutexListInv
  <2> QED BY <2>1, <2>2 DEF MutexGoneInv
<1>3. mutex[target[t]].pend_list \in Seq(Task)
  BY <1>1, MutexFacts
<1>4. mutex[target[t]].pend_list = <<>>
  BY <1>2, <1>3, EmptyElements
<1>5. Handed(target[t]) = {}
  BY <1>1 DEF Handed, MutexGoneInv
<1> QED BY <1>1, <1>4, <1>5

(* The history when a task is told that it has a mutex. *)
LEMMA GotHeld ==
  ASSUME MutexInv, NEW t \in Task, NEW m \in MutexId, Got(t, m), times[t][m] < MaxHeld
  PROVE  /\ times' \in [Task -> [MutexId -> Nat]] /\ held' \in [Task -> Seq(MutexId)]
         /\ tidy' = tidy /\ MutexHeldInv'
         /\ \A u \in Task, n \in MutexId :
               times'[u][n] = IF u = t /\ n = m THEN times[u][n] + 1 ELSE times[u][n]
         /\ \A u \in Task \ {t} : held'[u] = held[u]
         /\ held'[t] # <<>> /\ held'[t][1] = IF held[t] = <<>> THEN m ELSE held[t][1]
<1>1. /\ times' = [times EXCEPT ![t][m] = @ + 1] /\ tidy' = tidy
      /\ held' = [held EXCEPT ![t] = IF times[t][m] = 0 THEN Append(@, m) ELSE @]
  BY DEF Got
<1>2. held[t] \in Seq(MutexId) /\ times[t][m] \in Nat
  BY MutexFacts
<1>3. /\ times' \in [Task -> [MutexId -> Nat]]
      /\ \A u \in Task, n \in MutexId :
               times'[u][n] = IF u = t /\ n = m THEN times[u][n] + 1 ELSE times[u][n]
  BY <1>1, MutexFacts
<1>4. CASE times[t][m] = 0
  <2> DEFINE w == Append(held[t], m)
  <2>1. m \notin Range(held[t]) /\ IsInjective(held[t])
    BY <1>4 DEF MutexInv, MutexHeldInv
  <2>2. w \in Seq(MutexId) /\ w # <<>> /\ Range(w) = Range(held[t]) \cup {m} /\ IsInjective(w)
    BY <1>2, <2>1, AppendElements
  <2>3. w[1] = IF held[t] = <<>> THEN m ELSE held[t][1]
    BY <1>2
  <2>4. held' = [held EXCEPT ![t] = w]
    BY <1>1, <1>4
  <2> HIDE DEF w
  <2>5. /\ held' \in [Task -> Seq(MutexId)] /\ held'[t] = w
        /\ \A u \in Task \ {t} : held'[u] = held[u]
    BY <2>2, <2>4, MutexFacts
  <2>6. MutexHeldInv'
    <3> SUFFICES ASSUME NEW u \in Task
                 PROVE  /\ IsInjective(held'[u])
                        /\ \A n \in MutexId : /\ n \in Range(held'[u]) <=> times'[u][n] > 0
                                              /\ times'[u][n] <= MaxHeld
      BY DEF MutexHeldInv
    <3>1. /\ IsInjective(held[u])
          /\ \A n \in MutexId : /\ n \in Range(held[u]) <=> times[u][n] > 0
                                /\ times[u][n] <= MaxHeld
      BY DEF MutexInv, MutexHeldInv
    <3>2. MaxHeld \in Nat /\ \A n \in MutexId : times[u][n] \in Nat
      BY MutexFacts
    <3>3. IsInjective(held'[u]) /\ Range(held'[u]) = IF u = t THEN Range(held[u]) \cup {m} ELSE Range(held[u])
      BY <2>2, <2>5, <3>1
    <3>4. ASSUME NEW n \in MutexId
          PROVE  /\ n \in Range(held'[u]) <=> times'[u][n] > 0
                 /\ times'[u][n] <= MaxHeld
      BY <1>3, <1>4, <3>1, <3>2, <3>3
    <3> QED BY <3>3, <3>4
  <2> QED BY <1>1, <1>3, <2>2, <2>3, <2>5, <2>6
<1>5. CASE times[t][m] # 0
  <2>1. held' = held
    BY <1>1, <1>5, MutexFacts
  <2>2. m \in Range(held[t])
    BY <1>2, <1>5 DEF MutexInv, MutexHeldInv
  <2>3. held[t] # <<>>
    BY <2>2, EmptyElements
  <2>4. MutexHeldInv'
    <3> SUFFICES ASSUME NEW u \in Task
                 PROVE  /\ IsInjective(held'[u])
                        /\ \A n \in MutexId : /\ n \in Range(held'[u]) <=> times'[u][n] > 0
                                              /\ times'[u][n] <= MaxHeld
      BY DEF MutexHeldInv
    <3>1. /\ IsInjective(held[u])
          /\ \A n \in MutexId : /\ n \in Range(held[u]) <=> times[u][n] > 0
                                /\ times[u][n] <= MaxHeld
      BY DEF MutexInv, MutexHeldInv
    <3>2. MaxHeld \in Nat /\ \A n \in MutexId : times[u][n] \in Nat
      BY MutexFacts
    <3>3. IsInjective(held'[u]) /\ Range(held'[u]) = Range(held[u])
      BY <2>1, <3>1
    <3>4. ASSUME NEW n \in MutexId
          PROVE  /\ n \in Range(held'[u]) <=> times'[u][n] > 0
                 /\ times'[u][n] <= MaxHeld
      <4>1. times'[u][n] = IF u = t /\ n = m THEN times[u][n] + 1 ELSE times[u][n]
        BY <1>3
      <4>2. CASE u = t /\ n = m
        BY <1>2, <1>5, <3>1, <3>2, <3>3, <4>1, <4>2
      <4>3. CASE ~(u = t /\ n = m)
        BY <3>1, <3>3, <4>1, <4>3
      <4> QED BY <4>2, <4>3
    <3> QED BY <3>3, <3>4
  <2> QED BY <1>1, <1>3, <2>1, <2>3, <2>4, MutexFacts
<1> QED BY <1>4, <1>5

(* Without its last element a list begins as before. *)
LEMMA RmLast ==
  ASSUME NEW S, NEW s \in Seq(S), s # <<>>, IsInjective(s)
  PROVE  LET w == RmNode(s, Last(s))
         IN  /\ w # <<>> => w[1] = s[1]
             /\ w = <<>> => s[1] = Last(s)
<1> DEFINE i == CHOOSE i \in DOMAIN s : s[i] = Last(s)
           w == RmNode(s, Last(s))
<1>1. Len(s) \in Nat /\ Len(s) > 0 /\ DOMAIN s = 1 .. Len(s) /\ Last(s) = s[Len(s)]
  BY DEF Last
<1>2. i = Len(s)
  BY <1>1 DEF IsInjective
<1>3. w = RemoveAt(s, i)
  BY <1>1 DEF RmNode, Range
<1> HIDE DEF w, i
<1>4. /\ w \in Seq(S) /\ Len(w) = Len(s) - 1
      /\ \A j \in 1 .. Len(s) - 1 : w[j] = IF j < i THEN s[j] ELSE s[j + 1]
  <2>1. i \in 1 .. Len(s)
    BY <1>1, <1>2
  <2> QED BY <1>3, <2>1, RemoveAtShift
<1>5. w # <<>> => w[1] = s[1]
  BY <1>1, <1>2, <1>4
<1>6. w = <<>> => s[1] = Last(s)
  <2>1. w = <<>> => Len(w) = 0
    OBVIOUS
  <2>2. Len(w) = Len(s) - 1 /\ Len(s) \in Nat
    BY <1>1, <1>4
  <2>3. Len(w) = 0 => Len(s) = 1
    BY <2>2
  <2> QED BY <1>1, <2>1, <2>3
<1> QED BY <1>5, <1>6 DEF w

(* The history when a task gives a mutex back. *)
LEMMA GaveBackHeld ==
  ASSUME MutexInv, NEW t \in Task, NEW m \in MutexId, GaveBack(t, m), times[t][m] > 0
  PROVE  /\ times' \in [Task -> [MutexId -> Nat]] /\ held' \in [Task -> Seq(MutexId)]
         /\ tidy' \subseteq tidy /\ MutexHeldInv'
         /\ \A u \in Task, n \in MutexId :
               times'[u][n] = IF u = t /\ n = m THEN times[u][n] - 1 ELSE times[u][n]
         /\ \A u \in Task \ {t} : held'[u] = held[u]
         /\ times[t][m] # 1 => held'[t] = held[t]
         /\ t \in tidy' => /\ held[t] # <<>>
                           /\ held'[t] # <<>> => held'[t][1] = held[t][1]
                           /\ held'[t] = <<>> => held[t][1] = m
<1>1. /\ times' = [times EXCEPT ![t][m] = @ - 1]
      /\ held' = [held EXCEPT ![t] = IF times[t][m] = 1 THEN RmNode(@, m) ELSE @]
      /\ tidy' = IF times[t][m] = 1 /\ m # Last(held[t]) THEN tidy \ {t} ELSE tidy
  BY DEF GaveBack
<1>2. held[t] \in Seq(MutexId) /\ times[t][m] \in Nat /\ times[t][m] - 1 \in Nat
  BY MutexFacts
<1>3. /\ times' \in [Task -> [MutexId -> Nat]]
      /\ \A u \in Task, n \in MutexId :
               times'[u][n] = IF u = t /\ n = m THEN times[u][n] - 1 ELSE times[u][n]
  BY <1>1, <1>2, MutexFacts
<1>4. m \in Range(held[t]) /\ IsInjective(held[t])
  BY DEF MutexInv, MutexHeldInv
<1>5. held[t] # <<>>
  BY <1>4, EmptyElements
<1>6. CASE times[t][m] = 1
  <2> DEFINE w == RmNode(held[t], m)
  <2>1. w \in Seq(MutexId) /\ Range(w) = Range(held[t]) \ {m} /\ IsInjective(w)
    BY <1>2, <1>4, RmNodeElements
  <2>2. t \in tidy' => m = Last(held[t])
    BY <1>1, <1>6
  <2>3. t \in tidy' => (w # <<>> => w[1] = held[t][1]) /\ (w = <<>> => held[t][1] = m)
    BY <1>2, <1>4, <1>5, <2>2, RmLast
  <2>4. held' = [held EXCEPT ![t] = w]
    BY <1>1, <1>6
  <2> HIDE DEF w
  <2>5. /\ held' \in [Task -> Seq(MutexId)] /\ held'[t] = w
        /\ \A u \in Task \ {t} : held'[u] = held[u]
    BY <2>1, <2>4, MutexFacts
  <2>6. MutexHeldInv'
    <3> SUFFICES ASSUME NEW u \in Task
                 PROVE  /\ IsInjective(held'[u])
                        /\ \A n \in MutexId : /\ n \in Range(held'[u]) <=> times'[u][n] > 0
                                              /\ times'[u][n] <= MaxHeld
      BY DEF MutexHeldInv
    <3>1. /\ IsInjective(held[u])
          /\ \A n \in MutexId : /\ n \in Range(held[u]) <=> times[u][n] > 0
                                /\ times[u][n] <= MaxHeld
      BY DEF MutexInv, MutexHeldInv
    <3>2. MaxHeld \in Nat /\ \A n \in MutexId : times[u][n] \in Nat
      BY MutexFacts
    <3>3. IsInjective(held'[u]) /\ Range(held'[u]) = IF u = t THEN Range(held[u]) \ {m} ELSE Range(held[u])
      BY <2>1, <2>5, <3>1
    <3>4. ASSUME NEW n \in MutexId
          PROVE  /\ n \in Range(held'[u]) <=> times'[u][n] > 0
                 /\ times'[u][n] <= MaxHeld
      BY <1>3, <1>6, <3>1, <3>2, <3>3
    <3> QED BY <3>3, <3>4
  <2>7. tidy' \subseteq tidy
    BY <1>1
  <2> QED BY <1>3, <1>5, <1>6, <2>3, <2>5, <2>6, <2>7
<1>7. CASE times[t][m] # 1
  <2>1. held' = held /\ tidy' = tidy
    BY <1>1, <1>7, MutexFacts
  <2>2. MutexHeldInv'
    <3> SUFFICES ASSUME NEW u \in Task
                 PROVE  /\ IsInjective(held'[u])
                        /\ \A n \in MutexId : /\ n \in Range(held'[u]) <=> times'[u][n] > 0
                                              /\ times'[u][n] <= MaxHeld
      BY DEF MutexHeldInv
    <3>1. /\ IsInjective(held[u])
          /\ \A n \in MutexId : /\ n \in Range(held[u]) <=> times[u][n] > 0
                                /\ times[u][n] <= MaxHeld
      BY DEF MutexInv, MutexHeldInv
    <3>2. MaxHeld \in Nat /\ \A n \in MutexId : times[u][n] \in Nat
      BY MutexFacts
    <3>3. ASSUME NEW n \in MutexId
          PROVE  (times'[u][n] > 0 <=> times[u][n] > 0) /\ times'[u][n] <= times[u][n]
      <4> DEFINE k == times[u][n]
      <4>1. k \in Nat /\ (u = t /\ n = m => k # 1 /\ k - 1 \in Nat)
        BY <1>2, <1>7, <3>2
      <4>2. times'[u][n] = IF u = t /\ n = m THEN k - 1 ELSE k
        BY <1>3
      <4> HIDE DEF k
      <4>3. (times'[u][n] > 0 <=> k > 0) /\ times'[u][n] <= k
        BY <4>1, <4>2
      <4> QED BY <4>3 DEF k
    <3>4. \A n \in MutexId : times'[u][n] \in Nat /\ times'[u][n] <= MaxHeld
      <4>1. \A n \in MutexId : times'[u][n] \in Nat
        BY <1>3
      <4> QED BY <3>1, <3>2, <3>3, <4>1
    <3> QED BY <2>1, <3>1, <3>3, <3>4
  <2> QED BY <1>3, <1>5, <2>1, <2>2, MutexFacts
<1> QED BY <1>6, <1>7

(* The history when a mutex is gone. *)
LEMMA LostHeld ==
  ASSUME MutexInv, NEW m \in MutexId, Lost(m)
  PROVE  /\ times' \in [Task -> [MutexId -> Nat]] /\ held' \in [Task -> Seq(MutexId)]
         /\ tidy' = tidy \ {mutex[m].holder} /\ MutexHeldInv'
         /\ \A u \in Task, n \in MutexId : times'[u][n] = IF n = m THEN 0 ELSE times[u][n]
         /\ \A u \in Task : u # mutex[m].holder => held'[u] = held[u]
<1>1. /\ times' = [t \in Task |-> [times[t] EXCEPT ![m] = 0]]
      /\ held' = [t \in Task |-> RmNode(held[t], m)] /\ tidy' = tidy \ {mutex[m].holder}
  BY DEF Lost
<1>2. /\ times' \in [Task -> [MutexId -> Nat]]
      /\ \A u \in Task, n \in MutexId : times'[u][n] = IF n = m THEN 0 ELSE times[u][n]
  BY <1>1, MutexFacts
<1>3. ASSUME NEW u \in Task
      PROVE  /\ held'[u] \in Seq(MutexId) /\ Range(held'[u]) = Range(held[u]) \ {m}
             /\ IsInjective(held'[u])
  <2>1. held[u] \in Seq(MutexId) /\ IsInjective(held[u])
    BY MutexFacts DEF MutexInv, MutexHeldInv
  <2> QED BY <1>1, <2>1, RmNodeElements
<1>4. held' \in [Task -> Seq(MutexId)]
  BY <1>1, <1>3
<1>5. MutexHeldInv'
  <2> SUFFICES ASSUME NEW u \in Task
               PROVE  /\ IsInjective(held'[u])
                      /\ \A n \in MutexId : /\ n \in Range(held'[u]) <=> times'[u][n] > 0
                                            /\ times'[u][n] <= MaxHeld
    BY DEF MutexHeldInv
  <2>1. /\ IsInjective(held[u])
        /\ \A n \in MutexId : /\ n \in Range(held[u]) <=> times[u][n] > 0
                              /\ times[u][n] <= MaxHeld
    BY DEF MutexInv, MutexHeldInv
  <2>2. MaxHeld \in Nat /\ \A n \in MutexId : times[u][n] \in Nat
    BY MutexFacts
  <2>3. IsInjective(held'[u]) /\ Range(held'[u]) = Range(held[u]) \ {m}
    BY <1>3, <2>1
  <2>4. ASSUME NEW n \in MutexId
        PROVE  /\ n \in Range(held'[u]) <=> times'[u][n] > 0
               /\ times'[u][n] <= MaxHeld
    BY <1>2, <2>1, <2>2, <2>3
  <2> QED BY <2>3, <2>4
<1>6. ASSUME NEW u \in Task, u # mutex[m].holder PROVE held'[u] = held[u]
  <2>1. times[u][m] = 0
    BY <1>6, HolderFacts
  <2>2. m \notin Range(held[u])
    BY <2>1 DEF MutexInv, MutexHeldInv
  <2> QED BY <1>1, <2>2 DEF RmNode
<1> QED BY <1>1, <1>2, <1>4, <1>5, <1>6

LEMMA MutexCreateInv ==
  ASSUME MutexInv, NEW t \in Task, NEW m \in MutexId, MutexCreate(t, m)
  PROVE  MutexInv'
<1>1. /\ ~mutex[m].alive /\ mutex' = [mutex EXCEPT ![m] = [Fresh EXCEPT !.alive = TRUE]]
      /\ UNCHANGED <<cur_prio, target, times, held, tidy, exstatus, delayed, pc>>
  BY DEF MutexCreate, history, pendVars
<1>2. mutex[m].holder = NoTask /\ mutex[m].recursive_cnt = 0 /\ mutex[m].pend_list = <<>>
  BY <1>1 DEF MutexInv, MutexHoldInv, NoWaiterOnFreeMutex
<1>3. /\ mutex'[m].alive /\ mutex'[m].val = 1 /\ mutex'[m].holder = NoTask
      /\ mutex'[m].recursive_cnt = 0 /\ mutex'[m].pend_list = <<>>
      /\ \A n \in MutexId \ {m} : mutex'[n] = mutex[n]
  BY <1>1, MutexFacts DEF Fresh
<1>4. mutex' \in [MutexId -> MutexRecord]
  <2> DEFINE e == <<>>
           b == FALSE
           c == TRUE
  <2>1. e \in Seq(Task) /\ 0 \in 0 .. CntMod - 1
    BY MutexFacts, EmptyElements
  <2>2. Fresh = [alive |-> b, val |-> 1, holder |-> NoTask, origin_prio |-> 255,
                 recursive_cnt |-> 0, pend_list |-> e]
    BY DEF Fresh
  <2>3. b \in BOOLEAN /\ c \in BOOLEAN
    OBVIOUS
  <2> HIDE DEF e, b, c
  <2>4. [Fresh EXCEPT !.alive = c] \in MutexRecord
    BY <2>1, <2>2, <2>3 DEF MutexRecord
  <2>5. mutex' = [mutex EXCEPT ![m] = [Fresh EXCEPT !.alive = c]]
    BY <1>1 DEF c
  <2> QED BY <2>4, <2>5, MutexFacts
<1>5. MutexTypeOK' /\ pc' \in [Task -> MutexPlaces]
  BY <1>1, <1>4 DEF MutexInv, MutexTypeOK, MutexRecord
<1>6. \A n \in MutexId : /\ mutex'[n].pend_list = mutex[n].pend_list
                         /\ mutex'[n].holder = mutex[n].holder /\ Handed(n)' = Handed(n)
                         /\ mutex'[n].recursive_cnt = mutex[n].recursive_cnt
  BY <1>1, <1>2, <1>3 DEF Handed
<1>7. MutexListInv'
  BY <1>1, <1>6 DEF MutexInv, MutexListInv
<1>8. MutexHoldInv' /\ MutexHeldInv' /\ NoWaiterOnFreeMutex'
  <2>1. MutexHoldInv'
    BY <1>3 DEF MutexInv, MutexHoldInv
  <2>2. MutexHeldInv'
    BY <1>1 DEF MutexInv, MutexHeldInv
  <2>3. NoWaiterOnFreeMutex'
    <3> SUFFICES ASSUME NEW n \in MutexId
          PROVE  /\ mutex'[n].pend_list # <<>> => mutex'[n].alive /\ mutex'[n].holder # NoTask
                 /\ mutex'[n].val = (IF mutex'[n].holder = NoTask THEN 1 ELSE 0)
                 /\ \A u \in Range(mutex'[n].pend_list) : u # mutex'[n].holder /\ target'[u] = n
      BY DEF NoWaiterOnFreeMutex
    <3>1. CASE n = m
      BY <1>3, <3>1, EmptyElements
    <3>2. CASE n # m
      BY <1>1, <1>3, <3>2 DEF MutexInv, NoWaiterOnFreeMutex
    <3> QED BY <3>1, <3>2
  <2> QED BY <2>1, <2>2, <2>3
<1>9. MutualExclusion' /\ MutexHandInv'
  BY <1>1, <1>6 DEF MutexInv, MutualExclusion, MutexHandInv
<1>10. \A u \in Task : times[u][m] = 0 /\ u \notin Handed(m)
  BY <1>2, HolderFacts, MutexFacts
<1>11. \A u \in Task : held[u] # <<>> => held[u][1] \in MutexId \ {m}
  <2> SUFFICES ASSUME NEW u \in Task, held[u] # <<>> PROVE held[u][1] \in MutexId \ {m}
    OBVIOUS
  <2>1. held[u] \in Seq(MutexId) /\ m \notin Range(held[u])
    BY <1>10, MutexFacts DEF MutexInv, MutexHeldInv
  <2> QED BY <2>1 DEF Range
<1>12. MutexPrioInv'
  <2>1. \A n \in MutexId, u \in Task :
           mutex'[n].holder = u => mutex'[n].origin_prio >= CurPrio[u]
    <3>1. \A u \in Task : mutex'[m].holder # u
      BY <1>3, MutexFacts
    <3> QED BY <1>3, <3>1 DEF MutexInv, MutexPrioInv
  <2>2. tidy \subseteq Task
    BY MutexFacts
  <2>3. \A u \in tidy : held[u] # <<>> => mutex'[held[u][1]].origin_prio = CurPrio[u]
    BY <1>3, <1>11, <2>2 DEF MutexInv, MutexPrioInv
  <2>4. \A n \in MutexId : \A u \in tidy :
          held[u] = <<>> /\ u \in Handed(n) => mutex'[n].origin_prio = CurPrio[u]
    BY <1>3, <1>10, <2>2 DEF MutexInv, MutexPrioInv
  <2> QED BY <1>1, <1>6, <2>1, <2>3, <2>4 DEF MutexPrioInv
<1>13. PriorityRestored'
  BY <1>1, <1>6 DEF MutexInv, PriorityRestored
<1> QED BY <1>5, <1>7, <1>8, <1>9, <1>12, <1>13 DEF MutexInv

(* A task that was told of no mutex and was handed none holds none. *)
LEMMA NothingHeld ==
  ASSUME MutexInv, NEW t \in Task, held[t] = <<>>, NEW m \in MutexId, t \notin Handed(m)
  PROVE  mutex[m].holder # t
<1> SUFFICES ASSUME mutex[m].holder = t PROVE FALSE
  OBVIOUS
<1>1. times[t][m] > 0
  <2>1. times[t][m] = mutex[m].recursive_cnt
    BY HolderFacts
  <2>2. mutex[m].recursive_cnt > 0
    BY MutexFacts DEF MutexInv, MutexHoldInv
  <2> QED BY <2>1, <2>2
<1>2. m \in Range(held[t])
  BY <1>1 DEF MutexInv, MutexHeldInv
<1> QED BY <1>2, EmptyElements

(* A task that is not in a call waits on no list, and what it was told it  *)
(* has is what it holds.                                                   *)
LEMMA IdleFacts ==
  ASSUME MutexInv, NEW t \in Task, pc[t] = "idle"
  PROVE  /\ \A n \in MutexId : t \notin Range(mutex[n].pend_list) /\ t \notin Handed(n)
         /\ \A n \in MutexId : mutex[n].holder = t => times[t][n] = mutex[n].recursive_cnt
         /\ held[t] = <<>> => \A n \in MutexId : mutex[n].holder # t
<1>1. \A n \in MutexId : t \notin Range(mutex[n].pend_list) /\ t \notin Handed(n)
  BY DEF MutexInv, MutexListInv, Handed
<1>2. \A n \in MutexId : mutex[n].holder = t => times[t][n] = mutex[n].recursive_cnt
  BY <1>1, HolderFacts
<1> QED BY <1>1, <1>2, NothingHeld

(* The first mutex a task was told it has: the task is its holder, and the *)
(* mutex keeps the task's own priority.                                    *)
LEMMA FirstHeld ==
  ASSUME MutexInv, NEW t \in Task, held[t] # <<>>
  PROVE  /\ held[t][1] \in MutexId /\ mutex[held[t][1]].holder = t
         /\ times[t][held[t][1]] > 0
         /\ t \in tidy => mutex[held[t][1]].origin_prio = CurPrio[t]
<1>1. held[t][1] \in MutexId /\ held[t][1] \in Range(held[t])
  BY MutexFacts DEF Range
<1>2. times[t][held[t][1]] > 0
  BY <1>1 DEF MutexInv, MutexHeldInv
<1>3. mutex[held[t][1]].holder = t
  BY <1>1, <1>2, HolderFacts
<1>4. t \in tidy => mutex[held[t][1]].origin_prio = CurPrio[t]
  BY DEF MutexInv, MutexPrioInv
<1> QED BY <1>1, <1>2, <1>3, <1>4

(* A task obtains a mutex without waiting: one it holds, or a free one. *)
LEMMA MutexObtainInv ==
  ASSUME MutexInv, NEW t \in Task, NEW m \in MutexId,
         MutexObtainAgain(t, m) \/ MutexObtainFree(t, m)
  PROVE  MutexInv'
<1> DEFINE M == mutex[m]
<1>1. /\ pc[t] = "idle" /\ M.alive /\ Got(t, m)
      /\ exstatus' = [exstatus EXCEPT ![t] = "EOK"]
      /\ UNCHANGED <<cur_prio, target, delayed, pc>>
      /\ \/ /\ M.holder = t /\ times[t][m] < MaxHeld
            /\ mutex' = [mutex EXCEPT ![m].recursive_cnt = (@ + 1) % CntMod]
         \/ /\ M.holder # t /\ M.val > 0
            /\ mutex' = [mutex EXCEPT ![m].val = @ - 1, ![m].holder = t,
                                      ![m].origin_prio = cur_prio[t],
                                      ![m].recursive_cnt = (@ + 1) % CntMod]
  BY DEF MutexObtainAgain, MutexObtainFree
<1>2. M.holder # t => M.holder = NoTask /\ M.recursive_cnt = 0 /\ times[t][m] = 0 /\ M.val = 1
  <2>1. M.val = (IF M.holder = NoTask THEN 1 ELSE 0)
    BY DEF MutexInv, NoWaiterOnFreeMutex
  <2>2. M.holder = NoTask => M.recursive_cnt = 0
    BY DEF MutexInv, MutexHoldInv
  <2> QED BY <1>1, <2>1, <2>2, HolderFacts
<1>3. times[t][m] < MaxHeld /\ M.recursive_cnt = times[t][m]
  BY <1>1, <1>2, IdleFacts, MutexFacts
<1>4. (M.recursive_cnt + 1) % CntMod = M.recursive_cnt + 1 /\ M.recursive_cnt + 1 \in 1 .. CntMod - 1
  <2>1. M.recursive_cnt + 1 \in 0 .. CntMod - 1 /\ M.recursive_cnt + 1 \in 1 .. CntMod - 1
    BY <1>3, MutexFacts
  <2> QED BY <2>1, NoWrap, MutexFacts
<1>5. /\ mutex'[m].alive = M.alive /\ mutex'[m].val = 0 /\ mutex'[m].holder = t
      /\ mutex'[m].origin_prio = (IF M.holder = t THEN M.origin_prio ELSE cur_prio[t])
      /\ mutex'[m].recursive_cnt = M.recursive_cnt + 1 /\ mutex'[m].pend_list = M.pend_list
      /\ \A n \in MutexId \ {m} : mutex'[n] = mutex[n]
  <2>1. M.holder = t => M.val = 0
    BY MutexFacts DEF MutexInv, NoWaiterOnFreeMutex
  <2>2. M \in MutexRecord /\ mutex \in [MutexId -> MutexRecord]
    BY MutexFacts
  <2>3. CASE M.holder = t
    <3>1. mutex' = [mutex EXCEPT ![m].recursive_cnt = (@ + 1) % CntMod]
      BY <1>1, <2>3
    <3> QED BY <1>4, <2>1, <2>2, <2>3, <3>1 DEF MutexRecord
  <2>4. CASE M.holder # t
    BY <1>1, <1>2, <1>4, <2>2, <2>4 DEF MutexRecord
  <2> QED BY <2>3, <2>4
<1>6. mutex' \in [MutexId -> MutexRecord]
  <2>1. M \in MutexRecord /\ mutex \in [MutexId -> MutexRecord] /\ cur_prio[t] \in Nat
    BY MutexFacts
  <2>2. (M.recursive_cnt + 1) % CntMod \in 0 .. CntMod - 1
    BY <1>4
  <2>3. CASE M.holder = t
    BY <1>1, <2>1, <2>2, <2>3, ZenonT(40) DEF MutexRecord
  <2>4. CASE M.holder # t
    BY <1>1, <1>2, <2>1, <2>2, <2>4 DEF MutexRecord
  <2> QED BY <2>3, <2>4
<1>7. /\ times' \in [Task -> [MutexId -> Nat]] /\ held' \in [Task -> Seq(MutexId)]
      /\ tidy' = tidy /\ MutexHeldInv'
      /\ \A u \in Task, n \in MutexId :
               times'[u][n] = IF u = t /\ n = m THEN times[u][n] + 1 ELSE times[u][n]
      /\ \A u \in Task \ {t} : held'[u] = held[u]
      /\ held'[t] # <<>> /\ held'[t][1] = IF held[t] = <<>> THEN m ELSE held[t][1]
  BY <1>1, <1>3, GotHeld
<1>8. MutexTypeOK' /\ pc' \in [Task -> MutexPlaces]
  BY <1>1, <1>6, <1>7, MutexFacts DEF MutexInv, MutexTypeOK, MutexRecord, Status
<1>9. /\ \A n \in MutexId : mutex'[n].pend_list = mutex[n].pend_list
      /\ \A u \in Task : pc[u] # "idle" => exstatus'[u] = exstatus[u]
  BY <1>1, <1>5, MutexFacts
<1>10. \A n \in MutexId : Handed(n)' = Handed(n)
  BY <1>1, <1>9 DEF Handed
<1>11. MutexListInv'
  BY <1>1, <1>9, MutexFacts DEF MutexInv, MutexListInv
<1>12. \A u \in Task, n \in MutexId : mutex'[n].holder = u /\ u # t => mutex[n].holder = u
  BY <1>5
<1>13. \A n \in MutexId : mutex[n].holder = t => mutex'[n].holder = t
  BY <1>5
<1>14. MutexHoldInv' /\ NoWaiterOnFreeMutex'
  <2>1. MutexHoldInv'
    <3>1. mutex'[m].holder # NoTask /\ mutex'[m].recursive_cnt > 0 /\ mutex'[m].alive
      BY <1>1, <1>4, <1>5, MutexAssumption
    <3> QED BY <1>5, <3>1 DEF MutexInv, MutexHoldInv
  <2>2. \A u \in Range(M.pend_list) : u # t /\ target[u] = m
    BY <1>1, IdleFacts DEF MutexInv, MutexListInv
  <2>3. t # NoTask
    BY MutexAssumption
  <2>4. ASSUME NEW n \in MutexId
        PROVE  /\ mutex'[n].pend_list # <<>> => mutex'[n].alive /\ mutex'[n].holder # NoTask
               /\ mutex'[n].val = (IF mutex'[n].holder = NoTask THEN 1 ELSE 0)
               /\ \A u \in Range(mutex'[n].pend_list) : u # mutex'[n].holder /\ target'[u] = n
    <3>1. CASE n = m
      BY <1>1, <1>5, <2>2, <2>3, <3>1
    <3>2. CASE n # m
      BY <1>1, <1>5, <3>2 DEF MutexInv, NoWaiterOnFreeMutex
    <3> QED BY <3>1, <3>2
  <2>5. NoWaiterOnFreeMutex'
    BY <2>4 DEF NoWaiterOnFreeMutex
  <2> QED BY <2>1, <2>5
<1>15. MutualExclusion'
  <2> SUFFICES ASSUME NEW n \in MutexId, NEW u \in Task
               PROVE  times'[u][n] + (IF u \in Handed(n)' THEN 1 ELSE 0) =
                      IF mutex'[n].holder = u THEN mutex'[n].recursive_cnt ELSE 0
    BY DEF MutualExclusion
  <2>1. times[u][n] + (IF u \in Handed(n) THEN 1 ELSE 0) =
           IF mutex[n].holder = u THEN mutex[n].recursive_cnt ELSE 0
    BY DEF MutexInv, MutualExclusion
  <2>2. CASE n # m
    BY <1>5, <1>7, <1>10, <2>1, <2>2
  <2>3. CASE n = m /\ u = t
    BY <1>1, <1>3, <1>5, <1>7, <1>10, <2>3, IdleFacts, MutexFacts
  <2>4. CASE n = m /\ u # t
    <3>1. mutex[n].holder # u
      BY <1>2, <2>4, MutexFacts
    <3> QED BY <1>5, <1>7, <1>10, <2>1, <2>4, <3>1
  <2> QED BY <2>2, <2>3, <2>4
<1>16. PriorityRestored'
  <2>1. \A u \in Task : (\A n \in MutexId : mutex'[n].holder # u)
                          => \A n \in MutexId : mutex[n].holder # u
    <3>1. \A u \in Task, n \in MutexId :
             mutex[n].holder = u => \E k \in MutexId : mutex'[k].holder = u
      BY <1>2, <1>5, <1>13, MutexAssumption
    <3> QED BY <3>1
  <2> QED BY <1>1, <1>7, <2>1 DEF MutexInv, PriorityRestored
<1>17. MutexPrioInv'
  <2>1. \A n \in MutexId, u \in Task :
           mutex'[n].holder = u => mutex'[n].origin_prio >= CurPrio[u]
    <3>1. \A n \in MutexId, u \in Task : mutex[n].holder = u => mutex[n].origin_prio >= CurPrio[u]
      BY DEF MutexInv, MutexPrioInv
    <3>2. cur_prio[t] >= CurPrio[t]
      BY DEF MutexInv, PriorityRestored
    <3>3. mutex'[m].origin_prio >= CurPrio[t] /\ mutex'[m].holder = t
      BY <1>5, <3>1, <3>2
    <3> QED BY <1>5, <3>1, <3>3
  <2>2. ASSUME NEW u \in tidy', held'[u] # <<>>
        PROVE  mutex'[held'[u][1]].origin_prio = CurPrio[u]
    <3>1. u \in tidy /\ u \in Task
      BY <1>7, MutexFacts
    <3>2. held[u] # <<>> =>
            /\ held[u][1] \in MutexId /\ mutex[held[u][1]].origin_prio = CurPrio[u]
            /\ mutex[held[u][1]].holder = u
      BY <3>1, FirstHeld
    <3>3. CASE held[u] # <<>>
      <4>1. held'[u][1] = held[u][1]
        BY <1>7, <3>1, <3>3
      <4>2. CASE held[u][1] = m
        BY <1>2, <1>5, <3>1, <3>2, <3>3, <4>1, <4>2, MutexFacts
      <4>3. CASE held[u][1] # m
        BY <1>5, <3>2, <3>3, <4>1, <4>3
      <4> QED BY <4>2, <4>3
    <3>4. CASE held[u] = <<>>
      <4>1. u = t /\ held'[u][1] = m
        BY <1>7, <2>2, <3>1, <3>4
      <4>2. \A n \in MutexId : mutex[n].holder # t
        BY <1>1, <3>4, <4>1, IdleFacts
      <4>3. cur_prio[t] = CurPrio[t]
        BY <3>1, <4>1, <4>2 DEF MutexInv, PriorityRestored
      <4> QED BY <1>5, <4>1, <4>2, <4>3
    <3> QED BY <3>3, <3>4
  <2>3. ASSUME NEW n \in MutexId, NEW u \in tidy', held'[u] = <<>>, u \in Handed(n)'
        PROVE  mutex'[n].origin_prio = CurPrio[u]
    <3>1. u # t /\ u \in Task /\ u \in Handed(n) /\ u \in tidy /\ held[u] = <<>>
      BY <1>1, <1>7, <1>10, <2>3, IdleFacts, MutexFacts
    <3>2. n # m
      BY <1>2, <3>1, HolderFacts, MutexFacts
    <3> QED BY <1>5, <3>1, <3>2 DEF MutexInv, MutexPrioInv
  <2> QED BY <2>1, <2>2, <2>3 DEF MutexPrioInv
<1>18. MutexHandInv'
  <2>1. \A n \in MutexId : \A u \in Handed(n) : u \in Task /\ u # t
    BY <1>1, IdleFacts DEF Handed
  <2>2. \A n \in MutexId : \A u \in Handed(n) : times'[u][n] = times[u][n]
    BY <1>7, <2>1
  <2>3. \A n \in MutexId : \A u \in Handed(n) : times[u][n] = 0
    BY DEF MutexInv, MutexHandInv
  <2> QED BY <1>10, <2>2, <2>3 DEF MutexHandInv
<1> QED BY <1>7, <1>8, <1>11, <1>14, <1>15, <1>16, <1>17, <1>18 DEF MutexInv

(* A task waits for a mutex that another one holds and may raise its       *)
(* holder.                                                                 *)
LEMMA MutexWaitInv ==
  ASSUME MutexInv, NEW t \in Task, NEW m \in MutexId, NEW ms \in Msecs,
         MutexObtainWait(t, m, ms)
  PROVE  MutexInv'
<1> DEFINE M == mutex[m]
           w == InsertSorted(M.pend_list, t, cur_prio'[t], cur_prio')
<1>1. /\ pc[t] = "idle" /\ M.alive /\ M.holder # t /\ M.val = 0
      /\ cur_prio' = Inherit(m, t) /\ mutex' = [mutex EXCEPT ![m].pend_list = w]
      /\ exstatus' = [exstatus EXCEPT ![t] = "EOK"] /\ target' = [target EXCEPT ![t] = m]
      /\ pc' = [pc EXCEPT ![t] = "mutex_wait"] /\ UNCHANGED <<times, held, tidy>>
  BY DEF MutexObtainWait, LinklistSuspend, history
<1>2. delayed' = delayed \cup {t}
  <2>1. CalculteTickFromTimeMs(ms) > 0
    BY TicksPositive
  <2> QED BY <2>1 DEF MutexObtainWait, StartDelay
<1>3. M.holder \in Task
  <2>1. M.val = (IF M.holder = NoTask THEN 1 ELSE 0)
    BY DEF MutexInv, NoWaiterOnFreeMutex
  <2>2. M.holder \in Task \cup {NoTask}
    BY MutexFacts
  <2> QED BY <1>1, <2>1, <2>2
<1>4. /\ cur_prio' \in [Task -> Nat] /\ cur_prio'[M.holder] >= cur_prio[M.holder]
      /\ \A u \in Task \ {M.holder} : cur_prio'[u] = cur_prio[u]
  <2> DEFINE h == M.holder
             p == cur_prio[t]
  <2>1. h \in Task /\ p \in Nat /\ cur_prio \in [Task -> Nat] /\ cur_prio[h] \in Nat
    BY <1>3, MutexFacts
  <2>2. cur_prio' = IF p > cur_prio[h] THEN [cur_prio EXCEPT ![h] = p] ELSE cur_prio
    BY <1>1 DEF Inherit
  <2> HIDE DEF h, p
  <2>3. /\ cur_prio' \in [Task -> Nat] /\ cur_prio'[h] >= cur_prio[h]
        /\ \A u \in Task \ {h} : cur_prio'[u] = cur_prio[u]
    BY <2>1, <2>2
  <2> QED BY <2>3 DEF h
<1>5. t \notin Range(M.pend_list)
  BY <1>1, IdleFacts
<1>6. w \in Seq(Task) /\ IsInjective(w) /\ Range(w) = Range(M.pend_list) \cup {t}
  BY <1>5, InsertSortedElements, MutexFacts DEF MutexInv, MutexListInv
<1> HIDE DEF w
<1>7. /\ mutex'[m].pend_list = w /\ \A n \in MutexId \ {m} : mutex'[n] = mutex[n]
      /\ \A n \in MutexId : /\ mutex'[n].holder = mutex[n].holder
                            /\ mutex'[n].val = mutex[n].val
                            /\ mutex'[n].alive = mutex[n].alive
                            /\ mutex'[n].origin_prio = mutex[n].origin_prio
                            /\ mutex'[n].recursive_cnt = mutex[n].recursive_cnt
  BY <1>1, MutexFacts DEF MutexRecord
<1>8. /\ exstatus'[t] = "EOK" /\ pc'[t] = "mutex_wait" /\ target'[t] = m
      /\ \A u \in Task \ {t} : /\ exstatus'[u] = exstatus[u] /\ pc'[u] = pc[u]
                               /\ target'[u] = target[u]
  BY <1>1, MutexFacts
<1>9. mutex' \in [MutexId -> MutexRecord]
  <2>1. mutex \in [MutexId -> MutexRecord] /\ M \in MutexRecord
    BY MutexFacts
  <2>2. [M EXCEPT !.pend_list = w] \in MutexRecord
    BY <1>6, <2>1 DEF MutexRecord
  <2>3. mutex' = [mutex EXCEPT ![m] = [M EXCEPT !.pend_list = w]]
    BY <1>1
  <2> QED BY <2>1, <2>2, <2>3
<1>10. MutexTypeOK' /\ pc' \in [Task -> MutexPlaces]
  BY <1>1, <1>2, <1>4, <1>9, MutexFacts, ZenonT(40)
     DEF MutexInv, MutexTypeOK, MutexRecord, Status, Places, MutexPlaces
<1>11. \A n \in MutexId : Handed(n)' = Handed(n)
  <2>1. \A n \in MutexId : t \notin Handed(n)' /\ t \notin Handed(n)
    BY <1>1, <1>6, <1>7, <1>8 DEF Handed
  <2>2. \A n \in MutexId, u \in Task \ {t} :
           u \in Range(mutex'[n].pend_list) <=> u \in Range(mutex[n].pend_list)
    BY <1>6, <1>7
  <2> QED BY <1>8, <2>1, <2>2 DEF Handed
<1>12. MutexListInv'
  <2>1. \A n \in MutexId : IsInjective(mutex'[n].pend_list)
    BY <1>6, <1>7 DEF MutexInv, MutexListInv
  <2>2. \A n \in MutexId : \A u \in Range(mutex'[n].pend_list) :
           pc'[u] = "mutex_wait" /\ exstatus'[u] = "EOK" /\ target'[u] = n
    <3> SUFFICES ASSUME NEW n \in MutexId, NEW u \in Range(mutex'[n].pend_list)
                 PROVE  pc'[u] = "mutex_wait" /\ exstatus'[u] = "EOK" /\ target'[u] = n
      OBVIOUS
    <3>1. CASE u = t
      <4>1. n = m
        BY <1>1, <1>7, <3>1, IdleFacts
      <4> QED BY <1>8, <3>1, <4>1
    <3>2. CASE u # t
      <4>1. u \in Range(mutex[n].pend_list)
        BY <1>6, <1>7, <3>2
      <4>2. u \in Task
        BY <4>1, MutexFacts
      <4> QED BY <1>8, <3>2, <4>1, <4>2 DEF MutexInv, MutexListInv
    <3> QED BY <3>1, <3>2
  <2>3. \A u \in Task : u \in delayed' <=> \E n \in MutexId : u \in Range(mutex'[n].pend_list)
    <3> SUFFICES ASSUME NEW u \in Task
                 PROVE  u \in delayed' <=> \E n \in MutexId : u \in Range(mutex'[n].pend_list)
      OBVIOUS
    <3>1. u \in delayed <=> \E n \in MutexId : u \in Range(mutex[n].pend_list)
      BY DEF MutexInv, MutexListInv
    <3> QED BY <1>2, <1>6, <1>7, <3>1
  <2>4. \A u \in Task : pc'[u] = "mutex_wait" => target'[u] \in MutexId
    BY <1>8 DEF MutexInv, MutexListInv
  <2> QED BY <2>1, <2>2, <2>3, <2>4 DEF MutexListInv
<1>13. MutexHoldInv' /\ MutexHeldInv'
  BY <1>1, <1>7 DEF MutexInv, MutexHoldInv, MutexHeldInv
<1>14. NoWaiterOnFreeMutex'
  <2>1. \A n \in MutexId : mutex'[n].pend_list # <<>> =>
                              mutex'[n].alive /\ mutex'[n].holder # NoTask
    BY <1>1, <1>3, <1>7, MutexFacts DEF MutexInv, NoWaiterOnFreeMutex
  <2>2. \A n \in MutexId : \A u \in Range(mutex'[n].pend_list) : target'[u] = n
    BY <1>12 DEF MutexListInv
  <2>3. ASSUME NEW n \in MutexId, NEW u \in Range(mutex'[n].pend_list)
        PROVE  u # mutex'[n].holder
    <3>1. \A v \in Range(mutex[n].pend_list) : v # mutex[n].holder
      BY DEF MutexInv, NoWaiterOnFreeMutex
    <3>2. n = m => u \in Range(mutex[n].pend_list) \/ u = t
      BY <1>6, <1>7
    <3> QED BY <1>1, <1>7, <3>1, <3>2
  <2> QED BY <1>7, <2>1, <2>2, <2>3, SMTT(20) DEF MutexInv, NoWaiterOnFreeMutex
<1>15. MutualExclusion' /\ MutexHandInv'
  BY <1>1, <1>7, <1>11 DEF MutexInv, MutualExclusion, MutexHandInv
<1>16. PriorityRestored'
  <2>1. \A u \in Task : cur_prio'[u] >= CurPrio[u]
    <3>1. \A u \in Task : cur_prio[u] >= CurPrio[u]
      BY DEF MutexInv, PriorityRestored
    <3>2. \A u \in Task : cur_prio'[u] \in Nat /\ cur_prio[u] \in Nat /\ CurPrio[u] \in Nat
      BY <1>4, MutexFacts
    <3>3. \A u \in Task : cur_prio'[u] >= cur_prio[u]
      BY <1>3, <1>4, <3>2
    <3> QED BY <3>1, <3>2, <3>3
  <2>2. \A u \in Task : (\A n \in MutexId : mutex'[n].holder # u) => cur_prio'[u] = cur_prio[u]
    BY <1>4, <1>7
  <2> QED BY <1>1, <1>7, <2>1, <2>2 DEF MutexInv, PriorityRestored
<1>17. MutexPrioInv'
  <2>1. \A u \in tidy : held[u] # <<>> => held[u][1] \in MutexId
    BY FirstHeld, MutexFacts
  <2> QED BY <1>1, <1>7, <1>11, <2>1 DEF MutexInv, MutexPrioInv
<1> QED BY <1>10, <1>12, <1>13, <1>14, <1>15, <1>16, <1>17 DEF MutexInv

(* A waiter that was handed the mutex, failed or timed out returns. *)
LEMMA MutexReturnInv ==
  ASSUME MutexInv, NEW t \in Task, MutexObtainReturn(t)
  PROVE  MutexInv'
<1> DEFINE m == target[t]
<1>1. /\ pc[t] = "mutex_wait" /\ t \notin Range(mutex[m].pend_list)
      /\ IF exstatus[t] = "EOK" THEN Got(t, m) ELSE UNCHANGED <<times, held, tidy>>
      /\ target' = [target EXCEPT ![t] = NoMutex] /\ pc' = [pc EXCEPT ![t] = "idle"]
      /\ UNCHANGED <<mutex, cur_prio, exstatus, delayed>>
  BY DEF MutexObtainReturn, history
<1>2. m \in MutexId /\ (t \in Handed(m) <=> exstatus[t] = "EOK")
  BY <1>1 DEF MutexInv, MutexListInv, Handed
<1> HIDE DEF m
<1>3. \A n \in MutexId : t \notin Range(mutex[n].pend_list)
  BY <1>1 DEF MutexInv, MutexListInv, m
<1>4. \A n \in MutexId : Handed(n)' = Handed(n) \ {t}
  BY <1>1, MutexFacts DEF Handed
<1>5. \A n \in MutexId : t \in Handed(n) => n = m
  BY DEF Handed, m
<1>6. exstatus[t] = "EOK" => times[t][m] < MaxHeld
  <2> SUFFICES ASSUME exstatus[t] = "EOK" PROVE times[t][m] < MaxHeld
    OBVIOUS
  <2>1. t \in Handed(m)
    BY <1>2
  <2> QED BY <1>2, <2>1, MutexFacts DEF MutexInv, MutexHandInv
<1>7. /\ times' \in [Task -> [MutexId -> Nat]] /\ held' \in [Task -> Seq(MutexId)]
      /\ tidy' = tidy /\ MutexHeldInv'
      /\ \A u \in Task, n \in MutexId :
            times'[u][n] = IF u = t /\ n = m /\ t \in Handed(m) THEN times[u][n] + 1
                                                                ELSE times[u][n]
      /\ \A u \in Task \ {t} : held'[u] = held[u]
      /\ t \notin Handed(m) => held'[t] = held[t]
      /\ t \in Handed(m) => /\ held'[t] # <<>>
                            /\ held'[t][1] = IF held[t] = <<>> THEN m ELSE held[t][1]
  <2>1. CASE exstatus[t] = "EOK"
    BY <1>1, <1>2, <1>6, <2>1, GotHeld
  <2>2. CASE exstatus[t] # "EOK"
    BY <1>1, <1>2, <2>2, MutexFacts DEF MutexInv, MutexHeldInv
  <2> QED BY <2>1, <2>2
<1>8. MutexTypeOK' /\ pc' \in [Task -> MutexPlaces]
  BY <1>1, <1>7, MutexFacts DEF MutexInv, MutexTypeOK, Places, MutexPlaces
<1>9. MutexListInv'
  BY <1>1, <1>3, MutexFacts DEF MutexInv, MutexListInv
<1>10. MutexHoldInv' /\ NoWaiterOnFreeMutex' /\ PriorityRestored'
  <2>1. \A n \in MutexId : \A u \in Range(mutex[n].pend_list) : u \in Task /\ u # t
    BY <1>3, MutexFacts
  <2>2. \A u \in Task \ {t} : target'[u] = target[u]
    BY <1>1, MutexFacts
  <2>3. NoWaiterOnFreeMutex'
    BY <1>1, <2>1, <2>2 DEF MutexInv, NoWaiterOnFreeMutex
  <2> QED BY <1>1, <1>7, <2>3 DEF MutexInv, MutexHoldInv, PriorityRestored
<1>11. MutualExclusion'
  <2> SUFFICES ASSUME NEW n \in MutexId, NEW u \in Task
               PROVE  times'[u][n] + (IF u \in Handed(n)' THEN 1 ELSE 0) =
                      IF mutex'[n].holder = u THEN mutex'[n].recursive_cnt ELSE 0
    BY DEF MutualExclusion
  <2>1. times[u][n] + (IF u \in Handed(n) THEN 1 ELSE 0) =
           IF mutex[n].holder = u THEN mutex[n].recursive_cnt ELSE 0
    BY DEF MutexInv, MutualExclusion
  <2>2. times[u][n] \in Nat
    BY MutexFacts
  <2> QED BY <1>1, <1>4, <1>5, <1>7, <2>1, <2>2
<1>12. MutexPrioInv'
  <2>1. ASSUME NEW u \in tidy', held'[u] # <<>>
        PROVE  mutex[held'[u][1]].origin_prio = CurPrio[u]
    <3>1. u \in Task /\ u \in tidy
      BY <1>7, MutexFacts
    <3>2. CASE held[u] # <<>>
      <4>1. held'[u][1] = held[u][1]
        BY <1>7, <3>1, <3>2
      <4> QED BY <3>1, <3>2, <4>1, FirstHeld
    <3>3. CASE held[u] = <<>>
      <4>1. u = t /\ t \in Handed(m) /\ held'[u][1] = m
        BY <1>7, <2>1, <3>1, <3>3
      <4> QED BY <1>2, <3>1, <3>3, <4>1 DEF MutexInv, MutexPrioInv
    <3> QED BY <3>2, <3>3
  <2>2. ASSUME NEW n \in MutexId, NEW u \in tidy', held'[u] = <<>>, u \in Handed(n)'
        PROVE  mutex[n].origin_prio = CurPrio[u]
    <3>1. u \in Task /\ u # t /\ u \in tidy /\ u \in Handed(n) /\ held[u] = <<>>
      BY <1>4, <1>7, <2>2, MutexFacts
    <3> QED BY <3>1 DEF MutexInv, MutexPrioInv
  <2> QED BY <1>1, <2>1, <2>2 DEF MutexInv, MutexPrioInv
<1>13. MutexHandInv'
  <2>1. \A n \in MutexId : \A u \in Handed(n)' : u \in Task /\ u # t /\ u \in Handed(n)
    BY <1>4 DEF Handed
  <2> QED BY <1>7, <2>1 DEF MutexInv, MutexHandInv
<1> QED BY <1>7, <1>8, <1>9, <1>10, <1>11, <1>12, <1>13 DEF MutexInv

LEMMA MutexRefusedInv ==
  ASSUME MutexInv, NEW t \in Task, NEW m \in MutexId, MutexAbandonRefused(t, m)
  PROVE  MutexInv'
<1>1. /\ pc[t] = "idle" /\ exstatus' = [exstatus EXCEPT ![t] = "ERROR"]
      /\ UNCHANGED <<mutex, cur_prio, target, times, held, tidy, delayed, pc>>
  BY DEF MutexAbandonRefused, mutexVars, history
<1>2. exstatus' \in [Task -> Status] /\ \A u \in Task : pc[u] # "idle" => exstatus'[u] = exstatus[u]
  BY <1>1, MutexFacts DEF Status
<1>3. \A n \in MutexId : Handed(n)' = Handed(n)
  BY <1>1, <1>2 DEF Handed
<1>4. MutexTypeOK' /\ pc' \in [Task -> MutexPlaces]
  BY <1>1, <1>2 DEF MutexInv, MutexTypeOK
<1>5. MutexListInv'
  BY <1>1, <1>2, MutexFacts DEF MutexInv, MutexListInv
<1>6. MutexHoldInv' /\ MutexHeldInv' /\ NoWaiterOnFreeMutex' /\ PriorityRestored'
  BY <1>1 DEF MutexInv, MutexHoldInv, MutexHeldInv, NoWaiterOnFreeMutex, PriorityRestored
<1>7. MutualExclusion' /\ MutexHandInv' /\ MutexPrioInv'
  BY <1>1, <1>3 DEF MutexInv, MutualExclusion, MutexHandInv, MutexPrioInv
<1> QED BY <1>4, <1>5, <1>6, <1>7 DEF MutexInv

(* The last release of a mutex by t: the first waiter, if there is one, is *)
(* the holder.                                                             *)
LEMMA MutexReleaseInv ==
  ASSUME MutexInv, NEW t \in Task, NEW m \in MutexId, pc[t] = "idle", mutex[m].holder = t,
         mutex[m].recursive_cnt = 1, Release(m), GaveBack(t, m),
         UNCHANGED <<target, exstatus, pc>>
  PROVE  MutexInv'
<1> DEFINE M == mutex[m]
           f == IF M.pend_list # <<>> THEN Head(M.pend_list) ELSE NoTask
           w == IF M.pend_list # <<>> THEN Tail(M.pend_list) ELSE M.pend_list
<1>1. /\ M.alive /\ M.val = 0 /\ times[t][m] = 1 /\ t # NoTask
      /\ M.pend_list \in Seq(Task) /\ IsInjective(M.pend_list)
  <2>1. t # NoTask
    BY MutexAssumption
  <2>2. M.alive /\ M.val = 0
    BY <2>1 DEF MutexInv, MutexHoldInv, NoWaiterOnFreeMutex
  <2>3. times[t][m] = 1
    BY IdleFacts
  <2> QED BY <2>1, <2>2, <2>3, MutexFacts DEF MutexInv, MutexListInv
<1>2. /\ w \in Seq(Task) /\ IsInjective(w) /\ Range(w) = Range(M.pend_list) \ {f}
      /\ f = NoTask \/ f \in Range(M.pend_list)
      /\ w # <<>> => f # NoTask
  <2>1. Range(M.pend_list) \subseteq Task /\ NoTask \notin Task
    BY MutexFacts
  <2>2. CASE M.pend_list # <<>>
    BY <1>1, <2>1, <2>2, TailElements
  <2>3. CASE M.pend_list = <<>>
    BY <1>1, <2>3, EmptyElements
  <2> QED BY <2>2, <2>3
<1>3. /\ mutex'[m].holder = f /\ mutex'[m].pend_list = w /\ mutex'[m].alive
      /\ mutex'[m].val = (IF f = NoTask THEN 1 ELSE 0)
      /\ mutex'[m].recursive_cnt = (IF f = NoTask THEN 0 ELSE 1)
      /\ f # NoTask => mutex'[m].origin_prio = cur_prio'[f]
      /\ delayed' = delayed \ {f} /\ mutex' \in [MutexId -> MutexRecord]
      /\ \A n \in MutexId \ {m} : mutex'[n] = mutex[n]
      /\ cur_prio' = [cur_prio EXCEPT ![t] = M.origin_prio]
  <2>1. cur_prio' = [cur_prio EXCEPT ![t] = M.origin_prio]
    BY DEF Release
  <2>2. cur_prio' \in [Task -> Nat]
    BY <2>1, MutexFacts
  <2>3. mutex \in [MutexId -> MutexRecord] /\ M \in MutexRecord
    BY MutexFacts
  <2>4. delayed \subseteq Task /\ NoTask \notin Task /\ CntMod \in Nat /\ CntMod > 1
        /\ Range(M.pend_list) \subseteq Task
    BY MutexFacts
  <2>5. CASE M.pend_list # <<>>
    <3>1. f # NoTask /\ f \in Task
      BY <1>1, <2>4, <2>5, TailElements
    <3>2. f = Head(M.pend_list) /\ w = Tail(M.pend_list)
      BY <2>5
    <3>3. /\ mutex' = [mutex EXCEPT ![m].holder = f, ![m].origin_prio = cur_prio'[f],
                                    ![m].recursive_cnt = 1, ![m].pend_list = w]
          /\ delayed' = delayed \ {f}
      BY <2>5, <3>2 DEF Release, Woken
    <3> HIDE DEF f, w
    <3>4. mutex' \in [MutexId -> MutexRecord]
      <4>1. 1 \in 0 .. CntMod - 1 /\ cur_prio'[f] \in Nat
        BY <2>2, <2>4, <3>1
      <4>2. [M EXCEPT !.holder = f, !.origin_prio = cur_prio'[f], !.recursive_cnt = 1,
                      !.pend_list = w] \in MutexRecord
        BY <1>2, <2>3, <3>1, <4>1 DEF MutexRecord
      <4>3. mutex' = [mutex EXCEPT ![m] = [M EXCEPT !.holder = f, !.origin_prio = cur_prio'[f],
                                           !.recursive_cnt = 1, !.pend_list = w]]
        BY <2>3, <3>3
      <4> QED BY <2>3, <4>2, <4>3
    <3>5. /\ mutex'[m].holder = f /\ mutex'[m].pend_list = w /\ mutex'[m].alive = M.alive
          /\ mutex'[m].val = M.val /\ mutex'[m].recursive_cnt = 1
          /\ mutex'[m].origin_prio = cur_prio'[f]
          /\ \A n \in MutexId \ {m} : mutex'[n] = mutex[n]
      BY <2>3, <3>3 DEF MutexRecord
    <3> QED BY <1>1, <2>1, <3>1, <3>3, <3>4, <3>5
  <2>6. CASE M.pend_list = <<>>
    <3>1. f = NoTask /\ w = M.pend_list
      BY <2>6
    <3>2. /\ mutex' = [mutex EXCEPT ![m].val = @ + 1, ![m].holder = NoTask,
                                    ![m].origin_prio = 255, ![m].recursive_cnt = 0]
          /\ delayed' = delayed
      BY <2>6 DEF Release
    <3> HIDE DEF f, w
    <3>3. mutex' \in [MutexId -> MutexRecord]
      <4> DEFINE v == M.val + 1
                 o == 255
                 z == 0
      <4>1. z \in 0 .. CntMod - 1 /\ v \in 0 .. 1 /\ o \in Nat
        BY <1>1, <2>4
      <4>2. mutex' = [mutex EXCEPT ![m] = [M EXCEPT !.val = v, !.holder = NoTask,
                                           !.origin_prio = o, !.recursive_cnt = z]]
        BY <2>3, <3>2, ZenonT(40)
      <4> HIDE DEF v, o, z
      <4>3. [M EXCEPT !.val = v, !.holder = NoTask, !.origin_prio = o,
                      !.recursive_cnt = z] \in MutexRecord
        BY <2>3, <4>1 DEF MutexRecord
      <4> QED BY <2>3, <4>2, <4>3
    <3>4. /\ mutex'[m].holder = NoTask /\ mutex'[m].pend_list = M.pend_list
          /\ mutex'[m].alive = M.alive /\ mutex'[m].val = 1 /\ mutex'[m].recursive_cnt = 0
          /\ \A n \in MutexId \ {m} : mutex'[n] = mutex[n]
      BY <1>1, <2>3, <3>2 DEF MutexRecord
    <3>5. delayed' = delayed \ {f}
      BY <2>4, <3>1, <3>2
    <3> QED BY <1>1, <2>1, <3>1, <3>3, <3>4, <3>5
  <2> QED BY <2>5, <2>6
<1> HIDE DEF f, w
<1>4. f # NoTask => /\ f \in Task /\ f # t /\ pc[f] = "mutex_wait" /\ exstatus[f] = "EOK"
                    /\ target[f] = m /\ times[f][m] = 0
                    /\ \A n \in MutexId : f \notin Handed(n)
  <2> SUFFICES ASSUME f # NoTask
               PROVE  /\ f \in Task /\ f # t /\ pc[f] = "mutex_wait" /\ exstatus[f] = "EOK"
                      /\ target[f] = m /\ times[f][m] = 0
                      /\ \A n \in MutexId : f \notin Handed(n)
    OBVIOUS
  <2>1. f \in Range(M.pend_list)
    BY <1>2
  <2>2. f \in Task
    BY <2>1, MutexFacts
  <2>3. pc[f] = "mutex_wait" /\ exstatus[f] = "EOK" /\ target[f] = m
    BY <2>1 DEF MutexInv, MutexListInv
  <2>4. times[f][m] = 0 /\ \A n \in MutexId : f \notin Handed(n)
    BY <2>1, <2>2, HolderFacts
  <2> QED BY <2>2, <2>3, <2>4
<1>5. Handed(m)' = {f} \ {NoTask} /\ \A n \in MutexId \ {m} : Handed(n)' = Handed(n)
  <2>1. \A u \in Task : u \notin Handed(m)
    BY IdleFacts, HolderFacts
  <2>2. ASSUME NEW u \in Task PROVE u \in Handed(m)' <=> (u = f)
    <3>1. CASE u = f
      <4>1. f # NoTask
        BY <3>1, MutexAssumption
      <4> QED BY <1>2, <1>3, <1>4, <3>1, <4>1 DEF Handed
    <3>2. CASE u # f
      BY <1>2, <1>3, <2>1, <3>2 DEF Handed
    <3> QED BY <3>1, <3>2
  <2>3. f = NoTask \/ f \in Task
    BY <1>4
  <2>4. Handed(m)' \subseteq Task /\ NoTask \notin Task
    BY MutexAssumption DEF Handed
  <2>5. Handed(m)' = {f} \ {NoTask}
    BY <2>2, <2>3, <2>4
  <2> QED BY <1>3, <2>5 DEF Handed
<1>6. /\ times' \in [Task -> [MutexId -> Nat]] /\ held' \in [Task -> Seq(MutexId)]
      /\ tidy' \subseteq tidy /\ MutexHeldInv'
      /\ \A u \in Task, n \in MutexId :
            times'[u][n] = IF u = t /\ n = m THEN times[u][n] - 1 ELSE times[u][n]
      /\ \A u \in Task \ {t} : held'[u] = held[u]
      /\ t \in tidy' => /\ held[t] # <<>>
                        /\ held'[t] # <<>> => held'[t][1] = held[t][1]
                        /\ held'[t] = <<>> => held[t][1] = m
  BY <1>1, GaveBackHeld
<1>7. MutexTypeOK' /\ pc' \in [Task -> MutexPlaces]
  <2>1. cur_prio' \in [Task -> Nat]
    BY <1>3, MutexFacts
  <2>2. tidy' \subseteq Task /\ delayed' \subseteq Task
    BY <1>3, <1>6, MutexFacts
  <2> QED BY <1>3, <1>6, <2>1, <2>2 DEF MutexInv, MutexTypeOK, MutexRecord
<1>8. MutexListInv'
  <2>1. \A n \in MutexId : IsInjective(mutex'[n].pend_list)
    BY <1>2, <1>3 DEF MutexInv, MutexListInv
  <2>2. \A n \in MutexId : Range(mutex'[n].pend_list) = Range(mutex[n].pend_list) \ {f}
    <3>1. \A n \in MutexId \ {m} : f \notin Range(mutex[n].pend_list)
      <4>1. \A n \in MutexId : NoTask \notin Range(mutex[n].pend_list)
        BY MutexFacts
      <4> QED BY <1>4, <4>1 DEF MutexInv, MutexListInv
    <3> QED BY <1>2, <1>3, <3>1
  <2>3. \A n \in MutexId : \A u \in Range(mutex'[n].pend_list) :
           pc'[u] = "mutex_wait" /\ exstatus'[u] = "EOK" /\ target'[u] = n
    BY <2>2 DEF MutexInv, MutexListInv
  <2>4. \A u \in Task : u \in delayed' <=> \E n \in MutexId : u \in Range(mutex'[n].pend_list)
    <3> SUFFICES ASSUME NEW u \in Task
                 PROVE  u \in delayed' <=> \E n \in MutexId : u \in Range(mutex'[n].pend_list)
      OBVIOUS
    <3>1. u \in delayed <=> \E n \in MutexId : u \in Range(mutex[n].pend_list)
      BY DEF MutexInv, MutexListInv
    <3> QED BY <1>3, <2>2, <3>1
  <2> QED BY <2>1, <2>3, <2>4 DEF MutexInv, MutexListInv
<1>9. MutexHoldInv'
  BY <1>3 DEF MutexInv, MutexHoldInv
<1>10. MutexHandInv'
  <2>1. \A n \in MutexId : \A u \in Handed(n)' : u \in Task /\ u # t /\ times[u][n] = 0
    <3>1. \A u \in Handed(m)' : u \in Task /\ u # t /\ times[u][m] = 0
      BY <1>4, <1>5
    <3>2. \A n \in MutexId \ {m} : \A u \in Handed(n) : u \in Task /\ u # t /\ times[u][n] = 0
      BY IdleFacts DEF MutexInv, MutexHandInv, Handed
    <3> QED BY <1>5, <3>1, <3>2
  <2>2. ASSUME NEW n \in MutexId, NEW u \in Handed(n)' PROVE times'[u][n] = 0
    <3>1. u \in Task /\ u # t /\ times[u][n] = 0
      BY <2>1
    <3> QED BY <1>6, <3>1
  <2> QED BY <2>2 DEF MutexHandInv
<1>11. MutualExclusion'
  <2> SUFFICES ASSUME NEW n \in MutexId, NEW u \in Task
               PROVE  times'[u][n] + (IF u \in Handed(n)' THEN 1 ELSE 0) =
                      IF mutex'[n].holder = u THEN mutex'[n].recursive_cnt ELSE 0
    BY DEF MutualExclusion
  <2>1. times[u][n] + (IF u \in Handed(n) THEN 1 ELSE 0) =
           IF mutex[n].holder = u THEN mutex[n].recursive_cnt ELSE 0
    BY DEF MutexInv, MutualExclusion
  <2>2. CASE n # m
    BY <1>3, <1>5, <1>6, <2>1, <2>2
  <2>3. CASE n = m /\ u = f
    BY <1>3, <1>4, <1>5, <1>6, <2>3, MutexAssumption
  <2>4. CASE n = m /\ u # f
    <3>1. u \notin Handed(n)' /\ mutex'[n].holder # u
      BY <1>3, <1>5, <2>4
    <3>2. u # t => times[u][m] = 0
      BY HolderFacts
    <3>3. times'[u][n] = 0
      BY <1>1, <1>6, <2>4, <3>2
    <3> QED BY <3>1, <3>3
  <2> QED BY <2>2, <2>3, <2>4
<1>12. NoWaiterOnFreeMutex'
  <2> SUFFICES ASSUME NEW n \in MutexId
        PROVE  /\ mutex'[n].pend_list # <<>> => mutex'[n].alive /\ mutex'[n].holder # NoTask
               /\ mutex'[n].val = (IF mutex'[n].holder = NoTask THEN 1 ELSE 0)
               /\ \A u \in Range(mutex'[n].pend_list) : u # mutex'[n].holder /\ target'[u] = n
    BY DEF NoWaiterOnFreeMutex
  <2>1. CASE n = m
    BY <1>2, <1>3, <1>8, <2>1 DEF MutexListInv
  <2>2. CASE n # m
    <3>1. mutex'[n] = mutex[n] /\ target' = target
      BY <1>3, <2>2
    <3> QED BY <3>1 DEF MutexInv, NoWaiterOnFreeMutex
  <2> QED BY <2>1, <2>2
<1>13. /\ cur_prio'[t] = M.origin_prio /\ M.origin_prio >= CurPrio[t]
       /\ \A u \in Task \ {t} : cur_prio'[u] = cur_prio[u] /\ cur_prio[u] >= CurPrio[u]
  <2>1. cur_prio'[t] = M.origin_prio /\ \A u \in Task \ {t} : cur_prio'[u] = cur_prio[u]
    BY <1>3, MutexFacts
  <2>2. \A u \in Task : cur_prio[u] >= CurPrio[u]
    BY DEF MutexInv, PriorityRestored
  <2>3. M.origin_prio >= CurPrio[t]
    BY <1>1 DEF MutexInv, MutexPrioInv
  <2> QED BY <2>1, <2>2, <2>3
<1>14. t \in tidy' /\ held'[t] = <<>> => M.origin_prio = CurPrio[t]
  BY <1>6, FirstHeld
<1>15. PriorityRestored'
  <2> SUFFICES ASSUME NEW u \in tidy', u \in Task, \A n \in MutexId : mutex'[n].holder # u
               PROVE  cur_prio'[u] = CurPrio[u]
    BY <1>13 DEF PriorityRestored
  <2>1. CASE u = t
    <3>1. ASSUME held'[t] # <<>> PROVE FALSE
      <4>1. PICK k \in MutexId : k \in Range(held'[t])
        <5>1. held'[t][1] \in MutexId /\ held'[t][1] \in Range(held'[t])
          BY <1>6, <3>1 DEF Range
        <5> QED BY <5>1
      <4>2. times'[t][k] > 0
        BY <1>6, <4>1 DEF MutexHeldInv
      <4>3. times'[t][k] + (IF t \in Handed(k)' THEN 1 ELSE 0) = 0
        <5>1. times'[t][k] + (IF t \in Handed(k)' THEN 1 ELSE 0) =
                 IF mutex'[k].holder = t THEN mutex'[k].recursive_cnt ELSE 0
          BY <1>11, <4>1 DEF MutualExclusion
        <5>2. mutex'[k].holder # t
          BY <2>1, <4>1
        <5> QED BY <5>1, <5>2
      <4> QED BY <1>6, <4>1, <4>2, <4>3
    <3> QED BY <1>13, <1>14, <2>1, <3>1
  <2>2. CASE u # t
    <3>1. \A n \in MutexId : mutex[n].holder # u
      BY <1>3, <2>2
    <3> QED BY <1>6, <1>13, <2>2, <3>1 DEF MutexInv, PriorityRestored
  <2> QED BY <2>1, <2>2
<1>16. MutexPrioInv'
  <2>1. \A n \in MutexId, u \in Task :
           mutex'[n].holder = u => mutex'[n].origin_prio >= CurPrio[u]
    <3>1. f # NoTask => mutex'[m].origin_prio >= CurPrio[f]
      BY <1>3, <1>4, <1>13
    <3> QED BY <1>3, <3>1, MutexAssumption DEF MutexInv, MutexPrioInv
  <2>2. ASSUME NEW u \in tidy', held'[u] # <<>>
        PROVE  mutex'[held'[u][1]].origin_prio = CurPrio[u]
    <3>1. u \in Task /\ u \in tidy
      BY <1>6, MutexFacts
    <3>2. held[u] # <<>> /\ held'[u][1] = held[u][1]
      BY <1>6, <2>2, <3>1
    <3>3. held[u][1] \in MutexId /\ mutex[held[u][1]].origin_prio = CurPrio[u]
          /\ mutex[held[u][1]].holder = u
      BY <3>1, <3>2, FirstHeld
    <3>4. held[u][1] # m
      <4>1. held'[u][1] \in MutexId /\ held'[u][1] \in Range(held'[u])
        BY <1>6, <2>2, <3>1 DEF Range
      <4>2. times'[u][held[u][1]] > 0
        BY <1>6, <3>1, <3>2, <4>1 DEF MutexHeldInv
      <4>3. u = t => times'[u][m] = 0
        BY <1>1, <1>6
      <4> QED BY <3>3, <4>2, <4>3
    <3> QED BY <1>3, <3>2, <3>3, <3>4
  <2>3. ASSUME NEW n \in MutexId, NEW u \in tidy', held'[u] = <<>>, u \in Handed(n)'
        PROVE  mutex'[n].origin_prio = CurPrio[u]
    <3>1. u \in Task /\ u \in tidy
      BY <1>6, MutexFacts
    <3>2. u # t /\ held[u] = <<>>
      BY <1>6, <2>3, <3>1 DEF Handed
    <3>3. CASE n = m
      <4>1. u = f /\ f # NoTask
        BY <1>5, <2>3, <3>3
      <4>2. \A k \in MutexId : mutex[k].holder # u
        BY <1>4, <3>1, <3>2, <4>1, NothingHeld
      <4>3. cur_prio[u] = CurPrio[u]
        BY <3>1, <4>2 DEF MutexInv, PriorityRestored
      <4> QED BY <1>3, <1>13, <3>1, <3>2, <3>3, <4>1, <4>3
    <3>4. CASE n # m
      BY <1>3, <1>5, <2>3, <3>1, <3>2, <3>4 DEF MutexInv, MutexPrioInv
    <3> QED BY <3>3, <3>4
  <2> QED BY <2>1, <2>2, <2>3 DEF MutexPrioInv
<1> QED BY <1>6, <1>7, <1>8, <1>9, <1>10, <1>11, <1>12, <1>15, <1>16 DEF MutexInv

LEMMA MutexAbandonInv ==
  ASSUME MutexInv, NEW t \in Task, NEW m \in MutexId, MutexAbandon(t, m)
  PROVE  MutexInv'
<1> DEFINE M == mutex[m]
<1>1. /\ pc[t] = "idle" /\ M.alive /\ M.holder = t /\ GaveBack(t, m)
      /\ UNCHANGED <<target, exstatus, pc>>
  BY DEF MutexAbandon
<1>2. M.recursive_cnt \in 1 .. CntMod - 1 /\ times[t][m] = M.recursive_cnt
  <2>1. M.recursive_cnt > 0
    BY <1>1, MutexAssumption DEF MutexInv, MutexHoldInv
  <2> QED BY <1>1, <2>1, IdleFacts, MutexFacts
<1>3. (M.recursive_cnt - 1) % CntMod = M.recursive_cnt - 1 /\ M.recursive_cnt - 1 \in 0 .. CntMod - 1
  <2>1. M.recursive_cnt - 1 \in 0 .. CntMod - 1 /\ CntMod \in Nat
    BY <1>2, MutexFacts
  <2> QED BY <2>1, NoWrap
<1>4. CASE M.recursive_cnt = 1
  <2>1. (M.recursive_cnt - 1) % CntMod = 0
    BY <1>3, <1>4
  <2>2. Release(m)
    BY <2>1 DEF MutexAbandon
  <2> QED BY <1>1, <1>4, <2>2, MutexReleaseInv
<1>5. CASE M.recursive_cnt # 1
  <2> DEFINE c == (M.recursive_cnt - 1) % CntMod
  <2>1. c # 0 /\ c = M.recursive_cnt - 1 /\ c \in 0 .. CntMod - 1
    BY <1>2, <1>3, <1>5
  <2>2. mutex' = [mutex EXCEPT ![m].recursive_cnt = c] /\ UNCHANGED <<cur_prio, delayed>>
    BY <2>1 DEF MutexAbandon
  <2> HIDE DEF c
  <2>3. mutex \in [MutexId -> MutexRecord] /\ M \in MutexRecord
    BY MutexFacts
  <2>4. mutex' \in [MutexId -> MutexRecord]
    <3>1. [M EXCEPT !.recursive_cnt = c] \in MutexRecord
      BY <2>1, <2>3 DEF MutexRecord
    <3>2. mutex' = [mutex EXCEPT ![m] = [M EXCEPT !.recursive_cnt = c]]
      BY <2>2
    <3> QED BY <2>3, <3>1, <3>2
  <2>5. /\ mutex'[m].recursive_cnt = c /\ \A n \in MutexId \ {m} : mutex'[n] = mutex[n]
        /\ \A n \in MutexId : /\ mutex'[n].holder = mutex[n].holder
                              /\ mutex'[n].val = mutex[n].val
                              /\ mutex'[n].alive = mutex[n].alive
                              /\ mutex'[n].origin_prio = mutex[n].origin_prio
                              /\ mutex'[n].pend_list = mutex[n].pend_list
    BY <2>2, <2>3 DEF MutexRecord
  <2>6. /\ times' \in [Task -> [MutexId -> Nat]] /\ held' \in [Task -> Seq(MutexId)]
        /\ tidy' \subseteq tidy /\ MutexHeldInv'
        /\ \A u \in Task, n \in MutexId :
              times'[u][n] = IF u = t /\ n = m THEN times[u][n] - 1 ELSE times[u][n]
        /\ \A u \in Task : held'[u] = held[u]
    BY <1>1, <1>2, <1>5, GaveBackHeld
  <2>7. \A n \in MutexId : Handed(n)' = Handed(n)
    BY <1>1, <2>5 DEF Handed
  <2>8. tidy \subseteq Task
    BY MutexFacts
  <2>9. MutexTypeOK' /\ pc' \in [Task -> MutexPlaces]
    BY <1>1, <2>2, <2>4, <2>6, <2>8 DEF MutexInv, MutexTypeOK, MutexRecord
  <2>10. MutexListInv'
    BY <1>1, <2>2, <2>5 DEF MutexInv, MutexListInv
  <2>11. MutexHoldInv'
    <3>1. c > 0
      BY <2>1, MutexFacts
    <3>2. mutex'[m].holder # NoTask /\ mutex'[m].recursive_cnt > 0 /\ mutex'[m].alive
      BY <1>1, <2>5, <3>1, MutexAssumption
    <3> QED BY <2>5, <3>2 DEF MutexInv, MutexHoldInv
  <2>12. MutexHandInv'
    <3>1. \A n \in MutexId : \A u \in Handed(n) : u \in Task /\ u # t /\ times[u][n] = 0
      BY <1>1, IdleFacts DEF MutexInv, MutexHandInv, Handed
    <3>2. \A n \in MutexId : \A u \in Handed(n)' : times'[u][n] = 0
      BY <2>6, <2>7, <3>1
    <3> QED BY <3>2 DEF MutexHandInv
  <2>13. MutualExclusion'
    <3> SUFFICES ASSUME NEW n \in MutexId, NEW u \in Task
                 PROVE  times'[u][n] + (IF u \in Handed(n)' THEN 1 ELSE 0) =
                        IF mutex'[n].holder = u THEN mutex'[n].recursive_cnt ELSE 0
      BY DEF MutualExclusion
    <3>1. times[u][n] + (IF u \in Handed(n) THEN 1 ELSE 0) =
             IF mutex[n].holder = u THEN mutex[n].recursive_cnt ELSE 0
      BY DEF MutexInv, MutualExclusion
    <3>2. CASE n # m
      BY <2>5, <2>6, <2>7, <3>1, <3>2
    <3>3. CASE n = m /\ u = t
      <4>1. u \notin Handed(n)'
        BY <1>1, <2>7, <3>3, IdleFacts
      <4> QED BY <1>1, <1>2, <2>1, <2>5, <2>6, <3>3, <4>1
    <3>4. CASE n = m /\ u # t
      BY <1>1, <2>5, <2>6, <2>7, <3>1, <3>4
    <3> QED BY <3>2, <3>3, <3>4
  <2>14. NoWaiterOnFreeMutex'
    BY <1>1, <2>5 DEF MutexInv, NoWaiterOnFreeMutex
  <2>15. PriorityRestored'
    <3> SUFFICES ASSUME NEW u \in Task
                 PROVE  /\ cur_prio'[u] >= CurPrio[u]
                        /\ u \in tidy' /\ (\A n \in MutexId : mutex'[n].holder # u)
                              => cur_prio'[u] = CurPrio[u]
      BY DEF PriorityRestored
    <3>1. /\ cur_prio[u] >= CurPrio[u]
          /\ u \in tidy /\ (\A n \in MutexId : mutex[n].holder # u) => cur_prio[u] = CurPrio[u]
      BY DEF MutexInv, PriorityRestored
    <3> QED BY <2>2, <2>5, <2>6, <3>1
  <2>16. MutexPrioInv'
    <3>1. \A u \in tidy' : u \in tidy /\ held'[u] = held[u]
                           /\ (held[u] # <<>> => held[u][1] \in MutexId)
      BY <2>6, <2>8, FirstHeld
    <3> QED BY <2>5, <2>7, <3>1 DEF MutexInv, MutexPrioInv
  <2> QED BY <2>6, <2>9, <2>10, <2>11, <2>12, <2>13, <2>14, <2>15, <2>16 DEF MutexInv
<1> QED BY <1>4, <1>5

(* The waiters of a mutex are woken with an error; a mutex that was handed *)
(* to nobody has no waiter left that was told otherwise.                   *)
LEMMA MutexDeleteInv ==
  ASSUME MutexInv, NEW t \in Task, NEW m \in MutexId, MutexDelete(t, m)
  PROVE  MutexInv'
<1> DEFINE M == mutex[m]
           e == <<>>
<1>1. /\ pc[t] = "idle" /\ delayed' = delayed \ Range(M.pend_list)
      /\ exstatus' = [u \in Task |-> IF u \in Range(M.pend_list) THEN "ERROR" ELSE exstatus[u]]
      /\ mutex' = [mutex EXCEPT ![m].pend_list = e]
      /\ target' = [target EXCEPT ![t] = m] /\ pc' = [pc EXCEPT ![t] = "mutex_delete"]
      /\ UNCHANGED <<cur_prio, times, held, tidy>>
  BY DEF MutexDelete, LinklistResumeAll, Woken, history
<1>2. e \in Seq(Task) /\ IsInjective(e) /\ Range(e) = {}
  BY EmptyElements
<1>3. mutex \in [MutexId -> MutexRecord] /\ M \in MutexRecord
  BY MutexFacts
<1> HIDE DEF e
<1>4. /\ mutex'[m].pend_list = e /\ \A n \in MutexId \ {m} : mutex'[n] = mutex[n]
      /\ \A n \in MutexId : /\ mutex'[n].holder = mutex[n].holder
                            /\ mutex'[n].val = mutex[n].val
                            /\ mutex'[n].alive = mutex[n].alive
                            /\ mutex'[n].origin_prio = mutex[n].origin_prio
                            /\ mutex'[n].recursive_cnt = mutex[n].recursive_cnt
  BY <1>1, <1>3 DEF MutexRecord
<1>5. mutex' \in [MutexId -> MutexRecord]
  <2>1. [M EXCEPT !.pend_list = e] \in MutexRecord
    BY <1>2, <1>3 DEF MutexRecord
  <2>2. mutex' = [mutex EXCEPT ![m] = [M EXCEPT !.pend_list = e]]
    BY <1>1
  <2> QED BY <1>3, <2>1, <2>2
<1>6. /\ pc' \in [Task -> MutexPlaces] /\ pc' \in [Task -> Places]
      /\ target' \in [Task -> MutexId \cup {NoMutex}]
      /\ \A u \in Task : pc'[u] = "mutex_wait" <=> pc[u] = "mutex_wait"
      /\ \A u \in Task : pc[u] = "mutex_wait" => target'[u] = target[u]
  <2>1. pc \in [Task -> Places]
    BY DEF MutexInv, MutexTypeOK
  <2> QED BY <1>1, <2>1, MutexFacts DEF MutexPlaces, Places
<1>7. MutexTypeOK'
  <2>1. exstatus' \in [Task -> Status] /\ delayed' \subseteq Task
    BY <1>1, MutexFacts DEF Status
  <2> QED BY <1>1, <1>5, <1>6, <2>1 DEF MutexInv, MutexTypeOK, MutexRecord
<1>8. \A n \in MutexId : Range(mutex'[n].pend_list) = Range(mutex[n].pend_list) \ Range(M.pend_list)
  <2>1. \A n \in MutexId \ {m} : Range(mutex[n].pend_list) \cap Range(M.pend_list) = {}
    BY DEF MutexInv, MutexListInv
  <2> QED BY <1>2, <1>4, <2>1
<1>9. \A n \in MutexId : Handed(n)' = Handed(n)
  <2> SUFFICES ASSUME NEW n \in MutexId, NEW u \in Task
               PROVE  u \in Handed(n)' <=> u \in Handed(n)
    BY DEF Handed
  <2>1. CASE u \in Range(M.pend_list)
    <3>1. u \notin Handed(n)
      BY <2>1, HolderFacts
    <3>2. exstatus'[u] = "ERROR"
      BY <1>1, <2>1
    <3> QED BY <3>1, <3>2 DEF Handed
  <2>2. CASE u \notin Range(M.pend_list)
    <3>1. exstatus'[u] = exstatus[u]
          /\ (u \in Range(mutex'[n].pend_list) <=> u \in Range(mutex[n].pend_list))
      BY <1>1, <1>8, <2>2
    <3> QED BY <1>6, <3>1 DEF Handed
  <2> QED BY <2>1, <2>2
<1>10. MutexListInv'
  <2>1. \A n \in MutexId : IsInjective(mutex'[n].pend_list)
    BY <1>2, <1>4 DEF MutexInv, MutexListInv
  <2>2. ASSUME NEW n \in MutexId, NEW u \in Range(mutex'[n].pend_list)
        PROVE  pc'[u] = "mutex_wait" /\ exstatus'[u] = "EOK" /\ target'[u] = n
    <3>1. u \in Range(mutex[n].pend_list) /\ u \notin Range(M.pend_list)
      BY <1>8
    <3>2. u \in Task
      BY <3>1, MutexFacts
    <3> QED BY <1>1, <1>6, <3>1, <3>2 DEF MutexInv, MutexListInv
  <2>3. ASSUME NEW u \in Task
        PROVE  u \in delayed' <=> \E n \in MutexId : u \in Range(mutex'[n].pend_list)
    <3>1. u \in delayed <=> \E n \in MutexId : u \in Range(mutex[n].pend_list)
      BY DEF MutexInv, MutexListInv
    <3> QED BY <1>1, <1>8, <3>1
  <2>4. \A u \in Task : pc'[u] = "mutex_wait" => target'[u] \in MutexId
    BY <1>6 DEF MutexInv, MutexListInv
  <2> QED BY <2>1, <2>2, <2>3, <2>4 DEF MutexListInv
<1>11. MutexHoldInv' /\ MutexHeldInv' /\ PriorityRestored'
  BY <1>1, <1>4 DEF MutexInv, MutexHoldInv, MutexHeldInv, PriorityRestored
<1>12. MutualExclusion' /\ MutexHandInv'
  BY <1>1, <1>4, <1>9 DEF MutexInv, MutualExclusion, MutexHandInv
<1>13. NoWaiterOnFreeMutex'
  <2>1. \A n \in MutexId : mutex'[n].pend_list # <<>> => mutex[n].pend_list # <<>>
    <3>1. e = <<>>
      BY DEF e
    <3> QED BY <1>4, <3>1
  <2>2. ASSUME NEW n \in MutexId, NEW u \in Range(mutex'[n].pend_list)
        PROVE  u \in Range(mutex[n].pend_list) /\ target'[u] = target[u]
    <3>1. u \in Range(mutex[n].pend_list)
      BY <1>8
    <3>2. u \in Task /\ pc[u] = "mutex_wait"
      BY <3>1, MutexFacts DEF MutexInv, MutexListInv
    <3> QED BY <1>6, <3>1, <3>2
  <2> QED BY <1>4, <2>1, <2>2 DEF MutexInv, NoWaiterOnFreeMutex
<1>14. MutexPrioInv'
  <2>1. \A u \in tidy : held[u] # <<>> => held[u][1] \in MutexId
    BY FirstHeld, MutexFacts
  <2> QED BY <1>1, <1>4, <1>9, <2>1 DEF MutexInv, MutexPrioInv
<1> QED BY <1>6, <1>7, <1>10, <1>11, <1>12, <1>13, <1>14 DEF MutexInv

(* The mutex is freed: nobody waits for it and nobody was handed it. *)
LEMMA MutexDeleteEndInv ==
  ASSUME MutexInv, MutexGoneInv, NEW t \in Task, MutexDeleteEnd(t)
  PROVE  MutexInv'
<1>0. PICK m \in MutexId : /\ m = target[t] /\ mutex[m].pend_list = <<>>
                          /\ Handed(m) = {} /\ pc[t] = "mutex_delete"
  BY GoneFacts DEF MutexDeleteEnd
<1> DEFINE M == mutex[m]
           h == M.holder
<1>1. /\ mutex' = [mutex EXCEPT ![m] = Fresh] /\ Lost(m)
      /\ target' = [target EXCEPT ![t] = NoMutex] /\ pc' = [pc EXCEPT ![t] = "idle"]
      /\ UNCHANGED <<cur_prio, exstatus, delayed>>
  <2> DEFINE e == <<>>
             b == FALSE
  <2>1. M.pend_list = e /\ Fresh = [alive |-> b, val |-> 1, holder |-> NoTask,
                         origin_prio |-> 255, recursive_cnt |-> 0, pend_list |-> e]
    BY <1>0 DEF Fresh
  <2> HIDE DEF e, b
  <2>2. [Fresh EXCEPT !.pend_list = M.pend_list] = Fresh
    BY <2>1
  <2> QED BY <1>0, <2>2 DEF MutexDeleteEnd
<1>2. /\ mutex'[m].val = 1 /\ mutex'[m].holder = NoTask
      /\ mutex'[m].recursive_cnt = 0 /\ mutex'[m].pend_list = <<>>
      /\ \A n \in MutexId \ {m} : mutex'[n] = mutex[n]
  BY <1>1, MutexFacts DEF Fresh
<1>3. mutex' \in [MutexId -> MutexRecord]
  <2> DEFINE e == <<>>
           b == FALSE
  <2>1. e \in Seq(Task) /\ 0 \in 0 .. CntMod - 1
    BY MutexFacts, EmptyElements
  <2>2. Fresh = [alive |-> b, val |-> 1, holder |-> NoTask, origin_prio |-> 255,
                 recursive_cnt |-> 0, pend_list |-> e]
    BY DEF Fresh
  <2>3. b \in BOOLEAN
    OBVIOUS
  <2> HIDE DEF e, b
  <2>4. Fresh \in MutexRecord
    BY <2>1, <2>2, <2>3 DEF MutexRecord
  <2> QED BY <1>1, <2>4, MutexFacts
<1>4. /\ times' \in [Task -> [MutexId -> Nat]] /\ held' \in [Task -> Seq(MutexId)]
      /\ tidy' = tidy \ {h} /\ MutexHeldInv'
      /\ \A u \in Task, n \in MutexId : times'[u][n] = IF n = m THEN 0 ELSE times[u][n]
      /\ \A u \in Task : u # h => held'[u] = held[u]
  BY <1>1, LostHeld
<1>5. /\ pc' \in [Task -> MutexPlaces] /\ pc' \in [Task -> Places]
      /\ target' \in [Task -> MutexId \cup {NoMutex}]
      /\ \A u \in Task : pc'[u] = "mutex_wait" <=> pc[u] = "mutex_wait"
      /\ \A u \in Task : pc[u] = "mutex_wait" => target'[u] = target[u]
  <2>1. pc \in [Task -> Places]
    BY DEF MutexInv, MutexTypeOK
  <2> QED BY <1>0, <1>1, <2>1, MutexFacts DEF MutexPlaces, Places
<1>6. MutexTypeOK' /\ pc' \in [Task -> MutexPlaces]
  <2>1. tidy' \subseteq Task /\ delayed' \subseteq Task
    BY <1>1, <1>4, MutexFacts
  <2> QED BY <1>1, <1>3, <1>4, <1>5, <2>1 DEF MutexInv, MutexTypeOK, MutexRecord
<1>8. Handed(m)' = {} /\ \A n \in MutexId \ {m} : Handed(n)' = Handed(n)
  <2>1. \A n \in MutexId : mutex'[n].pend_list = mutex[n].pend_list
    BY <1>0, <1>2
  <2> QED BY <1>0, <1>1, <1>5, <2>1 DEF Handed
<1>9. MutexListInv'
  <2>1. \A n \in MutexId : mutex'[n].pend_list = mutex[n].pend_list
    BY <1>0, <1>2
  <2>2. \A n \in MutexId : \A u \in Range(mutex[n].pend_list) : u \in Task
    BY MutexFacts
  <2> QED BY <1>1, <1>5, <2>1, <2>2 DEF MutexInv, MutexListInv
<1>10. MutexHoldInv'
  BY <1>2 DEF MutexInv, MutexHoldInv
<1>11. MutexHandInv'
  <2>1. \A n \in MutexId : \A u \in Handed(n)' :
           u \in Task /\ n # m /\ u \in Handed(n) /\ times[u][n] = 0
    BY <1>8 DEF MutexInv, MutexHandInv, Handed
  <2>2. \A n \in MutexId : \A u \in Handed(n)' : times'[u][n] = 0
    BY <1>4, <2>1
  <2> QED BY <2>2 DEF MutexHandInv
<1>12. MutualExclusion'
  <2> SUFFICES ASSUME NEW n \in MutexId, NEW u \in Task
               PROVE  times'[u][n] + (IF u \in Handed(n)' THEN 1 ELSE 0) =
                      IF mutex'[n].holder = u THEN mutex'[n].recursive_cnt ELSE 0
    BY DEF MutualExclusion
  <2>1. times[u][n] + (IF u \in Handed(n) THEN 1 ELSE 0) =
           IF mutex[n].holder = u THEN mutex[n].recursive_cnt ELSE 0
    BY DEF MutexInv, MutualExclusion
  <2>2. CASE n = m
    <3>1. Handed(n)' = {} /\ mutex'[n].recursive_cnt = 0 /\ times'[u][n] = 0
      BY <1>2, <1>4, <1>8, <2>2
    <3> QED BY <3>1
  <2>3. CASE n # m
    BY <1>2, <1>4, <1>8, <2>1, <2>3
  <2> QED BY <2>2, <2>3
<1>13. NoWaiterOnFreeMutex'
  <2> SUFFICES ASSUME NEW n \in MutexId
        PROVE  /\ mutex'[n].pend_list # <<>> => mutex'[n].alive /\ mutex'[n].holder # NoTask
               /\ mutex'[n].val = (IF mutex'[n].holder = NoTask THEN 1 ELSE 0)
               /\ \A u \in Range(mutex'[n].pend_list) : u # mutex'[n].holder /\ target'[u] = n
    BY DEF NoWaiterOnFreeMutex
  <2>1. CASE n = m
    BY <1>2, <2>1, EmptyElements
  <2>2. CASE n # m
    <3>1. mutex'[n] = mutex[n]
      BY <1>2, <2>2
    <3>2. \A u \in Range(mutex[n].pend_list) : target'[u] = target[u]
      BY <1>5, MutexFacts DEF MutexInv, MutexListInv
    <3> QED BY <3>1, <3>2 DEF MutexInv, NoWaiterOnFreeMutex
  <2> QED BY <2>1, <2>2
<1>14. PriorityRestored'
  <2>1. \A u \in Task : u # h /\ (\A n \in MutexId : mutex'[n].holder # u)
                          => \A n \in MutexId : mutex[n].holder # u
    BY <1>2
  <2> QED BY <1>1, <1>4, <2>1 DEF MutexInv, PriorityRestored
<1>15. MutexPrioInv'
  <2>1. \A n \in MutexId, u \in Task :
           mutex'[n].holder = u => mutex'[n].origin_prio >= CurPrio[u]
    BY <1>2, MutexAssumption DEF MutexInv, MutexPrioInv
  <2>2. ASSUME NEW u \in tidy', held'[u] # <<>>
        PROVE  mutex'[held'[u][1]].origin_prio = CurPrio[u]
    <3>1. u \in Task /\ u \in tidy /\ u # h /\ held'[u] = held[u]
      BY <1>4, MutexFacts
    <3>2. /\ held[u][1] \in MutexId /\ mutex[held[u][1]].origin_prio = CurPrio[u]
          /\ mutex[held[u][1]].holder = u
      BY <2>2, <3>1, FirstHeld
    <3> QED BY <1>2, <3>1, <3>2
  <2>3. ASSUME NEW n \in MutexId, NEW u \in tidy', held'[u] = <<>>, u \in Handed(n)'
        PROVE  mutex'[n].origin_prio = CurPrio[u]
    <3>1. u \in Task /\ u \in tidy /\ u # h /\ held'[u] = held[u]
      BY <1>4, MutexFacts
    <3>2. n # m /\ u \in Handed(n)
      BY <1>8, <2>3
    <3> QED BY <1>2, <2>3, <3>1, <3>2 DEF MutexInv, MutexPrioInv
  <2> QED BY <2>1, <2>2, <2>3 DEF MutexPrioInv
<1> QED BY <1>4, <1>6, <1>9, <1>10, <1>11, <1>12, <1>13, <1>14, <1>15 DEF MutexInv

LEMMA MutexTimeoutInv ==
  ASSUME MutexInv, NEW t \in Task, MutexTimeout(t)
  PROVE  MutexInv'
<1> DEFINE m == target[t]
           M == mutex[m]
           w == RmNode(M.pend_list, t)
<1>1. /\ t \in delayed /\ delayed' = delayed \ {t}
      /\ exstatus' = [exstatus EXCEPT ![t] = "ETIMEOUT"]
      /\ mutex' = [mutex EXCEPT ![m].pend_list = w]
      /\ UNCHANGED <<cur_prio, target, times, held, tidy, pc>>
  BY DEF MutexTimeout, TimedOut, history
<1>2. m \in MutexId /\ t \in Range(M.pend_list) /\ \A n \in MutexId \ {m} : t \notin Range(mutex[n].pend_list)
  <2>1. PICK n \in MutexId : t \in Range(mutex[n].pend_list)
    BY <1>1 DEF MutexInv, MutexListInv
  <2>2. \A k \in MutexId : t \in Range(mutex[k].pend_list) => target[t] = k
    BY DEF MutexInv, MutexListInv
  <2> QED BY <2>1, <2>2
<1>3. w \in Seq(Task) /\ IsInjective(w) /\ Range(w) = Range(M.pend_list) \ {t}
  <2>1. M.pend_list \in Seq(Task) /\ IsInjective(M.pend_list)
    BY <1>2, MutexFacts DEF MutexInv, MutexListInv
  <2> QED BY <2>1, RmNodeElements
<1> HIDE DEF w, m
<1>4. mutex \in [MutexId -> MutexRecord] /\ M \in MutexRecord
  BY <1>2, MutexFacts
<1>5. /\ mutex'[m].pend_list = w /\ \A n \in MutexId \ {m} : mutex'[n] = mutex[n]
      /\ \A n \in MutexId : /\ mutex'[n].holder = mutex[n].holder
                            /\ mutex'[n].val = mutex[n].val
                            /\ mutex'[n].alive = mutex[n].alive
                            /\ mutex'[n].origin_prio = mutex[n].origin_prio
                            /\ mutex'[n].recursive_cnt = mutex[n].recursive_cnt
  BY <1>1, <1>2, <1>4 DEF MutexRecord
<1>6. mutex' \in [MutexId -> MutexRecord]
  <2>1. [M EXCEPT !.pend_list = w] \in MutexRecord
    BY <1>3, <1>4 DEF MutexRecord
  <2>2. mutex' = [mutex EXCEPT ![m] = [M EXCEPT !.pend_list = w]]
    BY <1>1
  <2> QED BY <1>4, <2>1, <2>2
<1>7. exstatus'[t] = "ETIMEOUT" /\ \A u \in Task \ {t} : exstatus'[u] = exstatus[u]
  BY <1>1, MutexFacts
<1>8. MutexTypeOK' /\ pc' \in [Task -> MutexPlaces]
  <2>1. exstatus' \in [Task -> Status] /\ delayed' \subseteq Task
    BY <1>1, MutexFacts DEF Status
  <2> QED BY <1>1, <1>6, <2>1 DEF MutexInv, MutexTypeOK, MutexRecord
<1>9. \A n \in MutexId : Range(mutex'[n].pend_list) = Range(mutex[n].pend_list) \ {t}
  BY <1>2, <1>3, <1>5
<1>10. \A n \in MutexId : Handed(n)' = Handed(n)
  <2>1. \A n \in MutexId : t \notin Handed(n) /\ t \notin Handed(n)'
    BY <1>2, <1>7, HolderFacts DEF Handed
  <2> QED BY <1>1, <1>7, <1>9, <2>1 DEF Handed
<1>11. MutexListInv'
  <2>1. \A n \in MutexId : IsInjective(mutex'[n].pend_list)
    BY <1>3, <1>5 DEF MutexInv, MutexListInv
  <2>2. ASSUME NEW n \in MutexId, NEW u \in Range(mutex'[n].pend_list)
        PROVE  pc'[u] = "mutex_wait" /\ exstatus'[u] = "EOK" /\ target'[u] = n
    <3>1. u \in Range(mutex[n].pend_list) /\ u # t
      BY <1>9
    <3>2. u \in Task
      BY <3>1, MutexFacts
    <3> QED BY <1>1, <1>7, <3>1, <3>2 DEF MutexInv, MutexListInv
  <2>3. ASSUME NEW u \in Task
        PROVE  u \in delayed' <=> \E n \in MutexId : u \in Range(mutex'[n].pend_list)
    <3>1. u \in delayed <=> \E n \in MutexId : u \in Range(mutex[n].pend_list)
      BY DEF MutexInv, MutexListInv
    <3> QED BY <1>1, <1>9, <3>1
  <2>4. \A u \in Task : pc'[u] = "mutex_wait" => target'[u] \in MutexId
    BY <1>1 DEF MutexInv, MutexListInv
  <2> QED BY <2>1, <2>2, <2>3, <2>4 DEF MutexListInv
<1>12. MutexHoldInv' /\ MutexHeldInv' /\ PriorityRestored'
  BY <1>1, <1>5 DEF MutexInv, MutexHoldInv, MutexHeldInv, PriorityRestored
<1>13. MutualExclusion' /\ MutexHandInv'
  BY <1>1, <1>5, <1>10 DEF MutexInv, MutualExclusion, MutexHandInv
<1>14. NoWaiterOnFreeMutex'
  <2>1. \A n \in MutexId : mutex'[n].pend_list # <<>> => mutex[n].pend_list # <<>>
    BY <1>2, <1>5, EmptyElements
  <2> QED BY <1>1, <1>5, <1>9, <2>1 DEF MutexInv, NoWaiterOnFreeMutex
<1>15. MutexPrioInv'
  <2>1. \A u \in tidy : held[u] # <<>> => held[u][1] \in MutexId
    BY FirstHeld, MutexFacts
  <2> QED BY <1>1, <1>5, <1>10, <2>1 DEF MutexInv, MutexPrioInv
<1> QED BY <1>8, <1>11, <1>12, <1>13, <1>14, <1>15 DEF MutexInv

(* While a mutex is being deleted nobody starts to wait for it. *)
LEMMA MutexGoneNext ==
  ASSUME MutexDisciplined, MutexInv, MutexGoneInv, [MutexNext]_<<mutexVars, pendVars>>
  PROVE  MutexGoneInv'
<1>1. ASSUME UNCHANGED <<target, pc>>,
             \A u \in Task : pc[u] = "mutex_wait" /\ exstatus'[u] = "EOK" => exstatus[u] = "EOK"
      PROVE  MutexGoneInv'
  BY <1>1 DEF MutexGoneInv
<1>2. ASSUME NEW t \in Task, pc' = [pc EXCEPT ![t] = "idle"],
             target' = [target EXCEPT ![t] = NoMutex], UNCHANGED exstatus
      PROVE  MutexGoneInv'
  BY <1>2, MutexFacts DEF MutexGoneInv
<1>3. CASE UNCHANGED <<mutexVars, pendVars>>
  BY <1>1, <1>3 DEF mutexVars, pendVars
<1>4. ASSUME NEW t \in Task, NEW m \in MutexId,
             MutexCreate(t, m) \/ MutexAbandon(t, m)
      PROVE  MutexGoneInv'
  BY <1>1, <1>4 DEF MutexCreate, MutexAbandon, pendVars
<1>5. ASSUME NEW t \in Task, NEW m \in MutexId,
             MutexObtainAgain(t, m) \/ MutexObtainFree(t, m) \/ MutexAbandonRefused(t, m)
      PROVE  MutexGoneInv'
  <2>1. UNCHANGED <<target, pc>> /\ pc[t] = "idle"
    BY <1>5 DEF MutexObtainAgain, MutexObtainFree, MutexAbandonRefused, mutexVars
  <2>2. \A u \in Task \ {t} : exstatus'[u] = exstatus[u]
    BY <1>5, MutexFacts DEF MutexObtainAgain, MutexObtainFree, MutexAbandonRefused
  <2> QED BY <1>1, <2>1, <2>2
<1>6. ASSUME NEW t \in Task, MutexTimeout(t) PROVE MutexGoneInv'
  <2>1. UNCHANGED <<target, pc>> /\ exstatus' = [exstatus EXCEPT ![t] = "ETIMEOUT"]
    BY <1>6 DEF MutexTimeout, TimedOut
  <2> QED BY <1>1, <2>1, MutexFacts
<1>7. ASSUME NEW t \in Task, MutexObtainReturn(t) \/ MutexDeleteEnd(t) PROVE MutexGoneInv'
  BY <1>2, <1>7 DEF MutexObtainReturn, MutexDeleteEnd
<1>8. ASSUME NEW t \in Task, NEW m \in MutexId, NEW ms \in Msecs, MutexObtainWait(t, m, ms)
      PROVE  MutexGoneInv'
  <2>1. \A u \in Task : pc[u] = "mutex_delete" => target[u] # m
    BY <1>8 DEF MutexObtainWait, BeingDeleted, MutexDisciplined
  <2>2. /\ pc' = [pc EXCEPT ![t] = "mutex_wait"] /\ target' = [target EXCEPT ![t] = m]
        /\ exstatus' = [exstatus EXCEPT ![t] = "EOK"]
    BY <1>8 DEF MutexObtainWait
  <2> QED BY <2>1, <2>2, MutexFacts DEF MutexGoneInv
<1>9. ASSUME NEW t \in Task, NEW m \in MutexId, MutexDelete(t, m) PROVE MutexGoneInv'
  <2>1. /\ pc' = [pc EXCEPT ![t] = "mutex_delete"] /\ target' = [target EXCEPT ![t] = m]
        /\ \A u \in Task : exstatus'[u] = IF u \in Range(mutex[m].pend_list) THEN "ERROR"
                                           ELSE exstatus[u]
    BY <1>9 DEF MutexDelete, LinklistResumeAll
  <2>2. Handed(m) = {}
    BY <1>9 DEF MutexDelete, MutexDisciplined
  <2>3. \A u \in Task : pc[u] = "mutex_wait" /\ target[u] = m => exstatus'[u] # "EOK"
    BY <2>1, <2>2 DEF Handed
  <2>4. \A u \in Task : exstatus'[u] = "EOK" => exstatus[u] = "EOK"
    BY <2>1
  <2> QED BY <2>1, <2>3, <2>4, MutexFacts DEF MutexGoneInv
<1> QED BY <1>3, <1>4, <1>5, <1>6, <1>7, <1>8, <1>9 DEF MutexNext

(* Every step of the mutexes' users preserves the invariant. *)
LEMMA MutexNextInv ==
  ASSUME MutexInv, MutexGoneInv, [MutexNext]_<<mutexVars, pendVars>>
  PROVE  MutexInv'
<1>1. CASE UNCHANGED <<mutexVars, pendVars>>
  <2>1. UNCHANGED <<mutex, cur_prio, target, times, held, tidy, exstatus, delayed, pc>>
    BY <1>1 DEF mutexVars, history, pendVars
  <2>2. \A n : Handed(n)' = Handed(n)
    BY <2>1 DEF Handed
  <2> QED BY <2>1, <2>2 DEF MutexInv, MutexTypeOK, MutexListInv, MutexHoldInv, MutexHandInv,
             MutexHeldInv, MutexPrioInv, MutualExclusion, NoWaiterOnFreeMutex, PriorityRestored
<1>2. CASE MutexNext
  BY <1>2, MutexCreateInv, MutexObtainInv, MutexWaitInv, MutexReturnInv, MutexRefusedInv,
     MutexAbandonInv, MutexDeleteInv, MutexDeleteEndInv, MutexTimeoutInv DEF MutexNext
<1> QED BY <1>1, <1>2

LEMMA MutexInitInv == MutexInit => MutexInv /\ MutexGoneInv
<1> SUFFICES ASSUME MutexInit PROVE MutexInv /\ MutexGoneInv
  OBVIOUS
<1>1. /\ mutex = [m \in MutexId |-> Fresh] /\ cur_prio = CurPrio
      /\ target = [t \in Task |-> NoMutex] /\ times = [t \in Task |-> [m \in MutexId |-> 0]]
      /\ held = [t \in Task |-> <<>>] /\ tidy = Task
      /\ pc = [t \in Task |-> "idle"] /\ exstatus = [t \in Task |-> "EOK"] /\ delayed = {}
  BY DEF MutexInit, PendInit
<1>2. \A m \in MutexId : /\ mutex[m].val = 1 /\ mutex[m].holder = NoTask
                         /\ mutex[m].recursive_cnt = 0 /\ mutex[m].pend_list = <<>>
  BY <1>1 DEF Fresh
<1>3. mutex \in [MutexId -> MutexRecord]
  <2> DEFINE e == <<>>
             b == FALSE
  <2>1. e \in Seq(Task) /\ 0 \in 0 .. CntMod - 1
    BY MutexAssumption, EmptyElements
  <2>2. Fresh = [alive |-> b, val |-> 1, holder |-> NoTask, origin_prio |-> 255,
                 recursive_cnt |-> 0, pend_list |-> e]
    BY DEF Fresh
  <2>3. b \in BOOLEAN
    OBVIOUS
  <2> HIDE DEF e, b
  <2>4. Fresh \in MutexRecord
    BY <2>1, <2>2, <2>3 DEF MutexRecord
  <2> QED BY <1>1, <2>4
<1>4. /\ pc \in [Task -> MutexPlaces] /\ pc \in [Task -> Places] /\ exstatus \in [Task -> Status]
      /\ target \in [Task -> MutexId \cup {NoMutex}] /\ cur_prio \in [Task -> Nat]
      /\ times \in [Task -> [MutexId -> Nat]] /\ tidy \subseteq Task /\ delayed \subseteq Task
  BY <1>1, PendAssumption DEF MutexPlaces, Places, Status
<1>5. held \in [Task -> Seq(MutexId)] /\ \A t \in Task : held[t] = <<>>
  BY <1>1, EmptyElements
<1>6. MutexTypeOK
  BY <1>3, <1>4, <1>5 DEF MutexTypeOK, MutexRecord
<1>7. \A m \in MutexId : Handed(m) = {}
  BY <1>1 DEF Handed
<1>8. MutexListInv /\ MutexHoldInv /\ MutexHandInv
  BY <1>1, <1>2, <1>7, EmptyElements DEF MutexListInv, MutexHoldInv, MutexHandInv
<1>9. MutexHeldInv
  BY <1>1, <1>5, EmptyElements, MutexAssumption DEF MutexHeldInv
<1>10. MutualExclusion /\ NoWaiterOnFreeMutex
  BY <1>1, <1>2, <1>7, EmptyElements, MutexAssumption DEF MutualExclusion, NoWaiterOnFreeMutex
<1>11. MutexPrioInv
  BY <1>1, <1>2, <1>5, <1>7, MutexAssumption DEF MutexPrioInv
<1>12. PriorityRestored
  BY <1>1, PendAssumption DEF PriorityRestored
<1>13. MutexGoneInv
  BY <1>1 DEF MutexGoneInv
<1> QED BY <1>4, <1>6, <1>8, <1>9, <1>10, <1>11, <1>12, <1>13 DEF MutexInv

-----------------------------------------------------------------------------
(* Events. *)

(* Events are created with options that LinklistSuspend knows as flags.    *)
(* With other options a waiter is suspended on no list and no trigger      *)
(* finds it.                                                               *)
EventDisciplined == EventOptions \subseteq {0, 1}

EventPlaces == {"idle", "event_wait"}

(* The list holds the tasks that wait, each once, with its delay running. *)
EventListInv ==
    /\ IsInjective(epend) /\ stray = {} /\ delayed = Range(epend) /\ options \in {0, 1}
    /\ \A t \in Range(epend) : pc[t] = "event_wait" /\ exstatus[t] = "EOK"
    /\ ~elive => events = {}

EventInv ==
    /\ EventTypeOK /\ pc \in [Task -> EventPlaces]
    /\ EventListInv /\ NoMissedEvent /\ FlagsConserved

(* The served waiters that return with the flag f and clear it. *)
Takers(f) == {t \in Served : event_mode[t].autoclean /\ f \in event_id_trigger[t]}

(* The facts every step starts from. *)
LEMMA EventFacts ==
  ASSUME EventInv
  PROVE  /\ elive \in BOOLEAN /\ events \subseteq Flag /\ epend \in Seq(Task)
         /\ event_id_trigger \in [Task -> SUBSET Flag] /\ event_mode \in [Task -> Mode]
         /\ raised \in [Flag -> Nat] /\ exstatus \in [Task -> Status] /\ delayed \subseteq Task
         /\ pc \in [Task -> EventPlaces] /\ Range(epend) \subseteq Task
         /\ IsInjective(epend) /\ stray = {} /\ delayed = Range(epend) /\ options \in {0, 1}
         /\ \A f \in Flag : /\ Takers(f) \subseteq Task /\ Cardinality(Takers(f)) \in Nat
                            /\ raised[f] = (IF f \in events THEN 1 ELSE 0)
                                         + Cardinality(Takers(f))
<1>1. \A f \in Flag : Takers(f) \subseteq Task
  BY DEF Takers, Served
<1>2. \A f \in Flag : Cardinality(Takers(f)) \in Nat
  BY <1>1, TaskCount
<1>3. \A f \in Flag : raised[f] = (IF f \in events THEN 1 ELSE 0) + Cardinality(Takers(f))
  BY DEF EventInv, FlagsConserved, Takers
<1> QED BY <1>1, <1>2, <1>3 DEF EventInv, EventTypeOK, EventListInv, Range

(* What a step keeps when the flags, the waiters that take them and the    *)
(* count of the raises change together.                                    *)
LEMMA FlagsKept ==
  ASSUME DOMAIN raised' = Flag, raised' = [f \in Flag |-> raised'[f]],
         \A f \in Flag : raised'[f] = (IF f \in events' THEN 1 ELSE 0) + Cardinality(Takers(f)')
  PROVE  FlagsConserved' /\ raised' \in [Flag -> Nat]
<1>1. ASSUME NEW f \in Flag PROVE raised'[f] \in Nat
  <2>1. Takers(f)' \subseteq Task
    BY DEF Takers, Served
  <2>2. Cardinality(Takers(f)') \in Nat
    BY <2>1, TaskCount
  <2> QED BY <2>2
<1>2. FlagsConserved'
  BY DEF FlagsConserved, Takers
<1> QED BY <1>1, <1>2

(* The loop of _EventTrigger turn by turn: a recursive function has the    *)
(* values its definition says.                                             *)
LEMMA TurnsUnfold ==
  ASSUME EventInv, NEW S
  PROVE  /\ Turns(S)[0] = [events |-> events \cup S, list |-> epend, trigger |-> event_id_trigger]
         /\ \A i \in 1 .. Len(epend) : Turns(S)[i] = Serve(Turns(S)[i - 1], epend[i])
<1> DEFINE n       == Len(epend)
           init    == [events |-> events \cup S, list |-> epend, trigger |-> event_id_trigger]
           Body(f) == [i \in 0 .. n |-> IF i = 0 THEN init ELSE Serve(f[i - 1], epend[i])]
           Upto(k) == \E f : /\ f = [i \in 0 .. k |-> f[i]] /\ f[0] = init
                             /\ \A i \in 1 .. k : f[i] = Serve(f[i - 1], epend[i])
           T       == {k \in 0 .. n : ~Upto(k)}
<1>1. n \in Nat
  BY EventFacts
<1>2. Turns(S) = CHOOSE f : f = Body(f)
  BY DEF Turns
<1> HIDE DEF n, init
<1>3. Upto(0)
  <2> DEFINE f == [i \in 0 .. 0 |-> init]
  <2>1. f = [i \in 0 .. 0 |-> f[i]] /\ f[0] = init /\ \A i \in 1 .. 0 : FALSE
    OBVIOUS
  <2> QED BY <2>1
<1>4. ASSUME NEW k \in 1 .. n, Upto(k - 1) PROVE Upto(k)
  <2>1. PICK g : /\ g = [i \in 0 .. k - 1 |-> g[i]] /\ g[0] = init
                 /\ \A i \in 1 .. k - 1 : g[i] = Serve(g[i - 1], epend[i])
    BY <1>4
  <2> DEFINE f == [i \in 0 .. k |-> IF i < k THEN g[i] ELSE Serve(g[k - 1], epend[k])]
  <2>2. f = [i \in 0 .. k |-> f[i]]
    OBVIOUS
  <2>3. f[0] = init
    BY <1>1, <2>1
  <2>4. ASSUME NEW i \in 1 .. k PROVE f[i] = Serve(f[i - 1], epend[i])
    <3>1. f[i - 1] = g[i - 1]
      BY <1>1
    <3>2. CASE i < k
      <4>1. i \in 1 .. k - 1 /\ f[i] = g[i]
        BY <1>1, <3>2
      <4>2. g[i] = Serve(g[i - 1], epend[i])
        BY <2>1, <4>1
      <4> QED BY <3>1, <4>1, <4>2
    <3>3. CASE i = k
      BY <1>1, <3>1, <3>3
    <3> QED BY <1>1, <3>2, <3>3
  <2> QED BY <2>2, <2>3, <2>4
<1>5. T = {}
  <2> SUFFICES ASSUME T # {} PROVE FALSE
    OBVIOUS
  <2>1. T \subseteq Nat
    BY <1>1
  <2> HIDE DEF Upto
  <2>2. PICK x \in T : \A y \in T : x <= y
    BY <2>1, LeastExists
  <2>3. x \in 1 .. n /\ x - 1 \in 0 .. n
    BY <1>1, <1>3, <2>2
  <2>4. Upto(x - 1)
    BY <1>1, <2>2, <2>3
  <2> QED BY <1>4, <2>2, <2>3, <2>4
<1>6. Upto(n)
  <2> HIDE DEF Upto
  <2> QED BY <1>1, <1>5
<1>7. PICK f : /\ f = [i \in 0 .. n |-> f[i]] /\ f[0] = init
               /\ \A i \in 1 .. n : f[i] = Serve(f[i - 1], epend[i])
  BY <1>6
<1>8. f = Body(f)
  <2>1. \A i \in 0 .. n : f[i] = Body(f)[i]
    BY <1>1, <1>7
  <2> QED BY <1>7, <2>1
<1>9. Turns(S) = Body(Turns(S))
  BY <1>2, <1>8
<1>10. Turns(S)[0] = init
  BY <1>1, <1>9
<1>11. \A i \in 1 .. n : Turns(S)[i] = Serve(Turns(S)[i - 1], epend[i])
  <2> DEFINE g == Turns(S)
  <2>1. g = Body(g)
    BY <1>9
  <2> HIDE DEF g
  <2>2. \A i \in 1 .. n : i \in 0 .. n /\ i # 0
    BY <1>1
  <2>3. \A i \in 1 .. n : g[i] = Serve(g[i - 1], epend[i])
    BY <2>1, <2>2
  <2> QED BY <2>3 DEF g
<1> QED BY <1>10, <1>11 DEF n, init

(* The waiters that i turns have woken, the flags S raised. *)
WokenBy(r) == Range(epend) \ Range(r.list)

(* What the loop has done after i turns: the waiters still on the list and *)
(* passed by are not satisfied, and each flag is left or was taken by one  *)
(* waiter that clears it.                                                  *)
TurnInv(S, i, r) ==
    /\ r \in [events : SUBSET Flag, list : Seq(Task), trigger : [Task -> SUBSET Flag]]
    /\ r.events \subseteq events \cup S
    /\ IsInjective(r.list) /\ Range(r.list) \subseteq Range(epend)
    /\ \A j \in 1 .. Len(epend) : j > i => epend[j] \in Range(r.list)
    /\ \A u \in Task \ WokenBy(r) : r.trigger[u] = event_id_trigger[u]
    /\ \A j \in 1 .. Len(epend) : j <= i /\ epend[j] \in Range(r.list)
          => ~Satisfied(event_id_trigger[epend[j]], event_mode[epend[j]], r.events)
    /\ \A f \in Flag : \A u \in WokenBy(r) : event_mode[u].autoclean /\ f \in r.trigger[u]
          => /\ f \in (events \cup S) \ r.events
             /\ \A v \in WokenBy(r) : event_mode[v].autoclean /\ f \in r.trigger[v] => u = v
    /\ \A f \in (events \cup S) \ r.events :
          \E u \in WokenBy(r) : event_mode[u].autoclean /\ f \in r.trigger[u]

(* Fewer flags satisfy no more. *)
LEMMA SatisfiedMonotone ==
  ASSUME NEW W, NEW mode, NEW A, NEW B, B \subseteq A, Satisfied(W, mode, B)
  PROVE  Satisfied(W, mode, A)
  BY DEF Satisfied

LEMMA TurnInvInit ==
  ASSUME EventInv, NEW S \in SUBSET Flag
  PROVE  TurnInv(S, 0, [events |-> events \cup S, list |-> epend, trigger |-> event_id_trigger])
<1> DEFINE r == [events |-> events \cup S, list |-> epend, trigger |-> event_id_trigger]
<1>1. r.events = events \cup S /\ r.list = epend /\ r.trigger = event_id_trigger
  OBVIOUS
<1>2. r \in [events : SUBSET Flag, list : Seq(Task), trigger : [Task -> SUBSET Flag]]
  BY EventFacts
<1> HIDE DEF r
<1>3. WokenBy(r) = {}
  BY <1>1 DEF WokenBy
<1>4. \A j \in 1 .. Len(epend) : ~(j <= 0) /\ epend[j] \in Range(epend)
  BY EventFacts DEF Range
<1>5. TurnInv(S, 0, r)
  BY <1>1, <1>2, <1>3, <1>4, EventFacts DEF TurnInv
<1> QED BY <1>5 DEF r

LEMMA TurnInvNext ==
  ASSUME EventInv, NEW S \in SUBSET Flag, NEW i \in 1 .. Len(epend), NEW r, TurnInv(S, i - 1, r)
  PROVE  TurnInv(S, i, Serve(r, epend[i]))
<1> DEFINE t   == epend[i]
           R   == [events : SUBSET Flag, list : Seq(Task), trigger : [Task -> SUBSET Flag]]
           got == event_id_trigger[t] \cap r.events
           q   == Serve(r, t)
<1>1. /\ r \in R /\ r.events \subseteq events \cup S
      /\ IsInjective(r.list) /\ Range(r.list) \subseteq Range(epend)
      /\ \A j \in 1 .. Len(epend) : j > i - 1 => epend[j] \in Range(r.list)
      /\ \A u \in Task \ WokenBy(r) : r.trigger[u] = event_id_trigger[u]
      /\ \A j \in 1 .. Len(epend) : j <= i - 1 /\ epend[j] \in Range(r.list)
            => ~Satisfied(event_id_trigger[epend[j]], event_mode[epend[j]], r.events)
      /\ \A f \in Flag : \A u \in WokenBy(r) : event_mode[u].autoclean /\ f \in r.trigger[u]
            => /\ f \in (events \cup S) \ r.events
               /\ \A v \in WokenBy(r) : event_mode[v].autoclean /\ f \in r.trigger[v] => u = v
      /\ \A f \in (events \cup S) \ r.events :
            \E u \in WokenBy(r) : event_mode[u].autoclean /\ f \in r.trigger[u]
  BY DEF TurnInv
<1>2. Len(epend) \in Nat /\ i \in Nat
  BY EventFacts
<1>3. t \in Task /\ t \in Range(r.list) /\ t \in Range(epend) /\ t \notin WokenBy(r)
  <2>1. t \in Range(r.list)
    BY <1>1, <1>2
  <2> QED BY <1>1, <2>1, EventFacts DEF WokenBy
<1>4. \A j \in 1 .. Len(epend) : epend[j] = t => j = i
  BY EventFacts DEF IsInjective
<1>5. CASE ~Satisfied(event_id_trigger[t], event_mode[t], r.events)
  <2>1. q = r
    BY <1>5 DEF Serve
  <2>2. \A j \in 1 .. Len(epend) : j > i => j > i - 1
    BY <1>2
  <2>3. \A j \in 1 .. Len(epend) : j <= i => j <= i - 1 \/ epend[j] = t
    BY <1>2
  <2>4. TurnInv(S, i, r)
    BY <1>1, <1>5, <2>2, <2>3 DEF TurnInv
  <2> QED BY <2>1, <2>4
<1>6. CASE Satisfied(event_id_trigger[t], event_mode[t], r.events)
  <2> DEFINE ev == IF event_mode[t].autoclean THEN r.events \ got ELSE r.events
             w  == RmNode(r.list, t)
             tr == [r.trigger EXCEPT ![t] = got]
  <2>1. q = [r EXCEPT !.trigger = tr, !.list = w, !.events = ev]
    BY <1>6 DEF Serve
  <2>2. /\ r.events \subseteq Flag /\ r.list \in Seq(Task) /\ r.trigger \in [Task -> SUBSET Flag]
    BY <1>1
  <2>3. w \in Seq(Task) /\ IsInjective(w) /\ Range(w) = Range(r.list) \ {t}
    BY <1>1, <2>2, RmNodeElements
  <2>4. tr \in [Task -> SUBSET Flag] /\ tr[t] = got /\ \A u \in Task \ {t} : tr[u] = r.trigger[u]
    BY <1>3, <2>2
  <2>5. ev \subseteq r.events /\ (event_mode[t].autoclean => ev = r.events \ got)
        /\ (~event_mode[t].autoclean => ev = r.events)
    OBVIOUS
  <2>6. got \subseteq r.events
    OBVIOUS
  <2> HIDE DEF ev, w, tr, got
  <2>7. q.events = ev /\ q.list = w /\ q.trigger = tr /\ q \in R
    BY <1>1, <2>1, <2>2, <2>3, <2>4, <2>5
  <2> HIDE DEF q
  <2>8. WokenBy(q) = WokenBy(r) \cup {t}
    BY <1>1, <1>3, <2>3, <2>7 DEF WokenBy
  <2>9. WokenBy(r) \subseteq Task
    BY EventFacts DEF WokenBy
  <2>10. q.events \subseteq events \cup S
    BY <1>1, <2>5, <2>7
  <2>11. IsInjective(q.list) /\ Range(q.list) \subseteq Range(epend)
    BY <1>1, <2>3, <2>7
  <2>12. \A j \in 1 .. Len(epend) : j > i => epend[j] \in Range(q.list)
    <3>1. \A j \in 1 .. Len(epend) : j > i => j > i - 1 /\ j # i
      BY <1>2
    <3> QED BY <1>1, <1>4, <2>3, <2>7, <3>1
  <2>13. \A u \in Task \ WokenBy(q) : q.trigger[u] = event_id_trigger[u]
    BY <1>1, <2>4, <2>7, <2>8
  <2>14. ASSUME NEW j \in 1 .. Len(epend), j <= i, epend[j] \in Range(q.list)
         PROVE  ~Satisfied(event_id_trigger[epend[j]], event_mode[epend[j]], q.events)
    <3>1. epend[j] # t /\ epend[j] \in Range(r.list)
      BY <2>3, <2>7, <2>14
    <3>2. j <= i - 1
      BY <1>2, <2>14, <3>1
    <3>3. ~Satisfied(event_id_trigger[epend[j]], event_mode[epend[j]], r.events)
      BY <1>1, <3>1, <3>2
    <3> QED BY <2>5, <2>7, <3>3, SatisfiedMonotone
  <2>15. ASSUME NEW f \in Flag, NEW u \in WokenBy(q), event_mode[u].autoclean, f \in q.trigger[u]
         PROVE  /\ f \in (events \cup S) \ q.events
                /\ \A v \in WokenBy(q) : event_mode[v].autoclean /\ f \in q.trigger[v] => u = v
    <3>1. ASSUME NEW x \in WokenBy(r), event_mode[x].autoclean, f \in q.trigger[x]
          PROVE  /\ f \in (events \cup S) \ r.events
                 /\ \A v \in WokenBy(r) : event_mode[v].autoclean /\ f \in q.trigger[v] => x = v
      <4>1. \A v \in WokenBy(r) : q.trigger[v] = r.trigger[v]
        BY <1>3, <2>4, <2>7, <2>9
      <4> QED BY <1>1, <3>1, <4>1
    <3>2. f \in q.trigger[t] => f \in r.events
      BY <2>4, <2>6, <2>7
    <3>3. CASE u = t
      <4>1. f \in (events \cup S) \ q.events
        BY <1>1, <2>4, <2>5, <2>6, <2>7, <2>15, <3>3
      <4>2. \A v \in WokenBy(q) : event_mode[v].autoclean /\ f \in q.trigger[v] => u = v
        BY <2>8, <2>15, <3>1, <3>2, <3>3
      <4> QED BY <4>1, <4>2
    <3>4. CASE u # t
      <4>1. u \in WokenBy(r)
        BY <2>8, <3>4
      <4>2. f \in (events \cup S) \ r.events
        BY <2>15, <3>1, <4>1
      <4>3. f \in (events \cup S) \ q.events
        BY <2>5, <2>7, <4>2
      <4>4. \A v \in WokenBy(q) : event_mode[v].autoclean /\ f \in q.trigger[v] => u = v
        BY <2>8, <2>15, <3>1, <3>2, <4>1, <4>2
      <4> QED BY <4>3, <4>4
    <3> QED BY <3>3, <3>4
  <2>16. ASSUME NEW f \in (events \cup S) \ q.events
         PROVE  \E u \in WokenBy(q) : event_mode[u].autoclean /\ f \in q.trigger[u]
    <3>1. CASE f \in r.events
      BY <2>4, <2>5, <2>7, <2>8, <2>16, <3>1
    <3>2. CASE f \notin r.events
      <4>1. PICK u \in WokenBy(r) : event_mode[u].autoclean /\ f \in r.trigger[u]
        BY <1>1, <3>2
      <4> QED BY <1>3, <2>4, <2>7, <2>8, <2>9, <4>1
    <3> QED BY <3>1, <3>2
  <2>17. TurnInv(S, i, q)
    BY <2>7, <2>10, <2>11, <2>12, <2>13, <2>14, <2>15, <2>16 DEF TurnInv
  <2> QED BY <2>17 DEF q
<1> QED BY <1>5, <1>6

(* The whole loop. *)
LEMMA TurnsKeepInv ==
  ASSUME EventInv, NEW S \in SUBSET Flag
  PROVE  TurnInv(S, Len(epend), Turns(S)[Len(epend)])
<1> DEFINE n == Len(epend)
           g == Turns(S)
           T == {i \in 0 .. n : ~TurnInv(S, i, g[i])}
<1>1. n \in Nat /\ T \subseteq Nat
  BY EventFacts
<1>2. /\ g[0] = [events |-> events \cup S, list |-> epend, trigger |-> event_id_trigger]
      /\ \A i \in 1 .. n : g[i] = Serve(g[i - 1], epend[i])
  BY TurnsUnfold
<1> HIDE DEF g
<1>3. T = {}
  <2> SUFFICES ASSUME T # {} PROVE FALSE
    OBVIOUS
  <2>1. PICK x \in T : \A y \in T : x <= y
    BY <1>1, LeastExists
  <2>2. x # 0
    BY <1>2, <2>1, TurnInvInit
  <2>3. x \in 1 .. n /\ x - 1 \in 0 .. n /\ x - 1 \notin T
    BY <1>1, <2>1, <2>2
  <2>4. TurnInv(S, x - 1, g[x - 1])
    BY <2>3
  <2>5. TurnInv(S, x, g[x])
    BY <1>2, <2>3, <2>4, TurnInvNext
  <2> QED BY <2>1, <2>5
<1>4. n \in 0 .. n
  BY <1>1
<1>5. TurnInv(S, n, g[n])
  BY <1>3, <1>4
<1> QED BY <1>5 DEF g

LEMMA EventTriggerInv ==
  ASSUME EventInv, NEW t \in Task, NEW S \in SUBSET Flag, EventTrigger(t, S)
  PROVE  EventInv'
<1> DEFINE end == Turns(S)[Len(epend)]
           W   == WokenBy(end)
           New(f) == {u \in W : event_mode[u].autoclean /\ f \in end.trigger[u]}
<1>1. /\ elive /\ events' = end.events /\ event_id_trigger' = end.trigger /\ epend' = end.list
      /\ delayed' = delayed \ W /\ raised' = More(S \ events)
      /\ UNCHANGED <<elive, options, stray, event_mode, exstatus, pc>>
  BY DEF EventTrigger, Woken, WokenBy
<1>2. TurnInv(S, Len(epend), end)
  BY TurnsKeepInv
<1> HIDE DEF end
<1>3. /\ end.events \subseteq Flag /\ end.list \in Seq(Task) /\ end.trigger \in [Task -> SUBSET Flag]
      /\ end.events \subseteq events \cup S
      /\ IsInjective(end.list) /\ Range(end.list) \subseteq Range(epend)
      /\ \A u \in Task \ W : end.trigger[u] = event_id_trigger[u]
      /\ \A f \in Flag : \A u \in W : event_mode[u].autoclean /\ f \in end.trigger[u]
            => /\ f \in (events \cup S) \ end.events
               /\ \A v \in W : event_mode[v].autoclean /\ f \in end.trigger[v] => u = v
      /\ \A f \in (events \cup S) \ end.events :
            \E u \in W : event_mode[u].autoclean /\ f \in end.trigger[u]
  BY <1>2 DEF TurnInv
<1>4. W \subseteq Range(epend) /\ W \cap Range(end.list) = {} /\ Range(epend) \ W = Range(end.list)
  BY <1>3 DEF WokenBy
<1> HIDE DEF W
<1>5. EventListInv'
  BY <1>1, <1>3, <1>4 DEF EventInv, EventListInv
<1>6. Served' = Served \cup W /\ Served \cap W = {} /\ Served \subseteq Task
  BY <1>1, <1>3, <1>4, EventFacts DEF Served, EventInv, EventListInv
<1>7. ASSUME NEW f \in Flag
      PROVE  raised'[f] = (IF f \in events' THEN 1 ELSE 0) + Cardinality(Takers(f)')
  <2>1. Takers(f)' = {u \in Served' : event_mode'[u].autoclean /\ f \in event_id_trigger'[u]}
    BY DEF Takers
  <2>2. Takers(f)' = Takers(f) \cup New(f)
    <3>1. \A u \in Served : event_id_trigger'[u] = event_id_trigger[u]
      BY <1>1, <1>3, <1>6
    <3>2. Takers(f) = {u \in Served : event_mode[u].autoclean /\ f \in event_id_trigger[u]}
      BY DEF Takers
    <3> QED BY <1>1, <1>6, <2>1, <3>1, <3>2
  <2>3. Takers(f) \cap W = {} /\ Takers(f) \subseteq Task
    BY <1>6 DEF Takers
  <2>4. raised'[f] = IF f \in S \ events THEN raised[f] + 1 ELSE raised[f]
    BY <1>1 DEF More
  <2>5. /\ Cardinality(Takers(f)) \in Nat
        /\ raised[f] = (IF f \in events THEN 1 ELSE 0) + Cardinality(Takers(f))
    BY EventFacts
  <2>6. CASE f \in (events \cup S) \ end.events
    <3>1. PICK u \in W : event_mode[u].autoclean /\ f \in end.trigger[u]
      BY <1>3, <2>6
    <3>2. New(f) = {u}
      BY <1>3, <3>1
    <3>3. Cardinality(Takers(f) \cup {u}) = Cardinality(Takers(f)) + 1
      BY <2>3, <3>1, TaskCount
    <3>4. Cardinality(Takers(f)') = Cardinality(Takers(f)) + 1
      BY <2>2, <3>2, <3>3
    <3> QED BY <1>1, <2>4, <2>5, <2>6, <3>4
  <2>7. CASE f \notin (events \cup S) \ end.events
    <3>1. New(f) = {}
      BY <1>3, <2>7
    <3>2. Takers(f)' = Takers(f)
      BY <2>2, <3>1
    <3>3. f \in events' <=> f \in events \cup S
      BY <1>1, <1>3, <2>7
    <3> QED BY <2>4, <2>5, <3>2, <3>3
  <2> QED BY <2>6, <2>7
<1>8. FlagsConserved' /\ raised' \in [Flag -> Nat]
  <2>1. DOMAIN raised' = Flag /\ raised' = [f \in Flag |-> raised'[f]]
    BY <1>1 DEF More
  <2> QED BY <1>7, <2>1, FlagsKept
<1>9. EventTypeOK' /\ (pc \in [Task -> EventPlaces])'
  BY <1>1, <1>3, <1>8, EventFacts DEF EventInv, EventTypeOK
<1>10. NoMissedEvent'
  <2> SUFFICES ASSUME NEW u \in Range(end.list)
               PROVE  ~Satisfied(event_id_trigger[u], event_mode[u], end.events)
    <3>1. \A u \in Range(end.list) : event_id_trigger'[u] = event_id_trigger[u]
      BY <1>1, <1>3, <1>4, EventFacts
    <3>2. stray' = {} /\ elive'
      BY <1>1, EventFacts
    <3> QED BY <1>1, <3>1, <3>2 DEF NoMissedEvent, Satisfied
  <2>1. PICK j \in 1 .. Len(epend) : epend[j] = u
    <3>1. u \in Range(epend) /\ epend \in Seq(Task)
      BY <1>3, EventFacts
    <3> QED BY <3>1 DEF Range
  <2>2. j <= Len(epend) /\ epend[j] \in Range(end.list)
    BY <2>1, EventFacts
  <2>3. ~Satisfied(event_id_trigger[epend[j]], event_mode[epend[j]], end.events)
    BY <1>2, <2>2 DEF TurnInv
  <2> QED BY <2>1, <2>3
<1> QED BY <1>5, <1>8, <1>9, <1>10 DEF EventInv

LEMMA EventCreateInv ==
  ASSUME EventDisciplined, EventInv, NEW t \in Task, NEW opt \in EventOptions, EventCreate(t, opt)
  PROVE  EventInv'
<1>1. /\ ~elive /\ elive' = TRUE /\ options' = opt /\ events' = {} /\ epend' = <<>>
      /\ UNCHANGED <<stray, event_id_trigger, event_mode, raised, exstatus, delayed, pc>>
  BY DEF EventCreate, pendVars
<1>2. opt \in {0, 1} /\ opt \in 0 .. 7
  BY DEF EventDisciplined
<1>3. epend = <<>> /\ events = {}
  <2>1. Range(epend) = {} /\ events = {}
    BY <1>1 DEF EventInv, NoMissedEvent, EventListInv
  <2> QED BY <2>1, EventFacts, EmptyElements
<1>4. EventListInv' /\ NoMissedEvent'
  BY <1>1, <1>2, <1>3, EventFacts, EmptyElements DEF EventInv, EventListInv, NoMissedEvent
<1>5. FlagsConserved'
  BY <1>1, <1>3 DEF EventInv, FlagsConserved, Served
<1>6. EventTypeOK' /\ (pc \in [Task -> EventPlaces])'
  BY <1>1, <1>2, <1>3, EventFacts DEF EventInv, EventTypeOK
<1> QED BY <1>4, <1>5, <1>6 DEF EventInv

LEMMA EventProcessNowInv ==
  ASSUME EventInv, NEW t \in Task, NEW W \in SUBSET Flag, NEW mode \in Mode,
         EventProcessNow(t, W, mode)
  PROVE  EventInv'
<1>1. /\ pc[t] = "idle" /\ elive
      /\ events' = IF mode.autoclean THEN events \ W ELSE events
      /\ raised' = IF mode.autoclean THEN Less(events \cap W) ELSE raised
      /\ exstatus' = [exstatus EXCEPT ![t] = "EOK"]
      /\ UNCHANGED <<elive, options, epend, stray, event_id_trigger, event_mode, delayed, pc>>
  BY DEF EventProcessNow
<1>2. events' \subseteq events
  BY <1>1
<1>3. EventListInv'
  BY <1>1, EventFacts DEF EventInv, EventListInv, Status
<1>4. Served' = Served
  BY <1>1, EventFacts DEF Served
<1>5. ASSUME NEW f \in Flag
      PROVE  raised'[f] = (IF f \in events' THEN 1 ELSE 0) + Cardinality(Takers(f)')
  <2>1. Takers(f)' = Takers(f)
    BY <1>1, <1>4 DEF Takers
  <2>2. raised'[f] = IF mode.autoclean /\ f \in events \cap W THEN raised[f] - 1 ELSE raised[f]
    BY <1>1 DEF Less
  <2> QED BY <1>1, <2>1, <2>2, EventFacts
<1>6. FlagsConserved' /\ raised' \in [Flag -> Nat]
  <2>1. DOMAIN raised' = Flag /\ raised' = [f \in Flag |-> raised'[f]]
    BY <1>1, EventFacts DEF Less
  <2> QED BY <1>5, <2>1, FlagsKept
<1>7. NoMissedEvent'
  <2> SUFFICES ASSUME NEW u \in Range(epend)
               PROVE  ~Satisfied(event_id_trigger[u], event_mode[u], events')
    BY <1>1, EventFacts DEF NoMissedEvent, Satisfied
  <2>1. ~Satisfied(event_id_trigger[u], event_mode[u], events)
    BY DEF EventInv, NoMissedEvent
  <2> QED BY <1>2, <2>1 DEF Satisfied
<1>8. EventTypeOK' /\ (pc \in [Task -> EventPlaces])'
  BY <1>1, <1>2, <1>6, EventFacts DEF EventInv, EventTypeOK, Status
<1> QED BY <1>3, <1>6, <1>7, <1>8 DEF EventInv

LEMMA EventProcessWaitInv ==
  ASSUME EventInv, NEW t \in Task, NEW W \in SUBSET Flag, NEW mode \in Mode, NEW ms \in Msecs,
         EventProcessWait(t, W, mode, ms)
  PROVE  EventInv'
<1>1. /\ pc[t] = "idle" /\ elive /\ ~Satisfied(W, mode, events)
      /\ event_id_trigger' = [event_id_trigger EXCEPT ![t] = W]
      /\ event_mode' = [event_mode EXCEPT ![t] = mode]
      /\ epend' = LinklistSuspend(epend, t, SuspendFlag, CurPrio)
      /\ stray' = IF t \in Range(epend') THEN stray ELSE stray \cup {t}
      /\ delayed' = StartDelay(t, CalculteTickFromTimeMs(ms))
      /\ exstatus' = [exstatus EXCEPT ![t] = "EOK"]
      /\ pc' = [pc EXCEPT ![t] = "event_wait"]
      /\ UNCHANGED <<elive, options, events, raised>>
  BY DEF EventProcessWait
<1>2. t \notin Range(epend)
  BY <1>1 DEF EventInv, EventListInv
<1>3. epend' \in Seq(Task) /\ IsInjective(epend') /\ Range(epend') = Range(epend) \cup {t}
  <2>1. CASE options = 0
    <3>1. epend' = Append(epend, t)
      BY <1>1, <2>1 DEF SuspendFlag, LinklistSuspend
    <3> QED BY <1>2, <3>1, EventFacts, AppendElements
  <2>2. CASE options = 1
    <3>1. epend' = InsertSorted(epend, t, CurPrio[t], CurPrio)
      BY <1>1, <2>2 DEF SuspendFlag, LinklistSuspend
    <3> QED BY <1>2, <3>1, EventFacts, InsertSortedElements
  <2> QED BY <2>1, <2>2, EventFacts
<1>4. stray' = {}
  BY <1>1, <1>3, EventFacts
<1>5. delayed' = delayed \cup {t}
  BY <1>1, TicksPositive DEF StartDelay
<1>6. EventListInv'
  BY <1>1, <1>3, <1>4, <1>5, EventFacts DEF EventInv, EventListInv
<1>7. Served' = Served /\ t \notin Served
  BY <1>1, <1>3, <1>4, EventFacts DEF Served
<1>8. FlagsConserved'
  <2>1. \A f \in Flag : {u \in Served' : event_mode'[u].autoclean /\ f \in event_id_trigger'[u]}
                      = {u \in Served : event_mode[u].autoclean /\ f \in event_id_trigger[u]}
    <3>1. \A u \in Served : /\ event_mode'[u] = event_mode[u]
                            /\ event_id_trigger'[u] = event_id_trigger[u]
      BY <1>1, <1>7, EventFacts DEF Served
    <3> QED BY <1>7, <3>1
  <2> QED BY <1>1, <2>1 DEF EventInv, FlagsConserved
<1>9. NoMissedEvent'
  <2> SUFFICES ASSUME NEW u \in Range(epend')
               PROVE  ~Satisfied(event_id_trigger'[u], event_mode'[u], events)
    BY <1>1, <1>4 DEF NoMissedEvent, Satisfied
  <2>1. CASE u = t
    BY <1>1, <2>1, EventFacts
  <2>2. CASE u # t
    <3>1. ~Satisfied(event_id_trigger[u], event_mode[u], events)
      BY <1>3, <2>2 DEF EventInv, NoMissedEvent
    <3>2. event_id_trigger'[u] = event_id_trigger[u] /\ event_mode'[u] = event_mode[u]
      BY <1>1, <1>3, <2>2, EventFacts
    <3> QED BY <3>1, <3>2
  <2> QED BY <2>1, <2>2
<1>10. EventTypeOK' /\ (pc \in [Task -> EventPlaces])'
  <2>1. /\ event_id_trigger' \in [Task -> SUBSET Flag] /\ event_mode' \in [Task -> Mode]
        /\ exstatus' \in [Task -> Status] /\ pc' \in [Task -> EventPlaces]
        /\ pc' \in [Task -> Places] /\ delayed' \subseteq Task
    BY <1>1, <1>5, EventFacts DEF EventInv, EventTypeOK, Status, Places, EventPlaces
  <2> QED BY <1>1, <1>3, <1>4, <2>1, EventFacts DEF EventInv, EventTypeOK
<1> QED BY <1>6, <1>8, <1>9, <1>10 DEF EventInv

LEMMA EventReturnInv ==
  ASSUME EventInv, NEW t \in Task, EventReturn(t)
  PROVE  EventInv'
<1> DEFINE none == [all |-> FALSE, autoclean |-> FALSE]
<1>1. /\ pc[t] = "event_wait" /\ t \notin Range(epend)
      /\ raised' = IF exstatus[t] = "EOK" /\ event_mode[t].autoclean
                   THEN Less(event_id_trigger[t]) ELSE raised
      /\ pc' = [pc EXCEPT ![t] = "idle"]
      /\ event_id_trigger' = [event_id_trigger EXCEPT ![t] = {}]
      /\ event_mode' = [event_mode EXCEPT ![t] = none]
      /\ UNCHANGED <<elive, options, events, epend, stray, exstatus, delayed>>
  BY DEF EventReturn
<1>2. none \in Mode
  BY DEF Mode
<1> HIDE DEF none
<1>3. EventListInv'
  BY <1>1, EventFacts DEF EventInv, EventListInv
<1>4. Served' = Served \ {t} /\ (t \in Served <=> exstatus[t] = "EOK")
  BY <1>1, EventFacts DEF Served
<1>5. ASSUME NEW f \in Flag
      PROVE  raised'[f] = (IF f \in events' THEN 1 ELSE 0) + Cardinality(Takers(f)')
  <2>1. Takers(f)' = {u \in Served' : event_mode'[u].autoclean /\ f \in event_id_trigger'[u]}
    BY DEF Takers
  <2>2. Takers(f)' = Takers(f) \ {t}
    <3>1. \A u \in Served \ {t} : /\ event_mode'[u] = event_mode[u]
                                  /\ event_id_trigger'[u] = event_id_trigger[u]
      BY <1>1, EventFacts DEF Served
    <3> QED BY <1>4, <2>1, <3>1 DEF Takers
  <2>3. t \in Takers(f) <=> exstatus[t] = "EOK" /\ event_mode[t].autoclean
                            /\ f \in event_id_trigger[t]
    BY <1>4 DEF Takers
  <2>4. raised'[f] = IF t \in Takers(f) THEN raised[f] - 1 ELSE raised[f]
    BY <1>1, <2>3 DEF Less
  <2>5. Cardinality(Takers(f)') =
           IF t \in Takers(f) THEN Cardinality(Takers(f)) - 1 ELSE Cardinality(Takers(f))
    <3>1. CASE t \in Takers(f)
      BY <2>2, <3>1, EventFacts, TaskCount
    <3>2. CASE t \notin Takers(f)
      <4>1. Takers(f) \ {t} = Takers(f)
        BY <3>2
      <4> QED BY <2>2, <3>2, <4>1
    <3> QED BY <3>1, <3>2
  <2> QED BY <1>1, <2>4, <2>5, EventFacts
<1>6. FlagsConserved' /\ raised' \in [Flag -> Nat]
  <2>1. DOMAIN raised' = Flag /\ raised' = [f \in Flag |-> raised'[f]]
    BY <1>1, EventFacts DEF Less
  <2> QED BY <1>5, <2>1, FlagsKept
<1>7. NoMissedEvent'
  <2> SUFFICES ASSUME NEW u \in Range(epend)
               PROVE  elive /\ ~Satisfied(event_id_trigger'[u], event_mode'[u], events)
    BY <1>1, EventFacts DEF NoMissedEvent, Satisfied
  <2>1. elive /\ ~Satisfied(event_id_trigger[u], event_mode[u], events)
    BY DEF EventInv, NoMissedEvent
  <2>2. event_id_trigger'[u] = event_id_trigger[u] /\ event_mode'[u] = event_mode[u]
    BY <1>1, EventFacts
  <2> QED BY <2>1, <2>2
<1>8. EventTypeOK' /\ (pc \in [Task -> EventPlaces])'
  <2>1. /\ event_id_trigger' \in [Task -> SUBSET Flag] /\ event_mode' \in [Task -> Mode]
        /\ pc' \in [Task -> EventPlaces] /\ pc' \in [Task -> Places]
    BY <1>1, <1>2, EventFacts DEF EventInv, EventTypeOK, Places, EventPlaces
  <2> QED BY <1>1, <1>6, <2>1, EventFacts DEF EventInv, EventTypeOK
<1> QED BY <1>3, <1>6, <1>7, <1>8 DEF EventInv

LEMMA EventDeleteInv ==
  ASSUME EventInv, NEW t \in Task, EventDelete(t)
  PROVE  EventInv'
<1>1. /\ elive /\ delayed' = delayed \ Range(epend)
      /\ exstatus' = [u \in Task |-> IF u \in Range(epend) THEN "ERROR" ELSE exstatus[u]]
      /\ epend' = <<>> /\ elive' = FALSE /\ options' = 0 /\ events' = {}
      /\ raised' = Less(events)
      /\ UNCHANGED <<stray, event_id_trigger, event_mode, pc>>
  BY DEF EventDelete, LinklistResumeAll, Woken
<1>2. Range(epend') = {} /\ IsInjective(epend') /\ epend' \in Seq(Task)
  BY <1>1, EmptyElements
<1>3. EventListInv' /\ NoMissedEvent'
  BY <1>1, <1>2, EventFacts DEF EventInv, EventListInv, NoMissedEvent
<1>4. Served' = Served
  BY <1>1, <1>2, EventFacts DEF Served
<1>5. ASSUME NEW f \in Flag
      PROVE  raised'[f] = (IF f \in events' THEN 1 ELSE 0) + Cardinality(Takers(f)')
  <2>1. Takers(f)' = Takers(f)
    BY <1>1, <1>4 DEF Takers
  <2>2. raised'[f] = IF f \in events THEN raised[f] - 1 ELSE raised[f]
    BY <1>1 DEF Less
  <2> QED BY <1>1, <2>1, <2>2, EventFacts
<1>6. FlagsConserved' /\ raised' \in [Flag -> Nat]
  <2>1. DOMAIN raised' = Flag /\ raised' = [f \in Flag |-> raised'[f]]
    BY <1>1 DEF Less
  <2> QED BY <1>5, <2>1, FlagsKept
<1>7. EventTypeOK' /\ (pc \in [Task -> EventPlaces])'
  <2>1. exstatus' \in [Task -> Status]
    BY <1>1, EventFacts DEF Status
  <2>2. options' \in 0 .. 7 /\ events' \subseteq Flag /\ delayed' \subseteq Task
    BY <1>1, EventFacts
  <2>3. elive' \in BOOLEAN
    BY <1>1
  <2> QED BY <1>1, <1>2, <1>6, <2>1, <2>2, <2>3, EventFacts DEF EventInv, EventTypeOK
<1> QED BY <1>3, <1>6, <1>7 DEF EventInv

LEMMA EventTimeoutInv ==
  ASSUME EventInv, NEW t \in Task, EventTimeout(t)
  PROVE  EventInv'
<1>1. /\ t \in Range(epend) /\ delayed' = delayed \ {t}
      /\ exstatus' = [exstatus EXCEPT ![t] = "ETIMEOUT"]
      /\ epend' = RmNode(epend, t) /\ stray' = stray \ {t}
      /\ UNCHANGED <<elive, options, events, event_id_trigger, event_mode, raised, pc>>
  BY EventFacts DEF EventTimeout, TimedOut
<1>2. epend' \in Seq(Task) /\ IsInjective(epend') /\ Range(epend') = Range(epend) \ {t}
  BY <1>1, EventFacts, RmNodeElements
<1>3. EventListInv'
  BY <1>1, <1>2, EventFacts DEF EventInv, EventListInv
<1>4. NoMissedEvent'
  BY <1>1, <1>2, EventFacts DEF EventInv, NoMissedEvent, Satisfied
<1>5. Served' = Served
  BY <1>1, <1>2, EventFacts DEF Served
<1>6. FlagsConserved'
  BY <1>1, <1>5 DEF EventInv, FlagsConserved
<1>7. EventTypeOK' /\ (pc \in [Task -> EventPlaces])'
  BY <1>1, <1>2, EventFacts DEF EventInv, EventTypeOK, Status
<1> QED BY <1>3, <1>4, <1>6, <1>7 DEF EventInv

LEMMA EventNextInv ==
  ASSUME EventDisciplined, EventInv, [EventNext]_<<eventVars, pendVars>>
  PROVE  EventInv'
<1>1. CASE EventNext
  <2>1. PICK t \in Task :
           \/ \E opt \in EventOptions : EventCreate(t, opt)
           \/ \E S \in SUBSET Flag :
                 \/ EventTrigger(t, S)
                 \/ \E mode \in Mode :
                       \/ EventProcessNow(t, S, mode)
                       \/ \E ms \in Msecs : EventProcessWait(t, S, mode, ms)
           \/ EventReturn(t) \/ EventDelete(t) \/ EventTimeout(t)
    BY <1>1 DEF EventNext
  <2> QED BY <2>1, EventCreateInv, EventTriggerInv, EventProcessNowInv, EventProcessWaitInv,
             EventReturnInv, EventDeleteInv, EventTimeoutInv
<1>2. CASE UNCHANGED <<eventVars, pendVars>>
  BY <1>2 DEF eventVars, pendVars, EventInv, EventTypeOK, EventListInv, NoMissedEvent,
              FlagsConserved, Served, Satisfied
<1> QED BY <1>1, <1>2

LEMMA EventInitInv == EventInit => EventInv
<1> SUFFICES ASSUME EventInit PROVE EventInv
  OBVIOUS
<1> DEFINE none == [all |-> FALSE, autoclean |-> FALSE]
           e    == <<>>
<1>1. /\ elive = FALSE /\ options = 0 /\ events = {} /\ epend = e /\ stray = {}
      /\ event_id_trigger = [t \in Task |-> {}] /\ event_mode = [t \in Task |-> none]
      /\ raised = [f \in Flag |-> 0]
      /\ pc = [t \in Task |-> "idle"] /\ exstatus = [t \in Task |-> "EOK"] /\ delayed = {}
  BY DEF EventInit, PendInit
<1>2. none \in Mode /\ e \in Seq(Task) /\ IsInjective(e) /\ Range(e) = {}
  BY EmptyElements DEF Mode
<1> HIDE DEF none, e
<1>3. EventTypeOK /\ pc \in [Task -> EventPlaces]
  <2>1. elive \in BOOLEAN
    BY <1>1
  <2>2. /\ options \in 0 .. 7 /\ events \subseteq Flag /\ stray \subseteq Task
        /\ event_id_trigger \in [Task -> SUBSET Flag] /\ event_mode \in [Task -> Mode]
        /\ raised \in [Flag -> Nat] /\ delayed \subseteq Task
    BY <1>1, <1>2
  <2>3. /\ exstatus \in [Task -> Status] /\ pc \in [Task -> EventPlaces]
        /\ pc \in [Task -> Places]
    BY <1>1 DEF EventPlaces, Places, Status
  <2> QED BY <1>1, <1>2, <2>1, <2>2, <2>3 DEF EventTypeOK
<1>4. EventListInv /\ NoMissedEvent
  BY <1>1, <1>2 DEF EventListInv, NoMissedEvent
<1>5. FlagsConserved
  <2>1. Served = {}
    BY <1>1 DEF Served
  <2>2. \A f \in Flag : {t \in Served : event_mode[t].autoclean /\ f \in event_id_trigger[t]} = {}
    BY <2>1
  <2>3. Cardinality({}) = 0
    BY FS_EmptySet
  <2>4. \A f \in Flag :
           Cardinality({t \in Served : event_mode[t].autoclean /\ f \in event_id_trigger[t]}) = 0
    BY <2>2, <2>3
  <2>5. \A f \in Flag : raised[f] = 0 /\ f \notin events
    BY <1>1
  <2> QED BY <2>4, <2>5 DEF FlagsConserved
<1> QED BY <1>3, <1>4, <1>5 DEF EventInv

-----------------------------------------------------------------------------
(* The objects together: one kind of object is in use, and the others are  *)
(* as they began.                                                          *)

SemQuiet ==
    /\ alive = FALSE /\ value = 0 /\ pend = <<>> /\ balance = 0
    /\ ticks = [t \in Task |-> 0]
    /\ \A t \in Task : pc[t] # "sem_wait"

MutexQuiet ==
    /\ mutex = [m \in MutexId |-> Fresh] /\ cur_prio = CurPrio
    /\ target = [t \in Task |-> NoMutex]
    /\ times = [t \in Task |-> [m \in MutexId |-> 0]]
    /\ held = [t \in Task |-> <<>>] /\ tidy = Task
    /\ \A t \in Task : pc[t] # "mutex_wait"

EventQuiet ==
    /\ elive = FALSE /\ options = 0 /\ events = {} /\ epend = <<>> /\ stray = {}
    /\ event_id_trigger = [t \in Task |-> {}]
    /\ event_mode = [t \in Task |-> [all |-> FALSE, autoclean |-> FALSE]]
    /\ raised = [f \in Flag |-> 0]
    /\ \A t \in Task : pc[t] # "event_wait"

GatherQuiet ==
    /\ glive = FALSE /\ block_free_number = 0 /\ block_link = <<>> /\ wait_task = <<>>
    /\ wait_time = [t \in Task |-> 0] /\ owned = [t \in Task |-> {}]

ObjectsInv ==
    /\ kind \in {"semaphore", "mutex", "event", "block"}
    /\ IF kind = "semaphore" THEN pc \in [Task -> SemPlaces] /\ (SemDisciplined => SemInv)
                             ELSE SemQuiet
    /\ IF kind = "mutex"
       THEN pc \in [Task -> MutexPlaces] /\ (MutexDisciplined => MutexInv /\ MutexGoneInv)
       ELSE MutexQuiet
    /\ IF kind = "event" THEN pc \in [Task -> EventPlaces] /\ (EventDisciplined => EventInv)
                         ELSE EventQuiet
    /\ IF kind = "block" THEN GatherInv ELSE GatherQuiet

(* A task that uses a semaphore is at a place of a semaphore call, however *)
(* the semaphore is used.                                                  *)
LEMMA SemKeepsPlaces ==
  ASSUME pc \in [Task -> SemPlaces], [SemNext]_<<semVars, pendVars>>
  PROVE  pc' \in [Task -> SemPlaces]
<1>1. \/ pc' = pc
      \/ \E t \in Task, p \in SemPlaces : pc' = [pc EXCEPT ![t] = p]
  BY DEF SemNext, SemaphoreCreate, SemaphoreSetValue, IdGetObj, SemaphoreObtain, ObtainReturn,
         SemaphoreAbandon, SemaphoreDelete, SemaphoreTimeout, IsrAbandon, SemPlaces, Working,
         semVars, pendVars
<1> QED BY <1>1

LEMMA MutexKeepsPlaces ==
  ASSUME pc \in [Task -> MutexPlaces], [MutexNext]_<<mutexVars, pendVars>>
  PROVE  pc' \in [Task -> MutexPlaces]
<1>1. \/ pc' = pc
      \/ \E t \in Task, p \in MutexPlaces : pc' = [pc EXCEPT ![t] = p]
  BY ZenonT(40) DEF MutexNext, MutexCreate, MutexObtainAgain, MutexObtainFree, MutexObtainWait,
         MutexObtainReturn, MutexAbandonRefused, MutexAbandon, MutexDelete, MutexDeleteEnd,
         MutexTimeout, MutexPlaces, mutexVars, pendVars
<1> QED BY <1>1

LEMMA EventKeepsPlaces ==
  ASSUME pc \in [Task -> EventPlaces], [EventNext]_<<eventVars, pendVars>>
  PROVE  pc' \in [Task -> EventPlaces]
<1>1. \/ pc' = pc
      \/ \E t \in Task, p \in EventPlaces : pc' = [pc EXCEPT ![t] = p]
  BY ZenonT(40) DEF EventNext, EventCreate, EventTrigger, EventProcessNow, EventProcessWait, EventReturn,
         EventDelete, EventTimeout, EventPlaces, eventVars, pendVars
<1> QED BY <1>1

(* Objects that are not in use stay as they are, as long as the tasks stay *)
(* away from the places of their calls.                                    *)
LEMMA QuietStays ==
  /\ SemQuiet /\ UNCHANGED semVars /\ (\A t \in Task : pc'[t] # "sem_wait") => SemQuiet'
  /\ MutexQuiet /\ UNCHANGED mutexVars /\ (\A t \in Task : pc'[t] # "mutex_wait") => MutexQuiet'
  /\ EventQuiet /\ UNCHANGED eventVars /\ (\A t \in Task : pc'[t] # "event_wait") => EventQuiet'
  /\ GatherQuiet /\ UNCHANGED gatherVars => GatherQuiet'
<1>1. SemQuiet /\ UNCHANGED semVars /\ (\A t \in Task : pc'[t] # "sem_wait") => SemQuiet'
  BY DEF SemQuiet, semVars
<1>2. MutexQuiet /\ UNCHANGED mutexVars /\ (\A t \in Task : pc'[t] # "mutex_wait") => MutexQuiet'
  BY DEF MutexQuiet, mutexVars, history
<1>3. EventQuiet /\ UNCHANGED eventVars /\ (\A t \in Task : pc'[t] # "event_wait") => EventQuiet'
  BY DEF EventQuiet, eventVars
<1>4. GatherQuiet /\ UNCHANGED gatherVars => GatherQuiet'
  BY DEF GatherQuiet, gatherVars
<1> QED BY <1>1, <1>2, <1>3, <1>4

LEMMA ObjectsNextInv ==
  ASSUME ObjectsInv,
         [ObjectsNext]_<<kind, semVars, mutexVars, eventVars, gatherVars, pendVars>>
  PROVE  ObjectsInv'
<1>1. kind' = kind /\ kind \in {"semaphore", "mutex", "event", "block"}
  BY DEF ObjectsNext, ObjectsInv
<1>2. CASE kind = "semaphore"
  <2>1. [SemNext]_<<semVars, pendVars>> /\ UNCHANGED <<mutexVars, eventVars, gatherVars>>
    BY <1>2 DEF ObjectsNext
  <2>2. pc' \in [Task -> SemPlaces]
    BY <1>2, <2>1, SemKeepsPlaces DEF ObjectsInv
  <2>3. \A t \in Task : pc'[t] # "mutex_wait" /\ pc'[t] # "event_wait"
    BY <2>2 DEF SemPlaces, Working
  <2>4. SemDisciplined => SemInv'
    BY <1>2, <2>1, SemNextInv DEF ObjectsInv
  <2>5. SemDisciplined' = SemDisciplined
    BY DEF SemDisciplined
  <2>6. MutexQuiet' /\ EventQuiet' /\ GatherQuiet'
    BY <1>2, <2>1, <2>3, QuietStays DEF ObjectsInv
  <2> QED BY <1>1, <1>2, <2>2, <2>4, <2>5, <2>6 DEF ObjectsInv
<1>3. CASE kind = "mutex"
  <2>1. [MutexNext]_<<mutexVars, pendVars>> /\ UNCHANGED <<semVars, eventVars, gatherVars>>
    BY <1>3 DEF ObjectsNext
  <2>2. pc' \in [Task -> MutexPlaces]
    BY <1>3, <2>1, MutexKeepsPlaces DEF ObjectsInv
  <2>3. \A t \in Task : pc'[t] # "sem_wait" /\ pc'[t] # "event_wait"
    BY <2>2 DEF MutexPlaces
  <2>4. SemQuiet' /\ EventQuiet' /\ GatherQuiet'
    BY <1>3, <2>1, <2>3, QuietStays DEF ObjectsInv
  <2>5. MutexDisciplined => MutexInv' /\ MutexGoneInv'
    BY <1>3, <2>1, MutexNextInv, MutexGoneNext DEF ObjectsInv
  <2>6. MutexDisciplined' = MutexDisciplined
    BY DEF MutexDisciplined
  <2> QED BY <1>1, <1>3, <2>2, <2>4, <2>5, <2>6 DEF ObjectsInv
<1>4. CASE kind = "event"
  <2>1. [EventNext]_<<eventVars, pendVars>> /\ UNCHANGED <<semVars, mutexVars, gatherVars>>
    BY <1>4 DEF ObjectsNext
  <2>2. pc' \in [Task -> EventPlaces]
    BY <1>4, <2>1, EventKeepsPlaces DEF ObjectsInv
  <2>3. \A t \in Task : pc'[t] # "sem_wait" /\ pc'[t] # "mutex_wait"
    BY <2>2 DEF EventPlaces
  <2>4. SemQuiet' /\ MutexQuiet' /\ GatherQuiet'
    BY <1>4, <2>1, <2>3, QuietStays DEF ObjectsInv
  <2>5. EventDisciplined => EventInv'
    BY <1>4, <2>1, EventNextInv DEF ObjectsInv
  <2>6. EventDisciplined' = EventDisciplined
    BY DEF EventDisciplined
  <2> QED BY <1>1, <1>4, <2>2, <2>4, <2>5, <2>6 DEF ObjectsInv
<1>5. CASE kind = "block"
  <2>1. [GatherNext]_<<gatherVars, pendVars>> /\ UNCHANGED <<semVars, mutexVars, eventVars>>
    BY <1>5 DEF ObjectsNext
  <2>2. GatherInv'
    BY <1>5, <2>1, GatherNextInv DEF ObjectsInv
  <2>3. \A t \in Task : pc'[t] # "sem_wait" /\ pc'[t] # "mutex_wait" /\ pc'[t] # "event_wait"
    BY <2>2 DEF GatherInv, GatherPlaces
  <2>4. SemQuiet' /\ MutexQuiet' /\ EventQuiet'
    BY <1>5, <2>1, <2>3, QuietStays DEF ObjectsInv
  <2> QED BY <1>1, <1>5, <2>2, <2>4 DEF ObjectsInv
<1> QED BY <1>1, <1>2, <1>3, <1>4, <1>5

LEMMA ObjectsInitInv == ObjectsInit => ObjectsInv
<1> SUFFICES ASSUME ObjectsInit PROVE ObjectsInv
  OBVIOUS
<1>1. /\ kind \in {"semaphore", "mutex", "event", "block"}
      /\ SemInit /\ MutexInit /\ EventInit /\ GatherInit
  BY DEF ObjectsInit
<1>2. SemQuiet /\ MutexQuiet /\ EventQuiet /\ GatherQuiet
  <2>1. pc = [t \in Task |-> "idle"]
    BY <1>1 DEF SemInit, PendInit
  <2>2. \A t \in Task : pc[t] # "sem_wait" /\ pc[t] # "mutex_wait" /\ pc[t] # "event_wait"
    BY <2>1
  <2>3. SemQuiet /\ MutexQuiet
    BY <1>1, <2>2 DEF SemInit, MutexInit, SemQuiet, MutexQuiet
  <2>4. EventQuiet /\ GatherQuiet
    BY <1>1, <2>2 DEF EventInit, GatherInit, EventQuiet, GatherQuiet
  <2> QED BY <2>3, <2>4
<1>3. /\ SemDisciplined => SemInv
      /\ MutexInv /\ MutexGoneInv
      /\ EventDisciplined => EventInv
      /\ GatherInv
  BY <1>1, SemInitInv, MutexInitInv, EventInitInv, GatherInitInv
<1>4. pc \in [Task -> SemPlaces] /\ pc \in [Task -> EventPlaces] /\ pc \in [Task -> MutexPlaces]
  BY <1>1 DEF SemInit, PendInit, SemPlaces, EventPlaces, MutexPlaces
<1> QED BY <1>1, <1>2, <1>3, <1>4 DEF ObjectsInv

(* The inductive invariant of the objects. *)
THEOREM ObjectsInvariant == ObjectsSpec => []ObjectsInv
<1>1. ObjectsInit => ObjectsInv
  BY ObjectsInitInv
<1>2. ObjectsInv /\ [ObjectsNext]_<<kind, semVars, mutexVars, eventVars, gatherVars, pendVars>>
         => ObjectsInv'
  BY ObjectsNextInv
<1> QED BY <1>1, <1>2, PTL DEF ObjectsSpec

(* semaphore.c: no permit is lost or handed out twice, whatever abandons,  *)
(* interrupts, timeouts, new values and deletes race for a waiter.         *)
THEOREM PermitsAreConserved ==
  ASSUME SemDisciplined
  PROVE  ObjectsSpec => []PermitsConserved
<1>1. ObjectsInv => PermitsConserved
  <2>1. CASE kind = "semaphore"
    BY <2>1 DEF ObjectsInv, SemInv
  <2>2. ASSUME SemQuiet PROVE PermitsConserved
    <3>1. Granted = {}
      BY <2>2 DEF SemQuiet, Granted
    <3>2. Cardinality(Granted) = 0
      BY <3>1, FS_EmptySet
    <3> QED BY <2>2, <3>2 DEF SemQuiet, PermitsConserved
  <2> QED BY <2>1, <2>2 DEF ObjectsInv
<1> QED BY <1>1, ObjectsInvariant, PTL

(* semaphore.c: nobody waits for a semaphore that could be had. *)
THEOREM PermitsReachWaiters ==
  ASSUME SemDisciplined
  PROVE  ObjectsSpec => []NoWaiterWithPermit
<1>1. ObjectsInv => NoWaiterWithPermit
  BY DEF ObjectsInv, SemInv, SemQuiet, NoWaiterWithPermit
<1> QED BY <1>1, ObjectsInvariant, PTL

(* mutex.c: a task that was told it has a mutex is its holder, as often as *)
(* it was told, and no other task was told, as long as no mutex is deleted *)
(* that others are using.                                                  *)
THEOREM MutexesExclude ==
  ASSUME MutexDisciplined
  PROVE  ObjectsSpec => []MutualExclusion
<1>1. ObjectsInv => MutualExclusion
  <2>1. CASE kind = "mutex"
    BY <2>1 DEF ObjectsInv, MutexInv
  <2>2. ASSUME MutexQuiet PROVE MutualExclusion
    <3>1. \A m \in MutexId : Handed(m) = {}
      BY <2>2 DEF MutexQuiet, Handed
    <3>2. \A m \in MutexId : mutex[m].recursive_cnt = 0 /\ \A t \in Task : times[t][m] = 0
      BY <2>2 DEF MutexQuiet, Fresh
    <3> QED BY <3>1, <3>2 DEF MutualExclusion
  <2> QED BY <2>1, <2>2 DEF ObjectsInv
<1> QED BY <1>1, ObjectsInvariant, PTL

(* mutex.c: nobody waits for a mutex that is free or gone. *)
THEOREM MutexesReachWaiters ==
  ASSUME MutexDisciplined
  PROVE  ObjectsSpec => []NoWaiterOnFreeMutex
<1>1. ObjectsInv => NoWaiterOnFreeMutex
  <2>1. CASE kind = "mutex"
    BY <2>1 DEF ObjectsInv, MutexInv
  <2>2. ASSUME MutexQuiet PROVE NoWaiterOnFreeMutex
    <3>1. \A m \in MutexId : /\ mutex[m].pend_list = <<>> /\ mutex[m].holder = NoTask
                             /\ mutex[m].val = 1
      BY <2>2 DEF MutexQuiet, Fresh
    <3> QED BY <3>1, EmptyElements DEF NoWaiterOnFreeMutex
  <2> QED BY <2>1, <2>2 DEF ObjectsInv
<1> QED BY <1>1, ObjectsInvariant, PTL

(* mutex.c: inheritance never leaves a task below its own priority, and a  *)
(* task that gives its mutexes up in the reverse order in which it got     *)
(* them has its own priority when it holds none.                           *)
THEOREM PrioritiesAreRestored ==
  ASSUME MutexDisciplined
  PROVE  ObjectsSpec => []PriorityRestored
<1>1. ObjectsInv => PriorityRestored
  <2>1. CASE kind = "mutex"
    BY <2>1 DEF ObjectsInv, MutexInv
  <2>2. ASSUME MutexQuiet PROVE PriorityRestored
    <3>1. \A t \in Task : cur_prio[t] = CurPrio[t] /\ CurPrio[t] \in Nat
      BY <2>2, PendAssumption DEF MutexQuiet
    <3> QED BY <3>1 DEF PriorityRestored
  <2> QED BY <2>1, <2>2 DEF ObjectsInv
<1> QED BY <1>1, ObjectsInvariant, PTL

(* gatherblock.c: a block is free once or owned by one task. *)
THEOREM BlocksAreConserved == ObjectsSpec => []BlocksConserved
<1>1. ObjectsInv => BlocksConserved
  <2>1. CASE kind = "block"
    BY <2>1 DEF ObjectsInv, GatherInv
  <2>2. ASSUME GatherQuiet PROVE BlocksConserved
    <3>1. block_free_number = Len(block_link) /\ IsInjective(block_link)
      BY <2>2, EmptyElements DEF GatherQuiet
    <3> QED BY <2>2, <3>1 DEF GatherQuiet, BlocksConserved
  <2> QED BY <2>1, <2>2 DEF ObjectsInv
<1> QED BY <1>1, ObjectsInvariant, PTL

(* gatherblock.c: no task sleeps beside a free block. *)
THEOREM BlocksReachSleepers == ObjectsSpec => []NoSleeperBesideBlock
<1>1. ObjectsInv => NoSleeperBesideBlock
  BY DEF ObjectsInv, GatherInv, GatherQuiet, NoSleeperBesideBlock
<1> QED BY <1>1, ObjectsInvariant, PTL

(* event.c: what is raised and not cleared never satisfies a task that is  *)
(* still suspended on the event.                                           *)
THEOREM EventsReachWaiters ==
  ASSUME EventDisciplined
  PROVE  ObjectsSpec => []NoMissedEvent
<1>1. ObjectsInv => NoMissedEvent
  <2>1. CASE kind = "event"
    BY <2>1 DEF ObjectsInv, EventInv
  <2>2. ASSUME EventQuiet PROVE NoMissedEvent
    BY <2>2, EmptyElements DEF EventQuiet, NoMissedEvent
  <2> QED BY <2>1, <2>2 DEF ObjectsInv
<1> QED BY <1>1, ObjectsInvariant, PTL

(* event.c: a raised flag is in the event or with the one served waiter    *)
(* that clears it, whatever is triggered, times out or is deleted.         *)
THEOREM FlagsAreConserved ==
  ASSUME EventDisciplined
  PROVE  ObjectsSpec => []FlagsConserved
<1>1. ObjectsInv => FlagsConserved
  <2>1. CASE kind = "event"
    BY <2>1 DEF ObjectsInv, EventInv
  <2>2. ASSUME EventQuiet PROVE FlagsConserved
    <3>1. Served = {} /\ events = {} /\ raised = [f \in Flag |-> 0]
      BY <2>2 DEF EventQuiet, Served
    <3>2. Cardinality({}) = 0
      BY FS_EmptySet
    <3>3. \A f \in Flag :
             Cardinality({t \in Served : event_mode[t].autoclean /\ f \in event_id_trigger[t]}) = 0
      <4>1. \A f \in Flag :
               {t \in Served : event_mode[t].autoclean /\ f \in event_id_trigger[t]} = {}
        BY <3>1
      <4> QED BY <3>2, <4>1
    <3> QED BY <3>1, <3>3 DEF FlagsConserved
  <2> QED BY <2>1, <2>2 DEF ObjectsInv
<1> QED BY <1>1, ObjectsInvariant, PTL

(* The variables that all objects share have their types, and objects that *)
(* are not in use have theirs.                                             *)
PendTypeOK == exstatus \in [Task -> Status] /\ delayed \subseteq Task /\ pc \in [Task -> Places]

LEMMA QuietTypes ==
  ASSUME PendTypeOK
  PROVE  /\ SemQuiet => SemTypeOK
         /\ MutexQuiet => MutexTypeOK
         /\ EventQuiet => EventTypeOK
         /\ GatherQuiet => GatherTypeOK
<1> DEFINE e == <<>>
           no == FALSE
<1>1. e \in Seq(Task) /\ e \in Seq(MutexId) /\ e \in Seq(Block) /\ no \in BOOLEAN
  BY EmptyElements
<1>2. SemQuiet => SemTypeOK
  <2> SUFFICES ASSUME SemQuiet PROVE SemTypeOK
    OBVIOUS
  <2>1. alive = no /\ value = 0 /\ pend = e /\ balance = 0 /\ ticks = [t \in Task |-> 0]
    BY DEF SemQuiet
  <2> HIDE DEF e, no
  <2> QED BY <1>1, <2>1, SemaphoreAssumption DEF SemTypeOK, PendTypeOK
<1>3. MutexQuiet => MutexTypeOK
  <2> SUFFICES ASSUME MutexQuiet PROVE MutexTypeOK
    OBVIOUS
  <2>1. /\ mutex = [m \in MutexId |-> Fresh] /\ cur_prio = CurPrio
        /\ target = [t \in Task |-> NoMutex]
        /\ times = [t \in Task |-> [m \in MutexId |-> 0]]
        /\ held = [t \in Task |-> e] /\ tidy = Task
        /\ Fresh = [alive |-> no, val |-> 1, holder |-> NoTask, origin_prio |-> 255,
                    recursive_cnt |-> 0, pend_list |-> e]
    BY DEF MutexQuiet, Fresh
  <2> HIDE DEF e, no
  <2>2. Fresh \in MutexRecord
    BY <1>1, <2>1, MutexAssumption DEF MutexRecord
  <2>3. mutex \in [MutexId -> MutexRecord]
    BY <2>1, <2>2
  <2>4. cur_prio \in [Task -> Nat] /\ target \in [Task -> MutexId \cup {NoMutex}]
    BY <2>1, PendAssumption
  <2>5. times \in [Task -> [MutexId -> Nat]] /\ held \in [Task -> Seq(MutexId)] /\ tidy \subseteq Task
    BY <1>1, <2>1
  <2> QED BY <2>3, <2>4, <2>5 DEF MutexTypeOK, PendTypeOK, MutexRecord
<1>4. EventQuiet => EventTypeOK
  <2> SUFFICES ASSUME EventQuiet PROVE EventTypeOK
    OBVIOUS
  <2> DEFINE none == [all |-> no, autoclean |-> no]
  <2>1. /\ elive = no /\ options = 0 /\ events = {} /\ epend = e /\ stray = {}
        /\ event_id_trigger = [t \in Task |-> {}] /\ event_mode = [t \in Task |-> none]
        /\ raised = [f \in Flag |-> 0]
    BY DEF EventQuiet
  <2> HIDE DEF e, no
  <2>2. none \in Mode
    BY <1>1 DEF Mode
  <2> HIDE DEF none
  <2>3. elive \in BOOLEAN /\ options \in 0 .. 7 /\ events \subseteq Flag /\ stray \subseteq Task
    BY <1>1, <2>1
  <2>4. event_id_trigger \in [Task -> SUBSET Flag] /\ event_mode \in [Task -> Mode]
    BY <2>1, <2>2
  <2>5. raised \in [Flag -> Nat] /\ epend \in Seq(Task)
    BY <1>1, <2>1
  <2> QED BY <2>3, <2>4, <2>5 DEF EventTypeOK, PendTypeOK
<1>5. GatherQuiet => GatherTypeOK
  <2> SUFFICES ASSUME GatherQuiet PROVE GatherTypeOK
    OBVIOUS
  <2>1. /\ glive = no /\ block_free_number = 0 /\ block_link = e /\ wait_task = e
        /\ wait_time = [t \in Task |-> 0] /\ owned = [t \in Task |-> {}]
    BY DEF GatherQuiet
  <2> HIDE DEF e, no
  <2>2. Cardinality(Block) \in Nat
    BY GatherAssumption, FS_CardinalityType
  <2> QED BY <1>1, <2>1, <2>2 DEF GatherTypeOK, PendTypeOK
<1> QED BY <1>2, <1>3, <1>4, <1>5

(* Every variable of the objects has its type. *)
THEOREM ObjectsTypes ==
  ASSUME SemDisciplined, MutexDisciplined, EventDisciplined
  PROVE  ObjectsSpec => []ObjectsTypeOK
<1>1. ObjectsInv => ObjectsTypeOK
  <2> SUFFICES ASSUME ObjectsInv PROVE ObjectsTypeOK
    OBVIOUS
  <2>1. CASE kind = "semaphore"
    <3>1. SemTypeOK /\ MutexQuiet /\ EventQuiet /\ GatherQuiet
      BY <2>1 DEF ObjectsInv, SemInv
    <3>2. PendTypeOK
      BY <3>1 DEF SemTypeOK, PendTypeOK
    <3> QED BY <3>1, <3>2, QuietTypes DEF ObjectsTypeOK
  <2>2. CASE kind = "mutex"
    <3>1. MutexTypeOK /\ SemQuiet /\ EventQuiet /\ GatherQuiet
      BY <2>2 DEF ObjectsInv, MutexInv
    <3>2. PendTypeOK
      BY <3>1 DEF MutexTypeOK, PendTypeOK
    <3> QED BY <3>1, <3>2, QuietTypes DEF ObjectsTypeOK
  <2>3. CASE kind = "event"
    <3>1. EventTypeOK /\ SemQuiet /\ MutexQuiet /\ GatherQuiet
      BY <2>3 DEF ObjectsInv, EventInv
    <3>2. PendTypeOK
      BY <3>1 DEF EventTypeOK, PendTypeOK
    <3> QED BY <3>1, <3>2, QuietTypes DEF ObjectsTypeOK
  <2>4. CASE kind = "block"
    <3>1. GatherTypeOK /\ SemQuiet /\ MutexQuiet /\ EventQuiet
      BY <2>4 DEF ObjectsInv, GatherInv
    <3>2. PendTypeOK
      BY <3>1 DEF GatherTypeOK, PendTypeOK
    <3> QED BY <3>1, <3>2, QuietTypes DEF ObjectsTypeOK
  <2> QED BY <2>1, <2>2, <2>3, <2>4 DEF ObjectsInv
<1> QED BY <1>1, ObjectsInvariant, PTL

(* The lists of the objects when every list but one is empty. *)
LEMMA OneList ==
  ASSUME NEW list \in PendLists, IsInjective(list), delayed = Range(list),
         \A l \in PendLists : l # list => l = <<>>,
         \A m, n \in MutexId : m # n => mutex[m].pend_list = <<>>,
         \A t \in delayed : exstatus[t] = "EOK" /\ pc[t] # "idle"
  PROVE  DelayWhileWaiting
<1> DEFINE e == <<>>
<1>1. Range(e) = {} /\ IsInjective(e)
  BY EmptyElements
<1>2. \A l \in PendLists : l = list \/ l = e
  OBVIOUS
<1>3. \A m, n \in MutexId : m # n => mutex[m].pend_list = e
  OBVIOUS
<1> HIDE DEF e
<1>4. UNION {Range(l) : l \in PendLists} = Range(list)
  BY <1>1, <1>2
<1>5. \A l \in PendLists : IsInjective(l)
  BY <1>1, <1>2
<1>6. \A m, n \in MutexId :
         m # n => Range(mutex[m].pend_list) \cap Range(mutex[n].pend_list) = {}
  BY <1>1, <1>3
<1> QED BY <1>4, <1>5, <1>6 DEF DelayWhileWaiting

(* linklist.c, delay.c: the delay of a wait runs as long as the task is on *)
(* the list of the object, of one object and once.                         *)
THEOREM DelaysOfObjectWaiters ==
  ASSUME SemDisciplined, MutexDisciplined, EventDisciplined
  PROVE  ObjectsSpec => []DelayWhileWaiting
<1>1. ObjectsInv => DelayWhileWaiting
  <2> SUFFICES ASSUME ObjectsInv PROVE DelayWhileWaiting
    OBVIOUS
  <2>1. /\ kind # "semaphore" => pend = <<>>
        /\ kind # "event" => epend = <<>>
        /\ kind # "block" => wait_task = <<>>
    BY DEF ObjectsInv, SemQuiet, EventQuiet, GatherQuiet
  <2>2. kind # "mutex" => \A m \in MutexId : mutex[m].pend_list = <<>>
    BY DEF ObjectsInv, MutexQuiet, Fresh
  <2>3. PendLists = {pend, epend, wait_task} \cup {mutex[m].pend_list : m \in MutexId}
    BY DEF PendLists
  <2>4. CASE kind = "semaphore"
    <3>1. SemListInv
      BY <2>4 DEF ObjectsInv, SemInv
    <3> QED BY <2>1, <2>2, <2>3, <2>4, <3>1, OneList DEF SemListInv
  <2>5. CASE kind = "event"
    <3>1. EventListInv
      BY <2>5 DEF ObjectsInv, EventInv
    <3> QED BY <2>1, <2>2, <2>3, <2>5, <3>1, OneList DEF EventListInv
  <2>6. CASE kind = "block"
    <3>1. GatherListInv
      BY <2>6 DEF ObjectsInv, GatherInv
    <3> QED BY <2>1, <2>2, <2>3, <2>6, <3>1, OneList DEF GatherListInv
  <2>7. CASE kind = "mutex"
    <3> DEFINE e == <<>>
    <3>1. pend = e /\ epend = e /\ wait_task = e /\ Range(e) = {} /\ IsInjective(e)
      BY <2>1, <2>7, EmptyElements
    <3> HIDE DEF e
    <3>2. /\ MutexListInv /\ delayed \subseteq Task
          /\ \A m \in MutexId : Range(mutex[m].pend_list) \subseteq Task
      BY <2>7, MutexFacts DEF ObjectsInv, MutexInv, MutexTypeOK
    <3>3. \A l \in PendLists : l = e \/ \E m \in MutexId : l = mutex[m].pend_list
      BY <2>3, <3>1
    <3>4. \A l \in PendLists : IsInjective(l)
      BY <3>1, <3>2, <3>3 DEF MutexListInv
    <3>5. \A m, n \in MutexId :
             m # n => Range(mutex[m].pend_list) \cap Range(mutex[n].pend_list) = {}
      BY <3>2 DEF MutexListInv
    <3>6. ASSUME NEW t PROVE t \in delayed <=> \E l \in PendLists : t \in Range(l)
      <4>1. ASSUME t \in delayed PROVE \E l \in PendLists : t \in Range(l)
        BY <2>3, <3>2, <4>1 DEF MutexListInv
      <4>2. ASSUME NEW l \in PendLists, t \in Range(l) PROVE t \in delayed
        BY <3>1, <3>2, <3>3, <4>2 DEF MutexListInv
      <4> QED BY <4>1, <4>2
    <3>7. delayed = UNION {Range(l) : l \in PendLists}
      BY <3>6
    <3>8. \A t \in delayed : exstatus[t] = "EOK" /\ pc[t] # "idle"
      BY <3>2 DEF MutexListInv
    <3> QED BY <3>4, <3>5, <3>7, <3>8 DEF DelayWhileWaiting
  <2> QED BY <2>4, <2>5, <2>6, <2>7 DEF ObjectsInv
<1> QED BY <1>1, ObjectsInvariant, PTL
=============================================================================
