---------------------------- MODULE KTaskProofs -----------------------------
(***************************************************************************)
(* The scheduler's safety for any number of tasks and priorities, under    *)
(* every policy and any pattern of calls and interrupts, as long as        *)
(*                                                                         *)
(*   - KTaskPrioSet is not called for a READY task,                        *)
(*   - tasks that quit or are deleted are not woken with interrupts on,    *)
(*   - a task is not deleted while the recycler frees it,                  *)
(*   - on Cortex-M, PendSV is taken before the next interrupt.             *)
(*                                                                         *)
(* Without any one of them the invariants below fail (README, findings     *)
(* and hazards).                                                           *)
(***************************************************************************)
EXTENDS KTask, DoubleLinkProofs

-----------------------------------------------------------------------------
(* What KTaskInsertToReadyVector, KTaskOsAssignRemoveKTask and             *)
(* ChooseTaskWithHighestPrio do to a ready vector, for any number of       *)
(* priorities and under every policy.                                      *)

(* The bitmap and the cached priority agree with the lists of r. *)
Consistent(r) ==
    /\ \A p \in Prio : p \in r.group <=> r.vector[p] # <<>>
    /\ r.highest = PrioCaculate(r.group)

(* The vector r holds exactly the tasks of S, each once, in the list of    *)
(* its priority cp.                                                        *)
Holds(r, T, S, cp) ==
    /\ r \in [vector : [Prio -> Seq(T)], group : SUBSET Prio, highest : Prio]
    /\ Consistent(r)
    /\ \A p \in Prio : /\ IsInjective(r.vector[p])
                       /\ Range(r.vector[p]) = {t \in S : cp[t] = p}

(* The same, but for the bit of priority x. *)
HoldsBut(r, T, S, cp, x) ==
    /\ r \in [vector : [Prio -> Seq(T)], group : SUBSET Prio, highest : Prio]
    /\ \A p \in Prio \ {x} : p \in r.group <=> r.vector[p] # <<>>
    /\ r.highest = PrioCaculate(r.group)
    /\ \A p \in Prio : /\ IsInjective(r.vector[p])
                       /\ Range(r.vector[p]) = {t \in S : cp[t] = p}

(* PrioCaculate returns the highest bit that is set. *)
LEMMA PrioCaculateIsMax ==
  ASSUME NEW g \in SUBSET Prio
  PROVE  /\ PrioCaculate(g) \in Prio
         /\ g = {} => PrioCaculate(g) = 0
         /\ g # {} => /\ PrioCaculate(g) \in g
                      /\ \A p \in g : p <= PrioCaculate(g)
<1>1. PrioMax - 1 \in Nat /\ Prio \subseteq Int /\ 0 \in Prio
  BY PrioMaxAssumption DEF Prio
<1>2. CASE g = {}
  BY <1>1, <1>2 DEF PrioCaculate
<1>3. CASE g # {}
  <2>1. \E x \in g : \A y \in g : x >= y
    BY <1>1, <1>3, GreatestExists DEF Prio
  <2>2. Max(g) \in g /\ \A y \in g : Max(g) >= y
    BY <2>1 DEF Max
  <2> QED BY <1>1, <1>3, <2>2 DEF PrioCaculate
<1> QED BY <1>2, <1>3

(* A priority that is in g and that no other exceeds is PrioCaculate(g). *)
LEMMA PrioCaculateUnique ==
  ASSUME NEW g \in SUBSET Prio, NEW p \in g, \A q \in g : q <= p
  PROVE  PrioCaculate(g) = p
  BY PrioCaculateIsMax DEF Prio

(* The place AssignPolicyInsert picks is in the list or at its end. *)
LEMMA ReadyPosRange ==
  ASSUME NEW T, NEW s \in Seq(T), NEW t, NEW sl, NEW adv
  PROVE  ReadyPos(s, t, sl, adv) \in 1 .. Len(s) + 1
  BY SortedPosRange DEF ReadyPos

(* An empty list is the one without elements. *)
LEMMA EmptyRange ==
  ASSUME NEW T, NEW s \in Seq(T)
  PROVE  s = <<>> <=> Range(s) = {}
<1>1. s # <<>> => s[1] \in Range(s)
  BY DEF Range
<1> QED BY <1>1 DEF Range

(* Inserting a task that is not queued queues it and sets its bit. *)
LEMMA InsertReadyHoldsBut ==
  ASSUME NEW T, NEW S \in SUBSET T, NEW cp \in [T -> Prio], NEW r,
         NEW t \in T \ S, HoldsBut(r, T, S, cp, cp[t]), NEW sl, NEW adv
  PROVE  Holds(InsertReady(r, t, cp[t], {cp[t]}, sl, adv),
               T, S \cup {t}, cp)
<1> DEFINE p == cp[t]
           n == InsertReady(r, t, p, {p}, sl, adv)
           w == InsertAt(r.vector[p], ReadyPos(r.vector[p], t, sl, adv), t)
<1>1. p \in Prio /\ Prio \subseteq Int
  BY DEF Prio
<1>2. r \in [vector : [Prio -> Seq(T)], group : SUBSET Prio, highest : Prio]
  BY DEF HoldsBut
<1>3. /\ n.vector = [r.vector EXCEPT ![p] = w]
      /\ n.group = r.group \cup {p}
      /\ n.highest = IF p > r.highest THEN p ELSE r.highest
      /\ n = [vector |-> n.vector, group |-> n.group, highest |-> n.highest]
  BY DEF InsertReady
<1>4. /\ w \in Seq(T)
      /\ IsInjective(w)
      /\ Range(w) = {u \in S : cp[u] = p} \cup {t}
  <2>1. /\ r.vector[p] \in Seq(T)
        /\ IsInjective(r.vector[p])
        /\ Range(r.vector[p]) = {u \in S : cp[u] = p}
    BY <1>1, <1>2 DEF HoldsBut
  <2>2. ReadyPos(r.vector[p], t, sl, adv) \in 1 .. Len(r.vector[p]) + 1
    BY <2>1, ReadyPosRange
  <2>3. t \notin Range(r.vector[p])
    BY <2>1
  <2> QED BY <2>1, <2>2, <2>3, InsertAtElements
<1> HIDE DEF w, n
<1>5. n \in [vector : [Prio -> Seq(T)], group : SUBSET Prio, highest : Prio]
  <2>1. n.vector \in [Prio -> Seq(T)]
    <3>1. r.vector \in [Prio -> Seq(T)]
      BY <1>2
    <3> QED BY <1>3, <1>4, <3>1
  <2>2. n.group \in SUBSET Prio /\ n.highest \in Prio
    BY <1>1, <1>2, <1>3
  <2>3. [vector |-> n.vector, group |-> n.group, highest |-> n.highest]
           \in [vector : [Prio -> Seq(T)], group : SUBSET Prio, highest : Prio]
    BY <2>1, <2>2
  <2> QED BY <1>3, <2>3
<1>6. \A q \in Prio : /\ IsInjective(n.vector[q])
                      /\ Range(n.vector[q]) = {u \in S \cup {t} : cp[u] = q}
  <2> TAKE q \in Prio
  <2>1. CASE q = p
    <3>1. n.vector[q] = w
      BY <1>2, <1>3, <2>1
    <3> QED BY <1>4, <2>1, <3>1
  <2>2. CASE q # p
    <3>1. n.vector[q] = r.vector[q]
      BY <1>2, <1>3, <2>2
    <3>2. IsInjective(r.vector[q]) /\ Range(r.vector[q]) = {u \in S : cp[u] = q}
      BY DEF HoldsBut
    <3> QED BY <2>2, <3>1, <3>2
  <2> QED BY <2>1, <2>2
<1>7. \A q \in Prio : q \in n.group <=> n.vector[q] # <<>>
  <2> TAKE q \in Prio
  <2>1. CASE q = p
    <3>1. n.vector[q] = w
      BY <1>2, <1>3, <2>1
    <3>2. w # <<>>
      BY <1>4, EmptyRange
    <3> QED BY <1>3, <2>1, <3>1, <3>2
  <2>2. CASE q # p
    BY <1>2, <1>3, <2>2 DEF HoldsBut
  <2> QED BY <2>1, <2>2
<1>8. n.highest = PrioCaculate(n.group)
  <2>1. r.highest = PrioCaculate(r.group) /\ r.group \in SUBSET Prio /\ r.highest \in Prio
    BY <1>2 DEF HoldsBut
  <2>2. /\ r.group = {} => r.highest = 0
        /\ r.group # {} => r.highest \in r.group /\ \A q \in r.group : q <= r.highest
    BY <2>1, PrioCaculateIsMax
  <2>3. n.highest \in n.group /\ \A q \in n.group : q <= n.highest
    <3>1. CASE r.group = {}
      <4>1. n.group = {p} /\ n.highest = p
        BY <1>1, <1>3, <2>2, <3>1 DEF Prio
      <4>2. p <= p
        BY <1>1 DEF Prio
      <4> QED BY <4>1, <4>2, ZenonT(40)
    <3>2. CASE r.group # {}
      BY <1>1, <1>3, <2>1, <2>2, <3>2
    <3> QED BY <3>1, <3>2
  <2> QED BY <1>5, <2>3, PrioCaculateUnique
<1> QED BY <1>5, <1>6, <1>7, <1>8 DEF Holds, Consistent, n

(* Inserting a task that is not queued queues it. *)
LEMMA InsertReadyHolds ==
  ASSUME NEW T, NEW S \in SUBSET T, NEW cp \in [T -> Prio], NEW r,
         Holds(r, T, S, cp), NEW t \in T \ S, NEW sl, NEW adv
  PROVE  Holds(InsertReady(r, t, cp[t], {cp[t]}, sl, adv),
               T, S \cup {t}, cp)
<1>1. HoldsBut(r, T, S, cp, cp[t])
  BY DEF Holds, Consistent, HoldsBut
<1> QED BY <1>1, InsertReadyHoldsBut

(* Unlinking a task without looking at the bitmap and inserting it again,  *)
(* as KTaskWakeup does, queues it once, whether it was queued or not.      *)
LEMMA UnlinkInsertHolds ==
  ASSUME NEW T, NEW S \in SUBSET T, NEW cp \in [T -> Prio], NEW r,
         Holds(r, T, S, cp), NEW t \in T, NEW sl, NEW adv
  PROVE  Holds(InsertReady(UnlinkReady(r, t), t, cp[t], {cp[t]}, sl, adv),
               T, S \cup {t}, cp)
<1> DEFINE n == UnlinkReady(r, t)
           v == [q \in Prio |-> RmNode(r.vector[q], t)]
<1>1. r \in [vector : [Prio -> Seq(T)], group : SUBSET Prio, highest : Prio]
  BY DEF Holds
<1>2. n = [r EXCEPT !.vector = v]
  BY DEF UnlinkReady
<1>3. \A q \in Prio : /\ v[q] \in Seq(T)
                      /\ IsInjective(v[q])
                      /\ Range(v[q]) = {u \in S \ {t} : cp[u] = q}
  <2> TAKE q \in Prio
  <2>1. /\ r.vector[q] \in Seq(T)
        /\ IsInjective(r.vector[q])
        /\ Range(r.vector[q]) = {u \in S : cp[u] = q}
    BY <1>1 DEF Holds
  <2>2. /\ RmNode(r.vector[q], t) \in Seq(T)
        /\ IsInjective(RmNode(r.vector[q], t))
        /\ Range(RmNode(r.vector[q], t)) = Range(r.vector[q]) \ {t}
    BY <2>1, RmNodeElements
  <2> QED BY <2>1, <2>2
<1>4. v \in [Prio -> Seq(T)]
  BY <1>3
<1>5. /\ n.vector = v /\ n.group = r.group /\ n.highest = r.highest
      /\ n \in [vector : [Prio -> Seq(T)], group : SUBSET Prio, highest : Prio]
  BY <1>1, <1>2, <1>4
<1>6. \A q \in Prio \ {cp[t]} : q \in n.group <=> n.vector[q] # <<>>
  <2> TAKE q \in Prio \ {cp[t]}
  <2>1. /\ r.vector[q] \in Seq(T) /\ Range(r.vector[q]) = {u \in S : cp[u] = q}
        /\ q \in r.group <=> r.vector[q] # <<>>
    BY <1>1 DEF Holds, Consistent
  <2>2. {u \in S : cp[u] = q} = {u \in S \ {t} : cp[u] = q}
    OBVIOUS
  <2>3. v[q] = <<>> <=> r.vector[q] = <<>>
    BY <1>3, <2>1, <2>2, EmptyRange
  <2> QED BY <1>5, <2>1, <2>3
<1>7. n.highest = PrioCaculate(n.group)
  BY <1>5 DEF Holds, Consistent
<1>8. HoldsBut(n, T, S \ {t}, cp, cp[t])
  <2> HIDE DEF v, n
  <2> QED BY <1>3, <1>5, <1>6, <1>7 DEF HoldsBut
<1>9. t \in T \ (S \ {t}) /\ S \ {t} \in SUBSET T
  OBVIOUS
<1>10. (S \ {t}) \cup {t} = S \cup {t}
  OBVIOUS
<1> HIDE DEF n
<1>11. Holds(InsertReady(n, t, cp[t], {cp[t]}, sl, adv),
             T, (S \ {t}) \cup {t}, cp)
  BY <1>8, <1>9, InsertReadyHoldsBut
<1> QED BY <1>10, <1>11 DEF n

(* A priority of a task that is not queued does not matter. *)
LEMMA RepriorHolds ==
  ASSUME NEW T, NEW S \in SUBSET T, NEW cp \in [T -> Prio], NEW r,
         Holds(r, T, S, cp), NEW t \in T \ S, NEW p \in Prio
  PROVE  Holds(r, T, S, [cp EXCEPT ![t] = p])
<1>1. \A q \in Prio : {u \in S : cp[u] = q} = {u \in S : [cp EXCEPT ![t] = p][u] = q}
  OBVIOUS
<1> QED BY <1>1 DEF Holds

(* Removing a task leaves the others queued, whether it was queued or not, *)
(* if its bit is the bit of its priority when it is.                       *)
LEMMA RemoveReadyHolds ==
  ASSUME NEW T, NEW S \in SUBSET T, NEW cp \in [T -> Prio], NEW r,
         Holds(r, T, S, cp), NEW t \in T, NEW col,
         col \subseteq {cp[t]}, t \in S => col = {cp[t]}
  PROVE  Holds(RemoveReady(r, t, cp[t], col), T, S \ {t}, cp)
<1> DEFINE p == cp[t]
           n == RemoveReady(r, t, p, col)
           v == [q \in Prio |-> RmNode(r.vector[q], t)]
           g == r.group \ col
<1>1. p \in Prio
  OBVIOUS
<1>2. r \in [vector : [Prio -> Seq(T)], group : SUBSET Prio, highest : Prio]
  BY DEF Holds
<1>3. \A q \in Prio : /\ v[q] \in Seq(T)
                      /\ IsInjective(v[q])
                      /\ Range(v[q]) = {u \in S \ {t} : cp[u] = q}
  <2> TAKE q \in Prio
  <2>1. /\ r.vector[q] \in Seq(T)
        /\ IsInjective(r.vector[q])
        /\ Range(r.vector[q]) = {u \in S : cp[u] = q}
    BY <1>2 DEF Holds
  <2>2. /\ RmNode(r.vector[q], t) \in Seq(T)
        /\ IsInjective(RmNode(r.vector[q], t))
        /\ Range(RmNode(r.vector[q], t)) = Range(r.vector[q]) \ {t}
    BY <2>1, RmNodeElements
  <2> QED BY <2>1, <2>2
<1>4. v \in [Prio -> Seq(T)]
  BY <1>3
<1>5. \A q \in Prio : q # p => (v[q] = <<>> <=> r.vector[q] = <<>>)
  <2> TAKE q \in Prio
  <2> HAVE q # p
  <2>1. r.vector[q] \in Seq(T) /\ Range(r.vector[q]) = {u \in S : cp[u] = q}
    BY <1>2 DEF Holds
  <2>2. {u \in S : cp[u] = q} = {u \in S \ {t} : cp[u] = q}
    OBVIOUS
  <2> QED BY <1>3, <2>1, <2>2, EmptyRange
<1>6. \A q \in Prio : q \in r.group <=> r.vector[q] # <<>>
  BY DEF Holds, Consistent
<1>7. CASE v[p] = <<>>
  <2>1. n = [vector |-> v, group |-> g, highest |-> PrioCaculate(g)]
    BY <1>7 DEF RemoveReady
  <2>2. g \in SUBSET Prio /\ PrioCaculate(g) \in Prio
    BY <1>2, PrioCaculateIsMax
  <2>3. p \notin g
    <3>1. CASE t \in S
      BY <3>1
    <3>2. CASE t \notin S
      <4>1. Range(r.vector[p]) = {u \in S : cp[u] = p} /\ r.vector[p] \in Seq(T)
        BY <1>1, <1>2 DEF Holds
      <4>2. {u \in S : cp[u] = p} = {u \in S \ {t} : cp[u] = p}
        BY <3>2
      <4>3. r.vector[p] = <<>>
        BY <1>1, <1>3, <1>7, <4>1, <4>2, EmptyRange
      <4> QED BY <1>1, <1>6, <4>3
    <3> QED BY <3>1, <3>2
  <2>4. \A q \in Prio : q \in g <=> v[q] # <<>>
    <3> HIDE DEF v
    <3> QED BY <1>5, <1>6, <1>7, <2>3
  <2> HIDE DEF v, g, n
  <2> QED BY <1>3, <1>4, <2>1, <2>2, <2>4 DEF Holds, Consistent, n
<1>8. CASE v[p] # <<>>
  <2>1. n = [r EXCEPT !.vector = v]
    BY <1>8 DEF RemoveReady
  <2>2. /\ n.vector = v /\ n.group = r.group /\ n.highest = r.highest
        /\ n \in [vector : [Prio -> Seq(T)], group : SUBSET Prio, highest : Prio]
    BY <1>2, <1>4, <2>1
  <2>3. r.vector[p] # <<>>
    <3>1. r.vector[p] \in Seq(T) /\ Range(r.vector[p]) = {u \in S : cp[u] = p}
      BY <1>1, <1>2 DEF Holds
    <3>2. Range(v[p]) # {} /\ Range(v[p]) \subseteq Range(r.vector[p])
      BY <1>1, <1>3, <1>8, <3>1, EmptyRange
    <3> QED BY <3>1, <3>2, EmptyRange
  <2>4. \A q \in Prio : q \in n.group <=> n.vector[q] # <<>>
    <3> HIDE DEF v, n
    <3> QED BY <1>5, <1>6, <1>8, <2>2, <2>3
  <2>5. n.highest = PrioCaculate(n.group)
    BY <2>2 DEF Holds, Consistent
  <2> HIDE DEF v, n
  <2> QED BY <1>3, <2>2, <2>4, <2>5 DEF Holds, Consistent, n
<1> QED BY <1>7, <1>8

(* While some task is queued, the task chosen is queued and no queued task *)
(* has a higher priority; the bitmap is empty only when no task is queued. *)
LEMMA ChooseIsHighest ==
  ASSUME NEW T, NEW S \in SUBSET T, NEW cp \in [T -> Prio], NEW r,
         Holds(r, T, S, cp)
  PROVE  /\ r.group = {} <=> S = {}
         /\ r.group # {} => /\ ChooseTaskWithHighestPrio(r) \in S
                            /\ cp[ChooseTaskWithHighestPrio(r)] = r.highest
         /\ \A u \in S : cp[u] <= r.highest
<1>1. r \in [vector : [Prio -> Seq(T)], group : SUBSET Prio, highest : Prio]
  BY DEF Holds
<1>2. \A p \in Prio : /\ r.vector[p] \in Seq(T)
                      /\ p \in r.group <=> r.vector[p] # <<>>
                      /\ Range(r.vector[p]) = {u \in S : cp[u] = p}
  BY <1>1 DEF Holds, Consistent
<1>3. \A u \in S : cp[u] \in r.group
  <2> TAKE u \in S
  <2>1. cp[u] \in Prio /\ u \in Range(r.vector[cp[u]])
    BY <1>2
  <2> QED BY <1>2, <2>1, EmptyRange
<1>4. r.highest = PrioCaculate(r.group)
  BY DEF Holds, Consistent
<1>5. r.group # {} => r.highest \in r.group /\ \A p \in r.group : p <= r.highest
  BY <1>1, <1>4, PrioCaculateIsMax
<1>6. ASSUME r.group # {}
      PROVE  /\ ChooseTaskWithHighestPrio(r) \in S
             /\ cp[ChooseTaskWithHighestPrio(r)] = r.highest
  <2>1. r.highest \in Prio /\ r.vector[r.highest] # <<>>
    BY <1>1, <1>2, <1>5, <1>6
  <2>2. Head(r.vector[r.highest]) \in Range(r.vector[r.highest])
    <3> DEFINE s == r.vector[r.highest]
    <3>1. s \in Seq(T) /\ s # <<>>
      BY <1>2, <2>1
    <3> HIDE DEF s
    <3>2. Head(s) = s[1] /\ 1 \in DOMAIN s
      BY <3>1
    <3>3. Head(s) \in Range(s)
      BY <3>2 DEF Range
    <3> QED BY <3>3 DEF s
  <2> QED BY <1>2, <2>1, <2>2 DEF ChooseTaskWithHighestPrio
<1> QED BY <1>3, <1>5, <1>6

-----------------------------------------------------------------------------
(* The invariant of the scheduler. *)

Disciplined ==
    /\ "READY" \notin PrioSetStats
    /\ BareWoken \cap Mortal = {}
    /\ ~DeleteReaping
    /\ ~IrqBeforePendSV

Ready == {t \in AllTask : stat[t] = "READY"}

(* The ready vector holds exactly the READY tasks. *)
QueueInv == Holds(rv, AllTask, Ready, curPrio)

(* A task's bit is the bit of its current priority once it has been        *)
(* started, so that inserting and removing it touch the right bit.         *)
ColumnInv ==
    \A t \in AllTask :
        /\ column[t] \subseteq {curPrio[t]}
        /\ stat[t] \in {"READY", "SUSPEND", "RUNNING"} => column[t] = {curPrio[t]}

(* Who has the core, and that no interrupt handler runs while PendSV is    *)
(* pending.                                                                *)
CoreInv ==
    /\ OneRunning
    /\ stat[CpuTask] \in {"READY", "SUSPEND", "RUNNING", "CLOSE"}
    /\ switchTo # NoTask => isr = "none" /\ DeferredSwitch
                            /\ stat[switchTo] = "RUNNING"

(* The idle task never blocks, and neither it nor the recycler ends. *)
ServiceInv ==
    /\ stat[Idle] \in {"READY", "RUNNING"}
    /\ stat[Zombie] \in {"READY", "RUNNING", "SUSPEND"}

(* A task that is about to be woken with interrupts on is another task,    *)
(* which has been started and does not end.                                *)
WakeeInv ==
    \A t \in AllTask :
        pc[t] = "wake" => /\ wakee[t] \in BareWoken \ {t}
                          /\ stat[wakee[t]] \in {"READY", "SUSPEND", "RUNNING"}

(* Closed tasks are freed once, and only off the core. *)
DeadInv ==
    /\ ZombiesGetReaped
    /\ IsInjective(zombies)
    /\ Range(zombies) \subseteq User
    /\ reaping \notin Range(zombies)
    /\ reaping # NoTask <=> pc[Zombie] = "reap"
    /\ reaping \in User \cup {NoTask}

IndInv ==
    /\ TypeOK
    /\ QueueInv
    /\ ColumnInv
    /\ CoreInv
    /\ ServiceInv
    /\ WakeeInv
    /\ DeadInv

-----------------------------------------------------------------------------
(* The task sets, and the types that TypeOK gives the variables. *)
LEMMA TaskSets ==
  /\ User \subseteq AllTask /\ Idle \in AllTask /\ Zombie \in AllTask
  /\ Idle \notin User /\ Zombie \notin User /\ Idle # Zombie
  /\ NoTask \notin AllTask /\ NoTask \notin User
  /\ Mortal \subseteq User /\ BareWoken \subseteq User
  /\ OriginPrio \in [AllTask -> Prio] /\ TimeSlice \in Nat \ {0}
  BY TaskAssumption, CallAssumption, OriginPrioAssumption, TimeAssumption DEF AllTask

(* A started task that is not queued is queued by PutReady. *)
LEMMA PutReadyInv ==
  ASSUME TypeOK, QueueInv, NEW t \in AllTask, stat[t] # "READY",
         column[t] = {curPrio[t]}
  PROVE  Holds(PutReady(rv, t), AllTask, Ready \cup {t}, curPrio)
<1>1. Ready \in SUBSET AllTask /\ t \in AllTask \ Ready
  BY DEF Ready
<1>2. curPrio \in [AllTask -> Prio]
  BY DEF TypeOK
<1> QED BY <1>1, <1>2, InsertReadyHolds DEF QueueInv, PutReady

(* TakeReady unqueues a task and leaves the others. *)
LEMMA TakeReadyInv ==
  ASSUME TypeOK, QueueInv, ColumnInv, NEW t \in AllTask
  PROVE  Holds(TakeReady(rv, t), AllTask, Ready \ {t}, curPrio)
<1>1. Ready \in SUBSET AllTask
  BY DEF Ready
<1>2. curPrio \in [AllTask -> Prio]
  BY DEF TypeOK
<1>3. column[t] \subseteq {curPrio[t]} /\ (t \in Ready => column[t] = {curPrio[t]})
  BY DEF ColumnInv, Ready
<1> QED BY <1>1, <1>2, <1>3, RemoveReadyHolds DEF QueueInv, TakeReady

(* KTaskUnSetDelay keeps the types of the delay list and the deadlines. *)
LEMMA UnSetDelayType ==
  ASSUME TypeOK, NEW t \in AllTask, KTaskUnSetDelay(t)
  PROVE  /\ delayList' \in Seq(AllTask)
         /\ deadline' \in [AllTask -> Ticks \cup {Inactive}]
<1>1. delayList \in Seq(AllTask) /\ deadline \in [AllTask -> Ticks \cup {Inactive}]
  BY DEF TypeOK
<1>2. RmNode(delayList, t) \in Seq(AllTask)
  BY <1>1, RmNodeType
<1> QED BY <1>1, <1>2 DEF KTaskUnSetDelay

(* KTaskCreate preserves the invariant. *)
LEMMA KTaskCreateInv ==
  ASSUME IndInv, NEW t \in User, NEW u \in User, KTaskCreate(t, u)
  PROVE  IndInv'
<1> USE TaskSets DEF IndInv, attrs, cpu, timers, dead, irq, calls, Calling, OnCpu
<1>1. Ready' = Ready /\ curPrio' \in [AllTask -> Prio] /\ rv' = rv
  BY DEF TypeOK, KTaskCreate, Ready
<1>2. QueueInv'
  <2>1. u \in AllTask \ Ready /\ Ready \in SUBSET AllTask
    BY DEF KTaskCreate, Ready
  <2>2. curPrio' = [curPrio EXCEPT ![u] = OriginPrio[u]] /\ OriginPrio[u] \in Prio
        /\ curPrio \in [AllTask -> Prio]
    BY DEF KTaskCreate, TypeOK
  <2> QED BY <1>1, <2>1, <2>2, RepriorHolds DEF QueueInv
<1>3. TypeOK'
  <2>1. slice' \in [AllTask -> 1 .. TimeSlice] /\ advance' \in [AllTask -> 0 .. MaxAdvance]
    <3>1. TimeSlice \in 1 .. TimeSlice /\ 0 \in 0 .. MaxAdvance
      BY DEF MaxAdvance
    <3> QED BY <3>1 DEF TypeOK, KTaskCreate
  <2>2. /\ stat' \in [AllTask -> Stats]
        /\ column' \in [AllTask -> SUBSET Prio]
        /\ exstatus' \in [AllTask -> {"EOK", "ETIMEOUT"}]
    BY DEF TypeOK, KTaskCreate, Stats
  <2>3. pc' \in [AllTask -> {"run", "assign", "delay", "delayed", "wake", "reap"}]
    BY DEF TypeOK, KTaskCreate
  <2>4. UNCHANGED <<rv, running, switchTo, tick, delayList, deadline, zombies,
                    reaping, isr, swFlag, wakee>>
    BY DEF KTaskCreate
  <2> QED BY <1>1, <2>1, <2>2, <2>3, <2>4 DEF TypeOK
<1>4. ColumnInv'
  BY DEF TypeOK, KTaskCreate, ColumnInv
<1>5. CoreInv'
  BY DEF TypeOK, KTaskCreate, CoreInv, OneRunning, CpuTask
<1>6. ServiceInv'
  BY DEF TypeOK, KTaskCreate, ServiceInv
<1>7. WakeeInv'
  BY ZenonT(40) DEF TypeOK, KTaskCreate, WakeeInv
<1>8. DeadInv'
  <2>1. /\ stat[Zombie]' = stat[Zombie] /\ pc[Zombie]' = pc[Zombie]
        /\ \A s \in AllTask : stat[s] = "CLOSE" => stat'[s] = "CLOSE"
        /\ zombies' = zombies /\ reaping' = reaping /\ CpuTask' = CpuTask
    BY DEF TypeOK, KTaskCreate, CpuTask
  <2> QED BY <2>1 DEF DeadInv, ZombiesGetReaped
<1> QED BY <1>2, <1>3, <1>4, <1>5, <1>6, <1>7, <1>8 DEF IndInv

(* SuspendKTask preserves the invariant. *)
LEMMA SuspendKTaskInv ==
  ASSUME IndInv, NEW t \in User, SuspendKTask(t)
  PROVE  IndInv'
<1> USE TaskSets DEF IndInv, attrs, cpu, timers, dead, irq, calls, Calling, OnCpu
<1>1. QueueInv'
  <2>1. Ready' = Ready \ {t} /\ curPrio' = curPrio
    BY DEF TypeOK, SuspendKTask, Ready
  <2>2. rv' = TakeReady(rv, t)
    BY DEF SuspendKTask
  <2> QED BY <2>1, <2>2, TakeReadyInv DEF QueueInv
<1>3. TypeOK'
  <2>1. delayList' \in Seq(AllTask) /\ deadline' \in [AllTask -> Ticks \cup {Inactive}]
    BY UnSetDelayType DEF SuspendKTask
  <2>2. rv' \in [vector : [Prio -> Seq(AllTask)], group : SUBSET Prio, highest : Prio]
    BY <1>1 DEF QueueInv, Holds
  <2>3. stat' \in [AllTask -> Stats]
    BY DEF TypeOK, SuspendKTask, Stats
  <2>4. pc' \in [AllTask -> {"run", "assign", "delay", "delayed", "wake", "reap"}]
    BY DEF TypeOK, SuspendKTask
  <2> QED BY <2>1, <2>2, <2>3, <2>4 DEF TypeOK, SuspendKTask
<1>4. ColumnInv'
  BY DEF TypeOK, SuspendKTask, ColumnInv
<1>5. CoreInv'
  BY DEF TypeOK, SuspendKTask, CoreInv, OneRunning, CpuTask
<1>6. ServiceInv'
  BY DEF TypeOK, SuspendKTask, ServiceInv
<1>7. WakeeInv'
  BY DEF TypeOK, SuspendKTask, WakeeInv
<1>8. DeadInv'
  BY SMTT(20) DEF TypeOK, SuspendKTask, DeadInv, ZombiesGetReaped, CpuTask
<1> QED BY <1>1, <1>3, <1>4, <1>5, <1>6, <1>7, <1>8 DEF IndInv

(* StartupKTask preserves the invariant. *)
LEMMA StartupKTaskInv ==
  ASSUME IndInv, NEW t \in User, NEW u \in User, StartupKTask(t, u)
  PROVE  IndInv'
<1> USE TaskSets DEF IndInv, attrs, cpu, timers, dead, irq, calls, Calling, OnCpu
<1>1. QueueInv'
  <2> DEFINE p == OriginPrio[u]
  <2>1. /\ curPrio \in [AllTask -> Prio] /\ p \in Prio
        /\ curPrio' = [curPrio EXCEPT ![u] = p]
        /\ curPrio' \in [AllTask -> Prio] /\ curPrio'[u] = p
    BY DEF TypeOK, StartupKTask
  <2>2. /\ Ready \in SUBSET AllTask /\ u \in AllTask \ Ready
        /\ Ready' = Ready \cup {u}
    <3>1. stat \in [AllTask -> Stats] /\ stat' = [stat EXCEPT ![u] = "READY"] /\ stat[u] = "INIT"
      BY DEF TypeOK, StartupKTask
    <3> QED BY <3>1 DEF Ready
  <2>3. Holds(rv, AllTask, Ready, curPrio')
    BY <2>1, <2>2, RepriorHolds DEF QueueInv
  <2>4. rv' = InsertReady(rv, u, curPrio'[u], {curPrio'[u]}, slice, advance)
    BY <2>1 DEF StartupKTask
  <2> QED BY <2>1, <2>2, <2>3, <2>4, InsertReadyHolds DEF QueueInv
<1>2. TypeOK'
  <2>1. delayList' \in Seq(AllTask) /\ deadline' \in [AllTask -> Ticks \cup {Inactive}]
    BY UnSetDelayType DEF StartupKTask
  <2>2. rv' \in [vector : [Prio -> Seq(AllTask)], group : SUBSET Prio, highest : Prio]
    BY <1>1 DEF QueueInv, Holds
  <2>3. stat' \in [AllTask -> Stats]
    BY DEF TypeOK, StartupKTask, Stats
  <2>4. /\ pc' \in [AllTask -> {"run", "assign", "delay", "delayed", "wake", "reap"}]
        /\ curPrio' \in [AllTask -> Prio] /\ column' \in [AllTask -> SUBSET Prio]
    BY ZenonT(40) DEF TypeOK, StartupKTask
  <2>5. UNCHANGED <<slice, advance, exstatus, running, switchTo, tick, zombies,
                    reaping, isr, swFlag, wakee>>
    BY DEF StartupKTask
  <2> QED BY <2>1, <2>2, <2>3, <2>4, <2>5 DEF TypeOK
<1>3. ColumnInv'
  BY DEF TypeOK, StartupKTask, ColumnInv
<1>4. CoreInv'
  BY DEF TypeOK, StartupKTask, CoreInv, OneRunning, CpuTask
<1>5. ServiceInv'
  BY DEF TypeOK, StartupKTask, ServiceInv
<1>6. WakeeInv'
  BY DEF TypeOK, StartupKTask, WakeeInv
<1>7. DeadInv'
  <2>1. /\ stat[Zombie]' = stat[Zombie] /\ pc[Zombie]' = pc[Zombie]
        /\ \A s \in AllTask : stat[s] = "CLOSE" => stat'[s] = "CLOSE"
        /\ zombies' = zombies /\ reaping' = reaping /\ CpuTask' = CpuTask
    BY DEF TypeOK, StartupKTask, CpuTask
  <2> QED BY <2>1 DEF DeadInv, ZombiesGetReaped
<1> QED BY <1>1, <1>2, <1>3, <1>4, <1>5, <1>6, <1>7 DEF IndInv

(* KTaskSetDelay keeps the types of the delay list and the deadlines. *)
LEMMA SetDelayType ==
  ASSUME TypeOK, NEW t \in AllTask, NEW d \in Delays, KTaskSetDelay(t, d)
  PROVE  /\ delayList' \in Seq(AllTask)
         /\ deadline' \in [AllTask -> Ticks \cup {Inactive}]
<1> DEFINE due  == (tick + d) % TickMod
           rest == IF deadline[t] # Inactive THEN RmNode(delayList, t)
                                             ELSE delayList
<1>1. delayList \in Seq(AllTask) /\ deadline \in [AllTask -> Ticks \cup {Inactive}]
  BY DEF TypeOK
<1>2. due \in Ticks
  <2>1. tick \in Nat /\ d \in Nat /\ TickMod \in Nat \ {0}
    BY TimeAssumption DEF TypeOK, Ticks
  <2>2. \A n \in Nat : n % TickMod \in 0 .. TickMod - 1
    BY <2>1
  <2> QED BY <2>1, <2>2 DEF Ticks
<1>3. rest \in Seq(AllTask)
  BY <1>1, RmNodeType
<1>4. delayList' = InsertSorted(rest, t, due, deadline)
      /\ deadline' = [deadline EXCEPT ![t] = due]
  BY DEF KTaskSetDelay
<1> HIDE DEF due, rest
<1> QED BY <1>1, <1>2, <1>3, <1>4, InsertSortedElements

(* DelayKTask preserves the invariant. *)
LEMMA DelayKTaskInv ==
  ASSUME IndInv, NEW t \in User, NEW d \in Delays, DelayKTask(t, d)
  PROVE  IndInv'
<1> USE TaskSets DEF IndInv, attrs, cpu, timers, dead, irq, calls, Calling, OnCpu
<1>1. QueueInv'
  <2>1. Ready' = Ready \ {t} /\ curPrio' = curPrio
    BY DEF TypeOK, DelayKTask, Ready
  <2>2. rv' = TakeReady(rv, t)
    BY DEF DelayKTask
  <2> QED BY <2>1, <2>2, TakeReadyInv DEF QueueInv
<1>2. TypeOK'
  <2>1. delayList' \in Seq(AllTask) /\ deadline' \in [AllTask -> Ticks \cup {Inactive}]
    BY SetDelayType DEF DelayKTask
  <2>2. rv' \in [vector : [Prio -> Seq(AllTask)], group : SUBSET Prio, highest : Prio]
    BY <1>1 DEF QueueInv, Holds
  <2>3. stat' \in [AllTask -> Stats]
    BY DEF TypeOK, DelayKTask, Stats
  <2>4. pc' \in [AllTask -> {"run", "assign", "delay", "delayed", "wake", "reap"}]
    BY DEF TypeOK, DelayKTask
  <2>5. UNCHANGED <<curPrio, column, slice, advance, exstatus, running, switchTo,
                    tick, zombies, reaping, isr, swFlag, wakee>>
    BY DEF DelayKTask
  <2> QED BY <2>1, <2>2, <2>3, <2>4, <2>5 DEF TypeOK
<1>3. ColumnInv'
  BY DEF TypeOK, DelayKTask, ColumnInv
<1>4. CoreInv'
  BY DEF TypeOK, DelayKTask, CoreInv, OneRunning, CpuTask
<1>5. ServiceInv'
  BY DEF TypeOK, DelayKTask, ServiceInv
<1>6. WakeeInv'
  BY DEF TypeOK, DelayKTask, WakeeInv
<1>7. DeadInv'
  <2>1. /\ stat[Zombie]' = stat[Zombie] /\ pc[Zombie]' = pc[Zombie]
        /\ \A s \in AllTask : stat[s] = "CLOSE" => stat'[s] = "CLOSE"
        /\ zombies' = zombies /\ reaping' = reaping /\ CpuTask' = CpuTask
    BY DEF TypeOK, DelayKTask, CpuTask
  <2> QED BY <2>1 DEF DeadInv, ZombiesGetReaped
<1> QED BY <1>1, <1>2, <1>3, <1>4, <1>5, <1>6, <1>7 DEF IndInv

(* The return from DelayKTask preserves the invariant. *)
LEMMA DelayReturnInv ==
  ASSUME IndInv, NEW t \in User, DelayReturn(t)
  PROVE  IndInv'
<1> USE TaskSets DEF IndInv, attrs, cpu, timers, dead, irq, calls, Calling, OnCpu
<1>1. UNCHANGED <<stat, curPrio, column, slice, advance, rv, running, switchTo, tick,
                  delayList, deadline, zombies, reaping, isr, swFlag, wakee>>
  BY DEF DelayReturn
<1>2. TypeOK'
  <2>1. exstatus' \in [AllTask -> {"EOK", "ETIMEOUT"}]
    BY DEF TypeOK, DelayReturn
  <2>2. pc' \in [AllTask -> {"run", "assign", "delay", "delayed", "wake", "reap"}]
    BY DEF TypeOK, DelayReturn
  <2> QED BY <1>1, <2>1, <2>2 DEF TypeOK
<1>3. QueueInv' /\ ColumnInv' /\ CoreInv' /\ ServiceInv'
  BY <1>1 DEF QueueInv, Ready, ColumnInv, CoreInv, OneRunning, CpuTask, ServiceInv
<1>4. WakeeInv'
  BY <1>1 DEF TypeOK, DelayReturn, WakeeInv
<1>5. DeadInv'
  <2>1. pc'[Zombie] = pc[Zombie] /\ CpuTask' = CpuTask
    BY <1>1 DEF TypeOK, DelayReturn, CpuTask
  <2> QED BY <1>1, <2>1 DEF DeadInv, ZombiesGetReaped
<1> QED BY <1>2, <1>3, <1>4, <1>5 DEF IndInv

(* What _KTaskWakeup does to a task that is suspended or already ready. *)
LEMMA WakeEffect ==
  ASSUME IndInv, NEW u \in AllTask, stat[u] \in {"SUSPEND", "READY"}, Wake(u)
  PROVE  /\ curPrio' = curPrio => QueueInv'
         /\ stat' \in [AllTask -> Stats] /\ stat' = [stat EXCEPT ![u] = "READY"]
         /\ zombies' = zombies
         /\ delayList' \in Seq(AllTask)
         /\ deadline' \in [AllTask -> Ticks \cup {Inactive}]
<1> USE DEF IndInv
<1>1. delayList' \in Seq(AllTask) /\ deadline' \in [AllTask -> Ticks \cup {Inactive}]
  BY UnSetDelayType DEF Wake
<1>2. stat' \in [AllTask -> Stats] /\ stat' = [stat EXCEPT ![u] = "READY"]
  BY DEF TypeOK, Wake, Stats
<1>3. zombies' = zombies
  <2>1. u \notin Range(zombies)
    BY DEF DeadInv, ZombiesGetReaped
  <2> QED BY <2>1 DEF Wake, RmNode
<1>4. ASSUME curPrio' = curPrio PROVE QueueInv'
  <2>1. Ready' = Ready \cup {u} /\ Ready \in SUBSET AllTask
    BY <1>2 DEF TypeOK, Ready
  <2>2. curPrio \in [AllTask -> Prio] /\ column[u] = {curPrio[u]}
    BY DEF TypeOK, ColumnInv
  <2>3. rv' = InsertReady(UnlinkReady(rv, u), u, curPrio[u], {curPrio[u]}, slice, advance)
    BY <2>2 DEF Wake, PutReady
  <2> QED BY <1>4, <2>1, <2>2, <2>3, UnlinkInsertHolds DEF QueueInv
<1> QED BY <1>1, <1>2, <1>3, <1>4

(* A wakeup of a suspended task preserves the invariant, whoever calls it. *)
LEMMA WakeInv ==
  ASSUME IndInv, NEW u \in AllTask, stat[u] \in {"SUSPEND", "READY"}, Wake(u),
         UNCHANGED <<attrs, cpu, tick, reaping>>,
         isr' \in {"none", "exit"}, swFlag' \in BOOLEAN,
         switchTo # NoTask => isr' = "none",
         pc' \in [AllTask -> {"run", "assign", "delay", "delayed", "wake", "reap"}],
         wakee' \in [AllTask -> AllTask \cup {NoTask}],
         \A t \in AllTask : pc'[t] = "wake" => pc[t] = "wake" /\ wakee'[t] = wakee[t],
         pc'[Zombie] = "reap" <=> pc[Zombie] = "reap"
  PROVE  IndInv'
<1> USE TaskSets DEF IndInv, attrs, cpu
<1>1. /\ QueueInv'
      /\ stat' \in [AllTask -> Stats] /\ stat' = [stat EXCEPT ![u] = "READY"]
      /\ zombies' = zombies
      /\ delayList' \in Seq(AllTask)
      /\ deadline' \in [AllTask -> Ticks \cup {Inactive}]
  BY WakeEffect
<1>2. TypeOK'
  <2>1. rv' \in [vector : [Prio -> Seq(AllTask)], group : SUBSET Prio, highest : Prio]
    BY <1>1 DEF QueueInv, Holds
  <2>2. UNCHANGED <<curPrio, column, slice, advance, exstatus, running, switchTo,
                    tick, zombies, reaping>>
    BY <1>1
  <2> QED BY <1>1, <2>1, <2>2 DEF TypeOK
<1>3. ColumnInv'
  BY <1>1 DEF TypeOK, ColumnInv
<1>4. CoreInv'
  BY <1>1 DEF TypeOK, CoreInv, OneRunning, CpuTask
<1>5. ServiceInv'
  BY <1>1 DEF TypeOK, ServiceInv
<1>6. WakeeInv'
  BY <1>1 DEF TypeOK, WakeeInv
<1>7. DeadInv'
  <2>1. /\ stat'[Zombie] = "SUSPEND" => stat[Zombie] = "SUSPEND"
        /\ \A s \in AllTask : stat[s] = "CLOSE" => stat'[s] = "CLOSE"
        /\ zombies' = zombies /\ reaping' = reaping /\ CpuTask' = CpuTask
    BY <1>1 DEF TypeOK, CpuTask
  <2>2. ZombiesGetReaped'
    BY <2>1 DEF DeadInv, ZombiesGetReaped
  <2>3. reaping' # NoTask <=> pc'[Zombie] = "reap"
    BY <2>1 DEF DeadInv
  <2> QED BY <2>1, <2>2, <2>3 DEF DeadInv
<1> QED BY <1>1, <1>2, <1>3, <1>4, <1>5, <1>6, <1>7 DEF IndInv

(* KTaskWakeup in a critical area preserves the invariant. *)
LEMMA KTaskWakeupInv ==
  ASSUME IndInv, NEW t \in User, NEW u \in User, KTaskWakeup(t, u)
  PROVE  IndInv'
<1> USE TaskSets DEF attrs, cpu, irq, calls
<1>1. TypeOK /\ CoreInv
  BY DEF IndInv
<1>2. /\ Wake(u) /\ stat[u] \in {"SUSPEND", "READY"}
      /\ UNCHANGED <<attrs, cpu, tick, reaping>> /\ UNCHANGED <<isr, swFlag, pc, wakee>>
      /\ isr = "none" /\ u \in AllTask
  BY DEF KTaskWakeup, Calling, OnCpu
<1>3. /\ pc' \in [AllTask -> {"run", "assign", "delay", "delayed", "wake", "reap"}]
      /\ wakee' \in [AllTask -> AllTask \cup {NoTask}] /\ swFlag' \in BOOLEAN
  BY <1>1, <1>2 DEF TypeOK
<1> QED BY <1>2, <1>3, WakeInv

(* The test of KTaskWakeup outside a critical area preserves the invariant. *)
LEMMA KTaskWakeupTestInv ==
  ASSUME IndInv, NEW t \in User, NEW u \in User, KTaskWakeupTest(t, u)
  PROVE  IndInv'
<1> USE TaskSets DEF IndInv, attrs, cpu, timers, dead, irq, calls, Calling, OnCpu
<1>1. UNCHANGED <<stat, curPrio, column, slice, advance, exstatus, rv, running, switchTo,
                  tick, delayList, deadline, zombies, reaping, isr, swFlag>>
  BY DEF KTaskWakeupTest
<1>2. TypeOK'
  <2>1. wakee' \in [AllTask -> AllTask \cup {NoTask}]
    BY DEF TypeOK, KTaskWakeupTest
  <2>2. pc' \in [AllTask -> {"run", "assign", "delay", "delayed", "wake", "reap"}]
    BY DEF TypeOK, KTaskWakeupTest
  <2> QED BY <1>1, <2>1, <2>2 DEF TypeOK
<1>3. QueueInv' /\ ColumnInv' /\ CoreInv' /\ ServiceInv'
  BY <1>1 DEF QueueInv, Ready, ColumnInv, CoreInv, OneRunning, CpuTask, ServiceInv
<1>4. WakeeInv'
  BY <1>1 DEF TypeOK, KTaskWakeupTest, WakeeInv
<1>5. DeadInv'
  <2>1. pc'[Zombie] = pc[Zombie] /\ CpuTask' = CpuTask
    BY <1>1 DEF TypeOK, KTaskWakeupTest, CpuTask
  <2> QED BY <1>1, <2>1 DEF DeadInv, ZombiesGetReaped
<1> QED BY <1>2, <1>3, <1>4, <1>5 DEF IndInv

(* The wakeup after that test preserves the invariant: whatever happened   *)
(* in between, the task is suspended or ready.                             *)
LEMMA KTaskWakeupGoInv ==
  ASSUME IndInv, NEW t \in User, KTaskWakeupGo(t)
  PROVE  IndInv'
<1> USE TaskSets DEF attrs, cpu, irq, calls
<1> DEFINE u == wakee[t]
<1>1. TypeOK /\ CoreInv /\ WakeeInv /\ DeadInv
  BY DEF IndInv
<1>2. /\ Wake(u)
      /\ UNCHANGED <<attrs, cpu, tick, reaping>> /\ UNCHANGED <<isr, swFlag>>
      /\ isr = "none" /\ switchTo = NoTask /\ running = t
      /\ stat[t] = "RUNNING" /\ pc[t] = "wake"
      /\ pc'    = [pc    EXCEPT ![t] = "run"]
      /\ wakee' = [wakee EXCEPT ![t] = NoTask]
  BY DEF KTaskWakeupGo, OnCpu
<1>3. u \in AllTask /\ stat[u] \in {"SUSPEND", "READY"}
  BY <1>1, <1>2 DEF WakeeInv, CoreInv, OneRunning, CpuTask
<1>4. /\ pc' \in [AllTask -> {"run", "assign", "delay", "delayed", "wake", "reap"}]
      /\ wakee' \in [AllTask -> AllTask \cup {NoTask}] /\ swFlag' \in BOOLEAN
  BY <1>1, <1>2 DEF TypeOK
<1>5. /\ \A s \in AllTask : pc'[s] = "wake" => pc[s] = "wake" /\ wakee'[s] = wakee[s]
      /\ pc'[Zombie] = "reap" <=> pc[Zombie] = "reap"
  BY <1>1, <1>2 DEF TypeOK
<1> HIDE DEF u
<1> QED BY <1>2, <1>3, <1>4, <1>5, WakeInv

(* The wakeup by a device's handler preserves the invariant. *)
LEMMA IsrDeviceInv ==
  ASSUME Disciplined, IndInv, NEW u \in User, IsrDevice(u)
  PROVE  IndInv'
<1> USE TaskSets DEF attrs, cpu, irq, calls
<1>1. TypeOK
  BY DEF IndInv
<1>2. /\ Wake(u) /\ stat[u] \in {"SUSPEND", "READY"}
      /\ UNCHANGED <<attrs, cpu, tick, reaping>> /\ UNCHANGED <<pc, wakee>>
      /\ isr' = "exit" /\ swFlag' = TRUE /\ switchTo = NoTask /\ u \in AllTask
  BY DEF IsrDevice, IrqTaken, Disciplined
<1>3. /\ pc' \in [AllTask -> {"run", "assign", "delay", "delayed", "wake", "reap"}]
      /\ wakee' \in [AllTask -> AllTask \cup {NoTask}] /\ swFlag' \in BOOLEAN
  BY <1>1, <1>2 DEF TypeOK
<1> QED BY <1>2, <1>3, WakeInv

(* KTaskPrioSet of a task that is not queued preserves the invariant. *)
LEMMA KTaskPrioSetInv ==
  ASSUME Disciplined, IndInv, NEW t \in User, NEW u \in AllTask, NEW p \in Prio,
         KTaskPrioSet(t, u, p)
  PROVE  IndInv'
<1> USE TaskSets DEF IndInv, attrs, cpu, timers, dead, irq, calls, Calling, OnCpu
<1>1. /\ UNCHANGED <<stat, slice, advance, exstatus, rv, running, switchTo, tick,
                     delayList, deadline, zombies, reaping, isr, swFlag, pc, wakee>>
      /\ curPrio' = [curPrio EXCEPT ![u] = p] /\ column' = [column EXCEPT ![u] = {p}]
      /\ stat[u] # "READY"
  BY DEF KTaskPrioSet, Disciplined
<1>2. QueueInv'
  <2>1. u \in AllTask \ Ready /\ Ready \in SUBSET AllTask /\ Ready' = Ready
    BY <1>1 DEF Ready
  <2>2. curPrio \in [AllTask -> Prio]
    BY DEF TypeOK
  <2> QED BY <1>1, <2>1, <2>2, RepriorHolds DEF QueueInv
<1>3. TypeOK'
  <2>1. curPrio' \in [AllTask -> Prio] /\ column' \in [AllTask -> SUBSET Prio]
    BY <1>1 DEF TypeOK
  <2> QED BY <1>1, <2>1 DEF TypeOK
<1>4. ColumnInv'
  BY <1>1 DEF TypeOK, ColumnInv
<1>5. CoreInv' /\ ServiceInv' /\ WakeeInv' /\ DeadInv'
  BY <1>1 DEF CoreInv, OneRunning, CpuTask, ServiceInv, WakeeInv, DeadInv, ZombiesGetReaped
<1> QED BY <1>2, <1>3, <1>4, <1>5 DEF IndInv

(* Closing a task that is not being freed, closed already or not,          *)
(* preserves the invariant.                                                *)
LEMMA CloseInv ==
  ASSUME Disciplined, IndInv, NEW t \in User, NEW u \in Mortal,
         u # reaping, switchTo = NoTask,
         Close(u), pc' = [pc EXCEPT ![t] = "assign"],
         UNCHANGED <<attrs, cpu, timers, reaping, irq, wakee>>
  PROVE  IndInv'
<1> USE TaskSets DEF IndInv, attrs, cpu, timers, irq
<1> DEFINE r == TakeReady(rv, u)
           W == IF stat[Zombie] = "SUSPEND" THEN {Zombie} ELSE {}
<1>1. u \in AllTask /\ u # Zombie /\ u # Idle /\ u \in User
  OBVIOUS
<1>2. Holds(r, AllTask, Ready \ {u}, curPrio)
  BY <1>1, TakeReadyInv
<1>3. /\ stat \in [AllTask -> Stats]
      /\ stat' = [s \in AllTask |-> IF s = u THEN "CLOSE"
                                    ELSE IF s \in W THEN "READY" ELSE stat[s]]
  BY <1>1 DEF Close, TypeOK
<1>4. QueueInv'
  <2>1. Ready' = (Ready \ {u}) \cup W /\ Ready \ {u} \in SUBSET AllTask
    BY <1>1, <1>3 DEF Ready
  <2>2. CASE stat[Zombie] = "SUSPEND"
    <3>1. Zombie \in AllTask \ (Ready \ {u}) /\ W = {Zombie}
      BY <2>2 DEF Ready
    <3>2. curPrio \in [AllTask -> Prio] /\ column[Zombie] = {curPrio[Zombie]}
      BY <2>2 DEF TypeOK, ColumnInv
    <3>3. rv' = InsertReady(r, Zombie, curPrio[Zombie], {curPrio[Zombie]}, slice, advance)
      BY <2>2, <3>2 DEF Close, PutReady
    <3> HIDE DEF r, W
    <3>4. Holds(rv', AllTask, (Ready \ {u}) \cup {Zombie}, curPrio)
      BY <1>2, <2>1, <3>1, <3>2, <3>3, InsertReadyHolds
    <3> QED BY <2>1, <3>1, <3>4 DEF QueueInv
  <2>3. CASE stat[Zombie] # "SUSPEND"
    <3>1. rv' = r /\ W = {}
      BY <2>3 DEF Close
    <3> QED BY <1>2, <2>1, <3>1 DEF QueueInv
  <2> QED BY <2>2, <2>3
<1>5. /\ zombies' \in Seq(AllTask) /\ IsInjective(zombies')
      /\ Range(zombies') = {u} \cup Range(zombies)
  <2> DEFINE z == RmNode(zombies, u)
  <2>1. zombies \in Seq(AllTask) /\ IsInjective(zombies)
    BY DEF DeadInv, TypeOK
  <2>2. z \in Seq(AllTask) /\ IsInjective(z) /\ Range(z) = Range(zombies) \ {u}
    BY <2>1, RmNodeElements
  <2>3. zombies' = <<u>> \o z
    BY DEF Close
  <2> HIDE DEF z
  <2>4. /\ <<u>> \o z \in Seq(AllTask) /\ IsInjective(<<u>> \o z)
        /\ Range(<<u>> \o z) = {u} \cup Range(z)
    BY <1>1, <2>2, ConsElements
  <2> QED BY <2>2, <2>3, <2>4
<1>6. TypeOK'
  <2>1. rv' \in [vector : [Prio -> Seq(AllTask)], group : SUBSET Prio, highest : Prio]
    BY <1>4 DEF QueueInv, Holds
  <2>2. stat' \in [AllTask -> Stats]
    BY <1>3 DEF Stats
  <2>3. pc' \in [AllTask -> {"run", "assign", "delay", "delayed", "wake", "reap"}]
    BY DEF TypeOK
  <2>4. UNCHANGED <<curPrio, column, slice, advance, exstatus, running, switchTo, tick,
                    delayList, deadline, reaping, isr, swFlag, wakee>>
    OBVIOUS
  <2> HIDE DEF W
  <2> QED BY <1>5, <2>1, <2>2, <2>3, <2>4 DEF TypeOK
<1>7. ColumnInv'
  BY <1>1, <1>3 DEF ColumnInv
<1>8. CoreInv'
  <2>1. CpuTask' = CpuTask /\ CpuTask \in AllTask
    BY DEF CpuTask, TypeOK
  <2>2. OneRunning'
    BY <1>1, <1>3, <2>1 DEF CoreInv, OneRunning
  <2>3. stat'[CpuTask] \in {"READY", "SUSPEND", "RUNNING", "CLOSE"}
    BY <1>1, <1>3, <2>1 DEF CoreInv
  <2> QED BY <2>1, <2>2, <2>3 DEF CoreInv
<1>9. ServiceInv'
  BY <1>1, <1>3 DEF ServiceInv
<1>10. WakeeInv'
  <2> SUFFICES ASSUME NEW s \in AllTask, pc'[s] = "wake"
               PROVE  /\ wakee'[s] \in BareWoken \ {s}
                      /\ stat'[wakee'[s]] \in {"READY", "SUSPEND", "RUNNING"}
    BY DEF WakeeInv
  <2>1. pc[s] = "wake" /\ wakee'[s] = wakee[s]
    BY DEF TypeOK
  <2>2. wakee[s] \in BareWoken \ {s} /\ stat[wakee[s]] \in {"READY", "SUSPEND", "RUNNING"}
    BY <2>1 DEF WakeeInv
  <2>3. wakee[s] # u
    BY <2>2 DEF Disciplined
  <2> QED BY <1>3, <2>1, <2>2, <2>3
<1>11. DeadInv'
  <2>1. u # reaping /\ reaping' = reaping
    OBVIOUS
  <2>2. /\ \A s \in AllTask : stat[s] = "CLOSE" => stat'[s] = "CLOSE"
        /\ stat'[u] = "CLOSE" /\ stat'[Zombie] # "SUSPEND"
    BY <1>1, <1>3 DEF ServiceInv
  <2>3. pc'[Zombie] = pc[Zombie] /\ CpuTask' = CpuTask
    BY DEF TypeOK, CpuTask
  <2>4. ZombiesGetReaped'
    BY <1>5, <2>1, <2>2, <2>3 DEF DeadInv, ZombiesGetReaped
  <2> QED BY <1>1, <1>5, <2>1, <2>3, <2>4 DEF DeadInv
<1> QED BY <1>4, <1>6, <1>7, <1>8, <1>9, <1>10, <1>11 DEF IndInv

(* KTaskQuit and KTaskDelete preserve the invariant. *)
LEMMA KTaskQuitInv ==
  ASSUME Disciplined, IndInv, NEW t \in User, KTaskQuit(t)
  PROVE  IndInv'
<1>1. /\ t \in Mortal /\ stat[t] = "RUNNING" /\ switchTo = NoTask
      /\ Close(t) /\ pc' = [pc EXCEPT ![t] = "assign"]
      /\ UNCHANGED <<attrs, cpu, timers, reaping, irq, wakee>>
  BY DEF KTaskQuit, Calling, OnCpu
<1>2. t # reaping
  BY <1>1, TaskSets DEF IndInv, DeadInv, ZombiesGetReaped
<1> QED BY <1>1, <1>2, CloseInv

(* KTaskDelete of a task that is not being freed preserves the invariant. *)
LEMMA KTaskDeleteInv ==
  ASSUME Disciplined, IndInv, NEW t \in User, NEW u \in User, KTaskDelete(t, u)
  PROVE  IndInv'
<1>1. /\ u \in Mortal /\ u # reaping /\ switchTo = NoTask
      /\ Close(u) /\ pc' = [pc EXCEPT ![t] = "assign"]
      /\ UNCHANGED <<attrs, cpu, timers, reaping, irq, wakee>>
  BY DEF KTaskDelete, Calling, OnCpu, Disciplined
<1> QED BY <1>1, CloseInv

(* The recycler's steps preserve the invariant. *)
LEMMA ZombieTakeInv ==
  ASSUME IndInv, ZombieTake
  PROVE  IndInv'
<1> USE TaskSets DEF IndInv, attrs, cpu, timers, irq, OnCpu, ZombieRuns
<1>1. /\ UNCHANGED <<stat, curPrio, column, slice, advance, exstatus, rv, running, switchTo,
                     tick, delayList, deadline, isr, swFlag, wakee>>
      /\ zombies # <<>> /\ reaping' = Head(zombies) /\ zombies' = Tail(zombies)
      /\ pc[Zombie] = "run" /\ pc' = [pc EXCEPT ![Zombie] = "reap"]
      /\ CpuTask = Zombie
  BY DEF ZombieTake, CpuTask
<1>2. /\ Head(zombies) \in Range(zombies) /\ Tail(zombies) \in Seq(AllTask)
      /\ IsInjective(Tail(zombies)) /\ Range(Tail(zombies)) = Range(zombies) \ {Head(zombies)}
  <2>1. zombies \in Seq(AllTask) /\ IsInjective(zombies)
    BY DEF TypeOK, DeadInv
  <2> QED BY <1>1, <2>1, TailElements
<1>3. Head(zombies) \in User
  BY <1>2 DEF DeadInv
<1>4. TypeOK'
  <2>1. pc' \in [AllTask -> {"run", "assign", "delay", "delayed", "wake", "reap"}]
    BY <1>1 DEF TypeOK
  <2> QED BY <1>1, <1>2, <1>3, <2>1 DEF TypeOK
<1>5. QueueInv' /\ ColumnInv' /\ CoreInv' /\ ServiceInv'
  BY <1>1 DEF QueueInv, Ready, ColumnInv, CoreInv, OneRunning, CpuTask, ServiceInv
<1>6. WakeeInv'
  BY <1>1 DEF WakeeInv, TypeOK
<1>7. DeadInv'
  <2>1. pc'[Zombie] = "reap" /\ CpuTask' = CpuTask /\ reaping' # NoTask
    BY <1>1, <1>3 DEF TypeOK, CpuTask
  <2>2. ZombiesGetReaped'
    <3>1. \A s \in Range(zombies') \cup {reaping'} : s \in Range(zombies)
      BY <1>1, <1>2
    <3>2. reaping' # Zombie
      BY <1>1, <1>3
    <3> QED BY <1>1, <2>1, <3>1, <3>2 DEF DeadInv, ZombiesGetReaped
  <2> QED BY <1>1, <1>2, <1>3, <2>1, <2>2 DEF DeadInv
<1> QED BY <1>4, <1>5, <1>6, <1>7 DEF IndInv

(* Freeing the closed task the recycler took preserves the invariant. *)
LEMMA ZombieFreeInv ==
  ASSUME Disciplined, IndInv, ZombieFree
  PROVE  IndInv'
<1> USE TaskSets DEF IndInv, attrs, cpu, timers, irq, OnCpu, ZombieRuns
<1>1. /\ UNCHANGED <<curPrio, column, slice, advance, exstatus, rv, running, switchTo,
                     tick, delayList, zombies, isr, swFlag, wakee>>
      /\ stat' = [stat EXCEPT ![reaping] = "NONE"]
      /\ deadline' = [deadline EXCEPT ![reaping] = Inactive]
      /\ reaping' = NoTask /\ pc[Zombie] = "reap" /\ pc' = [pc EXCEPT ![Zombie] = "run"]
      /\ CpuTask = Zombie
  BY DEF ZombieFree, CpuTask
<1>2. /\ reaping \in User /\ stat[reaping] = "CLOSE" /\ reaping \notin Range(zombies)
  BY <1>1 DEF DeadInv, ZombiesGetReaped
<1>3. stat \in [AllTask -> Stats] /\ stat' \in [AllTask -> Stats]
  BY <1>1, <1>2 DEF TypeOK, Stats
<1>4. TypeOK'
  <2>1. pc' \in [AllTask -> {"run", "assign", "delay", "delayed", "wake", "reap"}]
    BY <1>1 DEF TypeOK
  <2>2. deadline' \in [AllTask -> Ticks \cup {Inactive}]
    BY <1>1, <1>2 DEF TypeOK
  <2> QED BY <1>1, <1>3, <2>1, <2>2 DEF TypeOK
<1>5. QueueInv'
  <2>1. Ready' = Ready
    BY <1>1, <1>2, <1>3 DEF Ready
  <2> QED BY <1>1, <2>1 DEF QueueInv
<1>6. ColumnInv' /\ ServiceInv'
  BY <1>1, <1>2, <1>3 DEF ColumnInv, ServiceInv
<1>7. CoreInv'
  BY <1>1, <1>2, <1>3 DEF CoreInv, OneRunning, CpuTask
<1>8. WakeeInv'
  <2>1. \A t \in AllTask : pc'[t] = "wake" => pc[t] = "wake"
    BY <1>1 DEF TypeOK
  <2>2. \A t \in AllTask : stat[t] # "CLOSE" => stat'[t] = stat[t]
    BY <1>1, <1>2, <1>3
  <2> QED BY <1>1, <2>1, <2>2 DEF WakeeInv
<1>9. DeadInv'
  <2>1. pc'[Zombie] = "run" /\ CpuTask' = CpuTask /\ NoTask \notin Range(zombies)
    BY <1>1 DEF TypeOK, CpuTask, DeadInv
  <2>2. ZombiesGetReaped'
    BY <1>1, <1>2, <1>3, <2>1 DEF DeadInv, ZombiesGetReaped
  <2> QED BY <1>1, <1>2, <2>1, <2>2 DEF DeadInv
<1> QED BY <1>4, <1>5, <1>6, <1>7, <1>8, <1>9 DEF IndInv

(* The recycler going to sleep on an empty list preserves the invariant. *)
LEMMA ZombieSleepInv ==
  ASSUME IndInv, ZombieSleep
  PROVE  IndInv'
<1> USE TaskSets DEF IndInv, attrs, cpu, timers, dead, irq, OnCpu, ZombieRuns
<1>1. /\ UNCHANGED <<curPrio, column, slice, advance, exstatus, running, switchTo,
                     tick, zombies, reaping, isr, swFlag, wakee>>
      /\ stat' = [stat EXCEPT ![Zombie] = "SUSPEND"] /\ rv' = TakeReady(rv, Zombie)
      /\ pc[Zombie] = "run" /\ pc' = [pc EXCEPT ![Zombie] = "assign"]
      /\ CpuTask = Zombie /\ switchTo = NoTask /\ zombies = <<>> /\ stat[Zombie] = "RUNNING"
      /\ KTaskUnSetDelay(Zombie)
  BY DEF ZombieSleep, CpuTask
<1>2. stat \in [AllTask -> Stats] /\ stat' \in [AllTask -> Stats]
  BY <1>1 DEF TypeOK, Stats
<1>3. QueueInv'
  <2>1. Ready' = Ready \ {Zombie}
    BY <1>1, <1>2 DEF Ready
  <2> QED BY <1>1, <2>1, TakeReadyInv DEF QueueInv
<1>4. TypeOK'
  <2>1. pc' \in [AllTask -> {"run", "assign", "delay", "delayed", "wake", "reap"}]
    BY <1>1 DEF TypeOK
  <2>2. delayList' \in Seq(AllTask) /\ deadline' \in [AllTask -> Ticks \cup {Inactive}]
    BY <1>1, UnSetDelayType
  <2>3. rv' \in [vector : [Prio -> Seq(AllTask)], group : SUBSET Prio, highest : Prio]
    BY <1>3 DEF QueueInv, Holds
  <2> QED BY <1>1, <1>2, <2>1, <2>2, <2>3 DEF TypeOK
<1>5. ColumnInv' /\ ServiceInv'
  BY <1>1, <1>2 DEF ColumnInv, ServiceInv
<1>6. CoreInv'
  BY <1>1, <1>2 DEF CoreInv, OneRunning, CpuTask
<1>7. WakeeInv'
  BY <1>1, <1>2 DEF WakeeInv, TypeOK
<1>8. DeadInv'
  <2>1. pc'[Zombie] = "assign" /\ CpuTask' = CpuTask /\ reaping = NoTask
    BY <1>1 DEF TypeOK, CpuTask, DeadInv
  <2>2. ZombiesGetReaped'
    BY <1>1, <2>1 DEF DeadInv, ZombiesGetReaped
  <2> QED BY <1>1, <2>1, <2>2 DEF DeadInv
<1> QED BY <1>3, <1>4, <1>5, <1>6, <1>7, <1>8 DEF IndInv

-----------------------------------------------------------------------------
(* What a decision of the scheduler does: it moves tasks between READY and *)
(* RUNNING only, keeps the queue in step, and gives the core to a task     *)
(* that was ready or leaves it where it was.                               *)
Dispatched ==
    /\ QueueInv'
    /\ stat' \in [AllTask -> Stats]
    /\ \A t \in AllTask :
          IF stat[t] \in {"READY", "RUNNING"} THEN stat'[t] \in {"READY", "RUNNING"}
                                              ELSE stat'[t] = stat[t]
    /\ running' \in AllTask
    /\ switchTo' \in AllTask \cup {NoTask}
    /\ OneRunning'
    /\ CpuTask' \in AllTask
    /\ CpuTask' = CpuTask \/ stat[CpuTask'] = "READY"
    /\ switchTo' # NoTask => DeferredSwitch /\ stat'[switchTo'] = "RUNNING"

(* Switching to a ready task, with the running task queued if it is still  *)
(* RUNNING, is a dispatch.                                                 *)
LEMMA SwitchEffect ==
  ASSUME IndInv, switchTo = NoTask, UNCHANGED <<curPrio, column>>,
         NEW new \in Ready, new # running,
         rv' = TakeReady(IF stat[running] = "RUNNING" THEN PutReady(rv, running)
                                                      ELSE rv, new),
         stat' = [stat EXCEPT ![running] = IF stat[running] = "RUNNING" THEN "READY"
                                                                       ELSE @,
                              ![new] = "RUNNING"],
         SwitchTo(new)
  PROVE  Dispatched
<1> USE TaskSets
<1>1. /\ stat \in [AllTask -> Stats] /\ curPrio \in [AllTask -> Prio]
      /\ running \in AllTask /\ new \in AllTask /\ stat[new] = "READY"
      /\ CpuTask = running
  BY DEF IndInv, TypeOK, Ready, CpuTask
<1>2. stat' \in [AllTask -> Stats]
  BY <1>1 DEF Stats
<1>3. /\ stat'[new] = "RUNNING"
      /\ stat'[running] = IF stat[running] = "RUNNING" THEN "READY" ELSE stat[running]
      /\ \A t \in AllTask \ {new, running} : stat'[t] = stat[t]
  BY <1>1
<1>4. QueueInv'
  <2>1. /\ Ready \in SUBSET AllTask
        /\ column[new] = {curPrio[new]} /\ TypeOK /\ QueueInv
    BY <1>1 DEF IndInv, Ready, ColumnInv
  <2>2. CASE stat[running] = "RUNNING"
    <3>1. Holds(PutReady(rv, running), AllTask, Ready \cup {running}, curPrio)
      <4>1. column[running] = {curPrio[running]}
        BY <1>1, <2>2 DEF IndInv, ColumnInv
      <4> QED BY <1>1, <2>1, <2>2, <4>1, PutReadyInv
    <3>2. rv' = RemoveReady(PutReady(rv, running), new, curPrio[new], {curPrio[new]})
      BY <2>1, <2>2 DEF TakeReady
    <3>3. Ready' = (Ready \cup {running}) \ {new}
      BY <1>1, <1>2, <1>3, <2>2 DEF Ready
    <3>4. Ready \cup {running} \in SUBSET AllTask
      BY <1>1, <2>1
    <3>5. Holds(rv', AllTask, (Ready \cup {running}) \ {new}, curPrio)
      <4> DEFINE S == Ready \cup {running}
                 r == PutReady(rv, running)
                 col == {curPrio[new]}
      <4>1. /\ S \in SUBSET AllTask /\ curPrio \in [AllTask -> Prio] /\ new \in AllTask
            /\ Holds(r, AllTask, S, curPrio) /\ col \subseteq {curPrio[new]}
            /\ (new \in S => col = {curPrio[new]})
        BY <1>1, <3>1, <3>4
      <4> HIDE DEF S, r, col
      <4>2. Holds(RemoveReady(r, new, curPrio[new], col), AllTask, S \ {new}, curPrio)
        BY <4>1, RemoveReadyHolds
      <4> QED BY <3>2, <4>2 DEF S, r, col
    <3> QED BY <3>3, <3>5 DEF QueueInv
  <2>3. CASE stat[running] # "RUNNING"
    <3>1. Ready' = Ready \ {new}
      BY <1>1, <1>2, <1>3, <2>3 DEF Ready
    <3>2. ColumnInv
      BY DEF IndInv
    <3>3. Holds(rv', AllTask, Ready \ {new}, curPrio)
      BY <1>1, <2>1, <2>3, <3>2, TakeReadyInv
    <3> QED BY <3>1, <3>3 DEF QueueInv
  <2> QED BY <2>2, <2>3
<1>5. /\ CpuTask' = new /\ running' \in AllTask
      /\ switchTo' \in AllTask \cup {NoTask}
      /\ switchTo' # NoTask => DeferredSwitch /\ switchTo' = new
  BY <1>1 DEF SwitchTo, CpuTask
<1>6. OneRunning'
  <2>1. OneRunning
    BY DEF IndInv, CoreInv
  <2> QED BY <1>1, <1>3, <1>5, <2>1 DEF OneRunning
<1> QED BY <1>1, <1>2, <1>3, <1>4, <1>5, <1>6 DEF Dispatched

(* KTaskOsAssign is a dispatch: it keeps the task that has the core, puts  *)
(* it back if it had become ready, or switches.                            *)
LEMMA OsAssignEffect ==
  ASSUME IndInv, switchTo = NoTask, UNCHANGED <<curPrio, column>>, OsAssign
  PROVE  Dispatched
<1> DEFINE new == ChooseTaskWithHighestPrio(rv)
<1> USE TaskSets
<1>1. /\ stat \in [AllTask -> Stats] /\ curPrio \in [AllTask -> Prio]
      /\ running \in AllTask /\ CpuTask = running /\ Ready \in SUBSET AllTask
      /\ QueueInv /\ ColumnInv /\ TypeOK /\ OneRunning
  BY DEF IndInv, TypeOK, CoreInv, CpuTask, Ready
<1>2. rv.group # {} => new \in Ready
  BY <1>1, ChooseIsHighest DEF QueueInv
<1>3. CASE UNCHANGED <<rv, stat, running, switchTo>>
  <2>1. Ready' = Ready /\ CpuTask' = CpuTask
    BY <1>3 DEF Ready, CpuTask
  <2>2. QueueInv'
    BY <1>1, <1>3, <2>1 DEF QueueInv
  <2> QED BY <1>1, <1>3, <2>1, <2>2 DEF Dispatched, OneRunning
<1>4. CASE /\ rv.group # {} /\ new # running
           /\ rv' = TakeReady(IF stat[running] = "RUNNING" THEN PutReady(rv, running)
                                                           ELSE rv, new)
           /\ stat' = [stat EXCEPT ![running] = IF stat[running] = "RUNNING" THEN "READY"
                                                                            ELSE @,
                                   ![new] = "RUNNING"]
           /\ SwitchTo(new)
  <2> HIDE DEF new
  <2> QED BY <1>2, <1>4, SwitchEffect
<1>5. CASE /\ rv.group # {} /\ new = running
           /\ rv' = TakeReady(rv, running)
           /\ stat' = [stat EXCEPT ![running] = "RUNNING"]
           /\ UNCHANGED <<running, switchTo>>
  <2>1. stat[running] = "READY" /\ CpuTask' = running
    BY <1>1, <1>2, <1>5 DEF Ready, CpuTask
  <2>2. stat' \in [AllTask -> Stats] /\ Ready' = Ready \ {running}
    BY <1>1, <1>5 DEF Ready, Stats
  <2>3. QueueInv'
    BY <1>1, <1>5, <2>2, TakeReadyInv DEF QueueInv
  <2>4. OneRunning'
    BY <1>1, <1>5, <2>1 DEF OneRunning
  <2> QED BY <1>1, <1>5, <2>1, <2>2, <2>3, <2>4 DEF Dispatched
<1> QED BY <1>3, <1>4, <1>5 DEF OsAssign, cpu

(* A dispatch that leaves everything but the place in the call alone       *)
(* preserves the invariant.                                                *)
LEMMA DispatchInv ==
  ASSUME IndInv, Dispatched, isr' = "none", swFlag' \in BOOLEAN,
         UNCHANGED <<attrs, timers, dead, wakee>>,
         pc' \in [AllTask -> {"run", "assign", "delay", "delayed", "wake", "reap"}],
         \A t \in AllTask : pc'[t] = "wake" => pc[t] = "wake",
         pc'[Zombie] = "reap" <=> pc[Zombie] = "reap"
  PROVE  IndInv'
<1> USE TaskSets DEF IndInv, attrs, timers, dead
<1>1. stat \in [AllTask -> Stats] /\ stat' \in [AllTask -> Stats] /\ CpuTask \in AllTask
  BY DEF TypeOK, Dispatched, CpuTask
<1>2. \A t \in AllTask : stat[t] \notin {"READY", "RUNNING"} => stat'[t] = stat[t]
  BY DEF Dispatched
<1>3. \A t \in AllTask : stat[t] \in {"READY", "RUNNING"} => stat'[t] \in {"READY", "RUNNING"}
  BY DEF Dispatched
<1>4. TypeOK'
  <2>1. rv' \in [vector : [Prio -> Seq(AllTask)], group : SUBSET Prio, highest : Prio]
    BY DEF Dispatched, QueueInv, Holds
  <2>2. running' \in AllTask /\ switchTo' \in AllTask \cup {NoTask}
    BY DEF Dispatched
  <2> QED BY <1>1, <2>1, <2>2 DEF TypeOK
<1>5. ColumnInv'
  BY <1>2, <1>3 DEF ColumnInv
<1>6. CoreInv'
  <2>1. stat'[CpuTask'] \in {"READY", "SUSPEND", "RUNNING", "CLOSE"}
    <3>1. CpuTask' \in AllTask /\ (CpuTask' = CpuTask \/ stat[CpuTask'] = "READY")
      BY DEF Dispatched
    <3>2. stat[CpuTask'] \in {"READY", "SUSPEND", "RUNNING", "CLOSE"}
      BY <3>1 DEF CoreInv
    <3> QED BY <1>2, <1>3, <3>1, <3>2
  <2> QED BY <2>1 DEF CoreInv, Dispatched
<1>7. ServiceInv'
  BY <1>2, <1>3 DEF ServiceInv
<1>8. WakeeInv'
  <2>1. \A t \in AllTask : stat[t] \in {"READY", "SUSPEND", "RUNNING"}
                              => stat'[t] \in {"READY", "SUSPEND", "RUNNING"}
    BY <1>2, <1>3
  <2>2. BareWoken \subseteq AllTask
    OBVIOUS
  <2> QED BY <2>1, <2>2 DEF WakeeInv
<1>9. DeadInv'
  <2>1. /\ stat'[Zombie] = "SUSPEND" => stat[Zombie] = "SUSPEND"
        /\ \A t \in AllTask : stat[t] = "CLOSE" => stat'[t] = "CLOSE"
    BY <1>1, <1>2, <1>3
  <2>2. reaping # NoTask => reaping \in AllTask /\ stat[reaping] = "CLOSE" /\ reaping # CpuTask
    BY DEF DeadInv, ZombiesGetReaped
  <2>3. reaping # NoTask => reaping # CpuTask'
    BY <2>2 DEF Dispatched
  <2>4. ZombiesGetReaped'
    BY <2>1, <2>2, <2>3 DEF DeadInv, ZombiesGetReaped
  <2> QED BY <2>4 DEF DeadInv
<1>10. QueueInv'
  BY DEF Dispatched
<1> QED BY <1>4, <1>5, <1>6, <1>7, <1>8, <1>9, <1>10 DEF IndInv

(* DO_KTASK_ASSIGN in task context preserves the invariant. *)
LEMMA RescheduleInv ==
  ASSUME IndInv, NEW t \in AllTask, Reschedule(t)
  PROVE  IndInv'
<1> USE TaskSets DEF OnCpu, irq
<1>1. Dispatched
  BY OsAssignEffect DEF Reschedule, attrs
<1>2. pc' \in [AllTask -> {"run", "assign", "delay", "delayed", "wake", "reap"}]
  BY DEF Reschedule, IndInv, TypeOK
<1>3. /\ \A u \in AllTask : pc'[u] = "wake" => pc[u] = "wake"
      /\ pc'[Zombie] = "reap" <=> pc[Zombie] = "reap"
  BY DEF Reschedule, IndInv, TypeOK
<1>4. isr' = "none" /\ swFlag' \in BOOLEAN /\ UNCHANGED <<attrs, timers, dead, wakee>>
  BY DEF Reschedule, IndInv, TypeOK
<1> QED BY <1>1, <1>2, <1>3, <1>4, DispatchInv

(* The end of an interrupt handler preserves the invariant. *)
LEMMA IsrExitInv ==
  ASSUME IndInv, IsrExit
  PROVE  IndInv'
<1> USE TaskSets
<1>1. switchTo = NoTask
  BY DEF IsrExit, IndInv, CoreInv
<1>2. Dispatched
  <2>1. CASE swFlag
    BY <1>1, <2>1, OsAssignEffect DEF IsrExit, attrs
  <2>2. CASE ~swFlag
    <3>1. UNCHANGED <<rv, stat, running, switchTo, curPrio>>
      BY <2>2 DEF IsrExit, cpu, attrs
    <3>2. Ready' = Ready /\ CpuTask' = CpuTask /\ CpuTask \in AllTask
      BY <3>1 DEF Ready, CpuTask, IndInv, TypeOK
    <3>3. stat \in [AllTask -> Stats] /\ running \in AllTask /\ QueueInv /\ OneRunning
      BY DEF IndInv, TypeOK, CoreInv
    <3> QED BY <1>1, <3>1, <3>2, <3>3 DEF Dispatched, QueueInv, OneRunning
  <2> QED BY <2>1, <2>2
<1>3. /\ isr' = "none" /\ swFlag' \in BOOLEAN /\ UNCHANGED <<attrs, timers, dead, pc, wakee>>
      /\ pc \in [AllTask -> {"run", "assign", "delay", "delayed", "wake", "reap"}]
  BY DEF IsrExit, IndInv, TypeOK, calls
<1> QED BY <1>2, <1>3, DispatchInv

(* YieldOsAssign preserves the invariant. *)
LEMMA YieldOsAssignInv ==
  ASSUME IndInv, NEW t \in User, YieldOsAssign(t)
  PROVE  IndInv'
<1> DEFINE new == ChooseTaskWithHighestPrio(rv)
<1> USE TaskSets DEF Calling, OnCpu
<1>1. /\ switchTo = NoTask /\ running = t /\ stat[t] = "RUNNING" /\ rv.group # {}
      /\ rv' = TakeReady(PutReady(rv, t), new) /\ SwitchTo(new)
      /\ stat' = [stat EXCEPT ![t] = "READY", ![new] = "RUNNING"]
      /\ UNCHANGED <<attrs, timers, dead, irq, calls>> /\ isr = "none"
  BY DEF YieldOsAssign
<1>2. new \in Ready /\ new # t
  <2>1. Ready \in SUBSET AllTask /\ curPrio \in [AllTask -> Prio] /\ QueueInv /\ t \notin Ready
    BY <1>1 DEF Ready, IndInv, TypeOK
  <2> QED BY <1>1, <2>1, ChooseIsHighest DEF QueueInv
<1> HIDE DEF new
<1>3. Dispatched
  BY <1>1, <1>2, SwitchEffect DEF attrs
<1>4. /\ isr' = "none" /\ swFlag' \in BOOLEAN /\ UNCHANGED <<attrs, timers, dead, pc, wakee>>
      /\ pc \in [AllTask -> {"run", "assign", "delay", "delayed", "wake", "reap"}]
  BY <1>1 DEF IndInv, TypeOK, calls, irq
<1> QED BY <1>3, <1>4, DispatchInv

-----------------------------------------------------------------------------
(* The tick interrupt preserves the invariant. *)
LEMMA IsrTickInv ==
  ASSUME Disciplined, IndInv, IsrTick
  PROVE  IndInv'
<1> USE TaskSets DEF cpu, dead, calls
<1>1. /\ UNCHANGED <<stat, curPrio, column, exstatus, rv, running, switchTo, delayList,
                     deadline, zombies, reaping, pc, wakee>>
      /\ tick' = (tick + 1) % TickMod /\ TimesliceUpdate(running)
      /\ isr' = "delay" /\ switchTo = NoTask
  BY DEF IsrTick, IrqTaken, Disciplined
<1>2. TypeOK'
  <2>1. tick' \in Ticks
    <3>1. tick \in Nat /\ TickMod \in Nat \ {0}
      BY TimeAssumption DEF IndInv, TypeOK, Ticks
    <3>2. \A n \in Nat : n % TickMod \in 0 .. TickMod - 1
      BY <3>1
    <3> QED BY <1>1, <3>1, <3>2 DEF Ticks
  <2>2. slice' \in [AllTask -> 1 .. TimeSlice]
    <3>1. running \in AllTask /\ slice \in [AllTask -> 1 .. TimeSlice]
      BY DEF IndInv, TypeOK
    <3>2. \E n : /\ slice' = [slice EXCEPT ![running] = n]
                 /\ n \in {slice[running], TimeSlice}
                    \/ (slice[running] # 1 /\ n = slice[running] - 1)
      BY <1>1 DEF TimesliceUpdate
    <3>3. slice[running] \in 1 .. TimeSlice /\ TimeSlice \in 1 .. TimeSlice
      BY <3>1
    <3>4. slice[running] # 1 => slice[running] - 1 \in 1 .. TimeSlice
      BY <3>3
    <3> QED BY <3>1, <3>2, <3>3, <3>4
  <2>3. advance' \in [AllTask -> 0 .. MaxAdvance]
    BY <1>1, SMTT(20) DEF TimesliceUpdate, IndInv, TypeOK, MaxAdvance
  <2>4. swFlag' \in BOOLEAN
    BY <1>1 DEF TimesliceUpdate
  <2> QED BY <1>1, <2>1, <2>2, <2>3, <2>4 DEF IndInv, TypeOK
<1>3. QueueInv'
  <2>1. Ready' = Ready
    BY <1>1 DEF Ready
  <2> QED BY <1>1, <2>1 DEF IndInv, QueueInv
<1>4. ColumnInv' /\ ServiceInv' /\ WakeeInv'
  BY <1>1 DEF IndInv, ColumnInv, ServiceInv, WakeeInv
<1>5. CpuTask' = CpuTask
  BY <1>1 DEF CpuTask
<1>6. CoreInv' /\ DeadInv'
  BY <1>1, <1>5 DEF IndInv, CoreInv, OneRunning, DeadInv, ZombiesGetReaped
<1> QED BY <1>2, <1>3, <1>4, <1>6 DEF IndInv

(* One turn of CheckTaskDelay preserves the invariant, whatever the task   *)
(* is doing when its delay runs out.                                       *)
LEMMA CheckTaskDelayInv ==
  ASSUME IndInv, CheckTaskDelay
  PROVE  IndInv'
<1> DEFINE u == Head(delayList)
<1> USE TaskSets DEF cpu, dead, calls
<1>1. /\ UNCHANGED <<curPrio, column, slice, advance, running, switchTo, tick, zombies,
                     reaping, isr, pc, wakee>>
      /\ KTaskUnSetDelay(u) /\ KTaskTimeout(u) /\ isr = "delay"
  BY DEF CheckTaskDelay
<1>2. u \in AllTask
  BY DEF CheckTaskDelay, DelayDue, IndInv, TypeOK
<1> HIDE DEF u
<1>3. stat \in [AllTask -> Stats]
  BY DEF IndInv, TypeOK
<1>4. /\ stat' \in [AllTask -> Stats]
      /\ \A t \in AllTask : stat'[t] = stat[t] \/ (stat[t] = "SUSPEND" /\ stat'[t] = "READY")
  BY <1>1, <1>2, <1>3 DEF KTaskTimeout, Stats
<1>5. QueueInv'
  <2>1. CASE stat[u] = "SUSPEND"
    <3>1. rv' = PutReady(rv, u) /\ Ready' = Ready \cup {u}
      BY <1>1, <1>2, <1>3, <2>1 DEF KTaskTimeout, Ready
    <3>2. column[u] = {curPrio[u]} /\ TypeOK /\ QueueInv
      BY <1>2, <2>1 DEF IndInv, ColumnInv
    <3> QED BY <1>1, <1>2, <2>1, <3>1, <3>2, PutReadyInv DEF QueueInv
  <2>2. CASE stat[u] # "SUSPEND"
    <3>1. rv' = rv /\ Ready' = Ready
      BY <1>1, <2>2 DEF KTaskTimeout, Ready
    <3> QED BY <1>1, <3>1 DEF IndInv, QueueInv
  <2> QED BY <2>1, <2>2
<1>6. TypeOK'
  <2>1. delayList' \in Seq(AllTask) /\ deadline' \in [AllTask -> Ticks \cup {Inactive}]
    BY <1>1, <1>2, UnSetDelayType DEF IndInv
  <2>2. rv' \in [vector : [Prio -> Seq(AllTask)], group : SUBSET Prio, highest : Prio]
    BY <1>5 DEF QueueInv, Holds
  <2>3. exstatus' \in [AllTask -> {"EOK", "ETIMEOUT"}] /\ swFlag' \in BOOLEAN
    BY <1>1 DEF KTaskTimeout, IndInv, TypeOK
  <2> QED BY <1>1, <1>4, <2>1, <2>2, <2>3 DEF IndInv, TypeOK
<1>7. CpuTask' = CpuTask /\ CpuTask \in AllTask
  BY <1>1 DEF CpuTask, IndInv, TypeOK
<1>8. ColumnInv' /\ ServiceInv'
  BY <1>1, <1>4 DEF IndInv, ColumnInv, ServiceInv
<1>9. CoreInv'
  BY <1>1, <1>4, <1>7 DEF IndInv, CoreInv, OneRunning, TypeOK
<1>10. WakeeInv'
  <2>1. \A t \in AllTask : stat[t] \in {"READY", "SUSPEND", "RUNNING"}
                              => stat'[t] \in {"READY", "SUSPEND", "RUNNING"}
    BY <1>4
  <2> QED BY <1>1, <2>1 DEF IndInv, WakeeInv
<1>11. DeadInv'
  <2>1. /\ stat'[Zombie] = "SUSPEND" => stat[Zombie] = "SUSPEND"
        /\ \A t \in AllTask : stat[t] = "CLOSE" => stat'[t] = "CLOSE"
    BY <1>4
  <2> QED BY <1>1, <1>7, <2>1 DEF IndInv, DeadInv, ZombiesGetReaped
<1> QED BY <1>5, <1>6, <1>8, <1>9, <1>10, <1>11 DEF IndInv

(* The end of CheckTaskDelay preserves the invariant. *)
LEMMA CheckTaskDelayDoneInv ==
  ASSUME IndInv, CheckTaskDelayDone
  PROVE  IndInv'
<1> USE DEF attrs, cpu, timers, dead, calls
<1>1. /\ UNCHANGED <<stat, curPrio, column, slice, advance, exstatus, rv, running,
                     switchTo, tick, delayList, deadline, zombies, reaping, swFlag,
                     pc, wakee>>
      /\ isr = "delay" /\ isr' = "exit"
  BY DEF CheckTaskDelayDone
<1>2. TypeOK'
  BY <1>1 DEF IndInv, TypeOK
<1>3. QueueInv'
  BY <1>1 DEF IndInv, QueueInv, Ready
<1>4. ColumnInv' /\ ServiceInv' /\ WakeeInv'
  BY <1>1 DEF IndInv, ColumnInv, ServiceInv, WakeeInv
<1>5. CpuTask' = CpuTask
  BY <1>1 DEF CpuTask
<1>6. CoreInv' /\ DeadInv'
  BY <1>1, <1>5 DEF IndInv, CoreInv, OneRunning, DeadInv, ZombiesGetReaped
<1> QED BY <1>2, <1>3, <1>4, <1>6 DEF IndInv

(* PendSV preserves the invariant. *)
LEMMA PendSVInv ==
  ASSUME IndInv, PendSV
  PROVE  IndInv'
<1> USE TaskSets DEF attrs, timers, dead, calls, irq
<1>1. /\ UNCHANGED <<stat, curPrio, column, slice, advance, exstatus, rv,
                     tick, delayList, deadline, zombies, reaping, isr, swFlag, pc, wakee>>
      /\ running' = switchTo /\ switchTo' = NoTask /\ switchTo # NoTask
  BY DEF PendSV
<1>2. TypeOK'
  BY <1>1 DEF IndInv, TypeOK
<1>3. QueueInv'
  BY <1>1 DEF IndInv, QueueInv, Ready
<1>4. ColumnInv' /\ ServiceInv' /\ WakeeInv'
  BY <1>1 DEF IndInv, ColumnInv, ServiceInv, WakeeInv
<1>5. CpuTask' = CpuTask
  BY <1>1 DEF CpuTask
<1>6. CoreInv' /\ DeadInv'
  BY <1>1, <1>5 DEF IndInv, CoreInv, OneRunning, DeadInv, ZombiesGetReaped
<1> QED BY <1>2, <1>3, <1>4, <1>6 DEF IndInv

(* A step that changes nothing preserves the invariant. *)
LEMMA StutterInv ==
  ASSUME IndInv, UNCHANGED vars
  PROVE  IndInv'
<1> USE DEF attrs, cpu, timers, dead, calls, irq, vars
<1>1. CpuTask' = CpuTask /\ Ready' = Ready
  BY DEF CpuTask, Ready
<1>2. TypeOK' /\ QueueInv' /\ ColumnInv' /\ ServiceInv' /\ WakeeInv'
  BY <1>1 DEF IndInv, TypeOK, QueueInv, ColumnInv, ServiceInv, WakeeInv
<1>3. CoreInv' /\ DeadInv'
  BY <1>1 DEF IndInv, CoreInv, OneRunning, DeadInv, ZombiesGetReaped
<1> QED BY <1>2, <1>3 DEF IndInv

-----------------------------------------------------------------------------
(* The empty ready vector holds no task. *)
LEMMA EmptyHolds ==
  ASSUME NEW cp
  PROVE  Holds(OsAssignReadyVectorInit, AllTask, {}, cp)
<1> DEFINE r == OsAssignReadyVectorInit
<1>1. 0 \in Prio
  BY PrioMaxAssumption DEF Prio
<1>2. /\ r.vector = [p \in Prio |-> <<>>] /\ r.group = {} /\ r.highest = 0
      /\ r \in [vector : [Prio -> Seq(AllTask)], group : SUBSET Prio, highest : Prio]
  BY <1>1 DEF OsAssignReadyVectorInit
<1>3. \A p \in Prio : r.vector[p] = <<>>
  BY <1>2
<1> HIDE DEF r
<1>4. Consistent(r)
  BY <1>2, <1>3 DEF Consistent, PrioCaculate
<1>5. \A p \in Prio : IsInjective(r.vector[p]) /\ Range(r.vector[p]) = {}
  BY <1>3 DEF IsInjective, Range
<1> QED BY <1>2, <1>4, <1>5 DEF Holds, r

(* The kernel starts in a state that satisfies the invariant. *)
LEMMA InitInv ==
  ASSUME Init
  PROVE  IndInv
<1> USE TaskSets
<1>1. /\ Main \in AllTask /\ Main \in User
      /\ stat \in [AllTask -> Stats]
      /\ stat[Main] = "RUNNING" /\ stat[Idle] = "READY" /\ stat[Zombie] = "READY"
      /\ \A t \in AllTask \ {Main, Idle, Zombie} : stat[t] = "NONE"
  BY TaskAssumption DEF Init, Stats
<1>2. /\ curPrio \in [AllTask -> Prio]
      /\ \A t \in AllTask : column[t] = {curPrio[t]}
  BY DEF Init
<1>3. QueueInv
  <2> DEFINE r0 == OsAssignReadyVectorInit
             r1 == PutReady(r0, Idle)
             r2 == PutReady(r1, Zombie)
             r3 == PutReady(r2, Main)
  <2>1. Holds(r0, AllTask, {}, curPrio)
    BY EmptyHolds
  <2>2. r1 = InsertReady(r0, Idle, curPrio[Idle], {curPrio[Idle]}, slice, advance)
    BY <1>2 DEF PutReady
  <2>3. r2 = InsertReady(r1, Zombie, curPrio[Zombie], {curPrio[Zombie]}, slice, advance)
    BY <1>2 DEF PutReady
  <2>4. r3 = InsertReady(r2, Main, curPrio[Main], {curPrio[Main]}, slice, advance)
    BY <1>1, <1>2 DEF PutReady
  <2>5. rv = RemoveReady(r3, Main, curPrio[Main], {curPrio[Main]})
    BY <1>1, <1>2 DEF TakeReady, Init
  <2> HIDE DEF r0, r1, r2, r3
  <2>6. Holds(r1, AllTask, {} \cup {Idle}, curPrio)
    BY <1>2, <2>1, <2>2, InsertReadyHolds
  <2>7. Holds(r1, AllTask, {Idle}, curPrio) /\ {Idle} \in SUBSET AllTask
    BY <2>6
  <2>8. Holds(r2, AllTask, {Idle} \cup {Zombie}, curPrio)
    BY <1>2, <2>3, <2>7, InsertReadyHolds
  <2>9. Holds(r2, AllTask, {Idle, Zombie}, curPrio) /\ {Idle, Zombie} \in SUBSET AllTask
        /\ Main \in AllTask \ {Idle, Zombie}
    BY <1>1, <2>8
  <2>10. Holds(r3, AllTask, {Idle, Zombie} \cup {Main}, curPrio)
    BY <1>2, <2>4, <2>9, InsertReadyHolds
  <2>11. Holds(rv, AllTask, ({Idle, Zombie} \cup {Main}) \ {Main}, curPrio)
    <3> DEFINE S == {Idle, Zombie} \cup {Main}
               col == {curPrio[Main]}
    <3>1. S \in SUBSET AllTask /\ col \subseteq {curPrio[Main]}
          /\ (Main \in S => col = {curPrio[Main]})
          /\ Holds(r3, AllTask, S, curPrio) /\ rv = RemoveReady(r3, Main, curPrio[Main], col)
      BY <1>1, <2>5, <2>10
    <3> HIDE DEF S, col
    <3>2. Holds(rv, AllTask, S \ {Main}, curPrio)
      BY <1>1, <1>2, <3>1, RemoveReadyHolds
    <3> QED BY <3>2 DEF S
  <2>12. Ready = ({Idle, Zombie} \cup {Main}) \ {Main}
    BY <1>1 DEF Ready
  <2> QED BY <2>11, <2>12 DEF QueueInv
<1>4. TypeOK
  <2>1. rv \in [vector : [Prio -> Seq(AllTask)], group : SUBSET Prio, highest : Prio]
    BY <1>3 DEF QueueInv, Holds
  <2>2. slice \in [AllTask -> 1 .. TimeSlice] /\ advance \in [AllTask -> 0 .. MaxAdvance]
    BY DEF Init, MaxAdvance
  <2>3. column \in [AllTask -> SUBSET Prio] /\ exstatus \in [AllTask -> {"EOK", "ETIMEOUT"}]
    BY DEF Init
  <2>4. /\ running \in AllTask /\ switchTo \in AllTask \cup {NoTask}
        /\ delayList \in Seq(AllTask) /\ zombies \in Seq(AllTask)
        /\ reaping \in AllTask \cup {NoTask}
    <3>1. /\ running = Main /\ switchTo = NoTask /\ reaping = NoTask
          /\ delayList = <<>> /\ zombies = <<>>
      BY DEF Init
    <3> QED BY <1>1, <3>1
  <2>5. tick \in Ticks /\ deadline \in [AllTask -> Ticks \cup {Inactive}]
    BY TimeAssumption DEF Init, Ticks
  <2>7. isr \in {"none", "delay", "exit"} /\ swFlag \in BOOLEAN
    BY DEF Init
  <2>6. /\ pc \in [AllTask -> {"run", "assign", "delay", "delayed", "wake", "reap"}]
        /\ wakee \in [AllTask -> AllTask \cup {NoTask}]
    BY DEF Init
  <2> QED BY <1>1, <1>2, <2>1, <2>2, <2>3, <2>4, <2>5, <2>6, <2>7 DEF TypeOK
<1>5. ColumnInv /\ ServiceInv
  BY <1>1, <1>2 DEF ColumnInv, ServiceInv
<1>6. running = Main /\ switchTo = NoTask /\ CpuTask = Main
  BY DEF Init, CpuTask
<1>7. CoreInv
  BY <1>1, <1>6 DEF CoreInv, OneRunning
<1>8. WakeeInv
  BY DEF WakeeInv, Init
<1>9. DeadInv
  BY <1>1 DEF DeadInv, ZombiesGetReaped, IsInjective, Range, Init
<1> QED BY <1>3, <1>4, <1>5, <1>7, <1>8, <1>9 DEF IndInv

(* Every step of the kernel preserves the invariant. *)
LEMMA NextInv ==
  ASSUME Disciplined, IndInv, [Next]_vars
  PROVE  IndInv'
<1>1. ASSUME NEW t \in User, TaskStep(t)
      PROVE  IndInv'
  <2>1. ASSUME NEW u \in User, KTaskCreate(t, u)     PROVE IndInv'
    BY <2>1, KTaskCreateInv
  <2>2. ASSUME NEW u \in User, StartupKTask(t, u)    PROVE IndInv'
    BY <2>2, StartupKTaskInv
  <2>3. ASSUME NEW u \in User, KTaskWakeup(t, u)     PROVE IndInv'
    BY <2>3, KTaskWakeupInv
  <2>4. ASSUME NEW u \in User, KTaskWakeupTest(t, u) PROVE IndInv'
    BY <2>4, KTaskWakeupTestInv
  <2>5. ASSUME NEW u \in User, KTaskDelete(t, u)     PROVE IndInv'
    BY <2>5, KTaskDeleteInv
  <2>6. ASSUME NEW u \in AllTask, NEW p \in Prio, KTaskPrioSet(t, u, p) PROVE IndInv'
    BY <2>6, KTaskPrioSetInv
  <2>7. ASSUME NEW d \in Delays, DelayKTask(t, d)    PROVE IndInv'
    BY <2>7, DelayKTaskInv
  <2>8. CASE SuspendKTask(t)   BY <2>8, SuspendKTaskInv
  <2>9. CASE DelayReturn(t)    BY <2>9, DelayReturnInv
  <2>10. CASE KTaskWakeupGo(t) BY <2>10, KTaskWakeupGoInv
  <2>11. CASE KTaskQuit(t)     BY <2>11, KTaskQuitInv
  <2>12. CASE YieldOsAssign(t) BY <2>12, YieldOsAssignInv
  <2> QED BY <1>1, <2>1, <2>2, <2>3, <2>4, <2>5, <2>6, <2>7, <2>8, <2>9, <2>10,
             <2>11, <2>12 DEF TaskStep
<1>2. ASSUME NEW t \in AllTask, Reschedule(t) PROVE IndInv'
  BY <1>2, RescheduleInv
<1>3. CASE ZombieStep
  BY <1>3, ZombieTakeInv, ZombieFreeInv, ZombieSleepInv DEF ZombieStep
<1>4. CASE IsrTick
  BY <1>4, IsrTickInv
<1>5. ASSUME NEW u \in User, IsrDevice(u) PROVE IndInv'
  BY <1>5, IsrDeviceInv
<1>6. CASE IsrStep
  BY <1>6, CheckTaskDelayInv, CheckTaskDelayDoneInv, IsrExitInv DEF IsrStep
<1>7. CASE PendSV
  BY <1>7, PendSVInv
<1>8. CASE UNCHANGED vars
  BY <1>8, StutterInv
<1> QED BY <1>1, <1>2, <1>3, <1>4, <1>5, <1>6, <1>7, <1>8 DEF Next

(* The inductive invariant holds in every state of the kernel. *)
THEOREM SchedulerInv ==
  ASSUME Disciplined
  PROVE  Spec => []IndInv
<1>1. Init => IndInv
  BY InitInv
<1>2. IndInv /\ [Next]_vars => IndInv'
  BY NextInv
<1> QED BY <1>1, <1>2, PTL DEF Spec

(* Types are kept by every call, handler and switch of the kernel. *)
THEOREM SchedulerTypes ==
  ASSUME Disciplined
  PROVE  Spec => []TypeOK
<1>1. IndInv => TypeOK
  BY DEF IndInv
<1> QED BY <1>1, SchedulerInv, PTL

(* The bitmap and highest_prio of os_assign_read_vector always agree with  *)
(* its lists, through every insert, remove, wakeup and switch.             *)
THEOREM ReadyVectorCorrect ==
  ASSUME Disciplined
  PROVE  Spec => []ReadyVectorConsistent
<1>1. IndInv => ReadyVectorConsistent
  BY DEF IndInv, QueueInv, Holds, Consistent, ReadyVectorConsistent
<1> QED BY <1>1, SchedulerInv, PTL

(* No runnable task is ever lost by the scheduler, and none is queued      *)
(* twice or at a priority it does not have.                                *)
THEOREM NoTaskLost ==
  ASSUME Disciplined
  PROVE  Spec => []ReadyIffQueued
<1>1. IndInv => ReadyIffQueued
  <2> SUFFICES ASSUME IndInv PROVE ReadyIffQueued
    OBVIOUS
  <2>1. \A p \in Prio : /\ IsInjective(rv.vector[p])
                        /\ Range(rv.vector[p]) = {t \in Ready : curPrio[t] = p}
    BY DEF IndInv, QueueInv, Holds
  <2> QED BY <2>1 DEF ReadyIffQueued, Ready
<1> QED BY <1>1, SchedulerInv, PTL

(* At most one task is RUNNING, the one on the core or the one PendSV is   *)
(* about to switch to.                                                     *)
THEOREM OnlyOneRuns ==
  ASSUME Disciplined
  PROVE  Spec => []OneRunning
<1>1. IndInv => OneRunning
  BY DEF IndInv, CoreInv
<1> QED BY <1>1, SchedulerInv, PTL

(* KTaskOsAssign never finds the bitmap empty when the task on the core    *)
(* has to leave it: the idle task is always ready or running.              *)
THEOREM SomeoneCanRun ==
  ASSUME Disciplined
  PROVE  Spec => []SwitchAlwaysPossible
<1>1. IndInv => SwitchAlwaysPossible
  <2> SUFFICES ASSUME IndInv PROVE SwitchAlwaysPossible
    OBVIOUS
  <2>1. stat[CpuTask] \notin {"NONE", "INIT"}
    BY DEF IndInv, CoreInv
  <2>2. ASSUME stat[CpuTask] # "RUNNING" PROVE rv.group # {}
    <3>1. Idle \in Ready
      <4>1. stat[Idle] \in {"READY", "RUNNING"} /\ OneRunning
        BY DEF IndInv, ServiceInv, CoreInv
      <4>2. stat[Idle] # "RUNNING"
        BY <2>2, <4>1, TaskSets DEF OneRunning
      <4> QED BY <4>1, <4>2, TaskSets DEF Ready
    <3>2. Ready \in SUBSET AllTask /\ curPrio \in [AllTask -> Prio] /\ QueueInv
      BY DEF Ready, IndInv, TypeOK
    <3> DEFINE S == Ready
    <3>3. S \in SUBSET AllTask /\ Holds(rv, AllTask, S, curPrio)
      BY <3>2 DEF QueueInv
    <3> HIDE DEF S
    <3>4. rv.group = {} <=> S = {}
      BY <3>2, <3>3, ChooseIsHighest
    <3> QED BY <3>1, <3>4 DEF S
  <2> QED BY <2>1, <2>2 DEF SwitchAlwaysPossible
<1> QED BY <1>1, SchedulerInv, PTL

(* No closed task is forgotten: the recycler is awake while one waits, and *)
(* it never frees the task on the core.                                    *)
THEOREM ClosedTasksReaped ==
  ASSUME Disciplined
  PROVE  Spec => []ZombiesGetReaped
<1>1. IndInv => ZombiesGetReaped
  BY DEF IndInv, DeadInv
<1> QED BY <1>1, SchedulerInv, PTL

(* A decision of KTaskOsAssign leaves no ready task of a higher priority   *)
(* than the task on the core.                                              *)
LEMMA OsAssignPicksHighest ==
  ASSUME IndInv, switchTo = NoTask, UNCHANGED <<curPrio, column>>, OsAssign
  PROVE  ~Outranked'
<1> DEFINE new == ChooseTaskWithHighestPrio(rv)
<1> USE TaskSets
<1>1. /\ stat \in [AllTask -> Stats] /\ curPrio \in [AllTask -> Prio]
      /\ running \in AllTask /\ Ready \in SUBSET AllTask /\ QueueInv
  BY DEF IndInv, TypeOK, Ready
<1>a. rv.highest \in Int /\ \A t \in AllTask : curPrio[t] \in Int
  BY <1>1 DEF IndInv, TypeOK, Prio
<1>2. /\ rv.group = {} <=> Ready = {}
      /\ rv.group # {} => new \in Ready /\ curPrio[new] = rv.highest
      /\ \A u \in Ready : curPrio[u] <= rv.highest
  BY <1>1, ChooseIsHighest DEF QueueInv
<1>3. CASE rv.group = {} \/ (stat[running] = "RUNNING" /\ rv.highest < curPrio[running])
  <2>1. UNCHANGED <<rv, stat, running, switchTo>>
    BY <1>3 DEF OsAssign, cpu
  <2>2. \A t \in AllTask : stat'[t] = "READY" => t \in Ready
    BY <2>1 DEF Ready
  <2>3. CpuTask' = running
    BY <2>1 DEF CpuTask
  <2>4. \A t \in AllTask : stat'[t] = "READY" => ~(curPrio[t] > curPrio[running])
    BY <1>1, <1>a, <1>2, <1>3, <2>2
  <2> QED BY <2>3, <2>4 DEF Outranked
<1>4. CASE ~(rv.group = {} \/ (stat[running] = "RUNNING" /\ rv.highest < curPrio[running]))
  <2> HIDE DEF new
  <2>1. new \in AllTask /\ stat[new] = "READY" /\ curPrio[new] = rv.highest
    BY <1>2, <1>4 DEF Ready
  <2>2. CpuTask' = new
    BY <1>1, <1>4, <2>1 DEF OsAssign, SwitchTo, CpuTask, cpu, new
  <2>3. \A t \in AllTask : stat'[t] = "READY" => curPrio[t] <= rv.highest
    <3>1. \A t \in AllTask \ {running} : stat'[t] = "READY" => t \in Ready
      BY <1>1, <1>4, <2>1 DEF OsAssign, Ready, new
    <3>2. stat'[running] = "READY" => running \in Ready \/ stat[running] = "RUNNING"
      BY <1>1, <1>4, <2>1 DEF OsAssign, Ready, new
    <3>3. stat[running] = "RUNNING" => curPrio[running] <= rv.highest
      BY <1>1, <1>a, <1>4
    <3> QED BY <1>1, <1>2, <3>1, <3>2, <3>3
  <2>4. \A t \in AllTask : stat'[t] = "READY" => ~(curPrio[t] > curPrio[new])
    BY <1>a, <2>1, <2>3
  <2> QED BY <2>2, <2>4 DEF Outranked
<1> QED BY <1>3, <1>4

(* Every reschedule, in a call or at the end of an interrupt, leaves the   *)
(* core to a task that no ready task outranks.                             *)
THEOREM HighestRuns ==
  ASSUME Disciplined
  PROVE  Spec => ReschedulePicksHighest
<1> DEFINE A == (\/ \E t \in AllTask : Reschedule(t)
                 \/ swFlag /\ IsrExit) => ~Outranked'
<1>1. IndInv /\ [Next]_vars => [A]_vars
  <2> SUFFICES ASSUME IndInv PROVE A
    OBVIOUS
  <2>1. ASSUME NEW t \in AllTask, Reschedule(t) PROVE ~Outranked'
    BY <2>1, OsAssignPicksHighest DEF Reschedule, OnCpu, attrs
  <2>2. ASSUME swFlag, IsrExit PROVE ~Outranked'
    <3>1. switchTo = NoTask
      BY <2>2 DEF IsrExit, IndInv, CoreInv
    <3> QED BY <2>2, <3>1, OsAssignPicksHighest DEF IsrExit, attrs
  <2> QED BY <2>1, <2>2
<1> HIDE DEF A
<1>2. Spec => [][A]_vars
  BY <1>1, SchedulerInv, PTL DEF Spec
<1> QED BY <1>2 DEF A, ReschedulePicksHighest
=============================================================================
