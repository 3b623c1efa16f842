----------------------------- MODULE DataQueue ------------------------------
(***************************************************************************)
(* Data queues (data_queue.c): a ring that tasks and interrupt handlers    *)
(* push into and pop from, with one semaphore for its free places and one  *)
(* for its elements.                                                       *)
(*                                                                         *)
(* A semaphore is its value here (Semaphore has the rest); a call obtains, *)
(* works on the ring and abandons in three steps.  A call that obtains     *)
(* nothing and says so changes nothing and is left out.                    *)
(***************************************************************************)
EXTENDS Integers, Sequences, FiniteSets

CONSTANTS
    User,            \* who pushes and pops
    Datum,           \* the data
    MaxLen,          \* max_len
    Timeouts,        \* the timeouts callers pass: "zero", "forever" or "other"
    ForeverEnds      \* whether an obtain without a limit may end without a
                     \* permit, as the conversion of its timeout makes it do

ASSUME DataQueueAssumption ==
    /\ IsFiniteSet(User) /\ Datum # {}
    /\ MaxLen \in Nat \ {0} /\ ForeverEnds \in BOOLEAN
    /\ Timeouts \subseteq {"zero", "forever", "other"}

VARIABLES
    sem_blank, sem_data,      \* the values of the semaphores
    dfront, drear, dbase,     \* p_queue->front, rear and base
    at,                       \* where each user is in a call
    item,                     \* what each user pushes
    due                       \* history: data pushed and not popped

dataVars == <<sem_blank, sem_data, dfront, drear, dbase, at, item, due>>

(* InitDataqueue: a place of the ring is never used. *)
DataInit ==
    /\ sem_blank = MaxLen - 1 /\ sem_data = 0
    /\ dfront = 0 /\ drear = 0 /\ dbase = [i \in 0 .. MaxLen - 1 |-> CHOOSE d \in Datum : TRUE]
    /\ at = [u \in User |-> "out"] /\ item = [u \in User |-> CHOOSE d \in Datum : TRUE]
    /\ due = <<>>

(* The obtain at the start of a call comes back and the call goes on: with *)
(* a permit, after a wait without limit whatever it brought, or, with any  *)
(* other timeout, without having tried.                                    *)
GoesOn(sem, timeout) ==
    sem > 0 \/ timeout = "other" \/ (timeout = "forever" /\ ForeverEnds)

(* An obtain that leaves the permit. *)
ObtainedNone(sem, timeout) == sem

(* The semaphore after it. *)
Obtained(sem, timeout) == IF timeout # "other" /\ sem > 0 THEN sem - 1 ELSE sem

(* PushDataqueue *)
PushObtain(u, d, timeout) ==
    /\ at[u] = "out" /\ GoesOn(sem_blank, timeout)
    /\ sem_blank' = Obtained(sem_blank, timeout)
    /\ at' = [at EXCEPT ![u] = "push"] /\ item' = [item EXCEPT ![u] = d]
    /\ UNCHANGED <<sem_data, dfront, drear, dbase, due>>

(* The element goes into the ring unless it is full, and the call will     *)
(* return EOK.                                                             *)
PushPut(u) ==
    /\ at[u] = "push"
    /\ IF (drear + 1) % MaxLen # dfront
       THEN dbase' = [dbase EXCEPT ![drear] = item[u]] /\ drear' = (drear + 1) % MaxLen
       ELSE UNCHANGED <<dbase, drear>>
    /\ due' = Append(due, item[u])
    /\ at' = [at EXCEPT ![u] = "pushed"]
    /\ UNCHANGED <<sem_blank, sem_data, dfront, item>>

PushAbandon(u) ==
    /\ at[u] = "pushed"
    /\ sem_data' = sem_data + 1
    /\ at' = [at EXCEPT ![u] = "out"]
    /\ UNCHANGED <<sem_blank, dfront, drear, dbase, item, due>>

(* PopDataqueue *)
PopObtain(u, timeout) ==
    /\ at[u] = "out" /\ GoesOn(sem_data, timeout)
    /\ sem_data' = Obtained(sem_data, timeout)
    /\ at' = [at EXCEPT ![u] = "pop"]
    /\ UNCHANGED <<sem_blank, dfront, drear, dbase, item, due>>

PopGet(u) ==
    /\ at[u] = "pop"
    /\ dfront' = IF dfront # drear THEN (dfront + 1) % MaxLen ELSE dfront
    /\ due' = IF due = <<>> THEN due ELSE Tail(due)
    /\ at' = [at EXCEPT ![u] = "popped"]
    /\ UNCHANGED <<sem_blank, sem_data, drear, dbase, item>>

PopAbandon(u) ==
    /\ at[u] = "popped"
    /\ sem_blank' = sem_blank + 1
    /\ at' = [at EXCEPT ![u] = "out"]
    /\ UNCHANGED <<sem_data, dfront, drear, dbase, item, due>>

DataNext ==
    \E u \in User :
       \/ \E timeout \in Timeouts :
             \/ \E d \in Datum : PushObtain(u, d, timeout)
             \/ PopObtain(u, timeout)
       \/ PushPut(u) \/ PushAbandon(u) \/ PopGet(u) \/ PopAbandon(u)

DataSpec == DataInit /\ [][DataNext]_dataVars

-----------------------------------------------------------------------------
(* Properties. *)

(* Every variable has its type. *)
DataTypeOK ==
    /\ {sem_blank, sem_data} \subseteq Nat /\ {dfront, drear} \subseteq 0 .. MaxLen - 1
    /\ dbase \in [0 .. MaxLen - 1 -> Datum] /\ item \in [User -> Datum]
    /\ at \in [User -> {"out", "push", "pushed", "pop", "popped"}]
    /\ due \in Seq(Datum)

(* The elements in the ring. *)
InRing == [i \in 1 .. (drear - dfront) % MaxLen |-> dbase[(dfront + i - 1) % MaxLen]]

At(place) == Cardinality({u \in User : at[u] = place})

(* What a push returned EOK for is popped, once and in order: no push      *)
(* finds the ring full and drops its data, however pushes and pops of      *)
(* several users mix their steps.                                          *)
DataInOrder == due = InRing

(* The semaphores cover the ring: every permit for a place stands for a    *)
(* free one and every permit for an element for one that is in, those      *)
(* counted that callers have obtained and not used or not given back yet;  *)
(* so no pop finds the ring empty and returns EOK with nothing.            *)
PermitsMatchRing ==
    /\ sem_blank + At("push") + At("popped") + Len(InRing) = MaxLen - 1
    /\ sem_data + At("pop") + At("pushed") = Len(InRing)
=============================================================================
