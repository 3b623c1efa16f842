--------------------------- MODULE ServicesProofs ---------------------------
(***************************************************************************)
(* Work queues, data queues, circular areas and soft timers for rings of   *)
(* any length, any users, data, timers and times: what goes into a ring    *)
(* comes out once and in order, and timers run out when they are due.  And *)
(* what HeapProofs shows of the heap, as theorems of the services.         *)
(***************************************************************************)
EXTENDS Services, HeapProofs

-----------------------------------------------------------------------------
(* Rings: indices that count modulo the length of the ring. *)

(* The elements of a ring with the indices f and r: what the work queue    *)
(* and the data queue call Queued and InRing.  The index behind another,   *)
(* and the ring with an element written.                                   *)
RingSeq(f, r, b, M)   == [i \in 1 .. (r - f) % M |-> b[(f + i - 1) % M]]
Behind(r, M)          == (r + 1) % M
Put(b, r, d)          == [b EXCEPT ![r] = d]
IsRing(M, D, f, r, b) == /\ M \in Nat \ {0} /\ f \in 0 .. M - 1 /\ r \in 0 .. M - 1
                         /\ b \in [0 .. M - 1 -> D]

(* How many elements there are and where. *)
LEMMA RingPlaces ==
  ASSUME NEW M \in Nat \ {0}, NEW f \in 0 .. M - 1, NEW r \in 0 .. M - 1
  PROVE  /\ (r - f) % M = IF r >= f THEN r - f ELSE r - f + M
         /\ (r - f) % M \in 0 .. M - 1
         /\ \A i \in 1 .. M : /\ (f + i - 1) % M = IF f + i - 1 < M THEN f + i - 1 ELSE f + i - 1 - M
                              /\ (f + i - 1) % M \in 0 .. M - 1
         /\ Behind(r, M) = (IF r + 1 < M THEN r + 1 ELSE 0)
         /\ Behind(r, M) \in 0 .. M - 1
<1>1. (r - f) % M = IF r >= f THEN r - f ELSE r - f + M
  <2>1. r - f \in 1 - M .. M - 1
    OBVIOUS
  <2>2. (r - f) % M = IF r - f >= 0 THEN r - f ELSE r - f + M
    BY <2>1, ModDown
  <2> QED BY <2>2
<1>2. ASSUME NEW i \in 1 .. M
      PROVE  (f + i - 1) % M = IF f + i - 1 < M THEN f + i - 1 ELSE f + i - 1 - M
  <2> DEFINE x == f + i - 1
  <2>1. x \in 0 .. 2 * M - 1
    OBVIOUS
  <2> HIDE DEF x
  <2>2. x % M = IF x < M THEN x ELSE x - M
    BY <2>1, ModUp
  <2> QED BY <2>2 DEF x
<1>3. Behind(r, M) = IF r + 1 < M THEN r + 1 ELSE 0
  <2> DEFINE x == r + 1
  <2>1. x \in 0 .. 2 * M - 1
    OBVIOUS
  <2>2. (IF x < M THEN x ELSE x - M) = IF r + 1 < M THEN r + 1 ELSE 0
    OBVIOUS
  <2> HIDE DEF x
  <2>3. x % M = IF x < M THEN x ELSE x - M
    BY <2>1, ModUp
  <2> QED BY <2>2, <2>3 DEF x, Behind
<1>4. (r - f) % M \in 0 .. M - 1
  BY <1>1
<1>5. \A i \in 1 .. M : (f + i - 1) % M \in 0 .. M - 1
  BY <1>2
<1>6. Behind(r, M) \in 0 .. M - 1
  BY <1>3
<1> QED BY <1>1, <1>2, <1>3, <1>4, <1>5, <1>6

LEMMA RingElements ==
  ASSUME NEW M, NEW D, NEW f, NEW r, NEW b, IsRing(M, D, f, r, b)
  PROVE  /\ RingSeq(f, r, b, M) \in Seq(D)
         /\ Len(RingSeq(f, r, b, M)) \in 0 .. M - 1
         /\ Len(RingSeq(f, r, b, M)) = 0 <=> f = r
         /\ Len(RingSeq(f, r, b, M)) = M - 1 <=> Behind(r, M) = f
<1> DEFINE n     == (r - f) % M
           pl(i) == (f + i - 1) % M
           q     == Behind(r, M)
<1>1. M \in Nat \ {0} /\ f \in 0 .. M - 1 /\ r \in 0 .. M - 1 /\ b \in [0 .. M - 1 -> D]
  BY DEF IsRing
<1>2. /\ n = IF r >= f THEN r - f ELSE r - f + M
      /\ n \in 0 .. M - 1
      /\ \A i \in 1 .. M : pl(i) \in 0 .. M - 1
      /\ q = IF r + 1 < M THEN r + 1 ELSE 0
  BY <1>1, RingPlaces
<1>3. RingSeq(f, r, b, M) = [i \in 1 .. n |-> b[pl(i)]]
  BY DEF RingSeq
<1> HIDE DEF n, pl, q
<1>4. \A i \in 1 .. n : b[pl(i)] \in D
  BY <1>1, <1>2
<1>5. RingSeq(f, r, b, M) \in Seq(D) /\ Len(RingSeq(f, r, b, M)) = n
  BY <1>2, <1>3, <1>4
<1>6. (n = 0 <=> f = r) /\ (n = M - 1 <=> q = f)
  BY <1>1, <1>2
<1> QED BY <1>2, <1>5, <1>6 DEF q

(* An element put into a ring that is not full. *)
LEMMA RingPut ==
  ASSUME NEW M, NEW D, NEW f, NEW r, NEW b, NEW d,
         IsRing(M, D, f, r, b), d \in D, Behind(r, M) # f
  PROVE  /\ RingSeq(f, Behind(r, M), Put(b, r, d), M) = Append(RingSeq(f, r, b, M), d)
         /\ IsRing(M, D, f, Behind(r, M), Put(b, r, d))
<1> DEFINE n     == (r - f) % M
           pl(i) == (f + i - 1) % M
           q     == Behind(r, M)
           m     == (q - f) % M
           c     == Put(b, r, d)
           s     == RingSeq(f, r, b, M)
           w     == RingSeq(f, q, c, M)
<1>1. M \in Nat \ {0} /\ f \in 0 .. M - 1 /\ r \in 0 .. M - 1 /\ b \in [0 .. M - 1 -> D]
  BY DEF IsRing
<1>2. /\ n = IF r >= f THEN r - f ELSE r - f + M
      /\ n \in 0 .. M - 1
      /\ \A i \in 1 .. M : /\ pl(i) = IF f + i - 1 < M THEN f + i - 1 ELSE f + i - 1 - M
                           /\ pl(i) \in 0 .. M - 1
      /\ q = IF r + 1 < M THEN r + 1 ELSE 0
      /\ q \in 0 .. M - 1
  BY <1>1, RingPlaces
<1>3. m = IF q >= f THEN q - f ELSE q - f + M
  <2> HIDE DEF q
  <2> QED BY <1>1, <1>2, RingPlaces
<1>4. q # f
  OBVIOUS
<1>5. s = [i \in 1 .. n |-> b[pl(i)]] /\ w = [i \in 1 .. m |-> c[pl(i)]]
  BY DEF RingSeq
<1>6. c \in [0 .. M - 1 -> D] /\ c[r] = d /\ \A i \in 0 .. M - 1 : i # r => c[i] = b[i]
  BY <1>1 DEF Put
<1> HIDE DEF n, m, pl, q, c, s, w
<1>7. m = n + 1 /\ n + 1 <= M - 1 /\ n \in Nat
  BY <1>1, <1>2, <1>3, <1>4
<1>8. pl(n + 1) = r
  BY <1>1, <1>2, <1>7
<1>9. ASSUME NEW i \in 1 .. n PROVE pl(i) # r /\ pl(i) \in 0 .. M - 1
  <2>1. i \in 1 .. M
    BY <1>1, <1>7
  <2>2. /\ pl(i) = IF f + i - 1 < M THEN f + i - 1 ELSE f + i - 1 - M
        /\ pl(i) \in 0 .. M - 1
    BY <1>2, <2>1
  <2> QED BY <1>1, <1>2, <1>7, <2>2
<1>10. \A i \in 1 .. n : b[pl(i)] \in D
  BY <1>1, <1>9
<1>11. s \in Seq(D) /\ Len(s) = n
  BY <1>5, <1>7, <1>10
<1>12. ASSUME NEW i \in 1 .. n + 1 PROVE c[pl(i)] = IF i = n + 1 THEN d ELSE s[i]
  <2>1. CASE i = n + 1
    BY <1>6, <1>8, <2>1
  <2>2. CASE i \in 1 .. n
    <3>1. c[pl(i)] = b[pl(i)] /\ s[i] = b[pl(i)]
      BY <1>5, <1>6, <1>9, <2>2
    <3>2. i # n + 1
      BY <1>7, <2>2
    <3> QED BY <3>1, <3>2
  <2>3. i = n + 1 \/ i \in 1 .. n
    BY <1>7
  <2> QED BY <2>1, <2>2, <2>3
<1>13. w \in Seq(D) /\ Len(w) = n + 1 /\ \A i \in 1 .. n + 1 : w[i] = IF i = n + 1 THEN d ELSE s[i]
  <2>1. \A i \in 1 .. n + 1 : c[pl(i)] \in D
    BY <1>7, <1>11, <1>12
  <2> QED BY <1>5, <1>7, <1>12, <2>1
<1>14. /\ Append(s, d) \in Seq(D) /\ Len(Append(s, d)) = n + 1
       /\ \A i \in 1 .. n + 1 : Append(s, d)[i] = IF i = n + 1 THEN d ELSE s[i]
  BY <1>7, <1>11
<1>15. w = Append(s, d)
  BY <1>13, <1>14
<1>16. IsRing(M, D, f, q, c)
  BY <1>1, <1>2, <1>6 DEF IsRing
<1> QED BY <1>15, <1>16 DEF w, s, q, c

(* An element taken out of a ring that is not empty. *)
LEMMA RingGet ==
  ASSUME NEW M, NEW D, NEW f, NEW r, NEW b, IsRing(M, D, f, r, b), f # r
  PROVE  /\ Head(RingSeq(f, r, b, M)) = b[f]
         /\ Tail(RingSeq(f, r, b, M)) = RingSeq(Behind(f, M), r, b, M)
         /\ RingSeq(f, r, b, M) # <<>>
         /\ IsRing(M, D, Behind(f, M), r, b)
<1> DEFINE n     == (r - f) % M
           pl(i) == (f + i - 1) % M
           g     == Behind(f, M)
           m     == (r - g) % M
           in(i) == (g + i - 1) % M
           s     == RingSeq(f, r, b, M)
           w     == RingSeq(g, r, b, M)
<1>1. M \in Nat \ {0} /\ f \in 0 .. M - 1 /\ r \in 0 .. M - 1 /\ b \in [0 .. M - 1 -> D]
  BY DEF IsRing
<1>2. /\ n = IF r >= f THEN r - f ELSE r - f + M
      /\ n \in 0 .. M - 1
      /\ \A i \in 1 .. M : /\ pl(i) = IF f + i - 1 < M THEN f + i - 1 ELSE f + i - 1 - M
                           /\ pl(i) \in 0 .. M - 1
      /\ g = IF f + 1 < M THEN f + 1 ELSE 0
      /\ g \in 0 .. M - 1
  BY <1>1, RingPlaces
<1>3. /\ m = IF r >= g THEN r - g ELSE r - g + M
      /\ \A i \in 1 .. M : in(i) = IF g + i - 1 < M THEN g + i - 1 ELSE g + i - 1 - M
  <2> HIDE DEF g
  <2> QED BY <1>1, <1>2, RingPlaces
<1>4. s = [i \in 1 .. n |-> b[pl(i)]] /\ w = [i \in 1 .. m |-> b[in(i)]]
  BY DEF RingSeq
<1> HIDE DEF n, m, pl, in, g, s, w
<1>5. n = m + 1 /\ m >= 0 /\ m <= M - 2 /\ m \in Nat
  BY <1>1, <1>2, <1>3
<1>6. pl(1) = f
  BY <1>1, <1>2, <1>5
<1>7. \A i \in 1 .. m : in(i) = pl(i + 1)
  BY <1>1, <1>2, <1>3, <1>5
<1>8. \A i \in 1 .. n : b[pl(i)] \in D
  BY <1>1, <1>2, <1>5
<1>9. \A i \in 1 .. m : b[in(i)] \in D
  BY <1>5, <1>7, <1>8
<1>10. s \in Seq(D) /\ Len(s) = m + 1 /\ w \in Seq(D) /\ Len(w) = m
  BY <1>4, <1>5, <1>8, <1>9
<1>11. \A i \in 1 .. m : w[i] = s[i + 1]
  BY <1>4, <1>5, <1>7
<1>12. s[1] = b[f] /\ b[f] \in D /\ s # <<>>
  BY <1>1, <1>4, <1>5, <1>6, <1>10
<1>13. Tail(s) = w
  <2>1. Tail(s) \in Seq(D) /\ Len(Tail(s)) = m /\ \A i \in 1 .. m : Tail(s)[i] = s[i + 1]
    BY <1>5, <1>10, <1>12
  <2> QED BY <1>10, <1>11, <2>1
<1>14. Head(s) = b[f]
  BY <1>5, <1>10, <1>12
<1>15. IsRing(M, D, g, r, b)
  BY <1>1, <1>2 DEF IsRing
<1> QED BY <1>12, <1>13, <1>14, <1>15 DEF s, w, g

(* An element in front of a list. *)
LEMMA FrontOfList ==
  ASSUME NEW D, NEW s \in Seq(D), NEW x \in D
  PROVE  /\ <<>> \o s = s /\ Tail(<<x>> \o s) = s /\ <<x>> \o s # <<>>
         /\ \A d \in D : Append(<<x>> \o s, d) = <<x>> \o Append(s, d)
<1> DEFINE v == <<x>> \o s
           e == <<>>
<1>1. e \in Seq(D) /\ Len(e) = 0
  OBVIOUS
<1>2. Len(s) \in Nat /\ v \in Seq(D) /\ Len(v) = Len(s) + 1
  OBVIOUS
<1>3. \A i \in 1 .. Len(s) + 1 : v[i] = IF i = 1 THEN x ELSE s[i - 1]
  OBVIOUS
<1>4. e \o s = s
  <2> HIDE DEF e
  <2>1. e \o s \in Seq(D) /\ Len(e \o s) = Len(s) /\ \A i \in 1 .. Len(s) : (e \o s)[i] = s[i]
    BY <1>1
  <2> QED BY <2>1
<1> HIDE DEF v
<1>5. v # <<>>
  BY <1>2
<1>6. Tail(v) = s
  <2>1. Tail(v) \in Seq(D) /\ Len(Tail(v)) = Len(s) /\ \A i \in 1 .. Len(s) : Tail(v)[i] = v[i + 1]
    BY <1>2, <1>5
  <2>2. \A i \in 1 .. Len(s) : v[i + 1] = s[i]
    BY <1>2, <1>3
  <2> QED BY <2>1, <2>2
<1>7. ASSUME NEW d \in D PROVE Append(v, d) = <<x>> \o Append(s, d)
  <2> DEFINE a == Append(v, d)
             q == Append(s, d)
             b == <<x>> \o q
  <2>1. /\ q \in Seq(D) /\ Len(q) = Len(s) + 1
        /\ \A i \in 1 .. Len(s) + 1 : q[i] = IF i = Len(s) + 1 THEN d ELSE s[i]
    OBVIOUS
  <2>2. /\ a \in Seq(D) /\ Len(a) = Len(s) + 2
        /\ \A i \in 1 .. Len(s) + 2 : a[i] = IF i = Len(s) + 2 THEN d ELSE v[i]
    BY <1>2
  <2> HIDE DEF q
  <2>3. /\ b \in Seq(D) /\ Len(b) = Len(s) + 2
        /\ \A i \in 1 .. Len(s) + 2 : b[i] = IF i = 1 THEN x ELSE q[i - 1]
    BY <2>1
  <2> HIDE DEF a, b
  <2>4. ASSUME NEW i \in 1 .. Len(s) + 2 PROVE a[i] = b[i]
    <3>1. CASE i = 1
      BY <1>2, <1>3, <2>2, <2>3, <3>1
    <3>2. CASE i = Len(s) + 2
      BY <1>2, <2>1, <2>2, <2>3, <3>2
    <3>3. CASE i \in 2 .. Len(s) + 1
      <4>1. a[i] = v[i] /\ b[i] = q[i - 1]
        BY <1>2, <2>2, <2>3, <3>3
      <4>2. v[i] = s[i - 1] /\ q[i - 1] = s[i - 1]
        BY <1>2, <1>3, <2>1, <3>3
      <4> QED BY <4>1, <4>2
    <3> QED BY <1>2, <3>1, <3>2, <3>3
  <2>5. a = b
    BY <2>2, <2>3, <2>4
  <2> QED BY <2>5 DEF a, b, q
<1> QED BY <1>4, <1>5, <1>6, <1>7 DEF v

-----------------------------------------------------------------------------
(* Work queues. *)

(* What may be in a slot. *)
Items == Work \cup {NoWork}

(* The item that the worker has taken out and not called yet is in the     *)
(* slot before the front: a submit that finds room does not write there.   *)
TakenInv == worker = "call" => (slot + 1) % MaxWorkQueue = front

WorkInv == WorkTypeOK /\ WorkInOrder /\ TakenInv

(* The facts every step starts from. *)
LEMMA WorkFacts ==
  ASSUME WorkInv
  PROVE  /\ MaxWorkQueue \in Nat \ {0} /\ Slots = 0 .. MaxWorkQueue - 1
         /\ front \in Slots /\ rear \in Slots /\ slot \in Slots
         /\ base \in [Slots -> Items] /\ owed \in Seq(Work)
         /\ IsRing(MaxWorkQueue, Items, front, rear, base)
         /\ Queued = RingSeq(front, rear, base, MaxWorkQueue)
         /\ Queued \in Seq(Items)
         /\ worker # "call" => owed = Queued
         /\ worker = "call" => owed = <<base[slot]>> \o Queued
<1>1. /\ MaxWorkQueue \in Nat \ {0} /\ Slots = 0 .. MaxWorkQueue - 1
      /\ front \in Slots /\ rear \in Slots /\ slot \in Slots
      /\ base \in [Slots -> Items] /\ owed \in Seq(Work)
  BY WorkQueueAssumption DEF WorkInv, WorkTypeOK, Slots, Items
<1>2. Queued = RingSeq(front, rear, base, MaxWorkQueue)
  BY DEF Queued, RingSeq
<1>3. IsRing(MaxWorkQueue, Items, front, rear, base) /\ Queued \in Seq(Items)
  <2>1. IsRing(MaxWorkQueue, Items, front, rear, base)
    BY <1>1 DEF IsRing
  <2> QED BY <1>2, <2>1, RingElements
<1>4. base[slot] \in Items
  BY <1>1
<1>5. <<>> \o Queued = Queued
  BY <1>3, <1>4, FrontOfList
<1>6. owed = (IF worker = "call" THEN <<base[slot]>> ELSE <<>>) \o Queued
  BY DEF WorkInv, WorkInOrder
<1> QED BY <1>1, <1>2, <1>3, <1>5, <1>6

(* What WorkInOrder asks of the next state, worker by worker. *)
LEMMA WorkKept ==
  ASSUME WorkTypeOK', TakenInv',
         (worker # "call" => owed = Queued)',
         (worker = "call" => owed = <<base[slot]>> \o Queued)'
  PROVE  WorkInv'
<1>1. /\ MaxWorkQueue \in Nat \ {0} /\ Slots = 0 .. MaxWorkQueue - 1
      /\ front' \in Slots /\ rear' \in Slots /\ slot' \in Slots
      /\ base' \in [Slots -> Items]
  BY WorkQueueAssumption DEF WorkTypeOK, Slots, Items
<1>2. Queued' = RingSeq(front', rear', base', MaxWorkQueue)
  BY DEF Queued, RingSeq
<1>3. Queued' \in Seq(Items)
  <2>1. IsRing(MaxWorkQueue, Items, front', rear', base')
    BY <1>1 DEF IsRing
  <2> QED BY <1>2, <2>1, RingElements
<1>4. base'[slot'] \in Items
  BY <1>1
<1>5. <<>> \o Queued' = Queued'
  BY <1>3, <1>4, FrontOfList
<1>6. owed' = (IF worker' = "call" THEN <<base'[slot']>> ELSE <<>>) \o Queued'
  BY <1>5
<1>7. WorkInOrder'
  BY <1>6 DEF WorkInOrder
<1> QED BY <1>7 DEF WorkInv

LEMMA WorkSubmitInv ==
  ASSUME WorkInv, NEW w \in Work, WorkSubmit_immediate(w)
  PROVE  WorkInv'
<1> DEFINE q == (rear + 1) % MaxWorkQueue
<1>1. CASE q = front
  <2>1. UNCHANGED workVars
    BY <1>1 DEF WorkSubmit_immediate, workVars
  <2> QED BY <2>1 DEF workVars, WorkInv, WorkTypeOK, WorkInOrder, TakenInv, Queued
<1>2. CASE q # front
  <2>1. /\ base' = [base EXCEPT ![rear] = w] /\ rear' = q
        /\ worker' = IF worker = "suspended" THEN "test" ELSE worker
        /\ owed' = Append(owed, w) /\ front' = front /\ slot' = slot
    BY <1>2 DEF WorkSubmit_immediate, WakeWorker
  <2>2. /\ rear' \in Slots /\ base' \in [Slots -> Items]
        /\ RingSeq(front, rear', base', MaxWorkQueue) =
              Append(RingSeq(front, rear, base, MaxWorkQueue), w)
    <3>1. rear' = Behind(rear, MaxWorkQueue) /\ base' = Put(base, rear, w) /\ w \in Items
      BY <2>1 DEF Behind, Put, Items
    <3>2. Behind(rear, MaxWorkQueue) # front
      BY <1>2 DEF Behind
    <3>3. /\ RingSeq(front, Behind(rear, MaxWorkQueue), Put(base, rear, w), MaxWorkQueue) =
                Append(RingSeq(front, rear, base, MaxWorkQueue), w)
          /\ IsRing(MaxWorkQueue, Items, front, Behind(rear, MaxWorkQueue), Put(base, rear, w))
      BY <3>1, <3>2, WorkFacts, RingPut
    <3> QED BY <3>1, <3>3 DEF IsRing, Slots
  <2>3. Queued' = Append(Queued, w)
    <3>1. Queued' = RingSeq(front', rear', base', MaxWorkQueue)
      BY DEF Queued, RingSeq
    <3> QED BY <2>1, <2>2, <3>1, WorkFacts
  <2> HIDE DEF q
  <2>4. WorkTypeOK'
    <3>1. owed' \in Seq(Work)
      BY <2>1, WorkFacts
    <3> QED BY <2>1, <2>2, <3>1, WorkFacts DEF WorkInv, WorkTypeOK, Items
  <2>5. worker' = "call" <=> worker = "call"
    BY <2>1
  <2>6. TakenInv'
    BY <2>1, <2>5 DEF TakenInv, WorkInv
  <2>7. CASE worker # "call"
    BY <2>1, <2>3, <2>4, <2>5, <2>6, <2>7, WorkFacts, WorkKept
  <2>8. CASE worker = "call"
    <3>1. slot # rear
      BY <1>2, <2>8 DEF WorkInv, TakenInv, q
    <3>2. base'[slot'] = base[slot] /\ base[slot] \in Items
      BY <2>1, <3>1, WorkFacts
    <3>3. Append(<<base[slot]>> \o Queued, w) = <<base[slot]>> \o Append(Queued, w)
      <4>1. w \in Items
        BY DEF Items
      <4> QED BY <3>2, <4>1, WorkFacts, FrontOfList, SMTT(20)
    <3>4. owed' = <<base'[slot']>> \o Queued'
      BY <2>1, <2>3, <2>8, <3>2, <3>3, WorkFacts
    <3> QED BY <2>4, <2>5, <2>6, <2>8, <3>4, WorkKept
  <2> QED BY <2>7, <2>8
<1> QED BY <1>1, <1>2

LEMMA WorkerNextInv ==
  ASSUME WorkInv, WorkerNext
  PROVE  WorkInv'
<1>1. CASE WorkerTake
  <2>1. /\ worker = "test" /\ front # rear /\ slot' = front
        /\ front' = (front + 1) % MaxWorkQueue /\ worker' = "call"
        /\ UNCHANGED <<rear, base, owed>>
    BY <1>1 DEF WorkerTake
  <2>2. /\ front' \in Slots
        /\ Queued = <<base[front]>> \o RingSeq(front', rear, base, MaxWorkQueue)
    <3>1. front' = Behind(front, MaxWorkQueue)
      BY <2>1 DEF Behind
    <3>2. /\ Head(RingSeq(front, rear, base, MaxWorkQueue)) = base[front]
          /\ Tail(RingSeq(front, rear, base, MaxWorkQueue)) =
                RingSeq(Behind(front, MaxWorkQueue), rear, base, MaxWorkQueue)
          /\ RingSeq(front, rear, base, MaxWorkQueue) # <<>>
          /\ IsRing(MaxWorkQueue, Items, Behind(front, MaxWorkQueue), rear, base)
      <4>1. IsRing(MaxWorkQueue, Items, front, rear, base) /\ front # rear
        BY <2>1, WorkFacts
      <4> QED BY <4>1, RingGet
    <3>3. Queued = <<Head(Queued)>> \o Tail(Queued)
      BY <3>2, WorkFacts
    <3> QED BY <3>1, <3>2, <3>3, WorkFacts DEF IsRing, Slots
  <2>3. Queued' = RingSeq(front', rear', base', MaxWorkQueue)
    BY DEF Queued, RingSeq
  <2>4. owed' = <<base'[slot']>> \o Queued'
    BY <2>1, <2>2, <2>3, WorkFacts
  <2>5. WorkTypeOK' /\ TakenInv'
    BY <2>1, <2>2, WorkFacts DEF WorkTypeOK, TakenInv, Items
  <2> QED BY <2>1, <2>4, <2>5, WorkKept
<1>2. CASE WorkerCall
  <2>1. worker = "call" /\ worker' = "test" /\ owed' = Tail(owed) /\ UNCHANGED <<front, rear, base, slot>>
    BY <1>2 DEF WorkerCall
  <2>2. base[slot] \in Items
    BY WorkFacts
  <2>3. Queued' = Queued
    BY <2>1 DEF Queued
  <2>4. Tail(owed) = Queued /\ owed # <<>>
    BY <2>1, <2>2, WorkFacts, FrontOfList
  <2>5. Tail(owed) \in Seq(Work)
    BY <2>4, WorkFacts
  <2>6. WorkTypeOK' /\ TakenInv'
    BY <2>1, <2>5, WorkFacts DEF WorkTypeOK, TakenInv, Items
  <2>7. worker' # "call" /\ owed' = Queued'
    BY <2>1, <2>3, <2>4
  <2> QED BY <2>6, <2>7, WorkKept
<1>3. CASE WorkerEmpty \/ WorkerSuspend
  <2>1. worker # "call" /\ worker' \in {"empty", "suspended"} /\ UNCHANGED <<front, rear, base, slot, owed>>
    BY <1>3 DEF WorkerEmpty, WorkerSuspend
  <2>2. Queued' = Queued
    BY <2>1 DEF Queued
  <2>3. WorkTypeOK' /\ TakenInv'
    BY <2>1, WorkFacts DEF WorkTypeOK, TakenInv, Items
  <2>4. worker' # "call" /\ owed' = Queued'
    BY <2>1, <2>2, WorkFacts
  <2> QED BY <2>3, <2>4, WorkKept
<1> QED BY <1>1, <1>2, <1>3 DEF WorkerNext

LEMMA WorkNextInv ==
  ASSUME WorkInv, [WorkNext]_workVars
  PROVE  WorkInv'
<1>1. CASE WorkNext
  BY <1>1, WorkSubmitInv, WorkerNextInv DEF WorkNext
<1>2. CASE UNCHANGED workVars
  BY <1>2 DEF workVars, WorkInv, WorkTypeOK, WorkInOrder, TakenInv, Queued
<1> QED BY <1>1, <1>2

LEMMA WorkInitInv == WorkInit => WorkInv
<1> SUFFICES ASSUME WorkInit PROVE WorkInv
  OBVIOUS
<1> DEFINE e == <<>>
<1>1. /\ front = 0 /\ rear = 0 /\ base = [i \in Slots |-> NoWork]
      /\ worker = "test" /\ slot = 0 /\ owed = e
  BY DEF WorkInit
<1>2. e \in Seq(Work) /\ e \o e = e /\ \A s \in Seq(Items) : Len(s) = 0 => s = e
  OBVIOUS
<1>3. MaxWorkQueue \in Nat \ {0} /\ Slots = 0 .. MaxWorkQueue - 1
  BY WorkQueueAssumption DEF Slots
<1>4. Queued = e
  <2>1. Queued = RingSeq(front, rear, base, MaxWorkQueue)
    BY DEF Queued, RingSeq
  <2>2. IsRing(MaxWorkQueue, Items, front, rear, base)
    BY <1>1, <1>3 DEF IsRing, Items
  <2>3. Queued \in Seq(Items) /\ Len(Queued) = 0
    BY <1>1, <2>1, <2>2, RingElements
  <2> QED BY <1>2, <2>3
<1>5. WorkInOrder
  BY <1>1, <1>2, <1>4 DEF WorkInOrder
<1> HIDE DEF e
<1>6. WorkTypeOK /\ TakenInv
  BY <1>1, <1>2, <1>3 DEF WorkTypeOK, TakenInv, Items
<1> QED BY <1>5, <1>6 DEF WorkInv

-----------------------------------------------------------------------------
(* Data queues. *)

(* The conditions under which the semaphores guard the ring: callers wait  *)
(* for nothing or without limit, and a wait without limit ends with a      *)
(* permit.  With any other timeout a call works on the ring without one.   *)
DataDisciplined == Timeouts \subseteq {"zero", "forever"} /\ ~ForeverEnds

DataPlaces == {"out", "push", "pushed", "pop", "popped"}

DataInv == DataTypeOK /\ DataInOrder /\ PermitsMatchRing

(* The facts every step starts from. *)
LEMMA DataFacts ==
  ASSUME DataInv
  PROVE  /\ sem_blank \in Nat /\ sem_data \in Nat
         /\ dfront \in 0 .. MaxLen - 1 /\ drear \in 0 .. MaxLen - 1
         /\ dbase \in [0 .. MaxLen - 1 -> Datum] /\ item \in [User -> Datum]
         /\ at \in [User -> DataPlaces] /\ due \in Seq(Datum) /\ MaxLen \in Nat \ {0}
         /\ IsRing(MaxLen, Datum, dfront, drear, dbase)
         /\ InRing = RingSeq(dfront, drear, dbase, MaxLen) /\ due = InRing
         /\ InRing \in Seq(Datum) /\ Len(InRing) \in Nat
         /\ Len(InRing) = 0 <=> dfront = drear
         /\ Len(InRing) = MaxLen - 1 <=> Behind(drear, MaxLen) = dfront
<1>1. /\ sem_blank \in Nat /\ sem_data \in Nat
      /\ dfront \in 0 .. MaxLen - 1 /\ drear \in 0 .. MaxLen - 1
      /\ dbase \in [0 .. MaxLen - 1 -> Datum] /\ item \in [User -> Datum]
      /\ at \in [User -> DataPlaces] /\ due \in Seq(Datum) /\ MaxLen \in Nat \ {0}
  BY DataQueueAssumption DEF DataInv, DataTypeOK, DataPlaces
<1>2. IsRing(MaxLen, Datum, dfront, drear, dbase)
  BY <1>1 DEF IsRing
<1>3. InRing = RingSeq(dfront, drear, dbase, MaxLen)
  BY DEF InRing, RingSeq
<1>4. /\ InRing \in Seq(Datum)
      /\ Len(InRing) = 0 <=> dfront = drear
      /\ Len(InRing) = MaxLen - 1 <=> Behind(drear, MaxLen) = dfront
  BY <1>2, <1>3, RingElements
<1>5. due = InRing /\ Len(InRing) \in Nat
  BY <1>4 DEF DataInv, DataInOrder
<1> QED BY <1>1, <1>2, <1>3, <1>4, <1>5

(* Users counted by their places. *)
LEMMA AtCount ==
  /\ \A p : At(p) \in Nat
  /\ \A u \in User : At(at[u]) >= 1
<1>1. ASSUME NEW p PROVE At(p) \in Nat /\ IsFiniteSet({u \in User : at[u] = p})
  <2>1. IsFiniteSet({u \in User : at[u] = p})
    BY DataQueueAssumption, FS_Subset
  <2>2. At(p) \in Nat
    BY <2>1, FS_CardinalityType DEF At
  <2> QED BY <2>1, <2>2
<1>2. ASSUME NEW u \in User PROVE At(at[u]) >= 1
  <2> DEFINE A == {v \in User : at[v] = at[u]}
  <2>1. IsFiniteSet(A) /\ u \in A /\ At(at[u]) = Cardinality(A) /\ At(at[u]) \in Nat
    BY <1>1 DEF At
  <2> HIDE DEF A
  <2>2. Cardinality(A) # 0
    BY <2>1, FS_EmptySet
  <2> QED BY <2>1, <2>2
<1> QED BY <1>1, <1>2

(* A user that goes from one place to another. *)
LEMMA AtMoves ==
  ASSUME at \in [User -> DataPlaces], NEW u \in User, NEW q \in DataPlaces, q # at[u],
         at' = [at EXCEPT ![u] = q]
  PROVE  \A p \in DataPlaces :
            At(p)' = IF p = q THEN At(p) + 1 ELSE IF p = at[u] THEN At(p) - 1 ELSE At(p)
<1> SUFFICES ASSUME NEW p \in DataPlaces
             PROVE  At(p)' = IF p = q THEN At(p) + 1 ELSE IF p = at[u] THEN At(p) - 1 ELSE At(p)
  OBVIOUS
<1> DEFINE A == {v \in User : at[v] = p}
           B == {v \in User : at'[v] = p}
<1>1. IsFiniteSet(A)
  BY DataQueueAssumption, FS_Subset
<1>2. At(p) = Cardinality(A) /\ At(p)' = Cardinality(B)
  BY DEF At
<1>3. CASE p = q
  <2>1. B = A \cup {u} /\ u \notin A
    BY <1>3
  <2> HIDE DEF A, B
  <2>2. Cardinality(A \cup {u}) = Cardinality(A) + 1
    BY <1>1, <2>1, FS_AddElement
  <2> QED BY <1>2, <1>3, <2>1, <2>2
<1>4. CASE p = at[u]
  <2>1. B = A \ {u} /\ u \in A
    BY <1>4
  <2> HIDE DEF A, B
  <2>2. Cardinality(A \ {u}) = Cardinality(A) - 1
    BY <1>1, <2>1, FS_RemoveElement
  <2> QED BY <1>2, <1>4, <2>1, <2>2
<1>5. CASE p # q /\ p # at[u]
  <2>1. B = A
    BY <1>5
  <2> QED BY <1>2, <1>5, <2>1
<1> QED BY <1>3, <1>4, <1>5

(* What an obtain does that goes on. *)
LEMMA ObtainTakes ==
  ASSUME DataDisciplined, NEW timeout \in Timeouts, NEW sem \in Nat, GoesOn(sem, timeout)
  PROVE  sem > 0 /\ Obtained(sem, timeout) = sem - 1
<1>1. timeout # "other" /\ ~ForeverEnds
  BY DEF DataDisciplined
<1>2. sem > 0
  BY <1>1 DEF GoesOn
<1> QED BY <1>1, <1>2 DEF Obtained

(* The permits and the ring as DataInv has them. *)
LEMMA DataPermits ==
  ASSUME DataInv
  PROVE  /\ sem_blank + At("push") + At("popped") + Len(InRing) = MaxLen - 1
         /\ sem_data + At("pop") + At("pushed") = Len(InRing)
         /\ At("push") \in Nat /\ At("pushed") \in Nat /\ At("pop") \in Nat /\ At("popped") \in Nat
         /\ sem_blank \in Nat /\ sem_data \in Nat /\ MaxLen \in Nat /\ Len(InRing) \in Nat
<1>1. /\ sem_blank + At("push") + At("popped") + Len(InRing) = MaxLen - 1
      /\ sem_data + At("pop") + At("pushed") = Len(InRing)
  BY DEF DataInv, PermitsMatchRing
<1>2. At("push") \in Nat /\ At("pushed") \in Nat /\ At("pop") \in Nat /\ At("popped") \in Nat
  BY AtCount
<1>3. sem_blank \in Nat /\ sem_data \in Nat /\ MaxLen \in Nat /\ Len(InRing) \in Nat
  BY DataFacts
<1> QED BY <1>1, <1>2, <1>3

(* The sums of PermitsMatchRing after a step that moves one unit of each. *)
LEMMA PermitsKept ==
  ASSUME DataInv, NEW a \in Int, NEW b \in Int, NEW c \in Int, NEW n \in Int,
         NEW x \in Int, NEW y \in Int, NEW z \in Int, a + b + c + n = 0, x + y + z = n,
         sem_blank' = sem_blank + a, At("push")' = At("push") + b, At("popped")' = At("popped") + c,
         sem_data' = sem_data + x, At("pop")' = At("pop") + y, At("pushed")' = At("pushed") + z,
         Len(InRing') = Len(InRing) + n
  PROVE  PermitsMatchRing'
<1> DEFINE B == sem_blank
           P == At("push")
           Q == At("popped")
           L == Len(InRing)
           E == sem_data
           R == At("pop")
           S == At("pushed")
<1>1. /\ B \in Int /\ P \in Int /\ Q \in Int /\ L \in Int /\ E \in Int /\ R \in Int /\ S \in Int
      /\ B + P + Q + L = MaxLen - 1 /\ E + R + S = L
  BY DataPermits
<1>2. /\ sem_blank' = B + a /\ At("push")' = P + b /\ At("popped")' = Q + c
      /\ Len(InRing') = L + n
      /\ sem_data' = E + x /\ At("pop")' = R + y /\ At("pushed")' = S + z
  OBVIOUS
<1> HIDE DEF B, P, Q, L, E, R, S
<1>3. (B + a) + (P + b) + (Q + c) + (L + n) = MaxLen - 1
  BY <1>1
<1>4. (E + x) + (R + y) + (S + z) = L + n
  BY <1>1
<1> QED BY <1>2, <1>3, <1>4 DEF PermitsMatchRing

(* What PermitsKept says of the units that stay or move by one. *)
LEMMA PermitUnits ==
  ASSUME DataInv
  PROVE  /\ sem_blank + 0 = sem_blank /\ sem_data + 0 = sem_data /\ Len(InRing) + 0 = Len(InRing)
         /\ sem_blank + (-1) = sem_blank - 1 /\ sem_data + (-1) = sem_data - 1
         /\ \A p \in DataPlaces \ {"out"} : At(p) + 0 = At(p) /\ At(p) + (-1) = At(p) - 1
<1>1. \A k \in Nat : k + 0 = k /\ k + (-1) = k - 1
  OBVIOUS
<1>2. sem_blank \in Nat /\ sem_data \in Nat /\ Len(InRing) \in Nat
  BY DataPermits
<1>3. \A p \in DataPlaces \ {"out"} : At(p) \in Nat
  BY DataPermits DEF DataPlaces
<1>4. \A p \in DataPlaces \ {"out"} : At(p) + 0 = At(p) /\ At(p) + (-1) = At(p) - 1
  BY <1>1, <1>3
<1> QED BY <1>1, <1>2, <1>4

LEMMA DataObtainInv ==
  ASSUME DataDisciplined, DataInv, NEW u \in User, NEW timeout \in Timeouts,
         (\E d \in Datum : PushObtain(u, d, timeout)) \/ PopObtain(u, timeout)
  PROVE  DataInv'
<1>1. UNCHANGED <<dfront, drear, dbase, due>> /\ at[u] = "out"
  BY DEF PushObtain, PopObtain
<1>2. InRing' = InRing
  BY <1>1 DEF InRing
<1>3. DataInOrder'
  BY <1>1, <1>2 DEF DataInv, DataInOrder
<1>4. CASE \E d \in Datum : PushObtain(u, d, timeout)
  <2>1. PICK d \in Datum : PushObtain(u, d, timeout)
    BY <1>4
  <2>2. /\ sem_blank' = sem_blank - 1 /\ sem_blank > 0 /\ sem_data' = sem_data
        /\ at' = [at EXCEPT ![u] = "push"] /\ item' = [item EXCEPT ![u] = d]
    BY <2>1, DataFacts, ObtainTakes DEF PushObtain
  <2>3. \A p \in DataPlaces : At(p)' = IF p = "push" THEN At(p) + 1
                                       ELSE IF p = at[u] THEN At(p) - 1 ELSE At(p)
    BY <1>1, <2>2, DataFacts, AtMoves DEF DataPlaces
  <2>4. /\ At("push")' = At("push") + 1 /\ At("pushed")' = At("pushed")
        /\ At("pop")' = At("pop") /\ At("popped")' = At("popped")
    BY <1>1, <2>3 DEF DataPlaces
  <2>5. PermitsMatchRing'
    BY <1>2, <2>2, <2>4, DataPermits DEF PermitsMatchRing
  <2>6. DataTypeOK'
    BY <1>1, <2>2, DataFacts DEF DataTypeOK, DataPlaces
  <2> QED BY <1>3, <2>5, <2>6 DEF DataInv
<1>5. CASE PopObtain(u, timeout)
  <2>2. /\ sem_data' = sem_data - 1 /\ sem_data > 0 /\ sem_blank' = sem_blank
        /\ at' = [at EXCEPT ![u] = "pop"] /\ item' = item
    BY <1>5, DataFacts, ObtainTakes DEF PopObtain
  <2>3. \A p \in DataPlaces : At(p)' = IF p = "pop" THEN At(p) + 1
                                       ELSE IF p = at[u] THEN At(p) - 1 ELSE At(p)
    BY <1>1, <2>2, DataFacts, AtMoves DEF DataPlaces
  <2>4. /\ At("push")' = At("push") /\ At("pushed")' = At("pushed")
        /\ At("pop")' = At("pop") + 1 /\ At("popped")' = At("popped")
    BY <1>1, <2>3 DEF DataPlaces
  <2>5. PermitsMatchRing'
    <3>1. /\ sem_blank' = sem_blank + 0 /\ At("push")' = At("push") + 0 /\ At("popped")' = At("popped") + 0
          /\ sem_data' = sem_data + (-1) /\ At("pop")' = At("pop") + 1 /\ At("pushed")' = At("pushed") + 0
          /\ Len(InRing') = Len(InRing) + 0
      BY <1>2, <2>2, <2>4, PermitUnits DEF DataPlaces
    <3> QED BY <3>1, PermitsKept
  <2>6. DataTypeOK'
    BY <1>1, <2>2, DataFacts DEF DataTypeOK, DataPlaces
  <2> QED BY <1>3, <2>5, <2>6 DEF DataInv
<1> QED BY <1>4, <1>5

LEMMA DataAbandonInv ==
  ASSUME DataInv, NEW u \in User, PushAbandon(u) \/ PopAbandon(u)
  PROVE  DataInv'
<1>1. UNCHANGED <<dfront, drear, dbase, due, item>> /\ at' = [at EXCEPT ![u] = "out"]
  BY DEF PushAbandon, PopAbandon
<1>2. InRing' = InRing
  BY <1>1 DEF InRing
<1>3. DataInOrder'
  BY <1>1, <1>2 DEF DataInv, DataInOrder
<1>4. \/ at[u] = "pushed" /\ sem_data' = sem_data + 1 /\ sem_blank' = sem_blank
      \/ at[u] = "popped" /\ sem_blank' = sem_blank + 1 /\ sem_data' = sem_data
  BY DEF PushAbandon, PopAbandon
<1>5. \A p \in DataPlaces : At(p)' = IF p = "out" THEN At(p) + 1
                                     ELSE IF p = at[u] THEN At(p) - 1 ELSE At(p)
  BY <1>1, <1>4, DataFacts, AtMoves DEF DataPlaces
<1>6. /\ At("push")' = At("push") /\ At("pop")' = At("pop")
      /\ At("pushed")' = IF at[u] = "pushed" THEN At("pushed") - 1 ELSE At("pushed")
      /\ At("popped")' = IF at[u] = "popped" THEN At("popped") - 1 ELSE At("popped")
  BY <1>4, <1>5 DEF DataPlaces
<1>7. PermitsMatchRing'
  <2>1. CASE at[u] = "pushed" /\ sem_data' = sem_data + 1 /\ sem_blank' = sem_blank
    <3>1. /\ sem_blank' = sem_blank + 0 /\ At("push")' = At("push") + 0 /\ At("popped")' = At("popped") + 0
          /\ sem_data' = sem_data + 1 /\ At("pop")' = At("pop") + 0 /\ At("pushed")' = At("pushed") + (-1)
          /\ Len(InRing') = Len(InRing) + 0
      BY <1>2, <1>6, <2>1, PermitUnits DEF DataPlaces
    <3> QED BY <3>1, PermitsKept
  <2>2. CASE at[u] = "popped" /\ sem_blank' = sem_blank + 1 /\ sem_data' = sem_data
    <3>1. /\ sem_blank' = sem_blank + 1 /\ At("push")' = At("push") + 0 /\ At("popped")' = At("popped") + (-1)
          /\ sem_data' = sem_data + 0 /\ At("pop")' = At("pop") + 0 /\ At("pushed")' = At("pushed") + 0
          /\ Len(InRing') = Len(InRing) + 0
      BY <1>2, <1>6, <2>2, PermitUnits DEF DataPlaces
    <3> QED BY <3>1, PermitsKept
  <2> QED BY <1>4, <2>1, <2>2
<1>8. DataTypeOK'
  BY <1>1, <1>4, DataFacts DEF DataTypeOK, DataPlaces
<1> QED BY <1>3, <1>7, <1>8 DEF DataInv

LEMMA DataPutInv ==
  ASSUME DataInv, NEW u \in User, PushPut(u)
  PROVE  DataInv'
<1>1. /\ at[u] = "push" /\ due' = Append(due, item[u]) /\ at' = [at EXCEPT ![u] = "pushed"]
      /\ UNCHANGED <<sem_blank, sem_data, dfront, item>>
  BY DEF PushPut
<1>2. At("push") >= 1
  BY <1>1, AtCount
<1>3. Behind(drear, MaxLen) # dfront
  <2> DEFINE B == sem_blank
             P == At("push")
             Q == At("popped")
             L == Len(InRing)
  <2>1. /\ B \in Nat /\ P \in Nat /\ Q \in Nat /\ L \in Nat /\ MaxLen \in Nat
        /\ P >= 1 /\ B + P + Q + L = MaxLen - 1
    BY <1>2, DataPermits
  <2> HIDE DEF B, P, Q, L
  <2>2. L # MaxLen - 1
    BY <2>1
  <2>3. Len(InRing) # MaxLen - 1
    BY <2>2 DEF L
  <2> QED BY <2>3, DataFacts
<1>4. dbase' = Put(dbase, drear, item[u]) /\ drear' = Behind(drear, MaxLen)
  BY <1>3 DEF PushPut, Put, Behind
<1>5. item[u] \in Datum
  BY DataFacts
<1>6. /\ RingSeq(dfront, Behind(drear, MaxLen), Put(dbase, drear, item[u]), MaxLen) =
            Append(RingSeq(dfront, drear, dbase, MaxLen), item[u])
      /\ IsRing(MaxLen, Datum, dfront, Behind(drear, MaxLen), Put(dbase, drear, item[u]))
  BY <1>3, <1>5, DataFacts, RingPut
<1>7. InRing' = RingSeq(dfront', drear', dbase', MaxLen)
  BY DEF InRing, RingSeq
<1>8. InRing' = Append(InRing, item[u])
  BY <1>1, <1>4, <1>6, <1>7, DataFacts
<1>9. InRing' \in Seq(Datum) /\ Len(InRing') = Len(InRing) + 1
  BY <1>5, <1>8, DataFacts
<1>10. DataInOrder'
  BY <1>1, <1>8, DataFacts DEF DataInOrder
<1>11. \A p \in DataPlaces : At(p)' = IF p = "pushed" THEN At(p) + 1
                                      ELSE IF p = at[u] THEN At(p) - 1 ELSE At(p)
  BY <1>1, DataFacts, AtMoves DEF DataPlaces
<1>12. /\ At("push")' = At("push") - 1 /\ At("pushed")' = At("pushed") + 1
       /\ At("pop")' = At("pop") /\ At("popped")' = At("popped")
  BY <1>1, <1>11 DEF DataPlaces
<1>13. PermitsMatchRing'
  <2>1. /\ sem_blank' = sem_blank + 0 /\ At("push")' = At("push") + (-1) /\ At("popped")' = At("popped") + 0
        /\ sem_data' = sem_data + 0 /\ At("pop")' = At("pop") + 0 /\ At("pushed")' = At("pushed") + 1
        /\ Len(InRing') = Len(InRing) + 1
    <3>1. /\ At("push") \in Int /\ At("pushed") \in Int /\ At("pop") \in Int /\ At("popped") \in Int
          /\ sem_blank \in Int /\ sem_data \in Int /\ Len(InRing) \in Int
      BY DataPermits
    <3>2. sem_blank' = sem_blank /\ sem_data' = sem_data
      BY <1>1
    <3> QED BY <3>1, <3>2, <1>9, <1>12
  <2> QED BY <2>1, PermitsKept
<1>14. DataTypeOK'
  <2>1. dbase' \in [0 .. MaxLen - 1 -> Datum] /\ drear' \in 0 .. MaxLen - 1
    BY <1>4, <1>6 DEF IsRing
  <2>2. due' \in Seq(Datum)
    BY <1>1, <1>5, DataFacts
  <2> QED BY <1>1, <2>1, <2>2, DataFacts DEF DataTypeOK, DataPlaces
<1> QED BY <1>10, <1>13, <1>14 DEF DataInv

LEMMA DataGetInv ==
  ASSUME DataInv, NEW u \in User, PopGet(u)
  PROVE  DataInv'
<1>1. /\ at[u] = "pop" /\ at' = [at EXCEPT ![u] = "popped"]
      /\ dfront' = IF dfront # drear THEN (dfront + 1) % MaxLen ELSE dfront
      /\ due' = IF due = <<>> THEN due ELSE Tail(due)
      /\ UNCHANGED <<sem_blank, sem_data, drear, dbase, item>>
  BY DEF PopGet
<1>2. At("pop") >= 1
  BY <1>1, AtCount
<1>3. Len(InRing) >= 1 /\ dfront # drear
  <2>1. Len(InRing) >= 1
    BY <1>2, DataPermits
  <2> QED BY <2>1, DataFacts
<1>4. dfront' = Behind(dfront, MaxLen)
  BY <1>1, <1>3 DEF Behind
<1>5. /\ Head(RingSeq(dfront, drear, dbase, MaxLen)) = dbase[dfront]
      /\ Tail(RingSeq(dfront, drear, dbase, MaxLen)) = RingSeq(Behind(dfront, MaxLen), drear, dbase, MaxLen)
      /\ RingSeq(dfront, drear, dbase, MaxLen) # <<>>
      /\ IsRing(MaxLen, Datum, Behind(dfront, MaxLen), drear, dbase)
  <2>1. IsRing(MaxLen, Datum, dfront, drear, dbase) /\ dfront # drear
    BY <1>3, DataFacts
  <2> QED BY <2>1, RingGet
<1>6. InRing' = RingSeq(dfront', drear', dbase', MaxLen)
  BY DEF InRing, RingSeq
<1>7. InRing' = Tail(InRing) /\ InRing # <<>>
  BY <1>1, <1>4, <1>5, <1>6, DataFacts
<1>8. Tail(InRing) \in Seq(Datum) /\ Len(InRing') = Len(InRing) - 1
  BY <1>7, DataFacts
<1>9. due' = Tail(due) /\ DataInOrder'
  BY <1>1, <1>7, DataFacts DEF DataInOrder
<1>10. \A p \in DataPlaces : At(p)' = IF p = "popped" THEN At(p) + 1
                                      ELSE IF p = at[u] THEN At(p) - 1 ELSE At(p)
  BY <1>1, DataFacts, AtMoves DEF DataPlaces
<1>11. /\ At("push")' = At("push") /\ At("pushed")' = At("pushed")
       /\ At("pop")' = At("pop") - 1 /\ At("popped")' = At("popped") + 1
  BY <1>1, <1>10 DEF DataPlaces
<1>12. PermitsMatchRing'
  <2>1. /\ sem_blank' = sem_blank + 0 /\ At("push")' = At("push") + 0 /\ At("popped")' = At("popped") + 1
        /\ sem_data' = sem_data + 0 /\ At("pop")' = At("pop") + (-1) /\ At("pushed")' = At("pushed") + 0
        /\ Len(InRing') = Len(InRing) + (-1)
    <3>1. /\ At("push") \in Int /\ At("pushed") \in Int /\ At("pop") \in Int /\ At("popped") \in Int
          /\ sem_blank \in Int /\ sem_data \in Int /\ Len(InRing) \in Int
      BY DataPermits
    <3>2. sem_blank' = sem_blank /\ sem_data' = sem_data
      BY <1>1
    <3> QED BY <3>1, <3>2, <1>8, <1>11
  <2> QED BY <2>1, PermitsKept
<1>13. DataTypeOK'
  <2>1. dfront' \in 0 .. MaxLen - 1
    BY <1>4, <1>5 DEF IsRing
  <2>2. due' \in Seq(Datum)
    BY <1>8, <1>9, DataFacts
  <2> QED BY <1>1, <2>1, <2>2, DataFacts DEF DataTypeOK, DataPlaces
<1> QED BY <1>9, <1>12, <1>13 DEF DataInv

LEMMA DataNextInv ==
  ASSUME DataDisciplined, DataInv, [DataNext]_dataVars
  PROVE  DataInv'
<1>1. CASE DataNext
  <2>1. PICK u \in User :
           \/ \E timeout \in Timeouts :
                 \/ \E d \in Datum : PushObtain(u, d, timeout)
                 \/ PopObtain(u, timeout)
           \/ PushPut(u) \/ PushAbandon(u) \/ PopGet(u) \/ PopAbandon(u)
    BY <1>1 DEF DataNext
  <2> QED BY <2>1, DataObtainInv, DataAbandonInv, DataPutInv, DataGetInv
<1>2. CASE UNCHANGED dataVars
  BY <1>2 DEF dataVars, DataInv, DataTypeOK, DataInOrder, PermitsMatchRing, InRing, At
<1> QED BY <1>1, <1>2

(* The types alone, whatever timeouts are used. *)
LEMMA DataTypesKept ==
  ASSUME DataTypeOK, [DataNext]_dataVars
  PROVE  DataTypeOK'
<1> DEFINE Index == 0 .. MaxLen - 1
<1>1. /\ sem_blank \in Nat /\ sem_data \in Nat /\ dfront \in Index /\ drear \in Index
      /\ dbase \in [Index -> Datum] /\ item \in [User -> Datum]
      /\ at \in [User -> DataPlaces] /\ due \in Seq(Datum)
  BY DEF DataTypeOK, DataPlaces
<1>2. MaxLen \in Nat \ {0} /\ \A i \in Index : (i + 1) % MaxLen \in Index
  BY DataQueueAssumption
<1>3. \A n \in Nat : \A timeout : Obtained(n, timeout) \in Nat
  BY DEF Obtained
<1> SUFFICES /\ sem_blank' \in Nat /\ sem_data' \in Nat /\ dfront' \in Index /\ drear' \in Index
             /\ dbase' \in [Index -> Datum] /\ item' \in [User -> Datum]
             /\ at' \in [User -> DataPlaces] /\ due' \in Seq(Datum)
  BY DEF DataTypeOK, DataPlaces
<1> HIDE DEF Index
<1>4. CASE UNCHANGED dataVars
  BY <1>1, <1>4 DEF dataVars
<1>5. CASE DataNext
  <2>1. PICK u \in User :
           \/ \E timeout \in Timeouts :
                 \/ \E d \in Datum : PushObtain(u, d, timeout)
                 \/ PopObtain(u, timeout)
           \/ PushPut(u) \/ PushAbandon(u) \/ PopGet(u) \/ PopAbandon(u)
    BY <1>5 DEF DataNext
  <2>2. \A place \in DataPlaces : [at EXCEPT ![u] = place] \in [User -> DataPlaces]
    BY <1>1
  <2>3. ASSUME NEW timeout \in Timeouts, NEW d \in Datum, PushObtain(u, d, timeout)
        PROVE  /\ sem_blank' \in Nat /\ item' \in [User -> Datum] /\ at' \in [User -> DataPlaces]
               /\ UNCHANGED <<sem_data, dfront, drear, dbase, due>>
    BY <1>1, <1>3, <2>2, <2>3 DEF PushObtain, DataPlaces
  <2>4. ASSUME NEW timeout \in Timeouts, PopObtain(u, timeout)
        PROVE  /\ sem_data' \in Nat /\ at' \in [User -> DataPlaces]
               /\ UNCHANGED <<sem_blank, dfront, drear, dbase, item, due>>
    BY <1>1, <1>3, <2>2, <2>4 DEF PopObtain, DataPlaces
  <2>5. CASE PushPut(u)
    <3>1. dbase' \in [Index -> Datum] /\ drear' \in Index
      BY <1>1, <1>2, <2>5 DEF PushPut
    <3>2. due' \in Seq(Datum)
      <4>1. item[u] \in Datum /\ due' = Append(due, item[u])
        BY <1>1, <2>5 DEF PushPut
      <4> QED BY <1>1, <4>1
    <3>3. at' \in [User -> DataPlaces] /\ UNCHANGED <<sem_blank, sem_data, dfront, item>>
      BY <2>2, <2>5 DEF PushPut, DataPlaces
    <3> QED BY <1>1, <3>1, <3>2, <3>3
  <2>6. CASE PushAbandon(u)
    BY <1>1, <2>2, <2>6 DEF PushAbandon, DataPlaces
  <2>7. CASE PopGet(u)
    <3>1. dfront' \in Index
      BY <1>1, <1>2, <2>7 DEF PopGet
    <3>2. due' \in Seq(Datum)
      <4>1. due' = IF due = <<>> THEN due ELSE Tail(due)
        BY <2>7 DEF PopGet
      <4> QED BY <1>1, <4>1
    <3>3. at' \in [User -> DataPlaces] /\ UNCHANGED <<sem_blank, sem_data, drear, dbase, item>>
      BY <2>2, <2>7 DEF PopGet, DataPlaces
    <3> QED BY <1>1, <3>1, <3>2, <3>3
  <2>8. CASE PopAbandon(u)
    BY <1>1, <2>2, <2>8 DEF PopAbandon, DataPlaces
  <2> QED BY <1>1, <2>1, <2>3, <2>4, <2>5, <2>6, <2>7, <2>8
<1> QED BY <1>4, <1>5

LEMMA DataInitInv == DataInit => DataInv
<1> SUFFICES ASSUME DataInit PROVE DataInv
  OBVIOUS
<1> DEFINE e == <<>>
           z == CHOOSE d \in Datum : TRUE
<1>1. /\ sem_blank = MaxLen - 1 /\ sem_data = 0 /\ dfront = 0 /\ drear = 0
      /\ dbase = [i \in 0 .. MaxLen - 1 |-> z] /\ at = [u \in User |-> "out"]
      /\ item = [u \in User |-> z] /\ due = e
  BY DEF DataInit
<1>2. z \in Datum
  BY DataQueueAssumption
<1>3. MaxLen \in Nat \ {0}
  BY DataQueueAssumption
<1>4. e \in Seq(Datum) /\ Len(e) = 0 /\ \A s \in Seq(Datum) : Len(s) = 0 => s = e
  OBVIOUS
<1> HIDE DEF e, z
<1>5. DataTypeOK
  BY <1>1, <1>2, <1>3, <1>4 DEF DataTypeOK
<1>6. IsRing(MaxLen, Datum, dfront, drear, dbase)
  BY <1>1, <1>2, <1>3 DEF IsRing
<1>7. InRing = RingSeq(dfront, drear, dbase, MaxLen)
  BY DEF InRing, RingSeq
<1>8. InRing \in Seq(Datum) /\ Len(InRing) = 0
  BY <1>1, <1>6, <1>7, RingElements
<1>9. DataInOrder
  BY <1>1, <1>4, <1>8 DEF DataInOrder
<1>10. \A p \in DataPlaces \ {"out"} : At(p) = 0
  <2>1. \A p \in DataPlaces \ {"out"} : {u \in User : at[u] = p} = {}
    BY <1>1
  <2>2. Cardinality({}) = 0
    BY FS_EmptySet
  <2> QED BY <2>1, <2>2 DEF At
<1>11. At("push") = 0 /\ At("pushed") = 0 /\ At("pop") = 0 /\ At("popped") = 0
  BY <1>10 DEF DataPlaces
<1>12. PermitsMatchRing
  BY <1>1, <1>3, <1>8, <1>11 DEF PermitsMatchRing
<1> QED BY <1>5, <1>9, <1>12 DEF DataInv

-----------------------------------------------------------------------------
(* Soft timers. *)

TimerStruct == [alive : BOOLEAN, active : BOOLEAN, deadline : 0 .. TickMod - 1,
                origin : Timeslices \cup {0}, periodic : BOOLEAN, linked : BOOLEAN]

TimerTypes ==
  /\ heartbeat_ticks \in 0 .. TickMod - 1 /\ in_tick \in BOOLEAN
  /\ timer \in [Timer -> TimerStruct]
  /\ sort \in Seq(Timer) /\ quitting \subseteq Timer /\ callbacks \in [Timer -> Nat]

(* A timer that exists is set to a time. *)
SetTimers == \A tm \in Timer : timer[tm].alive => timer[tm].origin \in Timeslices

TimerInv == TimerTypes /\ SetTimers /\ RunningIffListed

Active == {tm \in Timer : timer[tm].active}

(* What is to be seen of a timer that is replaced by another record. *)
LEMMA TimerSet ==
  ASSUME TimerInv, NEW tm \in Timer, NEW r \in TimerStruct, timer' = [timer EXCEPT ![tm] = r],
         r.alive => r.origin \in Timeslices, r.active => r.alive
  PROVE  /\ timer' \in [Timer -> TimerStruct] /\ SetTimers'
         /\ Active' = IF r.active THEN Active \cup {tm} ELSE Active \ {tm}
         /\ \A x \in Timer : timer'[x].active => timer'[x].alive
         /\ timer'[tm] = r /\ \A x \in Timer \ {tm} : timer'[x] = timer[x]
<1>1. timer \in [Timer -> TimerStruct]
  BY DEF TimerInv, TimerTypes
<1>2. /\ timer' \in [Timer -> TimerStruct]
      /\ timer'[tm] = r /\ \A x \in Timer \ {tm} : timer'[x] = timer[x]
  BY <1>1
<1>3. SetTimers'
  <2>1. ASSUME NEW x \in Timer, timer'[x].alive PROVE timer'[x].origin \in Timeslices
    <3>1. CASE x = tm
      BY <1>2, <2>1, <3>1
    <3>2. CASE x # tm
      BY <1>2, <2>1, <3>2 DEF TimerInv, SetTimers
    <3> QED BY <3>1, <3>2
  <2> QED BY <2>1 DEF SetTimers
<1>4. \A x \in Timer : timer'[x].active => timer'[x].alive
  <2>1. ASSUME NEW x \in Timer, timer'[x].active PROVE timer'[x].alive
    <3>1. CASE x = tm
      BY <1>2, <2>1, <3>1
    <3>2. CASE x # tm
      BY <1>2, <2>1, <3>2 DEF TimerInv, RunningIffListed
    <3> QED BY <3>1, <3>2
  <2> QED BY <2>1
<1>5. Active' = IF r.active THEN Active \cup {tm} ELSE Active \ {tm}
  <2>1. \A x \in Timer : x \in Active' <=> IF x = tm THEN r.active ELSE x \in Active
    BY <1>2 DEF Active
  <2>2. Active \subseteq Timer /\ Active' \subseteq Timer
    BY DEF Active
  <2>3. CASE r.active
    BY <2>1, <2>2, <2>3
  <2>4. CASE ~r.active
    BY <2>1, <2>2, <2>4
  <2> QED BY <2>3, <2>4
<1> QED BY <1>2, <1>3, <1>4, <1>5

(* _StartRun of a timer that is alive and not on the list it is put on. *)
LEMMA StartKeeps ==
  ASSUME TimerInv, NEW tm \in Timer, timer[tm].alive, NEW time \in Timeslices, NEW list \in Seq(Timer),
         IsInjective(list), Range(list) = Active \ {tm}, Start(tm, time, list),
         UNCHANGED <<heartbeat_ticks, in_tick, quitting, callbacks>>
  PROVE  /\ TimerInv'
         /\ timer'[tm].deadline = (heartbeat_ticks + time) % TickMod /\ timer'[tm].active
         /\ \A x \in Timer \ {tm} : timer'[x] = timer[x]
         /\ sort' = InsertSorted(list, tm, (heartbeat_ticks + time) % TickMod,
                                 [x \in Timer |-> timer[x].deadline])
<1> DEFINE deadline == (heartbeat_ticks + time) % TickMod
           r == [timer[tm] EXCEPT !.active = TRUE, !.deadline = deadline, !.origin = time, !.linked = TRUE]
           w == InsertSorted(list, tm, deadline, [x \in Timer |-> timer[x].deadline])
<1>1. timer[tm] \in TimerStruct /\ timer \in [Timer -> TimerStruct] /\ heartbeat_ticks \in Nat
  BY DEF TimerInv, TimerTypes
<1>2. TickMod \in Nat \ {0} /\ time \in Nat
  BY SoftTimerAssumption
<1>3. deadline \in 0 .. TickMod - 1
  BY <1>1, <1>2
<1>4. timer' = [timer EXCEPT ![tm] = r] /\ sort' = w
  BY <1>1 DEF Start
<1> HIDE DEF deadline
<1>5. r \in TimerStruct /\ r.alive = timer[tm].alive /\ r.active = TRUE /\ r.deadline = deadline /\ r.origin = time
  BY <1>1, <1>3 DEF TimerStruct
<1> HIDE DEF r
<1>6. /\ timer' \in [Timer -> TimerStruct] /\ SetTimers'
      /\ Active' = Active \cup {tm}
      /\ \A x \in Timer : timer'[x].active => timer'[x].alive
      /\ timer'[tm] = r /\ \A x \in Timer \ {tm} : timer'[x] = timer[x]
  <2>1. r.active /\ r.alive /\ (r.alive => r.origin \in Timeslices) /\ (r.active => r.alive)
    BY <1>5
  <2> QED BY <1>4, <1>5, <2>1, TimerSet
<1>7. /\ w \in Seq(Timer) /\ IsInjective(w) /\ Range(w) = Range(list) \cup {tm}
  <2>1. tm \notin Range(list)
    OBVIOUS
  <2> QED BY <2>1, InsertSortedElements
<1> HIDE DEF w
<1>8. TimerTypes'
  BY <1>4, <1>6, <1>7 DEF TimerInv, TimerTypes
<1>9. RunningIffListed'
  <2>1. Range(w) = Active'
    BY <1>6, <1>7 DEF Active
  <2> QED BY <1>4, <1>6, <1>7, <2>1 DEF RunningIffListed, Active
<1> QED BY <1>4, <1>5, <1>6, <1>8, <1>9 DEF TimerInv, deadline, w

(* Stopping a timer, and taking it off the list: what _QuitRun does in its *)
(* critical area, and KDeleteTimer.                                        *)
LEMMA StopKeeps ==
  ASSUME TimerInv, NEW tm \in Timer, NEW r \in TimerStruct, ~r.active,
         r.alive => r.origin \in Timeslices, timer' = [timer EXCEPT ![tm] = r], sort' = RmNode(sort, tm),
         quitting' \subseteq Timer, UNCHANGED <<heartbeat_ticks, in_tick, callbacks>>
  PROVE  TimerInv' /\ ~timer'[tm].active /\ \A x \in Timer \ {tm} : timer'[x] = timer[x]
<1>1. /\ timer' \in [Timer -> TimerStruct] /\ SetTimers'
      /\ Active' = Active \ {tm}
      /\ \A x \in Timer : timer'[x].active => timer'[x].alive
      /\ timer'[tm] = r /\ \A x \in Timer \ {tm} : timer'[x] = timer[x]
  BY TimerSet
<1>2. sort \in Seq(Timer) /\ IsInjective(sort) /\ Range(sort) = Active
  BY DEF TimerInv, TimerTypes, RunningIffListed, Active
<1>3. sort' \in Seq(Timer) /\ IsInjective(sort') /\ Range(sort') = Active \ {tm}
  BY <1>2, RmNodeElements
<1>4. TimerTypes'
  BY <1>1, <1>3 DEF TimerInv, TimerTypes
<1>5. RunningIffListed'
  BY <1>1, <1>3 DEF RunningIffListed, Active
<1> QED BY <1>1, <1>4, <1>5 DEF TimerInv

(* The deadlines while the tick counter has not passed its end: none is    *)
(* behind the counter, nor is one so far ahead that it seems to be, and    *)
(* the list has them in order.                                             *)
NoWrap    == \A time \in Timeslices : MaxTick + time < TickMod
HalfTurn  == (TickMod - 1) \div 2
Deadlines == [tm \in Timer |-> timer[tm].deadline]
Awaited   == \A tm \in Timer : timer[tm].active =>
                /\ heartbeat_ticks <= timer[tm].deadline
                /\ ~in_tick => heartbeat_ticks < timer[tm].deadline
                /\ timer[tm].deadline <= heartbeat_ticks + HalfTurn - 1

TimerOrder == heartbeat_ticks <= MaxTick /\ Ascending(sort, Deadlines) /\ Awaited

LEMMA TimerNumbers ==
  ASSUME TimerInv
  PROVE  /\ TickMod \in Nat \ {0} /\ MaxTick \in Nat /\ HalfTurn \in Int /\ 2 * HalfTurn <= TickMod - 1
         /\ \A time \in Timeslices : time \in Nat /\ 1 <= time /\ time <= HalfTurn - 1
         /\ heartbeat_ticks \in Nat /\ heartbeat_ticks < TickMod
         /\ \A tm \in Timer : timer[tm].deadline \in Nat /\ timer[tm].deadline < TickMod
<1>1. TickMod \in Nat \ {0} /\ MaxTick \in Nat /\ Timeslices \subseteq 1 .. HalfTurn - 1
  BY SoftTimerAssumption DEF HalfTurn
<1>2. HalfTurn \in Int /\ 2 * HalfTurn <= TickMod - 1
  BY <1>1 DEF HalfTurn
<1>3. heartbeat_ticks \in 0 .. TickMod - 1 /\ \A tm \in Timer : timer[tm].deadline \in 0 .. TickMod - 1
  BY DEF TimerInv, TimerTypes, TimerStruct
<1>4. \A time \in Timeslices : time \in Nat /\ 1 <= time /\ time <= HalfTurn - 1
  BY <1>1, <1>2
<1> QED BY <1>1, <1>2, <1>3, <1>4

(* A step that neither counts nor starts a timer nor touches the list. *)
LEMMA QuietOrder ==
  ASSUME TimerInv, TimerOrder, UNCHANGED <<heartbeat_ticks, in_tick, sort>>,
         \A x \in Timer : timer'[x].active => timer[x].active,
         \A x \in Timer : timer[x].active => timer'[x].deadline = timer[x].deadline
  PROVE  TimerOrder'
<1>1. sort \in Seq(Timer) /\ Range(sort) \subseteq Active
  BY DEF TimerInv, TimerTypes, RunningIffListed, Active
<1>2. \A x \in Range(sort) : Deadlines'[x] = Deadlines[x]
  BY <1>1 DEF Deadlines, Active
<1>3. Ascending(sort, Deadlines')
  BY <1>1, <1>2, AscendingAgrees DEF TimerOrder
<1>4. Awaited'
  BY DEF TimerOrder, Awaited
<1> QED BY <1>3, <1>4 DEF TimerOrder

(* A timer started: the list stays in order and the deadline is ahead. *)
LEMMA StartOrder ==
  ASSUME TimerInv, NoWrap, TimerOrder, NEW tm \in Timer, NEW time \in Timeslices, NEW list \in Seq(Timer),
         Ascending(list, Deadlines), Range(list) = Active \ {tm},
         timer'[tm].deadline = (heartbeat_ticks + time) % TickMod,
         \A x \in Timer \ {tm} : timer'[x] = timer[x],
         sort' = InsertSorted(list, tm, (heartbeat_ticks + time) % TickMod, Deadlines),
         UNCHANGED <<heartbeat_ticks, in_tick>>
  PROVE  TimerOrder'
<1> DEFINE key == (heartbeat_ticks + time) % TickMod
<1>1. /\ heartbeat_ticks \in Nat /\ heartbeat_ticks <= MaxTick /\ MaxTick \in Nat /\ TickMod \in Nat \ {0}
      /\ time \in Nat /\ 1 <= time /\ time <= HalfTurn - 1 /\ HalfTurn \in Int
  BY TimerNumbers DEF TimerOrder
<1>2. MaxTick + time < TickMod
  BY DEF NoWrap
<1>3. key = heartbeat_ticks + time
  BY <1>1, <1>2
<1>4. timer'[tm].deadline = key /\ sort' = InsertSorted(list, tm, key, Deadlines)
  OBVIOUS
<1> HIDE DEF key
<1>5. \A x \in Timer : Deadlines[x] \in Int
  BY TimerNumbers DEF Deadlines
<1>6. /\ Deadlines'[tm] = key /\ \A x \in Range(list) : Deadlines'[x] = Deadlines[x]
      /\ key \in Int
  BY <1>1, <1>3, <1>4 DEF Deadlines, Active
<1>7. Ascending(sort', Deadlines')
  BY <1>4, <1>5, <1>6, InsertSortedAscending
<1>8. Awaited'
  <2>1. ASSUME NEW x \in Timer, timer'[x].active
        PROVE  /\ heartbeat_ticks' <= timer'[x].deadline
               /\ ~in_tick' => heartbeat_ticks' < timer'[x].deadline
               /\ timer'[x].deadline <= heartbeat_ticks' + HalfTurn - 1
    <3>1. CASE x = tm
      <4>1. heartbeat_ticks' = heartbeat_ticks /\ timer'[x].deadline = heartbeat_ticks + time
        BY <1>3, <1>4, <3>1
      <4>2. /\ heartbeat_ticks < heartbeat_ticks + time
            /\ heartbeat_ticks + time <= heartbeat_ticks + HalfTurn - 1
            /\ heartbeat_ticks \in Int /\ heartbeat_ticks + time \in Int
        BY <1>1
      <4>3. heartbeat_ticks <= heartbeat_ticks + time
        BY <1>1
      <4> QED BY <4>1, <4>2, <4>3
    <3>2. CASE x # tm
      <4>1. timer'[x] = timer[x]
        BY <3>2
      <4> QED BY <2>1, <4>1 DEF TimerOrder, Awaited
    <3> QED BY <3>1, <3>2
  <2> QED BY <2>1 DEF Awaited
<1> QED BY <1>1, <1>7, <1>8 DEF TimerOrder

(* A timer taken off the list. *)
LEMMA StopOrder ==
  ASSUME TimerInv, TimerOrder, NEW tm \in Timer, ~timer'[tm].active,
         \A x \in Timer \ {tm} : timer'[x] = timer[x], sort' = RmNode(sort, tm),
         UNCHANGED <<heartbeat_ticks, in_tick>>
  PROVE  TimerOrder'
<1>1. sort \in Seq(Timer) /\ IsInjective(sort) /\ Range(sort) = Active
  BY DEF TimerInv, TimerTypes, RunningIffListed, Active
<1>2. sort' \in Seq(Timer) /\ Range(sort') = Active \ {tm}
  BY <1>1, RmNodeElements
<1>3. Ascending(sort', Deadlines)
  BY <1>1, RmNodeAscending DEF TimerOrder
<1>4. \A x \in Range(sort') : Deadlines'[x] = Deadlines[x]
  BY <1>2 DEF Deadlines, Active
<1>5. Ascending(sort', Deadlines')
  BY <1>2, <1>3, <1>4, AscendingAgrees
<1>6. Awaited'
  BY DEF TimerOrder, Awaited
<1> QED BY <1>5, <1>6 DEF TimerOrder

(* Of the timers that wait, those have run out whose deadline is the       *)
(* count.                                                                  *)
LEMMA ExpiredNow ==
  ASSUME TimerInv, Awaited, NEW tm \in Timer, timer[tm].active
  PROVE  Expired(tm) <=> timer[tm].deadline = heartbeat_ticks
<1> DEFINE d == timer[tm].deadline
           h == heartbeat_ticks
<1>1. /\ d \in Nat /\ h \in Nat /\ d < TickMod /\ TickMod \in Nat \ {0}
      /\ HalfTurn \in Int /\ 2 * HalfTurn <= TickMod - 1
  BY TimerNumbers
<1>2. h <= d /\ d <= h + HalfTurn - 1
  BY DEF Awaited
<1>3. Expired(tm) <=> (h - d) % TickMod < HalfTurn
  BY DEF Expired, HalfTurn
<1> HIDE DEF d, h
<1>4. h - d \in 1 - TickMod .. TickMod - 1
  BY <1>1, <1>2
<1>5. (h - d) % TickMod = IF h - d >= 0 THEN h - d ELSE h - d + TickMod
  BY <1>1, <1>4, ModDown
<1>6. Expired(tm) <=> d = h
  BY <1>1, <1>2, <1>3, <1>5
<1> QED BY <1>6 DEF d, h

Ordered == NoWrap /\ TimerOrder

(* Creating a timer, or setting one to another time. *)
LEMMA TimerSetStep ==
  ASSUME TimerInv, NEW tm \in Timer, NEW time \in Timeslices,
         (\E periodic \in BOOLEAN : KCreateTimer(tm, time, periodic)) \/ KTimerModify(tm, time)
  PROVE  TimerInv' /\ (Ordered => TimerOrder')
<1> DEFINE none == NoTimer
<1>1. timer[tm] \in TimerStruct /\ timer \in [Timer -> TimerStruct] /\ TickMod \in Nat \ {0}
  BY SoftTimerAssumption DEF TimerInv, TimerTypes
<1>2. PICK r \in TimerStruct :
         /\ timer' = [timer EXCEPT ![tm] = r] /\ r.origin = time
         /\ r.active => timer[tm].active
         /\ r.active => r.alive /\ r.deadline = timer[tm].deadline
         /\ timer[tm].active => r.active
  <2>1. CASE \E periodic \in BOOLEAN : KCreateTimer(tm, time, periodic)
    <3>1. PICK periodic \in BOOLEAN : KCreateTimer(tm, time, periodic)
      BY <2>1
    <3> DEFINE r == [NoTimer EXCEPT !.alive = TRUE, !.origin = time, !.periodic = periodic]
    <3>2. r \in TimerStruct /\ r.origin = time /\ r.active = FALSE
      <4> DEFINE yes == TRUE
      <4>1. none \in TimerStruct /\ none.active = FALSE
        BY <1>1 DEF NoTimer, TimerStruct
      <4>2. yes \in BOOLEAN /\ r = [none EXCEPT !.alive = yes, !.origin = time, !.periodic = periodic]
        OBVIOUS
      <4> HIDE DEF yes, none, r
      <4> QED BY <4>1, <4>2 DEF TimerStruct
    <3>3. timer' = [timer EXCEPT ![tm] = r] /\ ~timer[tm].alive
      BY <3>1 DEF KCreateTimer
    <3> HIDE DEF r
    <3>4. ~timer[tm].active
      BY <3>3 DEF TimerInv, RunningIffListed
    <3> QED BY <3>2, <3>3, <3>4
  <2>2. CASE KTimerModify(tm, time)
    <3> DEFINE r == [timer[tm] EXCEPT !.origin = time]
    <3>1. timer' = [timer EXCEPT ![tm] = r] /\ timer[tm].alive
      BY <2>2 DEF KTimerModify
    <3>2. /\ r \in TimerStruct /\ r.origin = time /\ r.active = timer[tm].active /\ r.alive = timer[tm].alive
          /\ r.deadline = timer[tm].deadline
      BY <1>1 DEF TimerStruct
    <3> HIDE DEF r
    <3> QED BY <3>1, <3>2
  <2> QED BY <2>1, <2>2
<1>3. UNCHANGED <<heartbeat_ticks, in_tick, sort, quitting, callbacks>>
  BY DEF KCreateTimer, KTimerModify
<1>4. /\ timer' \in [Timer -> TimerStruct] /\ SetTimers'
      /\ Active' = IF r.active THEN Active \cup {tm} ELSE Active \ {tm}
      /\ \A x \in Timer : timer'[x].active => timer'[x].alive
      /\ timer'[tm] = r /\ \A x \in Timer \ {tm} : timer'[x] = timer[x]
  BY <1>2, TimerSet
<1>5. Active' = Active
  <2>1. r.active <=> tm \in Active
    BY <1>2 DEF Active
  <2> QED BY <1>4, <2>1
<1>6. TimerInv'
  <2>1. TimerTypes'
    BY <1>3, <1>4 DEF TimerInv, TimerTypes
  <2>2. RunningIffListed'
    <3>1. IsInjective(sort) /\ Range(sort) = Active
      BY DEF TimerInv, RunningIffListed, Active
    <3>2. IsInjective(sort') /\ Range(sort') = Active'
      BY <1>3, <1>5, <3>1
    <3> QED BY <1>4, <3>2 DEF RunningIffListed, Active
  <2> QED BY <1>4, <2>1, <2>2 DEF TimerInv
<1>7. ASSUME Ordered PROVE TimerOrder'
  <2>1. ASSUME NEW x \in Timer, timer'[x].active PROVE timer[x].active
    BY <1>2, <1>4, <2>1
  <2>2. ASSUME NEW x \in Timer, timer[x].active PROVE timer'[x].deadline = timer[x].deadline
    BY <1>2, <1>4, <2>2
  <2> QED BY <1>3, <1>7, <2>1, <2>2, QuietOrder DEF Ordered
<1> QED BY <1>6, <1>7

(* Starting a timer. *)
LEMMA TimerStartStep ==
  ASSUME TimerInv, NEW tm \in Timer,
         KTimerStartRun(tm) \/ \E time \in Timeslices : KTimerAssignMemberRun(tm, time)
  PROVE  TimerInv' /\ (Ordered => TimerOrder')
<1>1. /\ timer[tm].alive /\ ~timer[tm].active
      /\ UNCHANGED <<heartbeat_ticks, in_tick, quitting, callbacks>>
  BY DEF KTimerStartRun, KTimerAssignMemberRun
<1>2. PICK time \in Timeslices : Start(tm, time, sort)
  BY <1>1 DEF KTimerStartRun, KTimerAssignMemberRun, TimerInv, SetTimers
<1>3. sort \in Seq(Timer) /\ IsInjective(sort) /\ Range(sort) = Active \ {tm}
  BY <1>1 DEF TimerInv, TimerTypes, RunningIffListed, Active
<1>4. /\ TimerInv'
      /\ timer'[tm].deadline = (heartbeat_ticks + time) % TickMod /\ timer'[tm].active
      /\ \A x \in Timer \ {tm} : timer'[x] = timer[x]
      /\ sort' = InsertSorted(sort, tm, (heartbeat_ticks + time) % TickMod,
                              [x \in Timer |-> timer[x].deadline])
  BY <1>1, <1>2, <1>3, StartKeeps
<1>5. ASSUME Ordered PROVE TimerOrder'
  <2>1. NoWrap /\ TimerOrder /\ Ascending(sort, Deadlines)
    BY <1>5 DEF Ordered, TimerOrder
  <2>2. sort' = InsertSorted(sort, tm, (heartbeat_ticks + time) % TickMod, Deadlines)
    BY <1>4 DEF Deadlines
  <2> QED BY <1>1, <1>3, <1>4, <2>1, <2>2, StartOrder
<1> QED BY <1>4, <1>5

(* Stopping a timer, or deleting it. *)
LEMMA TimerStopStep ==
  ASSUME TimerInv, NEW tm \in Timer, Stop(tm), quitting' \subseteq Timer,
         UNCHANGED <<heartbeat_ticks, in_tick, callbacks>>
  PROVE  TimerInv' /\ (Ordered => TimerOrder')
<1> DEFINE no  == FALSE
           nil == 0
           r   == [timer[tm] EXCEPT !.active = no, !.deadline = nil]
<1>1. timer[tm] \in TimerStruct /\ timer \in [Timer -> TimerStruct] /\ TickMod \in Nat \ {0}
  BY SoftTimerAssumption DEF TimerInv, TimerTypes
<1>2. timer' = [timer EXCEPT ![tm] = r] /\ sort' = RmNode(sort, tm)
  BY <1>1 DEF Stop
<1>n. no = FALSE /\ no \in BOOLEAN /\ nil \in 0 .. TickMod - 1
  BY <1>1
<1> HIDE DEF no, nil
<1>3. r \in TimerStruct /\ r.active = FALSE /\ r.alive = timer[tm].alive /\ r.origin = timer[tm].origin
  BY <1>1, <1>n DEF TimerStruct
<1> HIDE DEF r
<1>4. ~r.active /\ (r.alive => r.origin \in Timeslices)
  BY <1>3 DEF TimerInv, SetTimers
<1>5. TimerInv' /\ ~timer'[tm].active /\ \A x \in Timer \ {tm} : timer'[x] = timer[x]
  BY <1>2, <1>3, <1>4, StopKeeps
<1>6. ASSUME Ordered PROVE TimerOrder'
  BY <1>2, <1>5, <1>6, StopOrder DEF Ordered
<1> QED BY <1>5, <1>6

LEMMA TimerDeleteStep ==
  ASSUME TimerInv, NEW tm \in Timer, KDeleteTimer(tm)
  PROVE  TimerInv' /\ (Ordered => TimerOrder')
<1> DEFINE r == NoTimer
<1>1. TickMod \in Nat \ {0} /\ quitting \subseteq Timer
  BY SoftTimerAssumption DEF TimerInv, TimerTypes
<1>2. r \in TimerStruct /\ r.active = FALSE /\ r.alive = FALSE
  BY <1>1 DEF NoTimer, TimerStruct
<1>3. /\ timer' = [timer EXCEPT ![tm] = r] /\ sort' = RmNode(sort, tm)
      /\ UNCHANGED <<heartbeat_ticks, in_tick, callbacks>> /\ quitting' \subseteq Timer
  BY <1>1 DEF KDeleteTimer
<1> HIDE DEF r
<1>4. ~r.active /\ (r.alive => r.origin \in Timeslices)
  BY <1>2
<1>5. TimerInv' /\ ~timer'[tm].active /\ \A x \in Timer \ {tm} : timer'[x] = timer[x]
  BY <1>2, <1>3, <1>4, StopKeeps
<1>6. ASSUME Ordered PROVE TimerOrder'
  BY <1>3, <1>5, <1>6, StopOrder DEF Ordered
<1> QED BY <1>5, <1>6

(* Steps that leave the counter, the timers and the list alone. *)
LEMMA TimerQuietStep ==
  ASSUME TimerInv, UNCHANGED <<heartbeat_ticks, in_tick, timer, sort>>,
         quitting' \subseteq Timer, callbacks' \in [Timer -> Nat]
  PROVE  TimerInv' /\ (Ordered => TimerOrder')
<1>1. TimerInv'
  BY DEF TimerInv, TimerTypes, SetTimers, RunningIffListed
<1>2. ASSUME Ordered PROVE TimerOrder'
  BY <1>2, QuietOrder DEF Ordered
<1> QED BY <1>1, <1>2

(* The tick interrupt counts, ... *)
LEMMA TickStep ==
  ASSUME TimerInv, Tick
  PROVE  TimerInv' /\ (Ordered => TimerOrder')
<1>1. /\ ~in_tick /\ heartbeat_ticks < MaxTick
      /\ heartbeat_ticks' = (heartbeat_ticks + 1) % TickMod /\ in_tick' = TRUE
      /\ UNCHANGED <<timer, sort, quitting, callbacks>>
  BY DEF Tick
<1>2. /\ TickMod \in Nat \ {0} /\ MaxTick \in Nat /\ HalfTurn \in Int
      /\ heartbeat_ticks \in Nat /\ heartbeat_ticks < TickMod
      /\ \A tm \in Timer : timer[tm].deadline \in Nat /\ timer[tm].deadline < TickMod
  BY TimerNumbers
<1>3. heartbeat_ticks + 1 \in 0 .. 2 * TickMod - 1
  BY <1>2
<1>4. heartbeat_ticks' = IF heartbeat_ticks + 1 < TickMod THEN heartbeat_ticks + 1 ELSE heartbeat_ticks + 1 - TickMod
  <2> DEFINE up == heartbeat_ticks + 1
  <2>1. up \in 0 .. 2 * TickMod - 1 /\ heartbeat_ticks' = up % TickMod
    BY <1>1, <1>3
  <2> HIDE DEF up
  <2>2. heartbeat_ticks' = IF up < TickMod THEN up ELSE up - TickMod
    <3>1. up % TickMod = IF up < TickMod THEN up ELSE up - TickMod
      BY <1>2, <2>1, ModUp
    <3> QED BY <2>1, <3>1
  <2> QED BY <1>2, <2>2 DEF up
<1>5. heartbeat_ticks' \in 0 .. TickMod - 1 /\ heartbeat_ticks' <= MaxTick
  BY <1>1, <1>2, <1>4
<1>6. TimerInv'
  BY <1>1, <1>5 DEF TimerInv, TimerTypes, SetTimers, RunningIffListed
<1>7. ASSUME Ordered PROVE TimerOrder'
  <2>1. Ascending(sort', Deadlines')
    BY <1>1, <1>7 DEF Ordered, TimerOrder, Deadlines
  <2>2. ASSUME NEW x \in Timer, timer'[x].active
        PROVE  /\ heartbeat_ticks' <= timer'[x].deadline
               /\ ~in_tick' => heartbeat_ticks' < timer'[x].deadline
               /\ timer'[x].deadline <= heartbeat_ticks' + HalfTurn - 1
    <3> DEFINE d == timer[x].deadline
               h == heartbeat_ticks
    <3>1. h < d /\ d <= h + HalfTurn - 1
      BY <1>1, <1>7, <2>2 DEF Ordered, TimerOrder, Awaited
    <3>2. d \in Nat /\ d < TickMod /\ h \in Nat /\ timer'[x].deadline = d
      BY <1>1, <1>2
    <3>3. heartbeat_ticks' = IF h + 1 < TickMod THEN h + 1 ELSE h + 1 - TickMod
      BY <1>4
    <3> HIDE DEF d, h
    <3>4. heartbeat_ticks' = h + 1
      BY <1>2, <3>1, <3>2, <3>3
    <3> QED BY <1>1, <1>2, <3>1, <3>2, <3>4
  <2>3. Awaited'
    BY <2>2 DEF Awaited
  <2> QED BY <1>5, <2>1, <2>3 DEF TimerOrder
<1> QED BY <1>6, <1>7

(* ... CheckTimerList stops or starts the timer at the head, ... *)
LEMMA CheckStep ==
  ASSUME TimerInv, CheckTimerList
  PROVE  TimerInv' /\ (Ordered => TimerOrder')
<1> DEFINE tm == Head(sort)
<1>1. /\ sort # <<>> /\ timer[tm].active
      /\ IF timer[tm].periodic THEN Start(tm, timer[tm].origin, Tail(sort)) ELSE Stop(tm)
      /\ UNCHANGED <<heartbeat_ticks, in_tick, quitting, callbacks>>
  BY DEF CheckTimerList, HeadExpired
<1>2. sort \in Seq(Timer) /\ IsInjective(sort) /\ Range(sort) = Active /\ quitting \subseteq Timer
  BY DEF TimerInv, TimerTypes, RunningIffListed, Active
<1>3. /\ tm \in Active /\ Tail(sort) \in Seq(Timer) /\ IsInjective(Tail(sort))
      /\ Range(Tail(sort)) = Active \ {tm}
  BY <1>1, <1>2, TailElements
<1> HIDE DEF tm
<1>4. tm \in Timer /\ timer[tm].alive /\ timer[tm].origin \in Timeslices
  <2>1. tm \in Timer
    BY <1>3 DEF Active
  <2> QED BY <1>1, <2>1 DEF TimerInv, RunningIffListed, SetTimers
<1>5. CASE ~timer[tm].periodic
  BY <1>1, <1>2, <1>4, <1>5, TimerStopStep
<1>6. CASE timer[tm].periodic
  <2> DEFINE time == timer[tm].origin
             list == Tail(sort)
  <2>1. Start(tm, time, list) /\ time \in Timeslices /\ list \in Seq(Timer) /\ IsInjective(list)
    BY <1>1, <1>3, <1>4, <1>6
  <2>2. Range(list) = Active \ {tm}
    BY <1>3
  <2>3. NoWrap /\ TimerOrder => Ascending(list, Deadlines)
    <3>1. \A x \in Timer : Deadlines[x] \in Int
      BY TimerNumbers DEF Deadlines
    <3> QED BY <1>1, <1>2, <3>1, TailAscending DEF TimerOrder
  <2> HIDE DEF time, list
  <2>4. /\ TimerInv'
        /\ timer'[tm].deadline = (heartbeat_ticks + time) % TickMod /\ timer'[tm].active
        /\ \A x \in Timer \ {tm} : timer'[x] = timer[x]
        /\ sort' = InsertSorted(list, tm, (heartbeat_ticks + time) % TickMod,
                                [x \in Timer |-> timer[x].deadline])
    BY <1>1, <1>4, <2>1, <2>2, StartKeeps
  <2>5. ASSUME Ordered PROVE TimerOrder'
    <3>1. NoWrap /\ TimerOrder /\ Ascending(list, Deadlines)
      BY <2>3, <2>5 DEF Ordered
    <3>2. sort' = InsertSorted(list, tm, (heartbeat_ticks + time) % TickMod, Deadlines)
      BY <2>4 DEF Deadlines
    <3> QED BY <1>1, <1>4, <2>1, <2>2, <2>4, <3>1, <3>2, StartOrder
  <2> QED BY <2>4, <2>5
<1> QED BY <1>5, <1>6

(* ... and the interrupt ends when the head has not run out, and so no     *)
(* timer has.                                                              *)
LEMMA TickEndStep ==
  ASSUME TimerInv, TickEnd
  PROVE  TimerInv' /\ (Ordered => TimerOrder')
<1>1. /\ ~HeadExpired /\ in_tick' = FALSE /\ UNCHANGED <<heartbeat_ticks, timer, sort, quitting, callbacks>>
  BY DEF TickEnd
<1>2. TimerInv'
  BY <1>1 DEF TimerInv, TimerTypes, SetTimers, RunningIffListed
<1>3. ASSUME Ordered PROVE TimerOrder'
  <2>1. sort \in Seq(Timer) /\ IsInjective(sort) /\ Range(sort) = Active
    BY DEF TimerInv, TimerTypes, RunningIffListed, Active
  <2>2. ASSUME NEW x \in Timer, timer[x].active PROVE heartbeat_ticks < timer[x].deadline
    <3>1. x \in Range(sort)
      BY <2>1, <2>2 DEF Active
    <3>2. sort # <<>>
      BY <3>1, EmptyElements
    <3>3. \A y \in Timer : Deadlines[y] \in Int
      BY TimerNumbers DEF Deadlines
    <3>4. Deadlines[Head(sort)] <= Deadlines[x]
      BY <1>3, <2>1, <3>1, <3>2, <3>3, TailAscending DEF Ordered, TimerOrder
    <3> DEFINE tm == Head(sort)
    <3>5. tm \in Active
      BY <2>1, <3>2, TailElements
    <3>6. ~Expired(tm)
      BY <1>1, <3>2 DEF HeadExpired
    <3>7. timer[tm].deadline <= timer[x].deadline
      BY <3>4, <3>5 DEF Deadlines, Active
    <3> HIDE DEF tm
    <3>8. tm \in Timer /\ timer[tm].active /\ Awaited
      BY <1>3, <3>5 DEF Active, Ordered, TimerOrder
    <3>9. timer[tm].deadline # heartbeat_ticks
      BY <3>6, <3>8, ExpiredNow
    <3>10. heartbeat_ticks <= timer[tm].deadline
      BY <3>8 DEF Awaited
    <3> QED BY <2>2, <3>7, <3>8, <3>9, <3>10, TimerNumbers
  <2>3. Ascending(sort', Deadlines')
    BY <1>1, <1>3 DEF Ordered, TimerOrder, Deadlines
  <2>4. Awaited'
    BY <1>1, <1>3, <2>2 DEF Ordered, TimerOrder, Awaited
  <2> QED BY <1>1, <1>3, <2>3, <2>4 DEF Ordered, TimerOrder
<1> QED BY <1>2, <1>3

LEMMA TimerNextInv ==
  ASSUME TimerInv, [TimerNext]_<<timerVars, workVars>>
  PROVE  TimerInv' /\ (Ordered => TimerOrder')
<1>1. quitting \subseteq Timer /\ callbacks \in [Timer -> Nat]
  BY DEF TimerInv, TimerTypes
<1>2. ASSUME NEW tm \in Timer, NEW time \in Timeslices,
             \/ \E periodic \in BOOLEAN : KCreateTimer(tm, time, periodic)
             \/ KTimerAssignMemberRun(tm, time) \/ KTimerModify(tm, time)
      PROVE  TimerInv' /\ (Ordered => TimerOrder')
  BY <1>2, TimerSetStep, TimerStartStep
<1>3. ASSUME NEW tm \in Timer,
             \/ KTimerStartRun(tm) \/ QuitRunTest(tm) \/ QuitRun(tm)
             \/ KDeleteTimer(tm) \/ TimerCBEnter(tm)
      PROVE  TimerInv' /\ (Ordered => TimerOrder')
  <2>1. CASE KTimerStartRun(tm)
    BY <2>1, TimerStartStep
  <2>2. CASE QuitRunTest(tm)
    <3>1. /\ UNCHANGED <<heartbeat_ticks, in_tick, timer, sort>>
          /\ quitting' \subseteq Timer /\ callbacks' \in [Timer -> Nat]
      BY <1>1, <2>2 DEF QuitRunTest
    <3> QED BY <3>1, TimerQuietStep
  <2>3. CASE QuitRun(tm)
    <3>1. Stop(tm) /\ quitting' \subseteq Timer /\ UNCHANGED <<heartbeat_ticks, in_tick, callbacks>>
      BY <1>1, <2>3 DEF QuitRun
    <3> QED BY <3>1, TimerStopStep
  <2>4. CASE KDeleteTimer(tm)
    BY <2>4, TimerDeleteStep
  <2>5. CASE TimerCBEnter(tm)
    <3>1. /\ UNCHANGED <<heartbeat_ticks, in_tick, timer, sort>>
          /\ quitting' \subseteq Timer /\ callbacks' \in [Timer -> Nat]
      BY <1>1, <2>5 DEF TimerCBEnter
    <3> QED BY <3>1, TimerQuietStep
  <2> QED BY <1>3, <2>1, <2>2, <2>3, <2>4, <2>5
<1>4. CASE Tick \/ CheckTimerList \/ TickEnd
  BY <1>4, TickStep, CheckStep, TickEndStep
<1>5. CASE (\E w \in Work \ Timer : WorkSubmit(w)) \/ WorkerStep \/ UNCHANGED <<timerVars, workVars>>
  <2>1. UNCHANGED timerVars
    BY <1>5 DEF WorkSubmit, WorkerStep
  <2>2. /\ UNCHANGED <<heartbeat_ticks, in_tick, timer, sort>>
        /\ quitting' \subseteq Timer /\ callbacks' \in [Timer -> Nat]
    BY <1>1, <2>1 DEF timerVars
  <2> QED BY <2>2, TimerQuietStep
<1>6. CASE TimerWork
  <2>1. /\ UNCHANGED <<heartbeat_ticks, in_tick, timer, sort>>
        /\ quitting' \subseteq Timer /\ callbacks' \in [Timer -> Nat]
    BY <1>1, <1>6 DEF TimerWork
  <2> QED BY <2>1, TimerQuietStep
<1> QED BY <1>2, <1>3, <1>4, <1>5, <1>6 DEF TimerNext

LEMMA TimerInitInv == TimerInit => TimerInv /\ TimerOrder
<1> SUFFICES ASSUME TimerInit PROVE TimerInv /\ TimerOrder
  OBVIOUS
<1> DEFINE none  == NoTimer
           empty == <<>>
<1>1. TickMod \in Nat \ {0} /\ MaxTick \in Nat
  BY SoftTimerAssumption
<1>2. none \in TimerStruct /\ none.active = FALSE /\ none.alive = FALSE
  BY <1>1 DEF NoTimer, TimerStruct
<1>3. empty \in Seq(Timer) /\ Len(empty) = 0 /\ Range(empty) = {} /\ IsInjective(empty)
  BY EmptyElements
<1>4. /\ heartbeat_ticks = 0 /\ in_tick = FALSE /\ timer = [tm \in Timer |-> none] /\ sort = empty
      /\ quitting = {} /\ callbacks = [tm \in Timer |-> 0]
  BY DEF TimerInit
<1> HIDE DEF none, empty
<1>5. TimerTypes
  <2>1. heartbeat_ticks \in 0 .. TickMod - 1 /\ callbacks \in [Timer -> Nat]
    BY <1>1, <1>4
  <2>2. in_tick \in BOOLEAN
    BY <1>4
  <2>3. timer \in [Timer -> TimerStruct] /\ sort \in Seq(Timer) /\ quitting \subseteq Timer
    BY <1>2, <1>3, <1>4
  <2> QED BY <2>1, <2>2, <2>3 DEF TimerTypes
<1>6. SetTimers
  BY <1>2, <1>4 DEF SetTimers
<1>7. RunningIffListed
  BY <1>2, <1>3, <1>4 DEF RunningIffListed
<1>8. TimerOrder
  <2>1. Ascending(sort, Deadlines)
    BY <1>3, <1>4 DEF Ascending
  <2>2. Awaited
    BY <1>2, <1>4 DEF Awaited
  <2> QED BY <1>1, <1>4, <2>1, <2>2 DEF TimerOrder
<1> QED BY <1>5, <1>6, <1>7, <1>8 DEF TimerInv

-----------------------------------------------------------------------------
(* Circular areas. *)

(* The conditions under which the area keeps what was written: nobody      *)
(* forces a write, and the length fits the 8 bits of the indices.          *)
AreaDisciplined == Forces \subseteq {FALSE} /\ AreaLen <= IdxMod

Places     == 0 .. AreaLen - 1
Wrapped(x) == IF x < AreaLen THEN x ELSE x - AreaLen

(* The length and the contents of an area by its indices and its flag. *)
AreaCount(r, w, b) == IF r = w /\ b THEN AreaLen ELSE (w - r + AreaLen) % AreaLen
AreaSeq(r, n, buf) == [i \in 1 .. n |-> buf[(r + i - 1) % AreaLen]]

AreaInv ==
  /\ readidx \in Places /\ writeidx \in Places /\ b_status \in BOOLEAN
  /\ data_buffer \in [Places -> Byte] /\ stored \in Seq(Byte)
  /\ AreaFifo

LEMMA AreaWrap ==
  ASSUME NEW x \in 0 .. 2 * AreaLen - 1
  PROVE  x % AreaLen = Wrapped(x) /\ Wrapped(x) \in Places
<1>1. AreaLen \in Nat \ {0}
  BY CircularAreaAssumption
<1>2. x % AreaLen = IF x < AreaLen THEN x ELSE x - AreaLen
  BY <1>1, ModUp
<1> QED BY <1>1, <1>2 DEF Wrapped, Places

LEMMA AreaAdvance ==
  ASSUME AreaDisciplined, NEW r \in Places, NEW n \in 0 .. AreaLen
  PROVE  Advance(r, n) = Wrapped(r + n) /\ Wrapped(r + n) \in Places
<1>1. AreaLen \in Nat \ {0} /\ IdxMod \in Nat \ {0} /\ AreaLen <= IdxMod
  BY CircularAreaAssumption DEF AreaDisciplined
<1> DEFINE x == r + n
<1>2. x \in 0 .. 2 * AreaLen - 1
  BY <1>1 DEF Places
<1>3. Advance(r, n) = (x % AreaLen) % IdxMod
  BY DEF Advance
<1> HIDE DEF x
<1>4. x % AreaLen = Wrapped(x) /\ Wrapped(x) \in Places
  BY <1>2, AreaWrap
<1> DEFINE y == Wrapped(x)
<1>5. y \in 0 .. IdxMod - 1
  BY <1>1, <1>4 DEF Places
<1> HIDE DEF y
<1>6. y % IdxMod = y
  BY <1>1, <1>5
<1> QED BY <1>3, <1>4, <1>6 DEF x, y

(* The length by the indices, and the index by the length. *)
LEMMA AreaCountIs ==
  ASSUME NEW r \in Places, NEW w \in Places, NEW b \in BOOLEAN
  PROVE  /\ AreaCount(r, w, b) \in 0 .. AreaLen
         /\ AreaCount(r, w, b) = AreaLen <=> r = w /\ b
         /\ AreaCount(r, w, b) = 0 <=> r = w /\ ~b
         /\ w = Wrapped(r + AreaCount(r, w, b))
<1>1. AreaLen \in Nat \ {0} /\ r \in 0 .. AreaLen - 1 /\ w \in 0 .. AreaLen - 1
  BY CircularAreaAssumption DEF Places
<1> DEFINE x == w - r + AreaLen
<1>2. x \in 0 .. 2 * AreaLen - 1
  BY <1>1
<1> HIDE DEF x
<1>3. x % AreaLen = Wrapped(x)
  BY <1>2, AreaWrap
<1>4. AreaCount(r, w, b) = IF r = w /\ b THEN AreaLen ELSE Wrapped(x)
  BY <1>3 DEF AreaCount, x
<1>5. Wrapped(x) = IF w < r THEN w - r + AreaLen ELSE w - r
  BY <1>1 DEF Wrapped, x
<1>6. CASE r = w /\ b
  BY <1>1, <1>4, <1>6 DEF Wrapped
<1>7. CASE ~(r = w /\ b)
  <2>1. AreaCount(r, w, b) = IF w < r THEN w - r + AreaLen ELSE w - r
    BY <1>4, <1>5, <1>7
  <2>2. CASE w < r
    BY <1>1, <1>7, <2>1, <2>2 DEF Wrapped
  <2>3. CASE w >= r
    BY <1>1, <1>7, <2>1, <2>3 DEF Wrapped
  <2> QED BY <1>1, <2>2, <2>3
<1> QED BY <1>6, <1>7

(* The length an area has when its index is where that length puts it. *)
LEMMA AreaCountOf ==
  ASSUME NEW r \in Places, NEW n \in 0 .. AreaLen, NEW b \in BOOLEAN,
         n = AreaLen => b, n = 0 => ~b
  PROVE  AreaCount(r, Wrapped(r + n), b) = n
<1>1. AreaLen \in Nat \ {0} /\ r \in 0 .. AreaLen - 1
  BY CircularAreaAssumption DEF Places
<1> DEFINE w == Wrapped(r + n)
           m == AreaCount(r, w, b)
<1>2. w = IF r + n < AreaLen THEN r + n ELSE r + n - AreaLen
  BY <1>1 DEF Wrapped
<1>3. w \in Places
  BY <1>1, <1>2 DEF Places
<1> HIDE DEF w
<1>4. /\ m \in 0 .. AreaLen /\ (m = AreaLen <=> r = w /\ b) /\ (m = 0 <=> r = w /\ ~b)
      /\ w = Wrapped(r + m)
  BY <1>3, AreaCountIs
<1> HIDE DEF m
<1>5. w = IF r + m < AreaLen THEN r + m ELSE r + m - AreaLen
  BY <1>1, <1>4 DEF Wrapped
<1>6. m = n \/ (m = 0 /\ n = AreaLen) \/ (m = AreaLen /\ n = 0)
  BY <1>1, <1>2, <1>4, <1>5
<1>7. m = n
  BY <1>1, <1>4, <1>6
<1> QED BY <1>7 DEF m, w

(* The places of an area and what is there. *)
LEMMA AreaSeqElements ==
  ASSUME NEW r \in Places, NEW n \in 0 .. AreaLen, NEW buf \in [Places -> Byte]
  PROVE  /\ AreaSeq(r, n, buf) \in Seq(Byte) /\ Len(AreaSeq(r, n, buf)) = n
         /\ \A i \in 1 .. n : /\ AreaSeq(r, n, buf)[i] = buf[Wrapped(r + i - 1)]
                              /\ Wrapped(r + i - 1) \in Places
<1>1. AreaLen \in Nat \ {0} /\ r \in 0 .. AreaLen - 1
  BY CircularAreaAssumption DEF Places
<1>2. ASSUME NEW i \in 1 .. n
      PROVE  (r + i - 1) % AreaLen = Wrapped(r + i - 1) /\ Wrapped(r + i - 1) \in Places
  <2> DEFINE x == r + i - 1
  <2>1. x \in 0 .. 2 * AreaLen - 1
    BY <1>1
  <2> HIDE DEF x
  <2>2. x % AreaLen = Wrapped(x) /\ Wrapped(x) \in Places
    BY <2>1, AreaWrap
  <2> QED BY <2>2 DEF x
<1> DEFINE pl(i) == (r + i - 1) % AreaLen
<1>3. \A i \in 1 .. n : pl(i) = Wrapped(r + i - 1) /\ pl(i) \in Places
  BY <1>2
<1>4. AreaSeq(r, n, buf) = [i \in 1 .. n |-> buf[pl(i)]]
  BY DEF AreaSeq
<1> HIDE DEF pl
<1>5. AreaSeq(r, n, buf) \in Seq(Byte) /\ Len(AreaSeq(r, n, buf)) = n
  BY <1>3, <1>4
<1>6. \A i \in 1 .. n : AreaSeq(r, n, buf)[i] = buf[pl(i)]
  BY <1>4
<1> QED BY <1>3, <1>5, <1>6

(* Reading n bytes leaves the others. *)
LEMMA AreaReads ==
  ASSUME NEW r \in Places, NEW m \in 0 .. AreaLen, NEW n \in 0 .. m, NEW buf \in [Places -> Byte]
  PROVE  AreaSeq(Wrapped(r + n), m - n, buf) = SubSeq(AreaSeq(r, m, buf), n + 1, m)
<1>1. AreaLen \in Nat \ {0} /\ r \in 0 .. AreaLen - 1
  BY CircularAreaAssumption DEF Places
<1> DEFINE q == Wrapped(r + n)
           s == AreaSeq(r, m, buf)
           w == AreaSeq(q, m - n, buf)
           v == SubSeq(s, n + 1, m)
<1>2. q = (IF r + n < AreaLen THEN r + n ELSE r + n - AreaLen) /\ q \in Places /\ m - n \in 0 .. AreaLen
  BY <1>1 DEF Wrapped, Places
<1> HIDE DEF q
<1>3. s \in Seq(Byte) /\ Len(s) = m /\ \A i \in 1 .. m : s[i] = buf[Wrapped(r + i - 1)]
  BY AreaSeqElements
<1>4. w \in Seq(Byte) /\ Len(w) = m - n /\ \A i \in 1 .. m - n : w[i] = buf[Wrapped(q + i - 1)]
  BY <1>2, AreaSeqElements
<1> HIDE DEF s, w
<1>5. v \in Seq(Byte) /\ Len(v) = m - n /\ \A i \in 1 .. m - n : v[i] = s[n + i]
  <2>1. m \in Nat /\ n \in Nat /\ n <= m
    BY <1>1
  <2>2. v \in Seq(Byte)
    BY <1>3, <2>1
  <2>3. Len(v) = m - n
    BY <1>3, <2>1
  <2>4. ASSUME NEW i \in 1 .. m - n PROVE v[i] = s[n + i]
    <3>1. (n + 1) + i - 1 = n + i
      BY <2>1
    <3>2. v[i] = s[(n + 1) + i - 1]
      BY <1>3, <2>1
    <3> QED BY <3>1, <3>2
  <2> QED BY <2>2, <2>3, <2>4
<1> HIDE DEF v
<1>6. ASSUME NEW i \in 1 .. m - n PROVE w[i] = v[i]
  <2>1. n + i \in 1 .. m /\ Wrapped(q + i - 1) = Wrapped(r + (n + i) - 1)
    BY <1>1, <1>2 DEF Wrapped
  <2>2. v[i] = s[n + i] /\ s[n + i] = buf[Wrapped(r + (n + i) - 1)]
    BY <1>3, <1>5, <2>1
  <2> QED BY <1>4, <2>1, <2>2
<1>7. w = v
  BY <1>4, <1>5, <1>6
<1> QED BY <1>7 DEF w, v, s, q

(* Writing n bytes behind the others, where there is room, adds them. *)
Written(buf, w, n, input) ==
  [i \in Places |-> LET k == (i - w) % AreaLen IN IF k < n THEN input[k + 1] ELSE buf[i]]

LEMMA AreaWrites ==
  ASSUME NEW r \in Places, NEW m \in 0 .. AreaLen, NEW n \in 0 .. AreaLen - m, NEW buf \in [Places -> Byte],
         NEW input \in Seq(Byte), n <= Len(input)
  PROVE  /\ Written(buf, Wrapped(r + m), n, input) \in [Places -> Byte]
         /\ AreaSeq(r, m + n, Written(buf, Wrapped(r + m), n, input)) =
               AreaSeq(r, m, buf) \o SubSeq(input, 1, n)
<1>1. AreaLen \in Nat \ {0} /\ r \in 0 .. AreaLen - 1 /\ Places = 0 .. AreaLen - 1
  BY CircularAreaAssumption DEF Places
<1> DEFINE w     == Wrapped(r + m)
           b     == Written(buf, w, n, input)
           gap(x) == IF x >= w THEN x - w ELSE x - w + AreaLen
<1>2. w = (IF r + m < AreaLen THEN r + m ELSE r + m - AreaLen) /\ w \in Places
  BY <1>1 DEF Wrapped
<1> HIDE DEF w
<1>3. ASSUME NEW x \in Places PROVE (x - w) % AreaLen = gap(x) /\ gap(x) \in 0 .. AreaLen - 1
  <2> DEFINE y == x - w
  <2>1. y \in 1 - AreaLen .. AreaLen - 1
    BY <1>1, <1>2
  <2> HIDE DEF y
  <2>2. y % AreaLen = IF y >= 0 THEN y ELSE y + AreaLen
    BY <1>1, <2>1, ModDown
  <2>3. (x - w) % AreaLen = IF x - w >= 0 THEN x - w ELSE x - w + AreaLen
    BY <2>2 DEF y
  <2> QED BY <1>1, <1>2, <2>3
<1>4. b = [x \in Places |-> IF gap(x) < n THEN input[gap(x) + 1] ELSE buf[x]]
  <2> HIDE DEF gap
  <2> QED BY <1>3 DEF Written
<1>5. Len(input) \in Nat /\ \A j \in 1 .. Len(input) : input[j] \in Byte
  OBVIOUS
<1>6. b \in [Places -> Byte]
  <2>1. ASSUME NEW x \in Places PROVE (IF gap(x) < n THEN input[gap(x) + 1] ELSE buf[x]) \in Byte
    <3>1. gap(x) \in 0 .. AreaLen - 1
      BY <1>3
    <3> HIDE DEF gap
    <3>2. CASE gap(x) < n
      <4>1. gap(x) + 1 \in 1 .. Len(input)
        BY <1>1, <1>5, <3>1, <3>2
      <4> QED BY <1>5, <3>2, <4>1
    <3>3. CASE ~(gap(x) < n)
      BY <3>3
    <3> QED BY <3>2, <3>3
  <2> HIDE DEF gap, b
  <2> QED BY <1>4, <2>1
<1> DEFINE s == AreaSeq(r, m, buf)
           t == AreaSeq(r, m + n, b)
           u == SubSeq(input, 1, n)
           v == s \o u
<1> HIDE DEF b
<1>7. s \in Seq(Byte) /\ Len(s) = m /\ \A i \in 1 .. m : s[i] = buf[Wrapped(r + i - 1)]
  BY AreaSeqElements
<1>8. /\ t \in Seq(Byte) /\ Len(t) = m + n
      /\ \A i \in 1 .. m + n : t[i] = b[Wrapped(r + i - 1)] /\ Wrapped(r + i - 1) \in Places
  <2>1. m + n \in 0 .. AreaLen
    BY <1>1
  <2> QED BY <1>6, <2>1, AreaSeqElements
<1> HIDE DEF s, t
<1>9. u \in Seq(Byte) /\ Len(u) = n /\ \A i \in 1 .. n : u[i] = input[i]
  BY <1>1, <1>5
<1> HIDE DEF u
<1>10. v \in Seq(Byte) /\ Len(v) = m + n /\ \A i \in 1 .. m + n : v[i] = IF i <= m THEN s[i] ELSE u[i - m]
  <2>1. s \in Seq(Byte) /\ u \in Seq(Byte) /\ Len(s) = m /\ Len(u) = n /\ m \in Nat /\ n \in Nat
    BY <1>1, <1>7, <1>9
  <2>2. /\ v \in Seq(Byte) /\ Len(v) = Len(s) + Len(u)
        /\ \A i \in 1 .. Len(s) + Len(u) : v[i] = IF i <= Len(s) THEN s[i] ELSE u[i - Len(s)]
    BY <2>1, SMTT(20)
  <2> QED BY <2>1, <2>2
<1> HIDE DEF v
<1>11. ASSUME NEW i \in 1 .. m + n PROVE t[i] = v[i]
  <2> DEFINE x == Wrapped(r + i - 1)
  <2>1. x = (IF r + i - 1 < AreaLen THEN r + i - 1 ELSE r + i - 1 - AreaLen) /\ x \in Places
    BY <1>1, <1>8 DEF Wrapped
  <2>2. t[i] = b[x]
    BY <1>8
  <2>3. s[i] = buf[x] \/ i > m
    BY <1>7
  <2> HIDE DEF x
  <2>4. CASE i <= m
    <3>1. gap(x) >= n
      BY <1>1, <1>2, <2>1, <2>4
    <3>2. gap(x) \in Int
      BY <1>3, <2>1
    <3> HIDE DEF gap
    <3>3. b[x] = buf[x]
      BY <1>1, <1>4, <2>1, <3>1, <3>2
    <3> QED BY <1>1, <1>10, <2>2, <2>3, <2>4, <3>3
  <2>5. CASE i > m
    <3>1. gap(x) = i - m - 1
      BY <1>1, <1>2, <2>1, <2>5
    <3> HIDE DEF gap
    <3>2. i - m \in 1 .. n /\ i - m - 1 < n /\ i - m - 1 + 1 = i - m
      BY <1>1, <2>5
    <3>3. b[x] = input[i - m]
      BY <1>4, <2>1, <3>1, <3>2
    <3>4. v[i] = u[i - m] /\ u[i - m] = input[i - m]
      BY <1>1, <1>9, <1>10, <2>5, <3>2
    <3> QED BY <2>2, <3>3, <3>4
  <2> QED BY <1>1, <2>4, <2>5
<1>12. t = v
  BY <1>8, <1>10, <1>11
<1> QED BY <1>6, <1>12 DEF t, v, s, u, b, w

(* The facts every step starts from. *)
LEMMA AreaFacts ==
  ASSUME AreaInv
  PROVE  /\ AreaLen \in Nat \ {0} /\ Places = 0 .. AreaLen - 1
         /\ readidx \in Places /\ writeidx \in Places /\ b_status \in BOOLEAN
         /\ data_buffer \in [Places -> Byte] /\ stored \in Seq(Byte)
         /\ CircularAreaGetDataLength = AreaCount(readidx, writeidx, b_status)
         /\ CircularAreaGetDataLength \in 0 .. AreaLen
         /\ CircularAreaGetDataLength = AreaLen <=> CircularAreaIsFull
         /\ CircularAreaGetDataLength = 0 <=> CircularAreaIsEmpty
         /\ writeidx = Wrapped(readidx + CircularAreaGetDataLength)
         /\ stored = AreaSeq(readidx, CircularAreaGetDataLength, data_buffer)
         /\ Len(stored) = CircularAreaGetDataLength
<1> DEFINE n == CircularAreaGetDataLength
<1>1. /\ AreaLen \in Nat \ {0} /\ Places = 0 .. AreaLen - 1
      /\ readidx \in Places /\ writeidx \in Places /\ b_status \in BOOLEAN
      /\ data_buffer \in [Places -> Byte] /\ stored \in Seq(Byte)
  BY CircularAreaAssumption DEF AreaInv, Places
<1>2. n = AreaCount(readidx, writeidx, b_status)
  BY DEF CircularAreaGetDataLength, CircularAreaIsFull, AreaCount
<1>3. /\ n \in 0 .. AreaLen /\ (n = AreaLen <=> readidx = writeidx /\ b_status)
      /\ (n = 0 <=> readidx = writeidx /\ ~b_status) /\ writeidx = Wrapped(readidx + n)
  <2> DEFINE c == AreaCount(readidx, writeidx, b_status)
  <2>1. /\ c \in 0 .. AreaLen /\ (c = AreaLen <=> readidx = writeidx /\ b_status)
        /\ (c = 0 <=> readidx = writeidx /\ ~b_status) /\ writeidx = Wrapped(readidx + c)
    BY <1>1, AreaCountIs
  <2> HIDE DEF c, n
  <2>2. n = c
    BY <1>2 DEF c
  <2> QED BY <2>1, <2>2
<1>4. stored = AreaSeq(readidx, n, data_buffer)
  BY DEF AreaInv, AreaFifo, Readable, AreaSeq
<1> HIDE DEF n
<1>5. Len(stored) = n
  BY <1>1, <1>3, <1>4, AreaSeqElements
<1> QED BY <1>1, <1>2, <1>3, <1>4, <1>5 DEF n, CircularAreaIsFull, CircularAreaIsEmpty

(* What AreaFifo asks of the next state, by the length it has. *)
LEMMA AreaKept ==
  ASSUME NEW n \in 0 .. AreaLen, n = AreaLen => b_status', n = 0 => ~b_status',
         readidx' \in Places, b_status' \in BOOLEAN, data_buffer' \in [Places -> Byte],
         writeidx' = Wrapped(readidx' + n), writeidx' \in Places,
         stored' = AreaSeq(readidx', n, data_buffer')
  PROVE  AreaInv'
<1>1. AreaCount(readidx', Wrapped(readidx' + n), b_status') = n
  BY AreaCountOf
<1>2. AreaCount(readidx', writeidx', b_status') = n
  BY <1>1
<1>3. CircularAreaGetDataLength' = n
  BY <1>2 DEF CircularAreaGetDataLength, CircularAreaIsFull, AreaCount
<1>4. stored' \in Seq(Byte)
  BY AreaSeqElements
<1>5. AreaFifo'
  <2>1. Readable' = [i \in 1 .. n |-> data_buffer'[(readidx' + i - 1) % AreaLen]]
    BY <1>3 DEF Readable
  <2> QED BY <2>1 DEF AreaFifo, AreaSeq
<1> QED BY <1>4, <1>5 DEF AreaInv

LEMMA AreaReadInv ==
  ASSUME AreaDisciplined, AreaInv, NEW len \in 1 .. AreaLen, CircularAreaRead(len)
  PROVE  AreaInv'
<1> DEFINE m == CircularAreaGetDataLength
           n == Atmost(len, m)
           r == readidx
<1>1. /\ ~CircularAreaIsEmpty /\ readidx' = Advance(r, n) /\ b_status' = FALSE
      /\ stored' = SubSeq(stored, n + 1, Len(stored)) /\ UNCHANGED <<writeidx, data_buffer>>
  BY DEF CircularAreaRead
<1>2. /\ AreaLen \in Nat \ {0} /\ Places = 0 .. AreaLen - 1 /\ r \in Places /\ writeidx \in Places
      /\ data_buffer \in [Places -> Byte] /\ m \in 0 .. AreaLen /\ m # 0
      /\ writeidx = Wrapped(r + m) /\ stored = AreaSeq(r, m, data_buffer) /\ Len(stored) = m
  BY <1>1, AreaFacts
<1> HIDE DEF m, r
<1>3. n \in 1 .. m /\ n \in 0 .. AreaLen
  BY <1>2 DEF Atmost
<1> HIDE DEF n
<1>4. readidx' = Wrapped(r + n) /\ readidx' \in Places
  BY <1>1, <1>2, <1>3, AreaAdvance
<1>5. m - n \in 0 .. AreaLen /\ m - n # AreaLen /\ n \in 0 .. m
  BY <1>2, <1>3
<1>6. writeidx' = Wrapped(readidx' + (m - n))
  <2>1. writeidx = Wrapped(Wrapped(r + n) + (m - n))
    BY <1>2, <1>3 DEF Wrapped
  <2> QED BY <1>1, <1>4, <2>1
<1>7. stored' = AreaSeq(readidx', m - n, data_buffer')
  <2>1. AreaSeq(Wrapped(r + n), m - n, data_buffer) = SubSeq(AreaSeq(r, m, data_buffer), n + 1, m)
    BY <1>2, <1>5, AreaReads, ZenonT(40)
  <2> QED BY <1>1, <1>2, <1>4, <2>1
<1>8. ~b_status' /\ b_status' \in BOOLEAN /\ writeidx' \in Places /\ data_buffer' \in [Places -> Byte]
  BY <1>1, <1>2
<1> DEFINE k == m - n
<1>9. /\ k \in 0 .. AreaLen /\ k # AreaLen /\ writeidx' = Wrapped(readidx' + k)
      /\ stored' = AreaSeq(readidx', k, data_buffer')
  BY <1>5, <1>6, <1>7
<1> HIDE DEF k
<1> QED BY <1>4, <1>8, <1>9, AreaKept

LEMMA AreaWriteInv ==
  ASSUME AreaDisciplined, AreaInv, NEW len \in 1 .. AreaLen, NEW input \in [1 .. len -> Byte],
         NEW force \in Forces, CircularAreaWrite(input, force)
  PROVE  AreaInv'
<1> DEFINE m == CircularAreaGetDataLength
           n == Atmost(Len(input), AreaLen - m)
           r == readidx
           b == Written(data_buffer, writeidx, n, input)
<1>1. force = FALSE
  BY DEF AreaDisciplined
<1>2. ~CircularAreaIsFull /\ writeidx' = Advance(writeidx, n) /\ readidx' = r /\ b_status' = TRUE
  BY <1>1 DEF CircularAreaWrite
<1>3. stored' = stored \o SubSeq(input, 1, n)
  BY <1>1 DEF CircularAreaWrite
<1>4. data_buffer' = b
  BY DEF CircularAreaWrite, Written, Places
<1>5. /\ AreaLen \in Nat \ {0} /\ Places = 0 .. AreaLen - 1 /\ r \in Places /\ writeidx \in Places
      /\ data_buffer \in [Places -> Byte] /\ m \in 0 .. AreaLen /\ m # AreaLen
      /\ writeidx = Wrapped(r + m) /\ stored = AreaSeq(r, m, data_buffer)
  BY <1>2, AreaFacts
<1>6. input \in Seq(Byte) /\ Len(input) = len /\ len \in Nat /\ len >= 1
  BY <1>5
<1> HIDE DEF m, r
<1>7. n \in 1 .. AreaLen - m /\ n <= Len(input)
  BY <1>5, <1>6 DEF Atmost
<1> HIDE DEF n
<1>8. n \in 0 .. AreaLen /\ n \in 0 .. AreaLen - m /\ m + n \in 1 .. AreaLen
  BY <1>5, <1>7
<1>9. writeidx' = Wrapped(writeidx + n) /\ writeidx' \in Places
  BY <1>2, <1>5, <1>8, AreaAdvance, SMTT(20)
<1>10. writeidx' = Wrapped(readidx' + (m + n))
  <2>1. Wrapped(Wrapped(r + m) + n) = Wrapped(r + (m + n))
    BY <1>5, <1>8 DEF Wrapped
  <2> QED BY <1>2, <1>5, <1>9, <2>1
<1>11. /\ b \in [Places -> Byte]
       /\ AreaSeq(r, m + n, b) = AreaSeq(r, m, data_buffer) \o SubSeq(input, 1, n)
  <2>1. /\ Written(data_buffer, Wrapped(r + m), n, input) \in [Places -> Byte]
        /\ AreaSeq(r, m + n, Written(data_buffer, Wrapped(r + m), n, input)) =
              AreaSeq(r, m, data_buffer) \o SubSeq(input, 1, n)
    <3>1. /\ r \in Places /\ m \in 0 .. AreaLen /\ n \in 0 .. AreaLen - m
          /\ data_buffer \in [Places -> Byte] /\ input \in Seq(Byte) /\ n <= Len(input)
      BY <1>5, <1>6, <1>7, <1>8
    <3> HIDE DEF b
    <3> QED BY <3>1, AreaWrites
  <2> QED BY <1>5, <2>1
<1> HIDE DEF b
<1>12. stored' = AreaSeq(readidx', m + n, data_buffer')
  BY <1>2, <1>3, <1>4, <1>5, <1>11
<1> DEFINE k == m + n
<1>13. /\ k \in 0 .. AreaLen /\ k # 0 /\ writeidx' = Wrapped(readidx' + k)
       /\ stored' = AreaSeq(readidx', k, data_buffer')
  BY <1>8, <1>10, <1>12
<1>14. /\ b_status' /\ b_status' \in BOOLEAN /\ readidx' \in Places /\ writeidx' \in Places
       /\ data_buffer' \in [Places -> Byte]
  BY <1>2, <1>4, <1>5, <1>9, <1>11
<1> HIDE DEF k
<1> QED BY <1>13, <1>14, AreaKept

(* Nothing is read from an area that is empty. *)
LEMMA EmptyArea ==
  /\ 0 \in Places
  /\ <<>> \in Seq(Byte)
  /\ \A buf \in [Places -> Byte] : AreaSeq(0, 0, buf) = <<>>
<1>1. AreaLen \in Nat \ {0} /\ Places = 0 .. AreaLen - 1
  BY CircularAreaAssumption DEF Places
<1>2. ASSUME NEW buf \in [Places -> Byte] PROVE AreaSeq(0, 0, buf) = <<>>
  <2> DEFINE s == AreaSeq(0, 0, buf)
  <2>1. s \in Seq(Byte) /\ Len(s) = 0
    BY <1>1, AreaSeqElements
  <2> HIDE DEF s
  <2>2. s = <<>>
    BY <2>1
  <2> QED BY <2>2 DEF s
<1> QED BY <1>1, <1>2

LEMMA AreaNextInv ==
  ASSUME AreaDisciplined, AreaInv, [AreaNext]_areaVars
  PROVE  AreaInv'
<1>1. CASE AreaNext
  <2>1. CASE CircularAreaReset
    <3>1. /\ readidx' = 0 /\ writeidx' = 0 /\ b_status' = FALSE /\ stored' = <<>>
          /\ data_buffer' \in [Places -> Byte]
      BY <2>1 DEF CircularAreaReset, AreaInv
    <3>2. CircularAreaGetDataLength' = 0
      <4>1. AreaLen \in Nat \ {0}
        BY CircularAreaAssumption
      <4> QED BY <3>1, <4>1 DEF CircularAreaGetDataLength, CircularAreaIsFull
    <3> QED BY <3>1, <3>2, EmptyArea DEF AreaInv, AreaFifo, Readable, AreaSeq
  <2> QED BY <1>1, <2>1, AreaReadInv, AreaWriteInv DEF AreaNext
<1>2. CASE UNCHANGED areaVars
  BY <1>2 DEF areaVars, AreaInv, AreaFifo, Readable, CircularAreaGetDataLength, CircularAreaIsFull
<1> QED BY <1>1, <1>2

LEMMA AreaInitInv == AreaInit => AreaInv
<1> SUFFICES ASSUME AreaInit PROVE AreaInv
  OBVIOUS
<1>1. AreaLen \in Nat \ {0} /\ Places = 0 .. AreaLen - 1 /\ Byte # {}
  BY CircularAreaAssumption DEF Places
<1>2. readidx = 0 /\ writeidx = 0 /\ b_status = FALSE /\ stored = <<>> /\ data_buffer \in [Places -> Byte]
  BY <1>1 DEF AreaInit
<1>3. CircularAreaGetDataLength = 0
  BY <1>1, <1>2 DEF CircularAreaGetDataLength, CircularAreaIsFull
<1>4. Readable = AreaSeq(0, 0, data_buffer)
  BY <1>2, <1>3 DEF Readable, AreaSeq
<1>5. Readable = stored
  BY <1>2, <1>4, EmptyArea
<1> QED BY <1>2, <1>5, EmptyArea DEF AreaInv, AreaFifo

-----------------------------------------------------------------------------
(* The services together: each only changes what is its own. *)

servicesVars == <<service, timerVars, workVars, heapVars, dataVars, areaVars>>

(* What a step of the services is to each of them. *)
LEMMA ServicesSteps ==
  ASSUME [ServicesNext]_servicesVars
  PROVE  /\ [TimerNext]_<<timerVars, workVars>> /\ [HeapNext]_heapVars
         /\ [DataNext]_dataVars /\ [AreaNext]_areaVars
<1>1. CASE service = "timer" /\ TimerNext /\ UNCHANGED <<heapVars, dataVars, areaVars>>
  BY <1>1
<1>2. CASE HeapNext /\ UNCHANGED <<timerVars, workVars, dataVars, areaVars>>
  BY <1>2
<1>3. CASE DataNext /\ UNCHANGED <<timerVars, workVars, heapVars, areaVars>>
  BY <1>3
<1>4. CASE AreaNext /\ UNCHANGED <<timerVars, workVars, heapVars, dataVars>>
  BY <1>4
<1>5. CASE UNCHANGED servicesVars
  BY <1>5 DEF servicesVars
<1> QED BY <1>1, <1>2, <1>3, <1>4, <1>5 DEF ServicesNext

(* The timers and their work queue: every step of theirs is a step of the  *)
(* queue or leaves it alone.                                               *)
LEMMA TimerWorkSteps ==
  ASSUME sort \in Seq(Timer), [TimerNext]_<<timerVars, workVars>>
  PROVE  [WorkNext]_workVars
<1>1. CASE UNCHANGED workVars
  BY <1>1
<1>2. CASE \E tm \in Timer : \/ \E time \in Timeslices :
                                  \/ \E periodic \in BOOLEAN : KCreateTimer(tm, time, periodic)
                                  \/ KTimerAssignMemberRun(tm, time) \/ KTimerModify(tm, time)
                             \/ KTimerStartRun(tm) \/ QuitRunTest(tm) \/ QuitRun(tm)
                             \/ KDeleteTimer(tm) \/ TimerCBEnter(tm)
  <2>1. UNCHANGED workVars
    BY <1>2 DEF KCreateTimer, KTimerAssignMemberRun, KTimerModify, KTimerStartRun, QuitRunTest, QuitRun,
                KDeleteTimer, TimerCBEnter
  <2> QED BY <2>1
<1>3. CASE Tick \/ TickEnd
  <2>1. UNCHANGED workVars
    BY <1>3 DEF Tick, TickEnd
  <2> QED BY <2>1
<1>4. CASE \E w \in Work \ Timer : WorkSubmit(w)
  <2>1. \E w \in Work : WorkSubmit_immediate(w)
    BY <1>4 DEF WorkSubmit
  <2> QED BY <2>1 DEF WorkNext
<1>5. CASE CheckTimerList
  <2>1. WorkSubmit_immediate(Head(sort)) /\ sort # <<>>
    BY <1>5 DEF CheckTimerList, HeadExpired
  <2>2. Head(sort) \in Work
    BY <2>1, SoftTimerAssumption
  <2> QED BY <2>1, <2>2 DEF WorkNext
<1>6. CASE TimerWork \/ WorkerStep
  <2>1. WorkerNext
    BY <1>6 DEF TimerWork, WorkerStep, WorkerNext
  <2> QED BY <2>1 DEF WorkNext
<1> QED BY <1>1, <1>2, <1>3, <1>4, <1>5, <1>6 DEF TimerNext

(* The work that was accepted is called once and in order, whatever the    *)
(* length of the ring, with tasks and the tick interrupt submitting while  *)
(* the worker takes and calls (workqueue.c).                               *)
THEOREM WorkIsInOrder == ServicesSpec => []WorkInOrder
<1>1. ServicesInit => WorkInv /\ TimerInv
  <2>1. ServicesInit => TimerInit
    BY DEF ServicesInit
  <2>2. TimerInit => WorkInit
    BY DEF TimerInit
  <2> QED BY <2>1, <2>2, WorkInitInv, TimerInitInv
<1>2. (WorkInv /\ TimerInv) /\ [ServicesNext]_servicesVars => (WorkInv /\ TimerInv)'
  <2> SUFFICES ASSUME WorkInv, TimerInv, [ServicesNext]_servicesVars PROVE WorkInv' /\ TimerInv'
    OBVIOUS
  <2>1. [TimerNext]_<<timerVars, workVars>>
    BY ServicesSteps
  <2>2. [WorkNext]_workVars
    BY <2>1, TimerWorkSteps DEF TimerInv, TimerTypes
  <2> QED BY <2>1, <2>2, WorkNextInv, TimerNextInv
<1>3. WorkInv => WorkInOrder
  BY DEF WorkInv
<1> QED BY <1>1, <1>2, <1>3, PTL DEF ServicesSpec, servicesVars

(* The list of softtimer.c holds the running timers, each once, although a *)
(* stop tests its timer outside the critical area in which it unlinks it.  *)
THEOREM RunningTimersAreListed == ServicesSpec => []RunningIffListed
<1>1. ServicesInit => TimerInv
  BY TimerInitInv DEF ServicesInit
<1>2. TimerInv /\ [ServicesNext]_servicesVars => TimerInv'
  BY ServicesSteps, TimerNextInv
<1>3. TimerInv => RunningIffListed
  BY DEF TimerInv
<1> QED BY <1>1, <1>2, <1>3, PTL DEF ServicesSpec, servicesVars

(* When the tick interrupt ends every timer that has run out was handled,  *)
(* as long as the counter has not passed its end: CheckTimerList looks at  *)
(* the head of the list alone.                                             *)
THEOREM TimersAreNeverOverdue ==
  ASSUME NoWrap
  PROVE  ServicesSpec => []NoOverdueTimer
<1>1. ServicesInit => TimerInv /\ TimerOrder
  BY TimerInitInv DEF ServicesInit
<1>2. (TimerInv /\ TimerOrder) /\ [ServicesNext]_servicesVars => (TimerInv /\ TimerOrder)'
  BY ServicesSteps, TimerNextInv DEF Ordered
<1>3. TimerInv /\ TimerOrder => NoOverdueTimer
  <2> SUFFICES ASSUME TimerInv, TimerOrder, ~in_tick, NEW tm \in Timer, timer[tm].active
               PROVE  ~Expired(tm)
    BY DEF NoOverdueTimer
  <2>1. Awaited /\ heartbeat_ticks < timer[tm].deadline
    BY DEF TimerOrder, Awaited
  <2> QED BY <2>1, ExpiredNow, TimerNumbers
<1> QED BY <1>1, <1>2, <1>3, PTL DEF ServicesSpec, servicesVars

(* What a push returned EOK for is popped, once and in order, however many *)
(* users mix the steps of their calls (data_queue.c).                      *)
THEOREM DataIsInOrder ==
  ASSUME DataDisciplined
  PROVE  ServicesSpec => []DataInOrder
<1>1. ServicesInit => DataInv
  BY DataInitInv DEF ServicesInit
<1>2. DataInv /\ [ServicesNext]_servicesVars => DataInv'
  BY ServicesSteps, DataNextInv
<1>3. DataInv => DataInOrder
  BY DEF DataInv
<1> QED BY <1>1, <1>2, <1>3, PTL DEF ServicesSpec, servicesVars

(* The permits of the two semaphores of data_queue.c cover the ring, those *)
(* counted that callers have obtained and not used or given back yet.      *)
THEOREM PermitsCoverRing ==
  ASSUME DataDisciplined
  PROVE  ServicesSpec => []PermitsMatchRing
<1>1. ServicesInit => DataInv
  BY DataInitInv DEF ServicesInit
<1>2. DataInv /\ [ServicesNext]_servicesVars => DataInv'
  BY ServicesSteps, DataNextInv
<1>3. DataInv => PermitsMatchRing
  BY DEF DataInv
<1> QED BY <1>1, <1>2, <1>3, PTL DEF ServicesSpec, servicesVars

(* What circular_area.c accepted is read, once and in order, and equal     *)
(* indices are told apart as full or empty, for every length that fits the *)
(* indices and every series of unforced writes, reads and resets.          *)
THEOREM AreaIsFifo ==
  ASSUME AreaDisciplined
  PROVE  ServicesSpec => []AreaFifo
<1>1. ServicesInit => AreaInv
  BY AreaInitInv DEF ServicesInit
<1>2. AreaInv /\ [ServicesNext]_servicesVars => AreaInv'
  BY ServicesSteps, AreaNextInv
<1>3. AreaInv => AreaFifo
  BY DEF AreaInv
<1> QED BY <1>1, <1>2, <1>3, PTL DEF ServicesSpec, servicesVars

(* Splitting and merging keep the tags of the heap right and its blocks    *)
(* one behind the other, no two neighbours free, and active_memory the     *)
(* number of bytes in use, for every region and every series of calls      *)
(* (byte_manage.c).                                                        *)
THEOREM HeapStaysTiled == ServicesSpec => []HeapTiled
<1>1. ServicesInit => HeapInv
  BY HeapInvInit DEF ServicesInit
<1>2. HeapInv /\ [ServicesNext]_servicesVars => HeapInv'
  BY ServicesSteps, HeapInvNext
<1> QED BY <1>1, <1>2, HeapInvTiled, PTL DEF ServicesSpec, servicesVars

(* The free lists of byte_manage.c hold the free blocks, each once, in the *)
(* list of its size and in order of size, for any number of lists.         *)
THEOREM FreeListsAreExact == ServicesSpec => []FreeListsExact
<1>1. ServicesInit => HeapInv
  BY HeapInvInit DEF ServicesInit
<1>2. HeapInv /\ [ServicesNext]_servicesVars => HeapInv'
  BY ServicesSteps, HeapInvNext
<1> QED BY <1>1, <1>2, HeapInvLists, PTL DEF ServicesSpec, servicesVars

(* What x_malloc gives is nobody else's, no header and no free memory,     *)
(* whether it comes from the lists or from a segment of small blocks.      *)
THEOREM BlocksAreDisjoint == ServicesSpec => []BlocksDisjoint
<1>1. ServicesInit => HeapInv
  BY HeapInvInit DEF ServicesInit
<1>2. HeapInv /\ [ServicesNext]_servicesVars => HeapInv'
  BY ServicesSteps, HeapInvNext
<1> QED BY <1>1, <1>2, HeapInvDisjoint, PTL DEF ServicesSpec, servicesVars

(* The search of BigMemMalloc, which stops at the first block that is      *)
(* large enough, has then found the smallest one of all lists, as long as  *)
(* no free block is of exactly the size asked for.                         *)
THEOREM BestFitIsFound == ServicesSpec => []BestFitFound
<1>1. ServicesInit => HeapInv
  BY HeapInvInit DEF ServicesInit
<1>2. HeapInv /\ [ServicesNext]_servicesVars => HeapInv'
  BY ServicesSteps, HeapInvNext
<1> QED BY <1>1, <1>2, HeapInvFit, PTL DEF ServicesSpec, servicesVars

(* The variables of timers, work queue, heap and data queue have their     *)
(* types: no index of a ring leaves it and no address the region, whatever *)
(* timeouts the callers of data_queue.c give.                              *)
THEOREM ServicesTypes == ServicesSpec => []ServicesTypeOK
<1> DEFINE I == WorkInv /\ TimerInv /\ HeapInv /\ DataTypeOK
<1>1. ServicesInit => I
  <2>1. ServicesInit => TimerInit /\ HeapInit /\ DataInit
    BY DEF ServicesInit
  <2>2. TimerInit => WorkInit
    BY DEF TimerInit
  <2>3. DataInit => DataTypeOK
    BY DataInitInv DEF DataInv
  <2> QED BY <2>1, <2>2, <2>3, WorkInitInv, TimerInitInv, HeapInvInit
<1>2. I /\ [ServicesNext]_servicesVars => I'
  <2> SUFFICES ASSUME WorkInv, TimerInv, HeapInv, DataTypeOK, [ServicesNext]_servicesVars
               PROVE  WorkInv' /\ TimerInv' /\ HeapInv' /\ DataTypeOK'
    OBVIOUS
  <2>1. [TimerNext]_<<timerVars, workVars>> /\ [HeapNext]_heapVars /\ [DataNext]_dataVars
    BY ServicesSteps
  <2>2. [WorkNext]_workVars
    BY <2>1, TimerWorkSteps DEF TimerInv, TimerTypes
  <2> QED BY <2>1, <2>2, WorkNextInv, TimerNextInv, HeapInvNext, DataTypesKept
<1>3. I => ServicesTypeOK
  <2> SUFFICES ASSUME WorkInv, TimerInv, HeapInv, DataTypeOK PROVE ServicesTypeOK
    OBVIOUS
  <2>1. HeapTypeOK
    BY HeapInvType
  <2>2. TimerTypeOK
    BY DEF WorkInv, TimerInv, TimerTypes, TimerStruct, TimerTypeOK
  <2> QED BY <2>1, <2>2 DEF ServicesTypeOK
<1> QED BY <1>1, <1>2, <1>3, PTL DEF ServicesSpec, servicesVars
=============================================================================
