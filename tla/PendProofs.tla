----------------------------- MODULE PendProofs -----------------------------
(***************************************************************************)
(* What waiting on an object does, for the proofs about the objects.       *)
(***************************************************************************)
EXTENDS Pend, DoubleLinkProofs, FiniteSetTheorems

(* No waiting time is converted to no ticks: a call that asks to wait for  *)
(* zero milliseconds waits for one tick.                                   *)
LEMMA TicksPositive ==
  ASSUME NEW ms \in Msecs
  PROVE  CalculteTickFromTimeMs(ms) \in Nat \ {0}
<1> DEFINE product == (ms * TickPerSecond) % WordMod
           n       == product \div 1000
<1>1. ms \in Nat /\ TickPerSecond \in Nat /\ WordMod \in Nat /\ WordMod > 0
  BY PendAssumption
<1>2. ms * TickPerSecond \in Nat
  BY <1>1
<1>3. product \in Nat
  <2> DEFINE p == ms * TickPerSecond
  <2> HIDE DEF p
  <2>1. p \in Nat
    BY <1>2 DEF p
  <2>2. p % WordMod \in Nat
    BY <1>1, <2>1
  <2> QED BY <2>2 DEF p
<1> HIDE DEF product
<1>4. n \in Nat
  BY <1>3
<1>5. CalculteTickFromTimeMs(ms) = CASE n = 0                  -> 1
                                     [] product % 1000 \in 5 .. 9  -> n + 1
                                     [] OTHER                      -> n
  BY DEF CalculteTickFromTimeMs, product
<1> HIDE DEF n
<1> QED BY <1>4, <1>5

(* Tasks counted: one more, one less, or no fewer. *)
LEMMA TaskCount ==
  ASSUME NEW A, A \subseteq Task
  PROVE  /\ Cardinality(A) \in Nat
         /\ \A t : t \notin A => Cardinality(A \cup {t}) = Cardinality(A) + 1
         /\ \A t \in A : Cardinality(A \ {t}) = Cardinality(A) - 1
         /\ \A B : B \subseteq A => Cardinality(B) <= Cardinality(A)
<1>1. IsFiniteSet(A)
  BY PendAssumption, FS_Subset
<1>2. Cardinality(A) \in Nat
  BY <1>1, FS_CardinalityType
<1>3. \A t : t \notin A => Cardinality(A \cup {t}) = Cardinality(A) + 1
  BY <1>1, FS_AddElement
<1>4. \A t \in A : Cardinality(A \ {t}) = Cardinality(A) - 1
  BY <1>1, FS_RemoveElement
<1>5. \A B : B \subseteq A => Cardinality(B) <= Cardinality(A)
  BY <1>1, FS_Subset
<1> QED BY <1>2, <1>3, <1>4, <1>5

(* A count that does not reach its modulus does not wrap. *)
LEMMA NoWrap ==
  ASSUME NEW M \in Nat, NEW x \in 0 .. M - 1
  PROVE  x % M = x
  OBVIOUS

(* A list of distinct elements is no longer than their set. *)
LEMMA InjectiveLen ==
  ASSUME NEW S, IsFiniteSet(S), NEW s \in Seq(S), IsInjective(s)
  PROVE  Len(s) <= Cardinality(S)
<1>1. Len(s) \in Nat /\ s \in [1 .. Len(s) -> S]
  OBVIOUS
<1>2. s \in Injection(1 .. Len(s), S)
  BY <1>1 DEF Injection
<1>3. Cardinality(1 .. Len(s)) <= Cardinality(S)
  BY <1>2, FS_Injection
<1>4. Cardinality(1 .. Len(s)) = Len(s)
  BY <1>1, FS_Interval
<1> QED BY <1>3, <1>4

(* A finite set as a list: every element once. *)
LEMMA SetToSeqElements ==
  ASSUME NEW S, IsFiniteSet(S)
  PROVE  /\ SetToSeq(S) \in Seq(S) /\ IsInjective(SetToSeq(S))
         /\ Range(SetToSeq(S)) = S /\ Len(SetToSeq(S)) = Cardinality(S)
<1> DEFINE n == Cardinality(S)
           s == SetToSeq(S)
<1>1. n \in Nat /\ ExistsBijection(1 .. n, S)
  BY FS_CardinalityType
<1> HIDE DEF n
<1>2. PICK f : f \in Bijection(1 .. n, S)
  BY <1>1 DEF ExistsBijection
<1>3. f \in [1 .. n -> S] /\ IsInjective(f)
  BY <1>2 DEF Bijection, Injection
<1>4. s \in [1 .. n -> S] /\ IsInjective(s)
  BY <1>3 DEF SetToSeq, n
<1> HIDE DEF s
<1>5. s \in Seq(S) /\ Len(s) = n
  BY <1>1, <1>4
<1>6. s \in Injection(1 .. n, S)
  BY <1>4 DEF Injection
<1>7. Cardinality(1 .. n) = n
  BY <1>1, FS_Interval
<1>8. s \in Surjection(1 .. n, S)
  BY <1>6, <1>7, FS_Injection DEF n
<1>9. Range(s) = S
  BY <1>4, <1>8 DEF Surjection, Range
<1> QED BY <1>4, <1>5, <1>9 DEF s, n
=============================================================================
