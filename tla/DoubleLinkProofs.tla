-------------------------- MODULE DoubleLinkProofs --------------------------
(***************************************************************************)
(* What linking and unlinking do to the elements of a list: the facts the  *)
(* scheduler's proofs need about double_link.c.                            *)
(***************************************************************************)
EXTENDS DoubleLink, SequenceTheorems, WellFoundedInduction, TLAPS

(* A nonempty set of naturals has a least element: the first node that     *)
(* satisfies a condition exists whenever some node does.                   *)
LEMMA LeastExists ==
  ASSUME NEW T, T \subseteq Nat, T # {}
  PROVE  \E x \in T : \A y \in T : x <= y
<1>1. PICK x \in T : \A y \in T : ~(<<y, x>> \in OpToRel(<, Nat))
  BY NatLessThanWellFounded, WFMin
<1>2. ASSUME NEW y \in T PROVE x <= y
  <2>1. ~(<<y, x>> \in OpToRel(<, Nat))
    BY <1>1
  <2>2. ~(y < x)
    BY <2>1 DEF OpToRel
  <2> QED BY <2>2
<1> QED BY <1>2

(* A nonempty bounded set of naturals has a greatest element. *)
LEMMA GreatestExists ==
  ASSUME NEW N \in Nat, NEW T, T \subseteq 0 .. N, T # {}
  PROVE  \E x \in T : \A y \in T : x >= y
<1> DEFINE U == {N - x : x \in T}
<1>1. U \subseteq Nat /\ U # {}
  <2>1. \A x \in T : x \in 0 .. N /\ N - x \in Nat
    OBVIOUS
  <2>2. PICK x \in T : TRUE
    OBVIOUS
  <2>3. N - x \in U
    OBVIOUS
  <2> QED BY <2>1, <2>3
<1>2. PICK u \in U : \A v \in U : u <= v
  <2> HIDE DEF U
  <2> QED BY <1>1, LeastExists
<1>3. PICK x \in T : u = N - x
  OBVIOUS
<1>4. ASSUME NEW y \in T PROVE x >= y
  <2>1. N - x <= N - y
    BY <1>2, <1>3
  <2> QED BY <2>1
<1> QED BY <1>4

(* RemoveAt drops the i-th element and shifts the later ones down. *)
LEMMA RemoveAtShift ==
  ASSUME NEW S, NEW s \in Seq(S), NEW i \in 1 .. Len(s)
  PROVE  /\ RemoveAt(s, i) \in Seq(S)
         /\ Len(RemoveAt(s, i)) = Len(s) - 1
         /\ \A j \in 1 .. Len(s) - 1 :
               RemoveAt(s, i)[j] = IF j < i THEN s[j] ELSE s[j + 1]
<1> DEFINE a == SubSeq(s, 1, i - 1)
           b == SubSeq(s, i + 1, Len(s))
<1>1. Len(s) \in Nat /\ \A j \in 1 .. Len(s) : s[j] \in S
  OBVIOUS
<1>2. /\ a \in Seq(S)
      /\ Len(a) = i - 1
      /\ \A j \in 1 .. i - 1 : a[j] = s[j]
  <2>1. \A j \in 1 .. i - 1 : s[j] \in S
    BY <1>1
  <2>2. 1 \in Int /\ i - 1 \in Int
    BY <1>1
  <2> QED BY <1>1, <2>1, <2>2, SubSeqProperties
<1>3. /\ b \in Seq(S)
      /\ Len(b) = Len(s) - i
      /\ \A j \in 1 .. Len(s) - i : b[j] = s[i + j]
  <2>1. \A j \in i + 1 .. Len(s) : s[j] \in S
    BY <1>1
  <2>2. i + 1 \in Int /\ Len(s) \in Int
    BY <1>1
  <2>3. /\ b \in Seq(S)
        /\ Len(b) = IF i + 1 <= Len(s) THEN Len(s) - (i + 1) + 1 ELSE 0
        /\ \A j \in 1 .. Len(s) - (i + 1) + 1 : b[j] = s[(i + 1) + j - 1]
    BY <2>1, <2>2, SubSeqProperties
  <2> HIDE DEF b
  <2> QED BY <1>1, <2>3
<1>4. RemoveAt(s, i) = a \o b
  BY DEF RemoveAt
<1> HIDE DEF a, b
<1>5. /\ a \o b \in Seq(S)
      /\ Len(a \o b) = Len(a) + Len(b)
      /\ \A j \in 1 .. Len(a) + Len(b) :
            (a \o b)[j] = IF j <= Len(a) THEN a[j] ELSE b[j - Len(a)]
  BY <1>2, <1>3, ConcatProperties
<1> QED BY <1>1, <1>2, <1>3, <1>4, <1>5

(* InsertAt puts e at position i and shifts the elements from i on up. *)
LEMMA InsertAtShift ==
  ASSUME NEW S, NEW s \in Seq(S), NEW i \in 1 .. Len(s) + 1, NEW e \in S
  PROVE  /\ InsertAt(s, i, e) \in Seq(S)
         /\ Len(InsertAt(s, i, e)) = Len(s) + 1
         /\ \A j \in 1 .. Len(s) + 1 :
               InsertAt(s, i, e)[j] =
                  IF j < i THEN s[j] ELSE IF j = i THEN e ELSE s[j - 1]
<1> DEFINE a == SubSeq(s, 1, i - 1)
           b == SubSeq(s, i, Len(s))
           m == <<e>>
<1>1. Len(s) \in Nat /\ \A j \in 1 .. Len(s) : s[j] \in S
  OBVIOUS
<1>2. /\ a \in Seq(S)
      /\ Len(a) = i - 1
      /\ \A j \in 1 .. i - 1 : a[j] = s[j]
  <2>1. \A j \in 1 .. i - 1 : s[j] \in S
    BY <1>1
  <2>2. 1 \in Int /\ i - 1 \in Int
    BY <1>1
  <2> QED BY <1>1, <2>1, <2>2, SubSeqProperties
<1>3. /\ b \in Seq(S)
      /\ Len(b) = Len(s) - i + 1
      /\ \A j \in 1 .. Len(s) - i + 1 : b[j] = s[i + j - 1]
  <2>1. \A j \in i .. Len(s) : s[j] \in S
    BY <1>1
  <2>2. i \in Int /\ Len(s) \in Int
    BY <1>1
  <2>3. /\ b \in Seq(S)
        /\ Len(b) = IF i <= Len(s) THEN Len(s) - i + 1 ELSE 0
        /\ \A j \in 1 .. Len(s) - i + 1 : b[j] = s[i + j - 1]
    BY <2>1, <2>2, SubSeqProperties
  <2> HIDE DEF b
  <2> QED BY <1>1, <2>3
<1>4. m \in Seq(S) /\ Len(m) = 1 /\ m[1] = e
  OBVIOUS
<1>5. InsertAt(s, i, e) = (a \o m) \o b
  BY DEF InsertAt
<1> HIDE DEF a, b, m
<1>6. /\ a \o m \in Seq(S)
      /\ Len(a \o m) = i
      /\ \A j \in 1 .. i : (a \o m)[j] = IF j < i THEN a[j] ELSE e
  <2>1. /\ a \o m \in Seq(S)
        /\ Len(a \o m) = Len(a) + Len(m)
        /\ \A j \in 1 .. Len(a) + Len(m) :
              (a \o m)[j] = IF j <= Len(a) THEN a[j] ELSE m[j - Len(a)]
    BY <1>2, <1>4, ConcatProperties
  <2> QED BY <1>2, <1>4, <2>1
<1>7. /\ (a \o m) \o b \in Seq(S)
      /\ Len((a \o m) \o b) = Len(a \o m) + Len(b)
      /\ \A j \in 1 .. Len(a \o m) + Len(b) :
            ((a \o m) \o b)[j] =
               IF j <= Len(a \o m) THEN (a \o m)[j] ELSE b[j - Len(a \o m)]
  BY <1>3, <1>6, ConcatProperties
<1>8. Len(InsertAt(s, i, e)) = Len(s) + 1
  BY <1>1, <1>3, <1>5, <1>6, <1>7
<1>9. ASSUME NEW j \in 1 .. Len(s) + 1
      PROVE  InsertAt(s, i, e)[j] =
                IF j < i THEN s[j] ELSE IF j = i THEN e ELSE s[j - 1]
  <2>1. j \in 1 .. Len(a \o m) + Len(b)
    BY <1>1, <1>3, <1>6
  <2>2. InsertAt(s, i, e)[j] = IF j <= i THEN (a \o m)[j] ELSE b[j - i]
    BY <2>1, <1>5, <1>6, <1>7
  <2>3. CASE j <= i
    <3>1. j \in 1 .. i
      BY <2>3
    <3>2. (a \o m)[j] = IF j < i THEN a[j] ELSE e
      BY <3>1, <1>6
    <3>3. j < i => a[j] = s[j]
      BY <3>1, <1>2
    <3> QED BY <2>2, <2>3, <3>2, <3>3
  <2>4. CASE j > i
    <3>1. j - i \in 1 .. Len(s) - i + 1
      BY <2>4, <1>1
    <3>2. b[j - i] = s[i + (j - i) - 1]
      BY <3>1, <1>3
    <3>3. i + (j - i) - 1 = j - 1
      OBVIOUS
    <3> QED BY <2>2, <2>4, <3>2, <3>3
  <2> QED BY <2>3, <2>4
<1> QED BY <1>5, <1>7, <1>8, <1>9

(* Unlinking e leaves a list of the other elements, still distinct: what   *)
(* DoubleLinkListRmNode does to the list e is linked into.                 *)
LEMMA RmNodeElements ==
  ASSUME NEW S, NEW s \in Seq(S), IsInjective(s), NEW e
  PROVE  /\ RmNode(s, e) \in Seq(S)
         /\ IsInjective(RmNode(s, e))
         /\ Range(RmNode(s, e)) = Range(s) \ {e}
<1>1. CASE e \notin Range(s)
  BY <1>1 DEF RmNode
<1>2. CASE e \in Range(s)
  <2> DEFINE i == CHOOSE i \in DOMAIN s : s[i] = e
             w == RemoveAt(s, i)
  <2>1. i \in 1 .. Len(s) /\ s[i] = e
    BY <1>2 DEF Range
  <2>2. RmNode(s, e) = w
    BY <1>2 DEF RmNode
  <2> HIDE DEF i
  <2>3. /\ w \in Seq(S)
        /\ Len(w) = Len(s) - 1
        /\ \A j \in 1 .. Len(s) - 1 : w[j] = IF j < i THEN s[j] ELSE s[j + 1]
    BY <2>1, RemoveAtShift
  <2> HIDE DEF w
  <2>4. DOMAIN s = 1 .. Len(s) /\ DOMAIN w = 1 .. Len(s) - 1 /\ Len(s) \in Nat
    BY <2>3
  <2>5. IsInjective(w)
    <3>1. SUFFICES ASSUME NEW a \in 1 .. Len(s) - 1, NEW b \in 1 .. Len(s) - 1,
                          w[a] = w[b]
                   PROVE  a = b
      BY <2>4 DEF IsInjective
    <3>2. \A c, d \in 1 .. Len(s) : s[c] = s[d] => c = d
      BY <2>4 DEF IsInjective
    <3>3. \A c \in 1 .. Len(s) - 1 :
             \/ c < i /\ c \in 1 .. Len(s) /\ w[c] = s[c]
             \/ c >= i /\ c + 1 \in 1 .. Len(s) /\ w[c] = s[c + 1]
      BY <2>1, <2>3, <2>4
    <3> QED BY <2>1, <2>4, <3>1, <3>2, <3>3
  <2>6. ASSUME NEW x \in Range(w) PROVE x \in Range(s) \ {e}
    BY <2>1, <2>3, <2>4, SMTT(20) DEF Range, IsInjective
  <2>7. ASSUME NEW x \in Range(s), x # e PROVE x \in Range(w)
    <3>1. PICK j \in 1 .. Len(s) : x = s[j]
      BY <2>4 DEF Range
    <3>2. CASE j < i
      <4>1. j \in DOMAIN w /\ w[j] = x
        BY <2>1, <2>3, <2>4, <3>1, <3>2
      <4> QED BY <4>1 DEF Range
    <3>3. CASE j > i
      <4>1. j - 1 \in DOMAIN w /\ w[j - 1] = x
        BY <2>1, <2>3, <2>4, <3>1, <3>3
      <4> QED BY <4>1 DEF Range
    <3> QED BY <2>1, <2>7, <3>1, <3>2, <3>3
  <2> QED BY <2>2, <2>3, <2>5, <2>6, <2>7
<1> QED BY <1>1, <1>2

(* Linking a new e anywhere into a list adds e and keeps the elements      *)
(* distinct.                                                               *)
LEMMA InsertAtElements ==
  ASSUME NEW S, NEW s \in Seq(S), NEW i \in 1 .. Len(s) + 1, NEW e \in S
  PROVE  /\ InsertAt(s, i, e) \in Seq(S)
         /\ IsInjective(s) /\ e \notin Range(s) => IsInjective(InsertAt(s, i, e))
         /\ Range(InsertAt(s, i, e)) = Range(s) \cup {e}
<1> DEFINE w == InsertAt(s, i, e)
<1>1. /\ w \in Seq(S)
      /\ Len(w) = Len(s) + 1
      /\ \A j \in 1 .. Len(s) + 1 :
            w[j] = IF j < i THEN s[j] ELSE IF j = i THEN e ELSE s[j - 1]
  BY InsertAtShift
<1> HIDE DEF w
<1>2. DOMAIN s = 1 .. Len(s) /\ DOMAIN w = 1 .. Len(s) + 1 /\ Len(s) \in Nat
  BY <1>1
<1>3. ASSUME IsInjective(s), e \notin Range(s) PROVE IsInjective(w)
  <2>1. SUFFICES ASSUME NEW a \in 1 .. Len(s) + 1, NEW b \in 1 .. Len(s) + 1,
                        w[a] = w[b]
                 PROVE  a = b
    BY <1>2 DEF IsInjective
  <2>2. \A c, d \in 1 .. Len(s) : s[c] = s[d] => c = d
    BY <1>2, <1>3 DEF IsInjective
  <2>3. \A c \in 1 .. Len(s) : s[c] # e
    BY <1>2, <1>3 DEF Range
  <2>4. \A c \in 1 .. Len(s) + 1 :
           \/ c < i /\ c \in 1 .. Len(s) /\ w[c] = s[c]
           \/ c = i /\ w[c] = e
           \/ c > i /\ c - 1 \in 1 .. Len(s) /\ w[c] = s[c - 1]
    BY <1>1, <1>2
  <2> QED BY <2>1, <2>2, <2>3, <2>4, SMTT(20)
<1>4. ASSUME NEW x \in Range(w) PROVE x \in Range(s) \cup {e}
  BY <1>1, <1>2 DEF Range
<1>5. e \in Range(w)
  BY <1>1, <1>2 DEF Range
<1>6. ASSUME NEW x \in Range(s) PROVE x \in Range(w)
  <2>1. PICK j \in 1 .. Len(s) : x = s[j]
    BY <1>2 DEF Range
  <2>2. CASE j < i
    <3>1. j \in DOMAIN w /\ w[j] = x
      BY <1>1, <1>2, <2>1, <2>2
    <3> QED BY <3>1 DEF Range
  <2>3. CASE j >= i
    <3>1. j + 1 \in DOMAIN w /\ w[j + 1] = x
      BY <1>1, <1>2, <2>1, <2>3
    <3> QED BY <3>1 DEF Range
  <2> QED BY <2>1, <2>2, <2>3
<1>7. InsertAt(s, i, e) = w
  BY DEF w
<1> QED BY <1>1, <1>3, <1>4, <1>5, <1>6, <1>7

(* The place of a sorted insert is a place in the list or its end. *)
LEMMA SortedPosRange ==
  ASSUME NEW S, NEW s \in Seq(S), NEW key, NEW keyOf
  PROVE  SortedPos(s, key, keyOf) \in 1 .. Len(s) + 1
<1> DEFINE i == SortedPos(s, key, keyOf)
           P(j) == key < keyOf[s[j]]
<1>1. CASE \E j \in DOMAIN s : P(j)
  <2> DEFINE T == {j \in DOMAIN s : P(j)}
  <2>1. PICK n \in T : \A m \in T : n <= m
    <3>1. T \subseteq Nat /\ T # {}
      BY <1>1
    <3> HIDE DEF T
    <3> QED BY <3>1, LeastExists
  <2>2. \A j \in DOMAIN s : j < n => ~P(j)
    BY <2>1
  <2>3. i = CHOOSE j \in DOMAIN s :
              /\ P(j)
              /\ \A m \in DOMAIN s : m < j => ~P(m)
    BY <1>1 DEF SortedPos
  <2> HIDE DEF P
  <2>4. i \in DOMAIN s
    BY <2>1, <2>2, <2>3
  <2> QED BY <2>4
<1>2. CASE ~\E j \in DOMAIN s : P(j)
  BY <1>2 DEF SortedPos
<1> QED BY <1>1, <1>2

(* The kernel's sorted insert adds e, wherever the keys put it. *)
LEMMA InsertSortedElements ==
  ASSUME NEW S, NEW s \in Seq(S), NEW e \in S, NEW key, NEW keyOf
  PROVE  /\ InsertSorted(s, e, key, keyOf) \in Seq(S)
         /\ IsInjective(s) /\ e \notin Range(s)
               => IsInjective(InsertSorted(s, e, key, keyOf))
         /\ Range(InsertSorted(s, e, key, keyOf)) = Range(s) \cup {e}
  BY SortedPosRange, InsertAtElements DEF InsertSorted

(* Unlinking keeps the type of a list, whatever is on it. *)
LEMMA RmNodeType ==
  ASSUME NEW S, NEW s \in Seq(S), NEW e
  PROVE  RmNode(s, e) \in Seq(S)
<1>1. CASE e \in Range(s)
  <2> DEFINE i == CHOOSE i \in DOMAIN s : s[i] = e
  <2>1. i \in 1 .. Len(s)
    BY <1>1 DEF Range
  <2> HIDE DEF i
  <2>2. RemoveAt(s, i) \in Seq(S)
    BY <2>1, RemoveAtShift
  <2> QED BY <1>1, <2>2 DEF RmNode, i
<1> QED BY <1>1 DEF RmNode

(* The head of a list of distinct nodes, and the rest. *)
LEMMA TailElements ==
  ASSUME NEW S, NEW s \in Seq(S), s # <<>>, IsInjective(s)
  PROVE  /\ Head(s) \in Range(s) /\ Tail(s) \in Seq(S) /\ IsInjective(Tail(s))
         /\ Range(Tail(s)) = Range(s) \ {Head(s)}
<1>1. /\ Tail(s) \in Seq(S) /\ Len(Tail(s)) = Len(s) - 1 /\ Len(s) \in Nat /\ Len(s) # 0
      /\ \A i \in 1 .. Len(s) - 1 : Tail(s)[i] = s[i + 1]
      /\ Head(s) = s[1] /\ DOMAIN s = 1 .. Len(s) /\ DOMAIN Tail(s) = 1 .. Len(s) - 1
  OBVIOUS
<1>2. \A a, b \in 1 .. Len(s) : s[a] = s[b] => a = b
  BY <1>1 DEF IsInjective
<1>3. Head(s) \in Range(s)
  BY <1>1 DEF Range
<1> DEFINE w == Tail(s)
<1>4. /\ DOMAIN w = 1 .. Len(s) - 1
      /\ \A i \in 1 .. Len(s) - 1 : i + 1 \in 1 .. Len(s) /\ w[i] = s[i + 1]
  BY <1>1
<1> HIDE DEF w
<1>5. IsInjective(w)
  BY <1>1, <1>2, <1>4 DEF IsInjective
<1>6. ASSUME NEW x \in Range(w) PROVE x \in Range(s) \ {Head(s)}
  <2>1. PICK i \in 1 .. Len(s) - 1 : x = w[i]
    BY <1>4 DEF Range
  <2>2. i + 1 \in DOMAIN s /\ x = s[i + 1] /\ i + 1 # 1
    BY <1>1, <1>4, <2>1
  <2>3. x # s[1]
    BY <1>1, <1>2, <2>2
  <2> QED BY <1>1, <2>2, <2>3 DEF Range
<1>7. ASSUME NEW x \in Range(s), x # Head(s) PROVE x \in Range(w)
  <2>1. PICK i \in 1 .. Len(s) : x = s[i]
    BY <1>1 DEF Range
  <2>2. i # 1
    BY <1>1, <1>7, <2>1
  <2>3. i - 1 \in DOMAIN w /\ w[i - 1] = x
    BY <1>1, <1>4, <2>1, <2>2
  <2> QED BY <2>3 DEF Range
<1> QED BY <1>1, <1>3, <1>5, <1>6, <1>7 DEF w

(* Putting a new node in front of a list of distinct nodes. *)
LEMMA ConsElements ==
  ASSUME NEW S, NEW s \in Seq(S), NEW e \in S
  PROVE  /\ <<e>> \o s \in Seq(S)
         /\ <<e>> \o s # <<>>
         /\ Range(<<e>> \o s) = {e} \cup Range(s)
         /\ IsInjective(s) /\ e \notin Range(s) => IsInjective(<<e>> \o s)
<1> DEFINE w == <<e>> \o s
<1>1. /\ w \in Seq(S) /\ Len(w) = Len(s) + 1
      /\ \A j \in 1 .. Len(s) + 1 : w[j] = IF j = 1 THEN e ELSE s[j - 1]
  <2> DEFINE m == <<e>>
  <2>1. m \in Seq(S) /\ Len(m) = 1 /\ m[1] = e
    OBVIOUS
  <2> HIDE DEF m
  <2>2. /\ m \o s \in Seq(S) /\ Len(m \o s) = Len(m) + Len(s)
        /\ \A j \in 1 .. Len(m) + Len(s) :
              (m \o s)[j] = IF j <= Len(m) THEN m[j] ELSE s[j - Len(m)]
    BY <2>1, ConcatProperties
  <2>3. /\ m \o s \in Seq(S) /\ Len(m \o s) = Len(s) + 1
        /\ \A j \in 1 .. Len(s) + 1 : (m \o s)[j] = IF j = 1 THEN e ELSE s[j - 1]
    BY <2>1, <2>2
  <2> QED BY <2>3 DEF m
<1> HIDE DEF w
<1>2. DOMAIN w = 1 .. Len(s) + 1 /\ DOMAIN s = 1 .. Len(s) /\ Len(s) \in Nat
  BY <1>1
<1>3. w # <<>>
  BY <1>1, <1>2
<1>4. ASSUME NEW x \in Range(w) PROVE x \in {e} \cup Range(s)
  <2>1. PICK j \in 1 .. Len(s) + 1 : x = w[j]
    BY <1>2 DEF Range
  <2>2. j # 1 => j - 1 \in DOMAIN s
    BY <1>2
  <2> QED BY <1>1, <2>1, <2>2 DEF Range
<1>5. e \in Range(w)
  <2>1. 1 \in DOMAIN w /\ w[1] = e
    BY <1>1, <1>2
  <2> QED BY <2>1 DEF Range
<1>6. ASSUME NEW x \in Range(s) PROVE x \in Range(w)
  <2>1. PICK j \in 1 .. Len(s) : x = s[j]
    BY <1>2 DEF Range
  <2>2. j + 1 \in DOMAIN w /\ w[j + 1] = x
    BY <1>1, <1>2, <2>1
  <2> QED BY <2>2 DEF Range
<1>7. ASSUME IsInjective(s), e \notin Range(s) PROVE IsInjective(w)
  <2>1. SUFFICES ASSUME NEW a \in 1 .. Len(s) + 1, NEW b \in 1 .. Len(s) + 1, w[a] = w[b]
                 PROVE  a = b
    BY <1>2 DEF IsInjective
  <2>2. \A c, d \in 1 .. Len(s) : s[c] = s[d] => c = d
    BY <1>2, <1>7 DEF IsInjective
  <2>3. \A c \in 1 .. Len(s) : s[c] # e
    BY <1>2, <1>7 DEF Range
  <2>4. \A c \in 1 .. Len(s) + 1 :
           \/ c = 1 /\ w[c] = e
           \/ c > 1 /\ c - 1 \in 1 .. Len(s) /\ w[c] = s[c - 1]
    BY <1>1, <1>2
  <2> QED BY <1>2, <2>1, <2>2, <2>3, <2>4
<1> QED BY <1>1, <1>3, <1>4, <1>5, <1>6, <1>7 DEF w

(* Linking a new e at the tail of a list of distinct nodes. *)
LEMMA AppendElements ==
  ASSUME NEW S, NEW s \in Seq(S), NEW e \in S
  PROVE  /\ Append(s, e) \in Seq(S)
         /\ Append(s, e) # <<>>
         /\ Range(Append(s, e)) = Range(s) \cup {e}
         /\ IsInjective(s) /\ e \notin Range(s) => IsInjective(Append(s, e))
<1> DEFINE w == Append(s, e)
<1>1. /\ w \in Seq(S) /\ Len(w) = Len(s) + 1 /\ Len(s) \in Nat
      /\ \A j \in 1 .. Len(s) + 1 : w[j] = IF j = Len(s) + 1 THEN e ELSE s[j]
      /\ DOMAIN w = 1 .. Len(s) + 1 /\ DOMAIN s = 1 .. Len(s)
  OBVIOUS
<1> HIDE DEF w
<1>2. w # <<>>
  BY <1>1
<1>3. ASSUME NEW x \in Range(w) PROVE x \in Range(s) \cup {e}
  BY <1>1 DEF Range
<1>4. e \in Range(w)
  <2>1. Len(s) + 1 \in DOMAIN w /\ w[Len(s) + 1] = e
    BY <1>1
  <2> QED BY <2>1 DEF Range
<1>5. ASSUME NEW x \in Range(s) PROVE x \in Range(w)
  <2>1. PICK j \in 1 .. Len(s) : x = s[j]
    BY <1>1 DEF Range
  <2>2. j \in DOMAIN w /\ w[j] = x
    BY <1>1, <2>1
  <2> QED BY <2>2 DEF Range
<1>6. ASSUME IsInjective(s), e \notin Range(s) PROVE IsInjective(w)
  <2>1. \A c, d \in 1 .. Len(s) : s[c] = s[d] => c = d
    BY <1>1, <1>6 DEF IsInjective
  <2>2. \A c \in 1 .. Len(s) : s[c] # e
    BY <1>1, <1>6 DEF Range
  <2> QED BY <1>1, <2>1, <2>2 DEF IsInjective
<1> QED BY <1>1, <1>2, <1>3, <1>4, <1>5, <1>6 DEF w

(* One list behind another. *)
LEMMA ConcatElements ==
  ASSUME NEW S, NEW s \in Seq(S), NEW r \in Seq(S)
  PROVE  /\ s \o r \in Seq(S)
         /\ Range(s \o r) = Range(s) \cup Range(r)
         /\ IsInjective(s) /\ IsInjective(r) /\ Range(s) \cap Range(r) = {}
               => IsInjective(s \o r)
<1> DEFINE w == s \o r
<1>1. /\ w \in Seq(S) /\ Len(w) = Len(s) + Len(r)
      /\ \A j \in 1 .. Len(s) + Len(r) : w[j] = IF j <= Len(s) THEN s[j] ELSE r[j - Len(s)]
  BY ConcatProperties
<1> HIDE DEF w
<1>2. /\ DOMAIN s = 1 .. Len(s) /\ DOMAIN r = 1 .. Len(r) /\ DOMAIN w = 1 .. Len(s) + Len(r)
      /\ Len(s) \in Nat /\ Len(r) \in Nat
  BY <1>1
<1>3. \A j \in DOMAIN w : \/ j \in DOMAIN s /\ w[j] = s[j]
                          \/ j > Len(s) /\ j - Len(s) \in DOMAIN r /\ w[j] = r[j - Len(s)]
  BY <1>1, <1>2
<1>4. ASSUME NEW x \in Range(w) PROVE x \in Range(s) \cup Range(r)
  BY <1>3 DEF Range
<1>5. ASSUME NEW x \in Range(s) PROVE x \in Range(w)
  <2>1. PICK j \in 1 .. Len(s) : x = s[j]
    BY <1>2 DEF Range
  <2>2. j \in DOMAIN w /\ w[j] = x
    BY <1>1, <1>2, <2>1
  <2> QED BY <2>2 DEF Range
<1>6. ASSUME NEW x \in Range(r) PROVE x \in Range(w)
  <2>1. PICK j \in 1 .. Len(r) : x = r[j]
    BY <1>2 DEF Range
  <2>2. j + Len(s) \in DOMAIN w /\ ~(j + Len(s) <= Len(s)) /\ (j + Len(s)) - Len(s) = j
    BY <1>2, <2>1
  <2>3. w[j + Len(s)] = x
    BY <1>1, <1>2, <2>1, <2>2
  <2> QED BY <2>2, <2>3 DEF Range
<1>7. ASSUME IsInjective(s), IsInjective(r), Range(s) \cap Range(r) = {}
      PROVE  IsInjective(w)
  <2> SUFFICES ASSUME NEW a \in DOMAIN w, NEW b \in DOMAIN w, w[a] = w[b]
               PROVE  a = b
    BY DEF IsInjective
  <2>1. \A i \in DOMAIN s, j \in DOMAIN r : s[i] # r[j]
    BY <1>7 DEF Range
  <2>2. CASE a \in DOMAIN s /\ w[a] = s[a]
    <3>1. b \in DOMAIN s /\ w[b] = s[b]
      BY <1>3, <2>1, <2>2
    <3> QED BY <1>7, <2>2, <3>1 DEF IsInjective
  <2>3. CASE a > Len(s) /\ a - Len(s) \in DOMAIN r /\ w[a] = r[a - Len(s)]
    <3>1. b > Len(s) /\ b - Len(s) \in DOMAIN r /\ w[b] = r[b - Len(s)]
      BY <1>3, <2>1, <2>3
    <3>2. a - Len(s) = b - Len(s)
      BY <1>7, <2>3, <3>1 DEF IsInjective
    <3> QED BY <1>2, <3>2
  <2> QED BY <1>3, <2>2, <2>3
<1> QED BY <1>1, <1>4, <1>5, <1>6, <1>7 DEF w

(* The empty list, and the only one without elements. *)
LEMMA EmptyElements ==
  /\ Range(<<>>) = {} /\ IsInjective(<<>>)
  /\ \A S : <<>> \in Seq(S)
  /\ \A S : \A s \in Seq(S) : Range(s) = {} => s = <<>>
<1>1. Range(<<>>) = {} /\ IsInjective(<<>>)
  <2> DEFINE e == <<>>
  <2>1. e \in Seq({}) /\ Len(e) = 0
    OBVIOUS
  <2> HIDE DEF e
  <2>2. DOMAIN e = {}
    BY <2>1
  <2>3. Range(e) = {} /\ IsInjective(e)
    BY <2>2 DEF Range, IsInjective
  <2> QED BY <2>3 DEF e
<1>2. ASSUME NEW S, NEW s \in Seq(S), s # <<>> PROVE Range(s) # {}
  <2>1. 1 \in DOMAIN s
    BY <1>2
  <2> QED BY <2>1 DEF Range
<1> QED BY <1>1, <1>2

-----------------------------------------------------------------------------
(* Counters and indices that start again at their end, as the tick         *)
(* counter and the indices of the kernel's rings do.                       *)

(* An index that passes the end once, ... *)
LEMMA ModUp ==
  ASSUME NEW M \in Nat \ {0}, NEW x \in 0 .. 2 * M - 1
  PROVE  x % M = IF x < M THEN x ELSE x - M
<1>1. CASE x < M
  BY <1>1
<1>2. CASE x >= M
  <2> DEFINE y == x - M
  <2>1. y \in 0 .. M - 1
    BY <1>2
  <2>2. x = 1 * M + y
    OBVIOUS
  <2> QED BY <1>2, <2>1, <2>2
<1> QED BY <1>1, <1>2

(* ... and the distance of two indices. *)
LEMMA ModDown ==
  ASSUME NEW M \in Nat \ {0}, NEW x \in 1 - M .. M - 1
  PROVE  x % M = IF x >= 0 THEN x ELSE x + M
<1>1. CASE x >= 0
  BY <1>1
<1>2. CASE x < 0
  BY <1>2
<1> QED BY <1>1, <1>2

-----------------------------------------------------------------------------
(* Lists kept in ascending order of a key, as the kernel keeps its delays  *)
(* and its timers.                                                         *)

Ascending(s, k) == \A i, j \in 1 .. Len(s) : i < j => k[s[i]] <= k[s[j]]

(* The order depends on the keys of the elements only. *)
LEMMA AscendingAgrees ==
  ASSUME NEW S, NEW s \in Seq(S), NEW k, NEW h, Ascending(s, k), \A x \in Range(s) : h[x] = k[x]
  PROVE  Ascending(s, h)
<1>1. \A i \in 1 .. Len(s) : s[i] \in Range(s)
  BY DEF Range
<1>2. \A i \in 1 .. Len(s) : h[s[i]] = k[s[i]]
  BY <1>1
<1> QED BY <1>2 DEF Ascending

(* Unlinking keeps the order, ... *)
LEMMA RmNodeAscending ==
  ASSUME NEW S, NEW s \in Seq(S), NEW k, NEW e, Ascending(s, k)
  PROVE  Ascending(RmNode(s, e), k)
<1>1. CASE e \notin Range(s)
  BY <1>1 DEF RmNode
<1>2. CASE e \in Range(s)
  <2> DEFINE i == CHOOSE i \in DOMAIN s : s[i] = e
             w == RemoveAt(s, i)
  <2>1. i \in 1 .. Len(s) /\ s[i] = e
    BY <1>2 DEF Range
  <2>2. RmNode(s, e) = w
    BY <1>2 DEF RmNode
  <2> HIDE DEF i
  <2>3. /\ w \in Seq(S)
        /\ Len(w) = Len(s) - 1
        /\ \A j \in 1 .. Len(s) - 1 : w[j] = IF j < i THEN s[j] ELSE s[j + 1]
    BY <2>1, RemoveAtShift
  <2> HIDE DEF w
  <2>4. ASSUME NEW a \in 1 .. Len(w), NEW b \in 1 .. Len(w), a < b PROVE k[w[a]] <= k[w[b]]
    <3> DEFINE c == IF a < i THEN a ELSE a + 1
               d == IF b < i THEN b ELSE b + 1
    <3>1. c \in 1 .. Len(s) /\ d \in 1 .. Len(s) /\ c < d
      BY <2>1, <2>3, <2>4
    <3>2. w[a] = s[c] /\ w[b] = s[d]
      BY <2>3, <2>4
    <3> HIDE DEF c, d
    <3> QED BY <3>1, <3>2 DEF Ascending
  <2> QED BY <2>2, <2>4 DEF Ascending
<1> QED BY <1>1, <1>2

(* ... taking the first off too, which has the least key, ... *)
LEMMA TailAscending ==
  ASSUME NEW S, NEW s \in Seq(S), NEW k, s # <<>>, Ascending(s, k), \A x \in S : k[x] \in Int
  PROVE  /\ Ascending(Tail(s), k)
         /\ \A x \in Range(s) : k[Head(s)] <= k[x]
<1> DEFINE w == Tail(s)
<1>1. /\ w \in Seq(S) /\ Len(w) = Len(s) - 1 /\ Len(s) \in Nat /\ Len(s) # 0
      /\ \A i \in 1 .. Len(s) - 1 : w[i] = s[i + 1]
      /\ Head(s) = s[1] /\ DOMAIN s = 1 .. Len(s)
  OBVIOUS
<1> HIDE DEF w
<1>2. ASSUME NEW a \in 1 .. Len(w), NEW b \in 1 .. Len(w), a < b PROVE k[w[a]] <= k[w[b]]
  <2>1. a + 1 \in 1 .. Len(s) /\ b + 1 \in 1 .. Len(s) /\ a + 1 < b + 1
    BY <1>1, <1>2
  <2>2. w[a] = s[a + 1] /\ w[b] = s[b + 1]
    BY <1>1
  <2> QED BY <2>1, <2>2 DEF Ascending
<1>3. ASSUME NEW x \in Range(s) PROVE k[s[1]] <= k[x]
  <2>1. PICK i \in 1 .. Len(s) : x = s[i]
    BY <1>1 DEF Range
  <2>2. 1 \in 1 .. Len(s) /\ s[1] \in S
    BY <1>1
  <2>3. CASE i = 1
    BY <2>1, <2>2, <2>3
  <2>4. CASE 1 < i
    BY <2>1, <2>2, <2>4 DEF Ascending
  <2> QED BY <2>1, <2>3, <2>4
<1>4. Ascending(w, k)
  BY <1>2 DEF Ascending
<1> QED BY <1>1, <1>3, <1>4 DEF w

(* ... and linking in front of the first with a greater key. *)
LEMMA InsertSortedAscending ==
  ASSUME NEW S, NEW s \in Seq(S), NEW e \in S, NEW k, NEW h, NEW key \in Int,
         Ascending(s, k), \A x \in S : k[x] \in Int, h[e] = key, \A x \in Range(s) : h[x] = k[x]
  PROVE  Ascending(InsertSorted(s, e, key, k), h)
<1> DEFINE p == SortedPos(s, key, k)
           w == InsertAt(s, p, e)
<1>1. p \in 1 .. Len(s) + 1
  BY SortedPosRange
<1>2. /\ Len(s) \in Nat /\ DOMAIN s = 1 .. Len(s)
      /\ \A i \in 1 .. Len(s) : s[i] \in S /\ k[s[i]] \in Int /\ h[s[i]] = k[s[i]]
  <2>1. Len(s) \in Nat /\ DOMAIN s = 1 .. Len(s) /\ \A i \in 1 .. Len(s) : s[i] \in S /\ s[i] \in Range(s)
    BY DEF Range
  <2> QED BY <2>1
<1>3. /\ \A i \in 1 .. Len(s) : i < p => k[s[i]] <= key
      /\ p <= Len(s) => key < k[s[p]]
  <2> DEFINE P(j) == key < k[s[j]]
  <2>1. CASE \E j \in DOMAIN s : P(j)
    <3> DEFINE T == {j \in DOMAIN s : P(j)}
    <3>1. PICK n \in T : \A m \in T : n <= m
      <4>1. T \subseteq Nat /\ T # {}
        BY <2>1
      <4> HIDE DEF T
      <4> QED BY <4>1, LeastExists
    <3>2. n \in DOMAIN s /\ P(n) /\ \A j \in DOMAIN s : j < n => ~P(j)
      BY <3>1
    <3>3. p = CHOOSE j \in DOMAIN s : P(j) /\ \A m \in DOMAIN s : m < j => ~P(m)
      BY <2>1 DEF SortedPos
    <3> HIDE DEF P, p
    <3>4. p \in DOMAIN s /\ P(p) /\ \A m \in DOMAIN s : m < p => ~P(m)
      BY <3>2, <3>3
    <3>5. key < k[s[p]] /\ \A m \in 1 .. Len(s) : m < p => ~(key < k[s[m]])
      BY <1>2, <3>4 DEF P
    <3> QED BY <1>2, <3>5
  <2>2. CASE ~\E j \in DOMAIN s : P(j)
    <3>1. p = Len(s) + 1
      BY <2>2 DEF SortedPos
    <3> HIDE DEF p
    <3> QED BY <1>2, <2>2, <3>1
  <2> QED BY <2>1, <2>2
<1>4. InsertSorted(s, e, key, k) = w
  BY DEF InsertSorted
<1> HIDE DEF p
<1>5. /\ w \in Seq(S) /\ Len(w) = Len(s) + 1
      /\ \A j \in 1 .. Len(s) + 1 : w[j] = IF j < p THEN s[j] ELSE IF j = p THEN e ELSE s[j - 1]
  BY <1>1, InsertAtShift
<1> HIDE DEF w
<1>6. \A i \in 1 .. Len(s) : i >= p => key <= k[s[i]]
  <2> SUFFICES ASSUME NEW i \in 1 .. Len(s), i >= p PROVE key <= k[s[i]]
    OBVIOUS
  <2>1. p \in 1 .. Len(s) /\ key < k[s[p]]
    BY <1>1, <1>2, <1>3
  <2>2. i = p \/ k[s[p]] <= k[s[i]]
    BY <1>1, <2>1 DEF Ascending
  <2> QED BY <1>2, <2>1, <2>2
<1>7. ASSUME NEW a \in 1 .. Len(s) + 1, NEW b \in 1 .. Len(s) + 1, a < b PROVE h[w[a]] <= h[w[b]]
  <2>1. CASE b < p
    <3>1. a \in 1 .. Len(s) /\ b \in 1 .. Len(s) /\ w[a] = s[a] /\ w[b] = s[b]
      BY <1>1, <1>2, <1>5, <1>7, <2>1
    <3> QED BY <1>2, <1>7, <3>1 DEF Ascending
  <2>2. CASE b = p
    <3>1. a \in 1 .. Len(s) /\ a < p /\ w[a] = s[a] /\ w[b] = e
      BY <1>1, <1>2, <1>5, <1>7, <2>2
    <3> QED BY <1>2, <1>3, <3>1
  <2>3. CASE b > p /\ a < p
    <3>1. a \in 1 .. Len(s) /\ b - 1 \in 1 .. Len(s) /\ b - 1 >= p /\ w[a] = s[a] /\ w[b] = s[b - 1]
      BY <1>1, <1>2, <1>5, <2>3
    <3>2. k[s[a]] <= key /\ key <= k[s[b - 1]]
      BY <1>3, <1>6, <2>3, <3>1
    <3> QED BY <1>2, <3>1, <3>2
  <2>4. CASE b > p /\ a = p
    <3>1. b - 1 \in 1 .. Len(s) /\ b - 1 >= p /\ w[a] = e /\ w[b] = s[b - 1]
      BY <1>1, <1>2, <1>5, <2>4
    <3> QED BY <1>2, <1>6, <3>1
  <2>5. CASE a > p
    <3>1. a - 1 \in 1 .. Len(s) /\ b - 1 \in 1 .. Len(s) /\ a - 1 < b - 1 /\ w[a] = s[a - 1] /\ w[b] = s[b - 1]
      BY <1>1, <1>2, <1>5, <1>7, <2>5
    <3> QED BY <1>2, <3>1 DEF Ascending
  <2> QED BY <1>1, <1>2, <2>1, <2>2, <2>3, <2>4, <2>5
<1> QED BY <1>4, <1>5, <1>7 DEF Ascending
=============================================================================
