----------------------------- MODULE HeapProofs -----------------------------
(***************************************************************************)
(* The heap for any region, header, alignment, number of lists and sizes:  *)
(* blocks tile the region, the chain holds exactly the free ones in order, *)
(* the search finds the best fit, and no two callers share a byte.         *)
(***************************************************************************)
EXTENDS Heap, DoubleLinkProofs, FiniteSetTheorems

-----------------------------------------------------------------------------
(* The inductive invariant, of the blocks f, the chain c and a heap h. *)

IsBlocks(f) ==
    /\ f \in [DOMAIN f -> Node] /\ DOMAIN f \subseteq Addr
    /\ \A a \in {0, Total - Hdr} : a \in DOMAIN f /\ f[a].size = Hdr /\ f[a].alloc

(* Blocks do not overlap, and the tags lead from each one to the next and  *)
(* to the one before.                                                      *)
Tiled(f) ==
    /\ IsBlocks(f)
    /\ \A a, b \in DOMAIN f : a < b => a + f[a].size <= b
    /\ \A a \in DOMAIN f : a # Total - Hdr =>
          /\ a + f[a].size \in DOMAIN f
          /\ f[a + f[a].size].prev_adj_size = f[a].size
    /\ \A a \in DOMAIN f : a # 0 =>
          /\ a - f[a].prev_adj_size \in DOMAIN f
          /\ f[a - f[a].prev_adj_size].size = f[a].prev_adj_size

(* Of two neighbours at most one is free. *)
Coalesced(f) ==
    \A a \in DOMAIN f : a # Total - Hdr => f[a].alloc \/ f[a + f[a].size].alloc

Free(f) == {a \in DOMAIN f : ~f[a].alloc}
Used(f) == {a \in DOMAIN f : f[a].alloc} \ {0, Total - Hdr}

Span(f, a)   == a .. a + f[a].size - 1
UsedBytes(f) == {x \in Addr : \E a \in Used(f) : x \in Span(f, a)}

(* The chain has the heads in order and, behind the head of its list, the  *)
(* elements of S by size.                                                  *)
Heads        == {-k : k \in 1 .. LinkNrs}
ListOf(f, x) == IF x < 0 THEN -x ELSE CaculateBuddyIndex(f[x].size)
Before(f, x, y) ==
    \/ ListOf(f, x) < ListOf(f, y)
    \/ ListOf(f, x) = ListOf(f, y) /\ y >= 0 /\ SizeIn(f, x) <= SizeIn(f, y)

Chained(f, S, c) ==
    /\ c \in Seq(Addr \cup Heads) /\ IsInjective(c)
    /\ Range(c) = S \cup Heads
    /\ \A i, j \in 1 .. Len(c) : i < j => Before(f, c[i], c[j])

HeapOK(h) ==
    /\ h = [node |-> h.node, chain |-> h.chain, active_memory |-> h.active_memory]
    /\ Tiled(h.node) /\ Coalesced(h.node)
    /\ Chained(h.node, Free(h.node), h.chain)
    /\ h.active_memory = Cardinality(UsedBytes(h.node))

(* The blocks the segments were carved from at start-up. *)
SegBase ==
    LET m1 == BigMemMalloc(InitBuddy, (SmallSize[1] + Hdr) * SmallNumber[1])
        m2 == BigMemMalloc(m1.heap, (SmallSize[2] + Hdr) * SmallNumber[2])
    IN  <<m1.block, IF m1.block = None THEN None ELSE m2.block>>

SmallBlocks(seg) == Range(SegmentBlocks(seg, SegBase[seg]))

SegmentsOK(f) ==
    /\ \A seg \in 1 .. 2 : SegBase[seg] # None =>
          /\ SegBase[seg] \in Used(f)
          /\ f[SegBase[seg]].size >= Hdr + (SmallSize[seg] + Hdr) * SmallNumber[seg]
    /\ SegBase[1] = SegBase[2] => SegBase[1] = None

FreelistsOK ==
    /\ freelist \in [1 .. 2 -> Seq(Addr)] /\ count \in [1 .. 2 -> Nat]
    /\ \A seg \in 1 .. 2 : /\ IsInjective(freelist[seg])
                           /\ Range(freelist[seg]) \subseteq SmallBlocks(seg)
                           /\ count[seg] = Len(freelist[seg])

(* A block a caller has is a whole block of the heap, large enough and not *)
(* one of the segments', or a small block that is not in its list.         *)
GivenOK ==
    /\ given \in [DOMAIN given -> [seg : 0 .. 2, size : Sizes]]
    /\ \A a \in DOMAIN given :
          IF given[a].seg = 0
          THEN /\ a \in Used(heap.node) /\ a # SegBase[1] /\ a # SegBase[2]
               /\ heap.node[a].size >= Hdr + given[a].size
          ELSE /\ a \in SmallBlocks(given[a].seg) /\ a \notin Range(freelist[given[a].seg])
               /\ given[a].size <= SmallSize[given[a].seg]

HeapInv == HeapOK(heap) /\ SegmentsOK(heap.node) /\ FreelistsOK /\ GivenOK

-----------------------------------------------------------------------------
(* Numbers. *)

LEMMA PowerPositive == ASSUME NEW k \in Nat PROVE 2 ^ k \in Nat \ {0}
<1> DEFINE S == 1 .. k
<1>1. IsFiniteSet(S) /\ Cardinality(S) = k
  BY FS_Interval
<1> HIDE DEF S
<1>2. IsFiniteSet(SUBSET S) /\ Cardinality(SUBSET S) = 2 ^ Cardinality(S)
  BY <1>1, FS_SUBSET
<1>3. Cardinality(SUBSET S) \in Nat
  BY <1>2, FS_CardinalityType
<1>4. SUBSET S # {}
  OBVIOUS
<1>5. Cardinality(SUBSET S) # 0
  BY <1>2, <1>4, FS_EmptySet
<1> QED BY <1>1, <1>2, <1>3, <1>5

(* What is asked for is rounded up, never down. *)
LEMMA AlignedUp ==
  ASSUME NEW s \in Nat
  PROVE  ALIGN_MEN_UP(s) \in Nat /\ ALIGN_MEN_UP(s) >= s
<1> DEFINE n == s + Align - 1
           r == n % Align
<1>1. Align \in Nat /\ Align > 0
  BY HeapAssumption
<1>2. n \in Int /\ n >= s
  BY <1>1
<1>3. n = Align * (n \div Align) + r /\ r \in 0 .. Align - 1 /\ n \div Align \in Int
  BY <1>1, <1>2
<1>4. Align * (n \div Align) = (n \div Align) * Align
  BY <1>1, <1>3
<1>5. n - r >= s /\ n - r \in Int
  BY <1>1, <1>3
<1>6. (n \div Align) * Align = n - r
  BY <1>1, <1>2, <1>3, <1>4
<1> QED BY <1>5, <1>6 DEF ALIGN_MEN_UP

(* The i-th and the j-th of a row of blocks of width w. *)
LEMMA RowSpacing ==
  ASSUME NEW i \in Nat, NEW j \in Nat, NEW w \in Nat, i < j
  PROVE  i * w \in Nat /\ j * w \in Nat /\ i * w + w <= j * w
<1>1. PICK d \in Nat : j = i + 1 + d
  <2>1. j - i - 1 \in Nat /\ j = i + 1 + (j - i - 1)
    OBVIOUS
  <2> QED BY <2>1
<1>2. (i + 1 + d) * w = i * w + w + d * w
  OBVIOUS
<1>3. i * w \in Nat /\ d * w \in Nat
  OBVIOUS
<1> QED BY <1>1, <1>2, <1>3

LEMMA MinOf ==
  ASSUME NEW n \in Nat, NEW lo \in 1 .. n + 1, NEW T, T \subseteq lo .. n
  PROVE  LET m == Min(T \cup {n + 1})
         IN  m \in lo .. n + 1 /\ (m <= n => m \in T) /\ \A j \in T : m <= j
<1> DEFINE U == T \cup {n + 1}
           m == Min(U)
<1>1. U \subseteq Nat /\ U # {}
  OBVIOUS
<1>2. PICK x \in U : \A y \in U : x <= y
  <2> HIDE DEF U
  <2> QED BY <1>1, LeastExists
<1>3. m \in U /\ \A y \in U : m <= y
  BY <1>2 DEF Min
<1> HIDE DEF m
<1>4. m \in lo .. n + 1 /\ (m <= n => m \in T) /\ \A j \in T : m <= j
  BY <1>3
<1> QED BY <1>4 DEF m

-----------------------------------------------------------------------------
(* The lists by size. *)

LEMMA IndexInLists ==
  ASSUME NEW s \in Int
  PROVE  CaculateBuddyIndex(s) \in 1 .. LinkNrs
<1> DEFINE K == {k \in 1 .. LinkNrs - 1 : s >= 2 ^ (LowShift + k)}
<1>1. LinkNrs \in Nat /\ LinkNrs > 0
  BY HeapAssumption
<1>2. IsFiniteSet(1 .. LinkNrs - 1) /\ Cardinality(1 .. LinkNrs - 1) = LinkNrs - 1
  BY <1>1, FS_Interval
<1>3. K \in SUBSET (1 .. LinkNrs - 1)
  OBVIOUS
<1>4. CaculateBuddyIndex(s) = 1 + Cardinality(K)
  BY DEF CaculateBuddyIndex
<1> HIDE DEF K
<1>5. IsFiniteSet(K) /\ Cardinality(K) <= LinkNrs - 1
  BY <1>2, <1>3, FS_Subset
<1>6. Cardinality(K) \in Nat
  BY <1>5, FS_CardinalityType
<1> QED BY <1>1, <1>4, <1>5, <1>6

LEMMA IndexMonotone ==
  ASSUME NEW s \in Int, NEW t \in Int, s <= t
  PROVE  CaculateBuddyIndex(s) <= CaculateBuddyIndex(t)
<1> DEFINE K(x) == {k \in 1 .. LinkNrs - 1 : x >= 2 ^ (LowShift + k)}
           A    == K(s)
           B    == K(t)
<1>1. LinkNrs \in Nat /\ LowShift \in Nat
  BY HeapAssumption
<1>2. ASSUME NEW k \in 1 .. LinkNrs - 1, s >= 2 ^ (LowShift + k)
      PROVE  t >= 2 ^ (LowShift + k)
  <2> DEFINE p == 2 ^ (LowShift + k)
  <2>1. LowShift + k \in Nat
    BY <1>1
  <2>2. p \in Nat
    BY <2>1, PowerPositive
  <2>3. s >= p
    BY <1>2
  <2> HIDE DEF p
  <2>4. t >= p
    BY <2>2, <2>3
  <2> QED BY <2>4 DEF p
<1>3. A \subseteq B /\ B \subseteq 1 .. LinkNrs - 1
  BY <1>2
<1>4. CaculateBuddyIndex(s) = 1 + Cardinality(A) /\ CaculateBuddyIndex(t) = 1 + Cardinality(B)
  BY DEF CaculateBuddyIndex
<1> HIDE DEF A, B
<1>5. IsFiniteSet(1 .. LinkNrs - 1)
  BY <1>1, FS_Interval
<1>6. IsFiniteSet(B)
  BY <1>3, <1>5, FS_Subset
<1>7. IsFiniteSet(A) /\ Cardinality(A) <= Cardinality(B)
  BY <1>3, <1>6, FS_Subset
<1>8. Cardinality(A) \in Nat /\ Cardinality(B) \in Nat
  BY <1>6, <1>7, FS_CardinalityType
<1> QED BY <1>4, <1>7, <1>8

-----------------------------------------------------------------------------
(* The chain. *)

Sized(f, S) == \A x \in S : x \in Addr /\ f[x].size \in Nat \ {0}

LEMMA ChainPlaces ==
  ASSUME NEW f, NEW S, NEW c, Sized(f, S), Chained(f, S, c)
  PROVE  /\ Len(c) \in Nat /\ DOMAIN c = 1 .. Len(c)
         /\ \A i \in 1 .. Len(c) :
               /\ c[i] \in Int /\ ListOf(f, c[i]) \in 1 .. LinkNrs /\ SizeIn(f, c[i]) \in Nat
               /\ c[i] < 0 => c[i] \in Heads /\ SizeIn(f, c[i]) = 0
               /\ c[i] >= 0 => c[i] \in S /\ SizeIn(f, c[i]) > 0
<1>1. Len(c) \in Nat /\ DOMAIN c = 1 .. Len(c) /\ \A i \in 1 .. Len(c) : c[i] \in Range(c)
  BY DEF Chained, Range
<1>2. ASSUME NEW x \in S \cup Heads
      PROVE  /\ x \in Int /\ ListOf(f, x) \in 1 .. LinkNrs /\ SizeIn(f, x) \in Nat
             /\ x < 0 => x \in Heads /\ SizeIn(f, x) = 0
             /\ x >= 0 => x \in S /\ SizeIn(f, x) > 0
  <2>1. CASE x \in S
    <3>1. x \in Int /\ x >= 0 /\ f[x].size \in Nat /\ f[x].size > 0
      BY <2>1 DEF Sized, Addr
    <3>2. CaculateBuddyIndex(f[x].size) \in 1 .. LinkNrs
      BY <3>1, IndexInLists
    <3> QED BY <2>1, <3>1, <3>2 DEF ListOf, SizeIn
  <2>2. CASE x \in Heads
    <3>1. PICK k \in 1 .. LinkNrs : x = -k
      BY <2>2 DEF Heads
    <3>2. x \in Int /\ x < 0 /\ -x = k
      BY <3>1, HeapAssumption
    <3> QED BY <2>2, <3>1, <3>2 DEF ListOf, SizeIn
  <2> QED BY <1>2, <2>1, <2>2
<1>3. Range(c) = S \cup Heads
  BY DEF Chained
<1> QED BY <1>1, <1>2, <1>3

LEMMA BeforeTransitive ==
  ASSUME NEW f, NEW x \in Int, NEW y \in Int, NEW z \in Int,
         ListOf(f, x) \in Int, ListOf(f, y) \in Int, ListOf(f, z) \in Int,
         SizeIn(f, x) \in Int, SizeIn(f, y) \in Int, SizeIn(f, z) \in Int,
         Before(f, x, y), Before(f, y, z)
  PROVE  Before(f, x, z)
  BY DEF Before

(* Where the head of a list is. *)
HeadAt(c, k) == CHOOSE i \in DOMAIN c : c[i] = -k

LEMMA HeadPlace ==
  ASSUME NEW f, NEW S, NEW c, Sized(f, S), Chained(f, S, c), NEW k \in 1 .. LinkNrs
  PROVE  /\ HeadAt(c, k) \in 1 .. Len(c) /\ c[HeadAt(c, k)] = -k
         /\ \A j \in 1 .. Len(c) : j < HeadAt(c, k) => ListOf(f, c[j]) < k
         /\ \A j \in 1 .. Len(c) : j > HeadAt(c, k) =>
               ListOf(f, c[j]) >= k /\ (c[j] < 0 => ListOf(f, c[j]) > k)
<1> DEFINE hd == HeadAt(c, k)
<1>1. k \in Int /\ -k < 0 /\ -k \in Range(c)
  BY HeapAssumption DEF Chained, Heads
<1>2. hd \in DOMAIN c /\ c[hd] = -k
  BY <1>1 DEF Range, HeadAt
<1> HIDE DEF hd
<1>3. hd \in 1 .. Len(c)
  BY <1>2, ChainPlaces
<1>4. ListOf(f, c[hd]) = k
  BY <1>1, <1>2 DEF ListOf
<1>5. ASSUME NEW j \in 1 .. Len(c), j < hd PROVE ListOf(f, c[j]) < k
  <2>1. Before(f, c[j], c[hd])
    BY <1>3, <1>5 DEF Chained
  <2> QED BY <1>1, <1>2, <1>4, <2>1 DEF Before
<1>6. ASSUME NEW j \in 1 .. Len(c), j > hd
      PROVE  ListOf(f, c[j]) >= k /\ (c[j] < 0 => ListOf(f, c[j]) > k)
  <2>1. Before(f, c[hd], c[j])
    BY <1>3, <1>6 DEF Chained
  <2>2. ListOf(f, c[j]) \in Int /\ c[j] \in Int
    BY ChainPlaces
  <2> QED BY <1>1, <1>4, <2>1, <2>2 DEF Before
<1> QED BY <1>2, <1>3, <1>5, <1>6 DEF hd

(* Where the searches of the chain stop. *)
LEMMA InsertPlace ==
  ASSUME NEW h, NEW S, Sized(h.node, S), Chained(h.node, S, h.chain), NEW size \in Nat
  PROVE  LET c == h.chain
             k == CaculateBuddyIndex(size)
             p == FirstBehind(h, size, LAMBDA s : s = 0 \/ s >= size)
         IN  /\ p \in HeadAt(c, k) + 1 .. Len(c) + 1
             /\ p <= Len(c) => SizeIn(h.node, c[p]) = 0 \/ SizeIn(h.node, c[p]) >= size
             /\ \A j \in HeadAt(c, k) + 1 .. p - 1 :
                   ~(SizeIn(h.node, c[j]) = 0 \/ SizeIn(h.node, c[j]) >= size)
<1> DEFINE c  == h.chain
           k  == CaculateBuddyIndex(size)
           hd == HeadAt(c, k)
           n  == Len(c)
           T  == {i \in hd + 1 .. n : SizeIn(h.node, c[i]) = 0 \/ SizeIn(h.node, c[i]) >= size}
           p  == FirstBehind(h, size, LAMBDA s : s = 0 \/ s >= size)
<1>1. p = Min(T \cup {n + 1})
  BY DEF FirstBehind, HeadAt
<1>2. hd \in 1 .. n /\ n \in Nat
  <2>1. k \in 1 .. LinkNrs
    BY IndexInLists
  <2> HIDE DEF k
  <2>2. hd \in 1 .. Len(c)
    BY <2>1, HeadPlace
  <2>3. Len(c) \in Nat
    BY ChainPlaces
  <2> QED BY <2>2, <2>3
<1>3. T \subseteq hd + 1 .. n
  OBVIOUS
<1>4. \A j \in hd + 1 .. n : j \in T <=> SizeIn(h.node, c[j]) = 0 \/ SizeIn(h.node, c[j]) >= size
  OBVIOUS
<1> HIDE DEF p, T, hd, n, k
<1>5. p \in hd + 1 .. n + 1 /\ (p <= n => p \in T) /\ \A j \in T : p <= j
  <2> DEFINE lo == hd + 1
  <2>1. lo \in 1 .. n + 1
    BY <1>2
  <2>2. T \subseteq lo .. n
    BY <1>3
  <2> HIDE DEF lo
  <2>3. p \in lo .. n + 1 /\ (p <= n => p \in T) /\ \A j \in T : p <= j
    BY <1>1, <1>2, <2>1, <2>2, MinOf
  <2> QED BY <2>3 DEF lo
<1>6. p <= n => SizeIn(h.node, c[p]) = 0 \/ SizeIn(h.node, c[p]) >= size
  BY <1>2, <1>4, <1>5
<1>7. ASSUME NEW j \in hd + 1 .. p - 1
      PROVE  ~(SizeIn(h.node, c[j]) = 0 \/ SizeIn(h.node, c[j]) >= size)
  <2>1. j \in hd + 1 .. n /\ ~(p <= j)
    BY <1>2, <1>5
  <2> QED BY <1>4, <1>5, <2>1
<1> QED BY <1>5, <1>6, <1>7 DEF p, hd, n, k

LEMMA FitPlace ==
  ASSUME NEW h, NEW S, Sized(h.node, S), Chained(h.node, S, h.chain), NEW size \in Nat
  PROVE  LET c == h.chain
             k == CaculateBuddyIndex(size)
             p == FirstBehind(h, size, LAMBDA s : s >= size)
         IN  /\ p \in HeadAt(c, k) + 1 .. Len(c) + 1
             /\ p <= Len(c) => SizeIn(h.node, c[p]) >= size
             /\ \A j \in HeadAt(c, k) + 1 .. p - 1 : ~(SizeIn(h.node, c[j]) >= size)
<1> DEFINE c  == h.chain
           k  == CaculateBuddyIndex(size)
           hd == HeadAt(c, k)
           n  == Len(c)
           T  == {i \in hd + 1 .. n : SizeIn(h.node, c[i]) >= size}
           p  == FirstBehind(h, size, LAMBDA s : s >= size)
<1>1. p = Min(T \cup {n + 1})
  BY DEF FirstBehind, HeadAt
<1>2. hd \in 1 .. n /\ n \in Nat
  <2>1. k \in 1 .. LinkNrs
    BY IndexInLists
  <2> HIDE DEF k
  <2>2. hd \in 1 .. Len(c)
    BY <2>1, HeadPlace
  <2>3. Len(c) \in Nat
    BY ChainPlaces
  <2> QED BY <2>2, <2>3
<1>3. T \subseteq hd + 1 .. n
  OBVIOUS
<1>4. \A j \in hd + 1 .. n : j \in T <=> SizeIn(h.node, c[j]) >= size
  OBVIOUS
<1> HIDE DEF p, T, hd, n, k
<1>5. p \in hd + 1 .. n + 1 /\ (p <= n => p \in T) /\ \A j \in T : p <= j
  <2> DEFINE lo == hd + 1
  <2>1. lo \in 1 .. n + 1
    BY <1>2
  <2>2. T \subseteq lo .. n
    BY <1>3
  <2> HIDE DEF lo
  <2>3. p \in lo .. n + 1 /\ (p <= n => p \in T) /\ \A j \in T : p <= j
    BY <1>1, <1>2, <2>1, <2>2, MinOf
  <2> QED BY <2>3 DEF lo
<1>6. p <= n => SizeIn(h.node, c[p]) >= size
  BY <1>2, <1>4, <1>5
<1>7. ASSUME NEW j \in hd + 1 .. p - 1 PROVE ~(SizeIn(h.node, c[j]) >= size)
  <2>1. j \in hd + 1 .. n /\ ~(p <= j)
    BY <1>2, <1>5
  <2> QED BY <1>4, <1>5, <2>1
<1> QED BY <1>5, <1>6, <1>7 DEF p, hd, n, k

(* Unlinking a block keeps the order of the others, ... *)
LEMMA ChainRemove ==
  ASSUME NEW f, NEW S, NEW c, Sized(f, S), Chained(f, S, c), NEW a \in S
  PROVE  Chained(f, S \ {a}, RmNode(c, a))
<1> DEFINE w == RmNode(c, a)
           i == CHOOSE i \in DOMAIN c : c[i] = a
           P == Addr \cup Heads
<1>1. c \in Seq(P) /\ IsInjective(c) /\ Range(c) = S \cup Heads
  BY DEF Chained
<1>2. a \in Nat /\ a \notin Heads
  <2>1. a \in Nat
    BY DEF Sized, Addr
  <2>2. \A k \in 1 .. LinkNrs : -k < 0
    BY HeapAssumption
  <2>3. \A k \in 1 .. LinkNrs : -k # a
    BY <2>1, <2>2
  <2> QED BY <2>1, <2>3 DEF Heads
<1>3. a \in Range(c)
  BY <1>1
<1>4. i \in 1 .. Len(c) /\ c[i] = a
  <2>1. i \in DOMAIN c /\ c[i] = a
    BY <1>3 DEF Range
  <2> QED BY <1>1, <2>1
<1>5. w = RemoveAt(c, i)
  BY <1>3 DEF RmNode
<1> HIDE DEF w, i, P
<1>6. w \in Seq(P) /\ IsInjective(w) /\ Range(w) = Range(c) \ {a}
  BY <1>1, RmNodeElements DEF w
<1>7. /\ Len(w) = Len(c) - 1 /\ Len(c) \in Nat
      /\ \A j \in 1 .. Len(c) - 1 : w[j] = IF j < i THEN c[j] ELSE c[j + 1]
  <2>1. c \in Seq(P) /\ i \in 1 .. Len(c)
    BY <1>1, <1>4
  <2>2. /\ Len(RemoveAt(c, i)) = Len(c) - 1
        /\ \A j \in 1 .. Len(c) - 1 : RemoveAt(c, i)[j] = IF j < i THEN c[j] ELSE c[j + 1]
    BY <2>1, RemoveAtShift
  <2> QED BY <1>5, <2>1, <2>2
<1>8. Range(w) = (S \ {a}) \cup Heads
  BY <1>1, <1>2, <1>6
<1>9. ASSUME NEW x \in 1 .. Len(w), NEW y \in 1 .. Len(w), x < y
      PROVE  Before(f, w[x], w[y])
  <2> DEFINE u == IF x < i THEN x ELSE x + 1
             v == IF y < i THEN y ELSE y + 1
  <2>1. u \in 1 .. Len(c) /\ v \in 1 .. Len(c) /\ u < v
    BY <1>4, <1>7, <1>9
  <2>2. w[x] = c[u] /\ w[y] = c[v]
    BY <1>7, <1>9
  <2> HIDE DEF u, v
  <2>3. Before(f, c[u], c[v])
    BY <2>1 DEF Chained
  <2> QED BY <2>2, <2>3
<1>10. \A x, y \in 1 .. Len(w) : x < y => Before(f, w[x], w[y])
  BY <1>9
<1> QED BY <1>6, <1>8, <1>10 DEF Chained, w, P

(* ... and only the sizes of the blocks in the chain matter to it. *)
LEMMA ChainAgrees ==
  ASSUME NEW f, NEW g, NEW S, NEW c, Sized(f, S), Chained(f, S, c),
         \A x \in S : g[x].size = f[x].size
  PROVE  Chained(g, S, c)
<1>1. /\ Len(c) \in Nat
      /\ \A i \in 1 .. Len(c) : c[i] \in Int /\ (c[i] >= 0 => c[i] \in S)
  BY ChainPlaces
<1>2. \A i \in 1 .. Len(c) : SizeIn(g, c[i]) = SizeIn(f, c[i]) /\ ListOf(g, c[i]) = ListOf(f, c[i])
  <2> SUFFICES ASSUME NEW i \in 1 .. Len(c)
               PROVE  SizeIn(g, c[i]) = SizeIn(f, c[i]) /\ ListOf(g, c[i]) = ListOf(f, c[i])
    OBVIOUS
  <2>1. CASE c[i] < 0
    BY <2>1 DEF SizeIn, ListOf
  <2>2. CASE c[i] >= 0
    BY <1>1, <2>2 DEF SizeIn, ListOf
  <2> QED BY <1>1, <2>1, <2>2
<1>3. \A i, j \in 1 .. Len(c) : Before(f, c[i], c[j]) => Before(g, c[i], c[j])
  BY <1>2 DEF Before
<1> QED BY <1>3 DEF Chained

(* AddNewNodeIntoBuddy links a block where it belongs. *)
LEMMA ChainAdd ==
  ASSUME NEW h, NEW S, Sized(h.node, S), Chained(h.node, S, h.chain),
         NEW a \in Addr, a \notin S, h.node[a].size \in Nat \ {0}
  PROVE  Chained(h.node, S \cup {a},
                 InsertAt(h.chain, FirstBehind(h, h.node[a].size,
                                               LAMBDA s : s = 0 \/ s >= h.node[a].size), a))
<1> DEFINE c    == h.chain
           f    == h.node
           size == f[a].size
           k    == CaculateBuddyIndex(size)
           hd   == HeadAt(c, k)
           p    == FirstBehind(h, size, LAMBDA s : s = 0 \/ s >= size)
           w    == InsertAt(c, p, a)
           P    == Addr \cup Heads
<1>1. c \in Seq(P) /\ IsInjective(c) /\ Range(c) = S \cup Heads
  BY DEF Chained
<1>2. /\ Len(c) \in Nat
      /\ \A i \in 1 .. Len(c) :
               /\ c[i] \in Int /\ ListOf(f, c[i]) \in 1 .. LinkNrs /\ SizeIn(f, c[i]) \in Nat
               /\ c[i] < 0 => c[i] \in Heads /\ SizeIn(f, c[i]) = 0
               /\ c[i] >= 0 => c[i] \in S /\ SizeIn(f, c[i]) > 0
  BY ChainPlaces
<1>3. a \in Nat /\ a \in P /\ a \notin Range(c)
  <2>1. a \in Nat
    BY DEF Addr
  <2>2. \A j \in 1 .. LinkNrs : -j < 0
    BY HeapAssumption
  <2>3. \A j \in 1 .. LinkNrs : -j # a
    BY <2>1, <2>2
  <2>4. a \notin Heads
    BY <2>3 DEF Heads
  <2> QED BY <1>1, <2>1, <2>4
<1>4. size \in Nat /\ size > 0 /\ k \in 1 .. LinkNrs
  <2>1. size \in Nat /\ size > 0
    OBVIOUS
  <2> QED BY <2>1, IndexInLists
<1>5. ListOf(f, a) = k /\ SizeIn(f, a) = size
  BY <1>3 DEF ListOf, SizeIn
<1>6. /\ p \in hd + 1 .. Len(c) + 1
      /\ p <= Len(c) => SizeIn(f, c[p]) = 0 \/ SizeIn(f, c[p]) >= size
      /\ \A j \in hd + 1 .. p - 1 : ~(SizeIn(f, c[j]) = 0 \/ SizeIn(f, c[j]) >= size)
  BY <1>4, InsertPlace
<1> HIDE DEF size, p
<1>7. /\ hd \in 1 .. Len(c) /\ c[hd] = -k
      /\ \A j \in 1 .. Len(c) : j < hd => ListOf(f, c[j]) < k
      /\ \A j \in 1 .. Len(c) : j > hd =>
            ListOf(f, c[j]) >= k /\ (c[j] < 0 => ListOf(f, c[j]) > k)
  <2> HIDE DEF k
  <2> QED BY <1>4, HeadPlace
<1>8. ASSUME NEW j \in 1 .. Len(c), j >= 0, c[j] >= 0
      PROVE  /\ SizeIn(f, c[j]) <= size => ListOf(f, c[j]) <= k
             /\ SizeIn(f, c[j]) >= size => ListOf(f, c[j]) >= k
  <2>1. SizeIn(f, c[j]) = f[c[j]].size /\ ListOf(f, c[j]) = CaculateBuddyIndex(f[c[j]].size)
    BY <1>2, <1>8 DEF SizeIn, ListOf
  <2>2. f[c[j]].size \in Int /\ size \in Int
    BY <1>2, <1>4, <2>1
  <2>3. f[c[j]].size <= size => CaculateBuddyIndex(f[c[j]].size) <= k
    BY <2>2, IndexMonotone
  <2>4. size <= f[c[j]].size => k <= CaculateBuddyIndex(f[c[j]].size)
    BY <2>2, IndexMonotone
  <2> HIDE DEF k
  <2>5. CaculateBuddyIndex(f[c[j]].size) \in Int /\ k \in Int
    BY <1>2, <1>4, <2>1
  <2> QED BY <2>1, <2>2, <2>3, <2>4, <2>5
<1> HIDE DEF hd, k
<1>9. ASSUME NEW j \in 1 .. Len(c), j < p PROVE Before(f, c[j], a)
  <2>1. CASE j < hd
    BY <1>5, <1>7, <2>1 DEF Before
  <2>2. CASE j = hd
    <3>1. c[j] < 0 /\ ListOf(f, c[j]) = k /\ SizeIn(f, c[j]) = 0
      <4>1. c[j] = -k /\ -k < 0 /\ -(-k) = k
        BY <1>4, <1>7, <2>2
      <4> QED BY <1>2, <4>1 DEF ListOf
    <3> QED BY <1>3, <1>4, <1>5, <3>1 DEF Before
  <2>3. CASE j > hd
    <3>1. ~(SizeIn(f, c[j]) = 0 \/ SizeIn(f, c[j]) >= size)
      BY <1>6, <1>7, <1>9, <2>3
    <3>2. c[j] >= 0 /\ SizeIn(f, c[j]) <= size /\ ListOf(f, c[j]) >= k
      BY <1>2, <1>4, <1>7, <2>3, <3>1
    <3>3. ListOf(f, c[j]) <= k
      BY <1>8, <3>2
    <3> QED BY <1>2, <1>3, <1>4, <1>5, <3>2, <3>3 DEF Before
  <2> QED BY <1>7, <2>1, <2>2, <2>3
<1>10. p <= Len(c) => Before(f, a, c[p])
  <2> SUFFICES ASSUME p <= Len(c) PROVE Before(f, a, c[p])
    OBVIOUS
  <2>1. p \in 1 .. Len(c) /\ p > hd
    BY <1>6, <1>7
  <2>2. CASE c[p] < 0
    BY <1>5, <1>7, <2>1, <2>2 DEF Before
  <2>3. CASE c[p] >= 0
    <3>1. SizeIn(f, c[p]) >= size
      BY <1>2, <1>6, <2>1, <2>3
    <3>2. ListOf(f, c[p]) >= k
      BY <1>7, <2>1
    <3> QED BY <1>2, <1>4, <1>5, <2>1, <2>3, <3>1, <3>2 DEF Before
  <2> QED BY <1>2, <2>1, <2>2, <2>3
<1>11. ASSUME NEW j \in 1 .. Len(c), j >= p PROVE Before(f, a, c[j])
  <2>1. p \in 1 .. Len(c)
    BY <1>6, <1>7, <1>11
  <2>2. CASE j = p
    BY <1>10, <2>1, <2>2
  <2>3. CASE j > p
    <3>1. Before(f, c[p], c[j])
      BY <2>1, <2>3 DEF Chained
    <3>2. Before(f, a, c[p])
      BY <1>10, <2>1
    <3>3. ListOf(f, a) \in Int /\ SizeIn(f, a) \in Int
      BY <1>4, <1>5
    <3>4. /\ c[p] \in Int /\ ListOf(f, c[p]) \in Int /\ SizeIn(f, c[p]) \in Int
          /\ c[j] \in Int /\ ListOf(f, c[j]) \in Int /\ SizeIn(f, c[j]) \in Int
      BY <1>2, <2>1
    <3> QED BY <1>3, <3>1, <3>2, <3>3, <3>4, BeforeTransitive
  <2> QED BY <1>6, <1>7, <1>11, <2>2, <2>3
<1>12. p \in 1 .. Len(c) + 1
  BY <1>2, <1>6, <1>7
<1> HIDE DEF w, P
<1>13. w \in Seq(P) /\ IsInjective(w) /\ Range(w) = Range(c) \cup {a}
  <2> HIDE DEF c
  <2>1. c \in Seq(P) /\ p \in 1 .. Len(c) + 1 /\ a \in P
    BY <1>1, <1>3, <1>12
  <2>2. /\ InsertAt(c, p, a) \in Seq(P)
        /\ IsInjective(c) /\ a \notin Range(c) => IsInjective(InsertAt(c, p, a))
        /\ Range(InsertAt(c, p, a)) = Range(c) \cup {a}
    BY <2>1, InsertAtElements
  <2> QED BY <1>1, <1>3, <2>2 DEF w
<1>14. /\ Len(w) = Len(c) + 1
       /\ \A j \in 1 .. Len(c) + 1 : w[j] = IF j < p THEN c[j] ELSE IF j = p THEN a ELSE c[j - 1]
  <2> HIDE DEF c
  <2>1. c \in Seq(P) /\ p \in 1 .. Len(c) + 1 /\ a \in P
    BY <1>1, <1>3, <1>12
  <2>2. /\ Len(InsertAt(c, p, a)) = Len(c) + 1
        /\ \A j \in 1 .. Len(c) + 1 :
              InsertAt(c, p, a)[j] = IF j < p THEN c[j] ELSE IF j = p THEN a ELSE c[j - 1]
    BY <2>1, InsertAtShift
  <2> QED BY <2>2 DEF w
<1>15. ASSUME NEW x \in 1 .. Len(w), NEW y \in 1 .. Len(w), x < y
       PROVE  Before(f, w[x], w[y])
  <2>1. CASE x # p /\ y # p
    <3> DEFINE u == IF x < p THEN x ELSE x - 1
               v == IF y < p THEN y ELSE y - 1
    <3>1. u \in 1 .. Len(c) /\ v \in 1 .. Len(c) /\ u < v
      BY <1>2, <1>12, <1>14, <1>15, <2>1
    <3>2. w[x] = c[u] /\ w[y] = c[v]
      BY <1>14, <2>1
    <3> HIDE DEF u, v
    <3>3. Before(f, c[u], c[v])
      BY <3>1 DEF Chained
    <3> QED BY <3>2, <3>3
  <2>2. CASE y = p
    <3>1. x \in 1 .. Len(c) /\ x < p /\ w[x] = c[x] /\ w[y] = a
      BY <1>2, <1>12, <1>14, <1>15, <2>2
    <3> QED BY <1>9, <3>1
  <2>3. CASE x = p
    <3>1. y - 1 \in 1 .. Len(c) /\ y - 1 >= p /\ w[y] = c[y - 1] /\ w[x] = a
      BY <1>2, <1>12, <1>14, <1>15, <2>3
    <3> QED BY <1>11, <3>1
  <2> QED BY <2>1, <2>2, <2>3
<1>16. \A x, y \in 1 .. Len(w) : x < y => Before(f, w[x], w[y])
  BY <1>15
<1>17. Range(w) = (S \cup {a}) \cup Heads
  BY <1>1, <1>13
<1>18. Chained(f, S \cup {a}, w)
  BY <1>13, <1>16, <1>17 DEF Chained, P
<1> QED BY <1>18 DEF w, p, size

(* The search of BigMemMalloc finds the smallest block that is larger than *)
(* needed, unless there is none or one of exactly the size.                *)
LEMMA BestFitIs ==
  ASSUME NEW h, NEW S, Sized(h.node, S), Chained(h.node, S, h.chain), NEW need \in Nat \ {0}
  PROVE  LET fits  == {x \in S : h.node[x].size > need}
             found == BestFit(h, need)
         IN  IF fits = {} \/ \E x \in S : h.node[x].size = need
             THEN found = None
             ELSE found \in fits /\ \A x \in fits : h.node[found].size <= h.node[x].size
<1> DEFINE c     == h.chain
           f     == h.node
           k     == CaculateBuddyIndex(need)
           hd    == HeadAt(c, k)
           p     == FirstBehind(h, need, LAMBDA s : s >= need)
           fits  == {x \in S : f[x].size > need}
           found == BestFit(h, need)
<1>1. need \in Int /\ need > 0 /\ k \in 1 .. LinkNrs
  <2>1. need \in Int /\ need > 0
    OBVIOUS
  <2> QED BY <2>1, IndexInLists
<1>2. /\ Len(c) \in Nat /\ DOMAIN c = 1 .. Len(c)
      /\ \A i \in 1 .. Len(c) :
               /\ c[i] \in Int /\ ListOf(f, c[i]) \in 1 .. LinkNrs /\ SizeIn(f, c[i]) \in Nat
               /\ c[i] < 0 => c[i] \in Heads /\ SizeIn(f, c[i]) = 0
               /\ c[i] >= 0 => c[i] \in S /\ SizeIn(f, c[i]) > 0
  BY ChainPlaces
<1>3. /\ p \in hd + 1 .. Len(c) + 1
      /\ p <= Len(c) => SizeIn(f, c[p]) >= need
      /\ \A j \in hd + 1 .. p - 1 : ~(SizeIn(f, c[j]) >= need)
  BY FitPlace
<1>4. found = IF p <= Len(c) /\ SizeIn(f, c[p]) > need THEN c[p] ELSE None
  BY DEF BestFit
<1> HIDE DEF p, found
<1>5. /\ hd \in 1 .. Len(c) /\ c[hd] = -k
      /\ \A j \in 1 .. Len(c) : j < hd => ListOf(f, c[j]) < k
  <2> HIDE DEF k
  <2> QED BY <1>1, HeadPlace
<1>6. ASSUME NEW x \in S
      PROVE  /\ x >= 0 /\ f[x].size \in Nat /\ x \in Range(c) /\ SizeIn(f, x) = f[x].size
             /\ ListOf(f, x) = CaculateBuddyIndex(f[x].size)
  <2>1. x \in Nat /\ f[x].size \in Nat
    BY DEF Sized, Addr
  <2>2. x \in Range(c)
    BY DEF Chained
  <2> QED BY <2>1, <2>2 DEF SizeIn, ListOf
<1>7. ASSUME NEW x \in S, f[x].size >= need
      PROVE  p <= Len(c) /\ c[p] \in S /\ f[c[p]].size >= need /\ f[c[p]].size <= f[x].size
  <2>1. PICK j \in 1 .. Len(c) : c[j] = x
    BY <1>2, <1>6 DEF Range
  <2>2. ListOf(f, x) >= k
    <3>1. k <= CaculateBuddyIndex(f[x].size)
      BY <1>1, <1>6, <1>7, IndexMonotone
    <3> HIDE DEF k
    <3> QED BY <1>1, <1>2, <1>6, <2>1, <3>1
  <2> HIDE DEF k
  <2>3. j # hd
    <3>1. -k < 0
      BY <1>1
    <3> QED BY <1>1, <1>5, <1>6, <2>1, <3>1
  <2>4. ~(j < hd)
    BY <1>1, <1>2, <1>5, <2>1, <2>2
  <2>5. SizeIn(f, c[j]) >= need
    BY <1>6, <1>7, <2>1
  <2> HIDE DEF hd
  <2>6. p <= j /\ p \in 1 .. Len(c)
    BY <1>2, <1>3, <1>5, <2>3, <2>4, <2>5
  <2>7. c[p] \in S /\ f[c[p]].size = SizeIn(f, c[p]) /\ SizeIn(f, c[p]) >= need
    BY <1>1, <1>2, <1>3, <1>6, <2>6
  <2>8. CASE p = j
    BY <1>1, <1>2, <1>6, <2>1, <2>6, <2>7, <2>8
  <2>9. CASE p < j
    <3>1. Before(f, c[p], x)
      BY <2>1, <2>6, <2>9 DEF Chained
    <3>2. ListOf(f, c[p]) \in Int /\ ListOf(f, x) \in Int
      BY <1>2, <2>1, <2>6
    <3>3. f[c[p]].size \in Int /\ f[x].size \in Int
      BY <1>6, <2>7
    <3>4. ListOf(f, c[p]) < ListOf(f, x) => f[c[p]].size <= f[x].size
      <4>1. f[x].size <= f[c[p]].size =>
               CaculateBuddyIndex(f[x].size) <= CaculateBuddyIndex(f[c[p]].size)
        BY <3>3, IndexMonotone
      <4>2. ListOf(f, c[p]) = CaculateBuddyIndex(f[c[p]].size)
        BY <1>6, <2>7
      <4> QED BY <1>6, <3>2, <3>3, <4>1, <4>2
    <3>5. ListOf(f, c[p]) = ListOf(f, x) /\ SizeIn(f, c[p]) <= SizeIn(f, x)
             => f[c[p]].size <= f[x].size
      BY <1>6, <2>7
    <3>6. f[c[p]].size <= f[x].size
      BY <3>1, <3>4, <3>5 DEF Before
    <3> QED BY <2>6, <2>7, <3>6
  <2> QED BY <1>2, <2>6, <2>8, <2>9
<1>8. CASE fits = {} \/ \E x \in S : f[x].size = need
  <2>1. ~(p <= Len(c) /\ SizeIn(f, c[p]) > need)
    <3> SUFFICES ASSUME p <= Len(c), SizeIn(f, c[p]) > need PROVE FALSE
      OBVIOUS
    <3>1. p \in 1 .. Len(c)
      BY <1>2, <1>3, <1>5
    <3>2. c[p] \in S /\ f[c[p]].size > need
      BY <1>1, <1>2, <1>6, <3>1
    <3>3. c[p] \in fits
      BY <3>2
    <3>4. PICK x \in S : f[x].size = need
      BY <1>8, <3>3
    <3>5. f[c[p]].size <= need
      BY <1>1, <1>7, <3>4
    <3> QED BY <1>1, <1>6, <3>2, <3>5
  <2> QED BY <1>4, <1>8, <2>1 DEF found
<1>9. CASE ~(fits = {} \/ \E x \in S : f[x].size = need)
  <2>1. ASSUME NEW x \in fits
        PROVE  p <= Len(c) /\ c[p] \in fits /\ f[c[p]].size <= f[x].size
    <3>1. x \in S /\ f[x].size >= need
      BY <1>1, <1>6
    <3>2. p <= Len(c) /\ c[p] \in S /\ f[c[p]].size >= need /\ f[c[p]].size <= f[x].size
      BY <1>7, <3>1
    <3>3. f[c[p]].size # need
      BY <1>9, <3>2
    <3> QED BY <1>1, <1>6, <3>2, <3>3
  <2>2. PICK x \in fits : TRUE
    BY <1>9
  <2>3. found = c[p]
    <3>1. p <= Len(c) /\ c[p] \in fits
      BY <2>1, <2>2
    <3>2. SizeIn(f, c[p]) > need
      BY <1>6, <3>1
    <3> QED BY <1>4, <3>1, <3>2
  <2>4. found \in fits /\ \A y \in fits : f[found].size <= f[y].size
    BY <2>1, <2>2, <2>3
  <2> QED BY <1>9, <2>4 DEF found
<1> QED BY <1>8, <1>9

-----------------------------------------------------------------------------
(* The blocks. *)

LEMMA HeapNumbers ==
  /\ Hdr \in Nat /\ Hdr > 0 /\ Total \in Nat /\ Total >= 3 * Hdr /\ Total - Hdr \in Nat
  /\ LinkNrs \in Nat /\ LinkNrs > 0 /\ None \in Int /\ None < 0 /\ None \notin Addr
  /\ 0 # Total - Hdr /\ Hdr # Total - Hdr
<1>1. Hdr \in Nat /\ Hdr > 0 /\ Total \in Nat /\ Total >= 3 * Hdr /\ LinkNrs \in Nat /\ LinkNrs > 0
  BY HeapAssumption
<1> QED BY <1>1 DEF None, Addr

LEMMA BlockNumbers ==
  ASSUME NEW f, Tiled(f)
  PROVE  /\ \A a \in DOMAIN f : /\ a \in Nat /\ a < Total /\ f[a] \in Node
                                /\ f[a].size \in Nat /\ f[a].size > 0
                                /\ f[a].prev_adj_size \in Nat /\ f[a].alloc \in BOOLEAN
         /\ 0 \in DOMAIN f /\ Total - Hdr \in DOMAIN f
         /\ f[0].size = Hdr /\ f[0].alloc /\ f[Total - Hdr].size = Hdr /\ f[Total - Hdr].alloc
<1>1. f \in [DOMAIN f -> Node] /\ DOMAIN f \subseteq Addr
  BY DEF Tiled, IsBlocks
<1>2. \A a \in {0, Total - Hdr} : a \in DOMAIN f /\ f[a].size = Hdr /\ f[a].alloc
  BY DEF Tiled, IsBlocks
<1>3. \A a \in DOMAIN f : f[a] \in Node /\ a \in Addr
  BY <1>1
<1>4. \A r \in Node : r.size \in Nat /\ r.size > 0 /\ r.prev_adj_size \in Nat /\ r.alloc \in BOOLEAN
  BY HeapNumbers DEF Node
<1>5. \A a \in Addr : a \in Nat /\ a < Total
  BY HeapNumbers DEF Addr
<1> QED BY <1>2, <1>3, <1>4, <1>5

(* Whatever ends where another block ends is that block, and it lies       *)
(* within the region.                                                      *)
LEMMA OneBefore ==
  ASSUME NEW f, Tiled(f), NEW x \in DOMAIN f, NEW y \in DOMAIN f,
         x + f[x].size = y + f[y].size
  PROVE  x = y
<1>1. /\ x \in Nat /\ f[x].size \in Nat /\ f[x].size > 0
      /\ y \in Nat /\ f[y].size \in Nat /\ f[y].size > 0
  BY BlockNumbers
<1>2. ~(x < y)
  <2>1. x < y => x + f[x].size <= y
    BY DEF Tiled
  <2> QED BY <1>1, <2>1
<1>3. ~(y < x)
  <2>1. y < x => y + f[y].size <= x
    BY DEF Tiled
  <2> QED BY <1>1, <2>1
<1> QED BY <1>1, <1>2, <1>3

LEMMA BlockEnds ==
  ASSUME NEW f, Tiled(f), NEW x \in DOMAIN f
  PROVE  x + f[x].size <= Total /\ (x # Total - Hdr => x + f[x].size <= Total - Hdr)
<1>1. x \in Nat /\ x < Total /\ f[x].size \in Nat /\ f[x].size > 0
  BY BlockNumbers
<1>2. Total - Hdr \in DOMAIN f /\ f[Total - Hdr].size = Hdr
  BY BlockNumbers
<1>3. CASE x = Total - Hdr
  BY <1>2, <1>3, HeapNumbers
<1>4. CASE x < Total - Hdr
  <2>1. x + f[x].size <= Total - Hdr
    BY <1>2, <1>4 DEF Tiled
  <2> QED BY <1>1, <2>1, HeapNumbers
<1>5. CASE x > Total - Hdr
  <2>1. Total - Hdr + Hdr <= x
    BY <1>2, <1>5 DEF Tiled
  <2> QED BY <1>1, <2>1, HeapNumbers
<1> QED BY <1>1, <1>3, <1>4, <1>5, HeapNumbers

(* Marking a block as allocated or free. *)
LEMMA MarkTiled ==
  ASSUME NEW f, Tiled(f), NEW a \in DOMAIN f, a # 0, a # Total - Hdr, NEW v \in BOOLEAN
  PROVE  LET g == [f EXCEPT ![a].alloc = v]
         IN  /\ Tiled(g) /\ DOMAIN g = DOMAIN f
             /\ \A x \in DOMAIN f : /\ g[x].size = f[x].size /\ g[x].prev_adj_size = f[x].prev_adj_size
                                    /\ g[x].alloc = IF x = a THEN v ELSE f[x].alloc
<1> DEFINE g == [f EXCEPT ![a].alloc = v]
<1>1. f \in [DOMAIN f -> Node] /\ DOMAIN f \subseteq Addr
  BY DEF Tiled, IsBlocks
<1>2. DOMAIN g = DOMAIN f /\ \A x \in DOMAIN f : g[x] = IF x = a THEN [f[x] EXCEPT !.alloc = v] ELSE f[x]
  BY <1>1
<1>3. \A r \in Node : /\ [r EXCEPT !.alloc = v] \in Node
                      /\ [r EXCEPT !.alloc = v].size = r.size
                      /\ [r EXCEPT !.alloc = v].prev_adj_size = r.prev_adj_size
                      /\ [r EXCEPT !.alloc = v].alloc = v
  BY DEF Node
<1>4. g \in [DOMAIN g -> Node]
  BY <1>1, <1>2, <1>3
<1>5. \A x \in DOMAIN f : /\ g[x].size = f[x].size /\ g[x].prev_adj_size = f[x].prev_adj_size
                          /\ g[x].alloc = IF x = a THEN v ELSE f[x].alloc
  BY <1>1, <1>2, <1>3
<1> HIDE DEF g
<1>6. IsBlocks(g)
  <2>1. ASSUME NEW z \in {0, Total - Hdr} PROVE z \in DOMAIN g /\ g[z].size = Hdr /\ g[z].alloc
    <3>1. z \in DOMAIN f /\ f[z].size = Hdr /\ f[z].alloc /\ z # a
      BY BlockNumbers
    <3> QED BY <1>2, <1>5, <3>1
  <2> QED BY <1>1, <1>2, <1>4, <2>1 DEF IsBlocks
<1>7. \A x, y \in DOMAIN g : x < y => x + g[x].size <= y
  BY <1>2, <1>5 DEF Tiled
<1>8. \A x \in DOMAIN g : x # Total - Hdr =>
          /\ x + g[x].size \in DOMAIN g
          /\ g[x + g[x].size].prev_adj_size = g[x].size
  BY <1>2, <1>5 DEF Tiled
<1>9. \A x \in DOMAIN g : x # 0 =>
          /\ x - g[x].prev_adj_size \in DOMAIN g
          /\ g[x - g[x].prev_adj_size].size = g[x].prev_adj_size
  BY <1>2, <1>5 DEF Tiled
<1>10. Tiled(g)
  BY <1>6, <1>7, <1>8, <1>9 DEF Tiled
<1> QED BY <1>2, <1>5, <1>10 DEF g

(* What Carve makes of the blocks when it cuts n bytes from a. *)
Split(f, a, n) ==
    LET rest == f[a].size - n
    IN  Extend([f EXCEPT ![a].size = n, ![a + f[a].size].prev_adj_size = rest],
               a + n, [size |-> rest, prev_adj_size |-> n, alloc |-> FALSE])

CanSplit(f, a, n, b, e, rest) ==
    /\ Tiled(f) /\ a \in DOMAIN f /\ a # 0 /\ a # Total - Hdr
    /\ n \in Nat /\ n > 0 /\ n < f[a].size
    /\ b = a + n /\ e = a + f[a].size /\ rest = f[a].size - n

IsSplit(f, a, n, b, e, rest, g) ==
    /\ b \notin DOMAIN f /\ b \in Addr /\ DOMAIN g = DOMAIN f \cup {b}
    /\ g[b].size = rest /\ g[b].prev_adj_size = n /\ ~g[b].alloc
    /\ \A x \in DOMAIN f : /\ g[x].size = IF x = a THEN n ELSE f[x].size
                           /\ g[x].prev_adj_size = IF x = e THEN rest ELSE f[x].prev_adj_size
                           /\ g[x].alloc = f[x].alloc
    /\ g \in [DOMAIN g -> Node]

LEMMA SplitValues ==
  ASSUME NEW f, NEW a, NEW n, NEW b, NEW e, NEW rest, CanSplit(f, a, n, b, e, rest)
  PROVE  IsSplit(f, a, n, b, e, rest, Split(f, a, n))
<1> DEFINE g == Split(f, a, n)
<1> USE DEF CanSplit
<1> DEFINE m == [f EXCEPT ![a].size = n, ![e].prev_adj_size = rest]
           r == [size |-> rest, prev_adj_size |-> n, alloc |-> FALSE]
<1>1. f \in [DOMAIN f -> Node] /\ DOMAIN f \subseteq Addr
  BY DEF Tiled, IsBlocks
<1>2. /\ a \in Nat /\ f[a].size \in Nat /\ f[a].size > 0 /\ e \in DOMAIN f
      /\ e <= Total /\ Total \in Nat
  BY BlockNumbers, BlockEnds, HeapNumbers DEF Tiled
<1>3. a # e /\ n \in 1 .. Total /\ n \in 0 .. Total /\ rest \in 1 .. Total /\ rest \in 0 .. Total
      /\ b \in 0 .. Total - 1 /\ b > a /\ b < e
  BY <1>2
<1>4. b \notin DOMAIN f
  <2> SUFFICES ASSUME b \in DOMAIN f PROVE FALSE
    OBVIOUS
  <2>1. a + f[a].size <= b
    BY <1>3 DEF Tiled
  <2> QED BY <1>2, <1>3, <2>1
<1>5. r \in Node /\ r.size = rest /\ r.prev_adj_size = n /\ ~r.alloc
  BY <1>3 DEF Node
<1> HIDE DEF r
<1>6. /\ DOMAIN m = DOMAIN f
      /\ \A x \in DOMAIN f : m[x] = IF x = a THEN [f[x] EXCEPT !.size = n]
                                    ELSE IF x = e THEN [f[x] EXCEPT !.prev_adj_size = rest]
                                    ELSE f[x]
  BY <1>1, <1>2, <1>3
<1>7. \A q \in Node : /\ [q EXCEPT !.size = n] \in Node
                      /\ [q EXCEPT !.size = n].size = n
                      /\ [q EXCEPT !.size = n].prev_adj_size = q.prev_adj_size
                      /\ [q EXCEPT !.size = n].alloc = q.alloc
                      /\ [q EXCEPT !.prev_adj_size = rest] \in Node
                      /\ [q EXCEPT !.prev_adj_size = rest].size = q.size
                      /\ [q EXCEPT !.prev_adj_size = rest].prev_adj_size = rest
                      /\ [q EXCEPT !.prev_adj_size = rest].alloc = q.alloc
  BY <1>3 DEF Node
<1> HIDE DEF m
<1>8. \A x \in DOMAIN f : /\ m[x].size = IF x = a THEN n ELSE f[x].size
                          /\ m[x].prev_adj_size = IF x = e THEN rest ELSE f[x].prev_adj_size
                          /\ m[x].alloc = f[x].alloc /\ m[x] \in Node
  <2> SUFFICES ASSUME NEW x \in DOMAIN f
               PROVE  /\ m[x].size = IF x = a THEN n ELSE f[x].size
                      /\ m[x].prev_adj_size = IF x = e THEN rest ELSE f[x].prev_adj_size
                      /\ m[x].alloc = f[x].alloc /\ m[x] \in Node
    OBVIOUS
  <2>1. f[x] \in Node
    BY <1>1
  <2>2. CASE x = a
    BY <1>3, <1>6, <1>7, <2>1, <2>2
  <2>3. CASE x = e
    BY <1>3, <1>6, <1>7, <2>1, <2>3, ZenonT(40)
  <2>4. CASE x # a /\ x # e
    BY <1>6, <2>1, <2>4
  <2> QED BY <2>2, <2>3, <2>4
<1>9. g = Extend(m, b, r)
  BY DEF Split, m, r
<1> HIDE DEF g
<1>10. /\ DOMAIN g = DOMAIN f \cup {b} /\ g[b] = r
       /\ \A x \in DOMAIN f : g[x] = m[x]
  BY <1>4, <1>6, <1>9 DEF Extend
<1>11. g \in [DOMAIN g -> Node]
  <2>1. \A x \in DOMAIN g : g[x] \in Node
    BY <1>5, <1>8, <1>10
  <2>2. g = [x \in DOMAIN g |-> g[x]]
    BY <1>9 DEF Extend
  <2> QED BY <2>1, <2>2
<1>12. /\ g[b].size = rest /\ g[b].prev_adj_size = n /\ ~g[b].alloc
  BY <1>5, <1>10
<1>13. \A x \in DOMAIN f : /\ g[x].size = IF x = a THEN n ELSE f[x].size
                           /\ g[x].prev_adj_size = IF x = e THEN rest ELSE f[x].prev_adj_size
                           /\ g[x].alloc = f[x].alloc
  BY <1>8, <1>10
<1>14. b \in Addr
  BY <1>3 DEF Addr
<1>15. IsSplit(f, a, n, b, e, rest, g)
  BY <1>4, <1>10, <1>11, <1>12, <1>13, <1>14 DEF IsSplit
<1> QED BY <1>15 DEF g

LEMMA SplitTiled ==
  ASSUME NEW f, NEW a, NEW n, NEW b, NEW e, NEW rest, CanSplit(f, a, n, b, e, rest)
  PROVE  Tiled(Split(f, a, n))
<1> DEFINE g == Split(f, a, n)
<1>0. IsSplit(f, a, n, b, e, rest, g)
  BY SplitValues
<1> USE DEF CanSplit
<1>1. /\ a \in Nat /\ f[a].size \in Nat /\ e \in DOMAIN f /\ e \in Nat
      /\ e = b + rest /\ b \in Nat /\ rest \in Nat /\ rest > 0 /\ a < b /\ b < e
      /\ b - n = a /\ e - rest = b
  <2>1. a \in Nat /\ f[a].size \in Nat /\ e \in DOMAIN f
    BY BlockNumbers DEF Tiled
  <2> QED BY <2>1
<1> HIDE DEF g
<1>2. /\ b \notin DOMAIN f /\ b \in Addr /\ DOMAIN g = DOMAIN f \cup {b}
      /\ g[b].size = rest /\ g[b].prev_adj_size = n
      /\ \A x \in DOMAIN f : /\ g[x].size = IF x = a THEN n ELSE f[x].size
                             /\ g[x].prev_adj_size = IF x = e THEN rest ELSE f[x].prev_adj_size
                             /\ g[x].alloc = f[x].alloc
      /\ g \in [DOMAIN g -> Node]
  BY <1>0 DEF IsSplit
<1>3. IsBlocks(g)
  <2>1. ASSUME NEW z \in {0, Total - Hdr} PROVE z \in DOMAIN g /\ g[z].size = Hdr /\ g[z].alloc
    <3>1. z \in DOMAIN f /\ f[z].size = Hdr /\ f[z].alloc /\ z # a
      BY BlockNumbers
    <3> QED BY <1>2, <3>1
  <2>2. DOMAIN g \subseteq Addr
    BY <1>2 DEF Tiled, IsBlocks
  <2> QED BY <1>2, <2>1, <2>2 DEF IsBlocks
<1>4. ASSUME NEW x \in DOMAIN g, NEW y \in DOMAIN g, x < y PROVE x + g[x].size <= y
  <2>1. CASE x \in DOMAIN f /\ y \in DOMAIN f
    <3>1. x + f[x].size <= y /\ x \in Nat /\ y \in Nat /\ f[x].size \in Nat
      BY <1>4, <2>1, BlockNumbers DEF Tiled
    <3>2. g[x].size \in Nat /\ g[x].size <= f[x].size
      BY <1>2, <2>1, <3>1
    <3> QED BY <3>1, <3>2
  <2>2. CASE x = b /\ y \in DOMAIN f
    <3>1. a < y /\ y \in Nat
      BY <1>1, <1>4, <2>2, BlockNumbers
    <3>2. e <= y
      BY <2>2, <3>1 DEF Tiled
    <3> QED BY <1>2, <1>1, <2>2, <3>2
  <2>3. CASE x \in DOMAIN f /\ y = b
    <3>1. x \in Nat /\ f[x].size \in Nat
      BY <2>3, BlockNumbers
    <3>2. CASE x = a
      BY <1>2, <1>1, <2>3, <3>2
    <3>3. CASE x < a
      <4>1. x + f[x].size <= a
        BY <2>3, <3>3 DEF Tiled
      <4> QED BY <1>2, <1>1, <2>3, <3>1, <3>3, <4>1
    <3>4. CASE x > a
      <4>1. e <= x
        BY <2>3, <3>4 DEF Tiled
      <4> QED BY <1>1, <1>4, <2>3, <3>1, <4>1
    <3> QED BY <1>1, <3>1, <3>2, <3>3, <3>4
  <2> QED BY <1>2, <1>1, <1>4, <2>1, <2>2, <2>3
<1>5. ASSUME NEW x \in DOMAIN g, x # Total - Hdr
      PROVE  x + g[x].size \in DOMAIN g /\ g[x + g[x].size].prev_adj_size = g[x].size
  <2>1. CASE x = a
    <3>1. g[x].size = n /\ x + g[x].size = b
      BY <1>2, <2>1
    <3> QED BY <1>2, <3>1
  <2>2. CASE x = b
    <3>1. g[x].size = rest /\ x + g[x].size = e
      BY <1>2, <1>1, <2>2
    <3> QED BY <1>2, <1>1, <3>1
  <2>3. CASE x \in DOMAIN f /\ x # a
    <3> DEFINE y == x + f[x].size
    <3>1. y \in DOMAIN f /\ f[y].prev_adj_size = f[x].size
      BY <1>5, <2>3 DEF Tiled
    <3>2. y # e
      BY <2>3, OneBefore
    <3>3. g[x].size = f[x].size
      BY <1>2, <2>3
    <3> HIDE DEF y
    <3>4. g[y].prev_adj_size = f[x].size
      BY <1>2, <3>1, <3>2
    <3> QED BY <1>2, <3>1, <3>3, <3>4 DEF y
  <2> QED BY <1>2, <2>1, <2>2, <2>3
<1>6. ASSUME NEW x \in DOMAIN g, x # 0
      PROVE  x - g[x].prev_adj_size \in DOMAIN g /\ g[x - g[x].prev_adj_size].size = g[x].prev_adj_size
  <2>1. CASE x = b
    <3>1. g[x].prev_adj_size = n /\ x - n = a
      BY <1>2, <1>1, <2>1
    <3> QED BY <1>2, <3>1
  <2>2. CASE x = e
    <3>1. g[x].prev_adj_size = rest /\ x - rest = b
      BY <1>2, <1>1, <2>2
    <3> QED BY <1>2, <3>1
  <2>3. CASE x \in DOMAIN f /\ x # e
    <3> DEFINE y == x - f[x].prev_adj_size
    <3>1. y \in DOMAIN f /\ f[y].size = f[x].prev_adj_size
      BY <1>6, <2>3 DEF Tiled
    <3>2. x \in Nat /\ f[x].prev_adj_size \in Nat
      BY <2>3, BlockNumbers
    <3>3. y + f[y].size = x
      BY <3>1, <3>2
    <3>4. g[x].prev_adj_size = f[x].prev_adj_size
      BY <1>2, <2>3
    <3> HIDE DEF y
    <3>5. y # a
      BY <2>3, <3>3
    <3>6. g[y].size = f[x].prev_adj_size
      BY <1>2, <3>1, <3>5
    <3> QED BY <1>2, <3>1, <3>4, <3>6 DEF y
  <2> QED BY <1>2, <2>1, <2>2, <2>3
<1> QED BY <1>3, <1>4, <1>5, <1>6 DEF Tiled, g

(* What Merge makes of the blocks. *)
Joined(f, a, b) ==
    LET size == f[a].size + f[b].size
    IN  [x \in DOMAIN f \ {b} |-> CASE x = a -> [f[x] EXCEPT !.size = size]
                                    [] x = a + size -> [f[x] EXCEPT !.prev_adj_size = size]
                                    [] OTHER -> f[x]]

CanJoin(f, a, b, e, size) ==
    /\ Tiled(f) /\ a \in DOMAIN f /\ a # 0 /\ a # Total - Hdr
    /\ b = a + f[a].size /\ b # Total - Hdr
    /\ size = f[a].size + f[b].size /\ e = a + size

IsJoined(f, a, b, e, size, g) ==
    /\ b \in DOMAIN f /\ e \in DOMAIN f /\ e # a /\ e # b /\ a # b /\ e = b + f[b].size
    /\ b # 0 /\ DOMAIN g = DOMAIN f \ {b}
    /\ \A x \in DOMAIN g : /\ g[x].size = IF x = a THEN size ELSE f[x].size
                           /\ g[x].prev_adj_size = IF x = e THEN size ELSE f[x].prev_adj_size
                           /\ g[x].alloc = f[x].alloc
    /\ g \in [DOMAIN g -> Node]

LEMMA JoinedValues ==
  ASSUME NEW f, NEW a, NEW b, NEW e, NEW size, CanJoin(f, a, b, e, size)
  PROVE  IsJoined(f, a, b, e, size, Joined(f, a, b))
<1> DEFINE g == Joined(f, a, b)
<1> USE DEF CanJoin
<1>1. f \in [DOMAIN f -> Node] /\ DOMAIN f \subseteq Addr
  BY DEF Tiled, IsBlocks
<1>2. /\ a \in Nat /\ f[a].size \in Nat /\ f[a].size > 0 /\ b \in DOMAIN f
  BY BlockNumbers DEF Tiled
<1>3. /\ b \in Nat /\ f[b].size \in Nat /\ f[b].size > 0 /\ b + f[b].size \in DOMAIN f
      /\ b + f[b].size <= Total /\ Total \in Nat
  BY <1>2, BlockNumbers, BlockEnds, HeapNumbers DEF Tiled
<1>4. /\ e = b + f[b].size /\ e # a /\ e # b /\ a # b /\ b # 0
      /\ size \in 1 .. Total /\ size \in 0 .. Total
  <2> DEFINE s == f[a].size
             t == f[b].size
  <2>1. s \in Nat /\ s > 0 /\ t \in Nat /\ t > 0 /\ b = a + s /\ size = s + t /\ b + t <= Total
    BY <1>2, <1>3
  <2> HIDE DEF s, t
  <2>2. /\ e = b + t /\ e # a /\ e # b /\ a # b /\ b # 0
        /\ size \in 1 .. Total /\ size \in 0 .. Total
    BY <1>2, <1>3, <2>1
  <2> QED BY <2>2 DEF t
<1>5. /\ DOMAIN g = DOMAIN f \ {b}
      /\ \A x \in DOMAIN f \ {b} : g[x] = CASE x = a -> [f[x] EXCEPT !.size = size]
                                            [] x = e -> [f[x] EXCEPT !.prev_adj_size = size]
                                            [] OTHER -> f[x]
  BY DEF Joined
<1>6. g = [x \in DOMAIN g |-> g[x]]
  BY DEF Joined
<1> HIDE DEF g
<1>7. \A q \in Node : /\ [q EXCEPT !.size = size] \in Node
                      /\ [q EXCEPT !.size = size].size = size
                      /\ [q EXCEPT !.size = size].prev_adj_size = q.prev_adj_size
                      /\ [q EXCEPT !.size = size].alloc = q.alloc
                      /\ [q EXCEPT !.prev_adj_size = size] \in Node
                      /\ [q EXCEPT !.prev_adj_size = size].size = q.size
                      /\ [q EXCEPT !.prev_adj_size = size].prev_adj_size = size
                      /\ [q EXCEPT !.prev_adj_size = size].alloc = q.alloc
  BY <1>4 DEF Node
<1>8. \A x \in DOMAIN g : /\ g[x].size = IF x = a THEN size ELSE f[x].size
                          /\ g[x].prev_adj_size = IF x = e THEN size ELSE f[x].prev_adj_size
                          /\ g[x].alloc = f[x].alloc /\ g[x] \in Node
  <2> SUFFICES ASSUME NEW x \in DOMAIN g
               PROVE  /\ g[x].size = IF x = a THEN size ELSE f[x].size
                      /\ g[x].prev_adj_size = IF x = e THEN size ELSE f[x].prev_adj_size
                      /\ g[x].alloc = f[x].alloc /\ g[x] \in Node
    OBVIOUS
  <2>1. f[x] \in Node /\ x \in DOMAIN f \ {b}
    BY <1>1, <1>5
  <2>2. CASE x = a
    <3>1. g[x] = [f[x] EXCEPT !.size = size]
      BY <1>4, <1>5, <2>1, <2>2
    <3> QED BY <1>4, <1>7, <2>1, <2>2, <3>1
  <2>3. CASE x = e
    <3>1. g[x] = [f[x] EXCEPT !.prev_adj_size = size]
      BY <1>4, <1>5, <2>1, <2>3
    <3> QED BY <1>4, <1>7, <2>1, <2>3, <3>1
  <2>4. CASE x # a /\ x # e
    <3> DEFINE v == [f[x] EXCEPT !.size = size]
               u == [f[x] EXCEPT !.prev_adj_size = size]
    <3>1. g[x] = CASE x = a -> v [] x = e -> u [] OTHER -> f[x]
      BY <1>5, <2>1
    <3> HIDE DEF u, v
    <3>2. g[x] = f[x]
      BY <2>4, <3>1
    <3> QED BY <2>1, <2>4, <3>2
  <2> QED BY <2>2, <2>3, <2>4
<1>9. g \in [DOMAIN g -> Node]
  BY <1>6, <1>8
<1>10. IsJoined(f, a, b, e, size, g)
  BY <1>2, <1>3, <1>4, <1>5, <1>8, <1>9 DEF IsJoined
<1> QED BY <1>10 DEF g

LEMMA JoinedTiled ==
  ASSUME NEW f, NEW a, NEW b, NEW e, NEW size, CanJoin(f, a, b, e, size)
  PROVE  Tiled(Joined(f, a, b))
<1> DEFINE g == Joined(f, a, b)
<1>0. IsJoined(f, a, b, e, size, g)
  BY JoinedValues
<1> USE DEF CanJoin
<1> HIDE DEF g
<1>1. /\ b \in DOMAIN f /\ e \in DOMAIN f /\ e # a /\ e # b /\ a # b /\ e = b + f[b].size
      /\ b # 0 /\ DOMAIN g = DOMAIN f \ {b}
      /\ \A x \in DOMAIN g : /\ g[x].size = IF x = a THEN size ELSE f[x].size
                             /\ g[x].prev_adj_size = IF x = e THEN size ELSE f[x].prev_adj_size
                             /\ g[x].alloc = f[x].alloc
      /\ g \in [DOMAIN g -> Node]
  BY <1>0 DEF IsJoined
<1>2. /\ a \in Nat /\ f[a].size \in Nat /\ b \in Nat /\ f[b].size \in Nat /\ e \in Nat /\ a < b
      /\ size \in Nat /\ a + size = e /\ e - size = a
  <2>1. /\ a \in Nat /\ f[a].size \in Nat /\ b \in Nat /\ f[b].size \in Nat /\ e \in Nat
        /\ f[a].size > 0
    BY <1>1, BlockNumbers
  <2>2. size \in Nat
    BY <2>1
  <2> QED BY <2>1, <2>2
<1>3. IsBlocks(g)
  <2>1. ASSUME NEW z \in {0, Total - Hdr} PROVE z \in DOMAIN g /\ g[z].size = Hdr /\ g[z].alloc
    <3>1. z \in DOMAIN f /\ f[z].size = Hdr /\ f[z].alloc /\ z # a /\ z # b
      BY <1>1, BlockNumbers
    <3> QED BY <1>1, <3>1
  <2>2. DOMAIN g \subseteq Addr
    BY <1>1 DEF Tiled, IsBlocks
  <2> QED BY <1>1, <2>1, <2>2 DEF IsBlocks
<1>4. ASSUME NEW x \in DOMAIN g, NEW y \in DOMAIN g, x < y PROVE x + g[x].size <= y
  <2>1. x \in DOMAIN f /\ y \in DOMAIN f /\ y # b /\ x \in Nat /\ y \in Nat
    BY <1>1, BlockNumbers
  <2>2. x + f[x].size <= y
    BY <1>4, <2>1 DEF Tiled
  <2>3. CASE x = a
    <3>1. b < y
      BY <1>2, <2>1, <2>2, <2>3
    <3>2. e <= y
      BY <1>1, <2>1, <3>1 DEF Tiled
    <3> QED BY <1>1, <1>2, <2>3, <3>2
  <2>4. CASE x # a
    BY <1>1, <2>2, <2>4
  <2> QED BY <2>3, <2>4
<1>5. ASSUME NEW x \in DOMAIN g, x # Total - Hdr
      PROVE  x + g[x].size \in DOMAIN g /\ g[x + g[x].size].prev_adj_size = g[x].size
  <2>1. CASE x = a
    <3>1. g[x].size = size /\ x + size = e /\ e \in DOMAIN g
      BY <1>1, <1>2, <2>1
    <3>2. g[e].prev_adj_size = size
      BY <1>1, <3>1
    <3> QED BY <3>1, <3>2
  <2>2. CASE x # a
    <3> DEFINE y == x + f[x].size
    <3>1. x \in DOMAIN f /\ x # b
      BY <1>1
    <3>2. y \in DOMAIN f /\ f[y].prev_adj_size = f[x].size
      BY <1>5, <3>1 DEF Tiled
    <3>3. y # e
      BY <1>1, <3>1, OneBefore
    <3>4. y # b
      BY <2>2, <3>1, OneBefore
    <3>5. g[x].size = f[x].size
      BY <1>1, <2>2
    <3> HIDE DEF y
    <3>6. y \in DOMAIN g /\ g[y].prev_adj_size = f[x].size
      BY <1>1, <3>2, <3>3, <3>4
    <3> QED BY <3>5, <3>6 DEF y
  <2> QED BY <2>1, <2>2
<1>6. ASSUME NEW x \in DOMAIN g, x # 0
      PROVE  x - g[x].prev_adj_size \in DOMAIN g /\ g[x - g[x].prev_adj_size].size = g[x].prev_adj_size
  <2>1. CASE x = e
    <3>1. g[x].prev_adj_size = size /\ x - size = a /\ a \in DOMAIN g
      BY <1>1, <1>2, <2>1
    <3>2. g[a].size = size
      BY <1>1, <3>1
    <3> QED BY <3>1, <3>2
  <2>2. CASE x # e
    <3> DEFINE y == x - f[x].prev_adj_size
    <3>1. x \in DOMAIN f /\ x # b
      BY <1>1
    <3>2. y \in DOMAIN f /\ f[y].size = f[x].prev_adj_size
      BY <1>6, <3>1 DEF Tiled
    <3>3. x \in Nat /\ f[x].prev_adj_size \in Nat
      BY <3>1, BlockNumbers
    <3>4. y + f[y].size = x
      BY <3>2, <3>3
    <3>5. g[x].prev_adj_size = f[x].prev_adj_size
      BY <1>1, <2>2
    <3> HIDE DEF y
    <3>6. y # a /\ y # b
      BY <1>1, <2>2, <3>1, <3>4
    <3>7. y \in DOMAIN g /\ g[y].size = f[x].prev_adj_size
      BY <1>1, <3>2, <3>6
    <3> QED BY <3>5, <3>7 DEF y
  <2> QED BY <2>1, <2>2
<1> QED BY <1>3, <1>4, <1>5, <1>6 DEF Tiled, g

(* Allocating one more block adds its bytes to those that are used. *)
LEMMA CountAdds ==
  ASSUME NEW f, NEW g, Tiled(g), NEW a, a \notin Used(f), Used(g) = Used(f) \cup {a},
         \A x \in Used(f) : g[x].size = f[x].size
  PROVE  /\ Cardinality(UsedBytes(g)) = Cardinality(UsedBytes(f)) + g[a].size
         /\ Cardinality(UsedBytes(f)) \in Nat /\ g[a].size \in Nat
<1> DEFINE U == UsedBytes(f)
           V == UsedBytes(g)
           B == Span(g, a)
           s == g[a].size
<1>1. Used(g) \subseteq DOMAIN g /\ a \in DOMAIN g
  BY DEF Used
<1>2. a \in Nat /\ s \in Nat /\ s > 0 /\ a + s <= Total /\ Total \in Nat
  BY <1>1, BlockNumbers, BlockEnds, HeapNumbers
<1>3. \A x \in Used(f) : Span(g, x) = Span(f, x)
  BY DEF Span
<1>4. B = a .. a + s - 1
  BY DEF Span
<1> HIDE DEF s
<1>5. B \subseteq Addr
  BY <1>2, <1>4 DEF Addr
<1>6. V = U \cup B
  <2>1. \A x \in Addr : x \in V <=> \E y \in Used(g) : x \in Span(g, y)
    BY DEF UsedBytes
  <2>2. \A x \in Addr : x \in U <=> \E y \in Used(f) : x \in Span(f, y)
    BY DEF UsedBytes
  <2>3. V \subseteq Addr /\ U \subseteq Addr
    BY DEF UsedBytes
  <2> HIDE DEF U, V, B
  <2>4. \A x \in Addr : x \in V <=> x \in U \/ x \in Span(g, a)
    BY <1>3, <2>1, <2>2
  <2> QED BY <1>5, <2>3, <2>4 DEF B
<1>7. U \cap B = {}
  <2> SUFFICES ASSUME NEW x \in U, x \in B PROVE FALSE
    OBVIOUS
  <2>1. PICK y \in Used(f) : x \in Span(f, y)
    BY DEF UsedBytes
  <2>2. y \in DOMAIN g /\ y # a /\ x \in Span(g, y)
    BY <1>1, <1>3, <2>1
  <2>3. y \in Nat /\ g[y].size \in Nat /\ x \in y .. y + g[y].size - 1
    BY <2>2, BlockNumbers DEF Span
  <2>4. x \in a .. a + s - 1
    BY <1>4
  <2>5. y < a => y + g[y].size <= a
    BY <1>1, <2>2 DEF Tiled
  <2>6. a < y => a + s <= y
    BY <1>1, <2>2 DEF Tiled, s
  <2> QED BY <1>2, <2>2, <2>3, <2>4, <2>5, <2>6
<1>8. IsFiniteSet(U) /\ Cardinality(U) \in Nat
  <2>1. IsFiniteSet(Addr)
    BY <1>2, FS_Interval DEF Addr
  <2>2. U \in SUBSET Addr
    BY DEF UsedBytes
  <2>3. IsFiniteSet(U)
    BY <2>1, <2>2, FS_Subset
  <2> QED BY <2>3, FS_CardinalityType
<1>9. IsFiniteSet(B) /\ Cardinality(B) = s
  <2> DEFINE z == a + s - 1
  <2>1. a \in Int /\ z \in Int /\ ~(a > z) /\ z - a + 1 = s /\ B = a .. z
    BY <1>2, <1>4
  <2> HIDE DEF z
  <2>2. IsFiniteSet(a .. z) /\ Cardinality(a .. z) = IF a > z THEN 0 ELSE z - a + 1
    BY <2>1, FS_Interval
  <2> QED BY <2>1, <2>2
<1> HIDE DEF U, V, B
<1>10. Cardinality(U \cup B) = Cardinality(U) + Cardinality(B) - Cardinality(U \cap B)
  BY <1>8, <1>9, FS_Union
<1>11. Cardinality(U \cap B) = 0
  BY <1>7, FS_EmptySet
<1>12. Cardinality(V) = Cardinality(U) + s
  BY <1>2, <1>6, <1>8, <1>9, <1>10, <1>11
<1> QED BY <1>2, <1>8, <1>12 DEF U, V, s

-----------------------------------------------------------------------------
(* Operations of the heap. *)

IsHeap(h) == h = [node |-> h.node, chain |-> h.chain, active_memory |-> h.active_memory]

LEMMA FreeBlocks ==
  ASSUME NEW f, Tiled(f)
  PROVE  /\ Sized(f, Free(f))
         /\ \A a \in Free(f) : a \in DOMAIN f /\ a # 0 /\ a # Total - Hdr /\ ~f[a].alloc
         /\ \A a \in Used(f) : a \in DOMAIN f /\ a # 0 /\ a # Total - Hdr /\ f[a].alloc
<1>1. \A a \in DOMAIN f : a \in Addr /\ f[a].size \in Nat \ {0}
  <2>1. DOMAIN f \subseteq Addr
    BY DEF Tiled, IsBlocks
  <2>2. \A a \in DOMAIN f : f[a].size \in Nat /\ f[a].size > 0
    BY BlockNumbers
  <2> QED BY <2>1, <2>2
<1>2. f[0].alloc /\ f[Total - Hdr].alloc
  BY BlockNumbers
<1> QED BY <1>1, <1>2 DEF Sized, Free, Used

LEMMA AddedNode ==
  ASSUME NEW h, IsHeap(h), NEW S, Sized(h.node, S), Chained(h.node, S, h.chain),
         NEW a \in Addr, a \notin S, h.node[a].size \in Nat \ {0}
  PROVE  LET r == AddNewNodeIntoBuddy(h, a)
         IN  /\ IsHeap(r) /\ r.node = h.node /\ r.active_memory = h.active_memory
             /\ Chained(h.node, S \cup {a}, r.chain)
<1> DEFINE p == FirstBehind(h, h.node[a].size, LAMBDA s : s = 0 \/ s >= h.node[a].size)
           w == InsertAt(h.chain, p, a)
           r == AddNewNodeIntoBuddy(h, a)
<1>1. Chained(h.node, S \cup {a}, w)
  BY ChainAdd
<1>2. r = [h EXCEPT !.chain = w]
  BY DEF AddNewNodeIntoBuddy
<1> HIDE DEF w, r
<1>3. r = [node |-> h.node, chain |-> w, active_memory |-> h.active_memory]
  BY <1>2 DEF IsHeap
<1>4. IsHeap(r) /\ r.node = h.node /\ r.active_memory = h.active_memory /\ r.chain = w
  BY <1>3 DEF IsHeap
<1> QED BY <1>1, <1>4 DEF r

(* What one operation leaves alone: blocks that are in use stay in use and *)
(* keep their size.                                                        *)
Undisturbed(f, g, T) == \A x \in T : x \in Used(g) /\ g[x].size = f[x].size

LEMMA CarveOK ==
  ASSUME NEW h, HeapOK(h), NEW a \in Free(h.node), NEW n \in Nat, n > 0, n < h.node[a].size
  PROVE  LET r == Carve(h, a, n)
         IN  /\ HeapOK(r) /\ a \in Used(r.node) /\ r.node[a].size >= n
             /\ Undisturbed(h.node, r.node, Used(h.node))
<1> DEFINE f    == h.node
           c    == h.chain
           size == f[a].size
           rest == size - n
           b    == a + n
           e    == a + size
           m    == [f EXCEPT ![a].alloc = TRUE]
           w    == RmNode(c, a)
           r    == Carve(h, a, n)
           T    == Free(f) \ {a}
<1>1. /\ h = [node |-> f, chain |-> c, active_memory |-> h.active_memory]
      /\ Tiled(f) /\ Coalesced(f) /\ Chained(f, Free(f), c)
      /\ h.active_memory = Cardinality(UsedBytes(f))
  BY DEF HeapOK
<1>2. /\ Sized(f, Free(f)) /\ a \in DOMAIN f /\ a # 0 /\ a # Total - Hdr /\ ~f[a].alloc
      /\ a \in Addr
  BY <1>1, FreeBlocks DEF Sized
<1>3. /\ a \in Nat /\ size \in Nat /\ e \in DOMAIN f /\ f[e].alloc /\ a # e
  <2>1. a \in Nat /\ size \in Nat /\ size > 0
    BY <1>1, <1>2, BlockNumbers
  <2>2. e \in DOMAIN f
    BY <1>1, <1>2 DEF Tiled
  <2>3. f[e].alloc
    BY <1>1, <1>2 DEF Coalesced
  <2> QED BY <2>1, <2>2, <2>3
<1>4. Tiled(m) /\ DOMAIN m = DOMAIN f
  BY <1>1, <1>2, MarkTiled
<1>5. \A x \in DOMAIN f : /\ m[x].size = f[x].size /\ m[x].prev_adj_size = f[x].prev_adj_size
                          /\ m[x].alloc = IF x = a THEN TRUE ELSE f[x].alloc
  BY <1>1, <1>2, MarkTiled
<1>6. Chained(f, T, w)
  BY <1>1, <1>2, ChainRemove
<1>7. Sized(f, T)
  BY <1>2 DEF Sized
<1> DEFINE took == [h EXCEPT !.chain = w, !.node[a].alloc = TRUE]
<1>8. took = [node |-> m, chain |-> w, active_memory |-> h.active_memory]
  <2>1. took = [h EXCEPT !.chain = w, !.node = m]
    OBVIOUS
  <2> HIDE DEF took, m, w
  <2> QED BY <1>1, <2>1
<1>9. r = IF rest < MEM_LOW_RANGE
          THEN [took EXCEPT !.active_memory = @ + size]
          ELSE AddNewNodeIntoBuddy([took EXCEPT !.node = Split(@, a, n),
                                                !.active_memory = @ + n], b)
  <2>1. took.node = m /\ m[a].size = size
    BY <1>2, <1>5, <1>8
  <2>2. Split(m, a, n) =
           Extend([m EXCEPT ![a].size = n, ![a + size].prev_adj_size = rest],
                  a + n, [size |-> rest, prev_adj_size |-> n, alloc |-> FALSE])
    BY <2>1 DEF Split
  <2> HIDE DEF took, m
  <2>3. [took EXCEPT !.node = Split(@, a, n), !.active_memory = @ + n] =
        [took EXCEPT !.node = Extend([@ EXCEPT ![a].size = n, ![a + size].prev_adj_size = rest],
                                     a + n, [size |-> rest, prev_adj_size |-> n, alloc |-> FALSE]),
                     !.active_memory = @ + n]
    BY <2>1, <2>2
  <2> QED BY <2>3 DEF Carve, took
<1> HIDE DEF r, took, m, w, T
<1>10. T = Free(m)
  BY <1>4, <1>5 DEF Free, T
<1>11. Used(m) = Used(f) \cup {a} /\ a \notin Used(f)
  BY <1>2, <1>4, <1>5 DEF Used
<1>12. CASE rest < MEM_LOW_RANGE
  <2>1. r = [node |-> m, chain |-> w, active_memory |-> h.active_memory + size]
    BY <1>8, <1>9, <1>12
  <2>2. r.node = m /\ r.chain = w /\ r.active_memory = h.active_memory + size
    BY <2>1
  <2>3. Coalesced(m)
    <3> SUFFICES ASSUME NEW x \in DOMAIN f, x # Total - Hdr
                 PROVE  m[x].alloc \/ m[x + m[x].size].alloc
      BY <1>4 DEF Coalesced
    <3>1. m[x].size = f[x].size /\ (f[x].alloc => m[x].alloc)
      BY <1>5
    <3>2. x + f[x].size \in DOMAIN f /\ (f[x].alloc \/ f[x + f[x].size].alloc)
      BY <1>1 DEF Coalesced, Tiled
    <3>3. f[x + f[x].size].alloc => m[x + f[x].size].alloc
      BY <1>5, <3>2
    <3> QED BY <3>1, <3>2, <3>3
  <2>4. Chained(m, T, w)
    <3>1. \A x \in T : m[x].size = f[x].size
      BY <1>5 DEF T, Free
    <3> QED BY <1>6, <1>7, <3>1, ChainAgrees
  <2>5. \A x \in Used(f) : m[x].size = f[x].size
    BY <1>5 DEF Used
  <2>6. Cardinality(UsedBytes(m)) = Cardinality(UsedBytes(f)) + m[a].size
    BY <1>4, <1>11, <2>5, CountAdds
  <2>7. r.active_memory = Cardinality(UsedBytes(m))
    BY <1>1, <1>2, <1>5, <2>2, <2>6
  <2>8. HeapOK(r)
    BY <1>4, <1>10, <2>1, <2>2, <2>3, <2>4, <2>7 DEF HeapOK
  <2>9. a \in Used(r.node) /\ r.node[a].size >= n
    <3>1. m[a].size = f[a].size
      BY <1>2, <1>5
    <3>2. f[a].size >= n
      BY <1>3
    <3> QED BY <1>11, <2>2, <3>1, <3>2
  <2>10. Undisturbed(f, r.node, Used(f))
    BY <1>11, <2>2, <2>5 DEF Undisturbed
  <2> QED BY <2>8, <2>9, <2>10 DEF r
<1>13. CASE ~(rest < MEM_LOW_RANGE)
  <2> DEFINE g == Split(m, a, n)
             k == [took EXCEPT !.node = Split(@, a, n), !.active_memory = @ + n]
  <2>1. CanSplit(m, a, n, b, e, rest)
    BY <1>2, <1>3, <1>4, <1>5 DEF CanSplit
  <2>2. Tiled(g) /\ IsSplit(m, a, n, b, e, rest, g)
    BY <2>1, SplitTiled, SplitValues
  <2>3. k = [node |-> g, chain |-> w, active_memory |-> h.active_memory + n]
    <3>1. took.node = m /\ took.active_memory = h.active_memory
      BY <1>8
    <3> DEFINE q == h.active_memory + n
    <3>2. k = [took EXCEPT !.node = g, !.active_memory = q]
      BY <3>1
    <3> HIDE DEF g, k, q
    <3>3. k = [node |-> g, chain |-> w, active_memory |-> q]
      BY <1>8, <3>2
    <3> QED BY <3>3 DEF q
  <2>4. r = AddNewNodeIntoBuddy(k, b)
    BY <1>9, <1>13
  <2> HIDE DEF g, k, b, e, rest
  <2>5. /\ b \notin DOMAIN m /\ b \in Addr /\ DOMAIN g = DOMAIN m \cup {b}
        /\ g[b].size = rest /\ ~g[b].alloc
        /\ \A x \in DOMAIN m : /\ g[x].size = IF x = a THEN n ELSE m[x].size
                               /\ g[x].alloc = m[x].alloc
    BY <2>2 DEF IsSplit
  <2>6. IsHeap(k) /\ k.node = g /\ k.chain = w /\ k.active_memory = h.active_memory + n
    BY <2>3 DEF IsHeap
  <2>7. \A x \in T : g[x].size = f[x].size /\ x \in DOMAIN f
    BY <1>4, <1>5, <2>5 DEF T, Free
  <2>8. Chained(g, T, w)
    BY <1>6, <1>7, <2>7, ChainAgrees
  <2>9. Sized(g, T)
    BY <1>7, <2>7 DEF Sized
  <2>10. g[b].size \in Nat \ {0} /\ b \notin T
    <3>1. g[b].size \in Nat /\ g[b].size > 0
      BY <2>2, <2>5, BlockNumbers
    <3> QED BY <1>4, <2>5, <2>7, <3>1
  <2>11. /\ IsHeap(r) /\ r.node = g /\ r.active_memory = h.active_memory + n
         /\ Chained(g, T \cup {b}, r.chain)
    BY <2>4, <2>5, <2>6, <2>8, <2>9, <2>10, AddedNode
  <2>12. T \cup {b} = Free(g)
    BY <1>4, <1>10, <2>5 DEF Free
  <2>13. Coalesced(g)
    <3> SUFFICES ASSUME NEW x \in DOMAIN g, x # Total - Hdr
                 PROVE  g[x].alloc \/ g[x + g[x].size].alloc
      BY DEF Coalesced
    <3>1. CASE x = a
      BY <1>2, <1>4, <1>5, <2>5, <3>1
    <3>2. CASE x = b
      <4>1. x + g[x].size = e
        <5>1. b + rest = e
          BY <1>3 DEF b, rest, e
        <5> QED BY <2>5, <3>2, <5>1
      <4>2. g[e].alloc
        BY <1>3, <1>4, <1>5, <2>5
      <4> QED BY <4>1, <4>2
    <3>3. CASE x \in DOMAIN f /\ x # a
      <4>1. g[x].size = f[x].size /\ (f[x].alloc => g[x].alloc)
        BY <1>4, <1>5, <2>5, <3>3
      <4>2. x + f[x].size \in DOMAIN f /\ (f[x].alloc \/ f[x + f[x].size].alloc)
        BY <1>1, <3>3 DEF Coalesced, Tiled
      <4>3. f[x + f[x].size].alloc => g[x + f[x].size].alloc
        BY <1>4, <1>5, <2>5, <4>2
      <4> QED BY <4>1, <4>2, <4>3
    <3> QED BY <1>4, <2>5, <3>1, <3>2, <3>3
  <2>14. Used(g) = Used(f) \cup {a}
    <3>1. b # 0 /\ b # Total - Hdr
      BY <1>4, <2>5, BlockNumbers
    <3> QED BY <1>4, <1>11, <2>5, <3>1 DEF Used
  <2>15. \A x \in Used(f) : g[x].size = f[x].size
    BY <1>4, <1>5, <1>11, <2>5 DEF Used
  <2>16. Cardinality(UsedBytes(g)) = Cardinality(UsedBytes(f)) + g[a].size
    BY <1>11, <2>2, <2>14, <2>15, CountAdds
  <2>17. g[a].size = n
    BY <1>2, <1>4, <2>5
  <2>18. HeapOK(r)
    BY <1>1, <2>2, <2>11, <2>12, <2>13, <2>16, <2>17 DEF HeapOK, IsHeap
  <2>19. a \in Used(r.node) /\ r.node[a].size >= n
    BY <2>11, <2>14, <2>17
  <2>20. Undisturbed(f, r.node, Used(f))
    BY <2>11, <2>14, <2>15 DEF Undisturbed
  <2> QED BY <2>18, <2>19, <2>20 DEF r
<1> QED BY <1>12, <1>13

(* BigMemMalloc fails and changes nothing, or takes a block that is free   *)
(* and large enough.                                                       *)
LEMMA MallocOK ==
  ASSUME NEW h, HeapOK(h), NEW size \in Nat
  PROVE  LET m == BigMemMalloc(h, size)
         IN  \/ m.block = None /\ m.heap = h
             \/ /\ m.block # None /\ m.block \in Free(h.node)
                /\ HeapOK(m.heap) /\ m.block \in Used(m.heap.node)
                /\ m.heap.node[m.block].size >= Hdr + size
                /\ Undisturbed(h.node, m.heap.node, Used(h.node))
<1> DEFINE n == AllocSize(size)
           a == BestFit(h, n)
           m == BigMemMalloc(h, size)
<1>1. n \in Nat /\ n > 0 /\ n \in Nat \ {0} /\ n = Hdr + size
  BY HeapNumbers DEF AllocSize
<1>2. m.block = a /\ m.heap = IF a = None THEN h ELSE Carve(h, a, n)
  BY DEF BigMemMalloc
<1>3. Tiled(h.node) /\ Chained(h.node, Free(h.node), h.chain)
  BY DEF HeapOK
<1>4. Sized(h.node, Free(h.node))
  BY <1>3, FreeBlocks
<1> HIDE DEF n, m
<1>5. a = None \/ (a \in Free(h.node) /\ h.node[a].size > n)
  BY <1>1, <1>3, <1>4, BestFitIs
<1> HIDE DEF a
<1>6. CASE a = None
  BY <1>2, <1>6 DEF m
<1>7. CASE a # None
  <2> DEFINE r == Carve(h, a, n)
  <2>1. a \in Free(h.node) /\ n < h.node[a].size
    <3>1. a \in Free(h.node) /\ h.node[a].size > n
      BY <1>5, <1>7
    <3>2. h.node[a].size \in Int
      BY <1>4, <3>1 DEF Sized
    <3> QED BY <1>1, <3>1, <3>2
  <2>2. /\ HeapOK(r) /\ a \in Used(r.node) /\ r.node[a].size >= n
        /\ Undisturbed(h.node, r.node, Used(h.node))
    BY <1>1, <2>1, CarveOK
  <2>3. m.heap = r
    BY <1>2, <1>7
  <2> HIDE DEF r
  <2> QED BY <1>1, <1>2, <1>7, <2>1, <2>2, <2>3 DEF m
<1> QED BY <1>6, <1>7

(* A heap in which x is unlinked and b has become part of a. *)
LEMMA MergeIs ==
  ASSUME NEW h, IsHeap(h), NEW x, NEW a, NEW b
  PROVE  LET k == Merge([h EXCEPT !.chain = RmNode(@, x)], a, b)
         IN  /\ IsHeap(k) /\ k.node = Joined(h.node, a, b) /\ k.chain = RmNode(h.chain, x)
             /\ k.active_memory = h.active_memory
<1> DEFINE w == RmNode(h.chain, x)
           u == [h EXCEPT !.chain = RmNode(@, x)]
           g == Joined(h.node, a, b)
           k == Merge(u, a, b)
<1>1. u = [node |-> h.node, chain |-> w, active_memory |-> h.active_memory]
  <2>1. u = [h EXCEPT !.chain = w]
    OBVIOUS
  <2> HIDE DEF w, u
  <2> QED BY <2>1 DEF IsHeap
<1> HIDE DEF u, w
<1>2. u.node = h.node
  BY <1>1
<1>3. k = [u EXCEPT !.node = g]
  <2>1. Joined(u.node, a, b) = g
    BY <1>2
  <2>2. k = [u EXCEPT !.node = Joined(u.node, a, b)]
    BY DEF Merge, Joined
  <2> QED BY <2>1, <2>2
<1> HIDE DEF k, g
<1>4. k = [node |-> g, chain |-> w, active_memory |-> h.active_memory]
  BY <1>1, <1>3
<1>5. IsHeap(k) /\ k.node = g /\ k.chain = w /\ k.active_memory = h.active_memory
  BY <1>4 DEF IsHeap
<1> QED BY <1>5 DEF k, g, w, u

(* Joining two blocks of which not both are free, or whose successor is    *)
(* allocated, leaves no two free neighbours.                               *)
LEMMA JoinedCoalesced ==
  ASSUME NEW f, NEW a, NEW b, NEW e, NEW size, CanJoin(f, a, b, e, size),
         Coalesced(f), f[a].alloc \/ f[e].alloc
  PROVE  Coalesced(Joined(f, a, b))
<1> DEFINE g == Joined(f, a, b)
<1>1. IsJoined(f, a, b, e, size, g) /\ Tiled(g)
  BY JoinedValues, JoinedTiled
<1> HIDE DEF g
<1>2. /\ b \in DOMAIN f /\ e \in DOMAIN f /\ e # b /\ a # b /\ DOMAIN g = DOMAIN f \ {b}
      /\ \A x \in DOMAIN g : /\ g[x].size = IF x = a THEN size ELSE f[x].size
                             /\ g[x].alloc = f[x].alloc
  BY <1>1 DEF IsJoined
<1> SUFFICES ASSUME NEW x \in DOMAIN g, x # Total - Hdr
             PROVE  g[x].alloc \/ g[x + g[x].size].alloc
  BY DEF Coalesced, g
<1>3. CASE x = a
  <2>1. g[x].size = size /\ x + size = e /\ e \in DOMAIN g
    BY <1>2, <1>3 DEF CanJoin
  <2>2. g[e].alloc = f[e].alloc /\ g[x].alloc = f[x].alloc
    BY <1>2, <2>1
  <2> QED BY <1>3, <2>1, <2>2
<1>4. CASE x # a
  <2>1. g[x].size = f[x].size /\ g[x].alloc = f[x].alloc
    BY <1>2, <1>4
  <2>2. x + g[x].size \in DOMAIN g
    BY <1>1 DEF Tiled
  <2>3. f[x].alloc \/ f[x + f[x].size].alloc
    BY <1>2 DEF Coalesced
  <2>4. g[x + g[x].size].alloc = f[x + f[x].size].alloc
    BY <1>2, <2>1, <2>2
  <2> QED BY <2>1, <2>3, <2>4
<1> QED BY <1>3, <1>4

(* BigMemFree of a, when a has been merged with the block behind it, if    *)
(* that is free, ...                                                       *)
Ahead(h, k, a) ==
    /\ IsHeap(k) /\ Tiled(k.node) /\ Coalesced(k.node)
    /\ Chained(k.node, Free(k.node), k.chain)
    /\ k.active_memory = h.active_memory
    /\ Used(k.node) = Used(h.node)
    /\ \A x \in Used(h.node) \ {a} : k.node[x].size = h.node[x].size
    /\ k.node[a + k.node[a].size].alloc

LEMMA FreeAhead ==
  ASSUME NEW h, HeapOK(h), NEW a \in Used(h.node), NEW next, next = a + h.node[a].size
  PROVE  Ahead(h, IF h.node[next].alloc THEN h
                  ELSE Merge([h EXCEPT !.chain = RmNode(@, next)], a, next), a)
<1> DEFINE f == h.node
           c == h.chain
<1>1. /\ IsHeap(h) /\ Tiled(f) /\ Coalesced(f) /\ Chained(f, Free(f), c)
  BY DEF HeapOK, IsHeap
<1>2. a \in DOMAIN f /\ a # 0 /\ a # Total - Hdr /\ f[a].alloc
  BY <1>1, FreeBlocks
<1>3. next \in DOMAIN f
  BY <1>1, <1>2 DEF Tiled
<1>4. CASE f[next].alloc
  BY <1>1, <1>4 DEF Ahead
<1>5. CASE ~f[next].alloc
  <2> DEFINE k    == Merge([h EXCEPT !.chain = RmNode(@, next)], a, next)
             g    == Joined(f, a, next)
             size == f[a].size + f[next].size
             e    == a + size
  <2>1. /\ IsHeap(k) /\ k.node = g /\ k.chain = RmNode(c, next)
        /\ k.active_memory = h.active_memory
    BY <1>1, MergeIs
  <2>2. next \in Free(f) /\ next # Total - Hdr
    BY <1>1, <1>3, <1>5, BlockNumbers DEF Free
  <2>3. CanJoin(f, a, next, e, size)
    BY <1>1, <1>2, <2>2 DEF CanJoin
  <2>4. Tiled(g) /\ Coalesced(g) /\ IsJoined(f, a, next, e, size, g)
    <3> HIDE DEF e, size
    <3> QED BY <1>1, <1>2, <2>3, JoinedTiled, JoinedValues, JoinedCoalesced
  <2> HIDE DEF g, k, size, e
  <2>5. /\ e \in DOMAIN f /\ e # next /\ a # next /\ e = next + f[next].size
        /\ DOMAIN g = DOMAIN f \ {next}
        /\ \A x \in DOMAIN g : /\ g[x].size = IF x = a THEN size ELSE f[x].size
                               /\ g[x].alloc = f[x].alloc
    BY <2>4 DEF IsJoined
  <2>6. Free(g) = Free(f) \ {next}
    BY <2>5 DEF Free
  <2>7. Used(g) = Used(f)
    BY <1>5, <2>5 DEF Used
  <2>8. Chained(g, Free(g), k.chain)
    <3>1. Sized(f, Free(f))
      BY <1>1, FreeBlocks
    <3>2. Chained(f, Free(g), k.chain)
      BY <1>1, <2>1, <2>2, <2>6, <3>1, ChainRemove
    <3>3. Sized(f, Free(g))
      BY <2>6, <3>1 DEF Sized
    <3>4. \A x \in Free(g) : g[x].size = f[x].size
      BY <1>2, <2>5 DEF Free
    <3> QED BY <3>2, <3>3, <3>4, ChainAgrees
  <2>9. \A x \in Used(f) \ {a} : g[x].size = f[x].size
    BY <1>5, <2>5 DEF Used
  <2>10. g[a + g[a].size].alloc
    <3>1. a \in DOMAIN g /\ e \in DOMAIN g
      BY <1>2, <2>5
    <3>2. g[a].size = size /\ a + size = e
      BY <2>5, <3>1 DEF e
    <3>3. f[e].alloc
      BY <1>1, <1>3, <1>5, <2>2, <2>5 DEF Coalesced
    <3> QED BY <2>5, <3>1, <3>2, <3>3
  <2>11. Ahead(h, k, a)
    BY <2>1, <2>4, <2>7, <2>8, <2>9, <2>10 DEF Ahead
  <2> QED BY <1>5, <2>11 DEF k
<1> QED BY <1>4, <1>5

(* ... and with the one before it: the block that becomes free is m. *)
Around(h, k, a, m) ==
    /\ IsHeap(k) /\ Tiled(k.node) /\ Coalesced(k.node)
    /\ m \in DOMAIN k.node /\ m # 0 /\ m # Total - Hdr
    /\ Chained(k.node, Free(k.node) \ {m}, k.chain)
    /\ k.active_memory = h.active_memory
    /\ Used(k.node) \ {m} = Used(h.node) \ {a}
    /\ \A x \in Used(h.node) \ {a} : k.node[x].size = h.node[x].size
    /\ k.node[m + k.node[m].size].alloc
    /\ \A x \in DOMAIN k.node : x + k.node[x].size = m => k.node[x].alloc

LEMMA FreeAround ==
  ASSUME NEW h, NEW k, NEW a \in Used(h.node), Ahead(h, k, a),
         NEW prev, prev = a - k.node[a].prev_adj_size
  PROVE  Around(h, IF k.node[prev].alloc THEN k
                   ELSE Merge([k EXCEPT !.chain = RmNode(@, prev)], prev, a),
                a, IF k.node[prev].alloc THEN a ELSE prev)
<1> DEFINE f == k.node
           c == k.chain
<1>1. /\ IsHeap(k) /\ Tiled(f) /\ Coalesced(f) /\ Chained(f, Free(f), c)
      /\ k.active_memory = h.active_memory /\ Used(f) = Used(h.node)
      /\ \A x \in Used(h.node) \ {a} : f[x].size = h.node[x].size
      /\ f[a + f[a].size].alloc
  BY DEF Ahead
<1>2. a \in DOMAIN f /\ a # 0 /\ a # Total - Hdr /\ f[a].alloc
  BY <1>1, FreeBlocks
<1>3. prev \in DOMAIN f /\ prev + f[prev].size = a
  <2>1. prev \in DOMAIN f /\ f[prev].size = f[a].prev_adj_size
    BY <1>1, <1>2 DEF Tiled
  <2>2. a \in Nat /\ f[a].prev_adj_size \in Nat
    BY <1>1, <1>2, BlockNumbers
  <2> QED BY <2>1, <2>2
<1>4. \A x \in DOMAIN f : x + f[x].size = a => x = prev
  BY <1>1, <1>3, OneBefore
<1>5. CASE f[prev].alloc
  <2>1. Free(f) \ {a} = Free(f)
    BY <1>2 DEF Free
  <2>2. Around(h, k, a, a)
    BY <1>1, <1>2, <1>4, <1>5, <2>1 DEF Around
  <2> QED BY <1>5, <2>2
<1>6. CASE ~f[prev].alloc
  <2> DEFINE j    == Merge([k EXCEPT !.chain = RmNode(@, prev)], prev, a)
             g    == Joined(f, prev, a)
             size == f[prev].size + f[a].size
             e    == prev + size
  <2>1. /\ IsHeap(j) /\ j.node = g /\ j.chain = RmNode(c, prev)
        /\ j.active_memory = k.active_memory
    BY <1>1, MergeIs
  <2>2. prev \in Free(f) /\ prev # Total - Hdr /\ prev # 0
    BY <1>1, <1>3, <1>6, BlockNumbers DEF Free
  <2>3. CanJoin(f, prev, a, e, size)
    BY <1>1, <1>2, <1>3, <2>2 DEF CanJoin
  <2>4. Tiled(g) /\ IsJoined(f, prev, a, e, size, g)
    <3> HIDE DEF e, size
    <3> QED BY <2>3, JoinedTiled, JoinedValues
  <2>5. /\ e \in DOMAIN f /\ e # a /\ a # prev /\ e # prev /\ e = a + f[a].size
        /\ DOMAIN g = DOMAIN f \ {a}
        /\ \A x \in DOMAIN g : /\ g[x].size = IF x = prev THEN size ELSE f[x].size
                               /\ g[x].alloc = f[x].alloc
    <3> HIDE DEF g, size, e
    <3> QED BY <2>4 DEF IsJoined
  <2> HIDE DEF size, e
  <2>6. Coalesced(g)
    BY <1>1, <2>3, <2>5, JoinedCoalesced
  <2> HIDE DEF g, j
  <2>7. Free(g) = Free(f)
    BY <1>2, <2>5 DEF Free
  <2>8. Used(g) = Used(f) \ {a} /\ prev \notin Used(g)
    BY <1>6, <2>5 DEF Used
  <2>9. Chained(g, Free(g) \ {prev}, j.chain)
    <3> DEFINE T == Free(f) \ {prev}
    <3>1. Sized(f, Free(f))
      BY <1>1, FreeBlocks
    <3>2. Chained(f, T, j.chain)
      BY <1>1, <2>1, <2>2, <3>1, ChainRemove
    <3>3. Sized(f, T)
      BY <3>1 DEF Sized
    <3>4. \A x \in T : g[x].size = f[x].size
      BY <1>2, <2>5 DEF Free
    <3>5. Chained(g, T, j.chain)
      BY <3>2, <3>3, <3>4, ChainAgrees
    <3> QED BY <2>7, <3>5
  <2>10. \A x \in Used(h.node) \ {a} : g[x].size = h.node[x].size
    BY <1>1, <1>6, <2>5 DEF Used
  <2>11. g[prev + g[prev].size].alloc
    <3>1. prev \in DOMAIN g /\ e \in DOMAIN g
      BY <1>3, <2>5
    <3>2. g[prev].size = size /\ prev + size = e
      BY <2>5, <3>1 DEF e
    <3>3. f[e].alloc
      BY <1>1, <2>5
    <3> QED BY <2>5, <3>1, <3>2, <3>3
  <2>12. ASSUME NEW x \in DOMAIN g, x + g[x].size = prev PROVE g[x].alloc
    <3>1. prev \in DOMAIN g /\ x # Total - Hdr
      <4>1. x = Total - Hdr => x + g[x].size = Total
        <5>1. g[Total - Hdr].size = Hdr
          BY <2>4, BlockNumbers
        <5> QED BY <5>1, HeapNumbers
      <4>2. prev < Total /\ prev \in Nat
        BY <1>1, <1>3, BlockNumbers
      <4> QED BY <1>3, <2>5, <2>12, <4>1, <4>2, HeapNumbers
    <3>2. ~g[prev].alloc
      BY <1>6, <2>5, <3>1
    <3> QED BY <2>6, <2>12, <3>1, <3>2 DEF Coalesced
  <2>13. Around(h, j, a, prev)
    BY <1>1, <1>3, <2>1, <2>2, <2>4, <2>5, <2>6, <2>8, <2>9, <2>10, <2>11, <2>12 DEF Around
  <2> QED BY <1>6, <2>13 DEF j
<1> QED BY <1>5, <1>6

(* BigMemFree gives back a block that is in use and no other. *)
LEMMA FreeOK ==
  ASSUME NEW h, HeapOK(h), NEW a \in Used(h.node)
  PROVE  LET r == BigMemFree(h, a)
         IN  HeapOK(r) /\ Undisturbed(h.node, r.node, Used(h.node) \ {a})
<1> DEFINE f    == h.node
           next == a + f[a].size
           h1   == IF f[next].alloc THEN h
                   ELSE Merge([h EXCEPT !.chain = RmNode(@, next)], a, next)
           prev == a - h1.node[a].prev_adj_size
           h2   == IF h1.node[prev].alloc THEN h1
                   ELSE Merge([h1 EXCEPT !.chain = RmNode(@, prev)], prev, a)
           m    == IF h1.node[prev].alloc THEN a ELSE prev
           g    == h2.node
           t    == [g EXCEPT ![m].alloc = FALSE]
           k    == [h2 EXCEPT !.node[m].alloc = FALSE, !.active_memory = @ - f[a].size]
           r    == BigMemFree(h, a)
           T    == Free(g) \ {m}
<1>1. Tiled(f) /\ h.active_memory = Cardinality(UsedBytes(f))
  BY DEF HeapOK
<1>2. Ahead(h, h1, a)
  BY FreeAhead
<1>3. Around(h, h2, a, m)
  <2> HIDE DEF h1
  <2> QED BY <1>2, FreeAround
<1>4. r = AddNewNodeIntoBuddy(k, m)
  BY DEF BigMemFree
<1> HIDE DEF h1, h2, m, r
<1>5. /\ IsHeap(h2) /\ Tiled(g) /\ Coalesced(g)
      /\ m \in DOMAIN g /\ m # 0 /\ m # Total - Hdr /\ Chained(g, T, h2.chain)
      /\ h2.active_memory = h.active_memory /\ Used(g) \ {m} = Used(f) \ {a}
      /\ \A x \in Used(f) \ {a} : g[x].size = f[x].size
      /\ g[m + g[m].size].alloc
      /\ \A x \in DOMAIN g : x + g[x].size = m => g[x].alloc
  BY <1>3 DEF Around
<1>6. Tiled(t) /\ DOMAIN t = DOMAIN g
  BY <1>5, MarkTiled
<1>7. /\ \A x \in DOMAIN g : t[x].size = g[x].size /\ (x # m => t[x].alloc = g[x].alloc)
      /\ ~t[m].alloc
  <2> DEFINE v == FALSE
             u == [g EXCEPT ![m].alloc = v]
  <2>1. v \in BOOLEAN /\ ~v /\ t = u
    OBVIOUS
  <2> HIDE DEF g, t, v
  <2>2. \A x \in DOMAIN g : u[x].size = g[x].size /\ u[x].alloc = IF x = m THEN v ELSE g[x].alloc
    BY <1>5, <2>1, MarkTiled
  <2> HIDE DEF u
  <2>3. ~u[m].alloc
    BY <1>5, <2>1, <2>2
  <2> QED BY <2>1, <2>2, <2>3
<1>8. k = [node |-> t, chain |-> h2.chain, active_memory |-> h.active_memory - f[a].size]
  <2> DEFINE q == h.active_memory - f[a].size
  <2>1. k = [h2 EXCEPT !.node = t, !.active_memory = q]
    BY <1>5
  <2> HIDE DEF k, t, q
  <2>2. k = [node |-> t, chain |-> h2.chain, active_memory |-> q]
    BY <1>5, <2>1 DEF IsHeap
  <2> QED BY <2>2 DEF q
<1> HIDE DEF k, t
<1>9. /\ IsHeap(k) /\ k.node = t /\ k.chain = h2.chain
      /\ k.active_memory = h.active_memory - f[a].size
  BY <1>8 DEF IsHeap
<1>10. /\ T = Free(t) \ {m} /\ m \in Free(t) /\ Used(t) = Used(f) \ {a}
  <2>1. ~t[m].alloc /\ \A x \in DOMAIN g \ {m} : t[x].alloc = g[x].alloc
    BY <1>5, <1>7
  <2>2. T = Free(t) \ {m} /\ m \in Free(t)
    BY <1>5, <1>6, <2>1 DEF Free
  <2>3. Used(t) = Used(g) \ {m}
    BY <1>6, <2>1 DEF Used
  <2> QED BY <1>5, <2>2, <2>3
<1>11. Sized(t, Free(t))
  BY <1>6, FreeBlocks
<1>12. Chained(t, T, h2.chain)
  <2>1. Sized(g, T)
    <3>1. Sized(g, Free(g))
      BY <1>5, FreeBlocks
    <3> QED BY <3>1 DEF Sized
  <2>2. \A x \in T : t[x].size = g[x].size
    BY <1>7 DEF Free
  <2> QED BY <1>5, <2>1, <2>2, ChainAgrees
<1>13. Sized(t, T) /\ m \in Addr /\ m \notin T /\ t[m].size \in Nat \ {0}
  BY <1>10, <1>11 DEF Sized
<1> HIDE DEF T, g
<1>14. /\ IsHeap(r) /\ r.node = t /\ r.active_memory = h.active_memory - f[a].size
       /\ Chained(t, T \cup {m}, r.chain)
  BY <1>4, <1>9, <1>12, <1>13, AddedNode
<1>15. T \cup {m} = Free(t)
  BY <1>10
<1>16. Coalesced(t)
  <2> SUFFICES ASSUME NEW x \in DOMAIN g, x # Total - Hdr
               PROVE  t[x].alloc \/ t[x + t[x].size].alloc
    BY <1>6 DEF Coalesced
  <2> DEFINE y == x + g[x].size
  <2>1. y \in DOMAIN g /\ t[x].size = g[x].size /\ (g[x].alloc \/ g[y].alloc)
    BY <1>5, <1>7 DEF Tiled, Coalesced
  <2>2. y # x
    <3>1. x \in Nat /\ g[x].size \in Nat /\ g[x].size > 0
      BY <1>5, BlockNumbers
    <3> QED BY <3>1
  <2>3. \A z \in DOMAIN g : z # m => t[z].alloc = g[z].alloc
    BY <1>7
  <2>4. CASE x = m
    BY <1>5, <2>1, <2>2, <2>3, <2>4
  <2>5. CASE y = m
    BY <1>5, <2>1, <2>2, <2>3, <2>5
  <2>6. CASE x # m /\ y # m
    BY <2>1, <2>3, <2>6
  <2> QED BY <2>4, <2>5, <2>6
<1>17. \A x \in Used(t) : t[x].size = f[x].size
  <2>1. Used(t) \subseteq DOMAIN g
    BY <1>6 DEF Used
  <2> QED BY <1>5, <1>7, <1>10, <2>1
<1>18. h.active_memory - f[a].size = Cardinality(UsedBytes(t))
  <2>1. Used(f) = Used(t) \cup {a} /\ a \notin Used(t)
    BY <1>10
  <2>2. \A x \in Used(t) : f[x].size = t[x].size
    BY <1>17
  <2>3. /\ Cardinality(UsedBytes(f)) = Cardinality(UsedBytes(t)) + f[a].size
        /\ Cardinality(UsedBytes(t)) \in Nat /\ f[a].size \in Nat
    BY <1>1, <2>1, <2>2, CountAdds
  <2> QED BY <1>1, <2>3
<1>19. HeapOK(r)
  BY <1>6, <1>14, <1>15, <1>16, <1>18 DEF HeapOK, IsHeap
<1>20. Undisturbed(f, r.node, Used(f) \ {a})
  BY <1>10, <1>14, <1>17 DEF Undisturbed
<1> QED BY <1>19, <1>20 DEF r

(* The heap InitBuddy sets up. *)
LEMMA InitBuddyOK == HeapOK(InitBuddy)
<1> DEFINE size == Total - 2 * Hdr
           E    == Total - Hdr
           D    == {0, Hdr, E}
           sz(a)   == IF a = Hdr THEN size ELSE Hdr
           prev(a) == CASE a = 0 -> 0 [] a = Hdr -> Hdr [] OTHER -> size
           al(a)   == a # Hdr
           f    == [a \in D |-> [size |-> sz(a), prev_adj_size |-> prev(a), alloc |-> al(a)]]
           c    == [k \in 1 .. LinkNrs |-> -k]
           k    == [node |-> f, chain |-> c, active_memory |-> 0]
<1>1. /\ Hdr \in Nat /\ Hdr > 0 /\ Total \in Nat /\ E \in Nat /\ size \in Nat /\ size > 0
      /\ Hdr # E /\ 0 # E /\ Hdr # 0 /\ Hdr < E /\ E < Total /\ Hdr + size = E /\ E - size = Hdr
      /\ LinkNrs \in Nat /\ LinkNrs > 0 /\ size <= Total /\ Hdr <= Total
  BY HeapNumbers
<1>2. InitBuddy = AddNewNodeIntoBuddy(k, Hdr)
  BY DEF InitBuddy
<1>3. /\ DOMAIN f = D
      /\ f[0].size = Hdr /\ f[0].prev_adj_size = 0 /\ f[0].alloc
      /\ f[Hdr].size = size /\ f[Hdr].prev_adj_size = Hdr /\ ~f[Hdr].alloc
      /\ f[E].size = Hdr /\ f[E].prev_adj_size = size /\ f[E].alloc
  <2> HIDE DEF size, E
  <2>1. sz(0) = Hdr /\ sz(Hdr) = size /\ sz(E) = Hdr /\ al(0) /\ ~al(Hdr) /\ al(E)
    BY <1>1
  <2>2. prev(0) = 0 /\ prev(Hdr) = Hdr /\ prev(E) = size
    BY <1>1
  <2> HIDE DEF sz, prev, al
  <2> QED BY <2>1, <2>2
<1>4. f \in [D -> Node]
  <2> HIDE DEF size, E
  <2>1. \A a \in D : sz(a) \in 1 .. Total /\ prev(a) \in 0 .. Total /\ al(a) \in BOOLEAN
    <3>1. sz(0) = Hdr /\ sz(Hdr) = size /\ sz(E) = Hdr
      BY <1>1
    <3>2. prev(0) = 0 /\ prev(Hdr) = Hdr /\ prev(E) = size
      BY <1>1
    <3>3. Hdr \in 1 .. Total /\ size \in 1 .. Total /\ 0 \in 0 .. Total
      BY <1>1
    <3>4. \A a \in D : al(a) \in BOOLEAN
      OBVIOUS
    <3> HIDE DEF sz, prev, al
    <3> QED BY <3>1, <3>2, <3>3, <3>4
  <2> HIDE DEF sz, prev, al, D
  <2> QED BY <2>1 DEF Node
<1> HIDE DEF f, size, E
<1>5. Tiled(f)
  <2>1. IsBlocks(f)
    <3>1. D \subseteq Addr
      BY <1>1 DEF Addr
    <3>2. \A a \in {0, Total - Hdr} : a \in DOMAIN f /\ f[a].size = Hdr /\ f[a].alloc
      BY <1>3 DEF E
    <3> QED BY <1>3, <1>4, <3>1, <3>2 DEF IsBlocks
  <2>2. ASSUME NEW a \in D, NEW b \in D, a < b PROVE a + f[a].size <= b
    <3>1. CASE a = 0
      BY <1>1, <1>3, <2>2, <3>1
    <3>2. CASE a = Hdr
      BY <1>1, <1>3, <2>2, <3>2
    <3>3. CASE a = E
      BY <1>1, <2>2, <3>3
    <3> QED BY <3>1, <3>2, <3>3
  <2>3. ASSUME NEW a \in D, a # E
        PROVE  a + f[a].size \in D /\ f[a + f[a].size].prev_adj_size = f[a].size
    <3>1. CASE a = 0
      BY <1>1, <1>3, <3>1
    <3>2. CASE a = Hdr
      BY <1>1, <1>3, <3>2
    <3> QED BY <2>3, <3>1, <3>2
  <2>4. ASSUME NEW a \in D, a # 0
        PROVE  /\ a - f[a].prev_adj_size \in D
               /\ f[a - f[a].prev_adj_size].size = f[a].prev_adj_size
    <3>1. CASE a = Hdr
      BY <1>1, <1>3, <3>1
    <3>2. CASE a = E
      BY <1>1, <1>3, <3>2
    <3> QED BY <2>4, <3>1, <3>2
  <2> QED BY <1>3, <2>1, <2>2, <2>3, <2>4 DEF Tiled, E
<1>6. Coalesced(f)
  <2>1. ASSUME NEW a \in D, a # E PROVE f[a].alloc \/ f[a + f[a].size].alloc
    <3>1. CASE a = 0
      BY <1>3, <3>1
    <3>2. CASE a = Hdr
      BY <1>1, <1>3, <3>2
    <3> QED BY <2>1, <3>1, <3>2
  <2> QED BY <1>3, <2>1 DEF Coalesced, E
<1>7. Chained(f, {}, c)
  <2>1. \A i \in 1 .. LinkNrs : c[i] = -i /\ -i \in Heads /\ -i < 0 /\ -(-i) = i
    BY <1>1 DEF Heads
  <2>2. c \in Seq(Addr \cup Heads) /\ Len(c) = LinkNrs /\ DOMAIN c = 1 .. LinkNrs
    BY <1>1, <2>1
  <2> HIDE DEF c
  <2>3. IsInjective(c)
    BY <1>1, <2>1, <2>2 DEF IsInjective
  <2>4. Range(c) = {} \cup Heads
    BY <2>1, <2>2 DEF Range, Heads
  <2>5. \A i \in 1 .. LinkNrs : ListOf(f, c[i]) = i
    BY <2>1 DEF ListOf
  <2>6. \A i, j \in 1 .. Len(c) : i < j => Before(f, c[i], c[j])
    BY <2>2, <2>5 DEF Before
  <2> QED BY <2>2, <2>3, <2>4, <2>6 DEF Chained
<1>8. IsHeap(k) /\ k.node = f /\ k.chain = c /\ k.active_memory = 0
  <2> HIDE DEF c
  <2> QED BY DEF IsHeap
<1> HIDE DEF k, c
<1>9. Hdr \in Addr /\ f[Hdr].size \in Nat \ {0} /\ Sized(f, {})
  BY <1>1, <1>3 DEF Addr, Sized
<1> DEFINE r == AddNewNodeIntoBuddy(k, Hdr)
<1>10. /\ IsHeap(r) /\ r.node = f /\ r.active_memory = 0
       /\ Chained(f, {} \cup {Hdr}, r.chain)
  BY <1>7, <1>8, <1>9, AddedNode
<1> HIDE DEF r
<1>11. Free(f) = {} \cup {Hdr}
  BY <1>1, <1>3 DEF Free
<1>12. Used(f) = {}
  BY <1>3 DEF Used, E
<1>13. UsedBytes(f) = {}
  BY <1>12 DEF UsedBytes
<1>14. HeapOK(r)
  BY <1>5, <1>6, <1>10, <1>11, <1>13, FS_EmptySet DEF HeapOK, IsHeap
<1> QED BY <1>2, <1>14 DEF r

-----------------------------------------------------------------------------
(* Small blocks. *)

LEMMA SmallNumbers ==
  ASSUME NEW seg \in 1 .. 2
  PROVE  /\ SmallSize[seg] \in Nat /\ SmallNumber[seg] \in Nat /\ SmallSize[seg] + Hdr \in Nat
         /\ SmallSize[seg] + Hdr > 0 /\ (SmallSize[seg] + Hdr) * SmallNumber[seg] \in Nat
<1>1. SmallSize[seg] \in Nat /\ SmallNumber[seg] \in Nat
  <2>1. seg \in 1 .. Len(SmallSize) /\ seg \in 1 .. Len(SmallNumber)
    BY HeapAssumption
  <2>2. SmallSize \in Seq(Nat \ {0}) /\ SmallNumber \in Seq(Nat \ {0})
    BY HeapAssumption
  <2> QED BY <2>1, <2>2
<1>2. SmallSize[seg] + Hdr \in Nat /\ SmallSize[seg] + Hdr > 0
  BY <1>1, HeapNumbers
<1> DEFINE w == SmallSize[seg] + Hdr
<1> HIDE DEF w
<1>3. w * SmallNumber[seg] \in Nat
  BY <1>1, <1>2 DEF w
<1> QED BY <1>1, <1>2, <1>3 DEF w

(* The blocks of a segment: one behind the other, from the header of the   *)
(* block they were carved from on.                                         *)
LEMMA SmallRow ==
  ASSUME NEW seg \in 1 .. 2, NEW b \in Nat, b = SegBase[seg], NEW w, w = SmallSize[seg] + Hdr,
         NEW i \in 1 .. SmallNumber[seg], NEW j \in 1 .. SmallNumber[seg],
         NEW s, s = SegmentBlocks(seg, b)
  PROVE  /\ s[i] \in Nat /\ b + Hdr <= s[i] /\ s[i] + w <= b + Hdr + w * SmallNumber[seg]
         /\ i < j => s[i] + w <= s[j]
<1> DEFINE n == SmallNumber[seg]
           p == i - 1
           q == j - 1
<1>1. /\ w \in Nat /\ w > 0 /\ n \in Nat /\ w * n \in Nat /\ p \in Nat /\ q \in Nat
      /\ p < n /\ q < n /\ (i < j => p < q) /\ b # None /\ Hdr \in Nat
  BY SmallNumbers, HeapNumbers
<1>2. s[i] = b + Hdr + p * w /\ s[j] = b + Hdr + q * w
  BY <1>1 DEF SegmentBlocks
<1> HIDE DEF n, p, q
<1>3. p * w \in Nat /\ p * w + w <= n * w /\ n * w \in Nat
  BY <1>1, RowSpacing
<1>4. p < q => p * w + w <= q * w
  BY <1>1, RowSpacing
<1>5. q * w \in Nat
  BY <1>1
<1>6. n * w = w * n
  BY <1>1
<1> DEFINE pw == p * w
           qw == q * w
           nw == n * w
<1>7. /\ pw \in Nat /\ qw \in Nat /\ nw \in Nat /\ pw + w <= nw /\ (p < q => pw + w <= qw)
      /\ s[i] = b + Hdr + pw /\ s[j] = b + Hdr + qw
  BY <1>2, <1>3, <1>4, <1>5
<1> HIDE DEF pw, qw, nw
<1>8. /\ s[i] \in Nat /\ b + Hdr <= s[i] /\ s[i] + w <= b + Hdr + nw
      /\ i < j => s[i] + w <= s[j]
  BY <1>1, <1>7
<1> QED BY <1>6, <1>8 DEF nw, n

LEMMA SegmentSeq ==
  ASSUME NEW seg \in 1 .. 2, NEW b, b = SegBase[seg], b = None \/ b \in Nat
  PROVE  LET s == SegmentBlocks(seg, b)
         IN  /\ s \in Seq(Int) /\ IsInjective(s) /\ Range(s) = SmallBlocks(seg)
             /\ b = None => Range(s) = {}
<1> DEFINE s == SegmentBlocks(seg, b)
<1>1. Range(s) = SmallBlocks(seg)
  BY DEF SmallBlocks
<1>2. CASE b = None
  <2>1. s = <<>>
    BY <1>2 DEF SegmentBlocks
  <2> HIDE DEF s
  <2>2. Range(s) = {} /\ IsInjective(s) /\ s \in Seq(Int)
    BY <2>1, EmptyElements
  <2> QED BY <1>1, <2>2 DEF s
<1>3. CASE b # None
  <2> DEFINE n == SmallNumber[seg]
             w == SmallSize[seg] + Hdr
  <2>1. b \in Nat /\ n \in Nat /\ w \in Nat /\ w > 0
    BY <1>3, SmallNumbers
  <2>2. s = [i \in 1 .. n |-> b + Hdr + (i - 1) * w]
    BY <1>3 DEF SegmentBlocks
  <2>3. DOMAIN s = 1 .. n
    BY <2>2
  <2> HIDE DEF s, w
  <2>4. ASSUME NEW i \in 1 .. n PROVE s[i] \in Nat
    BY <2>1, SmallRow DEF s, w
  <2>5. ASSUME NEW i \in 1 .. n, NEW j \in 1 .. n, i < j PROVE s[i] # s[j]
    <3>1. s[i] + w <= s[j]
      BY <2>1, <2>5, SmallRow DEF s, w
    <3> QED BY <2>1, <2>4, <3>1
  <2>6. s \in Seq(Int)
    <3>1. s = [i \in 1 .. n |-> s[i]]
      BY <2>2, <2>3
    <3> QED BY <2>1, <2>4, <3>1
  <2>7. IsInjective(s)
    BY <2>1, <2>3, <2>5 DEF IsInjective
  <2> QED BY <1>1, <1>3, <2>6, <2>7 DEF s
<1> QED BY <1>2, <1>3

(* A small block lies inside the block its segment was carved from, behind *)
(* the header, with its own header and bytes.                              *)
LEMMA SmallInside ==
  ASSUME NEW f, Tiled(f), SegmentsOK(f), NEW seg \in 1 .. 2, NEW a \in SmallBlocks(seg)
  PROVE  LET b == SegBase[seg]
         IN  /\ b # None /\ b \in Used(f) /\ b \in Nat /\ a \in Nat /\ a \in Addr /\ b < a
             /\ a + SmallSize[seg] + Hdr <= b + f[b].size
<1> DEFINE b == SegBase[seg]
           w == SmallSize[seg] + Hdr
           n == SmallNumber[seg]
<1>1. b # None => b \in Used(f) /\ f[b].size >= Hdr + w * n
  BY DEF SegmentsOK
<1>2. b # None => b \in DOMAIN f /\ b \in Nat
  <2>1. Used(f) \subseteq DOMAIN f
    BY DEF Used
  <2> QED BY <1>1, <2>1, BlockNumbers
<1> HIDE DEF b
<1>3. b # None
  <2> SUFFICES ASSUME b = None PROVE FALSE
    OBVIOUS
  <2>1. SmallBlocks(seg) = {}
    BY SegmentSeq DEF b
  <2> QED BY <2>1
<1>4. PICK i \in 1 .. n : a = SegmentBlocks(seg, b)[i]
  <2>1. DOMAIN SegmentBlocks(seg, b) = 1 .. n
    BY <1>3 DEF SegmentBlocks
  <2> QED BY <2>1 DEF SmallBlocks, Range, b
<1>5. a \in Nat /\ b + Hdr <= a /\ a + w <= b + Hdr + w * n
  BY <1>2, <1>3, <1>4, SmallRow DEF b
<1> DEFINE x == w * n
<1>6. w \in Nat /\ x \in Nat /\ Hdr \in Nat /\ Hdr > 0 /\ f[b].size \in Nat /\ f[b].size >= Hdr + x
      /\ b + f[b].size <= Total /\ Total \in Nat /\ SmallSize[seg] \in Nat
  BY <1>1, <1>2, <1>3, SmallNumbers, HeapNumbers, BlockNumbers, BlockEnds
<1>7. a \in Nat /\ b + Hdr <= a /\ a + w <= b + Hdr + x /\ b \in Nat /\ w > 0
  BY <1>2, <1>3, <1>5, SmallNumbers
<1> HIDE DEF x
<1>8. b < a /\ a + SmallSize[seg] + Hdr <= b + f[b].size /\ a < Total
  BY <1>6, <1>7
<1>9. a \in Addr
  BY <1>6, <1>7, <1>8 DEF Addr
<1> QED BY <1>1, <1>2, <1>3, <1>7, <1>8, <1>9 DEF b

LEMMA SmallApart ==
  ASSUME NEW f, Tiled(f), SegmentsOK(f), NEW seg \in 1 .. 2,
         NEW x \in SmallBlocks(seg), NEW y \in SmallBlocks(seg), x < y
  PROVE  x + SmallSize[seg] + Hdr <= y
<1> DEFINE b == SegBase[seg]
           s == SegmentBlocks(seg, b)
           n == SmallNumber[seg]
           w == SmallSize[seg] + Hdr
<1>1. b # None /\ b \in Nat /\ n \in Nat /\ w \in Nat /\ SmallSize[seg] \in Nat /\ Hdr \in Nat
  BY SmallInside, SmallNumbers, HeapNumbers
<1>2. DOMAIN s = 1 .. n
  BY <1>1 DEF SegmentBlocks
<1>3. PICK i \in 1 .. n : x = s[i]
  BY <1>2 DEF SmallBlocks, Range
<1>4. PICK j \in 1 .. n : y = s[j]
  BY <1>2 DEF SmallBlocks, Range
<1>5. (i < j => s[i] + w <= s[j]) /\ (j < i => s[j] + w <= s[i]) /\ s[i] \in Nat /\ s[j] \in Nat
  BY <1>1, SmallRow
<1> HIDE DEF s
<1>6. i < j
  BY <1>1, <1>3, <1>4, <1>5
<1> QED BY <1>1, <1>3, <1>4, <1>5, <1>6

LEMMA SegmentsKept ==
  ASSUME NEW f, NEW g, NEW T, SegmentsOK(f), Undisturbed(f, g, T),
         \A seg \in 1 .. 2 : SegBase[seg] # None => SegBase[seg] \in T
  PROVE  SegmentsOK(g)
<1>1. SegBase[1] = SegBase[2] => SegBase[1] = None
  BY DEF SegmentsOK
<1>2. ASSUME NEW seg \in 1 .. 2, SegBase[seg] # None
      PROVE  /\ SegBase[seg] \in Used(g)
             /\ g[SegBase[seg]].size >= Hdr + (SmallSize[seg] + Hdr) * SmallNumber[seg]
  <2>1. SegBase[seg] \in Used(g) /\ g[SegBase[seg]].size = f[SegBase[seg]].size
    BY <1>2 DEF Undisturbed
  <2>2. f[SegBase[seg]].size >= Hdr + (SmallSize[seg] + Hdr) * SmallNumber[seg]
    BY <1>2 DEF SegmentsOK
  <2> QED BY <2>1, <2>2
<1> QED BY <1>1, <1>2 DEF SegmentsOK

LEMMA FreelistInit ==
  ASSUME NEW f, Tiled(f), SegmentsOK(f), NEW seg \in 1 .. 2
  PROVE  LET s == SegmentBlocks(seg, SegBase[seg])
         IN  s \in Seq(Addr) /\ IsInjective(s) /\ Range(s) \subseteq SmallBlocks(seg)
<1> DEFINE b == SegBase[seg]
           s == SegmentBlocks(seg, b)
<1>1. b = None \/ b \in Nat
  <2>1. b # None => b \in Used(f)
    BY DEF SegmentsOK
  <2> QED BY <2>1, FreeBlocks, BlockNumbers
<1> HIDE DEF b
<1>2. s \in Seq(Int) /\ IsInjective(s) /\ Range(s) = SmallBlocks(seg)
  BY <1>1, SegmentSeq DEF b
<1> HIDE DEF s
<1>3. \A x \in Range(s) : x \in Addr
  BY <1>2, SmallInside
<1>4. s \in Seq(Addr)
  <2>1. Len(s) \in Nat /\ DOMAIN s = 1 .. Len(s) /\ \A i \in 1 .. Len(s) : s[i] \in Range(s)
    BY <1>2 DEF Range
  <2>2. s = [i \in 1 .. Len(s) |-> s[i]]
    BY <1>2
  <2> QED BY <1>3, <2>1, <2>2
<1> QED BY <1>2, <1>4 DEF s, b

-----------------------------------------------------------------------------
(* The invariant is inductive. *)

LEMMA HeapInvInit == HeapInit => HeapInv
<1> SUFFICES ASSUME HeapInit PROVE HeapInv
  OBVIOUS
<1> DEFINE n1 == (SmallSize[1] + Hdr) * SmallNumber[1]
           n2 == (SmallSize[2] + Hdr) * SmallNumber[2]
           m1 == BigMemMalloc(InitBuddy, n1)
           m3 == BigMemMalloc(m1.heap, n2)
           m2 == IF m1.block = None THEN m1 ELSE m3
           b1 == m1.block
           b2 == m2.block
<1>1. /\ heap = m2.heap
      /\ freelist = <<SegmentBlocks(1, b1), SegmentBlocks(2, b2)>>
      /\ count = [seg \in 1 .. 2 |-> Len(freelist[seg])]
      /\ given = << >>
  BY DEF HeapInit
<1>2. SegBase[1] = b1 /\ SegBase[2] = b2
  BY DEF SegBase
<1>3. n1 \in Nat /\ n2 \in Nat
  BY SmallNumbers
<1> HIDE DEF n1, n2
<1>4. HeapOK(InitBuddy)
  BY InitBuddyOK
<1>5. \/ m1.block = None /\ m1.heap = InitBuddy
      \/ /\ m1.block # None /\ m1.block \in Free(InitBuddy.node)
         /\ HeapOK(m1.heap) /\ m1.block \in Used(m1.heap.node)
         /\ m1.heap.node[m1.block].size >= Hdr + n1
         /\ Undisturbed(InitBuddy.node, m1.heap.node, Used(InitBuddy.node))
  BY <1>3, <1>4, MallocOK
<1> HIDE DEF m1
<1>6. HeapOK(m1.heap)
  BY <1>4, <1>5
<1>7. \/ m3.block = None /\ m3.heap = m1.heap
      \/ /\ m3.block # None /\ m3.block \in Free(m1.heap.node)
         /\ HeapOK(m3.heap) /\ m3.block \in Used(m3.heap.node)
         /\ m3.heap.node[m3.block].size >= Hdr + n2
         /\ Undisturbed(m1.heap.node, m3.heap.node, Used(m1.heap.node))
  BY <1>3, <1>6, MallocOK
<1> HIDE DEF m3
<1>8. HeapOK(heap) /\ SegmentsOK(heap.node)
  <2>1. CASE b1 = None
    <3>1. b2 = None /\ heap = m1.heap
      BY <1>1, <2>1
    <3>2. \A seg \in 1 .. 2 : SegBase[seg] = None
      BY <1>2, <2>1, <3>1
    <3> QED BY <1>6, <3>1, <3>2 DEF SegmentsOK
  <2>2. CASE b1 # None /\ m3.block = None
    <3>1. b2 = None /\ heap = m1.heap
      BY <1>1, <1>7, <2>2
    <3>2. b1 \in Used(heap.node) /\ heap.node[b1].size >= Hdr + n1
      BY <1>5, <2>2, <3>1
    <3>3. SegmentsOK(heap.node)
      BY <1>2, <2>2, <3>1, <3>2 DEF SegmentsOK, n1
    <3> QED BY <1>6, <3>1, <3>3
  <2>3. CASE b1 # None /\ m3.block # None
    <3>1. b2 = m3.block /\ heap = m3.heap
      BY <1>1, <2>3
    <3>2. b1 \in Used(m1.heap.node) /\ m1.heap.node[b1].size >= Hdr + n1
      BY <1>5, <2>3
    <3>3. /\ b2 \in Free(m1.heap.node) /\ HeapOK(heap) /\ b2 \in Used(heap.node)
          /\ heap.node[b2].size >= Hdr + n2
          /\ Undisturbed(m1.heap.node, heap.node, Used(m1.heap.node))
      BY <1>7, <2>3, <3>1
    <3>4. b1 \in Used(heap.node) /\ heap.node[b1].size >= Hdr + n1
      BY <3>2, <3>3 DEF Undisturbed
    <3>5. b1 # b2
      BY <3>2, <3>3 DEF Free, Used
    <3> HIDE DEF b1, b2
    <3>6. SegmentsOK(heap.node)
      BY <1>2, <3>3, <3>4, <3>5 DEF SegmentsOK, n1, n2
    <3> QED BY <3>3, <3>6
  <2> QED BY <2>1, <2>2, <2>3
<1> HIDE DEF b1, b2
<1>9. FreelistsOK
  <2>1. Tiled(heap.node)
    BY <1>8 DEF HeapOK
  <2>2. \A seg \in 1 .. 2 : freelist[seg] = SegmentBlocks(seg, SegBase[seg])
    BY <1>1, <1>2
  <2>3. \A seg \in 1 .. 2 : /\ freelist[seg] \in Seq(Addr) /\ IsInjective(freelist[seg])
                            /\ Range(freelist[seg]) \subseteq SmallBlocks(seg)
    BY <1>8, <2>1, <2>2, FreelistInit
  <2>4. freelist \in [1 .. 2 -> Seq(Addr)]
    <3>1. DOMAIN freelist = 1 .. 2 /\ freelist = [seg \in 1 .. 2 |-> freelist[seg]]
      BY <1>1
    <3> QED BY <2>3, <3>1
  <2>5. \A seg \in 1 .. 2 : count[seg] = Len(freelist[seg]) /\ Len(freelist[seg]) \in Nat
    BY <1>1, <2>4
  <2>6. count \in [1 .. 2 -> Nat]
    BY <1>1, <2>5
  <2> QED BY <2>3, <2>4, <2>5, <2>6 DEF FreelistsOK
<1>10. GivenOK
  <2>1. DOMAIN given = {}
    BY <1>1
  <2>2. given \in [DOMAIN given -> [seg : 0 .. 2, size : Sizes]]
    BY <1>1, <2>1
  <2> QED BY <2>1, <2>2 DEF GivenOK
<1> QED BY <1>8, <1>9, <1>10 DEF HeapInv

(* A caller gets a block: those that others have are as they were. *)
LEMMA GivenBuddy ==
  ASSUME HeapInv, NEW allocated \in Nat, NEW size \in Sizes, size <= allocated,
         FromBuddy(allocated, size)
  PROVE  HeapInv'
<1> DEFINE m == BigMemMalloc(heap, allocated)
           a == m.block
           r == [seg |-> 0, size |-> size]
<1>1. /\ heap' = m.heap /\ freelist' = freelist /\ count' = count
      /\ IF a = None THEN given' = given ELSE given' = Extend(given, a, r)
  BY DEF FromBuddy, Hand
<1>2. HeapOK(heap) /\ SegmentsOK(heap.node) /\ FreelistsOK /\ GivenOK
  BY DEF HeapInv
<1>3. \/ m.block = None /\ m.heap = heap
      \/ /\ m.block # None /\ m.block \in Free(heap.node)
         /\ HeapOK(m.heap) /\ m.block \in Used(m.heap.node)
         /\ m.heap.node[m.block].size >= Hdr + allocated
         /\ Undisturbed(heap.node, m.heap.node, Used(heap.node))
  BY <1>2, MallocOK
<1> HIDE DEF m
<1>4. CASE a = None
  <2>1. heap' = heap /\ given' = given
    BY <1>1, <1>3, <1>4
  <2> QED BY <1>1, <1>2, <2>1 DEF HeapInv, FreelistsOK, GivenOK
<1>5. CASE a # None
  <2>1. /\ a \in Free(heap.node) /\ HeapOK(heap') /\ a \in Used(heap'.node)
        /\ heap'.node[a].size >= Hdr + allocated
        /\ Undisturbed(heap.node, heap'.node, Used(heap.node))
    BY <1>1, <1>3, <1>5
  <2>2. given' = Extend(given, a, r)
    BY <1>1, <1>5
  <2> HIDE DEF a
  <2>3. \A seg \in 1 .. 2 : SegBase[seg] # None => SegBase[seg] \in Used(heap.node)
    BY <1>2 DEF SegmentsOK
  <2>4. SegmentsOK(heap'.node)
    BY <1>2, <2>1, <2>3, SegmentsKept
  <2>5. FreelistsOK'
    BY <1>1, <1>2 DEF FreelistsOK
  <2>6. a # SegBase[1] /\ a # SegBase[2]
    BY <1>5, <2>1, <2>3 DEF Free, Used
  <2>7. heap'.node[a].size >= Hdr + size
    <3>1. Tiled(heap'.node)
      BY <2>1 DEF HeapOK
    <3>2. heap'.node[a].size \in Nat
      BY <2>1, <3>1, FreeBlocks, BlockNumbers
    <3>3. size \in Nat /\ Hdr \in Nat
      BY HeapAssumption
    <3> QED BY <2>1, <3>2, <3>3
  <2>8. r \in [seg : 0 .. 2, size : Sizes] /\ r.seg = 0 /\ r.size = size
    OBVIOUS
  <2> HIDE DEF r
  <2>9. /\ DOMAIN given' = DOMAIN given \cup {a} /\ given'[a] = r
        /\ \A x \in DOMAIN given : x # a => given'[x] = given[x]
    BY <2>2 DEF Extend
  <2>10. given' \in [DOMAIN given' -> [seg : 0 .. 2, size : Sizes]]
    BY <1>2, <2>2, <2>8, <2>9 DEF GivenOK, Extend
  <2>11. ASSUME NEW x \in DOMAIN given'
         PROVE  IF given'[x].seg = 0
                THEN /\ x \in Used(heap'.node) /\ x # SegBase[1] /\ x # SegBase[2]
                     /\ heap'.node[x].size >= Hdr + given'[x].size
                ELSE /\ x \in SmallBlocks(given'[x].seg)
                     /\ x \notin Range(freelist'[given'[x].seg])
                     /\ given'[x].size <= SmallSize[given'[x].seg]
    <3>1. CASE x = a
      BY <2>1, <2>6, <2>7, <2>8, <2>9, <3>1
    <3>2. CASE x # a
      <4>1. x \in DOMAIN given /\ given'[x] = given[x]
        BY <2>9, <3>2
      <4>2. IF given[x].seg = 0
            THEN /\ x \in Used(heap.node) /\ x # SegBase[1] /\ x # SegBase[2]
                 /\ heap.node[x].size >= Hdr + given[x].size
            ELSE /\ x \in SmallBlocks(given[x].seg) /\ x \notin Range(freelist[given[x].seg])
                 /\ given[x].size <= SmallSize[given[x].seg]
        BY <1>2, <4>1 DEF GivenOK
      <4>3. x \in Used(heap.node) => x \in Used(heap'.node) /\ heap'.node[x].size = heap.node[x].size
        BY <2>1 DEF Undisturbed
      <4> QED BY <1>1, <4>1, <4>2, <4>3
    <3> QED BY <3>1, <3>2
  <2>12. GivenOK'
    BY <2>10, <2>11 DEF GivenOK
  <2> QED BY <2>1, <2>4, <2>5, <2>12 DEF HeapInv
<1> QED BY <1>4, <1>5

LEMMA GivenSmall ==
  ASSUME HeapInv, NEW seg \in 1 .. 2, NEW size \in Sizes, size <= SmallSize[seg],
         SmallMemMalloc(seg, size)
  PROVE  HeapInv'
<1>1. HeapOK(heap) /\ SegmentsOK(heap.node) /\ FreelistsOK /\ GivenOK
  BY DEF HeapInv
<1>2. CASE ~(count[seg] > 0)
  <2>1. FromBuddy(SmallSize[seg], size)
    BY <1>2 DEF SmallMemMalloc
  <2> QED BY <2>1, GivenBuddy, SmallNumbers
<1>3. CASE count[seg] > 0
  <2> DEFINE s == freelist[seg]
             a == Head(s)
             r == [seg |-> seg, size |-> size]
  <2>1. /\ given' = Extend(given, a, r) /\ heap' = heap
        /\ freelist' = [freelist EXCEPT ![seg] = Tail(s)]
        /\ count' = [count EXCEPT ![seg] = @ - 1]
    BY <1>3 DEF SmallMemMalloc, Hand
  <2>2. /\ freelist \in [1 .. 2 -> Seq(Addr)] /\ count \in [1 .. 2 -> Nat]
        /\ s \in Seq(Addr) /\ IsInjective(s) /\ Range(s) \subseteq SmallBlocks(seg)
        /\ count[seg] = Len(s)
    BY <1>1 DEF FreelistsOK
  <2>3. s # <<>>
    BY <1>3, <2>2
  <2>4. /\ a \in Range(s) /\ Tail(s) \in Seq(Addr) /\ IsInjective(Tail(s))
        /\ Range(Tail(s)) = Range(s) \ {a}
    BY <2>2, <2>3, TailElements
  <2>5. Len(Tail(s)) = Len(s) - 1 /\ Len(s) \in Nat /\ Len(s) # 0
    BY <2>2, <2>3
  <2> DEFINE t == Tail(s)
  <2>6. /\ freelist' = [freelist EXCEPT ![seg] = t] /\ Len(t) = Len(s) - 1 /\ t \in Seq(Addr)
        /\ IsInjective(t) /\ Range(t) = Range(s) \ {a}
    BY <2>1, <2>4, <2>5
  <2> HIDE DEF t, s, a
  <2>7. freelist'[seg] = t /\ \A o \in 1 .. 2 : o # seg => freelist'[o] = freelist[o]
    BY <2>2, <2>6
  <2>8. count'[seg] = Len(t) /\ \A o \in 1 .. 2 : o # seg => count'[o] = count[o]
    BY <2>1, <2>2, <2>6
  <2>9. freelist' \in [1 .. 2 -> Seq(Addr)] /\ count' \in [1 .. 2 -> Nat]
    BY <2>1, <2>2, <2>5, <2>6
  <2>10. \A o \in 1 .. 2 : /\ IsInjective(freelist[o]) /\ Range(freelist[o]) \subseteq SmallBlocks(o)
                           /\ count[o] = Len(freelist[o])
    BY <1>1 DEF FreelistsOK
  <2>11. \A o \in 1 .. 2 : /\ IsInjective(freelist'[o]) /\ Range(freelist'[o]) \subseteq SmallBlocks(o)
                           /\ count'[o] = Len(freelist'[o])
    <3> SUFFICES ASSUME NEW o \in 1 .. 2
                 PROVE  /\ IsInjective(freelist'[o]) /\ Range(freelist'[o]) \subseteq SmallBlocks(o)
                        /\ count'[o] = Len(freelist'[o])
      OBVIOUS
    <3>1. CASE o = seg
      BY <2>2, <2>6, <2>7, <2>8, <3>1
    <3>2. CASE o # seg
      BY <2>7, <2>8, <2>10, <3>2
    <3> QED BY <3>1, <3>2
  <2>12. FreelistsOK'
    BY <2>9, <2>11 DEF FreelistsOK
  <2>13. r \in [seg : 0 .. 2, size : Sizes] /\ r.seg = seg /\ r.size = size /\ seg # 0
    OBVIOUS
  <2> HIDE DEF r
  <2>14. /\ DOMAIN given' = DOMAIN given \cup {a} /\ given'[a] = r
         /\ \A x \in DOMAIN given : x # a => given'[x] = given[x]
    BY <2>1 DEF Extend
  <2>15. given' \in [DOMAIN given' -> [seg : 0 .. 2, size : Sizes]]
    BY <1>1, <2>1, <2>13, <2>14 DEF GivenOK, Extend
  <2>16. ASSUME NEW x \in DOMAIN given'
         PROVE  IF given'[x].seg = 0
                THEN /\ x \in Used(heap'.node) /\ x # SegBase[1] /\ x # SegBase[2]
                     /\ heap'.node[x].size >= Hdr + given'[x].size
                ELSE /\ x \in SmallBlocks(given'[x].seg)
                     /\ x \notin Range(freelist'[given'[x].seg])
                     /\ given'[x].size <= SmallSize[given'[x].seg]
    <3>1. CASE x = a
      <4>1. a \in SmallBlocks(seg) /\ a \notin Range(freelist'[seg])
        BY <2>2, <2>4, <2>6, <2>7 DEF s, a
      <4> QED BY <2>13, <2>14, <3>1, <4>1
    <3>2. CASE x # a
      <4>1. x \in DOMAIN given /\ given'[x] = given[x]
        BY <2>14, <3>2
      <4>2. IF given[x].seg = 0
            THEN /\ x \in Used(heap.node) /\ x # SegBase[1] /\ x # SegBase[2]
                 /\ heap.node[x].size >= Hdr + given[x].size
            ELSE /\ x \in SmallBlocks(given[x].seg) /\ x \notin Range(freelist[given[x].seg])
                 /\ given[x].size <= SmallSize[given[x].seg]
        BY <1>1, <4>1 DEF GivenOK
      <4>3. given[x].seg \in 0 .. 2
        BY <1>1, <4>1 DEF GivenOK
      <4>4. given[x].seg # 0 => Range(freelist'[given[x].seg]) \subseteq Range(freelist[given[x].seg])
        BY <2>6, <2>7, <4>3 DEF s
      <4> QED BY <2>1, <4>1, <4>2, <4>4
    <3> QED BY <3>1, <3>2
  <2>17. GivenOK'
    BY <2>15, <2>16 DEF GivenOK
  <2> QED BY <1>1, <2>1, <2>12, <2>17 DEF HeapInv
<1> QED BY <1>2, <1>3

LEMMA HeapInvStutter == HeapInv /\ UNCHANGED heapVars => HeapInv'
  BY DEF HeapInv, FreelistsOK, GivenOK, heapVars

LEMMA HeapInvMalloc ==
  ASSUME HeapInv, NEW size \in Sizes, x_malloc(size)
  PROVE  HeapInv'
<1> DEFINE aligned == ALIGN_MEN_UP(size)
<1>1. size \in Nat
  BY HeapAssumption
<1>2. aligned \in Nat /\ size <= aligned
  BY <1>1, AlignedUp
<1>3. SmallSize[1] \in Nat /\ SmallSize[2] \in Nat
  BY SmallNumbers
<1> HIDE DEF aligned
<1>4. CASE size = 0 \/ size > Total - heap.active_memory
  <2>1. UNCHANGED heapVars
    BY <1>4 DEF x_malloc
  <2> QED BY <2>1, HeapInvStutter
<1>5. CASE ~(size = 0 \/ size > Total - heap.active_memory)
  <2>1. (CASE aligned <= SmallSize[1] -> SmallMemMalloc(1, size)
               [] aligned \in SmallSize[1] + 1 .. SmallSize[2] -> SmallMemMalloc(2, size)
               [] OTHER -> FromBuddy(aligned, size))
    BY <1>5 DEF x_malloc, aligned
  <2>2. CASE aligned <= SmallSize[1]
    <3>1. aligned \notin SmallSize[1] + 1 .. SmallSize[2]
      BY <1>2, <1>3, <2>2
    <3>2. SmallMemMalloc(1, size) /\ size <= SmallSize[1]
      BY <1>1, <1>2, <1>3, <2>1, <2>2, <3>1
    <3> QED BY <3>2, GivenSmall
  <2>3. CASE aligned \in SmallSize[1] + 1 .. SmallSize[2]
    <3>1. ~(aligned <= SmallSize[1])
      BY <1>2, <1>3, <2>3
    <3>2. SmallMemMalloc(2, size) /\ size <= SmallSize[2]
      BY <1>1, <1>2, <1>3, <2>1, <2>3, <3>1
    <3> QED BY <3>2, GivenSmall
  <2>4. CASE ~(aligned <= SmallSize[1]) /\ aligned \notin SmallSize[1] + 1 .. SmallSize[2]
    <3>1. FromBuddy(aligned, size)
      BY <2>1, <2>4
    <3> QED BY <1>2, <3>1, GivenBuddy
  <2> QED BY <2>2, <2>3, <2>4
<1> QED BY <1>4, <1>5

LEMMA HeapInvFree ==
  ASSUME HeapInv, NEW a, x_free(a)
  PROVE  HeapInv'
<1> DEFINE seg == given[a].seg
<1>1. /\ a \in DOMAIN given /\ given' = [b \in DOMAIN given \ {a} |-> given[b]]
      /\ seg # 0 => SmallMemFree(a)
      /\ seg = 0 => heap' = BigMemFree(heap, a) /\ freelist' = freelist /\ count' = count
  BY DEF x_free
<1>2. HeapOK(heap) /\ SegmentsOK(heap.node) /\ FreelistsOK /\ GivenOK
  BY DEF HeapInv
<1>3. \A x \in DOMAIN given :
         IF given[x].seg = 0
         THEN /\ x \in Used(heap.node) /\ x # SegBase[1] /\ x # SegBase[2]
              /\ heap.node[x].size >= Hdr + given[x].size
         ELSE /\ x \in SmallBlocks(given[x].seg) /\ x \notin Range(freelist[given[x].seg])
              /\ given[x].size <= SmallSize[given[x].seg]
  BY <1>2 DEF GivenOK
<1>4. given \in [DOMAIN given -> [seg : 0 .. 2, size : Sizes]]
  BY <1>2 DEF GivenOK
<1>5. \A x \in DOMAIN given : given[x].seg \in 0 .. 2
  BY <1>4
<1>6. /\ DOMAIN given' = DOMAIN given \ {a} /\ \A x \in DOMAIN given' : given'[x] = given[x]
      /\ given' \in [DOMAIN given' -> [seg : 0 .. 2, size : Sizes]]
  BY <1>1, <1>4
<1> HIDE DEF seg
<1>7. CASE seg = 0
  <2> DEFINE r == BigMemFree(heap, a)
  <2>1. a \in Used(heap.node) /\ a # SegBase[1] /\ a # SegBase[2]
    BY <1>1, <1>3, <1>7 DEF seg
  <2>2. HeapOK(r) /\ Undisturbed(heap.node, r.node, Used(heap.node) \ {a})
    BY <1>2, <2>1, FreeOK
  <2>3. heap' = r /\ freelist' = freelist /\ count' = count
    BY <1>1, <1>7
  <2> HIDE DEF r
  <2>4. \A o \in 1 .. 2 : SegBase[o] # None => SegBase[o] \in Used(heap.node) \ {a}
    BY <1>2, <2>1 DEF SegmentsOK
  <2>5. SegmentsOK(r.node)
    BY <1>2, <2>2, <2>4, SegmentsKept
  <2>6. FreelistsOK'
    BY <1>2, <2>3 DEF FreelistsOK
  <2>7. ASSUME NEW x \in DOMAIN given'
        PROVE  IF given'[x].seg = 0
               THEN /\ x \in Used(heap'.node) /\ x # SegBase[1] /\ x # SegBase[2]
                    /\ heap'.node[x].size >= Hdr + given'[x].size
               ELSE /\ x \in SmallBlocks(given'[x].seg)
                    /\ x \notin Range(freelist'[given'[x].seg])
                    /\ given'[x].size <= SmallSize[given'[x].seg]
    <3>1. x \in DOMAIN given /\ x # a /\ given'[x] = given[x]
      BY <1>6
    <3>2. x \in Used(heap.node) => x \in Used(heap'.node) /\ heap'.node[x].size = heap.node[x].size
      BY <2>2, <2>3, <3>1 DEF Undisturbed
    <3> QED BY <1>3, <2>3, <3>1, <3>2
  <2>8. GivenOK'
    BY <1>6, <2>7 DEF GivenOK
  <2> QED BY <2>2, <2>3, <2>5, <2>6, <2>8 DEF HeapInv
<1>8. CASE seg # 0
  <2> DEFINE s == freelist[seg]
             t == <<a>> \o s
  <2>1. /\ heap' = heap /\ freelist' = [freelist EXCEPT ![seg] = t]
        /\ count' = [count EXCEPT ![seg] = @ + 1]
    BY <1>1, <1>8 DEF SmallMemFree, seg
  <2>2. seg \in 1 .. 2
    BY <1>1, <1>5, <1>8 DEF seg
  <2>3. a \in SmallBlocks(seg) /\ a \notin Range(s)
    BY <1>1, <1>3, <1>8 DEF seg
  <2>4. a \in Addr
    <3>1. Tiled(heap.node)
      BY <1>2 DEF HeapOK
    <3> QED BY <1>2, <2>2, <2>3, <3>1, SmallInside
  <2>5. /\ freelist \in [1 .. 2 -> Seq(Addr)] /\ count \in [1 .. 2 -> Nat]
        /\ s \in Seq(Addr) /\ IsInjective(s) /\ Range(s) \subseteq SmallBlocks(seg)
        /\ count[seg] = Len(s)
    BY <1>2, <2>2 DEF FreelistsOK
  <2>6. t \in Seq(Addr) /\ IsInjective(t) /\ Range(t) = {a} \cup Range(s)
    BY <2>3, <2>4, <2>5, ConsElements
  <2>7. Len(t) = Len(s) + 1 /\ Len(s) \in Nat
    BY <2>4, <2>5
  <2> HIDE DEF t, s
  <2>8. freelist'[seg] = t /\ \A o \in 1 .. 2 : o # seg => freelist'[o] = freelist[o]
    BY <2>1, <2>2, <2>5
  <2>9. count'[seg] = Len(t) /\ \A o \in 1 .. 2 : o # seg => count'[o] = count[o]
    BY <2>1, <2>2, <2>5, <2>7
  <2>10. freelist' \in [1 .. 2 -> Seq(Addr)] /\ count' \in [1 .. 2 -> Nat]
    BY <2>1, <2>2, <2>5, <2>6, <2>7
  <2>11. \A o \in 1 .. 2 : /\ IsInjective(freelist[o]) /\ Range(freelist[o]) \subseteq SmallBlocks(o)
                           /\ count[o] = Len(freelist[o])
    BY <1>2 DEF FreelistsOK
  <2>12. ASSUME NEW o \in 1 .. 2
         PROVE  /\ IsInjective(freelist'[o]) /\ Range(freelist'[o]) \subseteq SmallBlocks(o)
                /\ count'[o] = Len(freelist'[o])
    <3>1. CASE o = seg
      BY <2>3, <2>5, <2>6, <2>8, <2>9, <3>1
    <3>2. CASE o # seg
      BY <2>8, <2>9, <2>11, <3>2
    <3> QED BY <3>1, <3>2
  <2>13. FreelistsOK'
    BY <2>10, <2>12 DEF FreelistsOK
  <2>14. ASSUME NEW x \in DOMAIN given'
         PROVE  IF given'[x].seg = 0
                THEN /\ x \in Used(heap'.node) /\ x # SegBase[1] /\ x # SegBase[2]
                     /\ heap'.node[x].size >= Hdr + given'[x].size
                ELSE /\ x \in SmallBlocks(given'[x].seg)
                     /\ x \notin Range(freelist'[given'[x].seg])
                     /\ given'[x].size <= SmallSize[given'[x].seg]
    <3>1. x \in DOMAIN given /\ x # a /\ given'[x] = given[x]
      BY <1>6
    <3>2. given[x].seg # 0 => x \notin Range(freelist'[given[x].seg])
      BY <1>3, <1>5, <2>6, <2>8, <3>1 DEF s
    <3> QED BY <1>3, <2>1, <3>1, <3>2
  <2>15. GivenOK'
    BY <1>6, <2>14 DEF GivenOK
  <2> QED BY <1>2, <2>1, <2>13, <2>15 DEF HeapInv
<1> QED BY <1>7, <1>8

LEMMA HeapInvNext == HeapInv /\ [HeapNext]_heapVars => HeapInv'
<1> SUFFICES ASSUME HeapInv, [HeapNext]_heapVars PROVE HeapInv'
  OBVIOUS
<1>1. ASSUME NEW size \in Sizes, x_malloc(size) PROVE HeapInv'
  BY <1>1, HeapInvMalloc
<1>2. ASSUME NEW a \in DOMAIN given, x_free(a) PROVE HeapInv'
  BY <1>2, HeapInvFree
<1>3. CASE UNCHANGED heapVars
  BY <1>3, HeapInvStutter
<1> QED BY <1>1, <1>2, <1>3 DEF HeapNext

-----------------------------------------------------------------------------
(* What the invariant says of the heap. *)

LEMMA HeapInvType == HeapInv => HeapTypeOK
<1> SUFFICES ASSUME HeapInv PROVE HeapTypeOK
  OBVIOUS
<1> DEFINE f == heap.node
<1>1. /\ Tiled(f) /\ Chained(f, Free(f), heap.chain)
      /\ heap.active_memory = Cardinality(UsedBytes(f))
      /\ SegmentsOK(f) /\ FreelistsOK /\ GivenOK
  BY DEF HeapInv, HeapOK
<1>2. DOMAIN f \subseteq Addr /\ Range(f) \subseteq Node
  BY <1>1 DEF Tiled, IsBlocks, Range
<1>3. heap.chain \in Seq(Addr \cup {-k : k \in 1 .. LinkNrs})
  BY <1>1 DEF Chained, Heads
<1>4. heap.active_memory \in 0 .. Total
  <2>1. Total \in Nat
    BY HeapNumbers
  <2>2. IsFiniteSet(Addr) /\ Cardinality(Addr) <= Total
    <3>1. 0 \in Int /\ Total - 1 \in Int /\ Total - 1 - 0 + 1 = Total
      BY <2>1
    <3>2. /\ IsFiniteSet(0 .. Total - 1)
          /\ Cardinality(0 .. Total - 1) = IF 0 > Total - 1 THEN 0 ELSE Total - 1 - 0 + 1
      BY <3>1, FS_Interval
    <3> QED BY <2>1, <3>1, <3>2 DEF Addr
  <2>3. UsedBytes(f) \in SUBSET Addr
    BY DEF UsedBytes
  <2>4. IsFiniteSet(UsedBytes(f)) /\ Cardinality(UsedBytes(f)) <= Cardinality(Addr)
    BY <2>2, <2>3, FS_Subset
  <2>5. Cardinality(UsedBytes(f)) \in Nat /\ Cardinality(Addr) \in Nat
    BY <2>2, <2>4, FS_CardinalityType
  <2> QED BY <1>1, <2>1, <2>2, <2>4, <2>5
<1>5. freelist \in [1 .. 2 -> Seq(Addr)] /\ count \in [1 .. 2 -> Nat]
  BY <1>1 DEF FreelistsOK
<1>6. Range(given) \subseteq [seg : 0 .. 2, size : Sizes]
  BY <1>1 DEF GivenOK, Range
<1>7. ASSUME NEW a \in DOMAIN given PROVE a \in Addr
  <2>1. CASE given[a].seg = 0
    <3>1. a \in Used(f)
      BY <1>1, <2>1 DEF GivenOK
    <3> QED BY <1>2, <3>1 DEF Used
  <2>2. CASE given[a].seg # 0
    <3>1. a \in SmallBlocks(given[a].seg) /\ given[a].seg \in 1 .. 2
      BY <1>1, <2>2 DEF GivenOK
    <3> QED BY <1>1, <3>1, SmallInside
  <2> QED BY <2>1, <2>2
<1> QED BY <1>2, <1>3, <1>4, <1>5, <1>6, <1>7 DEF HeapTypeOK

LEMMA HeapInvTiled == HeapInv => HeapTiled
<1> SUFFICES ASSUME HeapInv PROVE HeapTiled
  OBVIOUS
<1> DEFINE f == heap.node
           B == {x \in Addr : \E a \in DOMAIN f \ (FreeNodes \cup {0, Total - Hdr}) :
                    x \in a .. a + f[a].size - 1}
<1>1. Tiled(f) /\ Coalesced(f) /\ heap.active_memory = Cardinality(UsedBytes(f))
  BY DEF HeapInv, HeapOK
<1>2. DOMAIN f \ (FreeNodes \cup {0, Total - Hdr}) = Used(f)
  BY <1>1, BlockNumbers DEF FreeNodes, Used
<1>3. B = UsedBytes(f)
  BY <1>2 DEF UsedBytes, Span
<1>4. ASSUME NEW a \in DOMAIN f, a # Total - Hdr
      PROVE  /\ a + f[a].size \in DOMAIN f /\ f[a + f[a].size].prev_adj_size = f[a].size
             /\ f[a].alloc \/ f[a + f[a].size].alloc
  BY <1>1, <1>4 DEF Tiled, Coalesced
<1> HIDE DEF B
<1>5. heap.active_memory = Cardinality(B)
  BY <1>1, <1>3
<1> QED BY <1>4, <1>5 DEF HeapTiled, B

LEMMA HeapInvFit == HeapInv => BestFitFound
<1> SUFFICES ASSUME HeapInv PROVE BestFitFound
  OBVIOUS
<1> DEFINE f == heap.node
<1>1. Tiled(f) /\ Chained(f, Free(f), heap.chain)
  BY DEF HeapInv, HeapOK
<1>2. Sized(f, Free(f)) /\ FreeNodes = Free(f)
  BY <1>1, FreeBlocks DEF FreeNodes, Free
<1>3. ASSUME NEW size \in Sizes
      PROVE  LET need == AllocSize(ALIGN_MEN_UP(size))
             IN  (\A x \in FreeNodes : f[x].size # need)
                    => FindsSmallest(need, {x \in FreeNodes : f[x].size > need})
  <2> DEFINE need == AllocSize(ALIGN_MEN_UP(size))
             fits == {x \in FreeNodes : f[x].size > need}
             found == BestFit(heap, need)
  <2>1. size \in Nat
    BY HeapAssumption
  <2>2. ALIGN_MEN_UP(size) \in Nat
    BY <2>1, AlignedUp
  <2>3. need \in Nat \ {0}
    BY <2>2, HeapNumbers DEF AllocSize
  <2> HIDE DEF need
  <2>4. IF fits = {} \/ \E x \in FreeNodes : f[x].size = need
        THEN found = None
        ELSE found \in fits /\ \A x \in fits : f[found].size <= f[x].size
    BY <1>1, <1>2, <2>3, BestFitIs
  <2> HIDE DEF fits, found
  <2>5. (\A x \in FreeNodes : f[x].size # need)
           => IF fits = {} THEN found = None
              ELSE found \in fits /\ \A x \in fits : f[found].size <= f[x].size
    BY <2>4
  <2> QED BY <2>5 DEF FindsSmallest, need, fits, found
<1> QED BY <1>3 DEF BestFitFound

LEMMA HeapInvLists == HeapInv => FreeListsExact
<1> SUFFICES ASSUME HeapInv PROVE FreeListsExact
  OBVIOUS
<1> DEFINE f == heap.node
           c == heap.chain
           S == Free(f)
<1>1. Tiled(f) /\ Chained(f, S, c)
  BY DEF HeapInv, HeapOK
<1>2. Sized(f, S) /\ FreeNodes = S
  BY <1>1, FreeBlocks DEF FreeNodes, Free
<1>3. IsInjective(c) /\ Range(c) = S \cup Heads
  BY <1>1 DEF Chained
<1> HIDE DEF S, f, c
<1>4. /\ Len(c) \in Nat /\ DOMAIN c = 1 .. Len(c)
      /\ \A i \in 1 .. Len(c) :
            /\ c[i] \in Int /\ ListOf(f, c[i]) \in 1 .. LinkNrs /\ SizeIn(f, c[i]) \in Nat
            /\ c[i] < 0 => c[i] \in Heads /\ SizeIn(f, c[i]) = 0
            /\ c[i] >= 0 => c[i] \in S /\ SizeIn(f, c[i]) > 0
  BY <1>1, <1>2, ChainPlaces
<1>5. ASSUME NEW i \in 2 .. Len(c)
      PROVE  LET x == c[i - 1]
                 y == c[i]
             IN  IF y < 0 THEN x < 0 => y = x - 1
                 ELSE IF x < 0 THEN CaculateBuddyIndex(f[y].size) = -x
                 ELSE /\ f[x].size <= f[y].size
                      /\ CaculateBuddyIndex(f[x].size) = CaculateBuddyIndex(f[y].size)
  <2> DEFINE p  == i - 1
             x  == c[p]
             y  == c[i]
             lx == ListOf(f, x)
             ly == ListOf(f, y)
  <2>1. p \in 1 .. Len(c) /\ i \in 1 .. Len(c) /\ p < i /\ i = p + 1
    BY <1>4
  <2>2. Before(f, x, y)
    BY <1>1, <2>1 DEF Chained
  <2>3. /\ x \in Int /\ y \in Int /\ lx \in 1 .. LinkNrs /\ ly \in 1 .. LinkNrs
        /\ LinkNrs \in Nat
    BY <1>4, <2>1, HeapNumbers
  (* No head lies between two neighbours. *)
  <2>4. ASSUME NEW k \in 1 .. LinkNrs, lx < k PROVE ~(k < ly) /\ (y >= 0 => k # ly)
    <3> DEFINE q == HeadAt(c, k)
    <3>1. /\ q \in 1 .. Len(c) /\ c[q] = -k
          /\ \A j \in 1 .. Len(c) : j < q => ListOf(f, c[j]) < k
          /\ \A j \in 1 .. Len(c) : j > q =>
                ListOf(f, c[j]) >= k /\ (c[j] < 0 => ListOf(f, c[j]) > k)
      BY <1>1, <1>2, HeadPlace
    <3> HIDE DEF q
    <3>2. p < q
      <4>1. p > q => lx >= k
        BY <2>1, <3>1
      <4>2. p = q => lx = k
        <5> SUFFICES ASSUME p = q PROVE lx = k
          OBVIOUS
        <5>1. x = -k
          BY <3>1
        <5>2. x < 0 /\ -x = k
          BY <5>1
        <5> QED BY <5>2 DEF ListOf
      <4> QED BY <2>1, <2>3, <2>4, <3>1, <4>1, <4>2
    <3>3. i < q => ly < k
      BY <2>1, <3>1
    <3>4. i = q => y = -k /\ ly = k
      <4> SUFFICES ASSUME i = q PROVE y = -k /\ ly = k
        OBVIOUS
      <4>1. y = -k
        BY <3>1
      <4>2. y < 0 /\ -y = k
        BY <4>1
      <4> QED BY <4>1, <4>2 DEF ListOf
    <3>5. i <= q
      BY <2>1, <3>1, <3>2
    <3> QED BY <2>1, <2>3, <2>4, <3>1, <3>3, <3>4, <3>5
  <2> HIDE DEF lx, ly
  <2>5. lx = ly \/ (lx < ly /\ y < 0)
    <3> SUFFICES ASSUME lx # ly PROVE lx < ly /\ y < 0
      OBVIOUS
    <3>1. lx < ly
      BY <2>2, <2>3 DEF Before, lx, ly
    <3>2. y >= 0 => ly # ly
      BY <2>3, <2>4, <3>1 DEF lx, ly
    <3> QED BY <2>3, <3>1, <3>2
  <2>6. CASE y < 0
    <3>1. ly = -y
      BY <2>6 DEF ly, ListOf
    <3>2. CASE x < 0
      <4>1. lx = -x
        BY <3>2 DEF lx, ListOf
      <4>2. lx < ly
        BY <2>2, <2>3, <2>6 DEF Before, lx, ly
      <4>3. ly = lx + 1
        <5> DEFINE k == lx + 1
        <5>1. k \in 1 .. LinkNrs /\ lx < k
          BY <2>3, <4>2
        <5>2. ~(k < ly)
          BY <2>4, <5>1 DEF lx
        <5> QED BY <2>3, <4>2, <5>2
      <4> QED BY <2>3, <2>6, <3>1, <3>2, <4>1, <4>3
    <3> QED BY <2>6, <3>2
  <2>7. CASE ~(y < 0)
    <3>1. lx = ly /\ ly = CaculateBuddyIndex(f[y].size)
      BY <2>5, <2>7 DEF ly, ListOf
    <3>2. CASE x < 0
      <4>1. lx = -x
        BY <3>2 DEF lx, ListOf
      <4> QED BY <2>7, <3>1, <3>2, <4>1
    <3>3. CASE ~(x < 0)
      <4>1. lx = CaculateBuddyIndex(f[x].size)
        BY <3>3 DEF lx, ListOf
      <4>2. SizeIn(f, x) <= SizeIn(f, y)
        BY <2>2, <2>3, <3>1 DEF Before, lx, ly
      <4>3. f[x].size <= f[y].size
        BY <2>7, <3>3, <4>2 DEF SizeIn
      <4> QED BY <2>7, <3>1, <3>3, <4>1, <4>3
    <3> QED BY <3>2, <3>3
  <2> QED BY <2>6, <2>7
<1> QED BY <1>2, <1>3, <1>5 DEF FreeListsExact, Heads, c, f

LEMMA RangesApart ==
  ASSUME NEW a \in Int, NEW m \in Int, NEW b \in Int, NEW n \in Int, a + m <= b
  PROVE  (a .. a + m - 1) \cap (b .. b + n - 1) = {}
  OBVIOUS

(* The block of the heap that a given block is, or was carved from. *)
Owner(a) == IF given[a].seg = 0 THEN a ELSE SegBase[given[a].seg]

LEMMA GivenInside ==
  ASSUME HeapInv, NEW a \in DOMAIN given
  PROVE  LET o == Owner(a)
         IN  /\ a \in Nat /\ given[a].size \in Nat /\ given[a].seg \in 0 .. 2
             /\ o \in Used(heap.node) /\ o \in DOMAIN heap.node /\ o \in Nat
             /\ heap.node[o].size \in Nat
             /\ a + (Hdr + given[a].size) <= o + heap.node[o].size
             /\ given[a].seg = 0 => o = a /\ o # SegBase[1] /\ o # SegBase[2]
             /\ given[a].seg # 0 => /\ o < a /\ o = SegBase[given[a].seg] /\ o # None
                                    /\ a \in SmallBlocks(given[a].seg)
<1> DEFINE f == heap.node
           o == Owner(a)
           s == given[a].seg
           n == given[a].size
<1>1. Tiled(f) /\ SegmentsOK(f) /\ GivenOK
  BY DEF HeapInv, HeapOK
<1>2. s \in 0 .. 2 /\ n \in Sizes
  BY <1>1 DEF GivenOK
<1>3. n \in Nat /\ Hdr \in Nat
  BY <1>2, HeapAssumption
<1>4. CASE s = 0
  <2>1. o = a
    BY <1>4 DEF Owner
  <2>2. a \in Used(f) /\ a # SegBase[1] /\ a # SegBase[2] /\ f[a].size >= Hdr + n
    BY <1>1, <1>4 DEF GivenOK
  <2>3. a \in DOMAIN f /\ a \in Nat /\ f[a].size \in Nat
    BY <1>1, <2>2, FreeBlocks, BlockNumbers
  <2> HIDE DEF o, f, s, n
  <2>4. a + (Hdr + n) <= a + f[a].size
    BY <1>3, <2>2, <2>3
  <2> QED BY <1>2, <1>3, <1>4, <2>1, <2>2, <2>3, <2>4 DEF o, f, s, n
<1>5. CASE s # 0
  <2>1. s \in 1 .. 2 /\ o = SegBase[s]
    BY <1>2, <1>5 DEF Owner
  <2>2. a \in SmallBlocks(s) /\ n <= SmallSize[s]
    BY <1>1, <1>5 DEF GivenOK
  <2> HIDE DEF s, n, o, f
  <2>3. /\ o # None /\ o \in Used(f) /\ o \in Nat /\ a \in Nat /\ o < a
        /\ a + SmallSize[s] + Hdr <= o + f[o].size
    BY <1>1, <2>1, <2>2, SmallInside
  <2>4. o \in DOMAIN f /\ f[o].size \in Nat
    BY <1>1, <2>3, FreeBlocks, BlockNumbers
  <2>5. SmallSize[s] \in Nat
    BY <2>1, SmallNumbers
  <2>6. a + (Hdr + n) <= o + f[o].size
    BY <1>3, <2>2, <2>3, <2>4, <2>5
  <2> QED BY <1>2, <1>3, <1>5, <2>1, <2>2, <2>3, <2>4, <2>6 DEF s, n, o, f
<1> QED BY <1>4, <1>5

(* Of two blocks that callers have, one ends before the other starts. *)
LEMMA GivenApart ==
  ASSUME HeapInv, NEW a \in DOMAIN given, NEW b \in DOMAIN given, a < b
  PROVE  a + (Hdr + given[a].size) <= b
<1> DEFINE f == heap.node
           p == Owner(a)
           q == Owner(b)
           s == given[a].seg
           n == given[a].size
<1>1. Tiled(f) /\ SegmentsOK(f) /\ GivenOK /\ Hdr \in Nat
  BY HeapNumbers DEF HeapInv, HeapOK
<1>2. /\ a \in Nat /\ n \in Nat /\ s \in 0 .. 2
      /\ p \in Used(f) /\ p \in DOMAIN f /\ p \in Nat /\ f[p].size \in Nat
      /\ a + (Hdr + n) <= p + f[p].size
      /\ s = 0 => p = a /\ p # SegBase[1] /\ p # SegBase[2]
      /\ s # 0 => p < a /\ p = SegBase[s] /\ p # None /\ a \in SmallBlocks(s)
  BY GivenInside
<1>3. /\ b \in Nat /\ given[b].size \in Nat /\ given[b].seg \in 0 .. 2
      /\ q \in Used(f) /\ q \in DOMAIN f /\ q \in Nat /\ f[q].size \in Nat
      /\ b + (Hdr + given[b].size) <= q + f[q].size
      /\ given[b].seg = 0 => q = b /\ q # SegBase[1] /\ q # SegBase[2]
      /\ given[b].seg # 0 => /\ q < b /\ q = SegBase[given[b].seg] /\ q # None
                             /\ b \in SmallBlocks(given[b].seg)
  BY GivenInside
<1>4. (p < q => p + f[p].size <= q) /\ (q < p => q + f[q].size <= p)
  BY <1>1, <1>2, <1>3 DEF Tiled
<1>5. s # 0 => n <= SmallSize[s]
  BY <1>1 DEF GivenOK
<1> HIDE DEF f, p, q, s, n
<1>6. q <= b /\ p <= a
  BY <1>2, <1>3
<1>7. CASE p < q
  BY <1>1, <1>2, <1>3, <1>4, <1>6, <1>7 DEF n
<1>8. CASE q < p
  <2>1. given[b].size >= 0 /\ b + Hdr <= p
    BY <1>1, <1>2, <1>3, <1>4, <1>8
  <2> QED BY <1>1, <1>2, <1>3, <1>6, <2>1
<1>9. CASE p = q
  <2>1. s # 0 /\ given[b].seg # 0
    <3>1. SegBase[1] = q \/ SegBase[2] = q \/ given[b].seg = 0
      BY <1>3
    <3>2. SegBase[1] = p \/ SegBase[2] = p \/ s = 0
      BY <1>2
    <3> QED BY <1>2, <1>3, <1>9, <3>1, <3>2
  <2>2. s = given[b].seg
    <3>1. SegBase[1] # SegBase[2] \/ SegBase[1] = None
      BY <1>1 DEF SegmentsOK
    <3>2. s \in {1, 2} /\ given[b].seg \in {1, 2}
      BY <1>2, <1>3, <2>1
    <3>3. SegBase[s] = SegBase[given[b].seg] /\ SegBase[s] # None
      BY <1>2, <1>3, <1>9, <2>1
    <3> QED BY <3>1, <3>2, <3>3
  <2>3. s \in 1 .. 2 /\ a \in SmallBlocks(s) /\ b \in SmallBlocks(s)
    BY <1>2, <1>3, <2>1, <2>2
  <2>4. a + SmallSize[s] + Hdr <= b
    BY <1>1, <2>3, SmallApart
  <2>5. SmallSize[s] \in Nat
    BY <2>3, SmallNumbers
  <2>6. a + (Hdr + n) <= b
    BY <1>1, <1>2, <1>3, <1>5, <2>1, <2>4, <2>5
  <2> QED BY <2>6 DEF n
<1> QED BY <1>2, <1>3, <1>7, <1>8, <1>9

LEMMA HeapInvDisjoint == HeapInv => BlocksDisjoint
<1> SUFFICES ASSUME HeapInv PROVE BlocksDisjoint
  OBVIOUS
<1> DEFINE f    == heap.node
           w(a) == Hdr + given[a].size
<1>1. Tiled(f) /\ SegmentsOK(f) /\ GivenOK /\ FreelistsOK /\ Hdr \in Nat
  BY HeapNumbers DEF HeapInv, HeapOK
<1>2. ASSUME NEW a \in DOMAIN given
      PROVE  a \in Int /\ w(a) \in Int /\ Bytes(a) = a .. a + w(a) - 1
  <2>1. a \in Nat /\ given[a].size \in Nat
    BY GivenInside
  <2>2. a + Hdr + given[a].size - 1 = a + (Hdr + given[a].size) - 1
    BY <1>1, <2>1
  <2> QED BY <1>1, <2>1, <2>2 DEF Bytes
<1>3. ASSUME NEW a \in DOMAIN given, NEW b \in DOMAIN given, a < b
      PROVE  Bytes(a) \cap Bytes(b) = {}
  <2>1. a + w(a) <= b
    BY <1>3, GivenApart
  <2> HIDE DEF w
  <2>2. (a .. a + w(a) - 1) \cap (b .. b + w(b) - 1) = {}
    BY <1>2, <2>1, RangesApart
  <2> QED BY <1>2, <2>2
<1>4. \A a, b \in DOMAIN given : a # b => Bytes(a) \cap Bytes(b) = {}
  <2> SUFFICES ASSUME NEW a \in DOMAIN given, NEW b \in DOMAIN given, a # b
               PROVE  Bytes(a) \cap Bytes(b) = {}
    OBVIOUS
  <2>1. a < b \/ b < a
    BY <1>2
  <2>2. CASE a < b
    BY <1>3, <2>2
  <2>3. CASE b < a
    BY <1>3, <2>3
  <2> QED BY <2>1, <2>2, <2>3
(* A block of the heap that is not the owner lies before or behind. *)
<1>5. ASSUME NEW a \in DOMAIN given, NEW x \in DOMAIN f, x # Owner(a)
      PROVE  x \in Nat /\ f[x].size \in Nat /\ f[x].size > 0
             /\ (x + f[x].size <= a \/ a + w(a) <= x)
  <2> DEFINE o == Owner(a)
  <2>1. /\ a \in Nat /\ given[a].size \in Nat /\ o \in DOMAIN f /\ o \in Nat /\ f[o].size \in Nat
        /\ a + w(a) <= o + f[o].size
        /\ (given[a].seg = 0 => o = a) /\ (given[a].seg # 0 => o < a)
    BY GivenInside
  <2>2. x \in Nat /\ f[x].size \in Nat /\ f[x].size > 0
    BY <1>1, BlockNumbers
  <2>3. (x < o => x + f[x].size <= o) /\ (o < x => o + f[o].size <= x)
    BY <1>1, <2>1 DEF Tiled
  <2>4. x # o /\ w(a) \in Int
    BY <1>2, <1>5
  <2> HIDE DEF o, f, w
  <2>5. o <= a
    BY <2>1
  <2>6. x + f[x].size <= a \/ a + w(a) <= x
    BY <2>1, <2>2, <2>3, <2>4, <2>5
  <2> QED BY <2>2, <2>6 DEF w, f
<1>6. ASSUME NEW a \in DOMAIN given, NEW x \in DOMAIN f \ {a} PROVE x \notin Bytes(a)
  <2>1. CASE x = Owner(a)
    <3>1. a \in Nat /\ Owner(a) \in Nat /\ given[a].size \in Nat
          /\ (given[a].seg = 0 => Owner(a) = a) /\ (given[a].seg # 0 => Owner(a) < a)
      BY GivenInside
    <3>2. x < a /\ x \in Nat
      BY <1>6, <2>1, <3>1
    <3> HIDE DEF w
    <3> QED BY <1>2, <3>1, <3>2
  <2>2. CASE x # Owner(a)
    <3> HIDE DEF w, f
    <3>1. x \in Nat /\ f[x].size \in Nat /\ f[x].size > 0
          /\ (x + f[x].size <= a \/ a + w(a) <= x)
      BY <1>5, <1>6, <2>2
    <3>2. x < a \/ a + w(a) <= x
      BY <1>2, <3>1
    <3> QED BY <1>2, <3>1, <3>2
  <2> QED BY <2>1, <2>2
<1>7. ASSUME NEW a \in DOMAIN given, NEW x \in FreeNodes
      PROVE  Bytes(a) \cap (x .. x + f[x].size - 1) = {}
  <2>1. x \in DOMAIN f /\ x # Owner(a)
    <3>1. Owner(a) \in Used(f)
      BY GivenInside
    <3> QED BY <1>1, <3>1, FreeBlocks DEF FreeNodes
  <2> HIDE DEF w, f
  <2>2. x \in Nat /\ f[x].size \in Nat /\ (x + f[x].size <= a \/ a + w(a) <= x)
    BY <1>5, <2>1
  <2>3. (a .. a + w(a) - 1) \cap (x .. x + f[x].size - 1) = {}
    <3>1. x + f[x].size <= a => (x .. x + f[x].size - 1) \cap (a .. a + w(a) - 1) = {}
      BY <1>2, <2>2, RangesApart
    <3>2. a + w(a) <= x => (a .. a + w(a) - 1) \cap (x .. x + f[x].size - 1) = {}
      BY <1>2, <2>2, RangesApart
    <3> QED BY <2>2, <3>1, <3>2
  <2> QED BY <1>2, <2>3
<1>8. ASSUME NEW seg \in 1 .. 2, NEW a \in Range(freelist[seg]), a \in DOMAIN given PROVE FALSE
  <2> DEFINE b == SegBase[seg]
             o == Owner(a)
             s == given[a].seg
  <2>1. a \in SmallBlocks(seg)
    BY <1>1, <1>8 DEF FreelistsOK
  <2>2. /\ b # None /\ b \in Used(f) /\ b \in Nat /\ a \in Nat /\ b < a
        /\ a + SmallSize[seg] + Hdr <= b + f[b].size
    BY <1>1, <2>1, SmallInside
  <2>3. /\ s \in 0 .. 2 /\ given[a].size \in Nat
        /\ (s = 0 => o = a /\ o # SegBase[1] /\ o # SegBase[2])
        /\ (s # 0 => o = SegBase[s])
    BY <1>8, GivenInside
  <2>4. o # b
    <3>1. s # seg
      BY <1>1, <1>8 DEF GivenOK
    <3>2. SegBase[1] # SegBase[2] \/ SegBase[1] = None
      BY <1>1 DEF SegmentsOK
    <3>3. s \in {0, 1, 2} /\ seg \in {1, 2}
      BY <1>8, <2>3
    <3> QED BY <2>2, <2>3, <3>1, <3>2, <3>3
  <2>5. b \in DOMAIN f /\ f[b].size \in Nat
    BY <1>1, <2>2, FreeBlocks, BlockNumbers
  <2>6. b + f[b].size <= a \/ a + w(a) <= b
    BY <1>5, <1>8, <2>4, <2>5
  <2>7. SmallSize[seg] \in Nat /\ w(a) \in Nat
    BY <1>1, <2>3, SmallNumbers
  <2>8. Hdr > 0
    BY HeapNumbers
  <2> HIDE DEF b, f, w
  <2> QED BY <1>1, <2>2, <2>5, <2>6, <2>7, <2>8
<1>9. \A seg \in 1 .. 2 : /\ count[seg] = Len(freelist[seg])
                          /\ Range(freelist[seg]) \cap DOMAIN given = {}
  BY <1>1, <1>8 DEF FreelistsOK
<1>10. \A a \in DOMAIN given : given[a].seg # 0 => given[a].size <= SmallSize[given[a].seg]
  BY <1>1 DEF GivenOK
<1> QED BY <1>4, <1>6, <1>7, <1>9, <1>10 DEF BlocksDisjoint
=============================================================================
