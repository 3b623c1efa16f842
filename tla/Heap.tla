-------------------------------- MODULE Heap --------------------------------
(***************************************************************************)
(* The kernel heap (byte_manage.c): boundary-tagged blocks over one        *)
(* region, free ones in lists by size, and two segments of small blocks    *)
(* carved out of it at start-up (KERNEL_SMALL_MEM_ALLOC, without           *)
(* MEM_EXTERN_SRAM).                                                       *)
(*                                                                         *)
(* A block is named by the address of its header.  The heads of the free   *)
(* lists are themselves linked one behind the other, so all lists are one  *)
(* chain, in which the head of list k is the number -k and has size 0.     *)
(* Each call is one critical area; x_realloc and x_calloc are calls of     *)
(* x_malloc and x_free.                                                    *)
(***************************************************************************)
EXTENDS DoubleLink

CONSTANTS
    Hdr,            \* SIZEOF_DYNAMICALLOCNODE_MEM
    LowShift,       \* MEM_LOW_SHIFT
    LinkNrs,        \* MEM_LINKNRS
    Total,          \* dynamic_buddy_end - dynamic_buddy_start
    Align,          \* MEM_ALIGN_SIZE
    SmallSize,      \* SIZEOF_32B and SIZEOF_64B
    SmallNumber,    \* SMALL_NUMBER_32B and SMALL_NUMBER_64B
    Sizes           \* the sizes that are asked for

ASSUME HeapAssumption ==
    /\ {Hdr, LinkNrs, Align} \subseteq Nat \ {0} /\ LowShift \in Nat
    /\ Total \in Nat /\ Total >= 3 * Hdr
    /\ SmallSize \in Seq(Nat \ {0}) /\ Len(SmallSize) = 2
    /\ SmallSize[1] < SmallSize[2]
    /\ SmallNumber \in Seq(Nat \ {0}) /\ Len(SmallNumber) = 2
    /\ Sizes \subseteq Nat

VARIABLES
    heap,       \* dynamic_buddy_manager: the blocks, the chain, active_memory
    freelist,   \* of each segment: its free blocks
    count,      \* of each segment: block_free_count
    given        \* the blocks callers have: the segment each is from (0: none),
                \* and, as history, the size that was asked for

heapVars == <<heap, freelist, count, given>>

MEM_LOW_RANGE == 2 ^ LowShift
None == -LinkNrs - 1

ALIGN_MEN_UP(size) == ((size + Align - 1) \div Align) * Align

(* CaculateBuddyIndex, from 1: how often size can be halved, above         *)
(* MEM_LOW_RANGE, up to the last list.                                     *)
CaculateBuddyIndex(size) ==
    1 + Cardinality({k \in 1 .. LinkNrs - 1 : size >= 2 ^ (LowShift + k)})

(* The function f with the value v for x. *)
Extend(f, x, v) == [y \in DOMAIN f \cup {x} |-> IF y = x THEN v ELSE f[y]]

(* The size of what is in the chain. *)
SizeIn(node, x) == IF x < 0 THEN 0 ELSE node[x].size

(* The first place of the chain behind the head of size's list where Test  *)
(* holds of the size there, or the end.                                    *)
FirstBehind(h, size, Test(_)) ==
    LET head == CHOOSE i \in DOMAIN h.chain : h.chain[i] = -CaculateBuddyIndex(size)
    IN  Min({i \in head + 1 .. Len(h.chain) : Test(SizeIn(h.node, h.chain[i]))}
               \cup {Len(h.chain) + 1})

(* A block put first into its list. *)
AddNewNodeFirst(h, a) ==
    [h EXCEPT !.chain = InsertAt(@, FirstBehind(h, h.node[a].size, LAMBDA s : TRUE), a)]

(* AddNewNodeIntoBuddy: in ascending order of size within its list. *)
AddNewNodeIntoBuddy(h, a) ==
    LET size == h.node[a].size
    IN  [h EXCEPT !.chain = InsertAt(@, FirstBehind(h, size, LAMBDA s : s = 0 \/ s >= size), a)]

(* InitBuddy: a header at each end and one free block between them. *)
InitBuddy ==
    LET size  == Total - 2 * Hdr
        nodes == [a \in {0, Hdr, Total - Hdr} |->
                    [size          |-> IF a = Hdr THEN size ELSE Hdr,
                     prev_adj_size |-> CASE a = 0 -> 0 [] a = Hdr -> Hdr [] OTHER -> size,
                     alloc         |-> a # Hdr]]
    IN  AddNewNodeIntoBuddy([node |-> nodes, chain |-> [k \in 1 .. LinkNrs |-> -k],
                             active_memory |-> 0], Hdr)

(* A search that looks into no other list than its own. *)
BestFitOwnList(h, allocsize) ==
    LET i == FirstBehind(h, allocsize, LAMBDA s : s = 0 \/ s >= allocsize)
    IN  IF i <= Len(h.chain) /\ SizeIn(h.node, h.chain[i]) > allocsize THEN h.chain[i] ELSE None

(* What the search of BigMemMalloc for allocsize settles on: the first     *)
(* block, in this list or a later one, that is large enough, unless it is  *)
(* of exactly the size.                                                    *)
BestFit(h, allocsize) ==
    LET i == FirstBehind(h, allocsize, LAMBDA s : s >= allocsize)
    IN  IF i <= Len(h.chain) /\ SizeIn(h.node, h.chain[i]) > allocsize THEN h.chain[i] ELSE None

(* Taking allocsize out of the free block a, the rest of which, if it is   *)
(* worth it, becomes a free block.                                         *)
Carve(h, a, allocsize) ==
    LET size == h.node[a].size
        rest == size - allocsize
        took == [h EXCEPT !.chain = RmNode(@, a), !.node[a].alloc = TRUE]
    IN  IF rest < MEM_LOW_RANGE
        THEN [took EXCEPT !.active_memory = @ + size]
        ELSE AddNewNodeIntoBuddy(
                [took EXCEPT
                    !.node = Extend([@ EXCEPT ![a].size = allocsize,
                                              ![a + size].prev_adj_size = rest],
                                    a + allocsize,
                                    [size |-> rest, prev_adj_size |-> allocsize,
                                     alloc |-> FALSE]),
                    !.active_memory = @ + allocsize],
                a + allocsize)

(* A request that forgets its header. *)
AllocSizeBare(size) == size

AllocSize(size) == size + Hdr

(* BigMemMalloc: the block, and the heap without it. *)
BigMemMalloc(h, size) ==
    LET a == BestFit(h, AllocSize(size))
    IN  [block |-> a, heap |-> IF a = None THEN h ELSE Carve(h, a, AllocSize(size))]

(* Merging that leaves the tag of the block behind the merged one. *)
MergeUntagged(h, a, b) ==
    LET size == h.node[a].size + h.node[b].size
    IN  [h EXCEPT !.node = [x \in DOMAIN @ \ {b} |-> IF x = a THEN [@[x] EXCEPT !.size = size]
                                                              ELSE @[x]]]

(* The block b behind a becomes part of a. *)
Merge(h, a, b) ==
    LET size   == h.node[a].size + h.node[b].size
        beyond == a + size
    IN  [h EXCEPT !.node = [x \in DOMAIN @ \ {b} |->
            CASE x = a -> [@[x] EXCEPT !.size = size]
              [] x = beyond -> [@[x] EXCEPT !.prev_adj_size = size]
              [] OTHER -> @[x]]]

(* A release that counts the merged block. *)
BigMemFreeMiscounted(h, a) ==
    LET next   == a + h.node[a].size
        h1     == IF h.node[next].alloc THEN h
                  ELSE Merge([h EXCEPT !.chain = RmNode(@, next)], a, next)
        prev   == a - h1.node[a].prev_adj_size
        h2     == IF h1.node[prev].alloc THEN h1
                  ELSE Merge([h1 EXCEPT !.chain = RmNode(@, prev)], prev, a)
        merged == IF h1.node[prev].alloc THEN a ELSE prev
    IN  AddNewNodeIntoBuddy([h2 EXCEPT !.node[merged].alloc = FALSE,
                                       !.active_memory = @ - h2.node[merged].size], merged)

(* BigMemFree: merged with its neighbours if they are free, the block goes *)
(* back into a list.                                                       *)
BigMemFree(h, a) ==
    LET next   == a + h.node[a].size
        h1     == IF h.node[next].alloc THEN h
                  ELSE Merge([h EXCEPT !.chain = RmNode(@, next)], a, next)
        prev   == a - h1.node[a].prev_adj_size
        h2     == IF h1.node[prev].alloc THEN h1
                  ELSE Merge([h1 EXCEPT !.chain = RmNode(@, prev)], prev, a)
        merged == IF h1.node[prev].alloc THEN a ELSE prev
    IN  AddNewNodeIntoBuddy([h2 EXCEPT !.node[merged].alloc = FALSE,
                                       !.active_memory = @ - h.node[a].size], merged)

(* SmallMemInit of one segment, from a block that was allocated for it. *)
SegmentBlocks(seg, a) ==
    IF a = None THEN <<>>
    ELSE [i \in 1 .. SmallNumber[seg] |-> a + Hdr + (i - 1) * (SmallSize[seg] + Hdr)]

(* InitBoardMemory: InitBuddy, then SmallMemInit, which gives up on the    *)
(* second segment when there is no memory for the first.                   *)
HeapInit ==
    LET Segment(h, seg) == BigMemMalloc(h, (SmallSize[seg] + Hdr) * SmallNumber[seg])
        m1 == Segment(InitBuddy, 1)
        m2 == IF m1.block = None THEN m1 ELSE Segment(m1.heap, 2)
    IN  /\ heap = m2.heap
        /\ freelist = <<SegmentBlocks(1, m1.block), SegmentBlocks(2, m2.block)>>
        /\ count = [seg \in 1 .. 2 |-> Len(freelist[seg])]
        /\ given = << >>

(* The caller gets the block a. *)
Hand(a, seg, size) == given' = Extend(given, a, [seg |-> seg, size |-> size])

(* An allocation from the buddy memory. *)
FromBuddy(allocated, size) ==
    LET m == BigMemMalloc(heap, allocated)
    IN  /\ heap' = m.heap
        /\ IF m.block = None THEN given' = given ELSE Hand(m.block, 0, size)
        /\ UNCHANGED <<freelist, count>>

(* SmallMemMalloc: the first free block of the segment, else buddy memory. *)
SmallMemMalloc(seg, size) ==
    IF count[seg] > 0
    THEN /\ Hand(Head(freelist[seg]), seg, size)
         /\ freelist' = [freelist EXCEPT ![seg] = Tail(@)]
         /\ count' = [count EXCEPT ![seg] = @ - 1]
         /\ UNCHANGED heap
    ELSE FromBuddy(SmallSize[seg], size)

(* x_malloc *)
x_malloc(size) ==
    LET aligned == ALIGN_MEN_UP(size)
    IN  IF size = 0 \/ size > Total - heap.active_memory THEN UNCHANGED heapVars
        ELSE CASE aligned <= SmallSize[1] -> SmallMemMalloc(1, size)
               [] aligned \in SmallSize[1] + 1 .. SmallSize[2] -> SmallMemMalloc(2, size)
               [] OTHER -> FromBuddy(aligned, size)

(* SmallMemFree *)
SmallMemFree(a) ==
    LET seg == given[a].seg
    IN  /\ freelist' = [freelist EXCEPT ![seg] = <<a>> \o @]
        /\ count' = [count EXCEPT ![seg] = @ + 1]
        /\ UNCHANGED heap

(* x_free of a block that a caller has. *)
x_free(a) ==
    /\ a \in DOMAIN given
    /\ IF given[a].seg # 0
       THEN SmallMemFree(a)
       ELSE heap' = BigMemFree(heap, a) /\ UNCHANGED <<freelist, count>>
    /\ given' = [b \in DOMAIN given \ {a} |-> given[b]]

HeapNext ==
    \/ \E size \in Sizes : x_malloc(size)
    \/ \E a \in DOMAIN given : x_free(a)

HeapSpec == HeapInit /\ [][HeapNext]_heapVars

-----------------------------------------------------------------------------
(* Properties. *)

Addr == 0 .. Total - 1
Node == [size : 1 .. Total, prev_adj_size : 0 .. Total, alloc : BOOLEAN]
FreeNodes == {a \in DOMAIN heap.node : ~heap.node[a].alloc}

(* Every variable has its type. *)
HeapTypeOK ==
    /\ DOMAIN heap.node \subseteq Addr /\ Range(heap.node) \subseteq Node
    /\ heap.chain \in Seq(Addr \cup {-k : k \in 1 .. LinkNrs})
    /\ heap.active_memory \in 0 .. Total
    /\ freelist \in [1 .. 2 -> Seq(Addr)] /\ count \in [1 .. 2 -> Nat]
    /\ DOMAIN given \subseteq Addr
    /\ Range(given) \subseteq [seg : 0 .. 2, size : Sizes]

(* The boundary tags are right and the blocks tile the region, whatever    *)
(* was split and merged before: behind every block but the last is one     *)
(* that knows its size, not both are free, and active_memory, which        *)
(* decides whether x_malloc tries at all, counts the bytes allocated       *)
(* between the headers at both ends.                                       *)
HeapTiled ==
    /\ \A a \in DOMAIN heap.node : a # Total - Hdr =>
          LET b == a + heap.node[a].size
          IN  /\ b \in DOMAIN heap.node
              /\ heap.node[b].prev_adj_size = heap.node[a].size
              /\ heap.node[a].alloc \/ heap.node[b].alloc
    /\ heap.active_memory =
          Cardinality({x \in Addr : \E a \in DOMAIN heap.node \ (FreeNodes \cup {0, Total - Hdr}) :
                          x \in a .. a + heap.node[a].size - 1})

(* Every free block is in the chain once, behind the head of the list of   *)
(* its size, and the chain is sorted list by list.                         *)
FreeListsExact ==
    /\ IsInjective(heap.chain)
    /\ Range(heap.chain) = FreeNodes \cup {-k : k \in 1 .. LinkNrs}
    /\ \A i \in 2 .. Len(heap.chain) :
          LET x == heap.chain[i - 1]
              y == heap.chain[i]
          IN  IF y < 0 THEN x < 0 => y = x - 1
              ELSE IF x < 0 THEN CaculateBuddyIndex(heap.node[y].size) = -x
              ELSE /\ heap.node[x].size <= heap.node[y].size
                   /\ CaculateBuddyIndex(heap.node[x].size) = CaculateBuddyIndex(heap.node[y].size)

(* The bytes of a given block, from its header on. *)
Bytes(a) == a .. a + Hdr + given[a].size - 1

(* No byte is given to two callers and no caller's bytes are a header or a *)
(* free block: what callers write reaches nobody else, small blocks        *)
(* included, and a small block is in use or in the list of its segment.    *)
BlocksDisjoint ==
    /\ \A a, b \in DOMAIN given : a # b => Bytes(a) \cap Bytes(b) = {}
    /\ \A a \in DOMAIN given : \A x \in DOMAIN heap.node \ {a} :
          x \notin Bytes(a)
    /\ \A a \in DOMAIN given, f \in FreeNodes :
          Bytes(a) \cap (f .. f + heap.node[f].size - 1) = {}
    /\ \A seg \in 1 .. 2 : /\ count[seg] = Len(freelist[seg])
                           /\ Range(freelist[seg]) \cap DOMAIN given = {}
    /\ \A a \in DOMAIN given : given[a].seg # 0 => given[a].size <= SmallSize[given[a].seg]

(* The search for need settles on the smallest of the blocks of fits, in   *)
(* whichever list it is, and on none only when fits is empty.              *)
FindsSmallest(need, fits) ==
    LET found == BestFit(heap, need)
    IN  IF fits = {} THEN found = None
        ELSE found \in fits /\ \A f \in fits : heap.node[found].size <= heap.node[f].size

(* As long as no free block is of exactly the size, BigMemMalloc's search  *)
(* finds the smallest block that is large enough: the list that a size is  *)
(* looked up in, and the order of all lists, never hide one that fits.     *)
BestFitFound ==
    \A size \in Sizes :
       LET need == AllocSize(ALIGN_MEN_UP(size))
       IN  (\A f \in FreeNodes : heap.node[f].size # need)
              => FindsSmallest(need, {f \in FreeNodes : heap.node[f].size > need})

(* What the comments of BigMemMalloc say: best fit, with the case of an    *)
(* exact size match handled.  A request fails only if no free block is     *)
(* large enough.  The code's test for a larger block makes it fail on one  *)
(* of exactly the size.                                                    *)
ExactFitFound ==
    \A size \in Sizes :
       LET need == AllocSize(ALIGN_MEN_UP(size))
       IN  FindsSmallest(need, {f \in FreeNodes : heap.node[f].size >= need})
=============================================================================
