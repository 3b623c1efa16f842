------------------------------ MODULE AvlTree -------------------------------
(***************************************************************************)
(* The AVL tree of avl_tree.c, as it is used through the root that insert, *)
(* delete and modify return.  Memory for a node is always there; heights   *)
(* are computed on demand, as the code does.                               *)
(***************************************************************************)
EXTENDS Integers

CONSTANT Data    \* the data that are stored, integers

VARIABLES
    root,        \* the root that the last call returned
    kept         \* history: what was inserted and not deleted

NONE == [null |-> TRUE]
Node(data, left, right) == [null |-> FALSE, data |-> data, left |-> left, right |-> right]

RECURSIVE AvlTreeGetNodeHeight(_)
AvlTreeGetNodeHeight(n) ==
    IF n.null THEN 0
    ELSE LET l == AvlTreeGetNodeHeight(n.left)
             r == AvlTreeGetNodeHeight(n.right)
         IN  (IF l > r THEN l ELSE r) + 1

AvlTreeGetNodeBalanceFactor(n) ==
    IF n.null THEN 0 ELSE AvlTreeGetNodeHeight(n.left) - AvlTreeGetNodeHeight(n.right)

AvlTreeSetRightRotate(n) == Node(n.left.data, n.left.left, Node(n.data, n.left.right, n.right))
AvlTreeSetLeftRotate(n) == Node(n.right.data, Node(n.data, n.left, n.right.left), n.right.right)

AvlTreeSetLRRotate(n) ==
    AvlTreeSetRightRotate([n EXCEPT !.left = AvlTreeSetLeftRotate(@)])
AvlTreeSetRLRotate(n) ==
    AvlTreeSetLeftRotate([n EXCEPT !.right = AvlTreeSetRightRotate(@)])

(* AvlTreeBalance picks the rotation by the children alone, whichever side *)
(* is too high, and has none for children that are both even.              *)
AvlTreeBalance(n) ==
    IF n.null \/ AvlTreeGetNodeBalanceFactor(n) \in -1 .. 1 THEN n
    ELSE LET l == AvlTreeGetNodeBalanceFactor(n.left)
             r == AvlTreeGetNodeBalanceFactor(n.right)
         IN  CASE l > 0 -> AvlTreeSetRightRotate(n)
               [] l < 0 -> AvlTreeSetLRRotate(n)
               [] l = 0 /\ r < 0 -> AvlTreeSetLeftRotate(n)
               [] l = 0 /\ r > 0 -> AvlTreeSetRLRotate(n)
               [] OTHER -> NONE

(* AvlTreeInsertNode, which hands on that a subtree came back empty. *)
RECURSIVE AvlTreeInsertNode(_, _)
AvlTreeInsertNode(n, data) ==
    IF n.null THEN AvlTreeBalance(Node(data, NONE, NONE))
    ELSE IF data = n.data THEN n
    ELSE LET sub == AvlTreeInsertNode(IF n.data < data THEN n.right ELSE n.left, data)
         IN  IF sub.null THEN NONE
             ELSE AvlTreeBalance(IF n.data < data THEN [n EXCEPT !.right = sub]
                                                  ELSE [n EXCEPT !.left = sub])

(* The data of the node before n: of the last one on the right in its left *)
(* subtree.                                                                *)
RECURSIVE AvlTreeFindPreNode(_)
AvlTreeFindPreNode(n) == IF n.right.null THEN n.data ELSE AvlTreeFindPreNode(n.right)

(* AvlTreeDeleteNode with AvlTreeDeleteLeafNode, which takes the only      *)
(* child of a node for a leaf.                                             *)
RECURSIVE AvlTreeDeleteNode(_, _)
AvlTreeDeleteNode(n, data) ==
    LET pre == AvlTreeFindPreNode(n.left)
        DeleteLeafNode ==
            CASE n.left.null /\ n.right.null -> NONE
              [] n.left.null /\ ~n.right.null -> Node(n.right.data, NONE, NONE)
              [] ~n.left.null /\ n.right.null -> Node(n.left.data, NONE, NONE)
              [] OTHER -> Node(pre, AvlTreeDeleteNode(n.left, pre), n.right)
    IN  IF n.null THEN NONE
        ELSE AvlTreeBalance(
                CASE data = n.data -> DeleteLeafNode
                  [] n.data < data -> [n EXCEPT !.right = AvlTreeDeleteNode(@, data)]
                  [] OTHER         -> [n EXCEPT !.left = AvlTreeDeleteNode(@, data)])

RECURSIVE AvlNodeSearchNode(_, _)
AvlNodeSearchNode(n, data) ==
    IF n.null THEN FALSE
    ELSE data = n.data \/ AvlNodeSearchNode(IF n.data < data THEN n.right ELSE n.left, data)

AvlInit == root = NONE /\ kept = {}

Insert(data) ==
    root' = AvlTreeInsertNode(root, data) /\ kept' = kept \cup {data}

Delete(data) ==
    root' = AvlTreeDeleteNode(root, data) /\ kept' = kept \ {data}

(* AvlNodeModifyNode: delete, then insert, of a tree that is there. *)
Modify(src, dst) ==
    /\ ~root.null
    /\ root' = AvlTreeInsertNode(AvlTreeDeleteNode(root, src), dst)
    /\ kept' = (kept \ {src}) \cup {dst}

AvlNext ==
    \/ \E data \in Data : Insert(data) \/ Delete(data)
    \/ \E src, dst \in Data : Modify(src, dst)

AvlSpec == AvlInit /\ [][AvlNext]_<<root, kept>>

-----------------------------------------------------------------------------
(* Properties. *)

(* A search finds what was inserted and not deleted, and nothing else:     *)
(* deleting one datum and rebalancing lose no other.                       *)
TreeHoldsData == \A data \in Data : AvlNodeSearchNode(root, data) <=> data \in kept
=============================================================================
