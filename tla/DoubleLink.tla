----------------------------- MODULE DoubleLink -----------------------------
(***************************************************************************)
(* The kernel's intrusive doubly linked lists (double_link.c) as sequences *)
(* of distinct elements: the head of the list is position 1, and a list    *)
(* node that is linked nowhere is an element of no sequence.               *)
(***************************************************************************)
EXTENDS SequencesExt, Functions, Integers

(* DoubleLinkListRmNode: unlink e.  A node linked to itself (an element of *)
(* no list) is left as it is.                                              *)
RmNode(s, e) ==
    IF e \in Range(s) THEN RemoveAt(s, CHOOSE i \in DOMAIN s : s[i] = e) ELSE s

(* The place where the kernel's sorted inserts link a new node: in front   *)
(* of the first element whose key is greater, else at the tail.            *)
SortedPos(s, key, keyOf) ==
    IF \E i \in DOMAIN s : key < keyOf[s[i]]
    THEN CHOOSE i \in DOMAIN s :
            /\ key < keyOf[s[i]]
            /\ \A j \in DOMAIN s : j < i => ~(key < keyOf[s[j]])
    ELSE Len(s) + 1

(* Link e into the list s that is kept sorted by keyOf. *)
InsertSorted(s, e, key, keyOf) == InsertAt(s, SortedPos(s, key, keyOf), e)
=============================================================================
