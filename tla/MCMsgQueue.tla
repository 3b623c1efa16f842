----------------------------- MODULE MCMsgQueue -----------------------------
EXTENDS MsgQueue, TLC
CONSTANTS t1, t2, t3
(* All of one priority: the lists are first in first out. *)
MCCurPrio == [t \in Task |-> 1]
(* The tasks are interchangeable. *)
Symmetry == Permutations(Task)
=============================================================================
