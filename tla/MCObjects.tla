----------------------------- MODULE MCObjects ------------------------------
EXTENDS Objects
CONSTANTS t1, t2, t3
(* Two tasks of one priority and one above them. *)
MCCurPrio == (t1 :> 1) @@ (t2 :> 1) @@ (t3 :> 2)
(* The mutexes, the flags of an event and the two tasks of one priority    *)
(* are interchangeable.                                                    *)
Symmetry == Permutations(MutexId) \cup Permutations(Flag) \cup Permutations({t1, t2})
=============================================================================
