---------------------------- MODULE MCServices ------------------------------
EXTENDS Services
(* Small blocks of 2 and 4 words, two and one of them. *)
MCSmallSize == <<2, 4>>
MCSmallNumber == <<2, 1>>
(* The timers are interchangeable, and so are the users of a data queue. *)
Symmetry == Permutations(Timer) \cup Permutations(User)
=============================================================================
