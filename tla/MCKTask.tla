------------------------------ MODULE MCKTask -------------------------------
(* Instances of KTask for TLC. *)
EXTENDS KTask

CONSTANTS m1, u1, idle, zombie

MCOriginPrio == (m1 :> 2) @@ (u1 :> 1) @@ (idle :> 0) @@ (zombie :> 1)
MCEqualPrio  == (m1 :> 2) @@ (u1 :> 2) @@ (idle :> 0) @@ (zombie :> 1)
=============================================================================
