---------------------------- MODULE ReadyVector -----------------------------
(***************************************************************************)
(* The ready vector of the single-core scheduler (assign.c, assignstat.c,  *)
(* bitmap.c, assign_fifo.c, assign_roundrobin.c,                           *)
(* assign_roundrobinremain.c), as operators on a record                    *)
(*                                                                         *)
(*   vector   priority_ready_vector: one list of ready tasks per priority  *)
(*   group    priority_ready_group: the bits set in the priority bitmap    *)
(*   highest  highest_prio: the cached highest priority with a bit set     *)
(*                                                                         *)
(* A task carries its own copy of its bit (bitmap_column), written only by *)
(* __BitmapSiteMask: `col` below, a set with at most one priority.  A      *)
(* bigger number is a higher priority.  This is the build with at most 32  *)
(* priorities, where the bitmap is one word.                               *)
(***************************************************************************)
EXTENDS DoubleLink

CONSTANTS
    PrioMax,    \* KTASK_PRIORITY_MAX
    Policy      \* the scheduling policy the kernel is configured with

Policies == {"FIFO", "RR", "RR_REMAINSLICE"}

ASSUME PrioMaxAssumption == PrioMax \in Nat \ {0, 1}
ASSUME PolicyAssumption  == Policy \in Policies

Prio == 0 .. PrioMax - 1

(* KTASK_MAX_ADVANCE_PROCESS_TIME: how often a task may be queued ahead of *)
(* tasks that have more of their slice left.                               *)
MaxAdvance == 1

(* OsAssignReadyVectorInit *)
OsAssignReadyVectorInit ==
    [vector |-> [p \in Prio |-> <<>>], group |-> {}, highest |-> 0]

(* PrioCaculate: the highest bit of the bitmap, 0 when no bit is set. *)
PrioCaculate(bits) == IF bits = {} THEN 0 ELSE Max(bits)

(* Where AssignPolicyInsert links task t into the list of its priority.    *)
ReadyPos(list, t, slice, advance) ==
    IF Policy = "RR_REMAINSLICE" /\ advance[t] < MaxAdvance
    THEN SortedPos(list, slice[t], slice)
    ELSE Len(list) + 1

(* KTaskInsertToReadyVector with AssignPolicyInsert. *)
InsertReady(rv, t, p, col, slice, advance) ==
    [vector  |-> [rv.vector EXCEPT ![p] =
                    InsertAt(@, ReadyPos(@, t, slice, advance), t)],
     group   |-> rv.group \cup col,
     highest |-> IF p > rv.highest THEN p ELSE rv.highest]

(* DoubleLinkListRmNode on the sched_link of t, done outside the functions *)
(* above and below: the bitmap is not touched.                             *)
UnlinkReady(rv, t) ==
    [rv EXCEPT !.vector = [q \in Prio |-> RmNode(rv.vector[q], t)]]

(* A remove that forgets to recompute the cached highest priority. *)
RemoveReadyStaleHighest(rv, t, p, col) ==
    LET v == [q \in Prio |-> RmNode(rv.vector[q], t)]
    IN  [vector  |-> v,
         group   |-> IF v[p] = <<>> THEN rv.group \ col ELSE rv.group,
         highest |-> rv.highest]

(* A remove that clears the bit even when other tasks share the priority. *)
RemoveReadyAlwaysClears(rv, t, p, col) ==
    LET v == [q \in Prio |-> RmNode(rv.vector[q], t)]
        g == rv.group \ col
    IN  [vector |-> v, group |-> g, highest |-> PrioCaculate(g)]

(* KTaskOsAssignRemoveKTask: unlink t from whatever list it is on; when    *)
(* the list of priority p is then empty, clear t's bit and recompute the   *)
(* highest priority.                                                       *)
RemoveReady(rv, t, p, col) ==
    LET v == [q \in Prio |-> RmNode(rv.vector[q], t)]
        g == rv.group \ col
    IN  IF v[p] = <<>>
        THEN [vector |-> v, group |-> g, highest |-> PrioCaculate(g)]
        ELSE [rv EXCEPT !.vector = v]

(* ChooseTaskWithHighestPrio *)
ChooseTaskWithHighestPrio(rv) == Head(rv.vector[rv.highest])
=============================================================================
