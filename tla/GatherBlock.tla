---------------------------- MODULE GatherBlock -----------------------------
(***************************************************************************)
(* Gather blocks (gatherblock.c): a pool of blocks of one size, with tasks *)
(* that wait for a free one.                                               *)
(*                                                                         *)
(* A waiter that is woken does not own a block: back on the core it tests  *)
(* the pool again.  The last to wait is the first on the list.  Deleting   *)
(* the pool tests the list outside the critical area in which it wakes the *)
(* first waiter, one after the other.                                      *)
(***************************************************************************)
EXTENDS Pend

CONSTANTS
    Block,            \* the blocks of the pool
    ExpireInDelete    \* whether a delay may run out while a delete is between
                      \* its test and its critical area

ASSUME GatherAssumption == IsFiniteSet(Block) /\ ExpireInDelete \in BOOLEAN

VARIABLES
    glive,                 \* the pool exists
    block_free_number,     \* gm->block_free_number
    block_link,            \* the chain of free blocks from gm->m_block_link
    wait_task,             \* gm->wait_task
    wait_time,             \* the ticks each waiter has left
    owned                  \* history: the blocks each task has been given

gatherVars == <<glive, block_free_number, block_link, wait_task, wait_time, owned>>

GatherInit ==
    /\ glive = FALSE /\ block_free_number = 0 /\ block_link = <<>>
    /\ wait_task = <<>> /\ wait_time = [t \in Task |-> 0]
    /\ owned = [t \in Task |-> {}]
    /\ PendInit

(* Waiters that were woken for a block and have not tested the pool yet. *)
Coming == {t \in Task : pc[t] = "block_wait" /\ t \notin Range(wait_task)
                        /\ exstatus[t] = "EOK"}

Deleting == \E t \in Task : pc[t] \in {"gather_test", "gather_wake"}

(* CreateMemGather and InitMemGather: all blocks are free and chained. *)
CreateMemGather(t) ==
    /\ pc[t] = "idle" /\ ~glive
    /\ glive' = TRUE
    /\ block_free_number' = Cardinality(Block) /\ block_link' = SetToSeq(Block)
    /\ UNCHANGED <<wait_task, wait_time, owned, pendVars>>

(* A block taken without the test of the counter. *)
TakeUnchecked(t, left) ==
    /\ block_free_number' = block_free_number - 1
    /\ block_link' = IF block_link = <<>> THEN <<>> ELSE Tail(block_link)
    /\ owned' = [owned EXCEPT ![t] = @ \cup (IF block_link = <<>> THEN {} ELSE {Head(block_link)})]
    /\ wait_time' = [wait_time EXCEPT ![t] = 0]
    /\ pc' = [pc EXCEPT ![t] = "idle"]
    /\ UNCHANGED <<wait_task, exstatus, delayed>>

(* AllocBlockMemGather from the test of its loop on: take the first block, *)
(* fail with no ticks left, or wait.                                       *)
Take(t, left) ==
    IF block_free_number # 0
    THEN /\ block_free_number' = block_free_number - 1
         /\ block_link' = Tail(block_link)
         /\ owned' = [owned EXCEPT ![t] = @ \cup {Head(block_link)}]
         /\ wait_time' = [wait_time EXCEPT ![t] = 0]
         /\ pc' = [pc EXCEPT ![t] = "idle"]
         /\ UNCHANGED <<wait_task, exstatus, delayed>>
    ELSE IF left = 0
    THEN /\ exstatus' = [exstatus EXCEPT ![t] = "ETIMEOUT"]
         /\ wait_time' = [wait_time EXCEPT ![t] = 0]
         /\ pc' = [pc EXCEPT ![t] = "idle"]
         /\ UNCHANGED <<block_free_number, block_link, owned, wait_task, delayed>>
    ELSE /\ exstatus' = [exstatus EXCEPT ![t] = "EOK"]
         /\ wait_task' = <<t>> \o wait_task
         /\ wait_time' = [wait_time EXCEPT ![t] = left]
         /\ delayed' = StartDelay(t, left)
         /\ pc' = [pc EXCEPT ![t] = "block_wait"]
         /\ UNCHANGED <<block_free_number, block_link, owned>>

AllocBlockMemGather(t, ms) ==
    /\ pc[t] = "idle" /\ glive /\ ~Deleting
    /\ Take(t, CalculteTickFromTimeMs(ms))
    /\ UNCHANGED glive

(* A woken waiter tests again with the ticks it has left ... *)
AllocAgain(t) ==
    /\ t \in Coming
    /\ \E left \in 0 .. wait_time[t] : Take(t, left)
    /\ UNCHANGED glive

(* ... and gives up after a timeout or an error.                           *)
AllocGiveUp(t) ==
    /\ pc[t] = "block_wait" /\ t \notin Range(wait_task) /\ exstatus[t] # "EOK"
    /\ wait_time' = [wait_time EXCEPT ![t] = 0]
    /\ pc' = [pc EXCEPT ![t] = "idle"]
    /\ UNCHANGED <<glive, block_free_number, block_link, wait_task, owned, exstatus, delayed>>

(* A release that wakes a waiter only when the pool had been empty. *)
FreeBlockFirstOnly(t, b) ==
    /\ b \in owned[t] /\ glive /\ ~Deleting
    /\ block_free_number' = block_free_number + 1
    /\ block_link' = <<b>> \o block_link
    /\ owned' = [owned EXCEPT ![t] = @ \ {b}]
    /\ IF wait_task # <<>> /\ block_free_number = 0
       THEN /\ wait_task' = Tail(wait_task)
            /\ exstatus' = [exstatus EXCEPT ![Head(wait_task)] = "EOK"]
            /\ Woken({Head(wait_task)})
       ELSE UNCHANGED <<wait_task, exstatus, delayed>>
    /\ UNCHANGED <<glive, wait_time, pc>>

(* FreeBlockMemGather, by a task or an interrupt handler: the block heads  *)
(* the chain and the first waiter is woken.                                *)
FreeBlockMemGather(t, b) ==
    /\ b \in owned[t] /\ glive /\ ~Deleting
    /\ block_free_number' = block_free_number + 1
    /\ block_link' = <<b>> \o block_link
    /\ owned' = [owned EXCEPT ![t] = @ \ {b}]
    /\ IF wait_task # <<>>
       THEN /\ wait_task' = Tail(wait_task)
            /\ exstatus' = [exstatus EXCEPT ![Head(wait_task)] = "EOK"]
            /\ Woken({Head(wait_task)})
       ELSE UNCHANGED <<wait_task, exstatus, delayed>>
    /\ UNCHANGED <<glive, wait_time, pc>>

(* DeleteMemGather and RemoveMemGather, by callers that let no other call  *)
(* touch the pool any more: while the list is not empty ...                *)
DeleteStart(t) ==
    /\ pc[t] = "idle" /\ glive /\ ~Deleting /\ Coming = {}
    /\ pc' = [pc EXCEPT ![t] = "gather_test"]
    /\ UNCHANGED <<gatherVars, exstatus, delayed>>

DeleteTest(t) ==
    /\ pc[t] = "gather_test" /\ wait_task # <<>>
    /\ pc' = [pc EXCEPT ![t] = "gather_wake"]
    /\ UNCHANGED <<gatherVars, exstatus, delayed>>

(* ... the first waiter is woken with an error, ...                        *)
DeleteWake(t) ==
    /\ pc[t] = "gather_wake" /\ wait_task # <<>>
    /\ wait_task' = Tail(wait_task)
    /\ exstatus' = [exstatus EXCEPT ![Head(wait_task)] = "ERROR"]
    /\ Woken({Head(wait_task)})
    /\ pc' = [pc EXCEPT ![t] = "gather_test"]
    /\ UNCHANGED <<glive, block_free_number, block_link, wait_time, owned>>

(* ... and the blocks and the pool are freed.                              *)
DeleteEnd(t) ==
    /\ pc[t] = "gather_test" /\ wait_task = <<>>
    /\ glive' = FALSE /\ block_free_number' = 0 /\ block_link' = <<>>
    /\ owned' = [u \in Task |-> {}]
    /\ pc' = [pc EXCEPT ![t] = "idle"]
    /\ UNCHANGED <<wait_task, wait_time, exstatus, delayed>>

(* The delay of a waiter runs out. *)
GatherTimeout(t) ==
    /\ ExpireInDelete \/ \A u \in Task : pc[u] # "gather_wake"
    /\ TimedOut(t)
    /\ wait_task' = RmNode(wait_task, t)
    /\ UNCHANGED <<glive, block_free_number, block_link, wait_time, owned, pc>>

GatherNext ==
    \E t \in Task :
       \/ CreateMemGather(t)
       \/ \E ms \in Msecs : AllocBlockMemGather(t, ms)
       \/ AllocAgain(t) \/ AllocGiveUp(t)
       \/ \E b \in Block : FreeBlockMemGather(t, b)
       \/ DeleteStart(t) \/ DeleteTest(t) \/ DeleteWake(t) \/ DeleteEnd(t)
       \/ GatherTimeout(t)

GatherSpec == GatherInit /\ [][GatherNext]_<<gatherVars, pendVars>>

-----------------------------------------------------------------------------
(* Properties. *)

(* Every variable has its type. *)
GatherTypeOK ==
    /\ glive \in BOOLEAN /\ block_free_number \in 0 .. Cardinality(Block)
    /\ block_link \in Seq(Block) /\ wait_task \in Seq(Task)
    /\ wait_time \in [Task -> Nat] /\ owned \in [Task -> SUBSET Block]
    /\ exstatus \in [Task -> Status] /\ delayed \subseteq Task /\ pc \in [Task -> Places]

(* Every block of the pool is free in the chain once or owned by one task, *)
(* and the counter that admits tasks to the chain counts it.               *)
BlocksConserved ==
    /\ block_free_number = Len(block_link) /\ IsInjective(block_link)
    /\ \A t, u \in Task : t # u => owned[t] \cap owned[u] = {}
    /\ glive => Range(block_link) = Block \ UNION Range(owned)

(* No task sleeps beside a free block: while tasks wait there are never    *)
(* more free blocks than waiters already woken for them, however others    *)
(* take blocks in between and waits time out.                              *)
NoSleeperBesideBlock ==
    wait_task # <<>> => glive /\ block_free_number <= Cardinality(Coming)
=============================================================================
