------------------------------- MODULE Event --------------------------------
(***************************************************************************)
(* Events (event.c): a set of flags that tasks raise and wait for, all of  *)
(* a set or any of it, and may clear as they get them.                     *)
(*                                                                         *)
(* Callers let no call near an event that is being deleted, so a lookup    *)
(* and the work it is for are one step, and so are the three parts of      *)
(* _EventDelete: its unlocked test of the list, LinklistResumeAll, and the *)
(* removal of the id.                                                      *)
(***************************************************************************)
EXTENDS Pend

CONSTANTS
    Flag,            \* the flags of an event
    EventOptions     \* the options events are created with, a subset of 0 .. 7

ASSUME EventAssumption == EventOptions \subseteq (0 .. 7)

VARIABLES
    elive,              \* the id is in k_event_id_manager
    options, events,    \* event->options, event->events
    epend,              \* event->pend_list
    stray,              \* tasks suspended by _EventProcess that are on no list
    event_id_trigger,   \* of each task: the flags it waits for or got
    event_mode,         \* of each task: AND or OR, and AUTOCLEAN
    raised              \* history: how often each flag was raised and not taken

eventVars == <<elive, options, events, epend, stray, event_id_trigger, event_mode, raised>>

Mode == [all : BOOLEAN, autoclean : BOOLEAN]

EventInit ==
    /\ elive = FALSE /\ options = 0 /\ events = {} /\ epend = <<>> /\ stray = {}
    /\ event_id_trigger = [t \in Task |-> {}]
    /\ event_mode = [t \in Task |-> [all |-> FALSE, autoclean |-> FALSE]]
    /\ raised = [f \in Flag |-> 0]
    /\ PendInit

(* What event->options means to LinklistSuspend. *)
SuspendFlag == CASE options = 0 -> "FIFO" [] options = 1 -> "PRIO" [] OTHER -> "none"

(* The flags of S satisfy a wait for those of W. *)
Satisfied(W, mode, S) == IF mode.all THEN W \subseteq S ELSE W \cap S # {}

(* Waiters that a trigger has served and that have not returned yet. *)
Served == {t \in Task : pc[t] = "event_wait" /\ t \notin Range(epend) \cup stray
                        /\ exstatus[t] = "EOK"}

(* Counting the flags of S once more, or once less, in raised. *)
More(S) == [f \in Flag |-> IF f \in S THEN raised[f] + 1 ELSE raised[f]]
Less(S) == [f \in Flag |-> IF f \in S THEN raised[f] - 1 ELSE raised[f]]

(* _EventCreate *)
EventCreate(t, opt) ==
    /\ pc[t] = "idle" /\ ~elive
    /\ elive' = TRUE /\ options' = opt /\ events' = {} /\ epend' = <<>>
    /\ UNCHANGED <<stray, event_id_trigger, event_mode, raised, pendVars>>

(* A turn that serves a waiter for any flag only when all are raised. *)
ServeAllOnly(acc, t) ==
    LET got == event_id_trigger[t] \cap acc.events
    IN  IF event_id_trigger[t] \subseteq acc.events
        THEN [acc EXCEPT !.trigger[t] = got, !.list = RmNode(@, t),
                         !.events = IF event_mode[t].autoclean THEN @ \ got ELSE @]
        ELSE acc

(* A turn that leaves the flags for the next waiter. *)
ServeUncleared(acc, t) ==
    LET got == event_id_trigger[t] \cap acc.events
    IN  IF Satisfied(event_id_trigger[t], event_mode[t], acc.events)
        THEN [acc EXCEPT !.trigger[t] = got, !.list = RmNode(@, t)]
        ELSE acc

(* One turn of the loop of _EventTrigger: a waiter is served from the      *)
(* flags that those before it have left.                                   *)
Serve(acc, t) ==
    LET got == event_id_trigger[t] \cap acc.events
    IN  IF Satisfied(event_id_trigger[t], event_mode[t], acc.events)
        THEN [acc EXCEPT !.trigger[t] = got, !.list = RmNode(@, t),
                         !.events = IF event_mode[t].autoclean THEN @ \ got ELSE @]
        ELSE acc

(* The loop: the flags, the list and what the waiters were served after so *)
(* many turns.                                                             *)
Turns(S) ==
    LET turn[i \in 0 .. Len(epend)] ==
          IF i = 0
          THEN [events |-> events \cup S, list |-> epend, trigger |-> event_id_trigger]
          ELSE Serve(turn[i - 1], epend[i])
    IN  turn

(* _EventTrigger *)
EventTrigger(t, S) ==
    LET end == Turns(S)[Len(epend)]
    IN  /\ pc[t] = "idle" /\ elive /\ S # {}
        /\ events' = end.events /\ event_id_trigger' = end.trigger /\ epend' = end.list
        /\ Woken(Range(epend) \ Range(end.list))
        /\ raised' = More(S \ events)
        /\ UNCHANGED <<elive, options, stray, event_mode, exstatus, pc>>

(* _EventProcess that finds what it wants ... *)
EventProcessNow(t, W, mode) ==
    /\ pc[t] = "idle" /\ elive /\ W # {} /\ Satisfied(W, mode, events)
    /\ events' = IF mode.autoclean THEN events \ W ELSE events
    /\ raised' = IF mode.autoclean THEN Less(events \cap W) ELSE raised
    /\ exstatus' = [exstatus EXCEPT ![t] = "EOK"]
    /\ UNCHANGED <<elive, options, epend, stray, event_id_trigger, event_mode, delayed, pc>>

(* ... and one that does not, up to DO_KTASK_ASSIGN.                       *)
EventProcessWait(t, W, mode, ms) ==
    /\ pc[t] = "idle" /\ elive /\ W # {} /\ ~Satisfied(W, mode, events)
    /\ event_id_trigger' = [event_id_trigger EXCEPT ![t] = W]
    /\ event_mode' = [event_mode EXCEPT ![t] = mode]
    /\ epend' = LinklistSuspend(epend, t, SuspendFlag, CurPrio)
    /\ stray' = IF t \in Range(epend') THEN stray ELSE stray \cup {t}
    /\ delayed' = StartDelay(t, CalculteTickFromTimeMs(ms))
    /\ exstatus' = [exstatus EXCEPT ![t] = "EOK"]
    /\ pc' = [pc EXCEPT ![t] = "event_wait"]
    /\ UNCHANGED <<elive, options, events, raised>>

(* The end of _EventProcess: on success event_id_trigger is the result,    *)
(* which a later wait overwrites.                                          *)
EventReturn(t) ==
    /\ pc[t] = "event_wait" /\ t \notin Range(epend) \cup stray
    /\ raised' = IF exstatus[t] = "EOK" /\ event_mode[t].autoclean
                 THEN Less(event_id_trigger[t]) ELSE raised
    /\ pc' = [pc EXCEPT ![t] = "idle"]
    /\ event_id_trigger' = [event_id_trigger EXCEPT ![t] = {}]
    /\ event_mode' = [event_mode EXCEPT ![t] = [all |-> FALSE, autoclean |-> FALSE]]
    /\ UNCHANGED <<elive, options, events, epend, stray, exstatus, delayed>>

(* _EventDelete: the waiters on the list are woken with an error. *)
EventDelete(t) ==
    /\ pc[t] = "idle" /\ elive
    /\ LinklistResumeAll(epend) /\ epend' = <<>>
    /\ elive' = FALSE /\ options' = 0 /\ events' = {}
    /\ raised' = Less(events)
    /\ UNCHANGED <<stray, event_id_trigger, event_mode, pc>>

(* The delay of a waiter runs out. *)
EventTimeout(t) ==
    /\ TimedOut(t)
    /\ epend' = RmNode(epend, t) /\ stray' = stray \ {t}
    /\ UNCHANGED <<elive, options, events, event_id_trigger, event_mode, raised, pc>>

EventNext ==
    \E t \in Task :
       \/ \E opt \in EventOptions : EventCreate(t, opt)
       \/ \E S \in SUBSET Flag :
             \/ EventTrigger(t, S)
             \/ \E mode \in Mode :
                   \/ EventProcessNow(t, S, mode)
                   \/ \E ms \in Msecs : EventProcessWait(t, S, mode, ms)
       \/ EventReturn(t) \/ EventDelete(t) \/ EventTimeout(t)

EventSpec == EventInit /\ [][EventNext]_<<eventVars, pendVars>>

-----------------------------------------------------------------------------
(* Properties. *)

(* Every variable has its type. *)
EventTypeOK ==
    /\ elive \in BOOLEAN /\ options \in 0 .. 7 /\ events \subseteq Flag
    /\ epend \in Seq(Task) /\ stray \subseteq Task
    /\ event_id_trigger \in [Task -> SUBSET Flag] /\ event_mode \in [Task -> Mode]
    /\ raised \in [Flag -> Nat]
    /\ exstatus \in [Task -> Status] /\ delayed \subseteq Task /\ pc \in [Task -> Places]

(* No task sleeps through the flags it waits for: what is raised and not   *)
(* cleared never satisfies a task that is still suspended on the event.    *)
NoMissedEvent ==
    \A t \in Range(epend) \cup stray :
       elive /\ ~Satisfied(event_id_trigger[t], event_mode[t], events)

(* A raised flag goes to one task that clears it and is not lost on the    *)
(* way: it is in the event until a waiter is served with it, and then that *)
(* waiter returns with it, whatever is triggered, times out or is deleted  *)
(* in between.                                                             *)
FlagsConserved ==
    \A f \in Flag :
       raised[f] = (IF f \in events THEN 1 ELSE 0)
                 + Cardinality({t \in Served : event_mode[t].autoclean
                                               /\ f \in event_id_trigger[t]})
=============================================================================
