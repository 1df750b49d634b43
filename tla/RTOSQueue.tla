----------------------------- MODULE RTOSQueue -----------------------------
(***************************************************************************)
(* A FreeRTOS queue (FreeRTOS/queue.c, with the event lists of tasks.c) as *)
(* the mailboxes and semaphores of LwIP/port/sys_arch.c and the semaphore  *)
(* of WICEDPlatform.c use it: tasks send and receive, with or without      *)
(* waiting, and interrupt handlers send.                                   *)
(*                                                                         *)
(* A task looks at the queue in one critical section, leaves it, and only  *)
(* then suspends the scheduler, locks the queue, looks again and puts      *)
(* itself on an event list.  Other tasks run until the scheduler is        *)
(* suspended, and interrupts between any two of these steps; while the     *)
(* queue is locked an interrupt may not touch the event lists and counts   *)
(* in xTxLock instead.  Nothing in the program receives in an interrupt,   *)
(* so xRxLock never counts and is left out.                                *)
(***************************************************************************)
EXTENDS Integers, Sequences, FiniteSets

CONSTANTS
    Tasks,      \* the tasks that use the queue
    NoTask,
    Priority,   \* task -> uxPriority
    Items,      \* what is sent through it; one token for a semaphore
    NULL,
    uxLength,   \* LwIP/port/lwipopts.h:20 ff., 5 and 10 in the program
    MaxCalls,   \* bound: calls of the tasks in a behaviour
    MaxSignals  \* bound: interrupts in a behaviour

ASSUME QueueAssumption ==
    /\ IsFiniteSet(Tasks) /\ NoTask \notin Tasks
    /\ Priority \in [Tasks -> Nat]
    /\ uxLength \in Nat \ {0}
    /\ MaxCalls \in Nat /\ MaxSignals \in Nat

queueUNLOCKED == -1
queueLOCKED_UNMODIFIED == 0

\* sys_mbox_post and sys_mbox_trypost; sys_arch_mbox_fetch without and with a
\* time-out (a tick is a millisecond, so no time-out becomes 0 ticks) and
\* sys_arch_mbox_tryfetch.
Requests ==
    [kind : {"send"}, ticks : {"forever", "none"}, item : Items] \cup
    [kind : {"receive"}, ticks : {"forever", "finite", "none"}, item : {NULL}]

VARIABLES
    \* Queue_t
    storage, pcWriteTo, pcReadFrom, uxMessagesWaiting, xTxLock,
    xTasksWaitingToSend, xTasksWaitingToReceive,
    scheduler,      \* the task that has suspended the scheduler, or NoTask
    \* the tasks
    pc, request, result, received,
    expired,        \* has the time-out of the call run out?
    calls, signals  \* bounds

ring == <<storage, pcWriteTo, pcReadFrom, uxMessagesWaiting>>
lists == <<xTasksWaitingToSend, xTasksWaitingToReceive>>
bounds == <<calls, signals>>
vars == <<ring, xTxLock, lists, scheduler, pc, request, result, received,
          expired, bounds>>

\* Where a task is: not in a call, at the head of the loop, before
\* vTaskSuspendAll, before the second look, before vTaskPlaceOnEventList,
\* before prvUnlockQueue, before xTaskResumeAll.
Places == {"idle", "look", "suspend", "test", "place", "unlock", "resume"}

TypeOK ==
    /\ storage \in [0..uxLength-1 -> Items \cup {NULL}]
    /\ pcWriteTo \in 0..uxLength-1 /\ pcReadFrom \in 0..uxLength-1
    /\ uxMessagesWaiting \in 0..uxLength
    /\ xTxLock \in {queueUNLOCKED} \cup Nat
    /\ xTasksWaitingToSend \in SUBSET Tasks
    /\ xTasksWaitingToReceive \in SUBSET Tasks
    /\ scheduler \in Tasks \cup {NoTask}
    /\ pc \in [Tasks -> Places]
    /\ request \in [Tasks -> Requests]
    /\ result \in [Tasks -> {"pass", "fail"}]
    /\ received \in [Tasks -> Items \cup {NULL}]
    /\ expired \in [Tasks -> BOOLEAN]
    /\ calls \in 0..MaxCalls /\ signals \in 0..MaxSignals

-----------------------------------------------------------------------------
\* xQueueGenericReset of a new queue
Init ==
    /\ storage = [i \in 0..uxLength-1 |-> NULL]
    /\ pcWriteTo = 0
    /\ pcReadFrom = uxLength - 1
    /\ uxMessagesWaiting = 0
    /\ xTxLock = queueUNLOCKED
    /\ xTasksWaitingToSend = {} /\ xTasksWaitingToReceive = {}
    /\ scheduler = NoTask
    /\ pc = [t \in Tasks |-> "idle"]
    /\ request = [t \in Tasks |->
                     [kind |-> "receive", ticks |-> "none", item |-> NULL]]
    /\ result = [t \in Tasks |-> "pass"]
    /\ received = [t \in Tasks |-> NULL]
    /\ expired = [t \in Tasks |-> FALSE]
    /\ calls = 0 /\ signals = 0

\* one place too far
Following_Fault(i) == IF i + 1 > uxLength THEN 0 ELSE i + 1

\* the next place of the ring
Following(i) == IF i + 1 >= uxLength THEN 0 ELSE i + 1

\* the pointer moved before the copy, as prvCopyDataFromQueue does
prvCopyDataToQueue_Fault(item) ==
    /\ storage' = [storage EXCEPT ![Following(pcWriteTo)] = item]
    /\ pcWriteTo' = Following(pcWriteTo)
    /\ uxMessagesWaiting' = uxMessagesWaiting + 1
    /\ UNCHANGED pcReadFrom

prvCopyDataToQueue(item) ==
    /\ storage' = [storage EXCEPT ![pcWriteTo] = item]
    /\ pcWriteTo' = Following(pcWriteTo)
    /\ uxMessagesWaiting' = uxMessagesWaiting + 1
    /\ UNCHANGED pcReadFrom

prvCopyDataFromQueue(t) ==
    /\ pcReadFrom' = Following(pcReadFrom)
    /\ received' = [received EXCEPT ![t] = storage[Following(pcReadFrom)]]
    /\ uxMessagesWaiting' = uxMessagesWaiting - 1
    /\ UNCHANGED <<storage, pcWriteTo>>

\* what the calling task asks for cannot be had now
Unable(t) == IF request[t].kind = "send" THEN uxMessagesWaiting = uxLength
                                         ELSE uxMessagesWaiting = 0

\* xTaskRemoveFromEventList, n times: list is what is left of waiting.  The
\* list is sorted by priority; among equals any task may come first.
Woken(waiting, list, n) ==
    /\ list \subseteq waiting
    /\ Cardinality(waiting \ list) =
            IF Cardinality(waiting) < n THEN Cardinality(waiting) ELSE n
    /\ \A u \in waiting \ list, v \in list : Priority[v] <= Priority[u]

Goto(t, place) == pc' = [pc EXCEPT ![t] = place]

\* A task that is on an event list, or that another has kept from running by
\* suspending the scheduler, takes no step.
Runs(t) == /\ scheduler \in {NoTask, t}
           /\ pc[t] = "look" => t \notin xTasksWaitingToSend \cup xTasksWaitingToReceive

-----------------------------------------------------------------------------
(* The tasks *)

Call(t) ==
    /\ pc[t] = "idle" /\ scheduler = NoTask
    /\ calls < MaxCalls
    /\ \E r \in Requests : request' = [request EXCEPT ![t] = r]
    /\ expired' = [expired EXCEPT ![t] = FALSE]
    /\ calls' = calls + 1
    /\ Goto(t, "look")
    /\ UNCHANGED <<ring, xTxLock, lists, scheduler, result, received, signals>>

Return(t, rc) ==
    /\ result' = [result EXCEPT ![t] = rc]
    /\ Goto(t, "idle")

\* the critical section at the head of xQueueGenericSend ...
Send(t) ==
    /\ pc[t] = "look" /\ Runs(t)
    /\ request[t].kind = "send" /\ ~Unable(t)
    /\ prvCopyDataToQueue(request[t].item)
    /\ \E list \in SUBSET xTasksWaitingToReceive :
          /\ Woken(xTasksWaitingToReceive, list, 1)
          /\ xTasksWaitingToReceive' = list
    /\ Return(t, "pass")
    /\ UNCHANGED <<xTxLock, xTasksWaitingToSend, scheduler, request, received,
                   expired, bounds>>

\* ... and of xQueueGenericReceive
Receive(t) ==
    /\ pc[t] = "look" /\ Runs(t)
    /\ request[t].kind = "receive" /\ ~Unable(t)
    /\ prvCopyDataFromQueue(t)
    /\ \E list \in SUBSET xTasksWaitingToSend :
          /\ Woken(xTasksWaitingToSend, list, 1)
          /\ xTasksWaitingToSend' = list
    /\ Return(t, "pass")
    /\ UNCHANGED <<xTxLock, xTasksWaitingToReceive, scheduler, request,
                   expired, bounds>>

\* no time to wait
Refuse(t) ==
    /\ pc[t] = "look" /\ Runs(t)
    /\ Unable(t) /\ request[t].ticks = "none"
    /\ Return(t, "fail")
    /\ UNCHANGED <<ring, xTxLock, lists, scheduler, request, received, expired,
                   bounds>>

LeaveCritical(t) ==
    /\ pc[t] = "look" /\ Runs(t)
    /\ Unable(t) /\ request[t].ticks # "none"
    /\ Goto(t, "suspend")
    /\ UNCHANGED <<ring, xTxLock, lists, scheduler, request, result, received,
                   expired, bounds>>

\* vTaskSuspendAll and prvLockQueue
Suspend(t) ==
    /\ pc[t] = "suspend" /\ Runs(t)
    /\ scheduler' = t
    /\ xTxLock' = queueLOCKED_UNMODIFIED
    /\ Goto(t, "test")
    /\ UNCHANGED <<ring, lists, request, result, received, expired, bounds>>

\* straight to the event list
Test_Fault(t) ==
    /\ pc[t] = "test"
    /\ Goto(t, IF expired[t] THEN "unlock" ELSE "place")
    /\ result' = [result EXCEPT ![t] = IF expired[t] THEN "fail" ELSE "pass"]
    /\ UNCHANGED <<ring, xTxLock, lists, scheduler, request, received, expired,
                   bounds>>

\* xTaskCheckForTimeOut, then prvIsQueueFull or prvIsQueueEmpty
Test(t) ==
    /\ pc[t] = "test"
    /\ Goto(t, IF ~expired[t] /\ Unable(t) THEN "place" ELSE "unlock")
    /\ result' = [result EXCEPT ![t] = IF expired[t] THEN "fail" ELSE "pass"]
    /\ UNCHANGED <<ring, xTxLock, lists, scheduler, request, received, expired,
                   bounds>>

\* vTaskPlaceOnEventList
Place(t) ==
    /\ pc[t] = "place"
    /\ IF request[t].kind = "send"
       THEN /\ xTasksWaitingToSend' = xTasksWaitingToSend \cup {t}
            /\ UNCHANGED xTasksWaitingToReceive
       ELSE /\ xTasksWaitingToReceive' = xTasksWaitingToReceive \cup {t}
            /\ UNCHANGED xTasksWaitingToSend
    /\ Goto(t, "unlock")
    /\ UNCHANGED <<ring, xTxLock, scheduler, request, result, received, expired,
                   bounds>>

\* the count of the lock forgotten
prvUnlockQueue_Fault(t) ==
    /\ pc[t] = "unlock"
    /\ xTxLock' = queueUNLOCKED
    /\ Goto(t, "resume")
    /\ UNCHANGED <<ring, lists, scheduler, request, result, received, expired,
                   bounds>>

\* Wakes a receiver for each item that came while the queue was locked.
prvUnlockQueue(t) ==
    /\ pc[t] = "unlock"
    /\ \E list \in SUBSET xTasksWaitingToReceive :
          /\ Woken(xTasksWaitingToReceive, list, xTxLock)
          /\ xTasksWaitingToReceive' = list
    /\ xTxLock' = queueUNLOCKED
    /\ Goto(t, "resume")
    /\ UNCHANGED <<ring, xTasksWaitingToSend, scheduler, request, result,
                   received, expired, bounds>>

\* xTaskResumeAll; after a time-out the call fails, and sys_arch_mbox_fetch
\* returns NULL
ResumeAll(t) ==
    /\ pc[t] = "resume"
    /\ scheduler' = NoTask
    /\ Goto(t, IF result[t] = "fail" THEN "idle" ELSE "look")
    /\ received' = IF result[t] = "fail" THEN [received EXCEPT ![t] = NULL]
                                         ELSE received
    /\ UNCHANGED <<ring, xTxLock, lists, request, result, expired, bounds>>

-----------------------------------------------------------------------------
(* Interrupts *)

\* an item put in while the queue is locked, and not counted
SendFromISR_Fault ==
    /\ signals < MaxSignals
    /\ signals' = signals + 1
    /\ uxMessagesWaiting < uxLength
    /\ \E item \in Items : prvCopyDataToQueue(item)
    /\ UNCHANGED xTxLock
    /\ \E list \in SUBSET xTasksWaitingToReceive :
          /\ Woken(xTasksWaitingToReceive, list, IF xTxLock = queueUNLOCKED THEN 1 ELSE 0)
          /\ xTasksWaitingToReceive' = list
    /\ UNCHANGED <<xTasksWaitingToSend, scheduler, pc, request, result,
                   received, expired, calls>>

\* xQueueGenericSendFromISR, xQueueGiveFromISR with room in the queue; without
\* room they change nothing.
SendFromISR ==
    /\ signals < MaxSignals
    /\ signals' = signals + 1
    /\ uxMessagesWaiting < uxLength
    /\ \E item \in Items : prvCopyDataToQueue(item)
    /\ \/ /\ xTxLock = queueUNLOCKED
          /\ \E list \in SUBSET xTasksWaitingToReceive :
                /\ Woken(xTasksWaitingToReceive, list, 1)
                /\ xTasksWaitingToReceive' = list
          /\ UNCHANGED xTxLock
       \/ /\ xTxLock # queueUNLOCKED
          /\ xTxLock' = xTxLock + 1
          /\ UNCHANGED xTasksWaitingToReceive
    /\ UNCHANGED <<xTasksWaitingToSend, scheduler, pc, request, result,
                   received, expired, calls>>

\* xTaskIncrementTick reaches the end of a time-out and takes the task off the
\* event list; while the scheduler is suspended ticks are put off.
TimeOut(t) ==
    /\ scheduler = NoTask
    /\ pc[t] \in {"look", "suspend"}
    /\ request[t].ticks = "finite" /\ ~expired[t]
    /\ expired' = [expired EXCEPT ![t] = TRUE]
    /\ xTasksWaitingToSend' = xTasksWaitingToSend \ {t}
    /\ xTasksWaitingToReceive' = xTasksWaitingToReceive \ {t}
    /\ UNCHANGED <<ring, xTxLock, scheduler, pc, request, result, received,
                   bounds>>

Step(t) ==
    \/ Send(t) \/ Receive(t) \/ Refuse(t) \/ LeaveCritical(t) \/ Suspend(t)
    \/ Test(t) \/ Place(t) \/ prvUnlockQueue(t) \/ ResumeAll(t)

Next == \/ \E t \in Tasks : Call(t) \/ Step(t) \/ TimeOut(t)
        \/ SendFromISR

Spec == Init /\ [][Next]_vars

\* The tasks are scheduled and the clock ticks.  Nothing is assumed of calls
\* and interrupts.
Fairness == \A t \in Tasks : WF_vars(Step(t)) /\ WF_vars(TimeOut(t))

FairSpec == Spec /\ Fairness

-----------------------------------------------------------------------------
(* Properties *)

\* The tasks with a call of a kind that have left the event list, or never
\* were on it, and are about to look at the queue.
Looking(kind) ==
    {t \in Tasks : /\ request[t].kind = kind
                   /\ t \notin xTasksWaitingToSend \cup xTasksWaitingToReceive
                   /\ \/ pc[t] = "look"
                      \/ pc[t] = "resume" /\ result[t] = "pass"}

\* No wake-up is lost between the two looks of a task, or while the queue is
\* locked (queue.c): if a task stays on the list of receivers, every item that
\* is not yet counted in xTxLock has a receiver that will still look for it,
\* and if one stays on the list of senders, so has every free place.
NoLostWakeup ==
    /\ xTasksWaitingToReceive # {} =>
          uxMessagesWaiting <= Cardinality(Looking("receive"))
                               + (IF xTxLock > 0 THEN xTxLock ELSE 0)
    /\ xTasksWaitingToSend # {} =>
          uxLength - uxMessagesWaiting <= Cardinality(Looking("send"))

\* the i-th place after r, round the ring
At(r, i) == IF r + i >= uxLength THEN r + i - uxLength ELSE r + i

\* the items in the queue, oldest first
Contents == [i \in 1..uxMessagesWaiting |-> storage[At(pcReadFrom, i)]]

\* The queue is a bounded first-in first-out buffer whose calls take effect at
\* one moment (sys_arch.c relies on it for every mailbox and semaphore).
Channel == INSTANCE BoundedChannel WITH
    contents <- Contents,
    status <- [t \in Tasks |-> IF pc[t] = "idle" THEN result[t] ELSE "running"]

ImplementsChannel == Channel!Spec

\* No task is left on the list of receivers while there are items, or on that
\* of senders while there is room: again and again nobody waits for what is
\* there.
NobodyForgotten ==
    []<>(/\ xTasksWaitingToReceive = {} \/ uxMessagesWaiting = 0
         /\ xTasksWaitingToSend = {} \/ uxMessagesWaiting = uxLength)
=============================================================================
