---------------------------- MODULE QueueProofs ----------------------------
(***************************************************************************)
(* Proofs about RTOSQueue, for any tasks, priorities and length: types, no *)
(* lost wake-up, and that the queue implements BoundedChannel.             *)
(***************************************************************************)
EXTENDS RTOSQueue, FiniteSetTheorems, SequenceTheorems, TLAPS

Listed == xTasksWaitingToSend \cup xTasksWaitingToReceive

\* Only the task that has suspended the scheduler is between the two calls,
\* and the queue is locked while it is before prvUnlockQueue.
SchedulerInv ==
    /\ \A t \in Tasks : pc[t] \in {"test", "place", "unlock", "resume"}
                        <=> scheduler = t
    /\ xTxLock # queueUNLOCKED
         <=> \E t \in Tasks : pc[t] \in {"test", "place", "unlock"}

\* A task on an event list waits there for what it asked for.
ListInv ==
    /\ \A t \in Listed :
          /\ pc[t] \in {"look", "unlock", "resume"}
          /\ pc[t] # "look" => result[t] = "pass"
    /\ \A t \in xTasksWaitingToSend : request[t].kind = "send"
    /\ \A t \in xTasksWaitingToReceive : request[t].kind = "receive"

\* A task about to enter an event list: what has come since it looked came by
\* an interrupt and is counted in the lock; nothing went.
PlaceInv ==
    \A t \in Tasks : pc[t] = "place" =>
        /\ result[t] = "pass"
        /\ IF request[t].kind = "send" THEN uxMessagesWaiting = uxLength
                                       ELSE uxMessagesWaiting <= xTxLock

\* A call that fails after the second look has a time-out.
FailInv ==
    \A t \in Tasks :
        /\ expired[t] => request[t].ticks = "finite"
        /\ pc[t] \in {"unlock", "resume"} /\ result[t] = "fail" => expired[t]

Inv == TypeOK /\ SchedulerInv /\ ListInv /\ PlaceInv /\ FailInv

-----------------------------------------------------------------------------
\* What the event lists and the ring do to types.
LEMMA FollowingType ==
  ASSUME NEW i \in 0..uxLength-1 PROVE Following(i) \in 0..uxLength-1
  BY QueueAssumption DEF Following

LEMMA RequestsKind ==
  ASSUME NEW r \in Requests
  PROVE  /\ r.kind \in {"send", "receive"}
         /\ r.kind = "send" => r.item \in Items /\ r.ticks # "finite"
         /\ r.kind = "receive" <=> r.kind # "send"
  BY DEF Requests

LEMMA CopyToType ==
  ASSUME TypeOK, NEW item \in Items, uxMessagesWaiting < uxLength,
         prvCopyDataToQueue(item)
  PROVE  /\ storage' \in [0..uxLength-1 -> Items \cup {NULL}]
         /\ pcWriteTo' \in 0..uxLength-1
         /\ pcReadFrom' \in 0..uxLength-1
         /\ uxMessagesWaiting' \in 0..uxLength
  BY QueueAssumption, FollowingType DEF TypeOK, prvCopyDataToQueue

LEMMA CopyFromType ==
  ASSUME TypeOK, NEW t \in Tasks, uxMessagesWaiting # 0, prvCopyDataFromQueue(t)
  PROVE  /\ storage' \in [0..uxLength-1 -> Items \cup {NULL}]
         /\ pcWriteTo' \in 0..uxLength-1
         /\ pcReadFrom' \in 0..uxLength-1
         /\ uxMessagesWaiting' \in 0..uxLength
         /\ received' \in [Tasks -> Items \cup {NULL}]
  <1>1. Following(pcReadFrom) \in 0..uxLength-1
    BY FollowingType DEF TypeOK
  <1>2. storage[Following(pcReadFrom)] \in Items \cup {NULL}
    BY <1>1 DEF TypeOK
  <1>3. received' \in [Tasks -> Items \cup {NULL}]
    BY <1>2 DEF TypeOK, prvCopyDataFromQueue
  <1>4. uxMessagesWaiting' \in 0..uxLength
    BY QueueAssumption DEF TypeOK, prvCopyDataFromQueue
  <1>5. QED
    BY <1>1, <1>3, <1>4 DEF TypeOK, prvCopyDataFromQueue

\* Every step keeps the types: what is put into the ring fits.
LEMMA NextType ==
  ASSUME Inv, [Next]_vars PROVE TypeOK'
  <1> USE QueueAssumption DEF Inv
  <1>1. ASSUME NEW t \in Tasks, Call(t) PROVE TypeOK'
    BY <1>1 DEF TypeOK, Call, Goto, Places, ring, lists
  <1>2. ASSUME NEW t \in Tasks, Send(t) PROVE TypeOK'
    <2>1. request[t] \in Requests /\ request[t].kind = "send"
      BY <1>2 DEF TypeOK, Send
    <2>2. request[t].item \in Items /\ uxMessagesWaiting < uxLength
      BY <1>2, <2>1, RequestsKind DEF TypeOK, Send, Unable
    <2>3. /\ storage' \in [0..uxLength-1 -> Items \cup {NULL}]
          /\ pcWriteTo' \in 0..uxLength-1 /\ pcReadFrom' \in 0..uxLength-1
          /\ uxMessagesWaiting' \in 0..uxLength
      BY <1>2, <2>2, CopyToType DEF Send
    <2>4. xTasksWaitingToReceive' \in SUBSET Tasks
      BY <1>2 DEF Send, Woken, TypeOK
    <2>5. QED
      BY <1>2, <2>3, <2>4 DEF TypeOK, Send, Return, Goto, Places, bounds
  <1>3. ASSUME NEW t \in Tasks, Receive(t) PROVE TypeOK'
    <2>1. uxMessagesWaiting # 0
      BY <1>3 DEF Receive, Unable
    <2>2. /\ storage' \in [0..uxLength-1 -> Items \cup {NULL}]
          /\ pcWriteTo' \in 0..uxLength-1 /\ pcReadFrom' \in 0..uxLength-1
          /\ uxMessagesWaiting' \in 0..uxLength
          /\ received' \in [Tasks -> Items \cup {NULL}]
      BY <1>3, <2>1, CopyFromType DEF Receive
    <2>3. xTasksWaitingToSend' \in SUBSET Tasks
      BY <1>3 DEF Receive, Woken, TypeOK
    <2>4. QED
      BY <1>3, <2>2, <2>3 DEF TypeOK, Receive, Return, Goto, Places, bounds
  <1>4. ASSUME NEW t \in Tasks, Refuse(t) PROVE TypeOK'
    BY <1>4 DEF TypeOK, Refuse, Return, Goto, Places, ring, lists, bounds
  <1>5. ASSUME NEW t \in Tasks, LeaveCritical(t) PROVE TypeOK'
    BY <1>5 DEF TypeOK, LeaveCritical, Goto, Places, ring, lists, bounds
  <1>6. ASSUME NEW t \in Tasks, Suspend(t) PROVE TypeOK'
    BY <1>6 DEF TypeOK, Suspend, Goto, Places, ring, lists, bounds,
                queueLOCKED_UNMODIFIED
  <1>7. ASSUME NEW t \in Tasks, Test(t) PROVE TypeOK'
    <2>1. pc' \in [Tasks -> Places]
      BY <1>7 DEF TypeOK, Test, Goto, Places
    <2>2. result' \in [Tasks -> {"pass", "fail"}]
      BY <1>7 DEF TypeOK, Test
    <2>3. QED
      BY <1>7, <2>1, <2>2 DEF TypeOK, Test, ring, lists, bounds
  <1>8. ASSUME NEW t \in Tasks, Place(t) PROVE TypeOK'
    <2>1. xTasksWaitingToSend' \in SUBSET Tasks
          /\ xTasksWaitingToReceive' \in SUBSET Tasks
      BY <1>8 DEF TypeOK, Place
    <2>2. QED
      BY <1>8, <2>1 DEF TypeOK, Place, Goto, Places, ring, bounds
  <1>9. ASSUME NEW t \in Tasks, prvUnlockQueue(t) PROVE TypeOK'
    BY <1>9 DEF TypeOK, prvUnlockQueue, Woken, Goto, Places, ring, bounds
  <1>10. ASSUME NEW t \in Tasks, ResumeAll(t) PROVE TypeOK'
    <2>1. received' \in [Tasks -> Items \cup {NULL}]
      BY <1>10 DEF TypeOK, ResumeAll
    <2>2. pc' \in [Tasks -> Places]
      BY <1>10 DEF TypeOK, ResumeAll, Goto, Places
    <2>3. QED
      BY <1>10, <2>1, <2>2 DEF TypeOK, ResumeAll, ring, lists, bounds
  <1>11. ASSUME NEW t \in Tasks, TimeOut(t) PROVE TypeOK'
    BY <1>11 DEF TypeOK, TimeOut, ring, bounds
  <1>12. ASSUME SendFromISR PROVE TypeOK'
    <2>1. PICK item \in Items : prvCopyDataToQueue(item)
      BY <1>12 DEF SendFromISR
    <2>2. uxMessagesWaiting < uxLength
      BY <1>12 DEF SendFromISR
    <2>3. /\ storage' \in [0..uxLength-1 -> Items \cup {NULL}]
          /\ pcWriteTo' \in 0..uxLength-1 /\ pcReadFrom' \in 0..uxLength-1
          /\ uxMessagesWaiting' \in 0..uxLength
      BY <2>1, <2>2, CopyToType
    <2>4. xTasksWaitingToReceive' \in SUBSET Tasks
      <3>1. xTasksWaitingToReceive' \subseteq xTasksWaitingToReceive
        BY <1>12 DEF SendFromISR, Woken
      <3>2. QED
        BY <3>1 DEF TypeOK
    <2>5. signals' \in 0..MaxSignals
      BY <1>12 DEF SendFromISR, TypeOK
    <2>6. xTxLock' \in {queueUNLOCKED} \cup Nat
      BY <1>12 DEF SendFromISR, TypeOK, queueUNLOCKED
    <2>7. QED
      BY <1>12, <2>3, <2>4, <2>5, <2>6 DEF SendFromISR, TypeOK
  <1>13. CASE UNCHANGED vars
    BY <1>13 DEF TypeOK, vars, ring, lists, bounds
  <1>14. QED
    BY <1>1, <1>2, <1>3, <1>4, <1>5, <1>6, <1>7, <1>8, <1>9, <1>10, <1>11,
       <1>12, <1>13 DEF Next, Step

\* Every step keeps a task where its request, the scheduler and the lock say.
LEMMA NextStructure ==
  ASSUME Inv, [Next]_vars, TypeOK'
  PROVE  (SchedulerInv /\ ListInv /\ PlaceInv /\ FailInv)'
  <1> USE QueueAssumption DEF Inv, Listed
  <1>1. ASSUME NEW t \in Tasks, Call(t)
        PROVE (SchedulerInv /\ ListInv /\ PlaceInv /\ FailInv)'
    <2>1. t \notin Listed
      BY <1>1 DEF Call, ListInv
    <2>2. SchedulerInv'
      BY <1>1 DEF TypeOK, Call, Goto, SchedulerInv
    <2>3. ListInv'
      BY <1>1, <2>1 DEF TypeOK, Call, Goto, ListInv, lists
    <2>4. PlaceInv'
      BY <1>1 DEF TypeOK, Call, Goto, PlaceInv, ring
    <2>5. FailInv'
      BY <1>1 DEF TypeOK, Call, Goto, FailInv
    <2>6. QED
      BY <2>2, <2>3, <2>4, <2>5
  <1>2. ASSUME NEW t \in Tasks, Send(t)
        PROVE (SchedulerInv /\ ListInv /\ PlaceInv /\ FailInv)'
    <2>1. t \notin Listed /\ scheduler = NoTask
      BY <1>2 DEF Send, Runs, SchedulerInv, TypeOK
    <2>2. xTasksWaitingToReceive' \subseteq xTasksWaitingToReceive
      BY <1>2 DEF Send, Woken
    <2>3. SchedulerInv'
      BY <1>2 DEF TypeOK, Send, Return, Goto, SchedulerInv
    <2>4. ListInv'
      BY <1>2, <2>1, <2>2 DEF TypeOK, Send, Return, Goto, ListInv
    <2>5. PlaceInv'
      BY <1>2, <2>1 DEF TypeOK, Send, Return, Goto, PlaceInv, SchedulerInv
    <2>6. FailInv'
      BY <1>2 DEF TypeOK, Send, Return, Goto, FailInv
    <2>7. QED
      BY <2>3, <2>4, <2>5, <2>6
  <1>3. ASSUME NEW t \in Tasks, Receive(t)
        PROVE (SchedulerInv /\ ListInv /\ PlaceInv /\ FailInv)'
    <2>1. t \notin Listed /\ scheduler = NoTask
      BY <1>3 DEF Receive, Runs, SchedulerInv, TypeOK
    <2>2. xTasksWaitingToSend' \subseteq xTasksWaitingToSend
      BY <1>3 DEF Receive, Woken
    <2>3. SchedulerInv'
      BY <1>3 DEF TypeOK, Receive, Return, Goto, SchedulerInv
    <2>4. ListInv'
      BY <1>3, <2>1, <2>2 DEF TypeOK, Receive, Return, Goto, ListInv
    <2>5. PlaceInv'
      BY <1>3, <2>1 DEF TypeOK, Receive, Return, Goto, PlaceInv, SchedulerInv
    <2>6. FailInv'
      BY <1>3 DEF TypeOK, Receive, Return, Goto, FailInv
    <2>7. QED
      BY <2>3, <2>4, <2>5, <2>6
  <1>4. ASSUME NEW t \in Tasks, Refuse(t)
        PROVE (SchedulerInv /\ ListInv /\ PlaceInv /\ FailInv)'
    <2>1. t \notin Listed
      BY <1>4 DEF Refuse, Runs
    <2>2. SchedulerInv' /\ FailInv'
      BY <1>4 DEF TypeOK, Refuse, Return, Goto, SchedulerInv, FailInv
    <2>3. ListInv'
      BY <1>4, <2>1 DEF TypeOK, Refuse, Return, Goto, ListInv, lists
    <2>4. PlaceInv'
      BY <1>4 DEF TypeOK, Refuse, Return, Goto, PlaceInv, ring
    <2>5. QED
      BY <2>2, <2>3, <2>4
  <1>5. ASSUME NEW t \in Tasks, LeaveCritical(t)
        PROVE (SchedulerInv /\ ListInv /\ PlaceInv /\ FailInv)'
    <2>1. t \notin Listed
      BY <1>5 DEF LeaveCritical, Runs
    <2>2. SchedulerInv' /\ FailInv'
      BY <1>5 DEF TypeOK, LeaveCritical, Goto, SchedulerInv, FailInv
    <2>3. ListInv'
      BY <1>5, <2>1 DEF TypeOK, LeaveCritical, Goto, ListInv, lists
    <2>4. PlaceInv'
      BY <1>5 DEF TypeOK, LeaveCritical, Goto, PlaceInv, ring
    <2>5. QED
      BY <2>2, <2>3, <2>4
  <1>6. ASSUME NEW t \in Tasks, Suspend(t)
        PROVE (SchedulerInv /\ ListInv /\ PlaceInv /\ FailInv)'
    <2>1. t \notin Listed /\ scheduler = NoTask
      BY <1>6 DEF Suspend, Runs, ListInv, SchedulerInv, TypeOK
    <2>2. SchedulerInv'
      BY <1>6, <2>1 DEF TypeOK, Suspend, Goto, SchedulerInv, queueUNLOCKED,
                        queueLOCKED_UNMODIFIED
    <2>3. ListInv' /\ FailInv'
      BY <1>6, <2>1 DEF TypeOK, Suspend, Goto, ListInv, FailInv, lists
    <2>4. PlaceInv'
      BY <1>6, <2>1 DEF TypeOK, Suspend, Goto, PlaceInv, SchedulerInv, ring
    <2>5. QED
      BY <2>2, <2>3, <2>4
  <1>7. ASSUME NEW t \in Tasks, Test(t)
        PROVE (SchedulerInv /\ ListInv /\ PlaceInv /\ FailInv)'
    <2>1. t \notin Listed /\ scheduler = t
      BY <1>7 DEF Test, ListInv, SchedulerInv
    <2>2. SchedulerInv'
      BY <1>7, <2>1 DEF TypeOK, Test, Goto, SchedulerInv
    <2>3. ListInv'
      BY <1>7, <2>1 DEF TypeOK, Test, Goto, ListInv, lists
    <2>4. FailInv'
      BY <1>7, <2>1 DEF TypeOK, Test, Goto, FailInv, SchedulerInv
    <2>5. xTxLock \in Nat
      BY <1>7, <2>1 DEF TypeOK, Test, SchedulerInv
    <2>6. PlaceInv'
      BY <1>7, <2>1, <2>5 DEF TypeOK, Test, Goto, PlaceInv, Unable, ring
    <2>7. QED
      BY <2>2, <2>3, <2>4, <2>6
  <1>8. ASSUME NEW t \in Tasks, Place(t)
        PROVE (SchedulerInv /\ ListInv /\ PlaceInv /\ FailInv)'
    <2>1. scheduler = t /\ result[t] = "pass"
      BY <1>8 DEF Place, SchedulerInv, PlaceInv
    <2>2. SchedulerInv' /\ FailInv'
      BY <1>8, <2>1 DEF TypeOK, Place, Goto, SchedulerInv, FailInv
    <2>3. request[t].kind # "send" => request[t].kind = "receive"
      BY RequestsKind DEF TypeOK
    <2>4. ListInv'
      BY <1>8, <2>1, <2>3 DEF TypeOK, Place, Goto, ListInv
    <2>5. PlaceInv'
      BY <1>8, <2>1 DEF TypeOK, Place, Goto, PlaceInv, ring
    <2>6. QED
      BY <2>2, <2>4, <2>5
  <1>9. ASSUME NEW t \in Tasks, prvUnlockQueue(t)
        PROVE (SchedulerInv /\ ListInv /\ PlaceInv /\ FailInv)'
    <2>1. scheduler = t
      BY <1>9 DEF prvUnlockQueue, SchedulerInv
    <2>2. xTasksWaitingToReceive' \subseteq xTasksWaitingToReceive
      BY <1>9 DEF prvUnlockQueue, Woken
    <2>3. SchedulerInv' /\ FailInv'
      BY <1>9, <2>1 DEF TypeOK, prvUnlockQueue, Goto, SchedulerInv, FailInv
    <2>4. ListInv'
      BY <1>9, <2>2 DEF TypeOK, prvUnlockQueue, Goto, ListInv
    <2>5. PlaceInv'
      BY <1>9, <2>1 DEF TypeOK, prvUnlockQueue, Goto, PlaceInv, SchedulerInv, ring
    <2>6. QED
      BY <2>3, <2>4, <2>5
  <1>10. ASSUME NEW t \in Tasks, ResumeAll(t)
         PROVE (SchedulerInv /\ ListInv /\ PlaceInv /\ FailInv)'
    <2>1. scheduler = t
      BY <1>10 DEF ResumeAll, SchedulerInv
    <2>2. SchedulerInv' /\ FailInv'
      BY <1>10, <2>1 DEF TypeOK, ResumeAll, Goto, SchedulerInv, FailInv
    <2>3. ListInv'
      BY <1>10 DEF TypeOK, ResumeAll, Goto, ListInv, lists
    <2>4. PlaceInv'
      BY <1>10 DEF TypeOK, ResumeAll, Goto, PlaceInv, ring
    <2>5. QED
      BY <2>2, <2>3, <2>4
  <1>11. ASSUME NEW t \in Tasks, TimeOut(t)
         PROVE (SchedulerInv /\ ListInv /\ PlaceInv /\ FailInv)'
    <2>1. SchedulerInv' /\ PlaceInv'
      BY <1>11 DEF TimeOut, SchedulerInv, PlaceInv, ring
    <2>2. ListInv' /\ FailInv'
      BY <1>11 DEF TypeOK, TimeOut, ListInv, FailInv
    <2>3. QED
      BY <2>1, <2>2
  <1>12. ASSUME SendFromISR
         PROVE (SchedulerInv /\ ListInv /\ PlaceInv /\ FailInv)'
    <2>1. uxMessagesWaiting < uxLength /\ uxMessagesWaiting' = uxMessagesWaiting + 1
      BY <1>12 DEF SendFromISR, prvCopyDataToQueue
    <2>2. xTasksWaitingToReceive' \subseteq xTasksWaitingToReceive
      BY <1>12 DEF SendFromISR, Woken
    <2>3. xTxLock = queueUNLOCKED <=> xTxLock' = queueUNLOCKED
      BY <1>12 DEF SendFromISR, TypeOK, queueUNLOCKED
    <2>4. SchedulerInv' /\ FailInv'
      BY <1>12, <2>3 DEF SendFromISR, SchedulerInv, FailInv
    <2>5. ListInv'
      BY <1>12, <2>2 DEF SendFromISR, ListInv
    <2>6. ASSUME NEW t \in Tasks, pc[t] = "place"
          PROVE request[t].kind # "send" /\ xTxLock' = xTxLock + 1
      BY <1>12, <2>1, <2>6 DEF SendFromISR, SchedulerInv, PlaceInv, TypeOK
    <2>7. PlaceInv'
      BY <1>12, <2>1, <2>3, <2>6 DEF SendFromISR, PlaceInv, SchedulerInv, TypeOK
    <2>8. QED
      BY <2>4, <2>5, <2>7
  <1>13. CASE UNCHANGED vars
    BY <1>13 DEF vars, ring, lists, bounds, SchedulerInv, ListInv, PlaceInv, FailInv
  <1>14. QED
    BY <1>1, <1>2, <1>3, <1>4, <1>5, <1>6, <1>7, <1>8, <1>9, <1>10, <1>11,
       <1>12, <1>13 DEF Next, Step

-----------------------------------------------------------------------------
(* No wake-up is lost. *)

Receivers == Looking("receive")
Senders == Looking("send")
Counted == IF xTxLock > 0 THEN xTxLock ELSE 0

\* If a list is not emptied, as many tasks as asked for have left it.
LEMMA WokenCount ==
  ASSUME NEW W \in SUBSET Tasks, NEW list, NEW n \in Nat,
         Woken(W, list, n), list # {}
  PROVE  Cardinality(W \ list) = n
  <1>1. IsFiniteSet(W)
    BY QueueAssumption, FS_Subset
  <1>2. IsFiniteSet(W \ list) /\ Cardinality(W) \in Nat
    BY <1>1, FS_Subset, FS_CardinalityType
  <1>3. CASE Cardinality(W) < n
    <2>1. Cardinality(W) = Cardinality(W \ list)
      BY <1>3 DEF Woken
    <2>2. W \ list \in SUBSET W
      OBVIOUS
    <2>3. W = W \ list
      BY <1>1, <2>1, <2>2, FS_Subset
    <2>4. QED
      BY <2>3 DEF Woken
  <1>4. CASE ~(Cardinality(W) < n)
    BY <1>4 DEF Woken
  <1>5. QED
    BY <1>3, <1>4

\* The tasks that look are finitely many, and those of a larger set more.
LEMMA LookingCount ==
  ASSUME NEW L \in SUBSET Tasks, NEW W \in SUBSET Tasks, NEW M \in SUBSET Tasks,
         L \cap W = {}, L \cup W \subseteq M
  PROVE  /\ Cardinality(L) \in Nat /\ Cardinality(W) \in Nat /\ Cardinality(M) \in Nat
         /\ Cardinality(M) >= Cardinality(L) + Cardinality(W)
  <1>1. IsFiniteSet(L) /\ IsFiniteSet(W) /\ IsFiniteSet(M)
    BY QueueAssumption, FS_Subset
  <1>2. Cardinality(L) \in Nat /\ Cardinality(W) \in Nat /\ Cardinality(M) \in Nat
    BY <1>1, FS_CardinalityType
  <1>3. Cardinality(L \cup W) = Cardinality(L) + Cardinality(W)
    <2>1. Cardinality(L \cup W) = Cardinality(L) + Cardinality(W) - Cardinality(L \cap W)
      BY <1>1, FS_Union
    <2>2. Cardinality(L \cap W) = 0
      BY FS_EmptySet
    <2>3. QED
      BY <1>2, <2>1, <2>2
  <1>4. Cardinality(L \cup W) <= Cardinality(M)
    BY <1>1, FS_Subset
  <1>5. QED
    BY <1>2, <1>3, <1>4

\* A step that takes one task away takes no more than one.
LEMMA OneLess ==
  ASSUME NEW L \in SUBSET Tasks, NEW M \in SUBSET Tasks, NEW t, L \ {t} \subseteq M
  PROVE  /\ Cardinality(L) \in Nat /\ Cardinality(M) \in Nat
         /\ Cardinality(L) - 1 <= Cardinality(M)
  <1>1. IsFiniteSet(L) /\ IsFiniteSet(M)
    BY QueueAssumption, FS_Subset
  <1>2. Cardinality(L) \in Nat /\ Cardinality(M) \in Nat
    BY <1>1, FS_CardinalityType
  <1>3. Cardinality(L \ {t}) >= Cardinality(L) - 1
    BY <1>1, <1>2, FS_RemoveElement
  <1>4. Cardinality(L \ {t}) <= Cardinality(M) /\ Cardinality(L \ {t}) \in Nat
    BY <1>1, FS_Subset, FS_CardinalityType
  <1>5. QED
    BY <1>2, <1>3, <1>4

\* A step that adds no more items than tasks which will look for them ...
LEMMA ReceiversServed ==
  ASSUME TypeOK, TypeOK', NoLostWakeup,
         NEW W \in SUBSET Tasks, W \cap Receivers = {},
         Receivers \cup W \subseteq Receivers',
         xTasksWaitingToReceive' # {} => xTasksWaitingToReceive # {},
         xTasksWaitingToReceive' # {} =>
            uxMessagesWaiting' - Counted' <= uxMessagesWaiting - Counted + Cardinality(W)
  PROVE  xTasksWaitingToReceive' # {} =>
            uxMessagesWaiting' <= Cardinality(Receivers') + Counted'
  <1>1. Receivers \in SUBSET Tasks /\ Receivers' \in SUBSET Tasks
    BY DEF Looking, Receivers, Senders
  <1>2. /\ Cardinality(Receivers) \in Nat /\ Cardinality(W) \in Nat
        /\ Cardinality(Receivers') \in Nat
        /\ Cardinality(Receivers') >= Cardinality(Receivers) + Cardinality(W)
    BY <1>1, LookingCount
  <1>3. Counted \in Nat /\ Counted' \in Nat
    BY DEF TypeOK, Counted, queueUNLOCKED
  <1>4. uxMessagesWaiting \in Int /\ uxMessagesWaiting' \in Int
    BY DEF TypeOK
  <1>5. xTasksWaitingToReceive # {} =>
            uxMessagesWaiting <= Cardinality(Receivers) + Counted
    BY DEF NoLostWakeup, Counted, Receivers
  <1>6. QED
    BY <1>2, <1>3, <1>4, <1>5

\* ... and no more free places than tasks which will look for them.
LEMMA SendersServed ==
  ASSUME TypeOK, TypeOK', NoLostWakeup,
         NEW W \in SUBSET Tasks, W \cap Senders = {},
         Senders \cup W \subseteq Senders',
         xTasksWaitingToSend' # {} => xTasksWaitingToSend # {},
         xTasksWaitingToSend' # {} =>
            uxMessagesWaiting - Cardinality(W) <= uxMessagesWaiting'
  PROVE  xTasksWaitingToSend' # {} =>
            uxLength - uxMessagesWaiting' <= Cardinality(Senders')
  <1>1. Senders \in SUBSET Tasks /\ Senders' \in SUBSET Tasks
    BY DEF Looking, Receivers, Senders
  <1>2. /\ Cardinality(Senders) \in Nat /\ Cardinality(W) \in Nat
        /\ Cardinality(Senders') \in Nat
        /\ Cardinality(Senders') >= Cardinality(Senders) + Cardinality(W)
    BY <1>1, LookingCount
  <1>3. uxMessagesWaiting \in Int /\ uxMessagesWaiting' \in Int /\ uxLength \in Int
    BY QueueAssumption DEF TypeOK
  <1>4. xTasksWaitingToSend # {} =>
            uxLength - uxMessagesWaiting <= Cardinality(Senders)
    BY DEF NoLostWakeup, Senders
  <1>5. QED
    BY <1>2, <1>3, <1>4

\* A step that moves no item and lets no task that looks go.
LEMMA NothingMoves ==
  ASSUME TypeOK, TypeOK', NoLostWakeup,
         Receivers \subseteq Receivers',
         Senders \subseteq Senders',
         xTasksWaitingToReceive' \subseteq xTasksWaitingToReceive,
         xTasksWaitingToSend' \subseteq xTasksWaitingToSend,
         uxMessagesWaiting' = uxMessagesWaiting, Counted' = Counted
  PROVE  NoLostWakeup'
  <1>1. {} \in SUBSET Tasks /\ Cardinality({}) = 0
    BY FS_EmptySet
  <1>2. Counted \in Int /\ uxMessagesWaiting \in Int
    BY DEF TypeOK, Counted, queueUNLOCKED
  <1>3. xTasksWaitingToReceive' # {} =>
            uxMessagesWaiting' <= Cardinality(Receivers') + Counted'
    BY <1>1, <1>2, ReceiversServed
  <1>4. xTasksWaitingToSend' # {} =>
            uxLength - uxMessagesWaiting' <= Cardinality(Senders')
    BY <1>1, <1>2, SendersServed
  <1>5. QED
    BY <1>3, <1>4 DEF NoLostWakeup, Counted, Receivers, Senders

\* Every step keeps that no wake-up is lost.
LEMMA NextNoLostWakeup ==
  ASSUME Inv, NoLostWakeup, [Next]_vars, TypeOK'
  PROVE  NoLostWakeup'
  <1> USE QueueAssumption DEF Inv, Listed
  <1>1. ASSUME NEW t \in Tasks, Call(t) PROVE NoLostWakeup'
    <2>1. Receivers \subseteq Receivers' /\ Senders \subseteq Senders'
      BY <1>1 DEF TypeOK, Call, Goto, Receivers, Senders, Looking, lists
    <2>2. Counted' = Counted /\ uxMessagesWaiting' = uxMessagesWaiting
      BY <1>1 DEF Call, Counted, ring
    <2>3. QED
      BY <1>1, <2>1, <2>2, NothingMoves DEF Call, lists
  <1>2. ASSUME NEW t \in Tasks, Send(t) PROVE NoLostWakeup'
    <2>1. /\ uxMessagesWaiting' = uxMessagesWaiting + 1
          /\ Counted' = Counted /\ uxMessagesWaiting \in Int /\ Counted \in Int
          /\ xTasksWaitingToSend' = xTasksWaitingToSend
          /\ scheduler = NoTask /\ request[t].kind = "send" /\ pc[t] = "look"
          /\ t \notin Listed /\ request' = request
      BY <1>2 DEF Send, prvCopyDataToQueue, Counted, TypeOK, queueUNLOCKED, Runs,
                  SchedulerInv
    <2>2. PICK list \in SUBSET xTasksWaitingToReceive :
             /\ Woken(xTasksWaitingToReceive, list, 1)
             /\ xTasksWaitingToReceive' = list
      BY <1>2 DEF Send
    <2>3. \A u \in Listed : pc[u] = "look" /\ u # t
      BY <2>1 DEF ListInv, SchedulerInv, TypeOK
    <2>4. \A u \in Tasks \ {t} : pc'[u] = pc[u] /\ result'[u] = result[u]
      BY <1>2 DEF Send, Return, Goto, TypeOK
    <2>5. xTasksWaitingToReceive' # {} =>
             uxMessagesWaiting' <= Cardinality(Receivers') + Counted'
      <3> DEFINE W == xTasksWaitingToReceive \ list
      <3>1. W \in SUBSET Tasks /\ W \cap Receivers = {}
        BY DEF TypeOK, Receivers, Looking
      <3>2. \A u \in W : /\ u \notin xTasksWaitingToSend
                         /\ request[u].kind = "receive"
        BY DEF ListInv
      <3>3. W \subseteq Receivers'
        BY <2>1, <2>2, <2>3, <2>4, <3>1, <3>2 DEF Receivers, Looking
      <3>4. Receivers \subseteq Receivers'
        BY <2>1, <2>2, <2>4 DEF Receivers, Looking
      <3>5. xTasksWaitingToReceive' # {} => Cardinality(W) = 1
        BY <2>2, WokenCount DEF TypeOK
      <3> HIDE DEF W
      <3>6. xTasksWaitingToReceive' # {} => xTasksWaitingToReceive # {}
        BY <2>2
      <3>7. QED
        BY <2>1, <3>1, <3>3, <3>4, <3>5, <3>6, ReceiversServed
    <2>6. xTasksWaitingToSend' # {} =>
             uxLength - uxMessagesWaiting' <= Cardinality(Senders')
      <3>1. Senders \ {t} \subseteq Senders' /\ Senders \in SUBSET Tasks
            /\ Senders' \in SUBSET Tasks
        BY <2>1, <2>2, <2>4 DEF Senders, Looking
      <3>2. /\ Cardinality(Senders) \in Nat /\ Cardinality(Senders') \in Nat
            /\ Cardinality(Senders) - 1 <= Cardinality(Senders')
        BY <3>1, OneLess
      <3>3. xTasksWaitingToSend # {} =>
               uxLength - uxMessagesWaiting <= Cardinality(Senders)
        BY DEF NoLostWakeup, Senders
      <3>4. QED
        BY <2>1, <3>2, <3>3
    <2>7. QED
      BY <2>5, <2>6 DEF NoLostWakeup, Receivers, Senders, Counted
  <1>3. ASSUME NEW t \in Tasks, Receive(t) PROVE NoLostWakeup'
    <2>1. /\ uxMessagesWaiting' = uxMessagesWaiting - 1
          /\ Counted' = Counted /\ uxMessagesWaiting \in Int /\ Counted \in Int
          /\ xTasksWaitingToReceive' = xTasksWaitingToReceive
          /\ scheduler = NoTask /\ request[t].kind = "receive" /\ pc[t] = "look"
          /\ t \notin Listed /\ request' = request
      BY <1>3 DEF Receive, prvCopyDataFromQueue, Counted, TypeOK, queueUNLOCKED,
                  Runs, SchedulerInv
    <2>2. PICK list \in SUBSET xTasksWaitingToSend :
             /\ Woken(xTasksWaitingToSend, list, 1)
             /\ xTasksWaitingToSend' = list
      BY <1>3 DEF Receive
    <2>3. \A u \in Listed : pc[u] = "look" /\ u # t
      BY <2>1 DEF ListInv, SchedulerInv, TypeOK
    <2>4. \A u \in Tasks \ {t} : pc'[u] = pc[u] /\ result'[u] = result[u]
      BY <1>3 DEF Receive, Return, Goto, TypeOK
    <2>5. xTasksWaitingToSend' # {} =>
             uxLength - uxMessagesWaiting' <= Cardinality(Senders')
      <3> DEFINE W == xTasksWaitingToSend \ list
      <3>1. W \in SUBSET Tasks /\ W \cap Senders = {}
        BY DEF TypeOK, Senders, Looking
      <3>2. \A u \in W : /\ u \notin xTasksWaitingToReceive
                         /\ request[u].kind = "send"
        BY DEF ListInv
      <3>3. W \subseteq Senders'
        BY <2>1, <2>2, <2>3, <2>4, <3>1, <3>2 DEF Senders, Looking
      <3>4. Senders \subseteq Senders'
        BY <2>1, <2>2, <2>4 DEF Senders, Looking
      <3>5. xTasksWaitingToSend' # {} => Cardinality(W) = 1
        BY <2>2, WokenCount DEF TypeOK
      <3> HIDE DEF W
      <3>6. xTasksWaitingToSend' # {} => xTasksWaitingToSend # {}
        BY <2>2
      <3>7. QED
        BY <2>1, <3>1, <3>3, <3>4, <3>5, <3>6, SendersServed
    <2>6. xTasksWaitingToReceive' # {} =>
             uxMessagesWaiting' <= Cardinality(Receivers') + Counted'
      <3>1. Receivers \ {t} \subseteq Receivers' /\ Receivers \in SUBSET Tasks
            /\ Receivers' \in SUBSET Tasks
        BY <2>1, <2>2, <2>4 DEF Receivers, Looking
      <3>2. /\ Cardinality(Receivers) \in Nat /\ Cardinality(Receivers') \in Nat
            /\ Cardinality(Receivers) - 1 <= Cardinality(Receivers')
        BY <3>1, OneLess
      <3>3. xTasksWaitingToReceive # {} =>
               uxMessagesWaiting <= Cardinality(Receivers) + Counted
        BY DEF NoLostWakeup, Receivers, Counted
      <3>4. QED
        BY <2>1, <3>2, <3>3
    <2>7. QED
      BY <2>5, <2>6 DEF NoLostWakeup, Receivers, Senders, Counted
  <1>4. ASSUME NEW t \in Tasks, Refuse(t) \/ LeaveCritical(t) PROVE NoLostWakeup'
    <2>1. /\ Unable(t) /\ pc[t] = "look" /\ UNCHANGED <<ring, xTxLock, lists, request>>
          /\ pc'[t] \in {"idle", "suspend"}
          /\ \A u \in Tasks \ {t} : pc'[u] = pc[u] /\ result'[u] = result[u]
      BY <1>4 DEF Refuse, LeaveCritical, Return, Goto, TypeOK
    <2>2. request[t].kind = "receive" => Senders \subseteq Senders'
      BY <2>1 DEF Senders, Looking, lists
    <2>3. request[t].kind = "send" => Receivers \subseteq Receivers'
      BY <2>1 DEF Receivers, Looking, lists
    <2>4. {} \in SUBSET Tasks /\ Cardinality({}) = 0
      BY FS_EmptySet
    <2>5. /\ Counted \in Nat /\ Counted' = Counted
          /\ uxMessagesWaiting' = uxMessagesWaiting /\ uxMessagesWaiting \in Int
          /\ xTasksWaitingToReceive' = xTasksWaitingToReceive
          /\ xTasksWaitingToSend' = xTasksWaitingToSend
      BY <2>1 DEF TypeOK, Counted, queueUNLOCKED, ring, lists
    <2>6. Receivers' \in SUBSET Tasks /\ Senders' \in SUBSET Tasks
      BY DEF Receivers, Senders, Looking
    <2>7. Cardinality(Receivers') \in Nat /\ Cardinality(Senders') \in Nat
      BY <2>6, QueueAssumption, FS_Subset, FS_CardinalityType
    <2>8. CASE request[t].kind = "send"
      <3>1. uxMessagesWaiting' = uxLength
        BY <2>1, <2>5, <2>8 DEF Unable
      <3>2. xTasksWaitingToReceive' # {} =>
               uxMessagesWaiting' <= Cardinality(Receivers') + Counted'
        BY <2>3, <2>4, <2>5, <2>8, ReceiversServed
      <3>3. uxLength - uxMessagesWaiting' <= Cardinality(Senders')
        BY <2>7, <3>1
      <3>4. QED
        BY <3>2, <3>3 DEF NoLostWakeup, Receivers, Senders, Counted
    <2>9. CASE request[t].kind = "receive"
      <3>1. uxMessagesWaiting' = 0
        BY <2>1, <2>5, <2>9 DEF Unable
      <3>2. xTasksWaitingToSend' # {} =>
               uxLength - uxMessagesWaiting' <= Cardinality(Senders')
        BY <2>2, <2>4, <2>5, <2>9, SendersServed
      <3>3. uxMessagesWaiting' <= Cardinality(Receivers') + Counted'
        BY <2>5, <2>7, <3>1
      <3>4. QED
        BY <3>2, <3>3 DEF NoLostWakeup, Receivers, Senders, Counted
    <2>10. QED
      BY <2>8, <2>9, RequestsKind DEF TypeOK
  <1>5. ASSUME NEW t \in Tasks, Suspend(t) PROVE NoLostWakeup'
    <2>1. xTxLock = queueUNLOCKED
      BY <1>5 DEF Suspend, Runs, SchedulerInv, TypeOK
    <2>2. Receivers \subseteq Receivers' /\ Senders \subseteq Senders'
      BY <1>5 DEF TypeOK, Suspend, Goto, Receivers, Senders, Looking, lists
    <2>3. Counted' = Counted /\ uxMessagesWaiting' = uxMessagesWaiting
      BY <1>5, <2>1 DEF Suspend, Counted, ring, queueUNLOCKED, queueLOCKED_UNMODIFIED
    <2>4. QED
      BY <1>5, <2>2, <2>3, NothingMoves DEF Suspend, lists
  <1>6. ASSUME NEW t \in Tasks, Test(t) PROVE NoLostWakeup'
    <2>1. Receivers \subseteq Receivers' /\ Senders \subseteq Senders'
      BY <1>6 DEF TypeOK, Test, Goto, Receivers, Senders, Looking, lists
    <2>2. Counted' = Counted /\ uxMessagesWaiting' = uxMessagesWaiting
      BY <1>6 DEF Test, Counted, ring
    <2>3. QED
      BY <1>6, <2>1, <2>2, NothingMoves DEF Test, lists
  <1>7. ASSUME NEW t \in Tasks, Place(t) PROVE NoLostWakeup'
    <2>1. /\ uxMessagesWaiting' = uxMessagesWaiting /\ Counted' = Counted
          /\ xTxLock \in Nat /\ Counted = xTxLock /\ uxMessagesWaiting \in Int
      BY <1>7 DEF Place, ring, Counted, TypeOK, SchedulerInv
    <2>2. Receivers \subseteq Receivers' /\ Senders \subseteq Senders'
      BY <1>7 DEF TypeOK, Place, Goto, Receivers, Senders, Looking
    <2>3. {} \in SUBSET Tasks /\ Cardinality({}) = 0
      BY FS_EmptySet
    <2>4. Receivers' \in SUBSET Tasks /\ Senders' \in SUBSET Tasks
      BY DEF Receivers, Senders, Looking
    <2>5. Cardinality(Receivers') \in Nat /\ Cardinality(Senders') \in Nat
      BY <2>4, QueueAssumption, FS_Subset, FS_CardinalityType
    <2>6. CASE request[t].kind = "send"
      <3>1. uxMessagesWaiting = uxLength /\ xTasksWaitingToReceive' = xTasksWaitingToReceive
        BY <1>7, <2>6 DEF Place, PlaceInv
      <3>2. xTasksWaitingToReceive' # {} =>
               uxMessagesWaiting' <= Cardinality(Receivers') + Counted'
        BY <2>1, <2>2, <2>3, <3>1, ReceiversServed
      <3>3. QED
        BY <2>1, <2>5, <3>1, <3>2 DEF NoLostWakeup, Receivers, Senders, Counted
    <2>7. CASE request[t].kind # "send"
      <3>1. uxMessagesWaiting <= xTxLock /\ xTasksWaitingToSend' = xTasksWaitingToSend
        BY <1>7, <2>7 DEF Place, PlaceInv
      <3>2. xTasksWaitingToSend' # {} =>
               uxLength - uxMessagesWaiting' <= Cardinality(Senders')
        BY <2>1, <2>2, <2>3, <3>1, SendersServed
      <3>3. uxMessagesWaiting' <= Cardinality(Receivers') + Counted'
        BY <2>1, <2>5, <3>1
      <3>4. QED
        BY <3>2, <3>3 DEF NoLostWakeup, Receivers, Senders, Counted
    <2>8. QED
      BY <2>6, <2>7
  <1>8. ASSUME NEW t \in Tasks, prvUnlockQueue(t) PROVE NoLostWakeup'
    <2>1. /\ uxMessagesWaiting' = uxMessagesWaiting /\ uxMessagesWaiting \in Int
          /\ xTxLock \in Nat /\ Counted = xTxLock /\ Counted' = 0
          /\ xTasksWaitingToSend' = xTasksWaitingToSend
          /\ request' = request /\ result' = result
          /\ pc[t] = "unlock" /\ pc'[t] = "resume" /\ scheduler = t
          /\ \A u \in Tasks \ {t} : pc'[u] = pc[u]
      BY <1>8 DEF prvUnlockQueue, ring, Counted, TypeOK, SchedulerInv, Goto,
                  queueUNLOCKED
    <2>2. PICK list \in SUBSET xTasksWaitingToReceive :
             /\ Woken(xTasksWaitingToReceive, list, xTxLock)
             /\ xTasksWaitingToReceive' = list
      BY <1>8 DEF prvUnlockQueue
    <2>3. \A u \in Listed : /\ pc'[u] \in {"look", "resume"}
                            /\ pc'[u] = "resume" => result[u] = "pass"
      BY <2>1 DEF ListInv, SchedulerInv, TypeOK
    <2> DEFINE W == xTasksWaitingToReceive \ list
    <2>4. W \in SUBSET Tasks /\ W \cap Receivers = {}
      BY DEF TypeOK, Receivers, Looking
    <2>5. \A u \in W : u \notin xTasksWaitingToSend /\ request[u].kind = "receive"
      BY DEF ListInv
    <2>6. W \subseteq Receivers'
      BY <2>1, <2>2, <2>3, <2>4, <2>5 DEF Receivers, Looking
    <2>7. Receivers \subseteq Receivers' /\ Senders \subseteq Senders'
      BY <2>1, <2>2 DEF Receivers, Senders, Looking
    <2>8. xTasksWaitingToReceive' # {} => Cardinality(W) = xTxLock
      BY <2>1, <2>2, WokenCount DEF TypeOK
    <2>9. xTasksWaitingToReceive' # {} => xTasksWaitingToReceive # {}
      BY <2>2
    <2> HIDE DEF W
    <2>10. xTasksWaitingToReceive' # {} =>
             uxMessagesWaiting' <= Cardinality(Receivers') + Counted'
      BY <2>1, <2>4, <2>6, <2>7, <2>8, <2>9, ReceiversServed
    <2>11. {} \in SUBSET Tasks /\ Cardinality({}) = 0
      BY FS_EmptySet
    <2>12. xTasksWaitingToSend' # {} =>
             uxLength - uxMessagesWaiting' <= Cardinality(Senders')
      BY <2>1, <2>7, <2>11, SendersServed
    <2>13. QED
      BY <2>10, <2>12 DEF NoLostWakeup, Receivers, Senders, Counted
  <1>9. ASSUME NEW t \in Tasks, ResumeAll(t) PROVE NoLostWakeup'
    <2>1. Receivers \subseteq Receivers' /\ Senders \subseteq Senders'
      BY <1>9 DEF TypeOK, ResumeAll, Goto, Receivers, Senders, Looking, lists
    <2>2. Counted' = Counted /\ uxMessagesWaiting' = uxMessagesWaiting
      BY <1>9 DEF ResumeAll, Counted, ring
    <2>3. QED
      BY <1>9, <2>1, <2>2, NothingMoves DEF ResumeAll, lists
  <1>10. ASSUME NEW t \in Tasks, TimeOut(t) PROVE NoLostWakeup'
    <2>1. Receivers \subseteq Receivers' /\ Senders \subseteq Senders'
      BY <1>10 DEF TypeOK, TimeOut, Receivers, Senders, Looking
    <2>2. Counted' = Counted /\ uxMessagesWaiting' = uxMessagesWaiting
      BY <1>10 DEF TimeOut, Counted, ring
    <2>3. QED
      BY <1>10, <2>1, <2>2, NothingMoves DEF TimeOut
  <1>11. ASSUME SendFromISR PROVE NoLostWakeup'
    <2>1. /\ uxMessagesWaiting' = uxMessagesWaiting + 1 /\ uxMessagesWaiting \in Int
          /\ xTasksWaitingToSend' = xTasksWaitingToSend
          /\ request' = request /\ result' = result /\ pc' = pc
          /\ Counted \in Int
      BY <1>11 DEF SendFromISR, prvCopyDataToQueue, TypeOK, Counted, queueUNLOCKED
    <2>2. xTasksWaitingToReceive' \subseteq xTasksWaitingToReceive
      BY <1>11 DEF SendFromISR, Woken
    <2>3. Receivers \subseteq Receivers' /\ Senders \subseteq Senders'
      BY <2>1, <2>2 DEF Receivers, Senders, Looking
    <2>4. {} \in SUBSET Tasks /\ Cardinality({}) = 0
      BY FS_EmptySet
    <2>5. xTasksWaitingToSend' # {} =>
             uxLength - uxMessagesWaiting' <= Cardinality(Senders')
      BY <2>1, <2>3, <2>4, SendersServed
    <2>6. CASE xTxLock = queueUNLOCKED
      <3>1. PICK list \in SUBSET xTasksWaitingToReceive :
               /\ Woken(xTasksWaitingToReceive, list, 1)
               /\ xTasksWaitingToReceive' = list
        BY <1>11, <2>6 DEF SendFromISR
      <3>2. Counted' = Counted
        BY <1>11, <2>6 DEF SendFromISR, Counted
      <3> DEFINE W == xTasksWaitingToReceive \ list
      <3>3. W \in SUBSET Tasks /\ W \cap Receivers = {}
        BY DEF TypeOK, Receivers, Looking
      <3>4. \A u \in W : /\ u \notin xTasksWaitingToSend
                         /\ request[u].kind = "receive"
                         /\ pc[u] \in {"look", "resume"}
                         /\ pc[u] = "resume" => result[u] = "pass"
        BY <2>6, <3>3 DEF ListInv, SchedulerInv
      <3>5. W \subseteq Receivers'
        BY <2>1, <3>1, <3>3, <3>4 DEF Receivers, Looking
      <3>6. xTasksWaitingToReceive' # {} => Cardinality(W) = 1
        BY <3>1, WokenCount DEF TypeOK
      <3> HIDE DEF W
      <3>7. xTasksWaitingToReceive' # {} => xTasksWaitingToReceive # {}
        BY <2>2
      <3>8. xTasksWaitingToReceive' # {} =>
               uxMessagesWaiting' <= Cardinality(Receivers') + Counted'
        BY <2>1, <2>3, <3>2, <3>3, <3>5, <3>6, <3>7, ReceiversServed
      <3>9. QED
        BY <2>5, <3>8 DEF NoLostWakeup, Receivers, Senders, Counted
    <2>7. CASE xTxLock # queueUNLOCKED
      <3>1. Counted' = Counted + 1 /\ xTasksWaitingToReceive' = xTasksWaitingToReceive
        BY <1>11, <2>7 DEF SendFromISR, Counted, TypeOK
      <3>2. xTasksWaitingToReceive' # {} =>
               uxMessagesWaiting' <= Cardinality(Receivers') + Counted'
        BY <2>1, <2>3, <2>4, <3>1, ReceiversServed
      <3>3. QED
        BY <2>5, <3>2 DEF NoLostWakeup, Receivers, Senders, Counted
    <2>8. QED
      BY <2>6, <2>7
  <1>12. CASE UNCHANGED vars
    BY <1>12 DEF vars, ring, lists, bounds, NoLostWakeup, Looking
  <1>13. QED
    BY <1>1, <1>2, <1>3, <1>4, <1>5, <1>6, <1>7, <1>8, <1>9, <1>10, <1>11,
       <1>12 DEF Next, Step

\* The queue starts empty, unlocked and with nobody waiting.
LEMMA InitInv == ASSUME Init PROVE Inv /\ NoLostWakeup
  <1> USE QueueAssumption
  <1>1. TypeOK
    <2>1. [kind |-> "receive", ticks |-> "none", item |-> NULL] \in Requests
      BY DEF Requests
    <2>2. 0 \in 0..uxLength-1 /\ uxLength-1 \in 0..uxLength-1 /\ 0 \in 0..uxLength
          /\ 0 \in 0..MaxCalls /\ 0 \in 0..MaxSignals
      BY QueueAssumption
    <2>3. QED
      BY <2>1, <2>2 DEF Init, TypeOK, Places
  <1>2. SchedulerInv /\ ListInv /\ PlaceInv /\ FailInv
    BY DEF Init, SchedulerInv, ListInv, PlaceInv, FailInv, Listed
  <1>3. NoLostWakeup
    BY DEF Init, NoLostWakeup
  <1>4. QED
    BY <1>1, <1>2, <1>3 DEF Inv

\* Every field of the queue stays in its range and every task in its place
\* (queue.c, tasks.c).
THEOREM TypeCorrect == Spec => []TypeOK
  <1>1. Init => Inv
    BY InitInv
  <1>2. Inv /\ [Next]_vars => Inv'
    BY NextType, NextStructure DEF Inv
  <1>3. Inv => TypeOK
    BY DEF Inv
  <1>4. QED
    BY <1>1, <1>2, <1>3, PTL DEF Spec

\* No task stays on an event list while the item or the place it waits for has
\* nobody coming for it: the second look and the count of the lock together
\* close the gap between the look and the event list (queue.c:1440 ff.).
THEOREM WakeupNeverLost == Spec => []NoLostWakeup
  <1>1. Init => Inv /\ NoLostWakeup
    BY InitInv
  <1>2. Inv /\ NoLostWakeup /\ [Next]_vars => (Inv /\ NoLostWakeup)'
    BY NextType, NextStructure, NextNoLostWakeup DEF Inv
  <1>3. QED
    BY <1>1, <1>2, PTL DEF Spec

-----------------------------------------------------------------------------
(* The ring is a first-in first-out buffer. *)

\* The place to write is behind the last item, counted round the ring.
RingInv == \/ pcWriteTo = pcReadFrom + 1 + uxMessagesWaiting
           \/ pcWriteTo = pcReadFrom + 1 + uxMessagesWaiting - uxLength
           \/ pcWriteTo = pcReadFrom + 1 + uxMessagesWaiting - uxLength - uxLength

LEMMA RingPlaces ==
  ASSUME NEW r \in 0..uxLength-1, NEW n \in 0..uxLength
  PROVE  \A i \in 1..n : At(r, i) \in 0..uxLength-1
  BY QueueAssumption DEF At

\* A function on 1..n is a sequence of that length.
LEMMA FunctionSeq ==
  ASSUME NEW S, NEW n \in Nat, NEW s \in [1..n -> S]
  PROVE  s \in Seq(S) /\ Len(s) = n
  <1>1. s \in Seq(S)
    BY SeqDef
  <1>2. QED
    BY <1>1, LenProperties

\* prvCopyDataToQueue puts the item behind all others ...
LEMMA CopyToAppends ==
  ASSUME TypeOK, TypeOK', RingInv, NEW item \in Items,
         uxMessagesWaiting < uxLength, prvCopyDataToQueue(item)
  PROVE  Contents' = Append(Contents, item) /\ RingInv'
  <1> USE QueueAssumption
  <1> DEFINE n == uxMessagesWaiting
  <1>1. /\ uxMessagesWaiting' = n + 1 /\ pcReadFrom' = pcReadFrom
        /\ n \in 0..uxLength /\ pcReadFrom \in 0..uxLength-1
        /\ pcWriteTo \in 0..uxLength-1 /\ uxLength \in Nat \ {0}
        /\ storage' = [storage EXCEPT ![pcWriteTo] = item]
        /\ storage \in [0..uxLength-1 -> Items \cup {NULL}]
        /\ storage' \in [0..uxLength-1 -> Items \cup {NULL}]
        /\ n + 1 \in 0..uxLength
    BY DEF TypeOK, prvCopyDataToQueue
  <1>2. RingInv'
    <2>1. pcWriteTo' = IF pcWriteTo + 1 >= uxLength THEN 0 ELSE pcWriteTo + 1
      BY DEF prvCopyDataToQueue, Following
    <2>2. QED
      BY <1>1, <2>1 DEF RingInv
  <1>3. \A i \in 1..n : At(pcReadFrom, i) # pcWriteTo
    BY <1>1 DEF RingInv, At
  <1>4. At(pcReadFrom, n + 1) = pcWriteTo
    BY <1>1 DEF RingInv, At
  <1>5. /\ Contents \in Seq(Items \cup {NULL}) /\ Len(Contents) = n
        /\ \A i \in 1..n : /\ At(pcReadFrom, i) \in 0..uxLength-1
                           /\ Contents[i] = storage[At(pcReadFrom, i)]
    <2>1. Contents = [i \in 1..n |-> storage[At(pcReadFrom, i)]]
      BY <1>1 DEF Contents
    <2>2. \A i \in 1..n : At(pcReadFrom, i) \in 0..uxLength-1
      BY <1>1, RingPlaces
    <2>3. \A i \in 1..n : storage[At(pcReadFrom, i)] \in Items \cup {NULL}
      BY <1>1, <2>2
    <2>4. Contents \in [1..n -> Items \cup {NULL}]
      BY <2>1, <2>3
    <2>5. n \in Nat
      BY <1>1
    <2>6. Contents \in Seq(Items \cup {NULL}) /\ Len(Contents) = n
      BY <2>4, <2>5, FunctionSeq
    <2>7. QED
      BY <2>1, <2>2, <2>6
  <1>6. /\ Contents' \in Seq(Items \cup {NULL}) /\ Len(Contents') = n + 1
        /\ \A i \in 1..n+1 : Contents'[i] = storage'[At(pcReadFrom, i)]
    <2>1. Contents' = [i \in 1..n+1 |-> storage'[At(pcReadFrom, i)]]
      BY <1>1 DEF Contents
    <2>2. \A i \in 1..n+1 : At(pcReadFrom, i) \in 0..uxLength-1
      BY <1>1, RingPlaces
    <2>3. \A i \in 1..n+1 : storage'[At(pcReadFrom, i)] \in Items \cup {NULL}
      BY <1>1, <2>2
    <2>4. Contents' \in [1..n+1 -> Items \cup {NULL}]
      BY <2>1, <2>3
    <2>5. n+1 \in Nat
      BY <1>1
    <2>6. Contents' \in Seq(Items \cup {NULL}) /\ Len(Contents') = n+1
      BY <2>4, <2>5, FunctionSeq
    <2>7. QED
      BY <2>1, <2>2, <2>6
  <1>7. /\ Append(Contents, item) \in Seq(Items \cup {NULL})
        /\ Len(Append(Contents, item)) = n + 1
        /\ \A i \in 1..n : Append(Contents, item)[i] = Contents[i]
        /\ Append(Contents, item)[n + 1] = item
    BY <1>5, AppendProperties
  <1>8. \A i \in 1..n+1 : Contents'[i] = Append(Contents, item)[i]
    <2>1. ASSUME NEW i \in 1..n PROVE Contents'[i] = Append(Contents, item)[i]
      BY <1>1, <1>3, <1>5, <1>6, <1>7
    <2>2. Contents'[n+1] = item
      BY <1>1, <1>4, <1>6
    <2>3. QED
      BY <1>1, <1>7, <2>1, <2>2
  <1> HIDE DEF n
  <1>9. Contents' = Append(Contents, item)
    BY <1>6, <1>7, <1>8, SeqEqual
  <1>10. QED
    BY <1>2, <1>9

\* ... and prvCopyDataFromQueue takes the first.
LEMMA CopyFromTakesHead ==
  ASSUME TypeOK, TypeOK', RingInv, NEW t \in Tasks,
         uxMessagesWaiting # 0, prvCopyDataFromQueue(t)
  PROVE  /\ Contents # <<>> /\ Contents' = Tail(Contents)
         /\ received' = [received EXCEPT ![t] = Head(Contents)]
         /\ RingInv'
  <1> USE QueueAssumption
  <1> DEFINE n == uxMessagesWaiting
             r == pcReadFrom
  <1>1. /\ uxMessagesWaiting' = n - 1 /\ n \in 1..uxLength /\ n \in 0..uxLength
        /\ n - 1 \in 0..uxLength
        /\ r \in 0..uxLength-1 /\ uxLength \in Nat \ {0}
        /\ pcReadFrom' = At(r, 1) /\ storage' = storage /\ pcWriteTo' = pcWriteTo
        /\ storage \in [0..uxLength-1 -> Items \cup {NULL}]
        /\ pcWriteTo \in 0..uxLength-1
        /\ At(r, 1) \in 0..uxLength-1
        /\ received' = [received EXCEPT ![t] = storage[At(r, 1)]]
    <2>1. r \in 0..uxLength-1 /\ n \in 0..uxLength /\ uxLength \in Nat \ {0}
      BY DEF TypeOK
    <2>2. Following(r) = At(r, 1) /\ At(r, 1) \in 0..uxLength-1
      BY <2>1 DEF Following, At
    <2>3. QED
      BY <2>1, <2>2 DEF TypeOK, prvCopyDataFromQueue
  <1>2. RingInv'
    BY <1>1 DEF RingInv, At
  <1>3. /\ Contents \in Seq(Items \cup {NULL}) /\ Len(Contents) = n
        /\ \A i \in 1..n : Contents[i] = storage[At(r, i)]
    <2>1. Contents = [i \in 1..n |-> storage[At(r, i)]]
      BY <1>1 DEF Contents
    <2>2. \A i \in 1..n : At(r, i) \in 0..uxLength-1
      BY <1>1, RingPlaces
    <2>3. \A i \in 1..n : storage[At(r, i)] \in Items \cup {NULL}
      BY <1>1, <2>2
    <2>4. Contents \in [1..n -> Items \cup {NULL}]
      BY <2>1, <2>3
    <2>5. n \in Nat
      BY <1>1
    <2>6. Contents \in Seq(Items \cup {NULL}) /\ Len(Contents) = n
      BY <2>4, <2>5, FunctionSeq
    <2>7. QED
      BY <2>1, <2>2, <2>6
  <1>4. /\ Contents' \in Seq(Items \cup {NULL}) /\ Len(Contents') = n - 1
        /\ \A i \in 1..n-1 : Contents'[i] = storage[At(At(r, 1), i)]
    <2>1. Contents' = [i \in 1..n-1 |-> storage[At(At(r, 1), i)]]
      BY <1>1 DEF Contents
    <2>2. \A i \in 1..n-1 : At(At(r, 1), i) \in 0..uxLength-1
      BY <1>1, RingPlaces
    <2>3. \A i \in 1..n-1 : storage[At(At(r, 1), i)] \in Items \cup {NULL}
      BY <1>1, <2>2
    <2>4. Contents' \in [1..n-1 -> Items \cup {NULL}]
      BY <2>1, <2>3
    <2>5. n-1 \in Nat
      BY <1>1
    <2>6. Contents' \in Seq(Items \cup {NULL}) /\ Len(Contents') = n-1
      BY <2>4, <2>5, FunctionSeq
    <2>7. QED
      BY <2>1, <2>2, <2>6
  <1>5. \A i \in 1..n-1 : At(At(r, 1), i) = At(r, i + 1)
    BY <1>1 DEF At
  <1>6. Contents # <<>>
    BY <1>1, <1>3, EmptySeq
  <1>7. /\ Tail(Contents) \in Seq(Items \cup {NULL})
        /\ Len(Tail(Contents)) = n - 1
        /\ \A i \in 1..n-1 : Tail(Contents)[i] = Contents[i + 1]
    BY <1>3, <1>6, HeadTailProperties
  <1>8. Head(Contents) = storage[At(r, 1)]
    BY <1>1, <1>3
  <1>9. \A i \in 1..n-1 : Contents'[i] = Tail(Contents)[i]
    BY <1>1, <1>3, <1>4, <1>5, <1>7
  <1> HIDE DEF n, r
  <1>10. Contents' = Tail(Contents)
    BY <1>4, <1>7, <1>9, SeqEqual
  <1>11. QED
    BY <1>1, <1>2, <1>6, <1>8, <1>10

\* The number of items is uxMessagesWaiting.
LEMMA ContentsLength ==
  ASSUME TypeOK
  PROVE  Len(Contents) = uxMessagesWaiting /\ (Contents = <<>> <=> uxMessagesWaiting = 0)
  <1>1. Contents = [i \in 1..uxMessagesWaiting |-> storage[At(pcReadFrom, i)]]
    BY DEF Contents
  <1>2. uxMessagesWaiting \in 0..uxLength /\ pcReadFrom \in 0..uxLength-1
        /\ uxMessagesWaiting \in Nat
    BY QueueAssumption DEF TypeOK
  <1>3. \A i \in 1..uxMessagesWaiting : storage[At(pcReadFrom, i)] \in Items \cup {NULL}
    BY <1>2, RingPlaces DEF TypeOK
  <1>4. Contents \in [1..uxMessagesWaiting -> Items \cup {NULL}]
    BY <1>1, <1>3
  <1>5. Contents \in Seq(Items \cup {NULL}) /\ Len(Contents) = uxMessagesWaiting
    BY <1>2, <1>4, FunctionSeq
  <1>6. QED
    BY <1>5, EmptySeq

-----------------------------------------------------------------------------
(* The queue implements BoundedChannel. *)

Status == [t \in Tasks |-> IF pc[t] = "idle" THEN result[t] ELSE "running"]

ChannelStep == Channel!Next \/ UNCHANGED <<Contents, request, Status, received>>

\* The step of the queue that returns is the step of the channel; a failed call
\* with a time-out fails in xTaskResumeAll.
LEMMA NextChannel ==
  ASSUME Inv, RingInv, [Next]_vars, TypeOK'
  PROVE  ChannelStep /\ RingInv'
  <1> USE QueueAssumption DEF Inv
  <1>1. ASSUME UNCHANGED ring PROVE Contents' = Contents /\ RingInv'
    BY <1>1 DEF ring, Contents, RingInv
  <1>2. Contents = <<>> <=> uxMessagesWaiting = 0
    BY ContentsLength
  <1>3. Len(Contents) = uxMessagesWaiting
    BY ContentsLength
  <1>4. ASSUME NEW t \in Tasks, Call(t) PROVE ChannelStep /\ RingInv'
    <2>1. Status[t] # "running"
      BY <1>4 DEF Call, Status, TypeOK
    <2>2. Status' = [Status EXCEPT ![t] = "running"]
      BY <1>4 DEF Call, Goto, Status, TypeOK
    <2>3. Channel!Begin(t)
      BY <1>1, <1>4, <2>1, <2>2 DEF Channel!Begin, Call, Status
    <2>4. QED
      BY <1>1, <1>4, <2>3 DEF ChannelStep, Channel!Next, Call
  <1>5. ASSUME NEW t \in Tasks, Send(t) PROVE ChannelStep /\ RingInv'
    <2>1. /\ request[t] \in Requests /\ request[t].kind = "send"
          /\ uxMessagesWaiting < uxLength /\ prvCopyDataToQueue(request[t].item)
          /\ pc[t] = "look" /\ UNCHANGED <<request, received>>
      BY <1>5 DEF TypeOK, Send, Unable
    <2>2. request[t].item \in Items
      BY <2>1, RequestsKind
    <2>3. Contents' = Append(Contents, request[t].item) /\ RingInv'
      BY <2>1, <2>2, CopyToAppends
    <2>4. Status[t] = "running" /\ Status' = [Status EXCEPT ![t] = "pass"]
      BY <1>5, <2>1 DEF Send, Return, Goto, Status, TypeOK
    <2>5. Channel!Put(t)
      BY <1>3, <2>1, <2>3, <2>4 DEF Channel!Put, Channel!Finish, Status
    <2>6. QED
      BY <2>3, <2>5 DEF ChannelStep, Channel!Next
  <1>6. ASSUME NEW t \in Tasks, Receive(t) PROVE ChannelStep /\ RingInv'
    <2>1. /\ request[t].kind = "receive" /\ uxMessagesWaiting # 0
          /\ prvCopyDataFromQueue(t) /\ pc[t] = "look" /\ UNCHANGED request
      BY <1>6 DEF Receive, Unable
    <2>2. /\ Contents # <<>> /\ Contents' = Tail(Contents)
          /\ received' = [received EXCEPT ![t] = Head(Contents)]
          /\ RingInv'
      BY <2>1, CopyFromTakesHead
    <2>3. Status[t] = "running" /\ Status' = [Status EXCEPT ![t] = "pass"]
      BY <1>6, <2>1 DEF Receive, Return, Goto, Status, TypeOK
    <2>4. Channel!Get(t)
      BY <2>1, <2>2, <2>3 DEF Channel!Get, Channel!Finish, Status
    <2>5. QED
      BY <2>2, <2>4 DEF ChannelStep, Channel!Next
  <1>7. ASSUME NEW t \in Tasks, Refuse(t) PROVE ChannelStep /\ RingInv'
    <2>1. /\ request[t].ticks = "none" /\ pc[t] = "look"
          /\ IF request[t].kind = "send" THEN Len(Contents) = uxLength
                                         ELSE Contents = <<>>
          /\ UNCHANGED <<ring, request, received>>
      BY <1>2, <1>3, <1>7 DEF Refuse, Unable
    <2>2. Status[t] = "running" /\ Status' = [Status EXCEPT ![t] = "fail"]
      BY <1>7 DEF Refuse, Return, Goto, Status, TypeOK
    <2>3. Channel!Fail(t)
      BY <1>1, <2>1, <2>2 DEF Channel!Fail, Channel!Finish, Status
    <2>4. QED
      BY <1>1, <2>1, <2>3 DEF ChannelStep, Channel!Next
  <1>8. ASSUME NEW t \in Tasks, ResumeAll(t) PROVE ChannelStep /\ RingInv'
    <2>1. pc[t] = "resume" /\ UNCHANGED <<ring, request, result>>
      BY <1>8 DEF ResumeAll
    <2>2. CASE result[t] = "fail"
      <3>1. request[t].ticks = "finite" /\ request[t].kind = "receive"
        BY <2>1, <2>2, RequestsKind DEF FailInv, TypeOK
      <3>2. Status[t] = "running" /\ Status' = [Status EXCEPT ![t] = "fail"]
        BY <1>8, <2>1, <2>2 DEF ResumeAll, Goto, Status, TypeOK
      <3>3. received' = [received EXCEPT ![t] = NULL]
        BY <1>8, <2>2 DEF ResumeAll
      <3>4. Channel!Fail(t)
        BY <1>1, <2>1, <3>1, <3>2, <3>3 DEF Channel!Fail, Channel!Finish, Status
      <3>5. QED
        BY <1>1, <2>1, <3>4 DEF ChannelStep, Channel!Next
    <2>3. CASE result[t] # "fail"
      <3>1. Status' = Status /\ received' = received
        BY <1>8, <2>1, <2>3 DEF ResumeAll, Goto, Status, TypeOK
      <3>2. QED
        BY <1>1, <2>1, <3>1 DEF ChannelStep
    <2>4. QED
      BY <2>2, <2>3
  <1>9. ASSUME NEW t \in Tasks,
               LeaveCritical(t) \/ Suspend(t) \/ Test(t) \/ Place(t) \/ prvUnlockQueue(t)
        PROVE ChannelStep /\ RingInv'
    <2>1. /\ pc[t] # "idle" /\ pc'[t] # "idle" /\ UNCHANGED <<ring, request, received>>
          /\ \A u \in Tasks \ {t} : pc'[u] = pc[u] /\ result'[u] = result[u]
      BY <1>9 DEF LeaveCritical, Suspend, Test, Place, prvUnlockQueue, Goto, TypeOK
    <2>2. Status' = Status
      BY <2>1 DEF Status
    <2>3. QED
      BY <1>1, <2>1, <2>2 DEF ChannelStep
  <1>10. ASSUME NEW t \in Tasks, TimeOut(t) PROVE ChannelStep /\ RingInv'
    BY <1>1, <1>10 DEF TimeOut, ChannelStep, Status
  <1>11. ASSUME SendFromISR PROVE ChannelStep /\ RingInv'
    <2>1. PICK item \in Items : prvCopyDataToQueue(item)
      BY <1>11 DEF SendFromISR
    <2>2. uxMessagesWaiting < uxLength /\ UNCHANGED <<request, pc, result, received>>
      BY <1>11 DEF SendFromISR
    <2>3. Contents' = Append(Contents, item) /\ RingInv'
      BY <2>1, <2>2, CopyToAppends
    <2>4. Status' = Status
      BY <2>2 DEF Status
    <2>5. Channel!Signal
      BY <1>3, <2>2, <2>3, <2>4 DEF Channel!Signal, Status
    <2>6. QED
      BY <2>3, <2>5 DEF ChannelStep, Channel!Next
  <1>12. CASE UNCHANGED vars
    BY <1>1, <1>12 DEF vars, ChannelStep, Status
  <1>13. QED
    BY <1>4, <1>5, <1>6, <1>7, <1>8, <1>9, <1>10, <1>11, <1>12 DEF Next, Step

\* A FreeRTOS queue, with its looks, locks and event lists, is a bounded
\* first-in first-out buffer whose calls each take effect at one moment.
THEOREM QueueIsChannel == Spec => ImplementsChannel
  <1>1. Init => Inv /\ RingInv /\ Channel!Init
    <2> SUFFICES ASSUME Init PROVE Inv /\ RingInv /\ Channel!Init
      OBVIOUS
    <2>1. Inv
      BY InitInv
    <2>2. RingInv
      BY QueueAssumption DEF Init, RingInv
    <2>3. Contents = <<>>
      BY <2>1, ContentsLength DEF Init, Inv
    <2>4. request \in [Tasks -> Requests]
      BY <2>1 DEF Inv, TypeOK
    <2>5. Status = [t \in Tasks |-> "pass"]
      BY DEF Init, Status
    <2>6. Channel!Init
      BY <2>3, <2>4, <2>5 DEF Init, Channel!Init, Status
    <2>7. QED
      BY <2>1, <2>2, <2>6
  <1>2. Inv /\ RingInv /\ [Next]_vars => (Inv /\ RingInv)' /\ [Channel!Next]_(Channel!channelVars)
    <2> SUFFICES ASSUME Inv, RingInv, [Next]_vars
                 PROVE  (Inv /\ RingInv)' /\ [Channel!Next]_(Channel!channelVars)
      OBVIOUS
    <2>1. TypeOK'
      BY NextType
    <2>2. Inv'
      BY <2>1, NextStructure DEF Inv
    <2>3. ChannelStep /\ RingInv'
      BY <2>1, NextChannel
    <2>4. QED
      BY <2>2, <2>3 DEF ChannelStep, Channel!channelVars, Status
  <1>3. QED
    BY <1>1, <1>2, PTL DEF Spec, ImplementsChannel, Channel!Spec
=============================================================================
