--------------------------- MODULE BoundedChannel ---------------------------
(***************************************************************************)
(* What the tasks of the program take a FreeRTOS queue for (a mailbox of   *)
(* LwIP/port/sys_arch.c, a semaphore): a first-in first-out buffer of      *)
(* bounded size.  A call takes effect at one moment between its start and  *)
(* its return.  A call that waits for ever never fails, and one that does  *)
(* not wait fails only if the buffer could not serve it at that moment.    *)
(* RTOSQueue implements this module.                                       *)
(***************************************************************************)
EXTENDS Integers, Sequences

CONSTANTS Tasks, Items, NULL, uxLength, Requests

VARIABLES
    contents,   \* the items in the buffer, oldest first
    request,    \* the call a task makes, or has made if it is idle
    status,     \* "running", "pass" or "fail"
    received    \* what the last fetch of a task returned

channelVars == <<contents, request, status, received>>

Init ==
    /\ contents = <<>>
    /\ request \in [Tasks -> Requests]
    /\ status = [t \in Tasks |-> "pass"]
    /\ received = [t \in Tasks |-> NULL]

Begin(t) ==
    /\ status[t] # "running"
    /\ \E r \in Requests : request' = [request EXCEPT ![t] = r]
    /\ status' = [status EXCEPT ![t] = "running"]
    /\ UNCHANGED <<contents, received>>

Finish(t, result) ==
    /\ status[t] = "running"
    /\ status' = [status EXCEPT ![t] = result]
    /\ UNCHANGED request

Put(t) ==
    /\ request[t].kind = "send"
    /\ Len(contents) < uxLength
    /\ contents' = Append(contents, request[t].item)
    /\ Finish(t, "pass")
    /\ UNCHANGED received

Get(t) ==
    /\ request[t].kind = "receive"
    /\ contents # <<>>
    /\ contents' = Tail(contents)
    /\ received' = [received EXCEPT ![t] = Head(contents)]
    /\ Finish(t, "pass")

\* A fetch that times out returns NULL, one that does not wait leaves what
\* the caller had.
Fail(t) ==
    /\ \/ request[t].ticks = "finite"
       \/ /\ request[t].ticks = "none"
          /\ IF request[t].kind = "send" THEN Len(contents) = uxLength
                                         ELSE contents = <<>>
    /\ Finish(t, "fail")
    /\ received' = IF request[t].kind = "receive" /\ request[t].ticks = "finite"
                   THEN [received EXCEPT ![t] = NULL] ELSE received
    /\ UNCHANGED contents

\* an interrupt handler puts an item in, or finds no room
Signal ==
    /\ Len(contents) < uxLength
    /\ \E item \in Items : contents' = Append(contents, item)
    /\ UNCHANGED <<request, status, received>>

Next == Signal \/ \E t \in Tasks : Begin(t) \/ Put(t) \/ Get(t) \/ Fail(t)

Spec == Init /\ [][Next]_channelVars
=============================================================================
