----------------------------- MODULE MQTTClient -----------------------------
(***************************************************************************)
(* The MQTT client of mqtt/MQTTClient.c, built with MQTT_TASK              *)
(* (mqtt/MQTTPlatform.h:16): application tasks and the background task     *)
(* MQTTRun share one MQTTClient and take its FreeRTOS mutex around every   *)
(* operation.  An operation is several steps here, because the broker, the *)
(* clock and the other tasks run between them: take the mutex, send the    *)
(* request, then waitfor() runs cycle() again and again until the awaited  *)
(* type of packet was read or the timer of the operation expired.  One     *)
(* cycle() is: read a packet, dispatch it, keepalive().                    *)
(*                                                                         *)
(* A packet is read and written as a whole.                                *)
(***************************************************************************)
EXTENDS MQTTPackets, Sequences, FiniteSets

CONSTANTS
    Apps,                   \* the application tasks that use the client
    RunTask,                \* the task MQTTStartTask creates
    NoTask,                 \* owner of a free mutex
    MAX_MESSAGE_HANDLERS,   \* MQTTClient.h:52, 5 in the program
    KeepAlive,              \* MQTTPacket_connectData.keepAliveInterval
    Transport,              \* "lwip" (NetworkConnect) or "tls" (TLSConnect)
    Kinds,                  \* the operations the application tasks call
    MaxCalls                \* bound: number of calls in a behaviour

OperationKinds == {"connect", "subscribe", "unsubscribe", "publish",
                   "disconnect", "yield"}

ASSUME ClientAssumption ==
    /\ RunTask \notin Apps /\ NoTask \notin Apps \cup {RunTask}
    /\ MAX_MESSAGE_HANDLERS \in Nat \ {0}
    /\ KeepAlive \in Nat
    /\ Transport \in {"lwip", "tls"}
    /\ Kinds \subseteq OperationKinds
    /\ MaxCalls \in Nat

Tasks == Apps \cup {RunTask}
Slots == 1..MAX_MESSAGE_HANDLERS

MQTT_FAILURE == -1
MQTT_SUCCESS == 0
ReturnCodes == {MQTT_FAILURE} \cup Codes

Operations == [kind : OperationKinds, topic : Topics \cup {NoTopic},
               qos : QoS, id : Ids, rc : ReturnCodes]

VARIABLES
    \* struct MQTTClient
    mutex,              \* the task that holds c->mutex, or NoTask
    isconnected, ping_outstanding, next_packetid, keepAliveInterval,
    ping_timer,         \* has c->ping_timer expired?
    messageHandlers,    \* topic filter of each slot, NoTopic when it is free
    packet,             \* the packet in c->readbuf, NoPacket if the read failed
    \* the tasks
    pc, op,             \* where a task is, and the operation it runs
    timer,              \* has the timer on the task's stack expired?
    \* the connection
    toBroker, toClient, peer,
    \* bound and history
    calls,              \* calls made so far, at most MaxCalls
    gaveUp,             \* has an operation returned without its answer?
    delivered           \* topic -> number of handler calls

client == <<isconnected, ping_outstanding, next_packetid, keepAliveInterval,
            ping_timer, messageHandlers>>
history == <<calls, gaveUp, delivered>>
vars == <<mutex, client, packet, pc, op, timer, toBroker, toClient, peer,
          history>>

\* A task in one of these places is between MutexLock and MutexUnlock, unless
\* it runs MQTTYield, which takes no mutex.
Busy == {"send", "check", "read", "dispatch", "keepalive", "finish", "exit"}

TypeOK ==
    /\ mutex \in Tasks \cup {NoTask}
    /\ isconnected \in BOOLEAN
    /\ ping_outstanding \in BOOLEAN
    /\ next_packetid \in 1..MAX_PACKET_ID
    /\ keepAliveInterval \in Nat
    /\ ping_timer \in BOOLEAN
    /\ messageHandlers \in [Slots -> Topics \cup {NoTopic}]
    /\ packet \in Packets
    /\ pc \in [Tasks -> Busy \cup {"idle", "lock"}]
    /\ op \in [Tasks -> Operations]
    /\ timer \in [Tasks -> BOOLEAN]
    /\ toBroker \in Seq(Packets)
    /\ toClient \in Seq(Packets)
    /\ peer \in {"open", "closed"}
    /\ calls \in 0..MaxCalls
    /\ gaveUp \in BOOLEAN
    /\ delivered \in [Topics -> Nat]

-----------------------------------------------------------------------------
(* Helpers *)

NoOperation == [kind |-> "yield", topic |-> NoTopic, qos |-> 0, id |-> 0,
                rc |-> MQTT_FAILURE]

\* MQTTClientInit.  keepAliveInterval is not set there: it is whatever the
\* struct held before the first MQTTConnect.  TimerInit leaves a timer that
\* reads as expired.
Init ==
    /\ mutex = NoTask
    /\ isconnected = FALSE
    /\ ping_outstanding = FALSE
    /\ next_packetid = 1
    /\ keepAliveInterval \in {0, KeepAlive}
    /\ ping_timer = TRUE
    /\ messageHandlers = [i \in Slots |-> NoTopic]
    /\ packet = NoPacket
    /\ pc = [t \in Tasks |-> "idle"]
    /\ op = [t \in Tasks |-> NoOperation]
    /\ timer = [t \in Tasks |-> FALSE]
    /\ toBroker = <<>>
    /\ toClient = <<>>
    /\ peer = "open"
    /\ calls = 0
    /\ gaveUp = FALSE
    /\ delivered = [p \in Topics |-> 0]

\* Operators whose name ends in _Fault are the definition after them with a
\* slip in it; no action uses them.  Each is what one of the properties guards
\* against.

\* getNextPacketId without the wrap
getNextPacketId_Fault == next_packetid + 1

getNextPacketId == IF next_packetid = MAX_PACKET_ID THEN 1 ELSE next_packetid + 1

\* the calls an application makes
Requests ==
    [kind : Kinds \cap {"yield"}, topic : {NoTopic},
     qos : {0}, id : {0}, rc : {MQTT_SUCCESS}]
    \cup
    [kind : Kinds \cap {"connect", "disconnect"}, topic : {NoTopic},
     qos : {0}, id : {0}, rc : {MQTT_FAILURE}]
    \cup
    [kind : Kinds \cap {"subscribe", "unsubscribe"}, topic : Topics,
     qos : {0}, id : {0}, rc : {MQTT_FAILURE}]
    \cup
    [kind : Kinds \cap {"publish"}, topic : {NoTopic},
     qos : QoS, id : {0}, rc : {MQTT_FAILURE}]

NeedsId(o) == \/ o.kind \in {"subscribe", "unsubscribe"}
              \/ o.kind = "publish" /\ o.qos # 0

\* the id before getNextPacketId in place of the one it returns
Request_Fault(o, id) ==
    Packet(CASE o.kind = "connect" -> "CONNECT"
             [] o.kind = "subscribe" -> "SUBSCRIBE"
             [] o.kind = "unsubscribe" -> "UNSUBSCRIBE"
             [] o.kind = "publish" -> "PUBLISH"
             [] OTHER -> "DISCONNECT",
           IF id = 0 THEN 0 ELSE next_packetid, o.topic,
           IF o.kind \in {"subscribe", "publish"} THEN o.qos ELSE 0)

\* the packet an operation sends ...
Request(o, id) ==
    CASE o.kind = "connect" -> Plain("CONNECT")
      [] o.kind = "subscribe" -> Packet("SUBSCRIBE", id, o.topic, o.qos)
      [] o.kind = "unsubscribe" -> Packet("UNSUBSCRIBE", id, o.topic, 0)
      [] o.kind = "publish" -> Packet("PUBLISH", id, o.topic, o.qos)
      [] OTHER -> Plain("DISCONNECT")

\* ... and the type of packet it then waits for
Awaited(o) ==
    CASE o.kind = "connect" -> "CONNACK"
      [] o.kind = "subscribe" -> "SUBACK"
      [] o.kind = "unsubscribe" -> "UNSUBACK"
      [] o.kind = "publish" /\ o.qos = 1 -> "PUBACK"
      [] o.kind = "publish" /\ o.qos = 2 -> "PUBCOMP"
      [] OTHER -> NoType

\* the test at the head of an operation
Permitted(o) ==
    CASE o.kind = "connect" -> ~isconnected
      [] o.kind = "disconnect" -> TRUE
      [] OTHER -> isconnected

Goto(t, place) == pc' = [pc EXCEPT ![t] = place]
SetResult(t, rc) == op' = [op EXCEPT ![t].rc = rc]

\* sendPacket with all bytes written: what a closed peer is sent is lost, and
\* the keepalive countdown starts again (an interval of 0 expires at once).
sendPacket(p, interval) ==
    /\ toBroker' = IF peer = "open" THEN Append(toBroker, p) ELSE toBroker
    /\ ping_timer' = (interval = 0)

-----------------------------------------------------------------------------
(* Operations: entry, mutex, request *)

\* An application task starts the background task, once.
MQTTStartTask ==
    /\ pc[RunTask] = "idle"
    /\ \E t \in Apps : pc[t] = "idle"
    /\ Goto(RunTask, "lock")
    /\ UNCHANGED <<mutex, client, packet, op, timer, toBroker, toClient, peer,
                   history>>

\* MQTTYield "should not be called" once the background task runs
\* (MQTTClient.h:180); before, only a task that is alone may call it.
Call(t) ==
    /\ pc[t] = "idle" /\ t # RunTask
    /\ calls < MaxCalls
    /\ \E r \in Requests :
          /\ r.kind = "yield" => pc[RunTask] = "idle" /\ Apps = {t}
          /\ op' = [op EXCEPT ![t] = r]
          /\ Goto(t, IF r.kind = "yield" THEN "read" ELSE "lock")
    /\ timer' = [timer EXCEPT ![t] = FALSE]
    /\ calls' = calls + 1
    /\ UNCHANGED <<mutex, client, packet, toBroker, toClient, peer, gaveUp,
                   delivered>>

\* a lock that lets everybody in
MutexLock_Fault(t) ==
    /\ pc[t] = "lock"
    /\ mutex' = t
    /\ timer' = [timer EXCEPT ![t] = FALSE]
    /\ Goto(t, IF t = RunTask THEN "read" ELSE "send")
    /\ UNCHANGED <<client, packet, op, toBroker, toClient, peer, history>>

\* MutexLock, and TimerCountdownMS of the timer of the operation or cycle
MutexLock(t) ==
    /\ pc[t] = "lock"
    /\ mutex = NoTask
    /\ mutex' = t
    /\ timer' = [timer EXCEPT ![t] = FALSE]
    /\ Goto(t, IF t = RunTask THEN "read" ELSE "send")
    /\ UNCHANGED <<client, packet, op, toBroker, toClient, peer, history>>

\* an early return that leaves out the unlock
Refuse_Fault(t) ==
    /\ pc[t] = "send"
    /\ ~Permitted(op[t])
    /\ Goto(t, "idle")
    /\ UNCHANGED <<mutex, client, packet, op, timer, toBroker, toClient, peer,
                   history>>

Refuse(t) ==
    /\ pc[t] = "send"
    /\ ~Permitted(op[t])
    /\ Goto(t, "exit")
    /\ UNCHANGED <<mutex, client, packet, op, timer, toBroker, toClient, peer,
                   history>>

\* An operation serialises its request and sends it.  The packet id is used
\* up even if the send fails; MQTTDisconnect clears isconnected either way;
\* MQTTConnect takes over the keepalive interval first.
SendRequest(t) ==
    LET o == op[t]
        id == IF NeedsId(o) THEN getNextPacketId ELSE 0
        interval == IF o.kind = "connect" THEN KeepAlive ELSE keepAliveInterval
    IN  /\ pc[t] = "send"
        /\ Permitted(o)
        /\ next_packetid' = IF NeedsId(o) THEN id ELSE next_packetid
        /\ isconnected' = (isconnected /\ o.kind # "disconnect")
        /\ keepAliveInterval' = interval
        /\ \/ /\ ~timer[t]
              /\ sendPacket(Request(o, id), interval)
              /\ op' = [op EXCEPT ![t].id = id, ![t].rc = MQTT_SUCCESS]
              /\ Goto(t, IF Awaited(o) = NoType THEN "exit" ELSE "check")
           \/ /\ ping_timer' = IF o.kind = "connect" THEN KeepAlive = 0
                                                     ELSE ping_timer
              /\ op' = [op EXCEPT ![t].id = id]
              /\ Goto(t, "exit")
              /\ UNCHANGED toBroker
        /\ UNCHANGED <<mutex, ping_outstanding, messageHandlers, packet, timer,
                       toClient, peer, history>>

-----------------------------------------------------------------------------
(* waitfor and cycle *)

\* a wait without its time-out
KeepWaiting_Fault(t) ==
    /\ pc[t] = "check"
    /\ Goto(t, "read")
    /\ UNCHANGED <<mutex, client, packet, op, timer, toBroker, toClient, peer,
                   history>>

\* the head of the loop of waitfor
KeepWaiting(t) ==
    /\ pc[t] = "check"
    /\ ~timer[t]
    /\ Goto(t, "read")
    /\ UNCHANGED <<mutex, client, packet, op, timer, toBroker, toClient, peer,
                   history>>

GiveUp(t) ==
    /\ pc[t] = "check"
    /\ timer[t]
    /\ SetResult(t, MQTT_FAILURE)
    /\ Goto(t, "exit")
    /\ gaveUp' = TRUE
    /\ UNCHANGED <<mutex, client, packet, timer, toBroker, toClient, peer,
                   calls, delivered>>

readPacket(t) ==
    /\ pc[t] = "read"
    /\ toClient # <<>>
    /\ packet' = Head(toClient)
    /\ toClient' = Tail(toClient)
    /\ Goto(t, "dispatch")
    /\ UNCHANGED <<mutex, client, op, timer, toBroker, peer, history>>

\* Nothing arrives before the receive timeout, or the read fails.  LwIP_read
\* never returns once the peer has closed: recv yields 0 or ECONNRESET or
\* ENOTCONN, and its loop goes on for all three.
readFails(t) ==
    /\ pc[t] = "read"
    /\ toClient = <<>>
    /\ peer = "open" \/ Transport = "tls"
    /\ packet' = NoPacket
    /\ Goto(t, "keepalive")
    /\ UNCHANGED <<mutex, client, op, timer, toBroker, toClient, peer, history>>

\* where a task goes when cycle returns rc
AfterCycle(t, rc) ==
    CASE t = RunTask -> "exit"
      [] t # RunTask /\ op[t].kind = "yield" ->
            IF rc = "FAILURE" \/ timer[t] THEN "exit" ELSE "read"
      [] OTHER -> IF rc = Awaited(op[t]) THEN "finish" ELSE "check"

\* An answer sent from inside cycle, on the timer of the operation.  When it
\* fails, cycle returns MQTT_FAILURE at once and skips keepalive.
SendAnswer(t, p) ==
    \/ /\ ~timer[t]
       /\ sendPacket(p, keepAliveInterval)
       /\ Goto(t, "keepalive")
       /\ UNCHANGED op
    \/ /\ SetResult(t, MQTT_FAILURE)
       /\ Goto(t, AfterCycle(t, "FAILURE"))
       /\ UNCHANGED <<toBroker, ping_timer>>

\* a call for each of the two tests (equal, matched) instead of one for either
deliverMessage_Fault(topic) ==
    delivered' = [delivered EXCEPT ![topic] =
                     @ + 2 * Cardinality({i \in Slots : messageHandlers[i] = topic})]

\* deliverMessage calls the handler of every slot whose filter matches.  The
\* client has no default handler (MQTTClientInit sets none).
deliverMessage(topic) ==
    delivered' = [delivered EXCEPT ![topic] =
                     @ + Cardinality({i \in Slots : messageHandlers[i] = topic})]

DispatchPublish(t) ==
    /\ pc[t] = "dispatch"
    /\ packet.type = "PUBLISH"
    /\ deliverMessage(packet.topic)
    /\ IF packet.code = 0
       THEN Goto(t, "keepalive") /\ UNCHANGED <<toBroker, ping_timer, op>>
       ELSE SendAnswer(t, Ack(IF packet.code = 1 THEN "PUBACK" ELSE "PUBREC",
                              packet.id))
    /\ UNCHANGED <<mutex, isconnected, ping_outstanding, next_packetid,
                   keepAliveInterval, messageHandlers, packet, timer,
                   toClient, peer, calls, gaveUp>>

DispatchPubrec(t) ==
    /\ pc[t] = "dispatch"
    /\ packet.type = "PUBREC"
    /\ SendAnswer(t, Ack("PUBREL", packet.id))
    /\ UNCHANGED <<mutex, isconnected, ping_outstanding, next_packetid,
                   keepAliveInterval, messageHandlers, packet, timer,
                   toClient, peer, history>>

\* PINGRESP ends the ping; every other type (an acknowledgement, or one the
\* switch has no case for, such as PUBREL) changes nothing.
DispatchOther(t) ==
    /\ pc[t] = "dispatch"
    /\ packet.type \notin {"PUBLISH", "PUBREC"}
    /\ ping_outstanding' = (ping_outstanding /\ packet.type # "PINGRESP")
    /\ Goto(t, "keepalive")
    /\ UNCHANGED <<mutex, isconnected, next_packetid, keepAliveInterval,
                   ping_timer, messageHandlers, packet, op, timer, toBroker,
                   toClient, peer, history>>

\* a ping although the last one is not answered
PingDue_Fault == keepAliveInterval # 0 /\ ping_timer

PingDue == keepAliveInterval # 0 /\ ping_timer /\ ~ping_outstanding

\* keepalive, whose result cycle ignores, then the return of cycle
keepalive(t) ==
    /\ pc[t] = "keepalive"
    /\ \/ /\ PingDue
          /\ sendPacket(Plain("PINGREQ"), keepAliveInterval)
          /\ ping_outstanding' = TRUE
       \/ UNCHANGED <<toBroker, ping_timer, ping_outstanding>>
    /\ Goto(t, AfterCycle(t, packet.type))
    /\ UNCHANGED <<mutex, isconnected, next_packetid, keepAliveInterval,
                   messageHandlers, packet, op, timer, toClient, peer, history>>

-----------------------------------------------------------------------------
(* Operations: the awaited answer, and the return *)

\* connected whatever the CONNACK says
FinishConnect_Fault(t) ==
    /\ pc[t] = "finish" /\ op[t].kind = "connect"
    /\ isconnected' = TRUE
    /\ SetResult(t, packet.code)
    /\ Goto(t, "exit")
    /\ UNCHANGED <<mutex, ping_outstanding, next_packetid, keepAliveInterval,
                   ping_timer, messageHandlers, packet, timer, toBroker,
                   toClient, peer, history>>

FinishConnect(t) ==
    /\ pc[t] = "finish" /\ op[t].kind = "connect"
    /\ isconnected' = (packet.code = 0)
    /\ SetResult(t, packet.code)
    /\ Goto(t, "exit")
    /\ UNCHANGED <<mutex, ping_outstanding, next_packetid, keepAliveInterval,
                   ping_timer, messageHandlers, packet, timer, toBroker,
                   toClient, peer, history>>

FirstFree(i) == /\ messageHandlers[i] = NoTopic
                /\ \A j \in Slots : j < i => messageHandlers[j] # NoTopic

\* A refused subscription, and one that finds the table full, return the code
\* of the SUBACK.
FinishSubscribe(t) ==
    /\ pc[t] = "finish" /\ op[t].kind = "subscribe"
    /\ \/ /\ packet.code # SUBACK_REFUSED
          /\ \E i \in Slots :
                /\ FirstFree(i)
                /\ messageHandlers' = [messageHandlers EXCEPT ![i] = op[t].topic]
          /\ SetResult(t, MQTT_SUCCESS)
       \/ /\ packet.code = SUBACK_REFUSED
             \/ \A i \in Slots : messageHandlers[i] # NoTopic
          /\ SetResult(t, packet.code)
          /\ UNCHANGED messageHandlers
    /\ Goto(t, "exit")
    /\ UNCHANGED <<mutex, isconnected, ping_outstanding, next_packetid,
                   keepAliveInterval, ping_timer, packet, timer, toBroker,
                   toClient, peer, history>>

\* MQTTUnsubscribe and MQTTPublish: rc is 0 since the send; no handler is
\* removed, and the packet id in the answer is not looked at.
FinishOther(t) ==
    /\ pc[t] = "finish" /\ op[t].kind \in {"unsubscribe", "publish"}
    /\ SetResult(t, MQTT_SUCCESS)
    /\ Goto(t, "exit")
    /\ UNCHANGED <<mutex, client, packet, timer, toBroker, toClient, peer,
                   history>>

\* MutexUnlock and return; MQTTRun starts over.
Return(t) ==
    /\ pc[t] = "exit"
    /\ mutex' = IF mutex = t THEN NoTask ELSE mutex
    /\ Goto(t, IF t = RunTask THEN "lock" ELSE "idle")
    /\ UNCHANGED <<client, packet, op, timer, toBroker, toClient, peer, history>>

Step(t) ==
    \/ MutexLock(t) \/ Refuse(t) \/ SendRequest(t)
    \/ KeepWaiting(t) \/ GiveUp(t) \/ readPacket(t) \/ readFails(t)
    \/ DispatchPublish(t) \/ DispatchPubrec(t) \/ DispatchOther(t)
    \/ keepalive(t)
    \/ FinishConnect(t) \/ FinishSubscribe(t) \/ FinishOther(t)
    \/ Return(t)

-----------------------------------------------------------------------------
(* Time *)

\* The countdown of a task that is inside waitfor or cycle runs out.
TimerExpires(t) ==
    /\ pc[t] \in {"check", "read", "dispatch", "keepalive"}
    /\ ~timer[t]
    /\ timer' = [timer EXCEPT ![t] = TRUE]
    /\ UNCHANGED <<mutex, client, packet, pc, op, toBroker, toClient, peer,
                   history>>

PingTimerExpires ==
    /\ ~ping_timer
    /\ ping_timer' = TRUE
    /\ UNCHANGED <<mutex, isconnected, ping_outstanding, next_packetid,
                   keepAliveInterval, messageHandlers, packet, pc, op, timer,
                   toBroker, toClient, peer, history>>
=============================================================================
