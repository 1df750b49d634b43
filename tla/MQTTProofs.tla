----------------------------- MODULE MQTTProofs -----------------------------
(***************************************************************************)
(* Theorems about MQTTSystem, for every number of application tasks,       *)
(* topics, packet ids and handler slots, and for every bound.              *)
(***************************************************************************)
EXTENDS MQTTSystem, FiniteSetTheorems, TLAPS

-----------------------------------------------------------------------------
(* Typing lemmas of the helpers *)

\* The packets the two sides build are packets.
LEMMA PacketType ==
    ASSUME NEW type \in PacketTypes \cup {NoType}, NEW id \in Ids,
           NEW topic \in Topics \cup {NoTopic}, NEW code \in Codes
    PROVE  Packet(type, id, topic, code) \in Packets
BY DEF Packet, Packets

\* The acknowledgements MQTTSerialize_ack writes are packets.
LEMMA AckType ==
    ASSUME NEW type \in PacketTypes, NEW id \in Ids
    PROVE  Ack(type, id) \in Packets
BY PacketType DEF Ack, Codes, QoS

\* So are the packets without fields (MQTTSerialize_zero).
LEMMA PlainType ==
    ASSUME NEW type \in PacketTypes \cup {NoType}
    PROVE  Plain(type) \in Packets
<1>1. 0 \in Ids /\ 0 \in Codes
  BY PacketsAssumption DEF Ids, Codes, QoS
<1> QED BY <1>1, PacketType DEF Plain

\* getNextPacketId wraps within 1..MAX_PACKET_ID and so never yields 0.
LEMMA NextIdType ==
    ASSUME next_packetid \in 1..MAX_PACKET_ID
    PROVE  getNextPacketId \in 1..MAX_PACKET_ID
BY PacketsAssumption DEF getNextPacketId

\* What an operation sends is a packet.
LEMMA RequestType ==
    ASSUME NEW o \in Operations, NEW id \in Ids
    PROVE  Request(o, id) \in Packets
<1>1. Codes = {0, 1, 2, 128, 5} /\ QoS = {0, 1, 2} /\ 0 \in Ids
  BY PacketsAssumption
  DEF Codes, QoS, SUBACK_REFUSED, CONNACK_REFUSED, Ids
<1>2. o.topic \in Topics \cup {NoTopic} /\ o.qos \in Codes
  BY <1>1 DEF Operations
<1>3. /\ Plain("CONNECT") \in Packets
      /\ Plain("DISCONNECT") \in Packets
      /\ Packet("SUBSCRIBE", id, o.topic, o.qos) \in Packets
      /\ Packet("UNSUBSCRIBE", id, o.topic, 0) \in Packets
      /\ Packet("PUBLISH", id, o.topic, o.qos) \in Packets
  BY <1>1, <1>2, PacketType, PlainType DEF PacketTypes
<1> QED BY <1>3 DEF Request

\* What the broker answers to a packet is a packet.
LEMMA AnswerType ==
    ASSUME NEW p \in Packets, NEW a \in Answers(p)
    PROVE  a \in Packets
<1>1. /\ Codes = {0, 1, 2, 128, 5} /\ 0 \in Ids
      /\ SUBACK_REFUSED = 128 /\ CONNACK_REFUSED = 5
  BY PacketsAssumption
  DEF Codes, QoS, SUBACK_REFUSED, CONNACK_REFUSED, Ids
<1>2. p.id \in Ids
  BY DEF Packets
<1>3. \A c \in Codes : /\ Packet("CONNACK", 0, NoTopic, c) \in Packets
                       /\ Packet("SUBACK", p.id, NoTopic, c) \in Packets
  BY <1>1, <1>2, PacketType DEF PacketTypes
<1>4. /\ Ack("PUBACK", p.id) \in Packets /\ Ack("PUBREC", p.id) \in Packets
      /\ Ack("PUBCOMP", p.id) \in Packets /\ Ack("PUBREL", p.id) \in Packets
      /\ Ack("UNSUBACK", p.id) \in Packets /\ Plain("PINGRESP") \in Packets
  BY <1>2, AckType, PlainType DEF PacketTypes
<1> QED BY <1>1, <1>3, <1>4 DEF Answers

\* The number of handlers a message reaches is a number.
LEMMA HandlerCount ==
    ASSUME NEW topic
    PROVE  Cardinality({i \in Slots : messageHandlers[i] = topic}) \in Nat
<1>1. IsFiniteSet(Slots)
  BY FS_Interval, ClientAssumption DEF Slots
<1>2. {i \in Slots : messageHandlers[i] = topic} \in SUBSET Slots
  OBVIOUS
<1>3. IsFiniteSet({i \in Slots : messageHandlers[i] = topic})
  BY <1>1, <1>2, FS_Subset
<1> QED BY <1>3, FS_CardinalityType

\* Recording the result, or the packet id, of an operation keeps it one.
LEMMA OperationType ==
    ASSUME op \in [Tasks -> Operations], NEW t \in Tasks,
           NEW id \in Ids, NEW rc \in ReturnCodes
    PROVE  /\ [op EXCEPT ![t].rc = rc] \in [Tasks -> Operations]
           /\ [op EXCEPT ![t].id = id] \in [Tasks -> Operations]
           /\ [op EXCEPT ![t].id = id, ![t].rc = rc] \in [Tasks -> Operations]
<1>1. op[t] \in Operations
  OBVIOUS
<1>2. /\ [op[t] EXCEPT !.rc = rc] \in Operations
      /\ [op[t] EXCEPT !.id = id] \in Operations
      /\ [[op[t] EXCEPT !.id = id] EXCEPT !.rc = rc] \in Operations
  BY <1>1 DEF Operations
<1>3. \A u \in Operations : [op EXCEPT ![t] = u] \in [Tasks -> Operations]
  OBVIOUS
<1>4. [op EXCEPT ![t].id = id, ![t].rc = rc] =
        [op EXCEPT ![t] = [[op[t] EXCEPT !.id = id] EXCEPT !.rc = rc]]
  OBVIOUS
<1> QED BY <1>2, <1>3, <1>4

\* A successful sendPacket keeps the types of what it changes.
LEMMA SendType ==
    ASSUME TypeOK, NEW p \in Packets, NEW interval \in Nat,
           sendPacket(p, interval)
    PROVE  toBroker' \in Seq(Packets) /\ ping_timer' \in BOOLEAN
<1>1. toBroker \in Seq(Packets)
  BY DEF TypeOK
<1>2. toBroker' = toBroker \/ toBroker' = Append(toBroker, p)
  BY DEF sendPacket
<1>3. ping_timer' = (interval = 0)
  BY DEF sendPacket
<1> QED BY <1>1, <1>2, <1>3

\* An answer sent from inside cycle keeps the types, whether the send
\* succeeds or fails.
LEMMA SendAnswerType ==
    ASSUME TypeOK, NEW t \in Tasks, NEW p \in Packets, SendAnswer(t, p)
    PROVE  /\ toBroker' \in Seq(Packets) /\ ping_timer' \in BOOLEAN
           /\ pc' \in [Tasks -> Busy \cup {"idle", "lock"}]
           /\ op' \in [Tasks -> Operations]
<1>1. AfterCycle(t, "FAILURE") \in Busy
  BY DEF AfterCycle, Busy
<1>2. CASE /\ sendPacket(p, keepAliveInterval)
           /\ Goto(t, "keepalive")
           /\ UNCHANGED op
  BY <1>2, SendType DEF TypeOK, Goto, Busy
<1>3. CASE /\ SetResult(t, MQTT_FAILURE)
           /\ Goto(t, AfterCycle(t, "FAILURE"))
           /\ UNCHANGED <<toBroker, ping_timer>>
  <2>1. op' \in [Tasks -> Operations]
    BY <1>3 DEF TypeOK, SetResult, Operations, ReturnCodes
  <2>2. pc' \in [Tasks -> Busy \cup {"idle", "lock"}]
    BY <1>1, <1>3 DEF TypeOK, Goto
  <2> QED BY <1>3, <2>1, <2>2 DEF TypeOK
<1> QED BY <1>2, <1>3 DEF SendAnswer

\* A connection starts with empty streams.
LEMMA NoPackets == <<>> \in Seq(Packets)
OBVIOUS

-----------------------------------------------------------------------------
(* Type correctness *)

\* A step of a client task keeps the types, whichever part of an operation or
\* of a cycle it is.
LEMMA StepType ==
    ASSUME SystemTypeOK, NEW t \in Tasks, ClientStep(t)
    PROVE  SystemTypeOK'
<1> USE DEF TypeOK, client, history
<1>0. TypeOK
  BY DEF SystemTypeOK
<1>1. ASSUME Step(t)
      PROVE  TypeOK'
  <2>1. CASE MutexLock(t)
    BY <1>0, <2>1 DEF MutexLock, Goto, Busy
  <2>2. CASE Refuse(t)
    BY <1>0, <2>2 DEF Refuse, Goto, Busy
  <2>3. CASE SendRequest(t)
    <3> DEFINE o == op[t]
               id == IF NeedsId(o) THEN getNextPacketId ELSE 0
               interval == IF o.kind = "connect" THEN KeepAlive
                                                 ELSE keepAliveInterval
    <3>1. o \in Operations /\ id \in Ids /\ interval \in Nat
      BY <1>0, NextIdType, PacketsAssumption, ClientAssumption DEF Ids
    <3>2. next_packetid' \in 1..MAX_PACKET_ID
      BY <1>0, <2>3, NextIdType DEF SendRequest
    <3>3. isconnected' \in BOOLEAN /\ keepAliveInterval' \in Nat
      BY <1>0, <2>3, <3>1 DEF SendRequest
    <3>4. Request(o, id) \in Packets
      BY <3>1, RequestType
    <3>5. op' \in [Tasks -> Operations]
      <4>1. \/ op' = [op EXCEPT ![t].id = id, ![t].rc = MQTT_SUCCESS]
            \/ op' = [op EXCEPT ![t].id = id]
        BY <2>3 DEF SendRequest
      <4>2. MQTT_SUCCESS \in ReturnCodes
        BY DEF MQTT_SUCCESS, ReturnCodes, Codes, QoS
      <4>3. op \in [Tasks -> Operations] /\ id \in Ids
        BY <1>0, <3>1
      <4> HIDE DEF TypeOK, id, o
      <4>4. /\ [op EXCEPT ![t].id = id] \in [Tasks -> Operations]
            /\ [op EXCEPT ![t].id = id, ![t].rc = MQTT_SUCCESS]
                  \in [Tasks -> Operations]
        BY <4>2, <4>3, OperationType, Zenon
      <4> QED BY <4>1, <4>4
    <3>6. pc' \in [Tasks -> Busy \cup {"idle", "lock"}]
      BY <1>0, <2>3 DEF SendRequest, Goto, Busy
    <3>7. toBroker' \in Seq(Packets) /\ ping_timer' \in BOOLEAN
      <4>1. CASE sendPacket(Request(o, id), interval)
        <5> HIDE DEF id, interval, o, TypeOK
        <5> QED BY <1>0, <3>1, <3>4, <4>1, SendType
      <4>2. CASE /\ ping_timer' = IF o.kind = "connect" THEN KeepAlive = 0
                                                       ELSE ping_timer
                 /\ UNCHANGED toBroker
        BY <1>0, <4>2
      <4> QED BY <2>3, <4>1, <4>2 DEF SendRequest
    <3> QED BY <1>0, <2>3, <3>2, <3>3, <3>5, <3>6, <3>7 DEF SendRequest
  <2>4. CASE KeepWaiting(t)
    BY <1>0, <2>4 DEF KeepWaiting, Goto, Busy
  <2>5. CASE GiveUp(t)
    BY <1>0, <2>5
    DEF GiveUp, Goto, Busy, SetResult, Operations, ReturnCodes
  <2>6. CASE readPacket(t)
    BY <1>0, <2>6 DEF readPacket, Goto, Busy
  <2>7. CASE readFails(t)
    BY <1>0, <2>7, PlainType DEF readFails, Goto, Busy, NoPacket
  <2>8. CASE DispatchPublish(t)
    <3>1. delivered' \in [Topics -> Nat]
      <4>1. PICK n \in Nat : delivered' = [delivered EXCEPT ![packet.topic] = @ + n]
        BY <2>8, HandlerCount DEF DispatchPublish, deliverMessage
      <4>2. delivered \in [Topics -> Nat]
        BY <1>0
      <4> HIDE DEF TypeOK
      <4>3. CASE packet.topic \in Topics
        <5>1. delivered[packet.topic] + n \in Nat
          BY <4>2, <4>3
        <5>2. delivered' =
                [delivered EXCEPT ![packet.topic] = delivered[packet.topic] + n]
          BY <4>1
        <5> QED BY <4>2, <5>1, <5>2
      <4>4. CASE packet.topic \notin Topics
        <5>1. delivered' = delivered
          BY <4>1, <4>2, <4>4
        <5> QED BY <4>2, <5>1
      <4> QED BY <4>3, <4>4
    <3>2. packet.id \in Ids
      BY <1>0 DEF Packets
    <3>3. /\ toBroker' \in Seq(Packets) /\ ping_timer' \in BOOLEAN
          /\ pc' \in [Tasks -> Busy \cup {"idle", "lock"}]
          /\ op' \in [Tasks -> Operations]
      <4>1. CASE Goto(t, "keepalive") /\ UNCHANGED <<toBroker, ping_timer, op>>
        BY <1>0, <4>1 DEF Goto, Busy
      <4>2. CASE SendAnswer(t, Ack("PUBACK", packet.id))
        BY <1>0, <3>2, <4>2, SendAnswerType, AckType DEF PacketTypes
      <4>3. CASE SendAnswer(t, Ack("PUBREC", packet.id))
        BY <1>0, <3>2, <4>3, SendAnswerType, AckType DEF PacketTypes
      <4> QED BY <2>8, <4>1, <4>2, <4>3 DEF DispatchPublish
    <3> QED BY <1>0, <2>8, <3>1, <3>3 DEF DispatchPublish
  <2>9. CASE DispatchPubrec(t)
    <3>1. packet.id \in Ids
      BY <1>0 DEF Packets
    <3>2. /\ toBroker' \in Seq(Packets) /\ ping_timer' \in BOOLEAN
          /\ pc' \in [Tasks -> Busy \cup {"idle", "lock"}]
          /\ op' \in [Tasks -> Operations]
      BY <1>0, <2>9, <3>1, SendAnswerType, AckType
      DEF DispatchPubrec, PacketTypes
    <3> QED BY <1>0, <2>9, <3>2 DEF DispatchPubrec
  <2>10. CASE DispatchOther(t)
    BY <1>0, <2>10 DEF DispatchOther, Goto, Busy
  <2>11. CASE keepalive(t)
    <3>1. AfterCycle(t, packet.type) \in Busy
      BY DEF AfterCycle, Busy
    <3>2. toBroker' \in Seq(Packets) /\ ping_timer' \in BOOLEAN
          /\ ping_outstanding' \in BOOLEAN
      <4>1. Plain("PINGREQ") \in Packets
        BY PlainType DEF PacketTypes
      <4>2. keepAliveInterval \in Nat
        BY <1>0
      <4> QED BY <1>0, <2>11, <4>1, <4>2, SendType DEF keepalive
    <3>3. pc' \in [Tasks -> Busy \cup {"idle", "lock"}]
      BY <1>0, <2>11, <3>1 DEF keepalive, Goto
    <3> QED BY <1>0, <2>11, <3>2, <3>3 DEF keepalive
  <2>12. CASE FinishConnect(t)
    <3>1. packet.code \in ReturnCodes
      BY <1>0 DEF Packets, ReturnCodes
    <3> QED BY <1>0, <2>12, <3>1
        DEF FinishConnect, SetResult, Goto, Busy, Operations
  <2>13. CASE FinishSubscribe(t)
    <3>1. packet.code \in ReturnCodes /\ MQTT_SUCCESS \in ReturnCodes
      BY <1>0 DEF Packets, ReturnCodes, MQTT_SUCCESS, Codes, QoS
    <3>2. op[t].topic \in Topics \cup {NoTopic}
      BY <1>0 DEF Operations
    <3>3. messageHandlers' \in [Slots -> Topics \cup {NoTopic}]
      BY <1>0, <2>13, <3>2 DEF FinishSubscribe
    <3>4. op' \in [Tasks -> Operations]
      <4>1. op \in [Tasks -> Operations] /\ 0 \in Ids
        BY <1>0, PacketsAssumption DEF Ids
      <4> HIDE DEF TypeOK
      <4>2. /\ [op EXCEPT ![t].rc = packet.code] \in [Tasks -> Operations]
            /\ [op EXCEPT ![t].rc = MQTT_SUCCESS] \in [Tasks -> Operations]
        BY <3>1, <4>1, OperationType, Zenon
      <4> QED BY <2>13, <4>2 DEF FinishSubscribe, SetResult
    <3> QED BY <1>0, <2>13, <3>3, <3>4 DEF FinishSubscribe, Goto, Busy
  <2>14. CASE FinishOther(t)
    <3>1. op' \in [Tasks -> Operations]
      <4>1. op \in [Tasks -> Operations] /\ 0 \in Ids
        BY <1>0, PacketsAssumption DEF Ids
      <4>2. MQTT_SUCCESS \in ReturnCodes
        BY DEF MQTT_SUCCESS, ReturnCodes, Codes, QoS
      <4> HIDE DEF TypeOK
      <4> QED BY <2>14, <4>1, <4>2, OperationType DEF FinishOther, SetResult
    <3> QED BY <1>0, <2>14, <3>1 DEF FinishOther, Goto, Busy
  <2>15. CASE Return(t)
    BY <1>0, <2>15 DEF Return, Goto
  <2> QED BY <1>1, <2>1, <2>2, <2>3, <2>4, <2>5, <2>6, <2>7, <2>8, <2>9,
             <2>10, <2>11, <2>12, <2>13, <2>14, <2>15 DEF Step
<1>2. joined' \in 0..MaxConnections
  BY SystemAssumption DEF SystemTypeOK, ClientStep
<1> QED BY <1>1, <1>2 DEF SystemTypeOK, ClientStep, broker

\* The broker, the clock and the application's side of the connection keep the
\* types too.
LEMMA BrokerAnswersType ==
    ASSUME SystemTypeOK, BrokerAnswers
    PROVE  SystemTypeOK'
<1> USE DEF SystemTypeOK, TypeOK, client, history, broker
<1>1. toBroker \in Seq(Packets) /\ toBroker # <<>> /\ toClient \in Seq(Packets)
  BY DEF BrokerAnswers
<1>2. Head(toBroker) \in Packets /\ toBroker' \in Seq(Packets)
  BY <1>1 DEF BrokerAnswers
<1>3. PICK a \in Answers(Head(toBroker)) :
          /\ toClient' = Append(toClient, a)
          /\ session' = (\/ session
                         \/ Head(toBroker).type = "CONNECT" /\ a.code = 0)
          /\ \/ subscriptions' = subscriptions \cup {Head(toBroker).topic}
             \/ subscriptions' = subscriptions \ {Head(toBroker).topic}
             \/ subscriptions' = subscriptions
  BY DEF BrokerAnswers
<1>4. a \in Packets
  BY <1>2, <1>3, AnswerType
<1>5. toClient' \in Seq(Packets)
  BY <1>1, <1>3, <1>4
<1>6. session' \in BOOLEAN
  BY <1>3
<1>7. Head(toBroker).topic \in Topics \cup {NoTopic}
  BY <1>2 DEF Packets
<1>8. subscriptions' \in SUBSET (Topics \cup {NoTopic})
  BY <1>3, <1>7
<1> QED BY <1>2, <1>5, <1>6, <1>8 DEF BrokerAnswers

\* A message of the broker keeps the types.
LEMMA BrokerPublishesType ==
    ASSUME SystemTypeOK, BrokerPublishes
    PROVE  SystemTypeOK'
<1> USE DEF SystemTypeOK, TypeOK, client, history, broker
<1>1. PICK topic \in Topics, qos \in QoS :
          /\ pushed' = [pushed EXCEPT ![topic] = @ + 1]
          /\ toClient' = Append(toClient,
                Packet("PUBLISH", IF qos = 0 THEN 0 ELSE 1, topic, qos))
  BY DEF BrokerPublishes
<1>2. pushed' \in [Topics -> Nat]
  BY <1>1
<1>3. Packet("PUBLISH", IF qos = 0 THEN 0 ELSE 1, topic, qos) \in Packets
  BY <1>1, PacketType, PacketsAssumption DEF PacketTypes, Ids, Codes
<1>4. toClient' \in Seq(Packets)
  BY <1>1, <1>3
<1> QED BY <1>2, <1>4 DEF BrokerPublishes

\* The clock, the end of a connection and a new one keep the types.
LEMMA EnvironmentType ==
    ASSUME SystemTypeOK,
           \/ BrokerTakes \/ BrokerCloses \/ Reconnect
           \/ MQTTStartTask /\ UNCHANGED <<broker, connections, joined>>
           \/ PingTimerExpires /\ UNCHANGED <<broker, connections, joined>>
           \/ \E t \in Tasks : /\ TimerExpires(t)
                               /\ UNCHANGED <<broker, connections, joined>>
    PROVE  SystemTypeOK'
<1> USE DEF SystemTypeOK, TypeOK, client, history, broker
<1>1. CASE BrokerTakes
  BY <1>1 DEF BrokerTakes
<1>2. CASE BrokerCloses
  BY <1>2, NoPackets DEF BrokerCloses
<1>3. CASE Reconnect
  <2>1. connections' \in 1..MaxConnections
    BY <1>3, SystemAssumption DEF Reconnect
  <2>2. TypeOK'
    BY <1>3, NoPackets DEF Reconnect
  <2> QED BY <1>3, <2>1, <2>2 DEF Reconnect
<1>4. CASE PingTimerExpires /\ UNCHANGED <<broker, connections, joined>>
  BY <1>4 DEF PingTimerExpires
<1>5. CASE \E t \in Tasks : /\ TimerExpires(t)
                           /\ UNCHANGED <<broker, connections, joined>>
  BY <1>5 DEF TimerExpires
<1>6. CASE MQTTStartTask /\ UNCHANGED <<broker, connections, joined>>
  BY <1>6 DEF MQTTStartTask, Goto, Tasks
<1> QED BY <1>1, <1>2, <1>3, <1>4, <1>5, <1>6

\* A call of the application keeps the types.
LEMMA CallType ==
    ASSUME SystemTypeOK, NEW t \in Apps, Call(t),
           UNCHANGED <<broker, connections, joined>>
    PROVE  SystemTypeOK'
<1> USE DEF SystemTypeOK, TypeOK, client, broker
<1>1. Requests \subseteq Operations
  BY PacketsAssumption
  DEF Requests, Operations, OperationKinds, QoS, Ids, ReturnCodes, Codes,
      MQTT_FAILURE, MQTT_SUCCESS
<1>2. t \in Tasks
  BY DEF Tasks
<1>3. op' \in [Tasks -> Operations]
  BY <1>1, <1>2 DEF Call
<1>4. pc' \in [Tasks -> Busy \cup {"idle", "lock"}]
  BY <1>2 DEF Call, Goto, Busy
<1>5. calls' \in 0..MaxCalls
  BY ClientAssumption DEF Call
<1> QED BY <1>3, <1>4, <1>5 DEF Call

\* The types hold after MQTTClientInit.
LEMMA InitType == ASSUME SystemInit PROVE SystemTypeOK
<1>1. NoOperation \in Operations /\ NoPacket \in Packets
  BY PacketsAssumption, PlainType
  DEF NoOperation, Operations, OperationKinds, QoS, Ids, ReturnCodes, Codes,
      NoPacket
<1>2. 1 \in 1..MAX_PACKET_ID /\ 0 \in 0..MaxCalls
      /\ 1 \in 1..MaxConnections /\ 0 \in 0..MaxConnections
  BY PacketsAssumption, ClientAssumption, SystemAssumption
<1>3. keepAliveInterval \in Nat
  BY ClientAssumption DEF SystemInit, Init
<1>4. pc \in [Tasks -> Busy \cup {"idle", "lock"}]
  BY DEF SystemInit, Init
<1>5. messageHandlers \in [Slots -> Topics \cup {NoTopic}]
  BY DEF SystemInit, Init
<1>6. TypeOK
  BY <1>1, <1>2, <1>3, <1>4, <1>5, NoPackets DEF SystemInit, Init, TypeOK
<1> QED BY <1>2, <1>6 DEF SystemInit, SystemTypeOK

\* Every step of the system keeps the types.
LEMMA NextType ==
    ASSUME SystemTypeOK, [Next]_allVars
    PROVE  SystemTypeOK'
<1>1. CASE UNCHANGED allVars
  BY <1>1
  DEF allVars, vars, client, history, broker, SystemTypeOK, TypeOK
<1>2. CASE Next
  BY <1>2, StepType, CallType, BrokerAnswersType, BrokerPublishesType,
     EnvironmentType
  DEF Next
<1> QED BY <1>1, <1>2

\* The variables of the client, of the connection and of the broker keep their
\* types in every behaviour: in particular next_packetid stays within
\* 1..MAX_PACKET_ID, whatever that is (getNextPacketId, MQTTClient.c:24).
THEOREM TypeCorrect == Spec => []SystemTypeOK
<1>1. SystemInit => SystemTypeOK
  BY InitType
<1>2. SystemTypeOK /\ [Next]_allVars => SystemTypeOK'
  BY NextType
<1> QED BY <1>1, <1>2, PTL DEF Spec

-----------------------------------------------------------------------------
(* Mutual exclusion *)

\* MQTTYield, which takes no mutex, never stands where only the operations
\* that take it do.
YieldOnlyCycles ==
    \A t \in Apps : pc[t] \in {"lock", "send", "check", "finish"}
                        => op[t].kind # "yield"

OwnerInv == MutexOwner /\ YieldOnlyCycles

\* Between MutexLock and Return a task moves from one busy place to another
\* and leaves the mutex and the kinds of all operations alone.
LEMMA BusyStep ==
    ASSUME SystemTypeOK, YieldOnlyCycles, NEW t \in Tasks, Step(t),
           ~MutexLock(t), ~Return(t)
    PROVE  /\ pc[t] \in Busy
           /\ mutex' = mutex
           /\ \A u \in Tasks : op'[u].kind = op[u].kind
           /\ \E place \in Busy :
                /\ pc' = [pc EXCEPT ![t] = place]
                /\ place \in {"send", "check", "finish"}
                        => t = RunTask \/ op[t].kind # "yield"
<1> USE DEF Goto, Busy
<1>0. op \in [Tasks -> Operations] /\ t \in Tasks
  BY DEF SystemTypeOK, TypeOK
<1>1. \A rc : AfterCycle(t, rc) \in Busy /\
               (AfterCycle(t, rc) \in {"send", "check", "finish"}
                    => t # RunTask /\ op[t].kind # "yield")
  BY DEF AfterCycle
<1>2. CASE Refuse(t) \/ KeepWaiting(t) \/ readPacket(t) \/ readFails(t)
  BY <1>2 DEF Refuse, KeepWaiting, readPacket, readFails
<1>3. CASE SendRequest(t)
  <2>1. \A u \in Tasks : op'[u].kind = op[u].kind
    BY <1>0, <1>3 DEF SendRequest, Operations
  <2>2. t = RunTask \/ op[t].kind # "yield"
    BY <1>3 DEF SendRequest, YieldOnlyCycles, Tasks
  <2>3. \E place \in Busy : pc' = [pc EXCEPT ![t] = place]
    BY <1>3 DEF SendRequest
  <2> QED BY <1>3, <2>1, <2>2, <2>3 DEF SendRequest
<1>4. CASE GiveUp(t)
  BY <1>0, <1>4 DEF GiveUp, SetResult, Operations
<1>5. ASSUME NEW p, SendAnswer(t, p)
      PROVE  /\ \A u \in Tasks : op'[u].kind = op[u].kind
             /\ \E place \in Busy :
                  /\ pc' = [pc EXCEPT ![t] = place]
                  /\ place \in {"send", "check", "finish"}
                        => t = RunTask \/ op[t].kind # "yield"
  <2>1. op' = op \/ op' = [op EXCEPT ![t].rc = MQTT_FAILURE]
    BY <1>5 DEF SendAnswer, SetResult
  <2>2. \A u \in Tasks : op'[u].kind = op[u].kind
    BY <1>0, <2>1 DEF Operations
  <2>3. \/ pc' = [pc EXCEPT ![t] = "keepalive"]
        \/ pc' = [pc EXCEPT ![t] = AfterCycle(t, "FAILURE")]
    BY <1>5 DEF SendAnswer
  <2> QED BY <1>1, <2>2, <2>3
<1>6. CASE DispatchPublish(t)
  <2>1. CASE Goto(t, "keepalive") /\ UNCHANGED <<toBroker, ping_timer, op>>
    BY <1>6, <2>1 DEF DispatchPublish
  <2>2. CASE \E p : SendAnswer(t, p)
    BY <1>5, <1>6, <2>2 DEF DispatchPublish
  <2> QED BY <1>6, <2>1, <2>2 DEF DispatchPublish
<1>7. CASE DispatchPubrec(t)
  BY <1>5, <1>7 DEF DispatchPubrec
<1>8. CASE DispatchOther(t)
  BY <1>8 DEF DispatchOther
<1>9. CASE keepalive(t)
  BY <1>1, <1>9 DEF keepalive
<1>10. CASE FinishConnect(t) \/ FinishSubscribe(t) \/ FinishOther(t)
  <2>1. \E rc : op' = [op EXCEPT ![t].rc = rc]
    BY <1>10 DEF FinishConnect, FinishSubscribe, FinishOther, SetResult
  <2>2. \A u \in Tasks : op'[u].kind = op[u].kind
    BY <1>0, <2>1 DEF Operations
  <2> QED BY <1>10, <2>2 DEF FinishConnect, FinishSubscribe, FinishOther
<1> QED BY <1>2, <1>3, <1>4, <1>6, <1>7, <1>8, <1>9, <1>10 DEF Step

\* A step of one task keeps MutexOwner for all of them.
LEMMA OwnerStep ==
    ASSUME SystemTypeOK, OwnerInv, NEW t \in Tasks, Step(t)
    PROVE  OwnerInv'
<1> USE DEF OwnerInv, MutexOwner, YieldOnlyCycles
<1>0. /\ pc \in [Tasks -> Busy \cup {"idle", "lock"}]
      /\ NoTask \notin Tasks /\ Apps \subseteq Tasks /\ RunTask \notin Apps
  BY ClientAssumption DEF SystemTypeOK, TypeOK, Tasks
<1>1. CASE MutexLock(t)
  <2>1. \A u \in Tasks : mutex # u
    BY <1>0, <1>1 DEF MutexLock
  <2>2. t = RunTask \/ op[t].kind # "yield"
    BY <1>0, <1>1 DEF MutexLock, Tasks
  <2> QED BY <1>0, <1>1, <2>1, <2>2 DEF MutexLock, Goto, Busy
<1>2. CASE Return(t)
  BY <1>0, <1>2 DEF Return, Goto, Busy, Tasks
<1>3. CASE ~MutexLock(t) /\ ~Return(t)
  <2>1. PICK place \in Busy :
            /\ pc' = [pc EXCEPT ![t] = place]
            /\ place \in {"send", "check", "finish"}
                    => t = RunTask \/ op[t].kind # "yield"
    BY <1>3, BusyStep
  <2>2. /\ pc[t] \in Busy
        /\ mutex' = mutex
        /\ \A u \in Tasks : op'[u].kind = op[u].kind
    BY <1>3, BusyStep
  <2>3. MutexOwner'
    BY <1>0, <2>1, <2>2
  <2>4. YieldOnlyCycles'
    BY <1>0, <2>1, <2>2 DEF Busy
  <2> QED BY <2>3, <2>4
<1> QED BY <1>1, <1>2, <1>3

\* The inductive invariant of mutual exclusion is one of the system.
LEMMA OwnerAlways == Spec => []OwnerInv
<1>1. SystemInit => OwnerInv
  BY ClientAssumption
  DEF SystemInit, Init, OwnerInv, MutexOwner, YieldOnlyCycles, Tasks, Busy,
      NoOperation
<1>2. ASSUME SystemTypeOK, OwnerInv, [Next]_allVars
      PROVE  OwnerInv'
  <2> USE DEF OwnerInv, MutexOwner, YieldOnlyCycles
  <2>0. /\ pc \in [Tasks -> Busy \cup {"idle", "lock"}]
        /\ op \in [Tasks -> Operations]
        /\ Apps \subseteq Tasks /\ RunTask \notin Apps
    BY <1>2, ClientAssumption DEF SystemTypeOK, TypeOK, Tasks
  <2>1. CASE UNCHANGED <<mutex, pc, op>>
    BY <1>2, <2>1
  <2>2. CASE UNCHANGED allVars
    BY <2>1, <2>2 DEF allVars, vars
  <2>3. ASSUME NEW t \in Tasks, ClientStep(t)
        PROVE  OwnerInv'
    BY <1>2, <2>3, OwnerStep DEF ClientStep
  <2>4. ASSUME NEW t \in Apps, Call(t)
        PROVE  OwnerInv'
    <3>1. PICK r \in Requests :
              /\ op' = [op EXCEPT ![t] = r]
              /\ Goto(t, IF r.kind = "yield" THEN "read" ELSE "lock")
      BY <2>4 DEF Call
    <3>2. pc[t] = "idle" /\ mutex' = mutex
      BY <2>4 DEF Call
    <3> QED BY <1>2, <2>0, <3>1, <3>2 DEF Goto, Busy
  <2>5. ASSUME NEW t \in Tasks, TimerExpires(t)
        PROVE  OwnerInv'
    BY <2>1, <2>5 DEF TimerExpires
  <2>6. CASE PingTimerExpires
    BY <2>1, <2>6 DEF PingTimerExpires
  <2>7. CASE BrokerAnswers \/ BrokerTakes \/ BrokerPublishes \/ BrokerCloses
    BY <2>1, <2>7 DEF BrokerAnswers, BrokerTakes, BrokerPublishes, BrokerCloses
  <2>8. CASE Reconnect
    BY <2>1, <2>8 DEF Reconnect
  <2>9. CASE MQTTStartTask
    BY <1>2, <2>0, <2>9 DEF MQTTStartTask, Goto, Busy
  <2> QED BY <1>2, <2>2, <2>3, <2>4, <2>5, <2>6, <2>7, <2>8, <2>9 DEF Next
<1> QED BY <1>1, <1>2, TypeCorrect, PTL DEF Spec

\* The tasks of the application and the background task exclude each other from
\* every operation and every cycle (MutexLock and MutexUnlock at both ends of
\* each function of MQTTClient.c), for any number of tasks.
THEOREM MutualExclusion == Spec => []MutexOwner
<1>1. OwnerInv => MutexOwner
  BY DEF OwnerInv
<1> QED BY <1>1, OwnerAlways, PTL
=============================================================================
