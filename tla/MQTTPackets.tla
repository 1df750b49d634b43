---------------------------- MODULE MQTTPackets ----------------------------
(***************************************************************************)
(* The control packets of MQTT 3.1.1 as the client of mqtt/ uses them      *)
(* (mqtt/MQTTPacket.h:42 enum msgTypes).  A packet is the record of the    *)
(* fields some step of the client or of the broker looks at; payloads,     *)
(* lengths and the wire format are left out.                               *)
(***************************************************************************)
EXTENDS Integers

CONSTANTS
    Topics,         \* topic names and filters; a filter matches itself only
    NoTopic,        \* "the packet has no topic" / "the handler slot is free"
    MAX_PACKET_ID   \* MQTTClient.h:49, 65535 in the program

ASSUME PacketsAssumption ==
    /\ MAX_PACKET_ID \in Nat \ {0}
    /\ NoTopic \notin Topics

PacketTypes ==
    {"CONNECT", "CONNACK", "PUBLISH", "PUBACK", "PUBREC", "PUBREL", "PUBCOMP",
     "SUBSCRIBE", "SUBACK", "UNSUBSCRIBE", "UNSUBACK", "PINGREQ", "PINGRESP",
     "DISCONNECT"}

\* the type cycle() holds when readPacket failed: -1 in an unsigned short
NoType == "NONE"

QoS == 0..2

SUBACK_REFUSED == 128
CONNACK_REFUSED == 5
\* a QoS, a granted QoS, a subscription refusal or a CONNACK return code
Codes == QoS \cup {SUBACK_REFUSED, CONNACK_REFUSED}

\* 0 stands for "this packet carries no identifier"
Ids == 0..MAX_PACKET_ID

Packets == [type : PacketTypes \cup {NoType}, id : Ids,
            topic : Topics \cup {NoTopic}, code : Codes]

Packet(type, id, topic, code) ==
    [type |-> type, id |-> id, topic |-> topic, code |-> code]

Plain(type) == Packet(type, 0, NoTopic, 0)
Ack(type, id) == Packet(type, id, NoTopic, 0)
NoPacket == Plain(NoType)
=============================================================================
