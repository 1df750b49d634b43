----------------------------- MODULE MQTTSystem -----------------------------
(***************************************************************************)
(* The client of MQTTClient with the broker it talks to over one TCP       *)
(* connection at a time.  The broker is no part of the repository: it      *)
(* answers as MQTT 3.1.1 has it, in the order of the requests and after    *)
(* any delay, publishes messages of its own, and may close the connection  *)
(* at any moment.  The application sets up a new connection when it likes, *)
(* as long as none of its tasks is inside an operation.                    *)
(***************************************************************************)
EXTENDS MQTTClient

CONSTANTS
    MaxPush,            \* bound: messages the broker publishes
    MaxConnections      \* bound: connections set up in a behaviour

ASSUME SystemAssumption == MaxPush \in Nat /\ MaxConnections \in Nat \ {0}

VARIABLES
    session,        \* has the broker accepted a CONNECT on this connection?
    subscriptions,  \* the subscriptions the broker holds
    pushed,         \* topic -> messages the broker published
    connections,    \* connections set up so far
    joined          \* history: the connection on which isconnected was set

broker == <<session, subscriptions, pushed>>
allVars == <<vars, broker, connections, joined>>

SystemTypeOK ==
    /\ TypeOK
    /\ session \in BOOLEAN
    /\ subscriptions \in SUBSET (Topics \cup {NoTopic})
    /\ pushed \in [Topics -> Nat]
    /\ connections \in 1..MaxConnections
    /\ joined \in 0..MaxConnections

SystemInit ==
    /\ Init
    /\ session = FALSE
    /\ subscriptions = {}
    /\ pushed = [p \in Topics |-> 0]
    /\ connections = 1
    /\ joined = 0

-----------------------------------------------------------------------------
(* The broker *)

\* A second CONNECT, anything before the first, and DISCONNECT make the
\* broker close the connection.
Offends(p) == p.type = "DISCONNECT" \/ ((p.type = "CONNECT") = session)

Answers(p) ==
    CASE p.type = "CONNECT" ->
            {Packet("CONNACK", 0, NoTopic, c) : c \in {0, CONNACK_REFUSED}}
      [] p.type = "PUBLISH" /\ p.code = 1 -> {Ack("PUBACK", p.id)}
      [] p.type = "PUBLISH" /\ p.code = 2 -> {Ack("PUBREC", p.id)}
      [] p.type = "PUBREL" -> {Ack("PUBCOMP", p.id)}
      [] p.type = "PUBREC" -> {Ack("PUBREL", p.id)}
      [] p.type = "SUBSCRIBE" ->
            {Packet("SUBACK", p.id, NoTopic, c) : c \in {0, SUBACK_REFUSED}}
      [] p.type = "UNSUBSCRIBE" -> {Ack("UNSUBACK", p.id)}
      [] p.type = "PINGREQ" -> {Plain("PINGRESP")}
      [] OTHER -> {}

BrokerCloses ==
    /\ peer = "open"
    /\ peer' = "closed"
    /\ toBroker' = <<>>
    /\ session' = FALSE
    /\ subscriptions' = {}
    /\ UNCHANGED <<mutex, client, packet, pc, op, timer, toClient, history,
                   pushed, connections, joined>>

\* The broker takes the next packet of the client and answers it.
BrokerAnswers ==
    /\ peer = "open"
    /\ toBroker # <<>>
    /\ ~Offends(Head(toBroker))
    /\ LET p == Head(toBroker)
       IN  \E a \in Answers(p) :
              /\ toClient' = Append(toClient, a)
              /\ session' = (session \/ (p.type = "CONNECT" /\ a.code = 0))
              /\ subscriptions' =
                    CASE p.type = "SUBSCRIBE" /\ a.code # SUBACK_REFUSED ->
                            subscriptions \cup {p.topic}
                      [] p.type = "UNSUBSCRIBE" -> subscriptions \ {p.topic}
                      [] OTHER -> subscriptions
    /\ toBroker' = Tail(toBroker)
    /\ UNCHANGED <<mutex, client, packet, pc, op, timer, peer, history, pushed,
                   connections, joined>>

\* a packet without an answer: a PUBLISH of QoS 0, PUBACK, PUBCOMP
BrokerTakes ==
    /\ peer = "open"
    /\ toBroker # <<>>
    /\ ~Offends(Head(toBroker))
    /\ Answers(Head(toBroker)) = {}
    /\ toBroker' = Tail(toBroker)
    /\ UNCHANGED <<mutex, client, packet, pc, op, timer, toClient, peer,
                   history, broker, connections, joined>>

BrokerPublishes ==
    /\ peer = "open"
    /\ \E topic \in subscriptions \cap Topics, qos \in QoS :
          /\ pushed[topic] < MaxPush
          /\ pushed' = [pushed EXCEPT ![topic] = @ + 1]
          /\ toClient' = Append(toClient,
                Packet("PUBLISH", IF qos = 0 THEN 0 ELSE 1, topic, qos))
    /\ UNCHANGED <<mutex, client, packet, pc, op, timer, toBroker, peer,
                   history, session, subscriptions, connections, joined>>

-----------------------------------------------------------------------------
(* The application's side of the connection *)

\* NetworkDisconnect and NetworkConnect (or the TLS pair): what was under way
\* on the old connection is lost, the MQTTClient is not touched.
Reconnect ==
    /\ \A t \in Apps : pc[t] = "idle"
    /\ connections < MaxConnections
    /\ connections' = connections + 1
    /\ peer' = "open"
    /\ toBroker' = <<>>
    /\ toClient' = <<>>
    /\ session' = FALSE
    /\ subscriptions' = {}
    /\ gaveUp' = FALSE
    /\ UNCHANGED <<mutex, client, packet, pc, op, timer, calls, delivered, pushed,
                   joined>>

\* a step of the client, with the history of when it became connected
ClientStep(t) ==
    /\ Step(t)
    /\ joined' = IF isconnected' /\ ~isconnected THEN connections ELSE joined
    /\ UNCHANGED <<broker, connections>>

Next ==
    \/ \E t \in Tasks : ClientStep(t)
    \/ \E t \in Apps : Call(t) /\ UNCHANGED <<broker, connections, joined>>
    \/ MQTTStartTask /\ UNCHANGED <<broker, connections, joined>>
    \/ \E t \in Tasks : /\ TimerExpires(t)
                        /\ UNCHANGED <<broker, connections, joined>>
    \/ PingTimerExpires /\ UNCHANGED <<broker, connections, joined>>
    \/ BrokerAnswers \/ BrokerTakes \/ BrokerPublishes \/ BrokerCloses
    \/ Reconnect

Spec == SystemInit /\ [][Next]_allVars

\* Every task that can run does, and every countdown runs out.  Nothing is
\* assumed of the broker, and no task is promised the mutex.
Fairness ==
    \A t \in Tasks :
        /\ WF_allVars(ClientStep(t))
        /\ WF_allVars(TimerExpires(t) /\ UNCHANGED <<broker, connections, joined>>)

FairSpec == Spec /\ Fairness

-----------------------------------------------------------------------------
(* Properties *)

\* Exactly the task that owns the mutex is inside an operation or a cycle
\* (every function of MQTTClient.c takes the mutex on entry and releases it on
\* every path), unless it runs MQTTYield.
MutexOwner ==
    \A t \in Tasks :
        (pc[t] \in Busy /\ (t = RunTask \/ op[t].kind # "yield")) <=> mutex = t

Answered(t) == pc[t] = "finish" /\ op[t].kind # "connect"

\* As long as no operation has returned without its answer, the acknowledgement
\* waitfor accepts by its type alone is the one for the request that was sent.
AckIsOwn == \A t \in Tasks : Answered(t) /\ ~gaveUp => packet.id = op[t].id

\* At most one ping is under way, and only while ping_outstanding says so: a
\* lost or late PINGRESP never makes keepalive send a second PINGREQ.
PingsUnderWay ==
    Cardinality({i \in 1..Len(toBroker) : toBroker[i].type = "PINGREQ"})
    + Cardinality({i \in 1..Len(toClient) : toClient[i].type = "PINGRESP"})
    + Cardinality({t \in Tasks : pc[t] = "dispatch" /\ packet.type = "PINGRESP"})

OnePing == PingsUnderWay <= IF ping_outstanding THEN 1 ELSE 0

\* If isconnected was set on the connection in use and that is still open, the
\* broker has accepted the session: a stale CONNACK, or one that follows a
\* timed out MQTTConnect, never makes the client believe otherwise.
ConnectedIsAccepted ==
    isconnected /\ joined = connections /\ peer = "open" => session

\* A published message reaches the handler of each slot of its topic at most
\* once.
DeliveriesBounded ==
    \A p \in Topics :
        delivered[p] <= pushed[p]
                        * Cardinality({i \in Slots : messageHandlers[i] = p})

\* Every operation that got the mutex gives it back, even if the broker never
\* answers: waitfor looks at the timer before each cycle, and the background
\* task runs one cycle at a time.
MutexReleased == \A t \in Tasks : mutex = t ~> mutex # t

-----------------------------------------------------------------------------
(* What the comments say, against what the code does *)

\* MQTTClient.c:486, on the packet id of an UNSUBACK: "should be the same as
\* the packetid above".
UnsubackIdMatches ==
    \A t \in Tasks : pc[t] = "finish" /\ op[t].kind = "unsubscribe"
                        => packet.id = op[t].id

\* MQTTClient.h:166: MQTTDisconnect sends a disconnect packet "and close[s] the
\* connection", so nothing follows the DISCONNECT on it.
DisconnectIsLast ==
    \A i \in 1..Len(toBroker) :
        joined = connections /\ toBroker[i].type = "DISCONNECT"
            => i = Len(toBroker)

\* MQTTClient.h:52: MAX_MESSAGE_HANDLERS is "how many subscriptions do you
\* want?", so a successful MQTTSubscribe within that number has a handler.
SubscriptionHasHandler ==
    \A t \in Apps :
        /\ pc[t] = "idle"
        /\ op[t].kind = "subscribe" /\ op[t].rc = MQTT_SUCCESS
        /\ op[t].topic \in subscriptions
        /\ Cardinality(subscriptions) <= MAX_MESSAGE_HANDLERS
        => \E i \in Slots : messageHandlers[i] = op[t].topic
=============================================================================
