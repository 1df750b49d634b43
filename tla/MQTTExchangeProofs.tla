------------------------- MODULE MQTTExchangeProofs -------------------------
(***************************************************************************)
(* What passes between the client and the broker, proved of MQTTSystem for *)
(* every value of its constants: pings do not pile up, isconnected means   *)
(* an accepted session, an operation ends with the answer to its own       *)
(* request, and messages reach each handler once.                          *)
(***************************************************************************)
EXTENDS MQTTProofs, SequenceTheorems

-----------------------------------------------------------------------------
(* The inductive invariants *)

\* A task in MQTTYield is the only one there is.
YieldAlone ==
    \A t \in Apps : pc[t] \in Busy /\ op[t].kind = "yield"
                        => Apps = {t} /\ pc[RunTask] = "idle"

\* One task at a time is inside an operation, a cycle or MQTTYield.
OneBusy == \A t, u \in Tasks : pc[t] \in Busy /\ pc[u] \in Busy => t = u

\* Places of s that hold a packet of the set G.
Count(s, G) == Cardinality({i \in 1..Len(s) : s[i] \in G})

\* Pings and their answers, counted where they are.
OfType(types) == {p \in Packets : p.type \in types}
PingsSent == Count(toBroker, OfType({"PINGREQ"}))
PingsAnswered == Count(toClient, OfType({"PINGRESP"}))
PingRead == \E t \in Tasks : pc[t] = "dispatch" /\ packet.type = "PINGRESP"

PingReads == IF PingRead THEN 1 ELSE 0
PingsAllowed == IF ping_outstanding THEN 1 ELSE 0

PingInv == PingsSent + PingsAnswered + PingReads <= PingsAllowed

\* A CONNACK that accepts, on the way or just read by an application task, is
\* that of the connection in use.
Accepted == {p \in Packets : p.type = "CONNACK" /\ p.code = 0}

SessionInv ==
    /\ joined <= connections
    /\ ConnectedIsAccepted
    /\ peer = "open" /\ ~session =>
          /\ \A i \in 1..Len(toClient) : toClient[i] \notin Accepted
          /\ \A t \in Apps : pc[t] \in {"dispatch", "keepalive", "finish"}
                                => packet \notin Accepted

\* The places of a task inside waitfor or cycle.
Cycling == {"check", "read", "dispatch", "keepalive", "finish"}

\* waitfor, which the background task never calls, waits for some type of
\* packet and hands on the one it waited for.
FinishInv ==
    /\ pc[RunTask] \notin {"send", "check", "finish"}
    /\ \A t \in Apps :
          /\ pc[t] = "finish" => packet.type = Awaited(op[t])
          /\ pc[t] \in Cycling /\ op[t].kind # "yield" => Awaited(op[t]) # NoType

\* What a request turns into on its way to the answer that ends the operation,
\* in each direction and, for the task that has read it, before and after it
\* is dispatched.
RequestPackets ==
    {p \in Packets : \/ p.type \in {"SUBSCRIBE", "UNSUBSCRIBE", "PUBREL"}
                     \/ p.type = "PUBLISH" /\ p.code # 0}
LastPackets == OfType({"SUBACK", "UNSUBACK", "PUBACK", "PUBCOMP"})
AnswerPackets == LastPackets \cup OfType({"PUBREC"})

\* With a packet at its head that makes the broker close the connection,
\* nothing behind it is ever answered.
Dead == toBroker # <<>> /\ Offends(Head(toBroker))

Requested == IF Dead THEN 0 ELSE Count(toBroker, RequestPackets)
Answering == Count(toClient, AnswerPackets)
AnswerRead ==
    \E t \in Apps : \/ pc[t] = "dispatch" /\ packet \in AnswerPackets
                    \/ pc[t] \in {"keepalive", "finish"} /\ packet \in LastPackets
AnswersRead == IF AnswerRead THEN 1 ELSE 0

\* Packets with the id of the operation that waits for an acknowledgement, if
\* there is one.
Acknowledged == {"subscribe", "unsubscribe", "publish"}
Own == {p \in Packets :
            \E t \in Apps : /\ pc[t] \in Cycling /\ op[t].kind \in Acknowledged
                            /\ p.id = op[t].id}

\* As long as no operation has given up, at most one packet is under way
\* towards the answer of an operation, and it bears the id of the operation
\* that waits.  A PUBREC the background task still holds from the connection
\* before is answered with the first packet on the new one.
AckInv ==
    ~gaveUp =>
        /\ Requested + Answering + AnswersRead <= 1
        /\ ~Dead => \A i \in 1..Len(toBroker) :
                        toBroker[i] \in RequestPackets => toBroker[i] \in Own
        /\ \A i \in 1..Len(toClient) :
              toClient[i] \in AnswerPackets => toClient[i] \in Own
        /\ AnswerRead => packet \in Own
        /\ pc[RunTask] = "dispatch" /\ packet.type = "PUBREC"
              => toBroker = <<>> /\ ~session

\* Messages to a topic that have not reached the handlers yet: on the way, or
\* just read.
MessagesTo(topic) == {p \in Packets : p.type = "PUBLISH" /\ p.topic = topic}
Arriving == [p \in Topics |-> Count(toClient, MessagesTo(p))]
JustRead ==
    [p \in Topics |->
        IF \E t \in Tasks : pc[t] = "dispatch" /\ packet \in MessagesTo(p) THEN 1 ELSE 0]
Handlers == [p \in Topics |-> Cardinality({i \in Slots : messageHandlers[i] = p})]

DeliveryInv ==
    \A p \in Topics :
        /\ Arriving[p] + JustRead[p] <= pushed[p]
        /\ delivered[p] <= (pushed[p] - (Arriving[p] + JustRead[p])) * Handlers[p]

-----------------------------------------------------------------------------
(* Counting the packets of a kind *)

\* A count is a number, and an empty sequence has nothing to count.
LEMMA CountType ==
    ASSUME NEW s \in Seq(Packets), NEW G
    PROVE  IsFiniteSet({i \in 1..Len(s) : s[i] \in G}) /\ Count(s, G) \in Nat
<1>1. IsFiniteSet(1..Len(s))
  BY FS_Interval
<1>2. {i \in 1..Len(s) : s[i] \in G} \in SUBSET (1..Len(s))
  OBVIOUS
<1>3. IsFiniteSet({i \in 1..Len(s) : s[i] \in G})
  BY <1>1, <1>2, FS_Subset
<1> QED BY <1>3, FS_CardinalityType DEF Count

LEMMA CountEmpty == ASSUME NEW G PROVE Count(<<>>, G) = 0
<1>1. {i \in 1..Len(<<>>) : <<>>[i] \in G} = {}
  OBVIOUS
<1> QED BY <1>1, FS_EmptySet DEF Count

\* A packet at the end counts if it is of the kind.
LEMMA CountAppend ==
    ASSUME NEW s \in Seq(Packets), NEW p \in Packets, NEW G
    PROVE  Count(Append(s, p), G) = Count(s, G) + IF p \in G THEN 1 ELSE 0
<1> DEFINE old == {i \in 1..Len(s) : s[i] \in G}
           new == {i \in 1..Len(Append(s, p)) : Append(s, p)[i] \in G}
<1>1. /\ Len(Append(s, p)) = Len(s) + 1
      /\ \A i \in 1..Len(s) : Append(s, p)[i] = s[i]
      /\ Append(s, p)[Len(s) + 1] = p
  BY AppendProperties
<1>2. IsFiniteSet(old) /\ Cardinality(old) \in Nat /\ Len(s) \in Nat
  BY CountType, LenProperties DEF Count
<1>3. new = IF p \in G THEN old \cup {Len(s) + 1} ELSE old
  BY <1>1, <1>2
<1>4. Len(s) + 1 \notin old
  BY <1>2
<1> HIDE DEF old, new
<1>5. Cardinality(new) = Cardinality(old) + IF p \in G THEN 1 ELSE 0
  <2>1. CASE p \in G
    <3>1. Cardinality(old \cup {Len(s) + 1}) = Cardinality(old) + 1
      BY <1>2, <1>4, FS_AddElement
    <3> QED BY <1>3, <2>1, <3>1
  <2>2. CASE p \notin G
    BY <1>2, <1>3, <2>2
  <2> QED BY <2>1, <2>2
<1> QED BY <1>5 DEF old, new, Count

\* The packet at the head counts if it is of the kind.
LEMMA CountTail ==
    ASSUME NEW s \in Seq(Packets), s # <<>>, NEW G
    PROVE  Count(s, G) = Count(Tail(s), G) + IF Head(s) \in G THEN 1 ELSE 0
<1> DEFINE whole == {i \in 1..Len(s) : s[i] \in G}
           rest == {i \in 1..Len(Tail(s)) : Tail(s)[i] \in G}
           shift == [i \in rest |-> i + 1]
<1>1. /\ Tail(s) \in Seq(Packets) /\ Len(Tail(s)) = Len(s) - 1
      /\ \A i \in 1..Len(Tail(s)) : Tail(s)[i] = s[i + 1]
      /\ Head(s) = s[1] /\ Len(s) \in Nat \ {0}
  BY HeadTailProperties, LenProperties, EmptySeq
<1>2. IsFiniteSet(whole) /\ IsFiniteSet(rest) /\ Cardinality(whole) \in Nat
      /\ Cardinality(rest) \in Nat
  BY <1>1, CountType DEF Count
<1>3. whole \ {1} = {i + 1 : i \in rest}
  <2>1. ASSUME NEW i \in whole \ {1} PROVE i \in {j + 1 : j \in rest}
    <3>1. i - 1 \in rest /\ i = (i - 1) + 1
      BY <1>1
    <3> QED BY <3>1
  <2>2. ASSUME NEW i \in rest PROVE i + 1 \in whole \ {1}
    BY <1>1
  <2> QED BY <2>1, <2>2
<1>4. shift \in Bijection(rest, whole \ {1})
  <2>1. shift \in [rest -> whole \ {1}]
    BY <1>3
  <2>2. \A i, j \in rest : shift[i] = shift[j] => i = j
    OBVIOUS
  <2>3. \A k \in whole \ {1} : \E i \in rest : shift[i] = k
    BY <1>3
  <2> HIDE DEF shift, whole, rest
  <2> QED BY <2>1, <2>2, <2>3 DEF Bijection, Injection, Surjection,
                                IsInjective
<1>5. 1 \in whole <=> Head(s) \in G
  BY <1>1
<1> HIDE DEF shift, whole, rest
<1>6. Cardinality(whole \ {1}) = Cardinality(rest)
  BY <1>2, <1>4, FS_Bijection DEF ExistsBijection
<1>7. Cardinality(whole \ {1}) =
        IF 1 \in whole THEN Cardinality(whole) - 1 ELSE Cardinality(whole)
  BY <1>2, FS_RemoveElement
<1>8. Cardinality(whole) = Cardinality(rest) + IF Head(s) \in G THEN 1 ELSE 0
  BY <1>2, <1>5, <1>6, <1>7
<1> QED BY <1>8 DEF whole, rest, Count

\* Nothing is counted exactly if nothing of the kind is there.
LEMMA CountZero ==
    ASSUME NEW s \in Seq(Packets), NEW G
    PROVE  Count(s, G) = 0 <=> \A i \in 1..Len(s) : s[i] \notin G
<1>1. Count(s, G) = 0 <=> {i \in 1..Len(s) : s[i] \in G} = {}
  BY CountType, FS_EmptySet DEF Count
<1> QED BY <1>1

\* What holds of every packet of a sequence and of one more holds after it is
\* appended, and goes on to hold when the head is taken.
LEMMA EveryAppend ==
    ASSUME NEW s \in Seq(Packets), NEW p \in Packets, NEW G,
           \A i \in 1..Len(s) : s[i] \in G, p \in G
    PROVE  \A i \in 1..Len(Append(s, p)) : Append(s, p)[i] \in G
<1>1. /\ Len(Append(s, p)) = Len(s) + 1 /\ Len(s) \in Nat
      /\ \A i \in 1..Len(s) : Append(s, p)[i] = s[i]
      /\ Append(s, p)[Len(s) + 1] = p
  BY AppendProperties, LenProperties
<1> QED BY <1>1

LEMMA EveryTail ==
    ASSUME NEW s \in Seq(Packets), s # <<>>, NEW G,
           \A i \in 1..Len(s) : s[i] \in G
    PROVE  Head(s) \in G /\ \A i \in 1..Len(Tail(s)) : Tail(s)[i] \in G
<1>1. /\ Len(Tail(s)) = Len(s) - 1
      /\ \A i \in 1..Len(Tail(s)) : Tail(s)[i] = s[i + 1]
      /\ Head(s) = s[1] /\ Len(s) \in Nat \ {0}
  BY HeadTailProperties, LenProperties, EmptySeq
<1> QED BY <1>1

-----------------------------------------------------------------------------
(* One task at a time *)

\* Whoever is inside an operation owns the mutex, or is alone in MQTTYield.
LEMMA Exclusive == ASSUME OwnerInv, YieldAlone PROVE OneBusy
<1> USE DEF OwnerInv, MutexOwner, YieldAlone, OneBusy, Tasks
<1>1. ASSUME NEW t \in Tasks, NEW u \in Tasks, pc[t] \in Busy, pc[u] \in Busy
      PROVE  t = u
  <2>1. CASE t # RunTask /\ op[t].kind = "yield"
    BY <1>1, <2>1 DEF Busy
  <2>2. CASE u # RunTask /\ op[u].kind = "yield"
    BY <1>1, <2>2 DEF Busy
  <2>3. CASE /\ t = RunTask \/ op[t].kind # "yield"
             /\ u = RunTask \/ op[u].kind # "yield"
    BY <1>1, <2>3
  <2> QED BY <2>1, <2>2, <2>3
<1> QED BY <1>1

\* MQTTYield is called by a task that is alone, and no other task starts until
\* it returns.
LEMMA NextYield ==
    ASSUME SystemTypeOK, OwnerInv, YieldAlone, [Next]_allVars
    PROVE  YieldAlone'
<1> USE DEF YieldAlone
<1>0. /\ pc \in [Tasks -> Busy \cup {"idle", "lock"}]
      /\ op \in [Tasks -> Operations]
      /\ Apps \subseteq Tasks /\ RunTask \in Tasks /\ RunTask \notin Apps
  BY ClientAssumption DEF SystemTypeOK, TypeOK, Tasks
<1>1. CASE UNCHANGED <<pc, op>>
  BY <1>1
<1>2. ASSUME NEW t \in Tasks, Step(t)
      PROVE  YieldAlone'
  <2>1. pc[t] # "idle"
    BY <1>2 DEF Step, MutexLock, Refuse, SendRequest, KeepWaiting, GiveUp,
       readPacket, readFails, DispatchPublish, DispatchPubrec, DispatchOther,
       keepalive, FinishConnect, FinishSubscribe, FinishOther, Return
  <2>2. CASE MutexLock(t)
    BY <1>0, <2>1, <2>2 DEF MutexLock, Goto, OwnerInv, YieldOnlyCycles, Busy
  <2>3. CASE Return(t)
    BY <1>0, <2>1, <2>3 DEF Return, Goto, Busy
  <2>4. CASE ~MutexLock(t) /\ ~Return(t)
    <3>1. /\ pc[t] \in Busy
          /\ \A u \in Tasks : op'[u].kind = op[u].kind
          /\ \E place \in Busy : pc' = [pc EXCEPT ![t] = place]
      BY <1>2, <2>4, BusyStep DEF OwnerInv
    <3> QED BY <1>0, <2>1, <3>1 DEF Busy
  <2> QED BY <2>2, <2>3, <2>4
<1>3. ASSUME NEW t \in Apps, Call(t)
      PROVE  YieldAlone'
  <2>1. PICK r \in Requests :
            /\ r.kind = "yield" => pc[RunTask] = "idle" /\ Apps = {t}
            /\ op' = [op EXCEPT ![t] = r]
            /\ Goto(t, IF r.kind = "yield" THEN "read" ELSE "lock")
    BY <1>3 DEF Call
  <2> QED BY <1>0, <1>3, <2>1 DEF Call, Goto, Busy
<1>4. CASE MQTTStartTask
  BY <1>0, <1>4 DEF MQTTStartTask, Goto, Busy
<1> QED BY <1>1, <1>2, <1>3, <1>4
    DEF Next, allVars, vars, ClientStep, TimerExpires, PingTimerExpires,
        BrokerAnswers, BrokerTakes, BrokerPublishes, BrokerCloses, Reconnect

\* MQTTYield without a mutex is safe for the reason its comment gives
\* (MQTTClient.h:180): it is not used next to a background task.
LEMMA OneBusyAlways == Spec => []OneBusy
<1>1. SystemInit => YieldAlone
  BY DEF SystemInit, Init, YieldAlone, Tasks, Busy
<1>2. SystemTypeOK /\ OwnerInv /\ YieldAlone /\ [Next]_allVars => YieldAlone'
  BY NextYield
<1>3. OwnerInv /\ YieldAlone => OneBusy
  BY Exclusive
<1> QED BY <1>1, <1>2, <1>3, TypeCorrect, OwnerAlways, PTL DEF Spec

-----------------------------------------------------------------------------
(* What a step does to the traffic *)

\* The types of the packets an operation sends.
LEMMA RequestKind ==
    ASSUME NEW o \in Operations, NEW id
    PROVE  /\ Request(o, id).type \in {"CONNECT", "SUBSCRIBE", "UNSUBSCRIBE",
                                       "PUBLISH", "DISCONNECT"}
           /\ Request(o, id).id = IF o.kind \in {"subscribe", "unsubscribe", "publish"}
                                  THEN id ELSE 0
           /\ Request(o, id).type \in {"SUBSCRIBE", "UNSUBSCRIBE", "PUBLISH"}
                => o.kind \in {"subscribe", "unsubscribe", "publish"}
           /\ Request(o, id).type = "PUBLISH"
                => o.kind = "publish" /\ Request(o, id).code = o.qos
BY DEF Request, Packet, Plain, Operations

\* The steps of a task that neither read, dispatch, nor end a cycle leave the
\* stream from the broker and the packet last read alone; only a request is
\* sent by one of them.
LEMMA QuietStep ==
    ASSUME SystemTypeOK, NEW t \in Tasks,
           \/ MutexLock(t) \/ Refuse(t) \/ SendRequest(t) \/ KeepWaiting(t)
           \/ GiveUp(t) \/ FinishConnect(t) \/ FinishSubscribe(t)
           \/ FinishOther(t) \/ Return(t)
    PROVE  /\ UNCHANGED <<toClient, packet, ping_outstanding, peer, delivered>>
           /\ \E place \in {"idle", "lock", "send", "check", "read", "exit"} :
                 pc' = [pc EXCEPT ![t] = place]
           /\ \/ toBroker' = toBroker
              \/ /\ SendRequest(t) /\ peer = "open"
                 /\ \E id \in Ids : /\ toBroker' = Append(toBroker, Request(op[t], id))
                                    /\ Request(op[t], id) \in Packets
<1> USE DEF Goto, client, history
<1>1. CASE MutexLock(t)
  BY <1>1 DEF MutexLock
<1>2. CASE Refuse(t)
  BY <1>2 DEF Refuse
<1>3. CASE SendRequest(t)
  <2> DEFINE o == op[t]
             id == IF NeedsId(o) THEN getNextPacketId ELSE 0
             interval == IF o.kind = "connect" THEN KeepAlive
                                               ELSE keepAliveInterval
  <2>1. o \in Operations /\ id \in Ids
    BY NextIdType, PacketsAssumption DEF SystemTypeOK, TypeOK, Ids
  <2>2. Request(o, id) \in Packets
    BY <2>1, RequestType
  <2>3. \/ sendPacket(Request(o, id), interval)
        \/ UNCHANGED toBroker
    BY <1>3 DEF SendRequest
  <2>4. \/ toBroker' = toBroker
        \/ peer = "open" /\ toBroker' = Append(toBroker, Request(o, id))
    BY <2>3 DEF sendPacket
  <2>5. /\ UNCHANGED <<toClient, packet, ping_outstanding, peer, delivered>>
        /\ \E place \in {"check", "exit"} : pc' = [pc EXCEPT ![t] = place]
    BY <1>3 DEF SendRequest
  <2> QED BY <1>3, <2>1, <2>2, <2>4, <2>5
<1>4. CASE KeepWaiting(t)
  BY <1>4 DEF KeepWaiting
<1>5. CASE GiveUp(t)
  BY <1>5 DEF GiveUp
<1>6. CASE FinishConnect(t)
  BY <1>6 DEF FinishConnect
<1>7. CASE FinishSubscribe(t)
  BY <1>7 DEF FinishSubscribe
<1>8. CASE FinishOther(t)
  BY <1>8 DEF FinishOther
<1>9. CASE Return(t)
  BY <1>9 DEF Return
<1> QED BY <1>1, <1>2, <1>3, <1>4, <1>5, <1>6, <1>7, <1>8, <1>9

\* An answer from inside cycle is sent or not, and the task goes on to
\* keepalive or, when it was not, to wherever cycle returns to.
LEMMA AnswerStep ==
    ASSUME SystemTypeOK, NEW t \in Tasks, NEW p \in Packets, SendAnswer(t, p)
    PROVE  /\ \E place \in {"keepalive", "exit", "read", "check"} :
                 pc' = [pc EXCEPT ![t] = place]
           /\ \/ toBroker' = toBroker
              \/ peer = "open" /\ toBroker' = Append(toBroker, p)
           /\ \A u \in Tasks : op'[u].kind = op[u].kind /\ op'[u].id = op[u].id
           /\ op' = op \/ op' = [op EXCEPT ![t].rc = MQTT_FAILURE]
<1>1. AfterCycle(t, "FAILURE") \in {"exit", "read", "check"}
  BY DEF AfterCycle, Awaited, NoType
<1>2. op \in [Tasks -> Operations]
  BY DEF SystemTypeOK, TypeOK
<1>3. CASE sendPacket(p, keepAliveInterval) /\ Goto(t, "keepalive") /\ UNCHANGED op
  BY <1>3 DEF sendPacket, Goto
<1>4. CASE /\ SetResult(t, MQTT_FAILURE)
           /\ Goto(t, AfterCycle(t, "FAILURE"))
           /\ UNCHANGED <<toBroker, ping_timer>>
  <2>1. op' = [op EXCEPT ![t].rc = MQTT_FAILURE]
    BY <1>4 DEF SetResult
  <2>2. \A u \in Tasks : op'[u].kind = op[u].kind /\ op'[u].id = op[u].id
    BY <1>2, <2>1 DEF Operations
  <2> QED BY <1>1, <1>4, <2>1, <2>2 DEF Goto
<1> QED BY <1>3, <1>4 DEF SendAnswer

-----------------------------------------------------------------------------
(* Pings *)

LEMMA PingTypes ==
    ASSUME SystemTypeOK
    PROVE  /\ toBroker \in Seq(Packets) /\ toClient \in Seq(Packets)
           /\ packet \in Packets
           /\ PingsSent \in Nat /\ PingsAnswered \in Nat
           /\ pc \in [Tasks -> Busy \cup {"idle", "lock"}]
           /\ ping_outstanding \in BOOLEAN
BY CountType DEF SystemTypeOK, TypeOK, PingsSent, PingsAnswered

\* The sums NextPing makes: nothing grows; one moves from the first place to
\* the second, or from the second to the third; one is added where none was.
LEMMA SumShrinks ==
    ASSUME NEW s \in Nat, NEW a \in Nat, NEW r \in Nat, NEW d \in Nat,
           NEW s1 \in Nat, NEW a1 \in Nat, NEW r1 \in Nat,
           s + a + r <= d, s1 <= s, a1 <= a, r1 <= r
    PROVE  s1 + a1 + r1 <= d
OBVIOUS

LEMMA SumMoves ==
    ASSUME NEW s \in Nat, NEW a \in Nat, NEW r \in Nat, NEW d \in Nat,
           NEW s1 \in Nat, NEW a1 \in Nat, NEW r1 \in Nat,
           NEW h \in 0..1, NEW k \in 0..1, k <= h, s + a + r <= d,
           \/ s = s1 + h /\ a1 = a + k /\ r1 = r
           \/ s1 = s /\ a = a1 + h /\ r = 0 /\ r1 = k
    PROVE  s1 + a1 + r1 <= d
OBVIOUS

LEMMA SumGrows ==
    ASSUME NEW s \in Nat, NEW a \in Nat, NEW r \in Nat,
           NEW s1 \in Nat, NEW r1 \in Nat,
           s + a + r <= 0, s1 <= s + 1, r1 <= r
    PROVE  s1 + a + r1 <= 1
OBVIOUS

\* No step sends a PINGREQ while a ping is under way, and each answer is
\* counted off where it is read.
LEMMA NextPing ==
    ASSUME SystemTypeOK, SystemTypeOK', OneBusy, PingInv, [Next]_allVars
    PROVE  PingInv'
<1>0. /\ toBroker \in Seq(Packets) /\ toClient \in Seq(Packets)
      /\ packet \in Packets
      /\ pc \in [Tasks -> Busy \cup {"idle", "lock"}]
      /\ ping_outstanding \in BOOLEAN
  BY PingTypes
<1>n. /\ PingsSent \in Nat /\ PingsAnswered \in Nat
      /\ PingReads \in 0..1 /\ PingsAllowed \in 0..1
  <2>1. PingReads \in {0, 1} /\ PingsAllowed \in {0, 1}
    BY Zenon DEF PingReads, PingsAllowed
  <2> QED BY <2>1, PingTypes
<1>p. PICK sent \in Nat, answered \in Nat, read \in 0..1, allowed \in 0..1 :
          /\ sent = PingsSent' /\ answered = PingsAnswered'
          /\ read = PingReads' /\ allowed = PingsAllowed'
  <2>1. PingsSent' \in Nat /\ PingsAnswered' \in Nat
    BY CountType DEF SystemTypeOK, TypeOK, PingsSent, PingsAnswered, Count
  <2>2. PingReads' \in {0, 1} /\ PingsAllowed' \in {0, 1}
    BY Zenon DEF PingReads, PingsAllowed
  <2>3. PingReads' \in 0..1 /\ PingsAllowed' \in 0..1
    BY <2>2
  <2> QED BY <2>1, <2>3
<1> SUFFICES sent + answered + read <= allowed
  BY <1>p DEF PingInv
<1>r. /\ PingRead <=> PingReads = 1
      /\ PingRead' <=> read = 1
  BY <1>p DEF PingReads
<1>a. /\ ping_outstanding <=> PingsAllowed = 1
      /\ ping_outstanding' <=> allowed = 1
  BY <1>p DEF PingsAllowed
<1>1. /\ PingsSent = Count(toBroker, OfType({"PINGREQ"}))
      /\ sent = Count(toBroker', OfType({"PINGREQ"}))
      /\ PingsAnswered = Count(toClient, OfType({"PINGRESP"}))
      /\ answered = Count(toClient', OfType({"PINGRESP"}))
  BY <1>p DEF PingsSent, PingsAnswered, Count
<1>2. ASSUME NEW p \in Packets, toBroker' = Append(toBroker, p), p.type # "PINGREQ"
      PROVE  sent = PingsSent
  BY <1>0, <1>n, <1>1, <1>2, CountAppend DEF OfType
<1>3. toBroker' = toBroker => sent = PingsSent
  BY <1>1
<1>4. toClient' = toClient => answered = PingsAnswered
  BY <1>1
<1>5. toBroker' = <<>> => sent = 0
  BY <1>1, CountEmpty
<1>6. toClient' = <<>> => answered = 0
  BY <1>1, CountEmpty
<1>7. ASSUME sent <= PingsSent, answered <= PingsAnswered,
             PingRead' => PingRead, ping_outstanding' = ping_outstanding
      PROVE  sent + answered + read <= allowed
  <2>1. read <= PingReads
    BY <1>0, <1>n, <1>r, <1>7
  <2>2. allowed = PingsAllowed
    BY <1>p, <1>7 DEF PingsAllowed
  <2>3. sent + answered + read <= PingsAllowed
    BY <1>n, <1>7, <2>1, SumShrinks DEF PingInv
  <2> QED BY <2>2, <2>3 DEF PingInv
<1>8. ASSUME UNCHANGED <<packet, pc>> PROVE PingRead' = PingRead
  BY <1>8 DEF PingRead
<1>9. ASSUME NEW t \in Tasks, NEW place, place # "dispatch", packet' = packet,
             pc' = [pc EXCEPT ![t] = place]
      PROVE  PingRead' => PingRead
  BY <1>0, <1>n, <1>9 DEF PingRead
<1>10. ASSUME NEW t \in Tasks, Step(t)
       PROVE  sent + answered + read <= allowed
  <2>0. op[t] \in Operations
    BY DEF SystemTypeOK, TypeOK
  <2>1. CASE \/ MutexLock(t) \/ Refuse(t) \/ SendRequest(t) \/ KeepWaiting(t)
             \/ GiveUp(t) \/ FinishConnect(t) \/ FinishSubscribe(t)
             \/ FinishOther(t) \/ Return(t)
    <3>1. PingRead' => PingRead
      BY <1>9, <2>1, QuietStep
    <3>2. sent = PingsSent
      BY <1>2, <1>3, <2>0, <2>1, QuietStep, RequestKind
    <3>3. answered = PingsAnswered /\ ping_outstanding' = ping_outstanding
      BY <1>4, <2>1, QuietStep
    <3> QED BY <1>0, <1>n, <1>7, <3>1, <3>2, <3>3
  <2>2. CASE readPacket(t)
    <3>1. /\ toClient # <<>> /\ packet' = Head(toClient)
          /\ toClient' = Tail(toClient) /\ pc[t] = "read"
          /\ pc' = [pc EXCEPT ![t] = "dispatch"]
          /\ UNCHANGED <<toBroker, ping_outstanding>>
      BY <2>2 DEF readPacket, Goto, client
    <3>2. ~PingRead
      <4>1. \A u \in Tasks : pc[u] = "dispatch" => u = t
        BY <3>1 DEF OneBusy, Busy
      <4> QED BY <3>1, <4>1 DEF PingRead
    <3>3. Head(toClient) \in Packets
      BY <1>0, <1>n, <3>1, HeadTailProperties
    <3>4. PingsAnswered = answered
                + IF Head(toClient) \in OfType({"PINGRESP"}) THEN 1 ELSE 0
      BY <1>0, <1>n, <1>1, <3>1, CountTail
    <3>5. PingRead' => Head(toClient) \in OfType({"PINGRESP"})
      BY <3>1, <3>3 DEF PingRead, OfType
    <3>6. allowed = PingsAllowed
      BY <1>p, <3>1 DEF PingsAllowed
    <3> DEFINE h == IF Head(toClient) \in OfType({"PINGRESP"}) THEN 1 ELSE 0
    <3>7. h \in 0..1 /\ PingReads = 0 /\ read <= h
      BY <1>n, <1>r, <3>2, <3>5
    <3>8. sent = PingsSent /\ PingsAnswered = answered + h
      BY <1>3, <3>1, <3>4
    <3> HIDE DEF h
    <3>9. sent + answered + read <= PingsAllowed
      BY <1>n, <3>7, <3>8, SumMoves DEF PingInv
    <3> QED BY <3>6, <3>9 DEF PingInv
  <2>3. CASE readFails(t)
    <3>1. /\ packet' = NoPacket /\ pc' = [pc EXCEPT ![t] = "keepalive"]
          /\ UNCHANGED <<toBroker, toClient, ping_outstanding>>
      BY <2>3 DEF readFails, Goto, client
    <3>2. ~PingRead'
      BY <3>1 DEF PingRead, NoPacket, Plain, Packet, NoType
    <3> QED BY <1>0, <1>n, <1>3, <1>4, <1>7, <3>1, <3>2
  <2>4. ASSUME NEW p \in Packets, SendAnswer(t, p), p.type # "PINGREQ",
               UNCHANGED <<toClient, packet, ping_outstanding>>
        PROVE  sent + answered + read <= allowed
    <3>1. sent = PingsSent
      BY <1>2, <1>3, <2>4, AnswerStep
    <3>2. PingRead' => PingRead
      BY <1>9, <2>4, AnswerStep
    <3> QED BY <1>0, <1>n, <1>4, <1>7, <2>4, <3>1, <3>2
  <2>5. packet.id \in Ids /\ \A type \in PacketTypes :
            Ack(type, packet.id) \in Packets /\ Ack(type, packet.id).type = type
    BY <1>0, <1>n, AckType DEF Packets, Ack, Packet
  <2>6. CASE DispatchPublish(t)
    <3>1. UNCHANGED <<toClient, packet, ping_outstanding>>
      BY <2>6 DEF DispatchPublish
    <3>2. CASE Goto(t, "keepalive") /\ UNCHANGED <<toBroker, ping_timer, op>>
      <4>1. PingRead' => PingRead
        BY <1>9, <3>1, <3>2 DEF Goto
      <4> QED BY <1>0, <1>n, <1>3, <1>4, <1>7, <3>1, <3>2, <4>1
    <3>3. CASE \E type \in {"PUBACK", "PUBREC"} : SendAnswer(t, Ack(type, packet.id))
      BY <2>4, <2>5, <3>1, <3>3 DEF PacketTypes
    <3> QED BY <2>6, <3>2, <3>3 DEF DispatchPublish
  <2>7. CASE DispatchPubrec(t)
    <3>1. /\ UNCHANGED <<toClient, packet, ping_outstanding>>
          /\ SendAnswer(t, Ack("PUBREL", packet.id))
      BY <2>7 DEF DispatchPubrec
    <3> QED BY <2>4, <2>5, <3>1 DEF PacketTypes
  <2>8. CASE DispatchOther(t)
    <3>1. /\ pc[t] = "dispatch" /\ pc' = [pc EXCEPT ![t] = "keepalive"]
          /\ UNCHANGED <<toBroker, toClient, packet>>
          /\ ping_outstanding' = (ping_outstanding /\ packet.type # "PINGRESP")
      BY <2>8 DEF DispatchOther, Goto
    <3>2. ~PingRead'
      <4>1. \A u \in Tasks : pc[u] = "dispatch" => u = t
        BY <3>1 DEF OneBusy, Busy
      <4>2. \A u \in Tasks : pc'[u] # "dispatch"
        BY <1>0, <1>n, <3>1, <4>1
      <4> QED BY <4>2 DEF PingRead
    <3>3. packet.type = "PINGRESP" => PingRead
      BY <3>1 DEF PingRead
    <3>4. read = 0 /\ (packet.type = "PINGRESP" => PingReads = 1)
      BY <1>0, <1>n, <1>r, <3>2, <3>3
    <3>5. packet.type # "PINGRESP" => allowed = PingsAllowed
      BY <1>0, <1>p, <3>1 DEF PingsAllowed
    <3>6. sent = PingsSent /\ answered = PingsAnswered
      BY <1>3, <1>4, <3>1
    <3>7. CASE packet.type = "PINGRESP"
      <4>1. PingsSent = 0 /\ PingsAnswered = 0
        BY <1>n, <3>4, <3>7 DEF PingInv
      <4> QED BY <1>n, <3>4, <3>6, <4>1 DEF PingInv
    <3>8. CASE packet.type # "PINGRESP"
      <4>1. read <= PingReads
        BY <1>n, <3>4
      <4>2. sent + answered + read <= PingsAllowed
        BY <1>n, <3>6, <4>1, SumShrinks DEF PingInv
      <4> QED BY <3>5, <3>8, <4>2 DEF PingInv
    <3> QED BY <3>7, <3>8
  <2>9. CASE keepalive(t)
    <3>1. AfterCycle(t, packet.type) # "dispatch"
      BY DEF AfterCycle
    <3>2. /\ pc' = [pc EXCEPT ![t] = AfterCycle(t, packet.type)]
          /\ UNCHANGED <<toClient, packet>>
      BY <2>9 DEF keepalive, Goto
    <3>3. PingRead' => PingRead
      BY <1>9, <3>1, <3>2
    <3>4. CASE UNCHANGED <<toBroker, ping_timer, ping_outstanding>>
      BY <1>0, <1>n, <1>3, <1>4, <1>7, <3>2, <3>3, <3>4
    <3>5. CASE /\ PingDue
               /\ sendPacket(Plain("PINGREQ"), keepAliveInterval)
               /\ ping_outstanding' = TRUE
      <4>1. sent <= PingsSent + 1
        <5>1. Plain("PINGREQ") \in Packets
          BY PlainType DEF PacketTypes
        <5>2. toBroker' = toBroker \/ toBroker' = Append(toBroker, Plain("PINGREQ"))
          BY <3>5 DEF sendPacket
        <5>3. toBroker' = Append(toBroker, Plain("PINGREQ"))
                => sent <= PingsSent + 1
          BY <1>0, <1>n, <1>1, <5>1, CountAppend
        <5> QED BY <1>0, <1>n, <1>3, <5>2, <5>3
      <4>2. PingsAllowed = 0 /\ allowed = 1
        BY <1>p, <3>5 DEF PingDue, PingsAllowed
      <4>3. read <= PingReads
        BY <1>0, <1>n, <1>r, <3>3
      <4>4. answered = PingsAnswered
        BY <1>4, <3>2
      <4>5. sent + PingsAnswered + read <= 1
        BY <1>n, <4>1, <4>2, <4>3, SumGrows DEF PingInv
      <4> QED BY <4>2, <4>4, <4>5 DEF PingInv
    <3> QED BY <2>9, <3>4, <3>5 DEF keepalive
  <2> QED BY <1>10, <2>1, <2>2, <2>3, <2>6, <2>7, <2>8, <2>9 DEF Step
<1>11. ASSUME UNCHANGED <<toBroker, toClient, packet, pc, ping_outstanding>>
       PROVE  sent + answered + read <= allowed
  BY <1>0, <1>n, <1>3, <1>4, <1>7, <1>8, <1>11
<1>12. ASSUME NEW t \in Apps, Call(t)
       PROVE  sent + answered + read <= allowed
  <2>1. PICK r \in Requests : Goto(t, IF r.kind = "yield" THEN "read" ELSE "lock")
    BY <1>12 DEF Call
  <2>2. UNCHANGED <<toBroker, toClient, packet, ping_outstanding>>
    BY <1>12 DEF Call, client
  <2>3. PingRead' => PingRead
    <3>1. \E place \in {"read", "lock"} : pc' = [pc EXCEPT ![t] = place]
      BY <2>1 DEF Goto
    <3>2. t \in Tasks
      BY DEF Tasks
    <3> QED BY <1>9, <2>2, <3>1, <3>2
  <2> QED BY <1>0, <1>n, <1>3, <1>4, <1>7, <2>2, <2>3
<1>13. CASE MQTTStartTask
  <2>1. UNCHANGED <<toBroker, toClient, packet, ping_outstanding>>
        /\ pc' = [pc EXCEPT ![RunTask] = "lock"]
    BY <1>13 DEF MQTTStartTask, Goto, client
  <2>2. PingRead' => PingRead
    BY <1>9, <2>1 DEF Tasks
  <2> QED BY <1>0, <1>n, <1>3, <1>4, <1>7, <2>1, <2>2
<1>14. CASE BrokerAnswers
  <2>1. PICK a \in Answers(Head(toBroker)) : toClient' = Append(toClient, a)
    BY <1>14 DEF BrokerAnswers
  <2>2. toBroker # <<>> /\ toBroker' = Tail(toBroker)
        /\ UNCHANGED <<packet, pc, ping_outstanding>>
    BY <1>14 DEF BrokerAnswers, client
  <2>3. Head(toBroker) \in Packets
    BY <1>0, <1>n, <2>2, HeadTailProperties
  <2>4. a \in Packets
    BY <2>1, <2>3, AnswerType
  <2>5. a.type = "PINGRESP" => Head(toBroker).type = "PINGREQ"
    BY <2>1 DEF Answers, Ack, Plain, Packet
  <2>6. PingsSent = sent + IF Head(toBroker).type = "PINGREQ" THEN 1 ELSE 0
    BY <1>0, <1>n, <1>1, <2>2, <2>3, CountTail DEF OfType
  <2>7. answered = PingsAnswered + IF a.type = "PINGRESP" THEN 1 ELSE 0
    BY <1>0, <1>n, <1>1, <2>1, <2>4, CountAppend DEF OfType
  <2>8. read = PingReads /\ allowed = PingsAllowed
    BY <1>p, <1>8, <2>2 DEF PingReads, PingsAllowed
  <2> DEFINE h == IF Head(toBroker).type = "PINGREQ" THEN 1 ELSE 0
             k == IF a.type = "PINGRESP" THEN 1 ELSE 0
  <2>9. h \in 0..1 /\ k \in 0..1 /\ k <= h
    BY <2>5
  <2>10. PingsSent = sent + h /\ answered = PingsAnswered + k
    BY <2>6, <2>7
  <2> HIDE DEF h, k
  <2>11. sent + answered + read <= PingsAllowed
    BY <1>n, <2>8, <2>9, <2>10, SumMoves DEF PingInv
  <2> QED BY <2>8, <2>11 DEF PingInv
<1>15. CASE BrokerTakes
  <2>1. toBroker # <<>> /\ toBroker' = Tail(toBroker)
        /\ UNCHANGED <<packet, pc, ping_outstanding, toClient>>
    BY <1>15 DEF BrokerTakes, client
  <2>2. sent <= PingsSent
    BY <1>0, <1>n, <1>1, <2>1, CountTail
  <2> QED BY <1>0, <1>n, <1>4, <1>7, <1>8, <2>1, <2>2
<1>16. CASE BrokerPublishes
  <2>1. PICK topic \in Topics, qos \in QoS :
           toClient' = Append(toClient,
                Packet("PUBLISH", IF qos = 0 THEN 0 ELSE 1, topic, qos))
    BY <1>16 DEF BrokerPublishes
  <2>2. UNCHANGED <<toBroker, packet, pc, ping_outstanding>>
    BY <1>16 DEF BrokerPublishes, client
  <2>3. Packet("PUBLISH", IF qos = 0 THEN 0 ELSE 1, topic, qos) \in Packets
    BY <2>1, PacketType, PacketsAssumption DEF PacketTypes, Ids, Codes
  <2>4. Packet("PUBLISH", IF qos = 0 THEN 0 ELSE 1, topic, qos)
            \notin OfType({"PINGRESP"})
    BY DEF Packet, OfType
  <2>5. answered = PingsAnswered
    BY <1>0, <1>n, <1>1, <2>1, <2>3, <2>4, CountAppend
  <2> QED BY <1>0, <1>n, <1>3, <1>7, <1>8, <2>2, <2>5
<1>17. CASE BrokerCloses
  BY <1>0, <1>n, <1>4, <1>5, <1>7, <1>8, <1>17 DEF BrokerCloses, client
<1>18. CASE Reconnect
  BY <1>0, <1>n, <1>5, <1>6, <1>7, <1>8, <1>18 DEF Reconnect, client
<1> QED BY <1>10, <1>11, <1>12, <1>13, <1>14, <1>15, <1>16, <1>17, <1>18
    DEF Next, allVars, vars, client, ClientStep, TimerExpires, PingTimerExpires

\* However a PINGRESP is delayed or lost and the ping timer goes on expiring,
\* at most one ping is under way (keepalive, MQTTClient.c:195).
THEOREM OnePingAlways == Spec => []OnePing
<1>1. SystemInit => PingInv
  <2>1. ASSUME SystemInit PROVE PingInv
    <3>1. PingsSent = 0 /\ PingsAnswered = 0
      BY <2>1, CountEmpty DEF SystemInit, Init, PingsSent, PingsAnswered
    <3>2. ~PingRead
      BY <2>1 DEF SystemInit, Init, PingRead
    <3> QED BY <3>1, <3>2 DEF PingInv, PingReads, PingsAllowed
  <2> QED BY <2>1
<1>2. SystemTypeOK /\ SystemTypeOK' /\ OneBusy /\ PingInv /\ [Next]_allVars
        => PingInv'
  BY NextPing
<1>3. ASSUME SystemTypeOK, OneBusy, PingInv PROVE OnePing
  <2> DEFINE readers == {t \in Tasks : pc[t] = "dispatch" /\ packet.type = "PINGRESP"}
  <2>1. \A i \in 1..Len(toBroker) : toBroker[i] \in OfType({"PINGREQ"})
                                        <=> toBroker[i].type = "PINGREQ"
    BY <1>3, PingTypes DEF OfType
  <2>2. \A i \in 1..Len(toClient) : toClient[i] \in OfType({"PINGRESP"})
                                        <=> toClient[i].type = "PINGRESP"
    BY <1>3, PingTypes DEF OfType
  <2>3. {i \in 1..Len(toBroker) : toBroker[i].type = "PINGREQ"} =
        {i \in 1..Len(toBroker) : toBroker[i] \in OfType({"PINGREQ"})}
    BY <2>1
  <2>4. {i \in 1..Len(toClient) : toClient[i].type = "PINGRESP"} =
        {i \in 1..Len(toClient) : toClient[i] \in OfType({"PINGRESP"})}
    BY <2>2
  <2>5. Cardinality(readers) = IF PingRead THEN 1 ELSE 0
    <3>1. CASE PingRead
      <4>1. PICK t \in readers : TRUE
        BY <3>1 DEF PingRead
      <4>2. readers = {t}
        BY <1>3, <4>1 DEF OneBusy, Busy
      <4> QED BY <3>1, <4>2, FS_Singleton
    <3>2. CASE ~PingRead
      <4>1. readers = {}
        BY <3>2 DEF PingRead
      <4> QED BY <3>2, <4>1, FS_EmptySet
    <3> QED BY <3>1, <3>2
  <2>6. PingsUnderWay = PingsSent + PingsAnswered + PingReads
    BY <2>3, <2>4, <2>5 DEF PingsUnderWay, PingsSent, PingsAnswered,
       PingReads, Count
  <2> QED BY <1>3, <2>6 DEF OnePing, PingInv, PingsAllowed
<1> QED BY <1>1, <1>2, <1>3, TypeCorrect, OneBusyAlways, PTL DEF Spec

-----------------------------------------------------------------------------
(* The session *)

\* A task reaches "finish" by the end of a cycle only, an operation keeps its
\* kind and QoS while it runs, and only a read changes the packet.
LEMMA StepPlace ==
    ASSUME SystemTypeOK, FinishInv, NEW t \in Tasks, Step(t)
    PROVE  /\ \E place \in Busy \cup {"idle", "lock"} :
                 /\ pc' = [pc EXCEPT ![t] = place]
                 /\ place = "finish" =>
                        keepalive(t) /\ AfterCycle(t, packet.type) = "finish"
                 /\ place \in {"keepalive", "finish"} =>
                        readFails(t) \/ pc[t] \in {"dispatch", "keepalive"}
                 /\ place = "dispatch" => readPacket(t)
                 /\ place \in Cycling =>
                        \/ pc[t] \in Cycling
                        \/ SendRequest(t) /\ Awaited(op[t]) # NoType
                        \/ t = RunTask
                 /\ place \in {"send", "check", "finish"} => t # RunTask
           /\ \A u \in Tasks : op'[u].kind = op[u].kind /\ op'[u].qos = op[u].qos
           /\ packet' = packet \/ readPacket(t) \/ readFails(t)
           /\ toClient' = toClient \/ readPacket(t)
<1> USE DEF Goto, Busy, Cycling
<1>0. op \in [Tasks -> Operations]
  BY DEF SystemTypeOK, TypeOK
<1>1. CASE MutexLock(t) \/ Refuse(t) \/ KeepWaiting(t) \/ Return(t)
  BY <1>1 DEF MutexLock, Refuse, KeepWaiting, Return
<1>2. CASE readPacket(t) \/ readFails(t)
  BY <1>2 DEF readPacket, readFails
<1>3. CASE SendRequest(t)
  <2>1. \A u \in Tasks : op'[u].kind = op[u].kind /\ op'[u].qos = op[u].qos
    BY <1>0, <1>3 DEF SendRequest, Operations
  <2>2. \E place \in {"exit", "check"} :
            /\ pc' = [pc EXCEPT ![t] = place]
            /\ place = "check" => Awaited(op[t]) # NoType
    BY <1>3 DEF SendRequest
  <2>4. t # RunTask
    BY <1>3 DEF SendRequest, FinishInv
  <2>3. packet' = packet /\ toClient' = toClient
    BY <1>3 DEF SendRequest
  <2> QED BY <1>3, <2>1, <2>2, <2>3, <2>4
<1>4. CASE GiveUp(t)
  BY <1>0, <1>4 DEF GiveUp, SetResult, Operations
<1>5. ASSUME NEW p, SendAnswer(t, p)
      PROVE  /\ \A u \in Tasks : op'[u].kind = op[u].kind /\ op'[u].qos = op[u].qos
             /\ \E place \in {"keepalive", "exit", "read", "check"} :
                    /\ pc' = [pc EXCEPT ![t] = place]
                    /\ place = "check" => t # RunTask
  <2>1. op' = op \/ op' = [op EXCEPT ![t].rc = MQTT_FAILURE]
    BY <1>5 DEF SendAnswer, SetResult
  <2>2. \A u \in Tasks : op'[u].kind = op[u].kind /\ op'[u].qos = op[u].qos
    BY <1>0, <2>1 DEF Operations
  <2>3. /\ AfterCycle(t, "FAILURE") \in {"exit", "read", "check"}
        /\ AfterCycle(t, "FAILURE") = "check" => t # RunTask
    BY DEF AfterCycle, Awaited, NoType
  <2> QED BY <1>5, <2>2, <2>3 DEF SendAnswer
<1>6. CASE DispatchPublish(t)
  <2>0. pc[t] = "dispatch" /\ UNCHANGED <<packet, toClient>>
    BY <1>6 DEF DispatchPublish
  <2>1. CASE Goto(t, "keepalive") /\ UNCHANGED <<toBroker, ping_timer, op>>
    BY <2>0, <2>1
  <2>2. CASE \E p : SendAnswer(t, p)
    <3>1. PICK place \in {"keepalive", "exit", "read", "check"} :
              /\ pc' = [pc EXCEPT ![t] = place]
              /\ place = "check" => t # RunTask
      BY <1>5, <2>2
    <3>2. \A u \in Tasks : op'[u].kind = op[u].kind /\ op'[u].qos = op[u].qos
      BY <1>5, <2>2
    <3> QED BY <2>0, <3>1, <3>2
  <2> QED BY <1>6, <2>1, <2>2 DEF DispatchPublish
<1>7. CASE DispatchPubrec(t)
  <2>0. /\ pc[t] = "dispatch" /\ UNCHANGED <<packet, toClient>>
        /\ SendAnswer(t, Ack("PUBREL", packet.id))
    BY <1>7 DEF DispatchPubrec
  <2>1. PICK place \in {"keepalive", "exit", "read", "check"} :
            /\ pc' = [pc EXCEPT ![t] = place]
            /\ place = "check" => t # RunTask
    BY <1>5, <2>0
  <2>2. \A u \in Tasks : op'[u].kind = op[u].kind /\ op'[u].qos = op[u].qos
    BY <1>5, <2>0
  <2> QED BY <2>0, <2>1, <2>2
<1>8. CASE DispatchOther(t)
  BY <1>8 DEF DispatchOther
<1>9. CASE keepalive(t)
  <2>1. /\ AfterCycle(t, packet.type) \in {"exit", "read", "check", "finish"}
        /\ AfterCycle(t, packet.type) \in {"check", "finish"} => t # RunTask
    BY DEF AfterCycle
  <2> QED BY <1>9, <2>1 DEF keepalive
<1>10. CASE FinishConnect(t) \/ FinishSubscribe(t) \/ FinishOther(t)
  <2>1. \E rc : op' = [op EXCEPT ![t].rc = rc]
    BY <1>10 DEF FinishConnect, FinishSubscribe, FinishOther, SetResult
  <2>2. \A u \in Tasks : op'[u].kind = op[u].kind /\ op'[u].qos = op[u].qos
    BY <1>0, <2>1 DEF Operations
  <2> QED BY <1>10, <2>2 DEF FinishConnect, FinishSubscribe, FinishOther
<1> QED BY <1>1, <1>2, <1>3, <1>4, <1>6, <1>7, <1>8, <1>9, <1>10 DEF Step

\* An operation goes on only with the type of packet it waits for.
LEMMA NextFinish ==
    ASSUME SystemTypeOK, OneBusy, FinishInv, [Next]_allVars
    PROVE  FinishInv'
<1> USE DEF FinishInv, Cycling
<1>0. /\ pc \in [Tasks -> Busy \cup {"idle", "lock"}]
      /\ op \in [Tasks -> Operations]
      /\ Apps \subseteq Tasks /\ RunTask \in Tasks /\ RunTask \notin Apps
  BY ClientAssumption DEF SystemTypeOK, TypeOK, Tasks
<1>1. CASE UNCHANGED <<pc, op, packet>>
  BY <1>1
<1>2. ASSUME NEW t \in Tasks, Step(t)
      PROVE  FinishInv'
  <2>1. PICK place \in Busy \cup {"idle", "lock"} :
            /\ pc' = [pc EXCEPT ![t] = place]
            /\ place = "finish" =>
                   keepalive(t) /\ AfterCycle(t, packet.type) = "finish"
            /\ place \in Cycling =>
                   \/ pc[t] \in Cycling
                   \/ SendRequest(t) /\ Awaited(op[t]) # NoType
                   \/ t = RunTask
            /\ place \in {"send", "check", "finish"} => t # RunTask
    BY <1>2, StepPlace
  <2>2. \A u \in Tasks : Awaited(op'[u]) = Awaited(op[u]) /\ op'[u].kind = op[u].kind
    BY <1>2, StepPlace DEF Awaited
  <2>3. pc'[RunTask] \notin {"send", "check", "finish"}
    BY <1>0, <2>1
  <2>4. ASSUME NEW u \in Apps, pc'[u] = "finish"
        PROVE  packet'.type = Awaited(op'[u])
    <3>1. CASE u = t
      <4>1. keepalive(t) /\ AfterCycle(t, packet.type) = "finish"
        BY <1>0, <2>1, <2>4, <3>1
      <4>2. packet' = packet /\ packet.type = Awaited(op[t])
        BY <4>1 DEF keepalive, AfterCycle
      <4> QED BY <1>0, <2>2, <3>1, <4>2
    <3>2. CASE u # t
      <4>1. pc[u] = "finish"
        BY <1>0, <2>1, <2>4, <3>2
      <4>2. pc[t] # "read"
        BY <1>0, <3>2, <4>1 DEF OneBusy, Busy
      <4>3. packet' = packet
        BY <1>2, <4>2, StepPlace DEF readPacket, readFails
      <4> QED BY <1>0, <2>2, <4>1, <4>3
    <3> QED BY <3>1, <3>2
  <2>5. ASSUME NEW u \in Apps, pc'[u] \in Cycling, op'[u].kind # "yield"
        PROVE  Awaited(op'[u]) # NoType
    <3>1. CASE pc[u] \in Cycling
      BY <1>0, <2>2, <2>5, <3>1
    <3>2. CASE pc[u] \notin Cycling
      BY <1>0, <2>1, <2>2, <2>5, <3>2
    <3> QED BY <3>1, <3>2
  <2> QED BY <2>3, <2>4, <2>5
<1>3. ASSUME NEW t \in Apps, Call(t)
      PROVE  FinishInv'
  <2>1. PICK r \in Requests :
            /\ op' = [op EXCEPT ![t] = r]
            /\ Goto(t, IF r.kind = "yield" THEN "read" ELSE "lock")
    BY <1>3 DEF Call
  <2>2. packet' = packet
    BY <1>3 DEF Call
  <2> QED BY <1>0, <2>1, <2>2 DEF Goto
<1>4. CASE MQTTStartTask
  BY <1>0, <1>4 DEF MQTTStartTask, Goto
<1> QED BY <1>1, <1>2, <1>3, <1>4
    DEF Next, allVars, vars, ClientStep, TimerExpires, PingTimerExpires,
        BrokerAnswers, BrokerTakes, BrokerPublishes, BrokerCloses, Reconnect

\* An operation ends with a packet of the type it waits for, and never in the
\* background task.
LEMMA FinishAlways == Spec => []FinishInv
<1>1. SystemInit => FinishInv
  BY ClientAssumption DEF SystemInit, Init, FinishInv, Cycling, Tasks
<1>2. SystemTypeOK /\ OneBusy /\ FinishInv /\ [Next]_allVars => FinishInv'
  BY NextFinish
<1> QED BY <1>1, <1>2, TypeCorrect, OneBusyAlways, PTL DEF Spec

\* No CONNACK of an earlier connection is left to be taken for one of this.
LEMMA NextSession ==
    ASSUME SystemTypeOK, OneBusy, FinishInv, SessionInv, [Next]_allVars
    PROVE  SessionInv'
<1> DEFINE Refused ==
        /\ \A i \in 1..Len(toClient) : toClient[i] \notin Accepted
        /\ \A t \in Apps : pc[t] \in {"dispatch", "keepalive", "finish"}
                                => packet \notin Accepted
<1>0. /\ pc \in [Tasks -> Busy \cup {"idle", "lock"}]
      /\ op \in [Tasks -> Operations]
      /\ toClient \in Seq(Packets) /\ toBroker \in Seq(Packets)
      /\ packet \in Packets /\ session \in BOOLEAN /\ isconnected \in BOOLEAN
      /\ connections \in Nat /\ joined \in Nat
      /\ Apps \subseteq Tasks /\ RunTask \in Tasks /\ RunTask \notin Apps
  BY ClientAssumption, SystemAssumption DEF SystemTypeOK, TypeOK, Tasks
<1>n. NoPacket \notin Accepted
  BY DEF NoPacket, Plain, Packet, NoType, Accepted
<1>s. /\ joined <= connections
      /\ isconnected /\ joined = connections /\ peer = "open" => session
      /\ peer = "open" /\ ~session => Refused
  BY DEF SessionInv, ConnectedIsAccepted
<1>g. ASSUME joined' <= connections',
             isconnected' /\ joined' = connections' /\ peer' = "open" => session',
             peer' = "open" /\ ~session' => Refused'
      PROVE  SessionInv'
  BY <1>g DEF SessionInv, ConnectedIsAccepted
<1>1. ASSUME NEW t \in Tasks, ClientStep(t)
      PROVE  SessionInv'
  <2>0. Step(t) /\ connections' = connections /\ session' = session
        /\ joined' = IF isconnected' /\ ~isconnected THEN connections ELSE joined
    BY <1>1 DEF ClientStep, broker
  <2>1. peer' = peer
    BY <2>0 DEF Step, MutexLock, Refuse, SendRequest, KeepWaiting, GiveUp,
       readPacket, readFails, DispatchPublish, DispatchPubrec, DispatchOther,
       keepalive, FinishConnect, FinishSubscribe, FinishOther, Return
  <2>2. isconnected' => isconnected \/ FinishConnect(t)
    BY <2>0 DEF Step, MutexLock, Refuse, SendRequest, KeepWaiting, GiveUp,
       readPacket, readFails, DispatchPublish, DispatchPubrec, DispatchOther,
       keepalive, FinishSubscribe, FinishOther, Return, client
  <2>3. FinishConnect(t) /\ isconnected' /\ peer = "open" => session
    <3>1. ASSUME FinishConnect(t), isconnected'
          PROVE  packet \in Accepted /\ t \in Apps /\ pc[t] = "finish"
      <4>1. pc[t] = "finish" /\ op[t].kind = "connect" /\ packet.code = 0
        BY <3>1 DEF FinishConnect
      <4>2. t # RunTask /\ packet.type = "CONNACK"
        BY <1>0, <4>1 DEF FinishInv, Awaited, Tasks
      <4> QED BY <1>0, <4>1, <4>2 DEF Accepted, Tasks
    <3> QED BY <1>s, <3>1
  <2>4. PICK place \in Busy \cup {"idle", "lock"} :
            /\ pc' = [pc EXCEPT ![t] = place]
            /\ place = "finish" => keepalive(t)
            /\ place \in {"keepalive", "finish"} =>
                   readFails(t) \/ pc[t] \in {"dispatch", "keepalive"}
            /\ place = "dispatch" => readPacket(t)
    BY <2>0, StepPlace
  <2>5. ASSUME Refused PROVE Refused'
    <3>1. \A i \in 1..Len(toClient') : toClient'[i] \notin Accepted
      <4>1. CASE toClient' = toClient
        BY <2>5, <4>1
      <4>2. CASE readPacket(t)
        <5>1. toClient # <<>> /\ toClient' = Tail(toClient)
          BY <4>2 DEF readPacket
        <5>2. \A i \in 1..Len(toClient) : toClient[i] \in Packets \ Accepted
          BY <1>0, <2>5
        <5>3. \A i \in 1..Len(Tail(toClient)) : Tail(toClient)[i] \in Packets \ Accepted
          BY <1>0, <5>1, <5>2, EveryTail
        <5> QED BY <5>1, <5>3
      <4> QED BY <2>0, <4>1, <4>2, StepPlace
    <3>2. ASSUME NEW u \in Apps, pc'[u] \in {"dispatch", "keepalive", "finish"}
          PROVE  packet' \notin Accepted
      <4>1. CASE readPacket(t)
        <5>1. toClient # <<>> /\ packet' = Head(toClient)
          BY <4>1 DEF readPacket
        <5>2. \A i \in 1..Len(toClient) : toClient[i] \in Packets \ Accepted
          BY <1>0, <2>5
        <5> QED BY <1>0, <5>1, <5>2, EveryTail
      <4>2. CASE readFails(t)
        BY <1>n, <4>2 DEF readFails
      <4>3. CASE ~readPacket(t) /\ ~readFails(t)
        <5>1. packet' = packet
          BY <2>0, <4>3, StepPlace
        <5>2. pc[u] \in {"dispatch", "keepalive", "finish"}
          BY <1>0, <2>4, <3>2, <4>3 DEF keepalive
        <5> QED BY <2>5, <5>1, <5>2
      <4> QED BY <4>1, <4>2, <4>3
    <3> QED BY <3>1, <3>2
  <2>6. joined' <= connections'
    BY <1>0, <1>s, <2>0
  <2>7. isconnected' /\ joined' = connections' /\ peer' = "open" => session'
    BY <1>s, <2>0, <2>1, <2>2, <2>3
  <2>8. peer' = "open" /\ ~session' => Refused'
    BY <1>s, <2>0, <2>1, <2>5
  <2> QED BY <1>g, <2>6, <2>7, <2>8
<1>2. ASSUME UNCHANGED <<connections, joined, isconnected, peer, session,
                         toClient, packet>>,
             \A u \in Apps : pc'[u] \in {"dispatch", "keepalive", "finish"}
                                => pc[u] = pc'[u]
      PROVE  SessionInv'
  BY <1>2 DEF SessionInv, ConnectedIsAccepted
<1>3. ASSUME NEW t \in Apps, Call(t), UNCHANGED <<broker, connections, joined>>
      PROVE  SessionInv'
  <2>1. PICK r \in Requests : Goto(t, IF r.kind = "yield" THEN "read" ELSE "lock")
    BY <1>3 DEF Call
  <2> QED BY <1>0, <1>2, <1>3, <2>1 DEF Call, Goto, client, broker
<1>4. CASE MQTTStartTask /\ UNCHANGED <<broker, connections, joined>>
  BY <1>0, <1>2, <1>4 DEF MQTTStartTask, Goto, client, broker
<1>5. CASE BrokerAnswers
  <2>1. PICK a \in Answers(Head(toBroker)) :
            /\ toClient' = Append(toClient, a)
            /\ session' = (session \/ (Head(toBroker).type = "CONNECT" /\ a.code = 0))
    BY <1>5 DEF BrokerAnswers
  <2>2. /\ toBroker # <<>>
        /\ UNCHANGED <<packet, pc, isconnected, peer, connections, joined>>
    BY <1>5 DEF BrokerAnswers, client
  <2>3. Head(toBroker) \in Packets
    BY <1>0, <2>2, HeadTailProperties
  <2>4. a \in Packets
    BY <2>1, <2>3, AnswerType
  <2>5. a \in Accepted => session'
    <3>1. a.type = "CONNACK" => Head(toBroker).type = "CONNECT"
      BY <2>1 DEF Answers, Ack, Plain, Packet
    <3> QED BY <2>1, <3>1 DEF Accepted
  <2>6. session => session'
    BY <2>1
  <2>7. ASSUME ~session', Refused PROVE Refused'
    <3>1. a \in Packets \ Accepted
      BY <2>4, <2>5, <2>7
    <3>2. \A i \in 1..Len(toClient) : toClient[i] \in Packets \ Accepted
      BY <1>0, <2>7
    <3>3. \A i \in 1..Len(Append(toClient, a)) :
              Append(toClient, a)[i] \in Packets \ Accepted
      BY <1>0, <2>4, <3>1, <3>2, EveryAppend
    <3> QED BY <2>1, <2>2, <2>7, <3>3
  <2> QED BY <1>s, <1>g, <2>2, <2>6, <2>7
<1>6. CASE BrokerPublishes
  <2>1. PICK topic \in Topics, qos \in QoS :
           toClient' = Append(toClient,
                Packet("PUBLISH", IF qos = 0 THEN 0 ELSE 1, topic, qos))
    BY <1>6 DEF BrokerPublishes
  <2>2. UNCHANGED <<packet, pc, isconnected, peer, session, connections, joined>>
    BY <1>6 DEF BrokerPublishes, client
  <2> DEFINE m == Packet("PUBLISH", IF qos = 0 THEN 0 ELSE 1, topic, qos)
  <2>3. m \in Packets /\ m \notin Accepted
    <3>1. m \in Packets
      BY <2>1, PacketType, PacketsAssumption DEF PacketTypes, Ids, Codes
    <3> QED BY <3>1 DEF Accepted, Packet
  <2>4. ASSUME Refused PROVE Refused'
    <3>2. \A i \in 1..Len(toClient) : toClient[i] \in Packets \ Accepted
      BY <1>0, <2>4
    <3> HIDE DEF m
    <3>3. \A i \in 1..Len(Append(toClient, m)) :
              Append(toClient, m)[i] \in Packets \ Accepted
      BY <1>0, <2>3, <3>2, EveryAppend
    <3> QED BY <2>1, <2>2, <2>4, <3>3 DEF m
  <2> QED BY <1>s, <1>g, <2>2, <2>4
<1>7. CASE BrokerTakes
  BY <1>2, <1>7 DEF BrokerTakes, client, broker
<1>8. CASE BrokerCloses
  BY <1>s, <1>g, <1>8 DEF BrokerCloses, client
<1>9. CASE Reconnect
  <2>1. connections' = connections + 1 /\ joined' = joined /\ toClient' = <<>>
        /\ \A t \in Apps : pc'[t] = "idle"
    BY <1>9 DEF Reconnect
  <2>2. joined' < connections'
    BY <1>0, <1>s, <2>1
  <2>3. Refused'
    BY <2>1
  <2> QED BY <1>0, <1>s, <1>g, <2>1, <2>2, <2>3
<1>10. CASE UNCHANGED allVars
  BY <1>2, <1>10 DEF allVars, vars, client, broker
<1>11. ASSUME NEW t \in Tasks, TimerExpires(t),
              UNCHANGED <<broker, connections, joined>>
       PROVE  SessionInv'
  BY <1>2, <1>11 DEF TimerExpires, client, broker
<1>12. CASE PingTimerExpires /\ UNCHANGED <<broker, connections, joined>>
  BY <1>2, <1>12 DEF PingTimerExpires, broker
<1> QED BY <1>1, <1>3, <1>4, <1>5, <1>6, <1>7, <1>8, <1>9, <1>10, <1>11, <1>12
    DEF Next

\* isconnected set on the connection in use means a session the broker has
\* accepted, as long as the broker keeps the connection (MQTTConnect,
\* MQTTClient.c:356): no CONNACK is taken that belongs to another connection,
\* or comes after the time-out of the call that asked for it.
THEOREM ConnectedIsAcceptedAlways == Spec => []ConnectedIsAccepted
<1>1. SystemInit => SessionInv
  <2>1. ASSUME SystemInit PROVE SessionInv
    <3>1. Len(<<>>) = 0
      OBVIOUS
    <3> QED BY <2>1, <3>1 DEF SystemInit, Init, SessionInv, ConnectedIsAccepted,
              Tasks
  <2> QED BY <2>1
<1>2. SystemTypeOK /\ OneBusy /\ FinishInv /\ SessionInv /\ [Next]_allVars
        => SessionInv'
  BY NextSession
<1>3. SessionInv => ConnectedIsAccepted
  BY DEF SessionInv
<1> QED BY <1>1, <1>2, <1>3, TypeCorrect, OneBusyAlways, FinishAlways, PTL
    DEF Spec

-----------------------------------------------------------------------------
(* Deliveries *)

\* The products NextDelivery makes: n of m messages are undelivered, h handlers
\* were called d times.
LEMMA ProductGrows ==
    ASSUME NEW a \in Nat, NEW b \in Nat, NEW h \in Nat, NEW k \in Nat,
           a <= b, h <= k
    PROVE  a * h <= b * k
<1>1. (b - a) * h >= 0 /\ b * (k - h) >= 0
  OBVIOUS
<1> QED BY <1>1

LEMMA DeliveriesKept ==
    ASSUME NEW d \in Nat, NEW n \in Nat, NEW m \in Nat, NEW h \in Nat,
           NEW d1 \in Nat, NEW n1 \in Nat, NEW m1 \in Nat, NEW h1 \in Nat,
           n <= m, d <= (m - n) * h,
           \/ d1 = d /\ n1 <= n /\ m1 = m /\ h <= h1
           \/ d1 = d /\ n1 = n + 1 /\ m1 = m + 1 /\ h1 = h
           \/ d1 = d + h /\ n = n1 + 1 /\ m1 = m /\ h1 = h
    PROVE  n1 <= m1 /\ d1 <= (m1 - n1) * h1
<1>1. CASE d1 = d /\ n1 <= n /\ m1 = m /\ h <= h1
  <2>1. m - n \in Nat /\ m - n1 \in Nat /\ m - n <= m - n1
    BY <1>1
  <2>2. (m - n) * h <= (m - n1) * h1
    BY <1>1, <2>1, ProductGrows
  <2>3. (m - n) * h \in Int /\ (m - n1) * h1 \in Int
    BY <2>1
  <2>4. d <= (m - n1) * h1
    BY <2>2, <2>3
  <2> QED BY <1>1, <2>1, <2>4
<1>2. CASE d1 = d /\ n1 = n + 1 /\ m1 = m + 1 /\ h1 = h
  <2>1. m1 - n1 = m - n
    BY <1>2
  <2> QED BY <1>2, <2>1
<1>3. CASE d1 = d + h /\ n = n1 + 1 /\ m1 = m /\ h1 = h
  <2>1. (m - n1) * h = (m - n) * h + h
    BY <1>3
  <2> QED BY <1>3, <2>1
<1> QED BY <1>1, <1>2, <1>3

\* How many handlers a topic has, and that a new one takes none away.
LEMMA MoreHandlers ==
    ASSUME NEW S \in SUBSET Slots, NEW T \in SUBSET Slots, S \subseteq T
    PROVE  Cardinality(S) \in Nat /\ Cardinality(T) \in Nat
           /\ Cardinality(S) <= Cardinality(T)
<1>1. IsFiniteSet(Slots)
  BY FS_Interval, ClientAssumption DEF Slots
<1> QED BY <1>1, FS_Subset, FS_CardinalityType

\* The numbers the invariant is about, one topic at a time.
LEMMA DeliveryTypes ==
    ASSUME SystemTypeOK, NEW p \in Topics
    PROVE  /\ Arriving[p] \in Nat /\ Arriving[p] = Count(toClient, MessagesTo(p))
           /\ JustRead[p] \in 0..1
           /\ JustRead[p] = 1 <=> \E t \in Tasks : pc[t] = "dispatch"
                                                    /\ packet \in MessagesTo(p)
           /\ Handlers[p] \in Nat
           /\ Handlers[p] = Cardinality({i \in Slots : messageHandlers[i] = p})
           /\ pushed[p] \in Nat /\ delivered[p] \in Nat
<1>1. toClient \in Seq(Packets)
  BY DEF SystemTypeOK, TypeOK
<1>2. Count(toClient, MessagesTo(p)) \in Nat
  BY <1>1, CountType
<1>3. Cardinality({i \in Slots : messageHandlers[i] = p}) \in Nat
  BY HandlerCount
<1>4. pushed[p] \in Nat /\ delivered[p] \in Nat
  BY DEF SystemTypeOK, TypeOK
<1> QED BY <1>2, <1>3, <1>4 DEF Arriving, JustRead, Handlers

\* A message is counted off where it is dispatched, and no other step calls a
\* handler.
LEMMA NextDelivery ==
    ASSUME SystemTypeOK, SystemTypeOK', OneBusy, FinishInv, DeliveryInv,
           [Next]_allVars
    PROVE  DeliveryInv'
<1> SUFFICES ASSUME NEW p \in Topics
             PROVE  /\ Arriving'[p] + JustRead'[p] <= pushed'[p]
                    /\ delivered'[p] <= (pushed'[p] - (Arriving'[p] + JustRead'[p]))
                                        * Handlers'[p]
  BY DEF DeliveryInv
<1>0. /\ toBroker \in Seq(Packets) /\ toClient \in Seq(Packets)
      /\ packet \in Packets
      /\ pc \in [Tasks -> Busy \cup {"idle", "lock"}]
      /\ messageHandlers \in [Slots -> Topics \cup {NoTopic}]
      /\ delivered \in [Topics -> Nat] /\ pushed \in [Topics -> Nat]
      /\ p # NoTopic
  BY PacketsAssumption DEF SystemTypeOK, TypeOK
<1>q. PICK a \in Nat, r \in 0..1, m \in Nat, d \in Nat, h \in Nat :
          /\ a = Arriving[p] /\ r = JustRead[p] /\ m = pushed[p]
          /\ d = delivered[p] /\ h = Handlers[p]
  BY DeliveryTypes
<1>p. PICK a1 \in Nat, r1 \in 0..1, m1 \in Nat, d1 \in Nat, h1 \in Nat :
          /\ a1 = Arriving'[p] /\ r1 = JustRead'[p] /\ m1 = pushed'[p]
          /\ d1 = delivered'[p] /\ h1 = Handlers'[p]
  <2>1. toClient' \in Seq(Packets)
        /\ delivered' \in [Topics -> Nat] /\ pushed' \in [Topics -> Nat]
    BY DEF SystemTypeOK, TypeOK
  <2>2. Arriving'[p] \in Nat
    BY <2>1, CountType DEF Arriving, Count
  <2>3. JustRead'[p] \in {0, 1}
    BY Zenon DEF JustRead
  <2>4. Handlers'[p] \in Nat
    <3>1. Handlers'[p] = Cardinality({i \in Slots : messageHandlers'[i] = p})
      BY DEF Handlers
    <3>2. {i \in Slots : messageHandlers'[i] = p} \in SUBSET Slots
      OBVIOUS
    <3> QED BY <3>1, <3>2, MoreHandlers
  <2>5. JustRead'[p] \in 0..1 /\ pushed'[p] \in Nat /\ delivered'[p] \in Nat
    BY <2>1, <2>3
  <2> QED BY <2>2, <2>4, <2>5
<1> SUFFICES a1 + r1 <= m1 /\ d1 <= (m1 - (a1 + r1)) * h1
  BY <1>p
<1>i. a + r <= m /\ d <= (m - (a + r)) * h
  BY <1>q DEF DeliveryInv
<1> DEFINE Mine == MessagesTo(p)
           Reads(t) == pc[t] = "dispatch" /\ packet \in Mine
<1>c. a = Count(toClient, Mine) /\ a1 = Count(toClient', Mine)
  BY <1>p, <1>q DEF Arriving, Count
<1>r. /\ r = 1 <=> \E t \in Tasks : pc[t] = "dispatch" /\ packet \in Mine
      /\ r1 = 1 <=> \E t \in Tasks : pc'[t] = "dispatch" /\ packet' \in Mine
  BY <1>p, <1>q DEF JustRead, MessagesTo
<1>h. /\ h = Cardinality({i \in Slots : messageHandlers[i] = p})
      /\ h1 = Cardinality({i \in Slots : messageHandlers'[i] = p})
  BY <1>p, <1>q DEF Handlers
<1> HIDE DEF Mine
\* What leaves the counts of handlers, messages and calls alone.
<1>k. ASSUME \/ d1 = d /\ a1 + r1 <= a + r /\ m1 = m /\ h <= h1
             \/ d1 = d /\ a1 + r1 = a + r + 1 /\ m1 = m + 1 /\ h1 = h
             \/ d1 = d + h /\ a + r = a1 + r1 + 1 /\ m1 = m /\ h1 = h
      PROVE  a1 + r1 <= m1 /\ d1 <= (m1 - (a1 + r1)) * h1
  <2>1. PICK n \in Nat, n1 \in Nat : n = a + r /\ n1 = a1 + r1
    OBVIOUS
  <2>2. n1 <= m1 /\ d1 <= (m1 - n1) * h1
    BY <1>i, <1>k, <2>1, DeliveriesKept
  <2> QED BY <2>1, <2>2
<1>m. UNCHANGED messageHandlers => h1 = h
  BY <1>h
<1>d. /\ UNCHANGED delivered => d1 = d
      /\ UNCHANGED pushed => m1 = m
      /\ UNCHANGED toClient => a1 = a
  BY <1>c, <1>p, <1>q
<1>e. ASSUME \A t \in Tasks : pc'[t] = "dispatch" => pc[t] = "dispatch",
             UNCHANGED packet
      PROVE  r1 <= r
  BY <1>r, <1>e
<1>f. ASSUME UNCHANGED <<messageHandlers, delivered, pushed, packet>>, a1 <= a,
             \A t \in Tasks : pc'[t] = "dispatch" => pc[t] = "dispatch"
      PROVE  a1 + r1 <= m1 /\ d1 <= (m1 - (a1 + r1)) * h1
  <2>1. r1 <= r /\ h1 = h /\ d1 = d /\ m1 = m
    BY <1>d, <1>e, <1>f, <1>m
  <2>2. a1 + r1 <= a + r /\ h <= h1
    BY <1>f, <2>1
  <2> QED BY <1>k, <2>1, <2>2
<1>1. ASSUME NEW t \in Tasks, Step(t), UNCHANGED pushed
      PROVE  a1 + r1 <= m1 /\ d1 <= (m1 - (a1 + r1)) * h1
  <2>0. PICK place \in Busy \cup {"idle", "lock"} :
            /\ pc' = [pc EXCEPT ![t] = place]
            /\ place = "dispatch" => readPacket(t)
    BY <1>1, StepPlace
  <2>1. ASSUME ~readPacket(t)
        PROVE  \A u \in Tasks : pc'[u] = "dispatch" => pc[u] = "dispatch"
    BY <1>0, <2>0, <2>1
  <2>2. CASE \/ MutexLock(t) \/ Refuse(t) \/ SendRequest(t) \/ KeepWaiting(t)
             \/ GiveUp(t) \/ DispatchPubrec(t) \/ DispatchOther(t)
             \/ keepalive(t) \/ FinishConnect(t) \/ FinishOther(t) \/ Return(t)
    <3>1. UNCHANGED <<messageHandlers, delivered, packet, toClient>> /\ ~readPacket(t)
      BY <2>2 DEF MutexLock, Refuse, SendRequest, KeepWaiting, GiveUp,
         DispatchPubrec, DispatchOther, keepalive, FinishConnect, FinishOther,
         Return, readPacket, client, history
    <3>2. a1 <= a
      BY <1>d, <3>1
    <3> QED BY <1>1, <1>f, <2>1, <3>1, <3>2
  <2>3. CASE readPacket(t)
    <3>1. /\ toClient # <<>> /\ packet' = Head(toClient)
          /\ toClient' = Tail(toClient) /\ pc[t] = "read"
          /\ UNCHANGED <<messageHandlers, delivered>>
      BY <2>3 DEF readPacket, client, history
    <3>2. r = 0
      <4>1. \A u \in Tasks : pc[u] # "dispatch"
        BY <3>1 DEF OneBusy, Busy
      <4> QED BY <1>r, <4>1
    <3> DEFINE k == IF Head(toClient) \in Mine THEN 1 ELSE 0
    <3>3. a = a1 + k
      BY <1>0, <1>c, <3>1, CountTail
    <3>4. k \in 0..1 /\ r1 <= k
      BY <1>r, <3>1
    <3> HIDE DEF k
    <3>5. a1 + r1 <= a + r
      BY <3>2, <3>3, <3>4
    <3>6. d1 = d /\ m1 = m /\ h1 = h
      BY <1>1, <1>d, <1>m, <3>1
    <3>7. h <= h1
      BY <3>6
    <3> QED BY <1>k, <3>5, <3>6, <3>7
  <2>4. CASE readFails(t)
    <3>1. /\ packet' = NoPacket /\ ~readPacket(t)
          /\ UNCHANGED <<messageHandlers, delivered, toClient>>
      BY <2>4 DEF readFails, readPacket, client, history
    <3>2. r1 = 0
      <4>1. packet' \notin Mine
        BY <3>1 DEF Mine, MessagesTo, NoPacket, Plain, Packet, NoType
      <4> QED BY <1>r, <4>1
    <3>3. d1 = d /\ m1 = m /\ h1 = h /\ a1 = a
      BY <1>1, <1>d, <1>m, <3>1
    <3>4. a1 + r1 <= a + r /\ h <= h1
      BY <3>2, <3>3
    <3> QED BY <1>k, <3>3, <3>4
  <2>5. CASE DispatchPublish(t)
    <3>1. /\ pc[t] = "dispatch" /\ packet.type = "PUBLISH" /\ ~readPacket(t)
          /\ deliverMessage(packet.topic)
          /\ UNCHANGED <<messageHandlers, packet, toClient>>
      BY <2>5 DEF DispatchPublish, readPacket
    <3>2. m1 = m /\ h1 = h /\ a1 = a
      BY <1>1, <1>d, <1>m, <3>1
    <3>3. CASE packet.topic = p
      <4>1. packet \in Mine
        BY <1>0, <3>1, <3>3 DEF Mine, MessagesTo
      <4>2. r = 1
        BY <1>r, <3>1, <4>1
      <4>3. \A u \in Tasks : pc'[u] # "dispatch"
        <5>1. \A u \in Tasks : pc[u] = "dispatch" => u = t
          BY <3>1 DEF OneBusy, Busy
        <5>2. place # "dispatch"
          BY <2>0, <3>1
        <5> QED BY <1>0, <2>0, <5>1, <5>2
      <4>4. r1 = 0
        BY <1>r, <4>3
      <4>5. d1 = d + h
        <5>1. delivered'[p] = delivered[p]
                        + Cardinality({i \in Slots : messageHandlers[i] = p})
          BY <1>0, <3>1, <3>3 DEF deliverMessage
        <5> QED BY <1>h, <1>p, <1>q, <5>1
      <4>6. a + r = a1 + r1 + 1
        BY <3>2, <4>2, <4>4
      <4> QED BY <1>k, <3>2, <4>5, <4>6
    <3>4. CASE packet.topic # p
      <4>1. delivered'[p] = delivered[p]
        BY <1>0, <3>1, <3>4 DEF deliverMessage
      <4>2. d1 = d /\ r1 <= r
        BY <1>e, <1>p, <1>q, <2>1, <3>1, <4>1
      <4>3. a1 + r1 <= a + r /\ h <= h1
        BY <3>2, <4>2
      <4> QED BY <1>k, <3>2, <4>2, <4>3
    <3> QED BY <3>3, <3>4
  <2>6. CASE FinishSubscribe(t)
    <3>1. UNCHANGED <<delivered, packet, toClient>> /\ ~readPacket(t)
      BY <2>6 DEF FinishSubscribe, readPacket, history
    <3>2. {i \in Slots : messageHandlers[i] = p}
            \subseteq {i \in Slots : messageHandlers'[i] = p}
      <4>1. \/ UNCHANGED messageHandlers
            \/ \E i \in Slots : /\ messageHandlers[i] = NoTopic
                                /\ messageHandlers' =
                                     [messageHandlers EXCEPT ![i] = op[t].topic]
        BY <2>6 DEF FinishSubscribe, FirstFree
      <4> QED BY <1>0, <4>1
    <3>3. h <= h1
      <4> DEFINE S == {i \in Slots : messageHandlers[i] = p}
                 T == {i \in Slots : messageHandlers'[i] = p}
      <4>1. S \in SUBSET Slots /\ T \in SUBSET Slots /\ S \subseteq T
        BY <3>2
      <4>2. h = Cardinality(S) /\ h1 = Cardinality(T)
        BY <1>h
      <4> HIDE DEF S, T
      <4> QED BY <4>1, <4>2, MoreHandlers
    <3>4. d1 = d /\ m1 = m /\ a1 = a /\ r1 <= r
      BY <1>1, <1>d, <1>e, <2>1, <3>1
    <3>5. a1 + r1 <= a + r
      BY <3>4
    <3> QED BY <1>k, <3>3, <3>4, <3>5
  <2> QED BY <1>1, <2>2, <2>3, <2>4, <2>5, <2>6 DEF Step
<1>2. ASSUME NEW t \in Apps, Call(t), UNCHANGED broker
      PROVE  a1 + r1 <= m1 /\ d1 <= (m1 - (a1 + r1)) * h1
  <2>1. PICK r0 \in Requests : Goto(t, IF r0.kind = "yield" THEN "read" ELSE "lock")
    BY <1>2 DEF Call
  <2>2. UNCHANGED <<messageHandlers, delivered, pushed, packet, toClient>>
    BY <1>2 DEF Call, client, broker
  <2>3. \A u \in Tasks : pc'[u] = "dispatch" => pc[u] = "dispatch"
    BY <1>0, <2>1 DEF Goto
  <2>4. a1 <= a
    BY <1>d, <2>2
  <2> QED BY <1>f, <2>2, <2>3, <2>4
<1>3. CASE MQTTStartTask /\ UNCHANGED broker
  <2>1. UNCHANGED <<messageHandlers, delivered, pushed, packet, toClient>>
        /\ \A u \in Tasks : pc'[u] = "dispatch" => pc[u] = "dispatch"
    BY <1>0, <1>3 DEF MQTTStartTask, Goto, client, broker, history
  <2>2. a1 <= a
    BY <1>d, <2>1
  <2> QED BY <1>f, <2>1, <2>2
<1>4. ASSUME UNCHANGED <<messageHandlers, delivered, pushed, packet, pc, toClient>>
      PROVE  a1 + r1 <= m1 /\ d1 <= (m1 - (a1 + r1)) * h1
  <2>1. a1 <= a
    BY <1>d, <1>4
  <2> QED BY <1>4, <1>f, <2>1
<1>5. CASE BrokerAnswers
  <2>1. PICK s \in Answers(Head(toBroker)) : toClient' = Append(toClient, s)
    BY <1>5 DEF BrokerAnswers
  <2>2. toBroker # <<>> /\ UNCHANGED <<messageHandlers, delivered, pushed, packet, pc>>
    BY <1>5 DEF BrokerAnswers, client, history
  <2>3. Head(toBroker) \in Packets
    BY <1>0, <2>2, HeadTailProperties
  <2>4. s \in Packets
    BY <2>1, <2>3, AnswerType
  <2>5. s \notin Mine
    BY <2>1 DEF Answers, Ack, Plain, Packet, Mine, MessagesTo
  <2>6. a1 = a
    BY <1>0, <1>c, <2>1, <2>4, <2>5, CountAppend
  <2>7. a1 <= a
    BY <2>6
  <2> QED BY <1>f, <2>2, <2>7
<1>6. CASE BrokerTakes
  BY <1>4, <1>6 DEF BrokerTakes, client, history, broker
<1>7. CASE BrokerPublishes
  <2>1. PICK topic \in Topics, qos \in QoS :
           /\ pushed' = [pushed EXCEPT ![topic] = @ + 1]
           /\ toClient' = Append(toClient,
                Packet("PUBLISH", IF qos = 0 THEN 0 ELSE 1, topic, qos))
    BY <1>7 DEF BrokerPublishes
  <2>2. UNCHANGED <<messageHandlers, delivered, packet, pc>>
    BY <1>7 DEF BrokerPublishes, client, history
  <2>3. Packet("PUBLISH", IF qos = 0 THEN 0 ELSE 1, topic, qos) \in Packets
    BY <2>1, PacketType, PacketsAssumption DEF PacketTypes, Ids, Codes
  <2>4. Packet("PUBLISH", IF qos = 0 THEN 0 ELSE 1, topic, qos) \in Mine
            <=> topic = p
    BY <2>3 DEF Packet, Mine, MessagesTo
  <2>5. a1 = a + IF topic = p THEN 1 ELSE 0
    BY <1>0, <1>c, <2>1, <2>3, <2>4, CountAppend
  <2>6. m1 = m + IF topic = p THEN 1 ELSE 0
    BY <1>0, <1>p, <1>q, <2>1
  <2>7. d1 = d /\ h1 = h /\ r1 = r
    <3>1. r1 = 1 <=> r = 1
      BY <1>r, <2>2
    <3>2. d1 = d /\ h1 = h
      BY <1>d, <1>m, <2>2
    <3> QED BY <3>1, <3>2
  <2>8. CASE topic = p
    <3>1. a1 + r1 = a + r + 1 /\ m1 = m + 1
      BY <2>5, <2>6, <2>7, <2>8
    <3> QED BY <1>k, <2>7, <3>1
  <2>9. CASE topic # p
    <3>1. a1 + r1 <= a + r /\ m1 = m /\ h <= h1
      BY <2>5, <2>6, <2>7, <2>9
    <3> QED BY <1>k, <2>7, <3>1
  <2> QED BY <2>8, <2>9
<1>8. CASE BrokerCloses
  BY <1>4, <1>8 DEF BrokerCloses, client, history
<1>9. CASE Reconnect
  <2>1. UNCHANGED <<messageHandlers, delivered, pushed, packet, pc>>
        /\ toClient' = <<>>
    BY <1>9 DEF Reconnect, client
  <2>2. a1 <= a
    BY <1>c, <2>1, CountEmpty
  <2> QED BY <1>f, <2>1, <2>2
<1>10. CASE UNCHANGED allVars
  BY <1>4, <1>10 DEF allVars, vars, client, history, broker
<1>11. ASSUME NEW t \in Tasks, TimerExpires(t), UNCHANGED broker
       PROVE  a1 + r1 <= m1 /\ d1 <= (m1 - (a1 + r1)) * h1
  BY <1>4, <1>11 DEF TimerExpires, client, history, broker
<1>12. CASE PingTimerExpires /\ UNCHANGED broker
  BY <1>4, <1>12 DEF PingTimerExpires, history, broker
<1> QED BY <1>1, <1>2, <1>3, <1>5, <1>6, <1>7, <1>8, <1>9, <1>10, <1>11, <1>12
    DEF Next, ClientStep, broker

\* A message reaches the handler of each slot of its topic at most once,
\* however the two sides interleave and whatever connections come and go
\* (deliverMessage, MQTTClient.c:162, called from cycle once per PUBLISH read).
THEOREM DeliveriesBoundedAlways == Spec => []DeliveriesBounded
<1>1. ASSUME SystemInit, SystemTypeOK PROVE DeliveryInv
  <2>1. ASSUME NEW p \in Topics
        PROVE  /\ Arriving[p] = 0 /\ JustRead[p] = 0
               /\ pushed[p] = 0 /\ delivered[p] = 0
    BY <1>1, <2>1, CountEmpty DEF SystemInit, Init, Arriving, JustRead
  <2>2. ASSUME NEW p \in Topics
        PROVE  Handlers[p] \in Nat
    BY <1>1, DeliveryTypes
  <2>3. ASSUME NEW p \in Topics
        PROVE  /\ Arriving[p] + JustRead[p] <= pushed[p]
               /\ delivered[p] <= (pushed[p] - (Arriving[p] + JustRead[p]))
                                   * Handlers[p]
    <3>1. PICK h \in Nat : h = Handlers[p]
      BY <2>2
    <3>2. 0 + 0 <= 0 /\ 0 <= (0 - (0 + 0)) * h
      OBVIOUS
    <3> QED BY <2>1, <3>1, <3>2
  <2> QED BY <2>3 DEF DeliveryInv
<1>2. SystemTypeOK /\ SystemTypeOK' /\ OneBusy /\ FinishInv /\ DeliveryInv
        /\ [Next]_allVars
        => DeliveryInv'
  BY NextDelivery
<1>3. ASSUME SystemTypeOK, DeliveryInv PROVE DeliveriesBounded
  <2>1. ASSUME NEW p \in Topics
        PROVE  delivered[p] <= pushed[p]
                        * Cardinality({i \in Slots : messageHandlers[i] = p})
    <3>1. PICK n \in Nat, m \in Nat, d \in Nat, h \in Nat :
              /\ n = Arriving[p] + JustRead[p] /\ m = pushed[p]
              /\ d = delivered[p] /\ h = Handlers[p]
      <4>1. PICK x \in Nat, y \in 0..1 : x = Arriving[p] /\ y = JustRead[p]
        BY <1>3, DeliveryTypes
      <4>2. x + y \in Nat
        OBVIOUS
      <4>3. Handlers[p] \in Nat /\ pushed[p] \in Nat /\ delivered[p] \in Nat
        BY <1>3, DeliveryTypes
      <4> QED BY <4>1, <4>2, <4>3
    <3>2. n <= m /\ d <= (m - n) * h
      BY <1>3, <3>1 DEF DeliveryInv
    <3>3. (m - n) * h <= m * h
      BY <3>2, ProductGrows
    <3>4. (m - n) * h \in Int /\ m * h \in Int
      OBVIOUS
    <3>5. d <= m * h
      BY <3>2, <3>3, <3>4
    <3>6. h = Cardinality({i \in Slots : messageHandlers[i] = p})
      BY <1>3, <3>1, DeliveryTypes
    <3> QED BY <3>1, <3>5, <3>6
  <2> QED BY <2>1 DEF DeliveriesBounded
<1> QED BY <1>1, <1>2, <1>3, InitType, TypeCorrect, OneBusyAlways,
       FinishAlways, PTL DEF Spec

-----------------------------------------------------------------------------
(* Acknowledgements *)

\* The numbers and sequences the invariant is about.
LEMMA AckTypes ==
    ASSUME SystemTypeOK
    PROVE  /\ toBroker \in Seq(Packets) /\ toClient \in Seq(Packets)
           /\ packet \in Packets
           /\ pc \in [Tasks -> Busy \cup {"idle", "lock"}]
           /\ op \in [Tasks -> Operations]
           /\ Requested \in Nat /\ Answering \in Nat /\ AnswersRead \in 0..1
<1>1. toBroker \in Seq(Packets) /\ toClient \in Seq(Packets)
  BY DEF SystemTypeOK, TypeOK
<1>2. Count(toBroker, RequestPackets) \in Nat /\ Answering \in Nat
  BY <1>1, CountType DEF Answering
<1>3. Requested \in Nat
  BY <1>2 DEF Requested
<1>4. AnswersRead \in {0, 1}
  BY Zenon DEF AnswersRead
<1>5. AnswersRead \in 0..1
  BY <1>4
<1> QED BY <1>1, <1>2, <1>3, <1>5 DEF SystemTypeOK, TypeOK

\* A packet the client appends makes the connection dead or leaves it so.
LEMMA DeadAppend ==
    ASSUME SystemTypeOK, NEW p \in Packets, UNCHANGED session,
           toBroker' = Append(toBroker, p)
    PROVE  /\ Dead => Dead'
           /\ toBroker # <<>> => (Dead' <=> Dead)
           /\ toBroker = <<>> => ~Dead /\ (Dead' <=> Offends(p))
<1>1. toBroker \in Seq(Packets)
  BY DEF SystemTypeOK, TypeOK
<1>2. Append(toBroker, p) # <<>>
  BY <1>1, AppendProperties
<1>3. Head(Append(toBroker, p)) = IF toBroker = <<>> THEN p ELSE Head(toBroker)
  BY <1>1
<1> QED BY <1>2, <1>3 DEF Dead, Offends

\* The sums of NextAck.
LEMMA TokenKept ==
    ASSUME NEW q \in Nat, NEW a \in Nat, NEW r \in Nat,
           NEW q1 \in Nat, NEW a1 \in Nat, NEW r1 \in Nat,
           q + a + r <= 1,
           \/ q1 <= q /\ a1 <= a /\ r1 <= r
           \/ \E k \in 0..1, j \in 0..1 :
                 j <= k /\ \/ q1 + k <= q /\ a1 = a + j /\ r1 <= r
                           \/ q1 <= q /\ a = a1 + k /\ r1 <= j
    PROVE  q1 + a1 + r1 <= 1
OBVIOUS

\* The steps that neither start nor end a wait leave its id alone.
LEMMA OwnStep ==
    ASSUME SystemTypeOK, NEW t \in Tasks,
           \/ MutexLock(t) \/ Refuse(t) \/ KeepWaiting(t) \/ readPacket(t)
           \/ readFails(t) \/ DispatchPublish(t) \/ DispatchPubrec(t)
           \/ DispatchOther(t) \/ keepalive(t) \/ FinishConnect(t) \/ Return(t)
    PROVE  Own \subseteq Own'
<1> USE DEF Goto, Cycling, Acknowledged
<1>0. /\ pc \in [Tasks -> Busy \cup {"idle", "lock"}]
      /\ op \in [Tasks -> Operations] /\ packet \in Packets
      /\ Apps \subseteq Tasks /\ RunTask \notin Apps
  BY ClientAssumption DEF SystemTypeOK, TypeOK, Tasks
<1>k. ASSUME \A u \in Tasks : op'[u].kind = op[u].kind /\ op'[u].id = op[u].id,
             NEW place, pc' = [pc EXCEPT ![t] = place],
             /\ t \in Apps /\ pc[t] \in Cycling /\ op[t].kind \in Acknowledged
                => place \in Cycling
      PROVE  Own \subseteq Own'
  <2>1. ASSUME NEW u \in Apps, pc[u] \in Cycling, op[u].kind \in Acknowledged
        PROVE  pc'[u] \in Cycling /\ op'[u].kind \in Acknowledged
               /\ op'[u].id = op[u].id
    BY <1>0, <1>k, <2>1
  <2> QED BY <2>1 DEF Own
<1>a. ASSUME op[t].kind \in Acknowledged, t \in Apps
      PROVE  /\ AfterCycle(t, "FAILURE") \in Cycling
             /\ AfterCycle(t, packet.type) \in Cycling
  BY <1>a, ClientAssumption DEF AfterCycle
<1>1. CASE MutexLock(t) \/ Refuse(t) \/ Return(t)
  <2>1. \E place : pc' = [pc EXCEPT ![t] = place] /\ op' = op /\ pc[t] \notin Cycling
    BY <1>1 DEF MutexLock, Refuse, Return
  <2> QED BY <1>k, <2>1
<1>2. CASE KeepWaiting(t) \/ readPacket(t) \/ readFails(t) \/ DispatchOther(t)
  <2>1. \E place \in Cycling : pc' = [pc EXCEPT ![t] = place] /\ op' = op
    BY <1>2 DEF KeepWaiting, readPacket, readFails, DispatchOther
  <2> QED BY <1>k, <2>1
<1>3. ASSUME NEW p, SendAnswer(t, p)
      PROVE  Own \subseteq Own'
  <2>1. op' = op \/ op' = [op EXCEPT ![t].rc = MQTT_FAILURE]
    BY <1>3 DEF SendAnswer, SetResult
  <2>2. \A u \in Tasks : op'[u].kind = op[u].kind /\ op'[u].id = op[u].id
    BY <1>0, <2>1 DEF Operations
  <2>3. CASE Goto(t, "keepalive")
    BY <1>k, <2>2, <2>3
  <2>4. CASE Goto(t, AfterCycle(t, "FAILURE"))
    BY <1>a, <1>k, <2>2, <2>4
  <2> QED BY <1>3, <2>3, <2>4 DEF SendAnswer
<1>4. CASE DispatchPublish(t)
  <2>1. CASE Goto(t, "keepalive") /\ UNCHANGED <<toBroker, ping_timer, op>>
    BY <1>k, <2>1
  <2> QED BY <1>3, <1>4, <2>1 DEF DispatchPublish
<1>5. CASE DispatchPubrec(t)
  BY <1>3, <1>5 DEF DispatchPubrec
<1>6. CASE keepalive(t)
  <2>1. pc' = [pc EXCEPT ![t] = AfterCycle(t, packet.type)] /\ op' = op
    BY <1>6 DEF keepalive
  <2> QED BY <1>a, <1>k, <2>1
<1>7. CASE FinishConnect(t)
  <2>1. /\ op[t].kind = "connect" /\ pc' = [pc EXCEPT ![t] = "exit"]
        /\ op' = [op EXCEPT ![t].rc = packet.code]
    BY <1>7 DEF FinishConnect, SetResult
  <2>2. \A u \in Tasks : op'[u].kind = op[u].kind /\ op'[u].id = op[u].id
    BY <1>0, <2>1 DEF Operations
  <2> QED BY <1>k, <2>1, <2>2
<1> QED BY <1>1, <1>2, <1>4, <1>5, <1>6, <1>7

\* What is sent and answered stays the business of the operation that waits.
LEMMA NextAck ==
    ASSUME SystemTypeOK, SystemTypeOK', OneBusy, FinishInv, AckInv, [Next]_allVars
    PROVE  AckInv'
<1>0. /\ toBroker \in Seq(Packets) /\ toClient \in Seq(Packets)
      /\ packet \in Packets
      /\ pc \in [Tasks -> Busy \cup {"idle", "lock"}]
      /\ op \in [Tasks -> Operations]
      /\ Apps \subseteq Tasks /\ RunTask \in Tasks /\ RunTask \notin Apps
  BY AckTypes, ClientAssumption DEF Tasks
<1>q. PICK q \in Nat, a \in Nat, r \in 0..1 :
          q = Requested /\ a = Answering /\ r = AnswersRead
  BY AckTypes
<1>p. PICK q1 \in Nat, a1 \in Nat, r1 \in 0..1 :
          q1 = Requested' /\ a1 = Answering' /\ r1 = AnswersRead'
  <2>1. toBroker' \in Seq(Packets) /\ toClient' \in Seq(Packets)
    BY DEF SystemTypeOK, TypeOK
  <2>2. Requested' \in Nat /\ Answering' \in Nat
    BY <2>1, CountType DEF Requested, Answering, Count
  <2>3. AnswersRead' \in {0, 1}
    BY Zenon DEF AnswersRead
  <2>4. AnswersRead' \in 0..1
    BY <2>3
  <2> QED BY <2>2, <2>4
<1>o. PICK O \in SUBSET Packets, O1 \in SUBSET Packets : O = Own /\ O1 = Own'
  BY DEF Own
<1>w. \A x : x \in O <=> /\ x \in Packets
                         /\ \E u \in Apps : /\ pc[u] \in Cycling
                                            /\ op[u].kind \in Acknowledged
                                            /\ x.id = op[u].id
  BY <1>o DEF Own
<1>v. \A x : x \in O1 <=> /\ x \in Packets
                          /\ \E u \in Apps : /\ pc'[u] \in Cycling
                                             /\ op'[u].kind \in Acknowledged
                                             /\ x.id = op'[u].id
  BY <1>o DEF Own
<1> DEFINE Good(S) == (Packets \ RequestPackets) \cup S
           Kind(S) == (Packets \ AnswerPackets) \cup S
           Stale == pc[RunTask] = "dispatch" /\ packet.type = "PUBREC"
\* What has to be shown of the next state, and what is known of this one.
<1> DEFINE Goal ==
        /\ q1 + a1 + r1 <= 1
        /\ ~Dead' => \A i \in 1..Len(toBroker') : toBroker'[i] \in Good(O1)
        /\ \A i \in 1..Len(toClient') : toClient'[i] \in Kind(O1)
        /\ AnswerRead' => packet' \in O1
        /\ pc'[RunTask] = "dispatch" /\ packet'.type = "PUBREC"
              => toBroker' = <<>> /\ ~session'
<1>g. ASSUME Goal PROVE AckInv'
  BY <1>g, <1>o, <1>p DEF AckInv
<1>i. ASSUME ~gaveUp
      PROVE  /\ q + a + r <= 1
             /\ ~Dead => \A i \in 1..Len(toBroker) : toBroker[i] \in Good(O)
             /\ \A i \in 1..Len(toClient) : toClient[i] \in Kind(O)
             /\ AnswerRead => packet \in O
             /\ Stale => toBroker = <<>> /\ ~session
  <2>1. \A i \in 1..Len(toBroker) : toBroker[i] \in Packets
    BY <1>0
  <2>2. \A i \in 1..Len(toClient) : toClient[i] \in Packets
    BY <1>0
  <2> QED BY <1>i, <1>o, <1>q, <2>1, <2>2 DEF AckInv
<1>r. /\ AnswerRead <=> r = 1
      /\ AnswerRead' <=> r1 = 1
  BY <1>p, <1>q DEF AnswersRead
<1>c. /\ q = IF Dead THEN 0 ELSE Count(toBroker, RequestPackets)
      /\ q1 = IF Dead' THEN 0 ELSE Count(toBroker', RequestPackets)
      /\ a = Count(toClient, AnswerPackets)
      /\ a1 = Count(toClient', AnswerPackets)
  BY <1>p, <1>q DEF Requested, Answering, Count
\* Which requests and answers a step leaves.
<1>s. UNCHANGED <<toBroker, session>> => q1 = q /\ (Dead' <=> Dead)
  <2>1. UNCHANGED <<toBroker, session>> => (Dead' <=> Dead)
    BY DEF Dead, Offends
  <2> QED BY <1>c, <2>1
<1>e. toBroker' = <<>> => q1 = 0 /\ ~Dead'
  <2>1. toBroker' = <<>> => ~Dead'
    BY DEF Dead
  <2> QED BY <1>c, <2>1, CountEmpty
<1>t. UNCHANGED toClient => a1 = a
  BY <1>c
<1>a. ASSUME NEW p \in Packets, UNCHANGED session, toBroker' = Append(toBroker, p)
      PROVE  /\ q1 <= q + 1 /\ (p \notin RequestPackets => q1 <= q)
             /\ ~Dead' => ~Dead
  <2>1. Dead => Dead'
    BY <1>a, DeadAppend
  <2>2. Count(toBroker', RequestPackets)
            = Count(toBroker, RequestPackets) + IF p \in RequestPackets THEN 1 ELSE 0
    BY <1>0, <1>a, CountAppend
  <2>3. CASE Dead'
    BY <1>c, <2>1, <2>3
  <2>4. CASE ~Dead'
    BY <1>c, <2>1, <2>2, <2>4
  <2> QED BY <2>3, <2>4
\* A step that sends no request and reads nothing.
<1>k. ASSUME ~gaveUp, UNCHANGED <<session, toClient, packet>>, O \subseteq O1,
             \/ UNCHANGED toBroker
             \/ \E p \in Packets \ RequestPackets : toBroker' = Append(toBroker, p),
             AnswerRead' => AnswerRead,
             pc'[RunTask] = "dispatch" =>
                pc[RunTask] = "dispatch" /\ UNCHANGED toBroker
      PROVE  Goal
  <2>1. q1 <= q /\ (~Dead' => ~Dead)
    <3>1. CASE UNCHANGED toBroker
      BY <1>k, <1>s, <3>1
    <3>2. CASE \E p \in Packets \ RequestPackets : toBroker' = Append(toBroker, p)
      BY <1>a, <1>k, <3>2
    <3> QED BY <1>k, <3>1, <3>2
  <2>2. r1 <= r
    BY <1>k, <1>r
  <2>3. a1 = a /\ q + a + r <= 1
    BY <1>i, <1>k, <1>t
  <2>4. q1 + a1 + r1 <= 1
    BY <2>1, <2>2, <2>3
  <2>5. ASSUME ~Dead' PROVE \A i \in 1..Len(toBroker') : toBroker'[i] \in Good(O1)
    <3>1. \A i \in 1..Len(toBroker) : toBroker[i] \in Good(O1)
      BY <1>i, <1>k, <2>1, <2>5
    <3>2. CASE UNCHANGED toBroker
      BY <3>1, <3>2
    <3>3. CASE \E p \in Packets \ RequestPackets : toBroker' = Append(toBroker, p)
      <4>1. PICK p \in Packets : p \in Good(O1) /\ toBroker' = Append(toBroker, p)
        BY <3>3
      <4> HIDE DEF Good
      <4>2. \A i \in 1..Len(Append(toBroker, p)) : Append(toBroker, p)[i] \in Good(O1)
        BY <1>0, <3>1, <4>1, EveryAppend
      <4> QED BY <4>1, <4>2
    <3> QED BY <1>k, <3>2, <3>3
  <2>6. \A i \in 1..Len(toClient') : toClient'[i] \in Kind(O1)
    BY <1>i, <1>k
  <2>7. AnswerRead' => packet' \in O1
    BY <1>i, <1>k
  <2>8. pc'[RunTask] = "dispatch" /\ packet'.type = "PUBREC"
              => toBroker' = <<>> /\ ~session'
    BY <1>i, <1>k
  <2> QED BY <2>4, <2>5, <2>6, <2>7, <2>8
<1>u. ASSUME UNCHANGED <<gaveUp, session, toBroker, toClient, packet>>, O \subseteq O1,
             AnswerRead' => AnswerRead,
             pc'[RunTask] = "dispatch" => pc[RunTask] = "dispatch"
      PROVE  AckInv'
  <2>1. CASE gaveUp
    BY <1>u, <2>1 DEF AckInv
  <2>2. CASE ~gaveUp
    <3>1. Goal
      BY <1>k, <1>u, <2>2
    <3> QED BY <1>g, <3>1
  <2> QED BY <2>1, <2>2
<1>1. ASSUME NEW t \in Tasks, Step(t), UNCHANGED session
      PROVE  AckInv'
  <2>0. PICK place \in Busy \cup {"idle", "lock"} :
            /\ pc' = [pc EXCEPT ![t] = place]
            /\ place \in {"keepalive", "finish"} =>
                   readFails(t) \/ pc[t] \in {"dispatch", "keepalive"}
            /\ place = "dispatch" => readPacket(t)
    BY <1>1, StepPlace
  <2>b. MutexLock(t) \/ pc[t] \in Busy
    BY <1>1 DEF Step, MutexLock, Refuse, SendRequest, KeepWaiting, GiveUp,
       readPacket, readFails, DispatchPublish, DispatchPubrec, DispatchOther,
       keepalive, FinishConnect, FinishSubscribe, FinishOther, Return, Busy
  <2>o. \A u \in Tasks : pc[u] \in Busy /\ pc[t] \in Busy => u = t
    BY DEF OneBusy
  <2>r. ASSUME ~readPacket(t), pc'[RunTask] = "dispatch"
        PROVE  pc[RunTask] = "dispatch" /\ MutexLock(t)
    <3>1. t # RunTask /\ pc[RunTask] = "dispatch"
      BY <1>0, <2>0, <2>r
    <3> QED BY <1>0, <2>b, <2>o, <3>1 DEF Busy
  <2>n. ASSUME ~readPacket(t), ~readFails(t)
        PROVE  packet' = packet /\ toClient' = toClient /\ (AnswerRead' => AnswerRead)
    <3>1. packet' = packet /\ toClient' = toClient
      BY <1>1, <2>n, StepPlace
    <3>2. ASSUME NEW u \in Apps,
                 \/ pc'[u] = "dispatch" /\ packet \in AnswerPackets
                 \/ pc'[u] \in {"keepalive", "finish"} /\ packet \in LastPackets
          PROVE  AnswerRead
      <4>1. \/ pc[u] = "dispatch" /\ packet \in AnswerPackets
            \/ pc[u] \in {"dispatch", "keepalive", "finish"} /\ packet \in LastPackets
        BY <1>0, <2>0, <2>n, <3>2
      <4> QED BY <4>1 DEF AnswerRead, AnswerPackets
    <3>3. AnswerRead' => AnswerRead
      BY <3>1, <3>2 DEF AnswerRead
    <3> QED BY <3>1, <3>3
  <2>1. CASE \/ MutexLock(t) \/ Refuse(t) \/ KeepWaiting(t) \/ DispatchOther(t)
             \/ FinishConnect(t) \/ Return(t)
    <3>1. ~readPacket(t) /\ ~readFails(t) /\ UNCHANGED <<gaveUp, toBroker>>
      BY <2>1 DEF MutexLock, Refuse, KeepWaiting, DispatchOther, FinishConnect,
         Return, readPacket, readFails, history
    <3>2. O \subseteq O1
      BY <1>o, <2>1, OwnStep
    <3> QED BY <1>1, <1>u, <2>n, <2>r, <3>1, <3>2
  <2>2. CASE DispatchPublish(t) \/ keepalive(t)
    <3>1. ~readPacket(t) /\ ~readFails(t) /\ ~MutexLock(t) /\ UNCHANGED gaveUp
      BY <2>2 DEF DispatchPublish, keepalive, readPacket, readFails, MutexLock, history
    <3>2. O \subseteq O1
      BY <1>o, <2>2, OwnStep
    <3>3. \/ UNCHANGED toBroker
          \/ \E p \in Packets \ RequestPackets : toBroker' = Append(toBroker, p)
      <4>1. packet.id \in Ids
        BY <1>0 DEF Packets
      <4>2. ASSUME NEW type \in {"PUBACK", "PUBREC"}, SendAnswer(t, Ack(type, packet.id))
            PROVE  \/ UNCHANGED toBroker
                   \/ \E p \in Packets \ RequestPackets : toBroker' = Append(toBroker, p)
        <5>1. Ack(type, packet.id) \in Packets
          BY <4>1, AckType DEF PacketTypes
        <5>2. Ack(type, packet.id) \notin RequestPackets
          BY DEF Ack, Packet, RequestPackets
        <5> QED BY <4>2, <5>1, <5>2 DEF SendAnswer, sendPacket
      <4>3. CASE DispatchPublish(t)
        BY <4>2, <4>3 DEF DispatchPublish
      <4>4. CASE keepalive(t)
        <5>1. Plain("PINGREQ") \in Packets
          BY PlainType DEF PacketTypes
        <5>2. Plain("PINGREQ") \notin RequestPackets
          BY DEF Plain, Packet, RequestPackets
        <5> QED BY <4>4, <5>1, <5>2 DEF keepalive, sendPacket
      <4> QED BY <2>2, <4>3, <4>4
    <3>4. CASE gaveUp
      BY <3>1, <3>4 DEF AckInv
    <3>5. CASE ~gaveUp
      <4>1. Goal
        BY <1>1, <1>k, <2>n, <2>r, <3>1, <3>2, <3>3, <3>5
      <4> QED BY <1>g, <4>1
    <3> QED BY <3>4, <3>5
  <2>3. CASE GiveUp(t)
    BY <2>3 DEF GiveUp, AckInv
  <2>a. gaveUp' = gaveUp \/ GiveUp(t)
    BY <1>1 DEF Step, MutexLock, Refuse, SendRequest, KeepWaiting, GiveUp,
       readPacket, readFails, DispatchPublish, DispatchPubrec, DispatchOther,
       keepalive, FinishConnect, FinishSubscribe, FinishOther, Return, history
  <2>4. CASE gaveUp
    BY <2>a, <2>3, <2>4 DEF AckInv
\* Where no acknowledged operation waits, nothing is under way.
  <2>z. ASSUME ~gaveUp, O = {}
        PROVE  /\ q = 0 /\ a = 0 /\ r = 0
               /\ \A i \in 1..Len(toClient) : toClient[i] \in Packets \ AnswerPackets
               /\ ~Dead => \A i \in 1..Len(toBroker) :
                              toBroker[i] \in Packets \ RequestPackets
    <3>1. ~AnswerRead
      BY <1>i, <2>z
    <3>2. \A i \in 1..Len(toClient) : toClient[i] \in Packets \ AnswerPackets
      BY <1>i, <2>z
    <3>3. ~Dead => \A i \in 1..Len(toBroker) : toBroker[i] \in Packets \ RequestPackets
      BY <1>i, <2>z
    <3>4. a = 0
      BY <1>0, <1>c, <3>2, CountZero
    <3>5. q = 0
      <4>1. ~Dead => Count(toBroker, RequestPackets) = 0
        BY <1>0, <3>3, CountZero
      <4> QED BY <1>c, <4>1
    <3> QED BY <1>r, <3>1, <3>2, <3>3, <3>4, <3>5
  <2>e. ASSUME pc[t] \in Busy, t \notin Apps \/ pc[t] \notin Cycling
                                 \/ op[t].kind \notin Acknowledged
        PROVE  O = {}
    <3>1. \A u \in Apps : ~(pc[u] \in Cycling /\ op[u].kind \in Acknowledged)
      BY <1>0, <2>e, <2>o DEF Busy, Cycling
    <3> QED BY <1>w, <3>1
  <2>5. CASE SendRequest(t) /\ ~gaveUp
    <3>1. /\ pc[t] = "send" /\ t \in Apps
          /\ UNCHANGED <<packet, toClient, gaveUp>>
      BY <1>0, <2>5 DEF SendRequest, FinishInv, Tasks, history
    <3>2. ~readPacket(t) /\ ~readFails(t) /\ ~MutexLock(t)
      BY <3>1 DEF readPacket, readFails, MutexLock
    <3>3. /\ q = 0 /\ a = 0 /\ r = 0 /\ a1 = 0 /\ r1 = 0
          /\ \A i \in 1..Len(toClient') : toClient'[i] \in Kind(O1)
          /\ ~Dead => \A i \in 1..Len(toBroker) : toBroker[i] \in Packets \ RequestPackets
          /\ ~AnswerRead'
      <4>1. O = {}
        BY <2>e, <3>1 DEF Busy, Cycling
      <4>2. r1 = 0 /\ ~AnswerRead'
        BY <1>r, <2>5, <2>n, <2>z, <3>2, <4>1
      <4>3. /\ q = 0 /\ a = 0 /\ r = 0
            /\ \A i \in 1..Len(toClient) : toClient[i] \in Packets \ AnswerPackets
            /\ ~Dead => \A i \in 1..Len(toBroker) :
                              toBroker[i] \in Packets \ RequestPackets
        BY <2>5, <2>z, <4>1
      <4>4. a1 = 0
        BY <1>t, <3>1, <4>3
      <4> QED BY <3>1, <4>2, <4>3, <4>4
    <3>4. pc'[RunTask] # "dispatch"
      BY <2>r, <3>2
    <3> DEFINE o == op[t]
               id == IF NeedsId(o) THEN getNextPacketId ELSE 0
               p == Request(o, id)
    <3>5. o \in Operations /\ id \in Ids
      BY <1>0, NextIdType, PacketsAssumption DEF Ids, SystemTypeOK, TypeOK
    <3>6. p \in Packets
      BY <3>5, RequestType
    <3>7. CASE UNCHANGED toBroker
      <4>1. q1 = 0 /\ (Dead' <=> Dead)
        BY <1>1, <1>s, <3>3, <3>7
      <4>2. q1 + a1 + r1 <= 1
        BY <3>3, <4>1
      <4>3. ~Dead' => \A i \in 1..Len(toBroker') : toBroker'[i] \in Good(O1)
        BY <3>3, <3>7, <4>1
      <4>4. Goal
        BY <3>3, <3>4, <4>2, <4>3
      <4> QED BY <1>g, <4>4
    <3>8. CASE /\ toBroker' = Append(toBroker, p)
               /\ op' = [op EXCEPT ![t].id = id, ![t].rc = MQTT_SUCCESS]
               /\ Goto(t, IF Awaited(o) = NoType THEN "exit" ELSE "check")
      <4>1. q1 <= 1 /\ (~Dead' => ~Dead)
        <5> HIDE DEF p
        <5> QED BY <1>1, <1>a, <3>3, <3>6, <3>8
      <4>2. q1 + a1 + r1 <= 1
        BY <3>3, <4>1
      <4>3. p \in RequestPackets => p \in O1
        <5>1. ASSUME p \in RequestPackets
              PROVE  /\ o.kind \in Acknowledged /\ p.id = id
                     /\ Awaited(o) # NoType
          <6>1. /\ p.type \in {"SUBSCRIBE", "UNSUBSCRIBE", "PUBLISH"}
                /\ p.type = "PUBLISH" => p.code # 0
            BY <3>5, <5>1, RequestKind DEF RequestPackets
          <6>2. o.kind \in Acknowledged /\ p.id = id
            BY <3>5, <6>1, RequestKind DEF Acknowledged
          <6>3. o.kind = "publish" => o.qos \in {1, 2}
            BY <3>5, <6>1, RequestKind DEF Acknowledged, Operations, QoS, Request,
               Packet
          <6> QED BY <6>2, <6>3 DEF Awaited, Acknowledged, NoType
        <5>2. ASSUME p \in RequestPackets
              PROVE  pc'[t] \in Cycling /\ op'[t].kind \in Acknowledged
                     /\ p.id = op'[t].id
          <6> HIDE DEF p, id
          <6>1. op'[t].kind = o.kind /\ op'[t].id = id
            BY <1>0, <3>8 DEF Operations
          <6>2. pc'[t] = "check"
            BY <1>0, <3>8, <5>1, <5>2 DEF Goto
          <6> QED BY <5>1, <5>2, <6>1, <6>2 DEF Cycling
        <5> HIDE DEF p
        <5> QED BY <1>v, <3>1, <3>6, <5>2
      <4>4. ~Dead' => \A i \in 1..Len(toBroker') : toBroker'[i] \in Good(O1)
        <5>1. p \in Good(O1)
          BY <3>6, <4>3
        <5>2. ~Dead' => \A i \in 1..Len(toBroker) : toBroker[i] \in Good(O1)
          BY <3>3, <4>1
        <5> HIDE DEF Good, p
        <5>3. ~Dead' => \A i \in 1..Len(Append(toBroker, p)) :
                            Append(toBroker, p)[i] \in Good(O1)
          BY <1>0, <3>6, <5>1, <5>2, EveryAppend
        <5> QED BY <3>8, <5>3
      <4>5. Goal
        BY <3>3, <3>4, <4>2, <4>4
      <4> QED BY <1>g, <4>5
    <3> QED BY <2>5, <3>7, <3>8 DEF SendRequest, sendPacket
  <2>6. CASE readPacket(t) /\ ~gaveUp
    <3>1. /\ toClient # <<>> /\ packet' = Head(toClient)
          /\ toClient' = Tail(toClient) /\ pc[t] = "read"
          /\ pc' = [pc EXCEPT ![t] = "dispatch"]
          /\ UNCHANGED toBroker
      BY <2>6 DEF readPacket, Goto
    <3>2. O \subseteq O1
      BY <1>o, <2>6, OwnStep
    <3>3. /\ \A i \in 1..Len(toClient) : toClient[i] \in Kind(O)
          /\ q + a + r <= 1
      BY <1>i, <2>6
    <3>4. Head(toClient) \in Kind(O)
          /\ \A i \in 1..Len(Tail(toClient)) : Tail(toClient)[i] \in Kind(O)
      <4> HIDE DEF Kind
      <4> QED BY <1>0, <3>1, <3>3, EveryTail
    <3>5. r = 0
      <4>1. \A u \in Apps : pc[u] \notin {"dispatch", "keepalive", "finish"}
        BY <1>0, <2>o, <3>1 DEF Busy
      <4>2. ~AnswerRead
        BY <4>1 DEF AnswerRead
      <4> QED BY <1>r, <4>2
    <3> DEFINE k == IF Head(toClient) \in AnswerPackets THEN 1 ELSE 0
    <3>6. a = a1 + k
      BY <1>0, <1>c, <3>1, CountTail
    <3>7. AnswerRead' => Head(toClient) \in AnswerPackets
      <4>1. AnswerRead' => packet' \in AnswerPackets
        BY DEF AnswerRead, AnswerPackets
      <4> QED BY <3>1, <4>1
    <3>8. k \in 0..1 /\ r1 <= k
      BY <1>r, <3>7
    <3>9. q1 = q /\ (Dead' <=> Dead)
      BY <1>1, <1>s, <3>1
    <3>10. q1 + a1 + r1 <= 1
      <4> HIDE DEF k
      <4> QED BY <3>3, <3>5, <3>6, <3>8, <3>9
    <3>11. ~Dead' => \A i \in 1..Len(toBroker') : toBroker'[i] \in Good(O1)
      BY <1>i, <2>6, <3>1, <3>2, <3>9
    <3>12. \A i \in 1..Len(toClient') : toClient'[i] \in Kind(O1)
      BY <3>1, <3>2, <3>4
    <3>13. AnswerRead' => packet' \in O1
      BY <3>1, <3>2, <3>4, <3>7
    <3>14. ~(pc'[RunTask] = "dispatch" /\ packet'.type = "PUBREC")
      <4>1. ASSUME pc'[RunTask] = "dispatch", packet'.type = "PUBREC"
            PROVE  FALSE
        <5>1. t = RunTask
          BY <1>0, <2>o, <3>1, <4>1 DEF Busy
        <5>2. packet' \in O
          <6>1. Head(toClient) \in Packets
            BY <3>4, <1>0, <3>1, HeadTailProperties
          <6>2. Head(toClient) \in AnswerPackets
            BY <3>1, <4>1, <6>1 DEF AnswerPackets, OfType
          <6> QED BY <3>1, <3>4, <6>2
        <5>3. O = {}
          BY <1>0, <2>e, <3>1, <5>1 DEF Busy
        <5> QED BY <5>2, <5>3
      <4> QED BY <4>1
    <3>15. Goal
      BY <3>10, <3>11, <3>12, <3>13, <3>14
    <3> QED BY <1>g, <3>15
  <2>7. CASE readFails(t) /\ ~gaveUp
    <3>1. /\ packet' = NoPacket /\ pc' = [pc EXCEPT ![t] = "keepalive"]
          /\ UNCHANGED <<toBroker, toClient>>
      BY <2>7 DEF readFails, Goto
    <3>2. O \subseteq O1
      BY <1>o, <2>7, OwnStep
    <3>3. ~AnswerRead' /\ packet'.type # "PUBREC"
      BY <3>1 DEF AnswerRead, NoPacket, Plain, Packet, NoType, AnswerPackets,
         LastPackets, OfType
    <3>4. q1 = q /\ (Dead' <=> Dead) /\ a1 = a /\ r1 = 0 /\ q + a + r <= 1
      BY <1>1, <1>i, <1>r, <1>s, <1>t, <2>7, <3>1, <3>3
    <3>5. q1 + a1 + r1 <= 1
      BY <3>4
    <3>6. ~Dead' => \A i \in 1..Len(toBroker') : toBroker'[i] \in Good(O1)
      BY <1>i, <2>7, <3>1, <3>2, <3>4
    <3>7. \A i \in 1..Len(toClient') : toClient'[i] \in Kind(O1)
      BY <1>i, <2>7, <3>1, <3>2
    <3>8. Goal
      BY <3>3, <3>5, <3>6, <3>7
    <3> QED BY <1>g, <3>8
  <2>8. CASE DispatchPubrec(t) /\ ~gaveUp
    <3> DEFINE p == Ack("PUBREL", packet.id)
    <3>1. /\ pc[t] = "dispatch" /\ packet.type = "PUBREC" /\ SendAnswer(t, p)
          /\ UNCHANGED <<packet, toClient>>
          /\ ~readPacket(t) /\ ~readFails(t) /\ ~MutexLock(t)
      BY <2>8 DEF DispatchPubrec, readPacket, readFails, MutexLock
    <3>2. O \subseteq O1
      BY <1>o, <2>8, OwnStep
    <3>3. p \in Packets /\ p.id = packet.id
      BY <1>0, AckType DEF PacketTypes, Packets, Ack, Packet
    <3>4. UNCHANGED toBroker \/ toBroker' = Append(toBroker, p)
      BY <1>0, <3>1, <3>3, AnswerStep
    <3>5. pc'[RunTask] # "dispatch"
      BY <2>r, <3>1
    <3>6. ~AnswerRead' /\ r1 = 0
      <4>1. packet \notin LastPackets
        BY <3>1 DEF LastPackets, OfType
      <4>2. \A u \in Apps : pc'[u] # "dispatch"
        BY <1>0, <2>0, <2>o, <3>1 DEF Busy
      <4>3. ~AnswerRead'
        BY <3>1, <4>1, <4>2 DEF AnswerRead
      <4> QED BY <1>r, <4>3
    <3>7. a1 = a /\ \A i \in 1..Len(toClient') : toClient'[i] \in Kind(O1)
      BY <1>i, <1>t, <2>8, <3>1, <3>2
    <3>8. CASE UNCHANGED toBroker
      <4>1. q1 = q /\ (Dead' <=> Dead) /\ q + a + r <= 1
        BY <1>1, <1>i, <1>s, <2>8, <3>8
      <4>2. q1 + a1 + r1 <= 1
        BY <3>6, <3>7, <4>1
      <4>3. ~Dead' => \A i \in 1..Len(toBroker') : toBroker'[i] \in Good(O1)
        BY <1>i, <2>8, <3>2, <3>8, <4>1
      <4>4. Goal
        BY <3>5, <3>6, <3>7, <4>2, <4>3
      <4> QED BY <1>g, <4>4
    <3>9. CASE toBroker' = Append(toBroker, p) /\ t \in Apps
      <4>1. packet \in AnswerPackets
        BY <1>0, <3>1 DEF AnswerPackets, OfType
      <4>2. AnswerRead
        BY <3>1, <3>9, <4>1 DEF AnswerRead
      <4>3. q = 0 /\ a = 0 /\ packet \in O
        BY <1>i, <1>r, <2>8, <4>2
      <4>4. p \in O1
        BY <1>v, <3>2, <3>3, <4>3
      <4>5. q1 <= 1 /\ (~Dead' => ~Dead)
        <5> HIDE DEF p
        <5> QED BY <1>1, <1>a, <3>3, <3>9, <4>3
      <4>6. q1 + a1 + r1 <= 1
        BY <3>6, <3>7, <4>3, <4>5
      <4>7. ~Dead' => \A i \in 1..Len(toBroker') : toBroker'[i] \in Good(O1)
        <5>1. ~Dead' => \A i \in 1..Len(toBroker) : toBroker[i] \in Good(O1)
          BY <1>i, <2>8, <3>2, <4>5
        <5>2. p \in Good(O1)
          BY <4>4
        <5> HIDE DEF Good, p
        <5>3. ~Dead' => \A i \in 1..Len(Append(toBroker, p)) :
                            Append(toBroker, p)[i] \in Good(O1)
          BY <1>0, <3>3, <5>1, <5>2, EveryAppend
        <5> QED BY <3>9, <5>3
      <4>8. Goal
        BY <3>5, <3>6, <3>7, <4>6, <4>7
      <4> QED BY <1>g, <4>8
\* The background task answers a PUBREC of the connection before: the broker
\* closes the new one for it.
    <3>10. CASE toBroker' = Append(toBroker, p) /\ t = RunTask
      <4>1. toBroker = <<>> /\ ~session
        BY <1>i, <2>8, <3>1, <3>10
      <4>2. Offends(p)
        <5>1. session = FALSE
          BY <4>1 DEF SystemTypeOK
        <5>2. p.type = "PUBREL"
          BY DEF Ack, Packet
        <5> QED BY <5>1, <5>2 DEF Offends
      <4>3. Dead'
        <5> HIDE DEF p
        <5> QED BY <1>1, <3>3, <3>10, <4>1, <4>2, DeadAppend
      <4>4. q1 = 0 /\ q + a + r <= 1
        BY <1>c, <1>i, <2>8, <4>3
      <4>5. q1 + a1 + r1 <= 1
        BY <3>6, <3>7, <4>4
      <4>6. Goal
        BY <3>5, <3>6, <3>7, <4>3, <4>5
      <4> QED BY <1>g, <4>6
    <3> QED BY <3>4, <3>8, <3>9, <3>10 DEF Tasks
  <2>9. CASE (FinishSubscribe(t) \/ FinishOther(t)) /\ ~gaveUp
    <3>1. /\ pc[t] = "finish" /\ pc' = [pc EXCEPT ![t] = "exit"]
          /\ op[t].kind \in Acknowledged
          /\ UNCHANGED <<packet, toClient, toBroker>>
          /\ ~readPacket(t) /\ ~readFails(t) /\ ~MutexLock(t)
      BY <2>9 DEF FinishSubscribe, FinishOther, Goto, Acknowledged, readPacket,
         readFails, MutexLock
    <3>2. t \in Apps /\ packet \in LastPackets
      <4>1. t \in Apps
        BY <3>1 DEF FinishInv, Tasks
      <4>2. packet.type = Awaited(op[t]) /\ Awaited(op[t]) # NoType
        BY <3>1, <4>1 DEF FinishInv, Cycling, Acknowledged
      <4>3. packet.type \in {"SUBACK", "UNSUBACK", "PUBACK", "PUBCOMP"}
        BY <3>1, <4>2 DEF Awaited, Acknowledged
      <4> QED BY <1>0, <4>1, <4>3 DEF LastPackets, OfType
    <3>3. AnswerRead
      BY <3>1, <3>2 DEF AnswerRead
    <3>4. q = 0 /\ a = 0
      BY <1>i, <1>r, <2>9, <3>3
    <3>5. q1 = 0 /\ a1 = 0 /\ (Dead' <=> Dead)
      BY <1>1, <1>s, <1>t, <3>1, <3>4
    <3>6. ~AnswerRead' /\ r1 = 0
      <4>1. \A u \in Apps : pc'[u] \notin {"dispatch", "keepalive", "finish"}
        BY <1>0, <2>o, <3>1 DEF Busy
      <4>2. ~AnswerRead'
        BY <4>1 DEF AnswerRead
      <4> QED BY <1>r, <4>2
    <3>7. q1 + a1 + r1 <= 1
      BY <3>5, <3>6
    <3>8. ~Dead' => \A i \in 1..Len(toBroker') : toBroker'[i] \in Good(O1)
      <4>1. ~Dead => Count(toBroker, RequestPackets) = 0
        BY <1>c, <3>4
      <4>2. ~Dead => \A i \in 1..Len(toBroker) :
                        toBroker[i] \in Packets /\ toBroker[i] \notin RequestPackets
        BY <1>0, <4>1, CountZero
      <4> QED BY <3>1, <3>5, <4>2
    <3>9. \A i \in 1..Len(toClient') : toClient'[i] \in Kind(O1)
      <4>1. Count(toClient, AnswerPackets) = 0
        BY <1>c, <3>4
      <4>2. \A i \in 1..Len(toClient) :
                toClient[i] \in Packets /\ toClient[i] \notin AnswerPackets
        BY <1>0, <4>1, CountZero
      <4> QED BY <3>1, <4>2
    <3>10. pc'[RunTask] # "dispatch"
      BY <2>r, <3>1
    <3>11. Goal
      BY <3>6, <3>7, <3>8, <3>9, <3>10
    <3> QED BY <1>g, <3>11
  <2> QED BY <1>1, <2>1, <2>2, <2>3, <2>4, <2>5, <2>6, <2>7, <2>8, <2>9 DEF Step
<1>2. ASSUME NEW t \in Apps, Call(t), UNCHANGED session
      PROVE  AckInv'
  <2>1. PICK x \in Requests :
            /\ op' = [op EXCEPT ![t] = x]
            /\ Goto(t, IF x.kind = "yield" THEN "read" ELSE "lock")
    BY <1>2 DEF Call
  <2>2. pc[t] = "idle" /\ UNCHANGED <<gaveUp, toBroker, toClient, packet>>
    BY <1>2 DEF Call
  <2>3. O \subseteq O1
    <3>1. ASSUME NEW u \in Apps, pc[u] \in Cycling PROVE pc'[u] = pc[u] /\ op'[u] = op[u]
      BY <1>0, <2>1, <2>2, <3>1 DEF Goto, Cycling
    <3> QED BY <1>w, <1>v, <3>1
  <2>4. AnswerRead' => AnswerRead
    <3>1. \A u \in Apps : pc'[u] \in {"dispatch", "keepalive", "finish"}
                            => pc[u] = pc'[u]
      BY <1>0, <2>1 DEF Goto
    <3> QED BY <2>2, <3>1 DEF AnswerRead
  <2>5. pc'[RunTask] = "dispatch" => pc[RunTask] = "dispatch"
    BY <1>0, <2>1 DEF Goto
  <2> QED BY <1>2, <1>u, <2>2, <2>3, <2>4, <2>5
<1>3. ASSUME UNCHANGED <<gaveUp, session, toBroker, toClient, packet, op>>,
             UNCHANGED pc \/ pc' = [pc EXCEPT ![RunTask] = "lock"]
      PROVE  AckInv'
  <2>1. \A u \in Apps : pc'[u] = pc[u]
    BY <1>0, <1>3
  <2>2. O \subseteq O1
    BY <1>w, <1>v, <1>3, <2>1
  <2>3. AnswerRead' => AnswerRead
    BY <1>3, <2>1 DEF AnswerRead
  <2>4. pc'[RunTask] = "dispatch" => pc[RunTask] = "dispatch"
    BY <1>0, <1>3
  <2> QED BY <1>3, <1>u, <2>2, <2>3, <2>4
\* The steps of the broker leave the tasks alone.
<1>b. ASSUME UNCHANGED <<packet, pc, op>>
      PROVE  O1 = O /\ (AnswerRead' <=> AnswerRead) /\ r1 = r
  <2>1. O1 = O
    BY <1>b, <1>o DEF Own
  <2>2. AnswerRead' <=> AnswerRead
    BY <1>b DEF AnswerRead
  <2> QED BY <1>r, <2>1, <2>2
<1>4. CASE BrokerAnswers \/ BrokerTakes
  <2>1. /\ toBroker # <<>> /\ ~Dead /\ toBroker' = Tail(toBroker)
        /\ UNCHANGED <<packet, pc, op, gaveUp>>
        /\ \/ UNCHANGED toClient
           \/ \E s \in Answers(Head(toBroker)) : toClient' = Append(toClient, s)
    BY <1>4 DEF BrokerAnswers, BrokerTakes, Dead, history
  <2>2. CASE gaveUp
    BY <2>1, <2>2 DEF AckInv
  <2>3. CASE ~gaveUp
    <3>1. Head(toBroker) \in Good(O)
          /\ \A i \in 1..Len(Tail(toBroker)) : Tail(toBroker)[i] \in Good(O)
      <4>1. \A i \in 1..Len(toBroker) : toBroker[i] \in Good(O)
        BY <1>i, <2>1, <2>3
      <4> HIDE DEF Good
      <4> QED BY <1>0, <2>1, <4>1, EveryTail
    <3> DEFINE k == IF Head(toBroker) \in RequestPackets THEN 1 ELSE 0
    <3>2. k \in 0..1 /\ q1 + k <= q
      <4>1. q = Count(Tail(toBroker), RequestPackets) + k
        BY <1>0, <1>c, <2>1, CountTail
      <4>2. Tail(toBroker) \in Seq(Packets)
        BY <1>0, <2>1, HeadTailProperties
      <4>3. Count(Tail(toBroker), RequestPackets) \in Nat /\ k \in 0..1
        <5>1. k \in 0..1
          OBVIOUS
        <5> HIDE DEF k
        <5> QED BY <4>2, <5>1, CountType
      <4>4. q1 <= Count(Tail(toBroker), RequestPackets)
        <5>1. q1 = 0 \/ q1 = Count(Tail(toBroker), RequestPackets)
          BY <1>c, <2>1
        <5> QED BY <4>3, <5>1
      <4> HIDE DEF k
      <4> QED BY <4>1, <4>3, <4>4
    <3>3. ~Dead' => \A i \in 1..Len(toBroker') : toBroker'[i] \in Good(O1)
      BY <1>b, <2>1, <3>1
    <3>4. O1 = O /\ (AnswerRead' <=> AnswerRead) /\ r1 = r
          /\ (AnswerRead' => packet' \in O1)
          /\ ~(pc'[RunTask] = "dispatch" /\ packet'.type = "PUBREC")
          /\ q + a + r <= 1
          /\ \A i \in 1..Len(toClient) : toClient[i] \in Kind(O)
      BY <1>b, <1>i, <2>1, <2>3
    <3>5. CASE UNCHANGED toClient
      <4>1. q1 + a1 + r1 <= 1
        <5> HIDE DEF k
        <5> QED BY <1>t, <3>2, <3>4, <3>5
      <4>2. Goal
        BY <3>3, <3>4, <3>5, <4>1
      <4> QED BY <1>g, <4>2
    <3>6. ASSUME NEW s \in Answers(Head(toBroker)), toClient' = Append(toClient, s)
          PROVE  AckInv'
      <4>1. Head(toBroker) \in Packets
        BY <1>0, <2>1, HeadTailProperties
      <4>2. s \in Packets
        BY <4>1, AnswerType
      <4>3. s \in AnswerPackets => Head(toBroker) \in RequestPackets
                                   /\ s.id = Head(toBroker).id
        BY <4>1 DEF Answers, Ack, Plain, Packet, AnswerPackets, LastPackets,
           OfType, RequestPackets
      <4> DEFINE j == IF s \in AnswerPackets THEN 1 ELSE 0
      <4>4. j \in 0..1 /\ j <= k
        BY <4>3
      <4>5. a1 = a + j
        BY <1>0, <1>c, <3>6, <4>2, CountAppend
      <4>6. q1 + a1 + r1 <= 1
        <5> HIDE DEF k, j
        <5> QED BY <3>2, <3>4, <4>4, <4>5
      <4>7. s \in Kind(O)
        <5>1. s \in AnswerPackets => Head(toBroker) \in O
          BY <3>1, <4>3
        <5>2. s \in AnswerPackets => s \in O
          BY <1>w, <4>2, <4>3, <5>1
        <5> QED BY <4>2, <5>2
      <4>8. \A i \in 1..Len(toClient') : toClient'[i] \in Kind(O1)
        <5> HIDE DEF Kind
        <5>1. \A i \in 1..Len(Append(toClient, s)) : Append(toClient, s)[i] \in Kind(O)
          BY <1>0, <3>4, <4>2, <4>7, EveryAppend
        <5> QED BY <3>4, <3>6, <5>1
      <4>9. Goal
        BY <3>3, <3>4, <4>6, <4>8
      <4> QED BY <1>g, <4>9
    <3> QED BY <2>1, <3>5, <3>6
  <2> QED BY <2>2, <2>3
<1>5. CASE BrokerPublishes
  <2>1. PICK topic \in Topics, qos \in QoS :
           toClient' = Append(toClient,
                Packet("PUBLISH", IF qos = 0 THEN 0 ELSE 1, topic, qos))
    BY <1>5 DEF BrokerPublishes
  <2> DEFINE s == Packet("PUBLISH", IF qos = 0 THEN 0 ELSE 1, topic, qos)
  <2>2. UNCHANGED <<packet, pc, op, gaveUp, toBroker, session>>
    BY <1>5 DEF BrokerPublishes, history
  <2>3. s \in Packets /\ s \notin AnswerPackets
    <3>1. s \in Packets
      BY <2>1, PacketType, PacketsAssumption DEF PacketTypes, Ids, Codes
    <3> QED BY <3>1 DEF AnswerPackets, LastPackets, OfType, Packet
  <2>4. CASE gaveUp
    BY <2>2, <2>4 DEF AckInv
  <2>5. CASE ~gaveUp
    <3>1. O1 = O /\ (AnswerRead' <=> AnswerRead) /\ r1 = r
          /\ q1 = q /\ (Dead' <=> Dead)
      BY <1>b, <1>s, <2>2
    <3>2. /\ ~Dead' => \A i \in 1..Len(toBroker') : toBroker'[i] \in Good(O1)
          /\ AnswerRead' => packet' \in O1
          /\ pc'[RunTask] = "dispatch" /\ packet'.type = "PUBREC"
                => toBroker' = <<>> /\ ~session'
          /\ q + a + r <= 1
          /\ \A i \in 1..Len(toClient) : toClient[i] \in Kind(O)
      BY <1>i, <2>2, <2>5, <3>1
    <3>3. a1 = a
      <4> HIDE DEF s
      <4>1. toClient' = Append(toClient, s)
        BY <2>1 DEF s
      <4> QED BY <1>0, <1>c, <2>3, <4>1, CountAppend
    <3>4. q1 + a1 + r1 <= 1
      BY <3>1, <3>2, <3>3
    <3>5. \A i \in 1..Len(toClient') : toClient'[i] \in Kind(O1)
      <4>1. s \in Kind(O)
        BY <2>3
      <4> HIDE DEF Kind, s
      <4>2. \A i \in 1..Len(Append(toClient, s)) : Append(toClient, s)[i] \in Kind(O)
        BY <1>0, <2>3, <3>2, <4>1, EveryAppend
      <4>3. toClient' = Append(toClient, s)
        BY <2>1 DEF s
      <4> QED BY <3>1, <4>2, <4>3
    <3>6. Goal
      BY <3>2, <3>4, <3>5
    <3> QED BY <1>g, <3>6
  <2> QED BY <2>4, <2>5
<1>6. CASE BrokerCloses
  <2>1. /\ UNCHANGED <<packet, pc, op, gaveUp, toClient>>
        /\ toBroker' = <<>> /\ session' = FALSE
    BY <1>6 DEF BrokerCloses, history
  <2>2. CASE gaveUp
    BY <2>1, <2>2 DEF AckInv
  <2>3. CASE ~gaveUp
    <3>1. O1 = O /\ (AnswerRead' <=> AnswerRead) /\ r1 = r /\ q1 = 0 /\ a1 = a
      BY <1>b, <1>e, <1>t, <2>1
    <3>2. /\ \A i \in 1..Len(toBroker') : toBroker'[i] \in Good(O1)
          /\ AnswerRead' => packet' \in O1
          /\ q + a + r <= 1
          /\ \A i \in 1..Len(toClient') : toClient'[i] \in Kind(O1)
      BY <1>i, <2>1, <2>3, <3>1
    <3>3. q1 + a1 + r1 <= 1
      BY <3>1, <3>2
    <3>4. Goal
      BY <2>1, <3>2, <3>3
    <3> QED BY <1>g, <3>4
  <2> QED BY <2>2, <2>3
<1>7. CASE Reconnect
  <2>1. /\ toBroker' = <<>> /\ toClient' = <<>> /\ session' = FALSE
        /\ \A u \in Apps : pc'[u] = "idle"
    BY <1>7 DEF Reconnect
  <2>2. q1 = 0 /\ a1 = 0 /\ ~AnswerRead' /\ r1 = 0
    <3>1. ~AnswerRead'
      BY <2>1 DEF AnswerRead
    <3> QED BY <1>c, <1>e, <1>r, <2>1, <3>1, CountEmpty
  <2>3. q1 + a1 + r1 <= 1
    BY <2>2
  <2>4. Goal
    BY <2>1, <2>2, <2>3
  <2> QED BY <1>g, <2>4
<1>8. CASE MQTTStartTask /\ UNCHANGED broker
  BY <1>3, <1>8 DEF MQTTStartTask, Goto, broker, history
<1>9. CASE UNCHANGED allVars
  BY <1>3, <1>9 DEF allVars, vars, broker, history
<1>10. ASSUME NEW t \in Tasks, TimerExpires(t), UNCHANGED broker
       PROVE  AckInv'
  BY <1>3, <1>10 DEF TimerExpires, broker, history
<1>11. CASE PingTimerExpires /\ UNCHANGED broker
  BY <1>3, <1>11 DEF PingTimerExpires, broker, history
<1> QED BY <1>1, <1>2, <1>4, <1>5, <1>6, <1>7, <1>8, <1>9, <1>10, <1>11
    DEF Next, ClientStep, broker

\* Although waitfor accepts an acknowledgement by its type alone, it is the one
\* for the request that was sent, as long as no operation has given up on the
\* connection in use (waitfor, MQTTClient.c:341; the packet ids MQTTSubscribe,
\* MQTTUnsubscribe and MQTTPublish read and do not compare).
THEOREM AckIsOwnAlways == Spec => []AckIsOwn
<1>1. ASSUME SystemInit PROVE AckInv
  <2>1. toBroker = <<>> /\ toClient = <<>> /\ \A t \in Tasks : pc[t] = "idle"
    BY <1>1 DEF SystemInit, Init
  <2>2. ~AnswerRead /\ pc[RunTask] # "dispatch"
    BY <2>1 DEF AnswerRead, Tasks
  <2>3. Requested = 0 /\ Answering = 0 /\ AnswersRead = 0
    BY <2>1, <2>2, CountEmpty DEF Requested, Answering, AnswersRead, Dead
  <2>4. Len(<<>>) = 0
    OBVIOUS
  <2> QED BY <2>1, <2>2, <2>3, <2>4 DEF AckInv
<1>2. SystemTypeOK /\ SystemTypeOK' /\ OneBusy /\ FinishInv /\ AckInv /\ [Next]_allVars
        => AckInv'
  BY NextAck
<1>3. ASSUME SystemTypeOK, OwnerInv, OneBusy, FinishInv, AckInv PROVE AckIsOwn
  <2>1. ASSUME NEW t \in Tasks, pc[t] = "finish", op[t].kind # "connect", ~gaveUp
        PROVE  packet.id = op[t].id
    <3>1. t \in Apps /\ packet.type = Awaited(op[t])
      BY <1>3, <2>1 DEF Tasks, FinishInv
    <3>2. op[t].kind # "yield"
      BY <1>3, <2>1, <3>1 DEF OwnerInv, YieldOnlyCycles
    <3>3. Awaited(op[t]) # NoType
      BY <1>3, <2>1, <3>1, <3>2 DEF FinishInv, Cycling
    <3>4. packet.type \in {"SUBACK", "UNSUBACK", "PUBACK", "PUBCOMP"}
      BY <2>1, <3>1, <3>3 DEF Awaited
    <3>5. packet \in LastPackets
      BY <1>3, <3>4, AckTypes DEF LastPackets, OfType
    <3>6. packet \in Own
      BY <1>3, <2>1, <3>1, <3>5 DEF AckInv, AnswerRead
    <3>7. PICK u \in Apps : pc[u] \in Cycling /\ packet.id = op[u].id
      BY <3>6 DEF Own
    <3>8. u = t
      BY <1>3, <2>1, <3>7 DEF OneBusy, Busy, Cycling, Tasks
    <3> QED BY <3>7, <3>8
  <2> QED BY <2>1 DEF AckIsOwn, Answered
<1> QED BY <1>1, <1>2, <1>3, TypeCorrect, OwnerAlways, OneBusyAlways,
       FinishAlways, PTL
    DEF Spec
=============================================================================
