----------------------------- MODULE MQTTStream -----------------------------
(***************************************************************************)
(* The bytes between the client and the broker: readPacket and             *)
(* decodePacket of mqtt/MQTTClient.c over LwIP_read and TLS_read of        *)
(* mqtt/MQTTPlatform.c, sendPacket over a write that takes only a part,    *)
(* the length field of mqtt/MQTTPacket.c, and which handlers               *)
(* deliverMessage calls for a PUBLISH.  MQTTClient takes a packet as read  *)
(* or written whole; here is what that rests on.                           *)
(*                                                                         *)
(* A byte is a number below Base + Base; a digit of a length is one below  *)
(* Base, and Base is added to it if another follows.                       *)
(***************************************************************************)
EXTENDS MQTTTopics

CONSTANTS
    Base,           \* 128 in the program
    Types, PUBLISH, \* packet types; those that fit into a byte
    Bodies,         \* values of the bytes of a body
    Names, Filters, \* topic names, filters in the handler table
    Lengths,        \* remaining lengths of the packets of the broker
    MaxPackets      \* bound: packets sent, both sides together

\* MAX_NO_OF_REMAINING_LENGTH_BYTES
Digits == 4

\* the multipliers of the digits, and the first length too big for them all
Weight == <<1, Base, Base*Base, Base*Base*Base, Base*Base*Base*Base>>
Limit == Weight[Digits+1]

ASSUME StreamAssumption ==
    /\ Base \in Nat \ {0, 1}
    /\ Types \subseteq 0..Base+Base-1 /\ PUBLISH \in Types
    /\ Bodies \subseteq 0..Base+Base-1
    /\ Names \subseteq Seq(STRING) /\ Filters \subseteq Seq(STRING)
    /\ \A f \in Filters : WellFormed(f)
    /\ Lengths \subseteq 0..Limit-1
    /\ MaxPackets \in Nat

VARIABLES
    transport,      \* "lwip" (NetworkConnect) or "tls" (TLSConnect)
    unread,         \* bytes under way to the client, with where they belong
    pc,             \* where the client is in readPacket or sendPacket
    type,           \* readbuf[0]
    len, rem_len,   \* decodePacket: digits read and the value so far
    bytes,          \* of the body, those read; of a packet sent, those written
    length,         \* of the packet that sendPacket sends
    wire,           \* the bytes of that packet the broker gets
    delivery,       \* the call of deliverMessage just made
    \* history
    sent, accepted, \* packets the broker sent, and those readPacket returned
    interrupted,    \* has a read failed inside a packet?
    sends

reader == <<type, len, rem_len>>
writer == <<length, wire, sends>>
vars == <<transport, unread, pc, reader, bytes, writer, delivery, sent, accepted,
          interrupted>>

Bytes == [value : 0..Base+Base-1, place : {"header", "length", "body"}]
Packets == [type : 0..Base+Base-1, rem : 0..Limit-1]
NoDelivery == [name |-> <<>>, filter |-> <<>>, called |-> FALSE]

TypeOK ==
    /\ transport \in {"lwip", "tls"}
    /\ unread \in Seq(Bytes)
    /\ pc \in {"idle", "length", "body", "deliver", "write"}
    /\ type \in 0..Base+Base-1
    /\ len \in 0..Digits
    /\ rem_len \in 0..Limit-1
    /\ bytes \in Nat
    /\ length \in Nat
    /\ wire \in Seq(Nat)
    /\ sends \in 0..MaxPackets
    /\ delivery \in [name : Names, filter : Filters, called : BOOLEAN]
                        \cup {NoDelivery}
    /\ sent \in Seq(Packets)
    /\ accepted \in Seq(Packets)
    /\ interrupted \in BOOLEAN

Init ==
    /\ transport \in {"lwip", "tls"}
    /\ unread = <<>>
    /\ pc = "idle"
    /\ type = 0 /\ len = 0 /\ rem_len = 0
    /\ bytes = 0 /\ length = 0 /\ wire = <<>> /\ sends = 0
    /\ delivery = NoDelivery
    /\ sent = <<>> /\ accepted = <<>>
    /\ interrupted = FALSE

-----------------------------------------------------------------------------
(* The length field *)

\* what is left of n before each round of the loop of MQTTPacket_encode, and
\* after the last
Left(n) ==
    LET q == n \div Base
        r == q \div Base
        s == r \div Base
    IN  <<n, q, r, s, s \div Base>>

\* rounds until nothing is left
DigitsOf(n) ==
    CHOOSE k \in 1..Digits :
        /\ \A i \in 2..k : Left(n)[i] > 0
        /\ k < Digits => Left(n)[k+1] = 0

\* without the mark that another digit follows
MQTTPacket_encode_Fault(n) == [i \in 1..DigitsOf(n) |-> Left(n)[i] % Base]

MQTTPacket_encode(n) ==
    [i \in 1..DigitsOf(n) |->
        (Left(n)[i] % Base) + (IF i < DigitsOf(n) THEN Base ELSE 0)]

\* MQTTPacket_decodeBuf of a field that lies at the head of s: the value and
\* the number of bytes, Digits + 1 if no digit is the last
MQTTPacket_decode(s) ==
    LET more(k) == \A i \in 1..k-1 : s[i] >= Base
        digit(i) == IF more(i) THEN (s[i] % Base) * Weight[i] ELSE 0
    IN  [value |-> digit(1) + digit(2) + digit(3) + digit(4),
         size |-> CHOOSE k \in 1..Digits+1 :
                      more(k) /\ (k <= Digits => s[k] < Base)]

\* the header byte forgotten
MQTTPacket_len_Fault(rem) ==
    rem + (IF rem < Base THEN 1
           ELSE IF rem < Weight[3] THEN 2
           ELSE IF rem < Weight[4] - 1 THEN 3
           ELSE 4)

\* the length of a packet as the serialisers compare it with the buffer
MQTTPacket_len(rem) ==
    LET header == rem + 1
    IN  header + (IF header < Base THEN 1
                  ELSE IF header < Weight[3] THEN 2
                  ELSE IF header < Weight[4] - 1 THEN 3
                  ELSE 4)

Placed(values, place) ==
    [i \in DOMAIN values |-> [value |-> values[i], place |-> place]]

\* header byte, length and body
BytesOf(t, rem, b) ==
    Placed(<<t>>, "header") \o Placed(MQTTPacket_encode(rem), "length")
                            \o Placed([i \in 1..rem |-> b], "body")

\* the broker sends a packet
BrokerSends ==
    /\ Len(sent) + sends < MaxPackets
    /\ \E t \in Types, rem \in Lengths, b \in Bodies :
          /\ sent' = Append(sent, [type |-> t, rem |-> rem])
          /\ unread' = unread \o BytesOf(t, rem, b)
    /\ delivery' = NoDelivery
    /\ UNCHANGED <<transport, pc, reader, bytes, writer, accepted, interrupted>>

-----------------------------------------------------------------------------
(* readPacket.  A read of a header that fails changes nothing. *)

Take(k) == unread' = SubSeq(unread, k + 1, Len(unread))

\* readPacket returns, and its variables are gone
Leave(place) ==
    /\ pc' = place
    /\ type' = 0 /\ len' = 0 /\ rem_len' = 0 /\ bytes' = 0

\* readPacket returns type; the body is as long as the length field says
Accept(rem) ==
    /\ accepted' = Append(accepted, [type |-> type, rem |-> rem])
    /\ Leave(IF type = PUBLISH THEN "deliver" ELSE "idle")

ReadHeader ==
    /\ pc = "idle" /\ unread # <<>>
    /\ Take(1)
    /\ type' = Head(unread).value
    /\ pc' = "length"
    /\ delivery' = NoDelivery
    /\ UNCHANGED <<transport, len, rem_len, bytes, writer, sent, accepted,
                   interrupted>>

\* decodePacket has read n digits; nobody looks at whether it failed
LengthKnown(rem, n) ==
    \/ rem = 0 /\ Accept(0)
    \/ /\ rem > 0
       /\ pc' = "body" /\ rem_len' = rem /\ len' = n
       /\ UNCHANGED <<type, bytes, accepted>>

\* without the multiplier
ReadDigit_Fault ==
    /\ pc = "length" /\ unread # <<>>
    /\ Take(1)
    /\ LET c == Head(unread).value
           rem == rem_len + (c % Base)
       IN  IF c >= Base /\ len + 1 < Digits
           THEN /\ rem_len' = rem /\ len' = len + 1
                /\ UNCHANGED <<pc, type, bytes, accepted>>
           ELSE LengthKnown(rem, len + 1)
    /\ UNCHANGED <<transport, writer, delivery, sent, interrupted>>

\* a fifth digit
ReadDigit_Five_Fault ==
    /\ pc = "length" /\ unread # <<>>
    /\ Take(1)
    /\ LET c == Head(unread).value
           rem == rem_len + (c % Base) * Weight[len+1]
       IN  IF c >= Base /\ len < Digits
           THEN /\ rem_len' = rem /\ len' = len + 1
                /\ UNCHANGED <<pc, type, bytes, accepted>>
           ELSE LengthKnown(rem, len + 1)
    /\ UNCHANGED <<transport, writer, delivery, sent, interrupted>>

ReadDigit ==
    /\ pc = "length" /\ unread # <<>>
    /\ Take(1)
    /\ LET c == Head(unread).value
           rem == rem_len + (c % Base) * Weight[len+1]
       IN  IF c >= Base /\ len + 1 < Digits
           THEN /\ rem_len' = rem /\ len' = len + 1
                /\ UNCHANGED <<pc, type, bytes, accepted>>
           ELSE LengthKnown(rem, len + 1)
    /\ UNCHANGED <<transport, writer, delivery, sent, interrupted>>

DigitTimesOut ==
    /\ pc = "length"
    /\ LengthKnown(rem_len, len)
    /\ interrupted' = TRUE
    /\ UNCHANGED <<transport, unread, writer, delivery, sent>>

\* LwIP_read that returns what one recv gave
ReadBody_Fault(k) ==
    /\ pc = "body"
    /\ k <= rem_len - bytes /\ k <= Len(unread)
    /\ Take(k)
    /\ \/ bytes + k = rem_len /\ Accept(rem_len)
       \/ bytes + k # rem_len /\ Leave("idle") /\ UNCHANGED accepted
    /\ UNCHANGED <<transport, writer, delivery, sent, interrupted>>

\* recv or mbedtls_ssl_read gives k bytes.  LwIP_read goes on until it has
\* them all, TLS_read returns what it has, and that is a failed read.
ReadBody(k) ==
    /\ pc = "body"
    /\ k <= rem_len - bytes /\ k <= Len(unread)
    /\ Take(k)
    /\ \/ bytes + k = rem_len /\ Accept(rem_len) /\ UNCHANGED interrupted
       \/ /\ bytes + k # rem_len /\ transport = "lwip"
          /\ bytes' = bytes + k
          /\ UNCHANGED <<pc, reader, accepted, interrupted>>
       \/ /\ bytes + k # rem_len /\ transport = "tls"
          /\ Leave("idle")
          /\ interrupted' = TRUE
          /\ UNCHANGED accepted
    /\ UNCHANGED <<transport, writer, delivery, sent>>

BodyTimesOut ==
    /\ pc = "body"
    /\ Leave("idle")
    /\ interrupted' = TRUE
    /\ UNCHANGED <<transport, unread, writer, delivery, sent, accepted>>

\* MQTTDeserialize_publish and deliverMessage, for one slot of the table
deliverMessage ==
    /\ pc = "deliver"
    /\ \E n \in Names, f \in Filters :
          delivery' = [name |-> n, filter |-> f, called |-> Selected(f, n)]
    /\ pc' = "idle"
    /\ UNCHANGED <<transport, unread, reader, bytes, writer, sent, accepted,
                   interrupted>>

-----------------------------------------------------------------------------
(* sendPacket *)

StartSend ==
    /\ pc = "idle" /\ Len(sent) + sends < MaxPackets
    /\ sends' = sends + 1
    /\ \E rem \in 0..Limit-1 :
          length' = 1 + Len(MQTTPacket_encode(rem)) + rem
    /\ pc' = "write"
    /\ delivery' = NoDelivery
    /\ UNCHANGED <<transport, unread, reader, bytes, wire, sent, accepted,
                   interrupted>>

\* every write from the start of the packet
mqttwrite_Fault(k) ==
    /\ pc = "write" /\ bytes < length
    /\ bytes' = bytes + k
    /\ wire' = wire \o [i \in 1..k |-> i]
    /\ UNCHANGED <<transport, unread, pc, reader, length, sends, delivery,
                   sent, accepted, interrupted>>

\* Each write is offered length bytes from buf[sent] on, whatever is left.
mqttwrite(k) ==
    /\ pc = "write" /\ bytes < length
    /\ bytes' = bytes + k
    /\ wire' = wire \o [i \in 1..k |-> bytes + i]
    /\ UNCHANGED <<transport, unread, pc, reader, length, sends, delivery,
                   sent, accepted, interrupted>>

\* all is written, the write failed or the timer has expired
SendReturns ==
    /\ pc = "write"
    /\ pc' = "idle"
    /\ bytes' = 0 /\ length' = 0 /\ wire' = <<>>
    /\ UNCHANGED <<transport, unread, reader, sends, delivery, sent, accepted,
                   interrupted>>

Next ==
    \/ BrokerSends
    \/ ReadHeader \/ ReadDigit \/ DigitTimesOut \/ BodyTimesOut
    \/ \E k \in 1..rem_len : ReadBody(k)
    \/ deliverMessage
    \/ StartSend \/ SendReturns \/ \E k \in 1..length : mqttwrite(k)

Spec == Init /\ [][Next]_vars

-----------------------------------------------------------------------------
(* Properties *)

\* As long as no read failed inside a packet, readPacket returns the packets
\* that were sent, each with its type and length and in order, and starts each
\* at a header (MQTTClient.c:106 ff.).
InStep ==
    ~interrupted =>
        /\ accepted = SubSeq(sent, 1, Len(accepted))
        /\ pc = "idle" /\ unread # <<>> => Head(unread).place = "header"
        /\ pc = "idle" /\ unread = <<>> => accepted = sent

\* The length that readPacket puts back into the buffer in place of what it
\* read is the one the deserialisers find there, and they find the body where
\* readPacket puts it, behind the last digit (MQTTClient.c:118).
LengthPutBack ==
    LET digits == MQTTPacket_encode(rem_len)
    IN  pc = "body" =>
            MQTTPacket_decode(digits) = [value |-> rem_len, size |-> Len(digits)]

\* The length the serialisers check against the buffer is never less than what
\* they write, and at most a byte more (MQTTPacket.c:85).
PacketFits ==
    pc = "write" =>
        \E rem \in 0..Limit-1 :
            /\ length = 1 + Len(MQTTPacket_encode(rem)) + rem
            /\ MQTTPacket_len(rem) \in {length, length + 1}

\* When sendPacket reports success, the broker has got each byte of the packet
\* once and in order, however the writes were split (MQTTClient.c:36).
SuccessIsWhole ==
    pc = "write" /\ bytes = length => wire = [i \in 1..length |-> i]

\* A handler is called only for a name its filter matches ...
FilterSound ==
    delivery.called => Matches(delivery.filter, delivery.name)

\* ... and for each such name, unless a level of it is empty or '#' would have
\* to stand for no level at all (MQTTClient.c:134).
FilterComplete ==
    /\ delivery # NoDelivery
    /\ Matches(delivery.filter, delivery.name)
    /\ NoEmptyLevel(delivery.name)
    /\ ~ParentOf(delivery.filter, delivery.name)
    => delivery.called
=============================================================================
