----------------------------- MODULE StartupTask -----------------------------
(***************************************************************************)
(* StartupTask of Main.c: it waits for the thread of LwIP on a semaphore,  *)
(* brings the network up, pings, and takes the network down again.  An     *)
(* application with a Network (Sockets) runs beside it; the two share the  *)
(* descriptors of LwIP.                                                    *)
(*                                                                         *)
(* Echo requests and their answers are numbered by how many pings were     *)
(* sent; SequenceNumber is that number in sixteen bits.  An answer may be  *)
(* lost, come twice, or come late, and other ICMP packets reach the same   *)
(* socket.                                                                 *)
(***************************************************************************)
EXTENDS Sockets, Sequences

CONSTANTS
    SEQUENCE_NUMBERS,   \* 2^16 in the program
    RAW_RECVMBOX_SIZE,  \* packets a raw socket keeps, 5 in the program
    MaxLate,            \* pings sent before the answer to an earlier one arrives
    MaxPings,           \* bound: pings
    MaxPackets          \* bound: ICMP packets that come in

ASSUME StartupAssumption ==
    /\ RAW_RECVMBOX_SIZE \in Nat \ {0}
    /\ MaxLate \in Nat
    /\ SEQUENCE_NUMBERS \in Nat /\ MaxLate + RAW_RECVMBOX_SIZE < SEQUENCE_NUMBERS
    /\ MaxPings \in Nat
    /\ MaxPackets \in Nat

Foreign == 0            \* a packet that answers no ping of ours

VARIABLES
    spc,                \* where StartupTask is
    semaphore,          \* the one it creates: "none", "empty", "given", "deleted"
    tcpip,              \* the thread of LwIP: "none", "starting", "runs"
    gaveDeleted,        \* history: it has given a deleted semaphore
    pingSocket,         \* socket of PingFunction
    sent,               \* pings sent
    inbox,              \* packets the raw socket keeps
    answer,             \* the answer ReceivePing took for that to the last ping
    intruded,           \* history: the ping loop used a socket of others
    packets             \* ICMP packets that came in

startup == <<spc, semaphore, tcpip, gaveDeleted>>
ping == <<pingSocket, sent, inbox, answer, intruded, packets>>
vars == <<sockets, network, startup, ping>>

Places == {"create", "initialise", "wait", "delete", "wifi", "join", "interface",
           "dhcp", "ping", "send", "receive", "sleep", "close", "down", "off",
           "ended"}

TypeOK ==
    /\ SocketsTypeOK
    /\ spc \in Places
    /\ semaphore \in {"none", "empty", "given", "deleted"}
    /\ tcpip \in {"none", "starting", "runs"}
    /\ gaveDeleted \in BOOLEAN
    /\ pingSocket \in Descriptors \cup {None}
    /\ sent \in 0..MaxPings
    /\ inbox \in Seq(0..MaxPings) /\ Len(inbox) <= RAW_RECVMBOX_SIZE
    /\ answer \in 0..MaxPings
    /\ intruded \in BOOLEAN
    /\ packets \in 0..MaxPackets

Init ==
    /\ SocketsInit
    /\ spc = "create" /\ semaphore = "none" /\ tcpip = "none" /\ gaveDeleted = FALSE
    /\ pingSocket = None /\ sent = 0 /\ inbox = <<>> /\ answer = 0
    /\ intruded = FALSE /\ packets = 0

-----------------------------------------------------------------------------
(* The start of LwIP *)

CreateSemaphore ==
    /\ spc = "create"
    /\ \/ semaphore' = "empty" /\ spc' = "initialise"
       \/ spc' = "ended" /\ UNCHANGED semaphore
    /\ UNCHANGED <<sockets, network, tcpip, gaveDeleted, ping>>

tcpip_init ==
    /\ spc = "initialise"
    /\ tcpip' = "starting"
    /\ spc' = "wait"
    /\ UNCHANGED <<sockets, network, semaphore, gaveDeleted, ping>>

\* the thread reads the handle off the stack of StartupTask and gives
TCPIPInitCallback ==
    /\ tcpip = "starting"
    /\ tcpip' = "runs"
    /\ semaphore' = IF semaphore = "empty" THEN "given" ELSE semaphore
    /\ gaveDeleted' = (gaveDeleted \/ semaphore = "deleted")
    /\ UNCHANGED <<sockets, network, spc, ping>>

\* a wait with a time-out
TakeSemaphore_Fault ==
    /\ spc = "wait"
    /\ semaphore' = "empty"
    /\ spc' = "delete"
    /\ UNCHANGED <<sockets, network, tcpip, gaveDeleted, ping>>

TakeSemaphore ==
    /\ spc = "wait" /\ semaphore = "given"
    /\ semaphore' = "empty"
    /\ spc' = "delete"
    /\ UNCHANGED <<sockets, network, tcpip, gaveDeleted, ping>>

DeleteSemaphore ==
    /\ spc = "delete"
    /\ semaphore' = "deleted"
    /\ spc' = "wifi"
    /\ UNCHANGED <<sockets, network, tcpip, gaveDeleted, ping>>

\* wwd_management_wifi_on, wwd_wifi_join (tried until it succeeds), netif_add and
\* DHCP (polled until it is bound)
NextPlace == [wifi |-> "join", join |-> "interface", interface |-> "dhcp",
              dhcp |-> "ping", down |-> "off", off |-> "ended"]

BringUp ==
    /\ spc \in {"wifi", "join", "interface", "dhcp"}
    /\ \/ spc' = NextPlace[spc]
       \/ spc \in {"wifi", "interface"} /\ spc' = "ended"
    /\ UNCHANGED <<sockets, network, semaphore, tcpip, gaveDeleted, ping>>

\* DHCP, the interface and the driver in the opposite order
TakeDown ==
    /\ spc \in {"down", "off"}
    /\ spc' = NextPlace[spc]
    /\ UNCHANGED <<sockets, network, semaphore, tcpip, gaveDeleted, ping>>

-----------------------------------------------------------------------------
(* PingFunction *)

\* lwip_socket and SO_RCVTIMEO
OpenPingSocket ==
    /\ spc = "ping"
    /\ \/ /\ \E s \in Descriptors : Allocate(s, "ping") /\ pingSocket' = s
          /\ spc' = "send"
       \/ pingSocket' = None /\ spc' = "down" /\ UNCHANGED sockets
    /\ UNCHANGED <<network, semaphore, tcpip, gaveDeleted, sent, inbox, answer,
                   intruded, packets>>

Own == pingSocket \in Descriptors /\ sockets[pingSocket] = "ping"
IsNets == pingSocket \in Descriptors /\ sockets[pingSocket] = "net"

\* A failure of lwip_sendto is -1, which SendPing takes for success.
SendPing ==
    /\ spc = "send" /\ sent < MaxPings
    /\ sent' = sent + 1
    /\ answer' = 0
    /\ intruded' = (intruded \/ IsNets)
    /\ spc' = "receive"
    /\ UNCHANGED <<sockets, network, semaphore, tcpip, gaveDeleted, pingSocket,
                   inbox, packets>>

\* mem_malloc has nothing
SendPingFails ==
    /\ spc = "send"
    /\ spc' = "close"
    /\ UNCHANGED <<sockets, network, semaphore, tcpip, gaveDeleted, ping>>

\* The network hands over an answer to one of the last pings, or some other
\* packet; LwIP drops it when the socket keeps enough of them.
Arrive ==
    /\ Own /\ spc \in {"send", "receive", "sleep", "close"}
    /\ packets < MaxPackets
    /\ packets' = packets + 1
    /\ Len(inbox) < RAW_RECVMBOX_SIZE
    /\ \E packet \in {Foreign} \cup {n \in 1..sent : sent - n <= MaxLate} :
          inbox' = Append(inbox, packet)
    /\ UNCHANGED <<sockets, network, startup, pingSocket, sent, answer, intruded>>

\* any answer will do
Matches_Fault(packet) == packet # Foreign

\* PING_ID, ICMP_ER and the sequence number
Matches(packet) ==
    packet # Foreign /\ packet % SEQUENCE_NUMBERS = sent % SEQUENCE_NUMBERS

ReceivePing ==
    /\ spc = "receive" /\ Own /\ inbox # <<>>
    /\ inbox' = Tail(inbox)
    /\ IF Matches(Head(inbox)) THEN answer' = Head(inbox) /\ spc' = "sleep"
       ELSE UNCHANGED <<answer, spc>>
    /\ UNCHANGED <<sockets, network, semaphore, tcpip, gaveDeleted, pingSocket, sent,
                   intruded, packets>>

\* a receive that waits for ever
ReceiveEnds_Fault ==
    /\ spc = "receive"
    /\ UNCHANGED vars

\* Nothing came for PING_RCV_TIMEOUT, or the descriptor is nobody's.  On a
\* connection of the application recvfrom takes what it finds, or times out.
ReceiveEnds ==
    /\ spc = "receive" /\ (Own => inbox = <<>>)
    /\ intruded' = (intruded \/ IsNets)
    /\ spc' = "sleep"
    /\ UNCHANGED <<sockets, network, semaphore, tcpip, gaveDeleted, pingSocket, sent,
                   inbox, answer, packets>>

\* sys_msleep
Sleep ==
    /\ spc = "sleep"
    /\ spc' = "send"
    /\ UNCHANGED <<sockets, network, semaphore, tcpip, gaveDeleted, ping>>

ClosePing ==
    /\ spc = "close"
    /\ sockets' = Closed(pingSocket)
    /\ intruded' = (intruded \/ IsNets)
    /\ inbox' = <<>>
    /\ spc' = "down"
    /\ UNCHANGED <<network, semaphore, tcpip, gaveDeleted, pingSocket, sent, answer,
                   packets>>

-----------------------------------------------------------------------------

\* The application connects once the interface has its address.
NetworkUp == spc \in {"ping", "send", "receive", "sleep", "close", "down"}
Application == NetworkUp /\ NetworkStep /\ UNCHANGED <<startup, ping>>

PingStep == OpenPingSocket \/ SendPing \/ SendPingFails \/ ReceivePing \/ ReceiveEnds
            \/ Sleep \/ ClosePing

StartupStep == CreateSemaphore \/ tcpip_init \/ TakeSemaphore \/ DeleteSemaphore
               \/ BringUp \/ TakeDown

Next == \/ StartupStep \/ TCPIPInitCallback \/ PingStep
        \/ Arrive \/ Application

Spec == Init /\ [][Next]_vars

\* Both threads run; an access point and a DHCP server are found in the end.
FairSpec == Spec /\ WF_vars(StartupStep) /\ WF_vars(TCPIPInitCallback)
                 /\ WF_vars(ReceivePing) /\ WF_vars(ReceiveEnds)

-----------------------------------------------------------------------------
(* Properties *)

\* No answer to an earlier ping, whenever it comes and however the sequence
\* number has wrapped, is timed as the answer to the last one.
AnswerIsCurrent == answer # 0 => answer = sent

\* StartupTask uses LwIP and frees the semaphore only when the thread of LwIP has
\* started and is done with the semaphore.
LwIPIsReady == /\ spc \notin {"create", "initialise", "wait", "ended"} => tcpip = "runs"
               /\ ~gaveDeleted

\* The ping loop and the application keep to their own sockets, unless the
\* application closed the context of a connection that failed.
OwnSocketsOnly ==
    ~staleClose => /\ ~intruded
                   /\ spc \in {"send", "receive", "sleep", "close"} => Own

\* Every ping ends, answered or not, once no more ICMP packets come.
PingEnds == spc = "receive" ~> spc = "sleep"
=============================================================================
