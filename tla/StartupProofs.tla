---------------------------- MODULE StartupProofs ----------------------------
(***************************************************************************)
(* Proofs about StartupTask and the sockets it shares with a Network, for  *)
(* any table, any number of addresses, pings and packets.                  *)
(***************************************************************************)
EXTENDS StartupTask, TLAPS

\* The context of mbedtls has a descriptor from the socket on, and an address to
\* try as long as it tries.
ContextInv ==
    /\ npc \in {"connect", "close", "handshake", "refused"} => fd # None
    /\ npc = "open" /\ transport = "tls" => fd # None
    /\ npc = "plainConnect" => socket # None
    /\ npc \in {"socket", "connect", "close"} => cur > 0
    /\ npc \in TLSPlaces => transport = "tls"
    /\ npc \in PlainPlaces => transport = "plain"

\* Whatever was closed by mistake, the Network has lost sight only of what its
\* callers left; and it never closes one of those, as it is given none of them
\* again unless somebody else has closed it.
LeakInv ==
    /\ \A s \in Descriptors : sockets[s] = "net" => s \in Holds \cup abandoned
    /\ Holds \cap abandoned = {}

\* Each of the two uses what was allocated for it.  This needs both halves: what
\* one closes by mistake the other loses.
Pinging == {"send", "receive", "sleep", "close"}
SocketsInv ==
    ~staleClose => /\ \A s \in Descriptors :
                          s \in Holds \cup abandoned => sockets[s] = "net"
                   /\ spc \in Pinging => Own
                   /\ ~intruded

\* How far the start has come.
StartInv ==
    /\ spc = "create" => semaphore = "none" /\ tcpip = "none"
    /\ spc = "initialise" => semaphore = "empty" /\ tcpip = "none"
    /\ spc = "wait" => \/ semaphore = "empty" /\ tcpip = "starting"
                       \/ semaphore = "given" /\ tcpip = "runs"
    /\ spc = "ended" => tcpip # "starting"
    /\ spc \notin {"create", "initialise", "wait", "ended"} => tcpip = "runs"
    /\ ~gaveDeleted

\* A packet moves one place towards the head with every ping, so that its age is
\* bounded by the place it has got to.
Turn == IF spc = "receive" THEN 1 ELSE 0
AgeInv ==
    /\ spc \notin Pinging => inbox = <<>>
    /\ Own => \A i \in 1..Len(inbox) :
                  inbox[i] # Foreign =>
                      /\ inbox[i] <= sent
                      /\ sent - inbox[i] <= MaxLate + RAW_RECVMBOX_SIZE - i + Turn

IInv == TypeOK /\ ContextInv /\ LeakInv /\ SocketsInv /\ StartInv /\ AgeInv
        /\ AnswerIsCurrent

\* The invariant holds of the initial states.
LEMMA InitIInv == Init => IInv
  <1> SUFFICES ASSUME Init PROVE IInv
    OBVIOUS
  <1> USE SocketsAssumption, StartupAssumption
  <1>1. TypeOK
    <2>1. 0 \in Descriptors
      BY DEF Descriptors
    <2>2. MaxAddresses \in Nat /\ MaxConnects \in Nat /\ MaxPings \in Nat /\ MaxPackets \in Nat
      OBVIOUS
    <2>3. SocketsTypeOK
      BY <2>1, <2>2 DEF Init, SocketsInit, SocketsTypeOK, None
    <2>4. inbox \in Seq(0..MaxPings) /\ Len(inbox) <= RAW_RECVMBOX_SIZE
      BY DEF Init
    <2>5. /\ spc \in Places
          /\ semaphore \in {"none", "empty", "given", "deleted"}
          /\ tcpip \in {"none", "starting", "runs"}
          /\ pingSocket \in Descriptors \cup {None}
      BY DEF Init, Places
    <2>6. gaveDeleted \in BOOLEAN /\ intruded \in BOOLEAN
      BY DEF Init
    <2>7. sent \in 0..MaxPings /\ answer \in 0..MaxPings /\ packets \in 0..MaxPackets
      BY <2>2 DEF Init
    <2> QED
      BY <2>3, <2>4, <2>5, <2>6, <2>7 DEF TypeOK
  <1>2. ContextInv /\ StartInv
    BY DEF Init, SocketsInit, ContextInv, StartInv, PlainPlaces, TLSPlaces
  <1>3. LeakInv /\ SocketsInv
    BY DEF Init, SocketsInit, LeakInv, SocketsInv, Holds, Pinging
  <1>4. AgeInv /\ AnswerIsCurrent
    BY DEF Init, SocketsInit, AgeInv, AnswerIsCurrent, Pinging, Own, Descriptors, None
  <1> QED
    BY <1>1, <1>2, <1>3, <1>4 DEF IInv

-----------------------------------------------------------------------------
(* Types *)

\* No step of the Network leaves the types of sockets and descriptors.
LEMMA NetworkTypes ==
    ASSUME SocketsTypeOK, ContextInv, NetworkStep
    PROVE  SocketsTypeOK'
  <1> USE SocketsAssumption DEF SocketsTypeOK, Descriptors, None, PlainPlaces, TLSPlaces
  <1>1. CASE NetworkConnect
    BY <1>1 DEF NetworkConnect
  <1>2. CASE PlainSocket
    BY <1>2 DEF PlainSocket, AllocateForNetwork, Allocate
  <1>3. CASE PlainConnect
    BY <1>3 DEF PlainConnect
  <1>4. CASE NetworkDisconnect
    BY <1>4 DEF NetworkDisconnect, Closed
  <1>5. CASE TLSConnect
    BY <1>5 DEF TLSConnect
  <1>6. CASE TrySocket
    <2>1. npc' \in TLSPlaces /\ cur' \in 0..MaxAddresses
      BY <1>6 DEF TrySocket, NextAddress, ContextInv
    <2>2. SocketsTypeOK' <=> /\ sockets' \in [Descriptors -> {"free", "net", "ping"}]
                             /\ fd' \in Descriptors \cup {None}
                             /\ abandoned' \subseteq Descriptors
      BY <1>6, <2>1 DEF TrySocket
    <2> QED
      BY <1>6, <2>2 DEF TrySocket, AllocateForNetwork, Allocate
  <1>7. CASE TryConnect
    BY <1>7 DEF TryConnect
  <1>8. CASE CloseTried
    BY <1>8 DEF CloseTried, Closed, NextAddress, ContextInv
  <1>9. CASE Handshake
    BY <1>9 DEF Handshake
  <1>10. CASE TLSDisconnect
    BY <1>10 DEF TLSDisconnect, Closed
  <1>11. CASE GiveUp
    <2>1. npc = "refused" => fd \in Descriptors
      BY DEF ContextInv
    <2> QED
      BY <1>11, <2>1 DEF GiveUp
  <1> QED
    BY <1>1, <1>2, <1>3, <1>4, <1>5, <1>6, <1>7, <1>8, <1>9, <1>10, <1>11
    DEF NetworkStep

\* No step leaves the types.
LEMMA TypeStep ==
    ASSUME TypeOK, ContextInv, [Next]_vars
    PROVE  TypeOK'
  <1> USE SocketsAssumption, StartupAssumption
  <1>1. CASE StartupStep
    <2> USE <1>1 DEF TypeOK, SocketsTypeOK, network, ping, Places, NextPlace
    <2>1. CASE CreateSemaphore
      BY <2>1 DEF CreateSemaphore
    <2>2. CASE tcpip_init
      BY <2>2 DEF tcpip_init
    <2>3. CASE TakeSemaphore
      BY <2>3 DEF TakeSemaphore
    <2>4. CASE DeleteSemaphore
      BY <2>4 DEF DeleteSemaphore
    <2>5. CASE BringUp
      BY <2>5 DEF BringUp
    <2>6. CASE TakeDown
      BY <2>6 DEF TakeDown
    <2> QED
      BY <2>1, <2>2, <2>3, <2>4, <2>5, <2>6 DEF StartupStep
  <1>2. CASE TCPIPInitCallback
    BY <1>2 DEF TCPIPInitCallback, TypeOK, SocketsTypeOK, network, ping
  <1>3. CASE PingStep
    <2> USE <1>3 DEF TypeOK, SocketsTypeOK, network, ping, Places
    <2>1. CASE OpenPingSocket
      BY <2>1 DEF OpenPingSocket, Allocate
    <2>2. CASE SendPing
      BY <2>2 DEF SendPing, IsNets
    <2>3. CASE SendPingFails
      BY <2>3 DEF SendPingFails
    <2>4. CASE ReceivePing
      <3>1. Tail(inbox) \in Seq(0..MaxPings) /\ Len(Tail(inbox)) <= RAW_RECVMBOX_SIZE
        BY <2>4 DEF ReceivePing
      <3>2. Head(inbox) \in 0..MaxPings
        BY <2>4 DEF ReceivePing
      <3> QED
        BY <2>4, <3>1, <3>2 DEF ReceivePing
    <2>5. CASE ReceiveEnds
      BY <2>5 DEF ReceiveEnds, IsNets
    <2>6. CASE Sleep
      BY <2>6 DEF Sleep
    <2>7. CASE ClosePing
      BY <2>7 DEF ClosePing, IsNets, Closed
    <2> QED
      BY <2>1, <2>2, <2>3, <2>4, <2>5, <2>6, <2>7 DEF PingStep
  <1>4. CASE Arrive
    <2>1. PICK packet \in {Foreign} \cup {n \in 1..sent : sent - n <= MaxLate} :
              inbox' = Append(inbox, packet)
      BY <1>4 DEF Arrive
    <2>2. packet \in 0..MaxPings
      BY DEF TypeOK, Foreign
    <2>3. inbox' \in Seq(0..MaxPings) /\ Len(inbox') <= RAW_RECVMBOX_SIZE
      BY <1>4, <2>1, <2>2 DEF Arrive, TypeOK
    <2> QED
      BY <1>4, <2>3 DEF Arrive, TypeOK, SocketsTypeOK, network, startup
  <1>5. CASE Application
    <2>1. SocketsTypeOK'
      BY <1>5, NetworkTypes DEF Application, TypeOK
    <2> QED
      BY <1>5, <2>1 DEF Application, TypeOK, startup, ping
  <1>6. CASE UNCHANGED vars
    BY <1>6 DEF vars, TypeOK, SocketsTypeOK, network, startup, ping
  <1> QED
    BY <1>1, <1>2, <1>3, <1>4, <1>5, <1>6 DEF Next

-----------------------------------------------------------------------------
(* The context of mbedtls *)

\* The steps that are not the Network's leave it alone.
LEMMA OthersLeaveNetwork ==
    ASSUME StartupStep \/ TCPIPInitCallback \/ PingStep \/ Arrive \/ UNCHANGED vars
    PROVE  UNCHANGED network
  <1>1. CASE StartupStep
    BY <1>1 DEF StartupStep, CreateSemaphore, tcpip_init, TakeSemaphore,
                DeleteSemaphore, BringUp, TakeDown
  <1>2. CASE TCPIPInitCallback
    BY <1>2 DEF TCPIPInitCallback
  <1>3. CASE PingStep
    BY <1>3 DEF PingStep, OpenPingSocket, SendPing, SendPingFails, ReceivePing,
                ReceiveEnds, Sleep, ClosePing
  <1>4. CASE Arrive \/ UNCHANGED vars
    BY <1>4 DEF Arrive, vars
  <1> QED
    BY <1>1, <1>2, <1>3, <1>4

\* The Network keeps its context in order.
LEMMA ContextStep ==
    ASSUME TypeOK, ContextInv, [Next]_vars
    PROVE  ContextInv'
  <1> USE SocketsAssumption
  <1>1. CASE Application
    <2> USE DEF ContextInv, TypeOK, SocketsTypeOK, Descriptors, None, PlainPlaces,
                TLSPlaces
    <2>0. NetworkStep
      BY <1>1 DEF Application
    <2>1. CASE NetworkConnect
      BY <2>1 DEF NetworkConnect
    <2>2. CASE PlainSocket
      BY <2>2 DEF PlainSocket
    <2>3. CASE PlainConnect
      BY <2>3 DEF PlainConnect
    <2>4. CASE NetworkDisconnect
      BY <2>4 DEF NetworkDisconnect
    <2>5. CASE TLSConnect
      BY <2>5 DEF TLSConnect
    <2>6. CASE TrySocket
      BY <2>6 DEF TrySocket, NextAddress
    <2>7. CASE TryConnect
      BY <2>7 DEF TryConnect
    <2>8. CASE CloseTried
      BY <2>8 DEF CloseTried, NextAddress
    <2>9. CASE Handshake
      BY <2>9 DEF Handshake
    <2>10. CASE TLSDisconnect
      BY <2>10 DEF TLSDisconnect
    <2>11. CASE GiveUp
      BY <2>11 DEF GiveUp
    <2> QED
      BY <2>0, <2>1, <2>2, <2>3, <2>4, <2>5, <2>6, <2>7, <2>8, <2>9, <2>10, <2>11
      DEF NetworkStep
  <1>2. CASE ~Application
    <2>1. UNCHANGED network
      BY <1>2, OthersLeaveNetwork DEF Next
    <2> QED
      BY <2>1 DEF network, ContextInv
  <1> QED
    BY <1>1, <1>2

-----------------------------------------------------------------------------
(* The start of LwIP *)

\* The semaphore is deleted after the thread of LwIP gave it.
LEMMA StartStep ==
    ASSUME TypeOK, StartInv, [Next]_vars
    PROVE  StartInv'
  <1> USE DEF StartInv
  <1>1. CASE StartupStep
    <2>1. CASE CreateSemaphore
      BY <2>1 DEF CreateSemaphore
    <2>2. CASE tcpip_init
      BY <2>2 DEF tcpip_init
    <2>3. CASE TakeSemaphore
      BY <2>3 DEF TakeSemaphore
    <2>4. CASE DeleteSemaphore
      BY <2>4 DEF DeleteSemaphore
    <2>5. CASE BringUp
      BY <2>5 DEF BringUp, NextPlace
    <2>6. CASE TakeDown
      BY <2>6 DEF TakeDown, NextPlace
    <2> QED
      BY <1>1, <2>1, <2>2, <2>3, <2>4, <2>5, <2>6 DEF StartupStep
  <1>2. CASE TCPIPInitCallback
    <2>1. spc = "wait" /\ semaphore = "empty"
      BY <1>2 DEF TCPIPInitCallback, TypeOK, Places
    <2> QED
      BY <1>2, <2>1 DEF TCPIPInitCallback
  <1>3. CASE PingStep
    <2>1. UNCHANGED <<semaphore, tcpip, gaveDeleted>>
      BY <1>3 DEF PingStep, OpenPingSocket, SendPing, SendPingFails, ReceivePing,
                  ReceiveEnds, Sleep, ClosePing
    <2>2. /\ spc \in {"ping", "send", "receive", "sleep", "close"}
          /\ spc' \in {"send", "receive", "sleep", "close", "down"}
      BY <1>3 DEF PingStep, OpenPingSocket, SendPing, SendPingFails, ReceivePing,
                  ReceiveEnds, Sleep, ClosePing
    <2> QED
      BY <2>1, <2>2
  <1>4. CASE Arrive \/ Application \/ UNCHANGED vars
    BY <1>4 DEF Arrive, Application, vars, startup
  <1> QED
    BY <1>1, <1>2, <1>3, <1>4 DEF Next

-----------------------------------------------------------------------------
(* Whose socket each is *)

\* What the Network was given it holds, until it closes it or its caller leaves it.
LEMMA LeakStep ==
    ASSUME TypeOK, ContextInv, LeakInv, [Next]_vars
    PROVE  LeakInv'
  <1> USE SocketsAssumption
  <1>1. CASE Application
    <2> USE DEF TypeOK, SocketsTypeOK, ContextInv, LeakInv, Holds, PlainPlaces,
                TLSPlaces, Descriptors, None
    <2>0. NetworkStep
      BY <1>1 DEF Application
    <2>1. CASE NetworkConnect
      BY <2>1 DEF NetworkConnect
    <2>2. CASE PlainSocket
      BY <2>2 DEF PlainSocket, AllocateForNetwork, Allocate, Lowest
    <2>3. CASE PlainConnect
      BY <2>3 DEF PlainConnect
    <2>4. CASE NetworkDisconnect
      BY <2>4 DEF NetworkDisconnect, Closed
    <2>5. CASE TLSConnect
      BY <2>5 DEF TLSConnect
    <2>6. CASE TrySocket
      BY <2>6 DEF TrySocket, AllocateForNetwork, Allocate, Lowest, NextAddress
    <2>7. CASE TryConnect
      BY <2>7 DEF TryConnect
    <2>8. CASE CloseTried
      BY <2>8 DEF CloseTried, Closed, NextAddress
    <2>9. CASE Handshake
      BY <2>9 DEF Handshake
    <2>10. CASE TLSDisconnect
      BY <2>10 DEF TLSDisconnect, Disconnectable, Closed
    <2>11. CASE GiveUp
      BY <2>11 DEF GiveUp
    <2> QED
      BY <2>0, <2>1, <2>2, <2>3, <2>4, <2>5, <2>6, <2>7, <2>8, <2>9, <2>10, <2>11
      DEF NetworkStep
  <1>2. CASE ~Application
    <2>1. Holds' = Holds /\ abandoned' = abandoned
      <3>1. UNCHANGED network
        BY <1>2, OthersLeaveNetwork DEF Next
      <3> QED
        BY <3>1 DEF network, Holds
    <2>2. \A s \in Descriptors : sockets'[s] = "net" => sockets[s] = "net"
      BY <1>2
      DEF Next, StartupStep, CreateSemaphore, tcpip_init, TakeSemaphore,
          DeleteSemaphore, BringUp, TakeDown, TCPIPInitCallback, PingStep,
          OpenPingSocket, SendPing, SendPingFails, ReceivePing, ReceiveEnds, Sleep,
          ClosePing, Arrive, Allocate, Closed, vars, TypeOK, SocketsTypeOK
    <2> QED
      BY <2>1, <2>2 DEF LeakInv
  <1> QED
    BY <1>1, <1>2

\* A step of the Network allocates for it what was free, and closes what it holds.
LEMMA NetworkSockets ==
    ASSUME TypeOK, ContextInv, LeakInv, SocketsInv, NetworkStep, ~staleClose'
    PROVE  /\ ~staleClose
           /\ \A s \in Descriptors : s \in Holds' \cup abandoned' => sockets'[s] = "net"
           /\ \A s \in Descriptors : sockets'[s] = "ping" <=> sockets[s] = "ping"
  <1> USE SocketsAssumption DEF TypeOK, SocketsTypeOK, ContextInv, LeakInv, SocketsInv,
          Holds, PlainPlaces, TLSPlaces
  <1>0. ~staleClose
    BY DEF NetworkStep, NetworkConnect, PlainSocket, PlainConnect, NetworkDisconnect,
           TLSConnect, TrySocket, TryConnect, CloseTried, Handshake, TLSDisconnect,
           GiveUp
  <1>1. CASE NetworkConnect
    BY <1>0, <1>1 DEF NetworkConnect, Descriptors, None
  <1>2. CASE PlainSocket
    BY <1>0, <1>2 DEF PlainSocket, AllocateForNetwork, Allocate, Lowest, Descriptors, None
  <1>3. CASE PlainConnect
    BY <1>0, <1>3 DEF PlainConnect
  <1>4. CASE NetworkDisconnect
    BY <1>0, <1>4 DEF NetworkDisconnect, Closed
  <1>5. CASE TLSConnect
    BY <1>0, <1>5 DEF TLSConnect
  <1>6. CASE TrySocket
    BY <1>0, <1>6 DEF TrySocket, AllocateForNetwork, Allocate, Lowest, NextAddress
  <1>7. CASE TryConnect
    BY <1>0, <1>7 DEF TryConnect
  <1>8. CASE CloseTried
    BY <1>0, <1>8 DEF CloseTried, Closed, NextAddress
  <1>9. CASE Handshake
    BY <1>0, <1>9 DEF Handshake
  <1>10. CASE TLSDisconnect
    <2>1. CASE npc = "failed"
      <3>1. sockets' = sockets /\ npc' = "idle" /\ abandoned' = abandoned
        BY <1>10, <2>1 DEF TLSDisconnect
      <3> QED
        BY <1>0, <2>1, <3>1
    <2>2. CASE npc = "refused" \/ (npc = "open" /\ transport = "tls")
      BY <1>0, <1>10, <2>2 DEF TLSDisconnect, Closed
    <2> QED
      BY <1>10, <2>1, <2>2 DEF TLSDisconnect, Disconnectable
  <1>11. CASE GiveUp
    BY <1>0, <1>11 DEF GiveUp
  <1> QED
    BY <1>0, <1>1, <1>2, <1>3, <1>4, <1>5, <1>6, <1>7, <1>8, <1>9, <1>10, <1>11
    DEF NetworkStep

\* Each of the two keeps to its own.
LEMMA SocketsStep ==
    ASSUME TypeOK, ContextInv, LeakInv, SocketsInv, [Next]_vars
    PROVE  SocketsInv'
  <1> SUFFICES ASSUME ~staleClose'
               PROVE  /\ \A s \in Descriptors :
                             s \in Holds' \cup abandoned' => sockets'[s] = "net"
                      /\ spc' \in Pinging => Own'
                      /\ ~intruded'
    BY DEF SocketsInv
  <1>1. CASE Application
    <2>1. /\ ~staleClose
          /\ \A s \in Descriptors : s \in Holds' \cup abandoned' => sockets'[s] = "net"
          /\ \A s \in Descriptors : sockets'[s] = "ping" <=> sockets[s] = "ping"
      BY <1>1, NetworkSockets DEF Application
    <2>2. UNCHANGED <<spc, pingSocket, intruded>>
      BY <1>1 DEF Application, startup, ping
    <2> QED
      BY <2>1, <2>2 DEF SocketsInv, Own
  <1>2. CASE ~Application
    <2>0. UNCHANGED network
      BY <1>2, OthersLeaveNetwork DEF Next
    <2>1. ~staleClose /\ Holds' = Holds /\ abandoned' = abandoned
      BY <2>0 DEF network, Holds
    <2>2. /\ \A s \in Descriptors : s \in Holds \cup abandoned => sockets[s] = "net"
          /\ spc \in Pinging => Own
          /\ ~intruded
      BY <2>1 DEF SocketsInv
    <2>3. CASE UNCHANGED sockets
      <3>1. CASE StartupStep
        <4>1. UNCHANGED ping /\ spc' \notin Pinging
          BY <3>1 DEF StartupStep, CreateSemaphore, tcpip_init, TakeSemaphore,
                      DeleteSemaphore, BringUp, TakeDown, NextPlace, Pinging
        <4> QED
          BY <2>1, <2>2, <2>3, <4>1 DEF ping, Own
      <3>2. CASE PingStep
        <4>1. CASE spc \in Pinging
          <5>1. Own /\ ~IsNets
            BY <2>2, <4>1 DEF Own, IsNets
          <5>2. UNCHANGED pingSocket
            BY <3>2, <4>1
            DEF PingStep, OpenPingSocket, SendPing, SendPingFails, ReceivePing,
                ReceiveEnds, Sleep, ClosePing, Pinging, ping
          <5>3. (intruded' = intruded) \/ (intruded' = (intruded \/ IsNets))
            BY <3>2, <4>1
            DEF PingStep, OpenPingSocket, SendPing, SendPingFails, ReceivePing,
                ReceiveEnds, Sleep, ClosePing, Pinging, ping
          <5>4. ~intruded'
            BY <2>2, <5>1, <5>3
          <5> QED
            BY <2>1, <2>2, <2>3, <5>1, <5>2, <5>4 DEF Own
        <4>2. CASE spc \notin Pinging
          <5>1. spc' = "down" /\ UNCHANGED intruded
            BY <2>3, <3>2, <4>2
            DEF PingStep, OpenPingSocket, SendPing, SendPingFails, ReceivePing,
                ReceiveEnds, Sleep, ClosePing, Pinging, Allocate, Lowest, TypeOK,
                SocketsTypeOK
          <5> QED
            BY <2>1, <2>2, <2>3, <5>1 DEF Pinging
        <4> QED
          BY <4>1, <4>2
      <3>3. CASE TCPIPInitCallback \/ Arrive \/ UNCHANGED vars
        <4>1. UNCHANGED <<spc, pingSocket, intruded>>
          BY <3>3 DEF TCPIPInitCallback, Arrive, vars, startup, ping
        <4> QED
          BY <2>1, <2>2, <2>3, <4>1 DEF Own
      <3> QED
        BY <1>2, <3>1, <3>2, <3>3 DEF Next
    <2>4. CASE OpenPingSocket /\ ~UNCHANGED sockets
      BY <2>1, <2>2, <2>4
      DEF OpenPingSocket, Allocate, Lowest, Own, Pinging, TypeOK, SocketsTypeOK
    <2>5. CASE ClosePing
      <3>1. Own
        BY <2>2, <2>5 DEF ClosePing, Pinging
      <3>2. pingSocket \notin Holds \cup abandoned /\ ~intruded'
        BY <2>2, <2>5, <3>1 DEF ClosePing, Own, IsNets
      <3> QED
        BY <2>1, <2>2, <2>5, <3>1, <3>2 DEF ClosePing, Closed, Own, Pinging
    <2>6. UNCHANGED sockets \/ OpenPingSocket \/ ClosePing
      BY <1>2
      DEF Next, StartupStep, CreateSemaphore, tcpip_init, TakeSemaphore,
          DeleteSemaphore, BringUp, TakeDown, TCPIPInitCallback, PingStep, SendPing,
          SendPingFails, ReceivePing, ReceiveEnds, Sleep, Arrive, vars
    <2> QED
      BY <2>3, <2>4, <2>5, <2>6
  <1> QED
    BY <1>1, <1>2

-----------------------------------------------------------------------------
(* How old an answer can be *)

\* The arithmetic of the next lemma, with quotients p, q and remainder r.
LEMMA LessThanATurn ==
    ASSUME NEW S \in Nat, S > 0, NEW p \in Int, NEW q \in Int, NEW r \in Int,
           NEW a \in Nat, NEW b \in Nat, a = S * p + r, b = S * q + r,
           b <= a, a - b < S
    PROVE  a = b
  <1>1. a - b = S * (p - q)
    BY SMTT(30)
  <1>2. p - q < 1
    <2> SUFFICES ASSUME p - q >= 1 PROVE FALSE
      OBVIOUS
    <2>1. S * (p - q) >= S
      BY SMTT(30)
    <2> QED
      BY <1>1, <2>1
  <1>3. p - q > -1
    <2> SUFFICES ASSUME q - p >= 1 PROVE FALSE
      OBVIOUS
    <2>1. S * (q - p) >= S
      BY SMTT(30)
    <2>2. S * (q - p) = b - a
      BY SMTT(30)
    <2> QED
      BY <2>1, <2>2
  <1> QED
    BY <1>2, <1>3

\* Two ping numbers are equal when their sequence numbers are and they are less
\* than a turn of the sequence number apart.
LEMMA SequenceNumber ==
    ASSUME NEW a \in Nat, NEW b \in Nat, b <= a, a - b < SEQUENCE_NUMBERS,
           a % SEQUENCE_NUMBERS = b % SEQUENCE_NUMBERS
    PROVE  a = b
  <1>1. SEQUENCE_NUMBERS \in Nat /\ SEQUENCE_NUMBERS > 0
    BY StartupAssumption
  <1> DEFINE p == a \div SEQUENCE_NUMBERS
             q == b \div SEQUENCE_NUMBERS
             r == a % SEQUENCE_NUMBERS
  <1>2. a = SEQUENCE_NUMBERS * p + r /\ b = SEQUENCE_NUMBERS * q + r
    BY <1>1
  <1>3. p \in Int /\ q \in Int /\ r \in Int
    BY <1>1
  <1> HIDE DEF p, q, r
  <1> QED
    BY <1>1, <1>2, <1>3, LessThanATurn

\* A ping ages what is kept by one, and what is taken from the head makes up
\* for it.
LEMMA AgeStep ==
    ASSUME TypeOK, AgeInv, [Next]_vars
    PROVE  AgeInv'
  <1> USE SocketsAssumption, StartupAssumption
  <1>1. CASE StartupStep
    <2>1. UNCHANGED <<sockets, ping>> /\ spc \notin Pinging /\ spc' \notin Pinging
      BY <1>1 DEF StartupStep, CreateSemaphore, tcpip_init, TakeSemaphore,
                  DeleteSemaphore, BringUp, TakeDown, NextPlace, Pinging
    <2> QED
      BY <2>1 DEF ping, AgeInv, Own, Turn, Pinging
  <1>2. CASE PingStep
    <2> USE DEF TypeOK, SocketsTypeOK
    <2>1. CASE OpenPingSocket
      <3>1. inbox = <<>> /\ UNCHANGED inbox
        BY <2>1 DEF OpenPingSocket, AgeInv, Pinging
      <3> QED
        BY <3>1 DEF AgeInv
    <2>2. CASE SendPing
      <3>1. /\ UNCHANGED <<sockets, pingSocket, inbox>> /\ sent' = sent + 1
            /\ spc = "send" /\ spc' = "receive"
        BY <2>2 DEF SendPing, network
      <3> QED
        BY <3>1 DEF AgeInv, Own, Turn, Pinging, Foreign
    <2>3. CASE SendPingFails \/ Sleep
      <3>1. /\ UNCHANGED <<sockets, ping>>
            /\ spc \in {"send", "sleep"} /\ spc' \in {"close", "send"}
        BY <2>3 DEF SendPingFails, Sleep
      <3> QED
        BY <3>1 DEF AgeInv, Own, Turn, Pinging, ping
    <2>4. CASE ReceivePing
      <3>1. /\ UNCHANGED <<sockets, pingSocket, sent>> /\ Own
            /\ inbox # <<>> /\ inbox' = Tail(inbox)
            /\ spc = "receive" /\ spc' \in {"receive", "sleep"}
        BY <2>4 DEF ReceivePing
      <3>2. /\ Len(inbox') = Len(inbox) - 1
            /\ \A i \in 1..Len(inbox') : inbox'[i] = inbox[i + 1] /\ i + 1 \in 1..Len(inbox)
        BY <3>1
      <3>3. ASSUME NEW i \in 1..Len(inbox'), inbox'[i] # Foreign
            PROVE  inbox'[i] <= sent /\ sent - inbox'[i] <= MaxLate + RAW_RECVMBOX_SIZE - i
        <4>1. inbox'[i] = inbox[i + 1] /\ i + 1 \in 1..Len(inbox)
          BY <3>2
        <4>2. inbox[i + 1] \in 0..MaxPings
          BY <4>1
        <4>3. /\ inbox[i + 1] <= sent
              /\ sent - inbox[i + 1] <= MaxLate + RAW_RECVMBOX_SIZE - (i + 1) + Turn
          BY <3>1, <3>3, <4>1 DEF AgeInv
        <4>4. Turn = 1 /\ i \in Nat
          BY <3>1, <3>2 DEF Turn
        <4> QED
          BY <4>1, <4>2, <4>3, <4>4
      <3>4. Turn' \in {0, 1} /\ spc' \in Pinging
        BY <3>1 DEF Turn, Pinging
      <3>5. ASSUME NEW i \in 1..Len(inbox'), inbox'[i] # Foreign
            PROVE  /\ inbox'[i] <= sent
                   /\ sent - inbox'[i] <= MaxLate + RAW_RECVMBOX_SIZE - i + Turn'
        <4>1. PICK t \in {0, 1} : t = Turn'
          BY <3>4
        <4>2. inbox'[i] \in 0..MaxPings /\ i \in Nat
          BY <3>1, <3>2
        <4> QED
          BY <3>3, <3>5, <4>1, <4>2
      <3> QED
        BY <3>1, <3>4, <3>5 DEF AgeInv
    <2>5. CASE ReceiveEnds
      <3>1. /\ UNCHANGED <<sockets, pingSocket, sent, inbox>> /\ spc' = "sleep"
            /\ (Own => inbox = <<>>)
        BY <2>5 DEF ReceiveEnds
      <3> QED
        BY <3>1 DEF AgeInv, Own, Pinging
    <2>6. CASE ClosePing
      BY <2>6 DEF ClosePing, AgeInv
    <2> QED
      BY <1>2, <2>1, <2>2, <2>3, <2>4, <2>5, <2>6 DEF PingStep
  <1>3. CASE Arrive
    <2>1. PICK packet \in {Foreign} \cup {n \in 1..sent : sent - n <= MaxLate} :
              inbox' = Append(inbox, packet)
      BY <1>3 DEF Arrive
    <2>2. /\ UNCHANGED <<sockets, spc, pingSocket, sent>> /\ Own /\ spc \in Pinging
          /\ Len(inbox) < RAW_RECVMBOX_SIZE
      BY <1>3 DEF Arrive, startup, Pinging
    <2>3. Turn' = Turn /\ Turn \in {0, 1}
      BY <2>2 DEF Turn
    <2>4. packet \in 0..MaxPings /\ inbox \in Seq(0..MaxPings) /\ sent \in 0..MaxPings
      BY DEF TypeOK, Foreign
    <2>5. ASSUME NEW i \in 1..Len(inbox'), inbox'[i] # Foreign
          PROVE  /\ inbox'[i] <= sent
                 /\ sent - inbox'[i] <= MaxLate + RAW_RECVMBOX_SIZE - i + Turn
      <3>1. CASE i \in 1..Len(inbox)
        <4>1. inbox'[i] = inbox[i]
          BY <2>1, <2>4, <3>1
        <4> QED
          BY <2>2, <2>5, <3>1, <4>1 DEF AgeInv
      <3>2. CASE i = Len(inbox) + 1
        <4>1. inbox'[i] = packet
          BY <2>1, <2>4, <3>2
        <4>2. packet \in 1..sent /\ sent - packet <= MaxLate
          BY <2>1, <2>5, <4>1
        <4>3. i \in Nat /\ i <= RAW_RECVMBOX_SIZE
          BY <2>2, <2>4, <3>2
        <4> QED
          BY <2>3, <2>4, <4>1, <4>2, <4>3
      <3> QED
        BY <2>1, <2>4, <3>1, <3>2
    <2> QED
      BY <2>2, <2>3, <2>5 DEF AgeInv, Own
  <1>4. CASE TCPIPInitCallback \/ UNCHANGED vars
    <2>1. UNCHANGED <<sockets, spc, ping>>
      BY <1>4 DEF TCPIPInitCallback, vars, startup
    <2> QED
      BY <2>1 DEF AgeInv, Own, Turn, ping
  <1>5. CASE Application
    <2>1. UNCHANGED <<spc, pingSocket, sent, inbox>>
      BY <1>5 DEF Application, startup, ping
    <2>2. Own' => Own
      BY <1>5, <2>1
      DEF Application, NetworkStep, NetworkConnect, PlainSocket, PlainConnect,
          NetworkDisconnect, TLSConnect, TrySocket, TryConnect, CloseTried, Handshake,
          TLSDisconnect, GiveUp, AllocateForNetwork, Allocate, Closed, Own, TypeOK,
          SocketsTypeOK
    <2> QED
      BY <2>1, <2>2 DEF AgeInv, Turn
  <1> QED
    BY <1>1, <1>2, <1>3, <1>4, <1>5 DEF Next

\* What ReceivePing takes for an answer answers the last ping.
LEMMA AnswerStep ==
    ASSUME TypeOK, AgeInv, AnswerIsCurrent, [Next]_vars
    PROVE  AnswerIsCurrent'
  <1>1. CASE ReceivePing /\ Matches(Head(inbox))
    <2> DEFINE packet == Head(inbox)
    <2>1. /\ Own /\ inbox # <<>> /\ spc = "receive"
          /\ answer' = packet /\ UNCHANGED sent
          /\ packet # Foreign /\ packet % SEQUENCE_NUMBERS = sent % SEQUENCE_NUMBERS
      BY <1>1 DEF ReceivePing, Matches
    <2>2. packet = inbox[1] /\ 1 \in 1..Len(inbox) /\ packet \in 0..MaxPings
      <3>1. inbox \in Seq(0..MaxPings)
        BY DEF TypeOK
      <3>2. Len(inbox) \in Nat /\ Len(inbox) > 0
        BY <2>1, <3>1
      <3>3. Head(inbox) = inbox[1]
        BY <3>1, <3>2
      <3>4. 1 \in 1..Len(inbox)
        BY <3>2
      <3>5. inbox[1] \in 0..MaxPings
        BY <3>1, <3>2, StartupAssumption
      <3> QED
        BY <3>3, <3>4, <3>5
    <2>3. packet <= sent /\ sent - packet <= MaxLate + RAW_RECVMBOX_SIZE - 1 + 1
      BY <2>1, <2>2 DEF AgeInv, Turn
    <2>4. packet \in Nat /\ sent \in Nat /\ sent - packet < SEQUENCE_NUMBERS
      BY <2>2, <2>3, StartupAssumption DEF TypeOK
    <2>5. packet = sent
      <3> HIDE DEF packet
      <3> QED
        BY <2>1, <2>3, <2>4, SequenceNumber
    <2> QED
      BY <2>1, <2>5 DEF AnswerIsCurrent
  <1>2. CASE SendPing
    BY <1>2 DEF SendPing, AnswerIsCurrent
  <1>3. CASE ~SendPing /\ ~(ReceivePing /\ Matches(Head(inbox)))
    <2>1. UNCHANGED <<answer, sent>>
      BY <1>3
      DEF Next, StartupStep, CreateSemaphore, tcpip_init, TakeSemaphore,
          DeleteSemaphore, BringUp, TakeDown, TCPIPInitCallback, PingStep,
          OpenPingSocket, SendPingFails, ReceivePing, ReceiveEnds, Sleep, ClosePing,
          Arrive, Application, vars, ping
    <2> QED
      BY <2>1 DEF AnswerIsCurrent
  <1> QED
    BY <1>1, <1>2, <1>3

-----------------------------------------------------------------------------

\* IInv holds of every state the program reaches.
THEOREM Inductive == Spec => []IInv
  <1>1. IInv /\ [Next]_vars => IInv'
    BY TypeStep, ContextStep, LeakStep, SocketsStep, StartStep, AgeStep, AnswerStep DEF IInv
  <1> QED
    BY InitIInv, <1>1, PTL DEF Spec

\* The states of StartupTask, of the ping loop and of the descriptors are those
\* of TypeOK: mbedtls_net_connect never looks past the last address.
THEOREM TypeCorrect == Spec => []TypeOK
  <1>1. IInv => TypeOK
    BY DEF IInv
  <1> QED
    BY <1>1, Inductive, PTL

\* Whatever fails in NetworkConnect, TLSConnect and mbedtls_net_connect, and at
\* whichever address: a socket the Network was given is closed or held by it, or its
\* caller left it at an error of TLSConnect after mbedtls_net_connect had succeeded
\* (MQTTPlatform.c:247-299), which is how sockets are lost, and the only way.  Until
\* a failed connection is taken down, what the Network holds is its own, too.
THEOREM SocketsAlwaysAccounted == Spec => []SocketsAccounted
  <1>1. IInv => SocketsAccounted
    <2> DEFINE mine == {s \in Descriptors : sockets[s] = "net"}
    <2> SUFFICES ASSUME IInv
                 PROVE  /\ mine \subseteq Holds \cup abandoned
                        /\ ~staleClose => (Holds \ {None}) \cup abandoned \subseteq mine
      BY DEF SocketsAccounted
    <2>1. mine \subseteq Holds \cup abandoned
      BY DEF IInv, LeakInv
    <2>2. Holds \subseteq Descriptors \cup {None} /\ abandoned \subseteq Descriptors
      BY SocketsAssumption DEF IInv, TypeOK, SocketsTypeOK, Holds, Descriptors, None
    <2>3. ASSUME ~staleClose PROVE (Holds \ {None}) \cup abandoned \subseteq mine
      BY <2>2, <2>3 DEF IInv, SocketsInv
    <2> QED
      BY <2>1, <2>3
  <1> QED
    BY <1>1, Inductive, PTL

\* The ping loop and the application never use each other's sockets, as long as
\* no failed connection is taken down.
THEOREM SocketsAreOwn == Spec => []OwnSocketsOnly
  <1>1. IInv => OwnSocketsOnly
    BY DEF IInv, SocketsInv, OwnSocketsOnly, Pinging
  <1> QED
    BY <1>1, Inductive, PTL

\* StartupTask uses LwIP after its thread runs, and never frees a semaphore that
\* is still to be given.
THEOREM LwIPIsAlwaysReady == Spec => []LwIPIsReady
  <1>1. IInv => LwIPIsReady
    BY DEF IInv, StartInv, LwIPIsReady
  <1> QED
    BY <1>1, Inductive, PTL

\* No late or repeated answer is timed as the answer to the last ping, as long
\* as the network and the mailbox together keep fewer answers than there are
\* sequence numbers.
THEOREM AnswersAreCurrent == Spec => []AnswerIsCurrent
  <1>1. IInv => AnswerIsCurrent
    BY DEF IInv
  <1> QED
    BY <1>1, Inductive, PTL
=============================================================================
