------------------------------- MODULE Sockets -------------------------------
(***************************************************************************)
(* A Network of MQTTPlatform.c and the sockets of LwIP behind it: how      *)
(* NetworkConnect and TLSConnect (with mbedtls_net_connect of              *)
(* mbedtls_lwip.c) come by a descriptor, and what NetworkDisconnect and    *)
(* TLSDisconnect (mbedtls_net_free) do with it.                            *)
(*                                                                         *)
(* The descriptors are those of one table all tasks share, and the lowest  *)
(* free one is given out next.  A task may run between any two calls of    *)
(* LwIP.                                                                   *)
(***************************************************************************)
EXTENDS Integers

CONSTANTS
    NUM_SOCKETS,        \* size of the table, 18 in the program
    MaxAddresses,       \* bound: addresses a name resolves to
    MaxConnects         \* bound: connections the application asks for

ASSUME SocketsAssumption ==
    /\ NUM_SOCKETS \in Nat \ {0}
    /\ MaxAddresses \in Nat \ {0}
    /\ MaxConnects \in Nat

Descriptors == 0..NUM_SOCKETS - 1
None == -1

VARIABLES
    sockets,            \* LwIP: who asked for each socket, "free", "net" or "ping"
    npc,                \* where the task is that uses the Network
    transport,          \* connected with NetworkConnect or with TLSConnect
    cur,                \* mbedtls_net_connect: addresses left to try
    fd,                 \* Network.fd.fd
    socket,             \* Network.socket
    staleClose,         \* history: mbedtls_net_free closed a socket of others
    abandoned,          \* history: descriptors of connections that were set up when
                        \* their caller left TLSConnect at an error
    connects

network == <<npc, transport, cur, fd, socket, staleClose, abandoned,
             connects>>

PlainPlaces == {"plainSocket", "plainConnect"}
TLSPlaces == {"socket", "connect", "close", "handshake", "failed", "refused"}

SocketsTypeOK ==
    /\ sockets \in [Descriptors -> {"free", "net", "ping"}]
    /\ npc \in {"idle", "open"} \cup PlainPlaces \cup TLSPlaces
    /\ transport \in {"plain", "tls"}
    /\ cur \in 0..MaxAddresses
    /\ fd \in Descriptors \cup {None}
    /\ socket \in Descriptors \cup {None}
    /\ staleClose \in BOOLEAN
    /\ abandoned \subseteq Descriptors
    /\ connects \in 0..MaxConnects

\* NetworkInit
SocketsInit ==
    /\ sockets = [s \in Descriptors |-> "free"]
    /\ npc = "idle" /\ transport = "plain"
    /\ cur = 0 /\ fd = None /\ socket = 0
    /\ staleClose = FALSE /\ abandoned = {} /\ connects = 0

-----------------------------------------------------------------------------
(* LwIP *)

\* alloc_socket finds s
Lowest(s) == sockets[s] = "free" /\ \A t \in Descriptors : t < s => sockets[t] # "free"

Allocate(s, owner) ==
    /\ Lowest(s)
    /\ sockets' = [sockets EXCEPT ![s] = owner]

\* A descriptor that is given out anew is not the one its last user left.
AllocateForNetwork(s) ==
    /\ Allocate(s, "net")
    /\ abandoned' = abandoned \ {s}

\* lwip_close: an error for what is no open descriptor
Closed(s) == [d \in Descriptors |-> IF d = s THEN "free" ELSE sockets[d]]

-----------------------------------------------------------------------------
(* Plain TCP: every failure is returned as success *)

\* getaddrinfo; without an address the descriptor is -1
NetworkConnect ==
    /\ npc = "idle" /\ connects < MaxConnects
    /\ connects' = connects + 1
    /\ transport' = "plain"
    /\ \/ npc' = "plainSocket" /\ UNCHANGED socket
       \/ npc' = "open" /\ socket' = None
    /\ UNCHANGED <<sockets, cur, fd, staleClose, abandoned>>

PlainSocket ==
    /\ npc = "plainSocket"
    /\ \/ /\ \E s \in Descriptors : AllocateForNetwork(s) /\ socket' = s
          /\ npc' = "plainConnect"
       \/ socket' = None /\ npc' = "open" /\ UNCHANGED <<sockets, abandoned>>
    /\ UNCHANGED <<transport, cur, fd, staleClose, connects>>

\* connect: whether it fails is not looked at
PlainConnect ==
    /\ npc = "plainConnect"
    /\ npc' = "open"
    /\ UNCHANGED <<sockets, transport, cur, fd, socket, staleClose, abandoned, connects>>

NetworkDisconnect ==
    /\ npc = "open" /\ transport = "plain"
    /\ sockets' = Closed(socket)
    /\ npc' = "idle"
    /\ UNCHANGED <<transport, cur, fd, socket, staleClose, abandoned, connects>>

-----------------------------------------------------------------------------
(* TLS *)

\* Operators whose name ends in _Fault are the definition after them with a
\* slip in it; no action uses them.  Each is what one of the properties guards
\* against.

\* one address too many
NextAddress_Fault ==
    /\ cur' = cur - 1
    /\ npc' = IF cur = 0 THEN "failed" ELSE "socket"

\* the loop of mbedtls_net_connect goes on to the next address
NextAddress ==
    /\ cur' = cur - 1
    /\ npc' = IF cur' = 0 THEN "failed" ELSE "socket"

\* mbedtls_net_init and getaddrinfo
TLSConnect ==
    /\ npc = "idle" /\ connects < MaxConnects
    /\ connects' = connects + 1
    /\ transport' = "tls"
    /\ fd' = None
    /\ \/ npc' = "socket" /\ cur' \in 1..MaxAddresses
       \/ npc' = "failed" /\ UNCHANGED cur
    /\ UNCHANGED <<sockets, socket, staleClose, abandoned>>

TrySocket ==
    /\ npc = "socket"
    /\ \/ /\ \E s \in Descriptors : AllocateForNetwork(s) /\ fd' = s
          /\ npc' = "connect"
          /\ UNCHANGED cur
       \/ fd' = None /\ NextAddress /\ UNCHANGED <<sockets, abandoned>>
    /\ UNCHANGED <<transport, socket, staleClose, connects>>

TryConnect ==
    /\ npc = "connect"
    /\ npc' \in {"handshake", "close"}
    /\ UNCHANGED <<sockets, transport, cur, fd, socket, staleClose, abandoned, connects>>

\* the next address without closing what the last one left
CloseTried_Fault ==
    /\ npc = "close"
    /\ NextAddress
    /\ UNCHANGED <<sockets, transport, fd, socket, staleClose, abandoned, connects>>

\* The descriptor stays in the context.
CloseTried ==
    /\ npc = "close"
    /\ sockets' = Closed(fd)
    /\ NextAddress
    /\ UNCHANGED <<transport, fd, socket, staleClose, abandoned, connects>>

\* Set-up, certificate, handshake and verification.  Any of them may return an
\* error, with the socket open.  What TLSConnect returns after a success is
\* undefined (it has no return), and may look like an error too.
Handshake ==
    /\ npc = "handshake"
    /\ \/ npc' \in {"open", "refused"} /\ socket' = fd
       \/ npc' = "refused" /\ UNCHANGED socket
    /\ UNCHANGED <<sockets, transport, cur, fd, staleClose, abandoned, connects>>

Disconnectable == npc \in {"failed", "refused"} \/ (npc = "open" /\ transport = "tls")

\* the descriptor of the other transport
TLSDisconnect_Fault ==
    /\ Disconnectable
    /\ sockets' = Closed(socket)
    /\ fd' = None
    /\ npc' = "idle"
    /\ UNCHANGED <<transport, cur, socket, staleClose, abandoned, connects>>

\* mbedtls_net_free, after a success or an error
TLSDisconnect ==
    /\ Disconnectable
    /\ sockets' = Closed(fd)
    /\ fd' = None
    /\ staleClose' = (staleClose \/ (npc = "failed" /\ sockets' # sockets))
    /\ npc' = "idle"
    /\ UNCHANGED <<transport, cur, socket, abandoned, connects>>

\* Or the caller leaves it at the error.  The descriptor stays in the context
\* until mbedtls_net_init of the next TLSConnect writes -1 over it.
GiveUp ==
    /\ npc \in {"failed", "refused"}
    /\ abandoned' = abandoned \cup (IF npc = "refused" THEN {fd} ELSE {})
    /\ npc' = "idle"
    /\ UNCHANGED <<sockets, transport, cur, fd, socket, staleClose, connects>>

NetworkStep ==
    \/ NetworkConnect \/ PlainSocket \/ PlainConnect \/ NetworkDisconnect
    \/ TLSConnect \/ TrySocket \/ TryConnect \/ CloseTried \/ Handshake
    \/ TLSDisconnect \/ GiveUp

-----------------------------------------------------------------------------
(* Properties *)

\* The descriptor by which the Network would close its connection now.
Holds ==
    IF npc = "plainConnect" \/ (npc = "open" /\ transport = "plain") THEN {socket}
    ELSE IF npc \in {"connect", "close", "handshake", "refused", "open"} THEN {fd}
    ELSE {}

\* Whichever call fails in NetworkConnect, TLSConnect and mbedtls_net_connect, on
\* whichever of the addresses, and whatever other tasks open and close meanwhile:
\* every socket the Network was given it still holds, or its caller left it at an
\* error after mbedtls_net_connect had succeeded (MQTTPlatform.c:247-299).  The
\* other way round, a descriptor the Network holds is its own, until a failed
\* connection taken down has closed a socket of others.
SocketsAccounted ==
    LET mine == {s \in Descriptors : sockets[s] = "net"}
    IN  /\ mine \subseteq Holds \cup abandoned
        /\ ~staleClose => (Holds \ {None}) \cup abandoned \subseteq mine
=============================================================================
