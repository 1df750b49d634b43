CONSTANTS
    Apps = {app1}
    RunTask = run
    NoTask = noTask
    Topics = {a}
    NoTopic = none
    MAX_PACKET_ID = 2
    MAX_MESSAGE_HANDLERS = 2
    KeepAlive = 1
    Transport = "tls"
    Kinds <- SafetyKinds
    MaxCalls = 3
    MaxPush = 1
    MaxConnections = 2
SPECIFICATION Spec
INVARIANTS SystemTypeOK MutexOwner AckIsOwn OnePing ConnectedIsAccepted DeliveriesBounded
