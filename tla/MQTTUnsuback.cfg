CONSTANTS
    Apps = {app1}
    RunTask = run
    NoTask = noTask
    Topics = {a}
    NoTopic = none
    MAX_PACKET_ID = 3
    MAX_MESSAGE_HANDLERS = 1
    KeepAlive = 1
    Transport = "tls"
    Kinds <- SubscribeKinds
    MaxCalls = 3
    MaxPush = 0
    MaxConnections = 1
SPECIFICATION Spec
INVARIANTS UnsubackIdMatches
