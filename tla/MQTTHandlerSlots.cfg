CONSTANTS
    Apps = {app1}
    RunTask = run
    NoTask = noTask
    Topics = {a, b}
    NoTopic = none
    MAX_PACKET_ID = 5
    MAX_MESSAGE_HANDLERS = 1
    KeepAlive = 1
    Transport = "tls"
    Kinds <- SubscribeKinds
    MaxCalls = 4
    MaxPush = 0
    MaxConnections = 1
SPECIFICATION Spec
INVARIANTS SubscriptionHasHandler
