CONSTANTS
    Apps = {app1}
    RunTask = run
    NoTask = noTask
    Topics = {a}
    NoTopic = none
    MAX_PACKET_ID = 2
    MAX_MESSAGE_HANDLERS = 1
    KeepAlive = 1
    Transport = "tls"
    Kinds <- PublishKinds
    MaxCalls = 2
    MaxPush = 0
    MaxConnections = 1
SPECIFICATION FairSpec
PROPERTIES MutexReleased
