CONSTANTS
    NUM_SOCKETS = 3
    MaxAddresses = 2
    MaxConnects = 2
    SEQUENCE_NUMBERS = 4
    RAW_RECVMBOX_SIZE = 2
    MaxLate = 1
    MaxPings = 5
    MaxPackets = 5
SPECIFICATION FairSpec
INVARIANTS TypeOK SocketsAccounted AnswerIsCurrent LwIPIsReady OwnSocketsOnly
 
CHECK_DEADLOCK FALSE
