SPECIFICATION SocketSpec
CONSTANTS
    MaxLines = 4
    RingSize = 6
    Turns = 2
    W5200_Sn_TXMEM_SIZE = 13
    W5200_SOCKET_TX_BASE = 26
    Buffer = 4
    ReplyLength = 4
INVARIANTS TypeOK RecvNeverSpins RunsInOrder PinNotStuck
    NothingSkipped TextAsTyped ReplyUpToEnd ServerGoesOn
PROPERTIES LineAnswered ImplementsServer
CHECK_DEADLOCK FALSE
