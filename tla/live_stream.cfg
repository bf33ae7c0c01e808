CONSTANTS
    s1 = s1
    s2 = s2
    Sockets = {s1, s2}
    NoSocket = NoSocket
    MaxSeq = 3
    MaxSegments = 2
    MAX_UNACKED_FRAMES = 2
    MAX_RECONNECT_ATTEMPTS = 1
SPECIFICATION FairSpec
INVARIANTS
    TypeOK
    UnackedIsTail
    AcksAreBacked
    BridgedOnce
PROPERTIES
    ImplementsSpeechRelay
    ReconnectSettles
CHECK_DEADLOCK FALSE
