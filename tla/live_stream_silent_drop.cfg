CONSTANTS
    s1 = s1
    s2 = s2
    Sockets = {s1, s2}
    NoSocket = NoSocket
    MaxSeq = 3
    MaxSegments = 3
    MAX_UNACKED_FRAMES = 3
    MAX_RECONNECT_ATTEMPTS = 2
SPECIFICATION Spec
INVARIANT NoSilentDrop
CHECK_DEADLOCK FALSE
