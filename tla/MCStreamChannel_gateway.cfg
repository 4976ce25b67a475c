SPECIFICATION Spec
CONSTANTS
    Conns = {c1, c2}
    Server = srv
    Addrs = {srv, peer}
    CHANNEL = 1
    DIALS = 1
    WINDOW = 1
    MAX_TROUBLE = 1
    NoConn = NoConn
INVARIANTS MapIsSound
PROPERTIES DetachedEnds Reconnects
CHECK_DEADLOCK FALSE
