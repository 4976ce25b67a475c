SPECIFICATION Spec
CONSTANTS
    WIDTH = 5
    MAX_COUNT = 1
    TICKS = 2
    Sources = {s1, s2}
    Hosts = {h1, h2}
    NO_DEST = NO_DEST
    MAX_QUEUE = 1
    MAX_SOCKETS = 3
INVARIANTS
    PacketsReadBack
    ProxiesTransparent
    ReachedOnce
    PacketsDelivered
    ForgeriesRejected
    PunchAimsRight
    ServerFound
    AmountsAddUp
    UdpProxySound
