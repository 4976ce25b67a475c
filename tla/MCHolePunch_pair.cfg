SPECIFICATION Spec
CONSTANTS
    Nodes = {1, 2}
    CHANNEL_NUM = 1
    BLIND_ROUNDS = 1
    INTERVAL = 1
    INTERVAL_P2P = 1
    MAX_FLIGHT = 1
    MAX_EVENTS = 1
INVARIANTS SidesAgree
PROPERTIES PairConnects RecordForgotten
