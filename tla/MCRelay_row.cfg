SPECIFICATION Spec
CONSTANTS
    Clients = {1, 2, 3}
    Server = 9
    Links <- RowOfLinks
    Watched <- FirstLink
    PING_TTL = 2
    DATA_TTL = 2
    MAX_TTL = 3
    USE_CHANNEL = "All"
    FIRST_LATENCY = FALSE
    MAX_FLIGHT = 1
    MAX_LOSSES = 1
INVARIANTS RoutesAreTrue
PROPERTIES DirectBothWays
