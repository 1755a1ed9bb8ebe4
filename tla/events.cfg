SPECIFICATION Spec
CONSTANTS
    None = None
    Jobs = {1, 2}
    Refused = {}
    MaxTime = 1
    Faults = {"link", "server", "cache", "pong", "timeout"}
    MaxConns = 2
    Transports = {"ws", "polling"}
    MAX_RETRIES = 1
    wsConnectMaxRetries = 1
INVARIANTS
    TypeOK
    OpenSocketTracked
    LiveEventNotLost
    EventsInv
PROPERTIES
    SettledAsPublished
CHECK_DEADLOCK FALSE
