SPECIFICATION FairSpec
CONSTANTS
    None = None
    Jobs = {1, 2}
    Refused = {1}
    MaxTime = 1
    Faults = {"api", "timeout"}
    MaxConns = 1
    Transports = {"ws", "polling"}
    MAX_RETRIES = 1
    wsConnectMaxRetries = 1
PROPERTIES
    SettledAsPublished
    PublishedSettles
CHECK_DEADLOCK FALSE
