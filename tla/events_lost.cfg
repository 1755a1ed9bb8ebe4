SPECIFICATION Spec
CONSTANTS
    None = None
    Jobs = {1, 2}
    Refused = {}
    MaxTime = 1
    Faults = {"link"}
    MaxConns = 2
    Transports = {"ws"}
    MAX_RETRIES = 1
    wsConnectMaxRetries = 1
INVARIANTS
    ReconnectionResends
CHECK_DEADLOCK FALSE
