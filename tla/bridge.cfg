SPECIFICATION FairSpec
CONSTANTS
    Subs = {"s1", "s2", "s3"}
    Sockets = {"k1", "k2"}
    SocketOf <- MCSocketOf
    Info <- MCInfo
    Messages <- MCMessages
    MaxTime = 1
INVARIANTS
    TypeOK
    OwnUsersMessages
    UnsharedServed
    ConsumerKnown
    BridgeInv
PROPERTIES
    MessageForwarded
CHECK_DEADLOCK FALSE
