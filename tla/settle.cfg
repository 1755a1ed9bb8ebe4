SPECIFICATION FairSpec
CONSTANTS
    None = None
    Requests <- TwoRequests
    Labels = {"n1"}
    Parties = {"ann", "ian"}
    OfferIds = {"o1"}
    InstallPayment = 2500
    TransferPayment = 6
    AccountCreation = 25
    Menu <- SettleMenu
    Faults = {"kms", "rpc", "timeout", "exec", "crash"}
PROPERTIES
    TransferOutcome
    EveryRequestSettles
CHECK_DEADLOCK FALSE
