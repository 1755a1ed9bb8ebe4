SPECIFICATION Spec
CONSTANTS
    None = None
    Requests <- ThreeRequests
    Labels = {"n1", "n2"}
    Parties = {"ann", "bob"}
    OfferIds = {"o1", "o2"}
    InstallPayment = 2500
    TransferPayment = 6
    AccountCreation = 25
    Menu <- InstallMenu
    Faults = {"timeout", "exec"}
INVARIANTS
    InstallOkMeansInstalled
CHECK_DEADLOCK FALSE
