SPECIFICATION Spec
CONSTANTS
    None = None
    Requests <- ThreeRequests
    Labels = {"n1"}
    Parties = {"ann", "bob", "ian", "joe"}
    OfferIds = {"o1"}
    InstallPayment = 2500
    TransferPayment = 6
    AccountCreation = 25
    Menu <- TransferMenu
    Faults = {"rpc", "timeout", "exec"}
INVARIANTS
    NoEffectBeforeRejection
    TokensHeldByKnownParty
    LinksBacked
    LinksInv
PROPERTIES
    TransferOutcome
CHECK_DEADLOCK FALSE
