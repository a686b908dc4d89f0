CONSTANTS
    Users <- MCUsers
    Assets <- MCAssets
    SystemKinds <- MCSystemKinds
    NoUser = NoUser
    QScale = 1
    OrderInputs <- MCOneSidedInputs
    Funds <- MCFunds
    QuoteFunds = 2
    BaseFunds = 2
    Prices = {1, 2}
    Quantities = {1}
    Budgets = {1}
    TakerBps = 5000
    MakerBps = 2500
    MinNotional = 1
    BookScanLimit = 500
    MaxOrders = 2
    MaxInFlight = 2
    MaxErrors = 1
    MaxCrashes = 1

SPECIFICATION FairSpec

INVARIANTS
    MarketLockExclusive
    TapeIsSound

PROPERTIES
    RequestsReturn
