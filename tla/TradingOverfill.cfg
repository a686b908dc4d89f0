CONSTANTS
    Users <- MCUsers
    Assets <- MCAssets
    SystemKinds <- MCSystemKinds
    NoUser = NoUser
    QScale = 1
    OrderInputs <- MCOneSidedInputs
    Funds <- MCFunds
    QuoteFunds = 4
    BaseFunds = 3
    Prices = {1}
    Quantities = {1, 2}
    Budgets = {1}
    TakerBps = 5000
    MakerBps = 2500
    MinNotional = 1
    BookScanLimit = 500
    MaxOrders = 3
    MaxInFlight = 2
    MaxErrors = 0
    MaxCrashes = 0

SPECIFICATION Spec

INVARIANT TradedWithinQuantity
