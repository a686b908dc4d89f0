CONSTANTS
    Users <- MCUsers
    Assets <- MCAssets
    SystemKinds <- MCSystemKinds
    NoUser = NoUser
    QScale = 3
    OrderInputs <- MCOrderInputs
    Funds <- MCFunds
    QuoteFunds = 4
    BaseFunds = 3
    Prices = {3, 6}
    Quantities = {1, 2}
    Budgets = {3}
    TakerBps = 5000
    MakerBps = 2500
    MinNotional = 1
    BookScanLimit = 500
    MaxOrders = 3
    MaxInFlight = 1
    MaxErrors = 0
    MaxCrashes = 0
    MaxPrice = 5
    MaxQuantity = 3
    MaxBudget = 4
    MaxDepth = 3

SPECIFICATION MatchingSpec

INVARIANTS
    LockCoversExecution
    MatchesReference
    TradesWithinLimits
    OrdersMatchTape
    MoneyMatchesTape
    BookIsUncrossed

PROPERTIES
    TerminalIsFinal
    PriceTimePriorityKept
