CONSTANTS
    Users <- MCUsers
    Assets <- MCAssets
    SystemKinds <- MCSystemKinds
    NoUser = NoUser
    Requests <- MCRequests
    NoRef = "none"
    Clients = {c1, c2}
    MaxAttempts = 2
    MaxCalls = 4

SPECIFICATION FairSpec

INVARIANTS
    TypeOK
    ExactlyOncePerReference
    UserBalancesNonNegative
    BooksAgree
    AcknowledgedIsPosted

PROPERTIES
    ImplementsLedger
    CallsReturn
