CONSTANTS
    Users <- MCUsers
    Assets <- MCAssets
    SystemKinds <- MCSystemKinds
    NoUser = NoUser
    NoAdmin = NoAdmin
    Owner = "alice"
    Withdrawals = {w1, w2}
    SmallOnes = {w1, w2}
    LargeOnes = {w3}
    Amount <- MCAmount
    Fee = 1
    DualThreshold = 4
    DailyLimit = 4
    OpeningBalance = 3
    Admins = {a0}
    Reviewers = {a1, a2, a3}
    Workers = {k1}
    EarlyReview = TRUE
    MayFreeze = TRUE
    MaxFailures = 2
    Scenarios = {"all"}

SPECIFICATION FairSpec

INVARIANTS
    PaidAsSent

PROPERTIES
    ImplementsReservation
    OnChainIsSettled
