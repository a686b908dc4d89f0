CONSTANTS
    Users <- MCUsers
    Assets <- MCAssets
    SystemKinds <- MCSystemKinds
    NoUser = NoUser
    NoAdmin = NoAdmin
    Owner = "alice"
    Withdrawals = {w1, w2, w3}
    SmallOnes = {w1, w2}
    LargeOnes = {w3}
    Amount <- MCAmount
    Fee = 1
    DualThreshold = 4
    DailyLimit = 4
    OpeningBalance = 4
    Admins = {a0, a1, a2, a3}
    Reviewers = {a1, a2, a3}
    Workers = {k1, k2}
    EarlyReview = FALSE
    MayFreeze = FALSE
    MaxFailures = 0
    Scenarios = {"dual", "pair"}

SPECIFICATION MCSpec

SYMMETRY MCSymmetry

INVARIANTS
    DualControl
    HeldUntilOutcomeKnown
    SentOnce
    LocksMatchWithdrawals
