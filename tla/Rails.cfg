CONSTANTS
    Users <- MCUsers
    Assets <- MCAssets
    SystemKinds <- MCSystemKinds
    NoUser = NoUser
    Scenarios = {"gateway", "faulty", "checkers", "alone", "together",
                 "scan", "workers", "submit", "other",
                 "retries", "quotes", "treasury", "addresses"}
    Admins = {a1, a2, a3}
    Clerks = {a1, a2}
    NoAdmin = NoAdmin
    Handlers = {h1, h2}
    Callers = {"alice", "bob"}
    Admin = Admin
    NoOwner = NoOwner
    OneWorker = {w1}
    TwoWorkers = {w1, w2}
    Calls = {c1, c2, c3}

SPECIFICATION Spec

CHECK_DEADLOCK FALSE

INVARIANTS
    CreditIsBacked
    ShownIsMoved
    BalanceMatchesHistory
    AnsweredOnce

PROPERTIES
    ImplementsReservation
    CapturedIsCredited
    MinedIsCredited
