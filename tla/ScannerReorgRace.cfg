CONSTANTS
    Users <- MCUsers
    Assets <- MCAssets
    SystemKinds <- MCSystemKinds
    NoUser = NoUser
    Scenarios = {"races"}
    Admins = {a1, a2, a3}
    Clerks = {a1, a2}
    NoAdmin = NoAdmin
    Handlers = {h1, h2}
    Callers = {"alice", "bob"}
    Admin = Admin
    NoOwner = NoOwner
    OneWorker = {w1}
    TwoWorkers = {w1, w2}
    Calls = {c1, c2, c3}

SPECIFICATION Spec

CHECK_DEADLOCK FALSE

INVARIANT
    CreditedOnChain

