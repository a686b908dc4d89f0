CONSTANTS
    Scenarios = {"logins", "sessions", "factor", "enrolment", "kyc",
                 "kycOverlap", "onboarding", "codes", "codesOverlap", "admins",
                 "federated", "cases", "casesOverlap"}
    Calls = {c1, c2, c3}
    Pair = {p1, p2}

SPECIFICATION Spec

SYMMETRY Symmetry

CHECK_DEADLOCK FALSE

INVARIANTS
    SessionsEnd
    CodesHold
    KycStatusAgrees
    AdminAccessHolds
    IdentitiesHold
    AlertsReachCases

PROPERTIES
    RotationIsSafe
    DecisionsStand
