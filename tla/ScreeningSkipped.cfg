CONSTANTS
    Scenarios = {"onboarding"}
    Pair = {p1, p2}
    Calls = {c1, c2, c3}

SPECIFICATION Spec

CHECK_DEADLOCK FALSE

PROPERTIES
    ScreenedBeforeApproval
