SPECIFICATION Spec
CONSTANTS
    None = None
    Sessions = {s1}
    Waiters = {c1}
    Limit = 2
    Tokens = {"strong", "weak"}
    Timeouts = FALSE
INVARIANTS ReadyMeansAuthenticated
CHECK_DEADLOCK FALSE
