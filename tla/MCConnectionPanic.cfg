SPECIFICATION Spec
CONSTANTS
    None = None
    Sessions = {s1}
    Waiters = {c1}
    Limit = 2
    Tokens = {"strong"}
    Timeouts = TRUE
INVARIANTS TimeoutIsHarmless
CHECK_DEADLOCK FALSE
