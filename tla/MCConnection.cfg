SPECIFICATION FairSpec
CONSTANTS
    None = None
    Sessions = {s1, s2}
    Waiters = {c1}
    Limit = 2
    Tokens = {"strong"}
    Timeouts = TRUE
INVARIANTS LetThroughWhenAccepted
PROPERTIES NoneForgotten LockReleased SendReturns
CHECK_DEADLOCK FALSE
