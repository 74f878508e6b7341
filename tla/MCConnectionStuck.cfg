SPECIFICATION FairSpec
CONSTANTS
    None = None
    Sessions = {s1, s2}
    Waiters = {c1}
    Limit = 1
    Tokens = {"strong"}
    Timeouts = FALSE
PROPERTIES WaitersReleased
CHECK_DEADLOCK FALSE
