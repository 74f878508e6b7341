SPECIFICATION PSSpec
CONSTANTS
    Logs = {l1, l2, l3}
    logs = logs
    results = results
    Kinds = {logs, results}
    KindOf <- MCKindOf
    ExpiryCount <- MCExpiryCount
    Retries <- MCRetries
    Priority <- MCPriority
    Packages = {l1, l2, l3, a1}
    Perishable = {l1, a1}
    MaxRetries = 3
INVARIANTS StoreAgrees CountBound PriorityTracksRetries
PROPERTIES DropsFromFront OvertakingBounded
CHECK_DEADLOCK FALSE
