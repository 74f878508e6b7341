SPECIFICATION PipeFairSpec
CONSTANTS
    Logs = {l1, l2}
    logs = logs
    results = results
    Kinds = {logs, results}
    KindOf <- MCKindOf
    ExpiryCount <- MCExpiryCount
    Retries <- MCRetries
    Priority <- MCPriority
    None = None
    Workers = {w1, w2}
    Packages = {l1, l2}
    Perishable = {l1, l2}
    MaxRetries = 3
INVARIANTS NoLostWakeup PackageInOnePlace
PROPERTIES EventuallySettled ExpiredStaysOut
CHECK_DEADLOCK FALSE
