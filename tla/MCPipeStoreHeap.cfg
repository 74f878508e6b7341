SPECIFICATION Spec
CONSTANTS
    Logs = {l1, l2, l3, u1, u2}
    Urgent = {u1, u2, a1}
    LogLimit = 4
    MaxPeeks = 2
    logs = logs
    results = results
    Kinds = {logs, results}
    KindOf <- MCKindOf
    ExpiryCount <- MCExpiryCount
    Retries <- MCRetries
    Priority <- MCPriority
    Packages = {l1, l2, l3, u1, u2, a1}
    Perishable = {l3}
    MaxRetries = 2
INVARIANTS IndexAgrees HeapOrdered
PROPERTIES RefinesPipeStore
CONSTRAINT FewPeeks
SYMMETRY MCSymmetry
CHECK_DEADLOCK FALSE
